---------------------------- MODULE PlainMemory ----------------------------
(***************************************************************************)
(* What virtmem.h promises its callers: an array of cells that remembers    *)
(* what was last put into it (without USE_VIRTMEM the header defines the    *)
(* same operations as memcpy, memset and memcmp on real memory).  A call    *)
(* may proceed in pieces, from its first cell to its last; nothing but the  *)
(* call in progress touches the cells.                                      *)
(***************************************************************************)
EXTENDS Integers, Sequences, FiniteSets

CONSTANTS Addr,        \* the addresses of the cells
          Null,        \* what PutNulls writes
          Unwritten    \* a cell no call has written

VARIABLES store,   \* address -> value
          call     \* the call in progress, or NoCall

NoCall == [op |-> "none", addr |-> 0, len |-> 0, got |-> <<>>]

(* The caller's buffer holds for every cell a value of that cell's own, so *)
(* a value that turns up at another address is seen.                       *)
Own(a) == a

Init == /\ store = [a \in Addr |-> Unwritten]
        /\ call = NoCall

Begin(op, a, n) ==
    /\ call = NoCall
    /\ a..(a + n - 1) \subseteq Addr
    /\ call' = [op |-> op, addr |-> a, len |-> n, got |-> <<>>]
    /\ UNCHANGED store

(* The first n cells of what is left of the call. *)
Piece(n) == call.addr..(call.addr + n - 1)
Rest(n)  == [call EXCEPT !.addr = @ + n, !.len = @ - n]

Put(n) ==
    /\ call.op \in {"PutInfo", "PutNulls"}
    /\ store' = [a \in Addr |-> IF a \notin Piece(n) THEN store[a]
                                ELSE IF call.op = "PutInfo" THEN Own(a) ELSE Null]
    /\ call' = Rest(n)

Read(n) ==
    /\ call.op = "ReadInfo"
    /\ call' = [Rest(n) EXCEPT !.got = @ \o [i \in 1..n |-> store[call.addr + i - 1]]]
    /\ UNCHANGED store

(* The comparison stops at the first piece that differs. *)
Compare(n) ==
    /\ call.op = "CompareInfo"
    /\ LET same == \A a \in Piece(n) : store[a] = Own(a)
       IN  call' = [Rest(n) EXCEPT !.got = <<same>>, !.len = IF same THEN @ ELSE 0]
    /\ UNCHANGED store

Return ==
    /\ call # NoCall
    /\ call.len = 0
    /\ call' = NoCall
    /\ UNCHANGED store

Next == \/ \E op \in {"PutInfo", "PutNulls", "ReadInfo", "CompareInfo"},
              a \in Addr, n \in 1..Cardinality(Addr) : Begin(op, a, n)
        \/ \E n \in 1..call.len : Put(n) \/ Read(n) \/ Compare(n)
        \/ Return

Spec == Init /\ [][Next]_<<store, call>>
=============================================================================
