------------------------------ MODULE Allocator ------------------------------
(***************************************************************************)
(* What a program may rely on: the memory it has been given, and not given *)
(* back, is its own.  given has the size of each block by its address; own *)
(* is the memory that the program got from the system by itself.           *)
(***************************************************************************)
EXTENDS Integers

VARIABLES given, own

vars == <<given, own>>

Cells(p, size) == p .. p + size - 1

\* The cells are nobody's but, maybe, those of block q.
FreeFor(cells, q) ==
    /\ cells \cap own = {}
    /\ \A p \in DOMAIN given \ {q} : cells \cap Cells(p, given[p]) = {}

Init == given = << >> /\ own = {}

Give == \E p \in DOMAIN given' \ DOMAIN given :
    /\ FreeFor(Cells(p, given'[p]), 0)
    /\ given' = [q \in DOMAIN given \cup {p} |-> IF q = p THEN given'[p] ELSE given[q]]
    /\ UNCHANGED own

Resize == \E p \in DOMAIN given :
    /\ DOMAIN given' = DOMAIN given
    /\ FreeFor(Cells(p, given'[p]), p)
    /\ given' = [given EXCEPT ![p] = given'[p]]
    /\ UNCHANGED own

TakeBack == \E p \in DOMAIN given :
    /\ given' = [q \in DOMAIN given \ {p} |-> given[q]]
    /\ UNCHANGED own

\* The program may only add what is not the memory of a block.
Extend ==
    /\ own \subseteq own' /\ FreeFor(own' \ own, 0)
    /\ UNCHANGED given

Spec == Init /\ [][Give \/ Resize \/ TakeBack \/ Extend]_vars
===============================================================================
