------------------------------ MODULE MCNearHeap ------------------------------
(***************************************************************************)
(* The near heap for TLC, and __MemFree on every miniheap of Blocks blocks, *)
(* of which up to MaxFree are free: the ways in which it looks for the      *)
(* place of a block in the ring differ by the rover and by the numbers of   *)
(* free and of allocated blocks, and the last of them takes more allocated  *)
(* blocks than a program of NearHeap has.                                   *)
(***************************************************************************)
EXTENDS NearHeap, TLC

CONSTANTS Blocks, MaxFree

H == 1  \* the address of the miniheap

At(i) == H + DESCRIPTOR + (i - 1) * FRL_SIZE

\* The miniheap of which the blocks in free are free.
Layout(free, rover) ==
    [len |-> [b \in {At(i) : i \in 1..Blocks + 1} |-> IF b = At(Blocks + 1) THEN END_TAG
                                                ELSE FRL_SIZE],
     used |-> {At(i) : i \in 1..Blocks \ free},
     list |-> <<H>>,
     mh |-> H :> [len |-> DESCRIPTOR + Blocks * FRL_SIZE,
                  free |-> <<H>> \o SetToSortSeq({At(i) : i \in free}, <),
                  rover |-> rover, b4rover |-> FRL_SIZE, largest_blk |-> FRL_SIZE,
                  numalloc |-> Blocks - Cardinality(free), numfree |-> Cardinality(free)],
     MiniHeapRover |-> H, LargestSizeB4 |-> 0, MiniHeapFreeRover |-> H,
     curbrk |-> 0, wild |-> FALSE]

\* No two free blocks are neighbours.
FreeSets == {free \in UNION {kSubset(n, 1..Blocks) : n \in 0..MaxFree} :
                \A i \in free : i + 1 \notin free}
Rovers(free) == {H} \cup {At(i) : i \in free}

\* Whichever way the place is found (mem.c:267), a block that is no neighbour of
\* a free block above it goes before the first free block above it, and the ring
\* is the free blocks in order also when the block is free.
PlaceIsNext(heap, b) ==
    LET above == {c \in ToSet(heap.mh[H].free) : c > b}
    IN  IsFree(heap, b + FRL_SIZE) \/ Place(heap, H, b) = IF above = {} THEN H ELSE Min(above)

RingKept(heap) ==
    heap.mh[H].free = <<H>> \o SetToSortSeq({b \in DOMAIN heap.len : IsFree(heap, b)}, <)

ASSUME PlacesAssumption ==
    \A free \in FreeSets : \A rover \in Rovers(free) :
        LET heap == Layout(free, rover) IN
        \A b \in heap.used : PlaceIsNext(heap, b) /\ RingKept(nfree(heap, b + TAG_SIZE))

\* Bound of the run: while sbrk is between its steps the break is as it was read.
BreakAsRead == asked = NotAsked \/ asked.from = near.curbrk
===============================================================================
