------------------------------- MODULE MiniHeap -------------------------------
(***************************************************************************)
(* The blocks of the near heap of the C runtime: what __MemAllocator and   *)
(* __MemFree do to one miniheap (clib/heap/c/mem.c), and what _nfree and   *)
(* the growth of the heap do to the list of them (nfree.c, grownear.c).    *)
(*                                                                         *)
(* Memory is counted in tags of 4 bytes.  The data of the heap is a record *)
(*   len     the tag in front of each block, without its low bit; END_TAG  *)
(*           after the last block of a miniheap                            *)
(*   used    the blocks whose tag has the low bit: those allocated         *)
(*   list    the miniheaps from __nheapbeg on, linked by prev and next     *)
(*   mh      their descriptors.  free is the ring of free blocks: first    *)
(*           freehead, seen as the address of the miniheap (as all in the  *)
(*           descriptor it is below the blocks, and its len is 0)          *)
(*   MiniHeapRover, LargestSizeB4, MiniHeapFreeRover, curbrk               *)
(*   wild    history: _nfree has read a rover that is no miniheap          *)
(***************************************************************************)
EXTENDS Integers, Sequences, SequencesExt

TAG_SIZE == 1
FRL == 3          \* sizeof( frl )
FRL_SIZE == 4     \* the same, rounded up: the smallest block
DESCRIPTOR == 11  \* sizeof( struct miniheapblkp )
END_TAG == -1
NULL == 0
Largest == 10000  \* ~0 as a size

Even(n) == n + (n % 2)  \* (n + ROUND_SIZE) & ~ROUND_SIZE

BlockSize(amt) == Max({FRL_SIZE, Even(amt + TAG_SIZE)})

IsFree(s, b) == b \notin s.used /\ s.len[b] # END_TAG

IndexIn(q, e) == CHOOSE i \in DOMAIN q : q[i] = e

\* The links next and prev of the ring of free blocks.
After(ring, b) ==
    IF b = Last(ring) THEN ring[1] ELSE ring[IndexIn(ring, b) + 1]
Before(ring, b) ==
    IF b = ring[1] THEN Last(ring) ELSE ring[IndexIn(ring, b) - 1]

Unlink(q, e) == RemoveAt(q, IndexIn(q, e))

With(f, x, v) == [y \in DOMAIN f \cup {x} |-> IF y = x THEN v ELSE f[y]]
Without(f, x) == Restrict(f, DOMAIN f \ {x})

-------------------------------------------------------------------------------
\* The tags, the allocated blocks and the descriptor of h become these.
Changed(s, h, len, used, m) ==
    [s EXCEPT !.len = len, !.used = used, !.mh[h] = m]

\* The i-th of the ring is allocated, the part beyond size split off when it
\* can be a block of its own.
Take(s, h, i, size, b4rover) ==
    LET m == [s.mh[h] EXCEPT !.b4rover = b4rover, !.numalloc = @ + 1]
        a == m.free[i]
        left == s.len[a] - size
    IN  IF left >= FRL_SIZE
        THEN Changed(s, h, With(With(s.len, a + size, left), a, size), s.used \cup {a},
                     [m EXCEPT !.free[i] = a + size, !.rover = a + size])
        ELSE Changed(s, h, s.len, s.used \cup {a},
                     [m EXCEPT !.free = RemoveAt(@, i), !.rover = Before(m.free, a),
                               !.numfree = @ - 1])

\* First fit, from the rover or, when a block before it may fit, from the first
\* free block.
MemAllocator(s, h, amt) ==
    LET m == s.mh[h]
        size == BlockSize(amt)
        restart == size <= m.b4rover
        from == IF restart THEN 2 ELSE Max({2, IndexIn(m.free, m.rover)})
        fits == {i \in from..Len(m.free) : size <= s.len[m.free[i]]}
        passed(to) == Max({IF restart THEN 0 ELSE m.b4rover}
                          \cup {s.len[m.free[i]] : i \in from..to})
    IN  CASE size > m.largest_blk -> [block |-> NULL, heap |-> s]
          [] size <= m.largest_blk /\ fits = {} ->
                [block |-> NULL,
                 heap |-> [s EXCEPT !.mh[h].largest_blk = passed(Len(m.free))]]
          [] size <= m.largest_blk /\ fits # {} ->
                [block |-> m.free[Min(fits)],
                 heap |-> Take(s, h, Min(fits), size, passed(Min(fits) - 1))]

SearchFrom(m, a) == IF a < m.rover THEN m.free[2] ELSE m.rover

\* The entry of the ring that comes after the block a when a is no neighbour of
\* a free block above it: near the rover, at an end, at the first free block
\* found by going over the allocated ones (which is given up after limit of
\* them, 0 for never), or by going through the ring.
Place(s, h, a) ==
    LET m == s.mh[h]
        first == After(m.free, h)
        average == m.numalloc \div (m.numfree + 1)
        limit == IF m.numalloc - m.numfree \in 0..m.numfree THEN 0
                 ELSE 2 * average
        above == Min({b \in DOMAIN s.len : a < b /\ b < h + m.len /\ IsFree(s, b)})
        allocated == Cardinality({b \in s.used : a < b /\ b < above})
        from == IndexIn(m.free, SearchFrom(m, a))
    IN  CASE a < m.rover /\ a > Before(m.free, m.rover) -> m.rover
          [] a < m.rover /\ a < first -> first
          [] a >= m.rover /\ a < After(m.free, m.rover) -> After(m.free, m.rover)
          [] a >= m.rover /\ a > Before(m.free, h) -> h
          [] OTHER -> IF average < m.numfree /\ (limit = 0 \/ allocated < limit)
                      THEN above
                      ELSE m.free[Min({i \in from..Len(m.free) : a < m.free[i]})]

\* The free block n that follows the block a becomes part of it.
JoinNext(s, h, a, n) ==
    Changed(s, h, With(Without(s.len, n), a, s.len[a] + s.len[n]), s.used,
            [s.mh[h] EXCEPT !.free = Unlink(@, n), !.numfree = @ - 1,
                            !.rover = IF @ = n THEN a ELSE @])

\* The block a goes into the ring before pnext, or becomes part of the free
\* block that it follows.
LinkFree(s, h, a, pnext) ==
    LET m == s.mh[h]
        pprev == Before(m.free, pnext)
        joins == pprev # h /\ pprev + s.len[pprev] = a
        at == IF pnext = h THEN Len(m.free) + 1 ELSE IndexIn(m.free, pnext)
    IN  IF joins
        THEN [block |-> pprev,
              heap |-> Changed(s, h, With(Without(s.len, a), pprev, s.len[pprev] + s.len[a]), s.used,
                               [m EXCEPT !.rover = IF @ = a THEN pprev ELSE @])]
        ELSE [block |-> a,
              heap |-> Changed(s, h, s.len, s.used,
                               [m EXCEPT !.free = InsertAt(@, at, a), !.numfree = @ + 1])]

\* Mutant: a free block before the rover is not noted.
SameBeforeRover(m, b, size) == m.b4rover

BeforeRover(m, b, size) ==
    IF b < m.rover THEN Max({m.b4rover, size}) ELSE m.b4rover

MemFree(s, h, a) ==
    LET n == a + s.len[a]
        pnext == IF IsFree(s, n) THEN After(s.mh[h].free, n) ELSE Place(s, h, a)
        linked == LinkFree(IF IsFree(s, n) THEN JoinNext(s, h, a, n) ELSE s, h, a, pnext)
        size == linked.heap.len[linked.block]
        m == linked.heap.mh[h]
    IN  Changed(linked.heap, h, linked.heap.len, s.used \ {a},
                [m EXCEPT !.numalloc = @ - 1,
                          !.b4rover = BeforeRover(m, linked.block, size),
                          !.largest_blk = Max({@, size})])

-------------------------------------------------------------------------------
\* The miniheap an address is in.  _nfree looks at the rovers and their
\* neighbours before it goes through the list; since miniheaps are apart the
\* order does not matter.
Holders(s, p) == {h \in ToSet(s.list) : h <= p /\ p < h + s.mh[h].len}

Live(s, h) == h = NULL \/ Contains(s.list, h)

\* Mutant: a free block in a miniheap before the rover is not noted.
SameSizeB4(s, h, largest) == s.LargestSizeB4

SizeB4(s, h, largest) ==
    IF h < s.MiniHeapRover THEN Max({s.LargestSizeB4, largest})
    ELSE s.LargestSizeB4

nfree(s, stg) ==
    LET h == CHOOSE x \in Holders(s, stg) : TRUE
        freed == MemFree(s, h, stg - TAG_SIZE)
        wild == s.wild \/ ~Live(s, s.MiniHeapFreeRover) \/ ~Live(s, s.MiniHeapRover)
    IN  IF Holders(s, stg) = {} THEN [s EXCEPT !.wild = wild]
        ELSE [freed EXCEPT
                !.wild = wild,
                !.MiniHeapFreeRover = h,
                !.LargestSizeB4 = SizeB4(s, h, freed.mh[h].largest_blk)]

\* A miniheap of amount, its END_TAG not counted, is put in its place in the
\* list.  It is all one block, neither allocated nor in the ring.
LinkUpNewMHeap(s, h, amount) ==
    LET above == SelectInSeq(s.list, LAMBDA x : h < x)
        at == IF above = 0 THEN Len(s.list) + 1 ELSE above
    IN  [s EXCEPT !.list = InsertAt(@, at, h),
                  !.mh = With(@, h, [len |-> amount, free |-> <<h>>, rover |-> h,
                                     b4rover |-> 0, largest_blk |-> 0,
                                     numalloc |-> 0, numfree |-> 0]),
                  !.len = With(With(@, h + amount, END_TAG),
                               h + DESCRIPTOR, amount - DESCRIPTOR)]

\* "build a block for _nfree()": the new memory is freed as if it had been
\* allocated.
FreeNewBlock(s, h, b, size, largest_blk) ==
    nfree(Changed(s, h, With(s.len, b, size), s.used \cup {b},
                  [s.mh[h] EXCEPT !.numalloc = @ + 1, !.largest_blk = largest_blk]),
          b + TAG_SIZE)
===============================================================================
