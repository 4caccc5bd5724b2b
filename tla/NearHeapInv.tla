----------------------------- MODULE NearHeapInv ------------------------------
(***************************************************************************)
(* The inductive invariant of the near heap, IInv: the tags divide every   *)
(* miniheap into blocks, its ring is its free blocks in order of address,  *)
(* its counts and bounds are right, and a call that has not returned, or   *)
(* a _nrealloc between its calls, has in hand what the heap still has.     *)
(* NearHeapProofs proves that every step keeps it.  The relations at the   *)
(* end are what the proof says of the operations of mem.c, nfree.c,        *)
(* grownear.c and nheapmin.c, each of which leads from Sound to Sound.     *)
(***************************************************************************)
EXTENDS NearHeap

\* The miniheaps, and where their END_TAGs are.
Heaps(s) == ToSet(s.list)
End(s, h) == h + s.mh[h].len
Ends(s) == [h \in Heaps(s) |-> End(s, h)]
Inside(s, h, b) == h < b /\ b < End(s, h)
Addr == 1..Top

\* The list rises.
Rising(q) == \A i, j \in 1..Len(q) : i < j => q[i] < q[j]

\* Tags are of their types.
LenOK(len) == /\ len \in [DOMAIN len -> (FRL_SIZE..Top) \cup {END_TAG}]
              /\ DOMAIN len \subseteq Addr

\* The tags that begin a block.
Blocks(len) == {b \in DOMAIN len : len[b] # END_TAG}

\* A block ends where the next tag is.
Adjacent(len) ==
    \A b \in DOMAIN len : len[b] # END_TAG =>
        /\ b + len[b] \in DOMAIN len
        /\ \A c \in DOMAIN len : c <= b \/ b + len[b] <= c

\* A tag is the first of a miniheap, or a block ends there.
Reached(len, H) ==
    \A c \in DOMAIN len :
        \/ \E h \in H : c = h + DESCRIPTOR
        \/ \E b \in DOMAIN len : len[b] # END_TAG /\ b + len[b] = c

\* A miniheap has its first tag and its END_TAG.
Closed(len, H, e) ==
    \A h \in H : h + DESCRIPTOR \in DOMAIN len /\ e[h] \in DOMAIN len /\ h + DESCRIPTOR < e[h]

\* A tag is in a miniheap, and at its end if it is the END_TAG.
Homes(len, H, e) ==
    \A b \in DOMAIN len : \E h \in H :
        h + DESCRIPTOR <= b /\ b <= e[h] /\ (len[b] = END_TAG <=> b = e[h])

\* No two miniheaps overlap.
Apart(H, e) == \A g, h \in H : g < h => e[g] < h

TilesOf(len, H, e) ==
    Adjacent(len) /\ Reached(len, H) /\ Closed(len, H, e) /\ Homes(len, H, e) /\ Apart(H, e)

\* The tags divide the miniheaps H, which end at e, into blocks.
Tiling(len, H, e) == /\ LenOK(len) /\ TilesOf(len, H, e)
                     /\ H \subseteq Addr /\ e \in [H -> Nat]

\* The ring of a miniheap is its descriptor and its blocks that are not in U.
RingOf(free, h, e, D, U) ==
    /\ free \in Seq(Nat) /\ Rising(free) /\ Len(free) > 0 /\ free[1] = h
    /\ \A b : Contains(free, b) <=> b = h \/ (h < b /\ b < e /\ b \in D \ U)

Ring(s, h) == RingOf(s.mh[h].free, h, End(s, h), DOMAIN s.len, s.used)

\* U are blocks, and no two of the others are neighbours.
AloneOf(len, U) ==
    /\ U \subseteq Blocks(len)
    /\ \A b \in Blocks(len) : b \in U \/ b + len[b] \in U \/ b + len[b] \notin Blocks(len)

-------------------------------------------------------------------------------
\* Descriptors, the counts and the bounds in them, and the rovers.
Descriptor == [len : Nat, free : Seq(Nat), rover : Nat, b4rover : Nat,
               largest_blk : Nat, numalloc : Int, numfree : Int]

Typed(s) ==
    /\ DOMAIN s = {"len", "used", "list", "mh", "MiniHeapRover", "LargestSizeB4",
                   "MiniHeapFreeRover", "curbrk", "wild"}
    /\ s.list \in Seq(Nat) /\ Rising(s.list) /\ s.mh \in [Heaps(s) -> Descriptor]
    /\ s.LargestSizeB4 \in (0..Top) \cup {Largest} /\ s.curbrk \in Start..Top
    /\ s.wild \in BOOLEAN

TilesAll(s) == Tiling(s.len, Heaps(s), Ends(s))

\* The counts are those of the blocks.
Counted(s, h) ==
    /\ s.mh[h].numfree = Len(s.mh[h].free) - 1
    /\ s.mh[h].numalloc = Cardinality({b \in s.used : Inside(s, h, b)})

\* The bounds are upper bounds of the free blocks.
Bounded(s, h) ==
    LET m == s.mh[h] IN
    /\ Contains(m.free, m.rover)
    /\ m.b4rover \in 0..Top /\ m.largest_blk \in (0..Top) \cup {Largest}
    /\ \A b : Contains(m.free, b) /\ b # h =>
          /\ s.len[b] <= m.largest_blk
          /\ b < m.rover => s.len[b] <= m.b4rover

RoversOk(s) == /\ Live(s, s.MiniHeapRover)
               /\ ~ShrinkAnytime => Live(s, s.MiniHeapFreeRover) /\ ~s.wild

\* A miniheap before the rover has no larger block than LargestSizeB4 says.
Skipped(s) == \A h \in Heaps(s) : h < s.MiniHeapRover => s.mh[h].largest_blk <= s.LargestSizeB4

\* What holds of the heap between the operations.
Sound(s) == /\ Typed(s) /\ TilesAll(s) /\ AloneOf(s.len, s.used) /\ RoversOk(s)
            /\ \A h \in Heaps(s) : Ring(s, h) /\ Counted(s, h) /\ Bounded(s, h)

-------------------------------------------------------------------------------
\* The miniheaps are below the break.
BelowBrk(s) == \A g \in Heaps(s) : Start <= g /\ End(s, g) < s.curbrk

\* Where the miniheaps and the memory of the program are.
Lies(s) == (platform = "NT" => s.curbrk = Start) /\ (platform = "brk" => BelowBrk(s))

\* The memory the program got from the system itself is in no miniheap.
OwnApart(s) ==
    /\ platform = "NT" => own = {}
    /\ own \subseteq Addr
    /\ \A o \in own : o < s.curbrk /\ \A h \in Heaps(s) : o < h \/ End(s, h) < o

Situated(s) == platform \in Platforms /\ Sound(s) /\ Lies(s) /\ OwnApart(s)

\* The blocks of the program, but for one that _nexpand has made shorter.
Owned(s, g, c) ==
    /\ g \in [DOMAIN g -> Nat] /\ DOMAIN g \subseteq Addr
    /\ s.used = {p - TAG_SIZE : p \in DOMAIN g}
    /\ \A p \in DOMAIN g : g[p] + TAG_SIZE <= s.len[p - TAG_SIZE] \/ (c.op = "expanded" /\ p = c.stg)

\* _nrealloc.
MovingOk(m, g, c) ==
    /\ DOMAIN m = DOMAIN NotMoving
    /\ m.at \in {"no", "expand", "malloc", "free", "restore"}
    /\ m.amt \in Nat /\ m.old \in 0..Top
    /\ m.at = "no" => m = NotMoving
    /\ m.at # "no" => m.stg \in DOMAIN g /\ g[m.stg] <= m.old
    /\ m.at = "free" => m.p \in DOMAIN g /\ m.p # m.stg
    /\ m.at # "free" => m.p = NULL
    /\ m.at = "expand" => c.by = "nrealloc" /\ c.op \in {"expand", "expanded"}

\* The call in progress.
CallTyped(c) ==
    /\ DOMAIN c = DOMAIN NoCall
    /\ c.amt \in Nat /\ c.growth \in Nat /\ c.expanded \in BOOLEAN /\ c.p2 \in 0..Top
    /\ c.op \in {"none", "malloc", "expand", "expanded"} /\ c.by \in {"program", "nrealloc"}
    /\ c.op = "none" => c = NoCall
    /\ c.op # "malloc" => c.mhp = NULL

\* No miniheap before the one where the search is has a block that would do.
Searched(s, c) ==
    /\ Live(s, c.mhp)
    /\ \A h \in Heaps(s) : c.mhp = NULL \/ h < c.mhp =>
          s.mh[h].largest_blk <= s.LargestSizeB4 /\ s.mh[h].largest_blk < BlockSize(c.amt)

\* A call of _nmalloc.
MallocOk(s, c, m) ==
    c.op = "malloc" => /\ c.stg = NULL /\ Searched(s, c)
                       /\ c.by = "nrealloc" => m.at = "malloc"

\* What _nexpand still needs, and when it has it, that the block is long enough
\* and that what it has too much is too little to be a block.
Expands(s, c) ==
    /\ c.op = "expand" => /\ c.growth > 0
                          /\ c.p2 = c.stg - TAG_SIZE + s.len[c.stg - TAG_SIZE]
                          /\ s.len[c.stg - TAG_SIZE] + c.growth = BlockSize(c.amt)
    /\ c.op = "expanded" => /\ c.amt + TAG_SIZE <= s.len[c.stg - TAG_SIZE]
                            /\ s.len[c.stg - TAG_SIZE] < BlockSize(c.amt) + FRL_SIZE

\* The block of a call of _nexpand.
Names(c, m, g) ==
    /\ c.stg \in DOMAIN g
    /\ c.by = "program" => c.stg # m.stg /\ c.stg # m.p
    /\ c.by = "nrealloc" => /\ m.at \in {"expand", "restore"} /\ c.stg = m.stg
                            /\ m.at = "restore" => c.amt = m.old

ExpandOk(s, c, m, g) == c.op \in {"expand", "expanded"} => Expands(s, c) /\ Names(c, m, g)

\* But in a search, no miniheap before the rover has a block that has been missed.
Rest == call.op # "malloc" => Skipped(near)

\* All of it, which every step keeps.
IInv ==
    /\ Situated(near) /\ Owned(near, given, call) /\ MovingOk(moving, given, call)
    /\ CallTyped(call) /\ MallocOk(near, call, moving) /\ ExpandOk(near, call, moving, given) /\ Rest

-------------------------------------------------------------------------------
\* What the operations do to the heap: s before, and t, or a name of its own, after it.

\* Of t and s only the tags, the allocated blocks and the descriptor of h may
\* differ, and not the place of h.
Only(s, t, h) ==
    /\ Typed(t) /\ t.list = s.list /\ t.mh[h].len = s.mh[h].len
    /\ t.MiniHeapRover = s.MiniHeapRover /\ t.LargestSizeB4 = s.LargestSizeB4
    /\ t.MiniHeapFreeRover = s.MiniHeapFreeRover /\ t.curbrk = s.curbrk /\ t.wild = s.wild
    /\ \A g \in Heaps(s) : g # h => t.mh[g] = s.mh[g]

\* The blocks of the miniheap g are as they were.
SameIn(s, t, g) ==
    /\ t.mh[g] = s.mh[g]
    /\ \A b : Inside(s, g, b) => /\ b \in DOMAIN t.len <=> b \in DOMAIN s.len
                                 /\ b \in DOMAIN s.len => t.len[b] = s.len[b]
                                 /\ b \in t.used <=> b \in s.used

\* The fields of a descriptor.
Desc(m, len, free, rover, b4rover, largest_blk, numalloc, numfree) ==
    /\ m \in Descriptor
    /\ m.len = len /\ m.free = free /\ m.rover = rover /\ m.b4rover = b4rover
    /\ m.largest_blk = largest_blk /\ m.numalloc = numalloc /\ m.numfree = numfree

\* Nothing has changed but in the blocks of h.
Outside(s, t, h) ==
    \A b : ~Inside(s, h, b) => /\ b \in DOMAIN t.len <=> b \in DOMAIN s.len
                               /\ b \in DOMAIN s.len => t.len[b] = s.len[b]
                               /\ b \in t.used <=> b \in s.used

\* What is known of a miniheap, to be kept.
HeapOk(s, h) ==
    /\ Typed(s) /\ TilesAll(s) /\ AloneOf(s.len, s.used) /\ h \in Heaps(s)
    /\ Ring(s, h) /\ Counted(s, h) /\ Bounded(s, h)

\* The heap s when the free block that follows a has been joined: y.
Half(s, y, h, a) ==
    LET m == y.mh[h] IN
    /\ Only(s, y, h) /\ y.used = s.used /\ Outside(s, y, h)
    /\ Tiling(y.len, Heaps(s), Ends(s)) /\ AloneOf(y.len, s.used)
    /\ RingOf(m.free, h, End(s, h), DOMAIN y.len, s.used)
    /\ a + y.len[a] \in s.used \/ a + y.len[a] \notin Blocks(y.len)
    /\ m.numfree = Len(m.free) - 1 /\ m.numalloc = s.mh[h].numalloc
    /\ m.b4rover = s.mh[h].b4rover /\ m.largest_blk = s.mh[h].largest_blk
    /\ Contains(m.free, m.rover) \/ m.rover = a
    /\ \A b : Contains(m.free, b) /\ b # h =>
          /\ y.len[b] <= m.largest_blk
          /\ b < m.rover => y.len[b] <= m.b4rover
    /\ \A b \in s.used : b # a => y.len[b] = s.len[b]

\* Then a has become free, alone or as a part of the block blk: z.
Linked(s, z, blk, h, a) ==
    LET m == z.mh[h] IN
    /\ Only(s, z, h) /\ z.used = s.used /\ Outside(s, z, h)
    /\ Tiling(z.len, Heaps(s), Ends(s)) /\ AloneOf(z.len, s.used \ {a})
    /\ RingOf(m.free, h, End(s, h), DOMAIN z.len, s.used \ {a})
    /\ m.numfree = Len(m.free) - 1 /\ m.numalloc = s.mh[h].numalloc
    /\ m.b4rover = s.mh[h].b4rover /\ m.largest_blk = s.mh[h].largest_blk
    /\ Contains(m.free, m.rover) /\ Contains(m.free, blk) /\ blk # h
    /\ \A b : Contains(m.free, b) /\ b # h /\ b # blk =>
          /\ z.len[b] <= m.largest_blk
          /\ b < m.rover => z.len[b] <= m.b4rover
    /\ \A b \in s.used : b # a => z.len[b] = s.len[b]

\* The block a has become free, t, and the miniheap is as it should be.
Freed(s, t, h, a) ==
    /\ Only(s, t, h) /\ t.used = s.used \ {a} /\ Outside(s, t, h) /\ HeapOk(t, h)
    /\ \A b \in t.used : t.len[b] = s.len[b]
    /\ s.mh[h].largest_blk <= t.mh[h].largest_blk

\* The block a has been given back, t: s.LargestSizeB4 notes it.
Released(s, t, h, a) ==
    /\ Sound(t) /\ t.used = s.used \ {a} /\ t.list = s.list /\ Ends(t) = Ends(s)
    /\ t.curbrk = s.curbrk /\ t.MiniHeapRover = s.MiniHeapRover
    /\ \A b \in t.used : t.len[b] = s.len[b]
    /\ (\A g \in Heaps(s) : g # h /\ g < s.MiniHeapRover =>
           s.mh[g].largest_blk <= s.LargestSizeB4) => Skipped(t)

\* Only rovers, bounds of the search and the break differ.
SameHeap(s, t) ==
    /\ Typed(t) /\ RoversOk(t)
    /\ t.len = s.len /\ t.used = s.used /\ t.list = s.list /\ t.mh = s.mh

\* The block a keeps new of its length, and the rest of it is free.
Shrunk(s, t, a, new) ==
    /\ Sound(t) /\ t.used = s.used /\ t.list = s.list /\ Ends(t) = Ends(s)
    /\ t.curbrk = s.curbrk /\ t.MiniHeapRover = s.MiniHeapRover
    /\ t.len[a] = new /\ \A c \in s.used : c # a => t.len[c] = s.len[c]
    /\ Skipped(s) => Skipped(t)

\* The block a is allocated, with at least size.
Taken(s, t, h, a, size) ==
    /\ Only(s, t, h) /\ Outside(s, t, h) /\ HeapOk(t, h)
    /\ a \in Nat /\ a > 0 /\ a \notin s.used /\ t.used = s.used \cup {a}
    /\ \A c \in s.used : t.len[c] = s.len[c]
    /\ size <= t.len[a] /\ t.mh[h].largest_blk = s.mh[h].largest_blk

\* The allocated block a has got k of the free block that follows it.
Grown(s, t, h, a, k) ==
    /\ Only(s, t, h) /\ Outside(s, t, h) /\ HeapOk(t, h) /\ t.used = s.used
    /\ t.len[a] = s.len[a] + k /\ \A c \in s.used : c # a => t.len[c] = s.len[c]
    /\ t.mh[h].largest_blk = s.mh[h].largest_blk

\* Where a miniheap of t was in s, when the break has moved.
WasThere(s, t, h) ==
    \/ h \in Heaps(s) /\ End(t, h) = End(s, h)
    \/ h \in Heaps(s) /\ End(s, h) + TAG_SIZE = s.curbrk /\ End(t, h) + TAG_SIZE = t.curbrk
    \/ h = s.curbrk /\ End(t, h) + TAG_SIZE = t.curbrk

\* The heap has grown, t, and no block of the program has changed.
KeptBlocks(s, t) ==
    /\ Sound(t) /\ t.used = s.used /\ \A c \in s.used : t.len[c] = s.len[c]
    /\ Skipped(s) => Skipped(t)

Gained(s, t) ==
    /\ KeptBlocks(s, t) /\ s.curbrk <= t.curbrk
    /\ \A h \in Heaps(t) : WasThere(s, t, h)

\* The miniheap h has been added, all of it an allocated block.
Fresh(s, x, h, n, lg) ==
    /\ Sound(s) /\ h \in Addr /\ n \in Nat /\ n <= Top /\ FRL_SIZE <= n - (h + DESCRIPTOR)
    /\ \A g \in Heaps(s) : End(s, g) < h \/ n < g
    /\ Typed(x) /\ RoversOk(x) /\ \A y : Contains(x.list, y) <=> Contains(s.list, y) \/ y = h
    /\ x.used = s.used \cup {h + DESCRIPTOR}
    /\ x.len \in [DOMAIN s.len \cup {h + DESCRIPTOR, n} -> Int]
    /\ x.len[h + DESCRIPTOR] = n - (h + DESCRIPTOR) /\ x.len[n] = END_TAG
    /\ \A c \in DOMAIN s.len : x.len[c] = s.len[c]
    /\ \A g \in Heaps(s) : x.mh[g] = s.mh[g]
    /\ lg \in {0, Largest} /\ Desc(x.mh[h], n - h, <<h>>, h, 0, lg, 1, 0)

\* The miniheap h, which has no allocated block, has been removed.
Removed(s, x, h) ==
    /\ Sound(s) /\ h \in Heaps(s) /\ \A a \in s.used : ~Inside(s, h, a)
    /\ Typed(x) /\ RoversOk(x) /\ \A y : Contains(x.list, y) <=> Contains(s.list, y) /\ y # h
    /\ x.used = s.used
    /\ x.len \in [{c \in DOMAIN s.len : c < h \/ End(s, h) < c} -> Int]
    /\ \A c \in DOMAIN x.len : x.len[c] = s.len[c]
    /\ \A g \in Heaps(s) : g # h => x.mh[g] = s.mh[g]

\* Memory that had no allocated block has been given back.
Fewer(s, t) ==
    /\ KeptBlocks(s, t) /\ t.curbrk = s.curbrk /\ Heaps(t) \subseteq Heaps(s)
    /\ \A g \in Heaps(t) : End(t, g) = End(s, g)
    /\ \A b \in DOMAIN t.len : b \in DOMAIN s.len /\ t.len[b] = s.len[b]

\* What __ExpandDGROUP can result in.
Expanded(s, r) ==
    /\ platform = "brk" => Gained(s, r.heap)
    /\ platform = "NT" => KeptBlocks(s, r.heap) /\ r.heap.curbrk = s.curbrk
    /\ ~r.ok => Fewer(s, r.heap)

\* The break has been lowered, and memory that had no allocated block is gone.
Lowered(s, t) ==
    /\ KeptBlocks(s, t)
    /\ \E h \in Heaps(s) : End(s, h) + TAG_SIZE = s.curbrk /\ h <= t.curbrk
    /\ \A g \in Heaps(t) : g \in Heaps(s) /\ End(t, g) <= End(s, g) /\ End(t, g) < t.curbrk

\* The END_TAG of the miniheap h moves up by k, and what was before it is a block.
Extends(len, new, H, e, h, k) ==
    /\ LenOK(len) /\ H \in SUBSET Addr /\ e \in [H -> Nat] /\ TilesOf(len, H, e)
    /\ h \in H /\ k \in Nat /\ FRL_SIZE <= k /\ e[h] + k <= Top /\ \A g \in H : h < g => e[h] + k < g
    /\ new \in [DOMAIN len \cup {e[h] + k} -> Int]
    /\ new[e[h]] = k /\ new[e[h] + k] = END_TAG
    /\ \A b \in DOMAIN len : b # e[h] => new[b] = len[b]

\* The last block of the miniheap h is cut off.
Cuts(len, new, H, e, h, b) ==
    /\ LenOK(len) /\ H \in SUBSET Addr /\ e \in [H -> Nat] /\ TilesOf(len, H, e)
    /\ h \in H /\ b \in DOMAIN len /\ h + DESCRIPTOR < b /\ len[b] # END_TAG /\ b + len[b] = e[h]
    /\ new \in [DOMAIN len \ {e[h]} -> Int]
    /\ new[b] = END_TAG /\ \A c \in DOMAIN new : c # b => new[c] = len[c]

\* A miniheap h of one block is added.
Adds(len, new, H, e, h, n, b, f) ==
    /\ LenOK(len) /\ H \in SUBSET Addr /\ e \in [H -> Nat] /\ TilesOf(len, H, e)
    /\ h \in Addr /\ n \in Nat /\ n <= Top /\ b \in Nat /\ b = h + DESCRIPTOR
    /\ FRL_SIZE <= n - b /\ \A g \in H : e[g] < h \/ n < g
    /\ new \in [DOMAIN len \cup {b, n} -> Int] /\ new[b] = n - b /\ new[n] = END_TAG
    /\ \A c \in DOMAIN len : new[c] = len[c]
    /\ f \in [H \cup {h} -> Nat] /\ f[h] = n /\ \A g \in H : f[g] = e[g]

\* The miniheap h is removed.
Drops(len, new, H, e, h, f) ==
    /\ LenOK(len) /\ H \in SUBSET Addr /\ e \in [H -> Nat] /\ TilesOf(len, H, e)
    /\ h \in H
    /\ new \in [{c \in DOMAIN len : c < h \/ e[h] < c} -> Int] /\ \A c \in DOMAIN new : new[c] = len[c]
    /\ f \in [H \ {h} -> Nat] /\ \A g \in H \ {h} : f[g] = e[g]

Splits(len, new, a, size) ==
    /\ a \in Blocks(len) /\ size \in Nat /\ FRL_SIZE <= size /\ FRL_SIZE <= len[a] - size
    /\ new \in [DOMAIN len \cup {a + size} -> Int]
    /\ new[a] = size /\ new[a + size] = len[a] - size
    /\ \A b \in DOMAIN len : b # a => new[b] = len[b]

Merges(len, new, a, n) ==
    /\ a \in Blocks(len) /\ n \in Blocks(len) /\ n = a + len[a]
    /\ new \in [DOMAIN len \ {n} -> Int] /\ new[a] = len[a] + len[n]
    /\ \A b \in DOMAIN len \ {n} : b # a => new[b] = len[b]

Shifts(len, new, a, n, k) ==
    /\ a \in Blocks(len) /\ n \in Blocks(len) /\ n = a + len[a]
    /\ k \in Nat /\ k > 0 /\ FRL_SIZE <= len[n] - k
    /\ new \in [(DOMAIN len \ {n}) \cup {n + k} -> Int]
    /\ new[a] = len[a] + k /\ new[n + k] = len[n] - k
    /\ \A b \in DOMAIN len \ {n} : b # a => new[b] = len[b]

\* a is allocated, no free block follows it, and the ring is exact.
Frees(len, H, e, U, h, free, a) ==
    /\ Tiling(len, H, e) /\ AloneOf(len, U) /\ h \in H /\ RingOf(free, h, e[h], DOMAIN len, U)
    /\ a \in U /\ h < a /\ a < e[h]
    /\ a + len[a] \in U \/ a + len[a] \notin Blocks(len)

\* It is allocated, x, and then given back.
Allocated(s, h, b, size, largest_blk) ==
    Changed(s, h, With(s.len, b, size), s.used \cup {b},
            [s.mh[h] EXCEPT !.numalloc = @ + 1, !.largest_blk = largest_blk])

\* The end of the allocated block a is split off as the allocated block b.
SplitOff(s, x, h, a, size) ==
    /\ Sound(s) /\ h \in Heaps(s) /\ a \in s.used /\ Inside(s, h, a)
    /\ Only(s, x, h) /\ x.used = s.used \cup {a + size} /\ Splits(s.len, x.len, a, size)
    /\ LET m == s.mh[h]
       IN  Desc(x.mh[h], m.len, m.free, m.rover, m.b4rover, m.largest_blk, m.numalloc + 1, m.numfree)

ShrinkBlock(s, h, a, new, k) ==
    FreeNewBlock([s EXCEPT !.len[a] = new], h, a + new, k, s.mh[h].largest_blk)

\* The i-th of the ring may be taken: b4 bounds the blocks before it.
MayTake(s, h, i, size, b4) ==
    /\ i \in 2..Len(s.mh[h].free) /\ size \in Nat /\ FRL_SIZE <= size
    /\ size <= s.len[s.mh[h].free[i]] /\ b4 \in 0..Top
    /\ \A j \in 2..i - 1 : s.len[s.mh[h].free[j]] <= b4

\* No block of the miniheap would do.
Missed(s, t, h, size) ==
    /\ Only(s, t, h) /\ Outside(s, t, h) /\ HeapOk(t, h) /\ t.used = s.used /\ t.len = s.len
    /\ t.mh[h].largest_blk < size /\ t.mh[h].largest_blk <= s.mh[h].largest_blk

\* What __MemAllocator does.
Tried(s, r, h, size) ==
    \/ r.block = NULL /\ Missed(s, r.heap, h, size)
    \/ r.block # NULL /\ Taken(s, r.heap, h, r.block, size)

\* The rover is not left at the block.
Stepped(m, n) == IF m.rover = n THEN Before(m.free, n) ELSE m.rover

\* All of the block that follows is taken.
Absorb(s, h, a, n) ==
    LET m == [s.mh[h] EXCEPT !.rover = IF @ = n THEN Before(s.mh[h].free, n) ELSE @]
    IN  Changed(s, h, With(Without(s.len, n), a, s.len[a] + s.len[n]), s.used,
                [m EXCEPT !.free = Unlink(@, n), !.numfree = @ - 1])

\* The beginning of the block that follows is taken.
AbsorbPart(s, h, a, n, k) ==
    LET m == [s.mh[h] EXCEPT !.rover = IF @ = n THEN Before(s.mh[h].free, n) ELSE @]
    IN  Changed(s, h, With(With(Without(s.len, n), n + k, s.len[n] - k), a, s.len[a] + k), s.used,
                [m EXCEPT !.free[IndexIn(m.free, n)] = n + k])

\* What may be taken of it.
MayPart(s, h, a, n, k) ==
    /\ HeapOk(s, h) /\ a \in s.used /\ Inside(s, h, a) /\ n = a + s.len[a] /\ IsFree(s, n)
    /\ k \in Nat /\ k > 0 /\ FRL_SIZE <= s.len[n] - k

\* The miniheap h gets longer by k, which is an allocated block.
Longer(s, x, h, k) ==
    /\ Sound(s) /\ h \in Heaps(s) /\ k \in Nat /\ FRL_SIZE <= k /\ End(s, h) + k <= Top
    /\ \A g \in Heaps(s) : h < g => End(s, h) + k < g
    /\ Typed(x) /\ RoversOk(x) /\ x.list = s.list /\ x.used = s.used \cup {End(s, h)}
    /\ x.len \in [DOMAIN s.len \cup {End(s, h) + k} -> Int]
    /\ x.len[End(s, h)] = k /\ x.len[End(s, h) + k] = END_TAG
    /\ \A b \in DOMAIN s.len : b # End(s, h) => x.len[b] = s.len[b]
    /\ \A g \in Heaps(s) : g # h => x.mh[g] = s.mh[g]
    /\ LET m == s.mh[h]
       IN  Desc(x.mh[h], m.len + k, m.free, m.rover, m.b4rover, Largest, m.numalloc + 1, m.numfree)

\* The miniheap that ends at the break gets longer.
Lengthened(s, h, k) ==
    LET y == Changed([s EXCEPT !.curbrk = s.curbrk + k], h, With(s.len, s.curbrk - TAG_SIZE + k, END_TAG),
                     s.used, [s.mh[h] EXCEPT !.len = @ + k])
    IN  FreeNewBlock(y, h, s.curbrk - TAG_SIZE, k, Largest)

MayLengthen(s, h, k) ==
    /\ Sound(s) /\ BelowBrk(s) /\ h \in Heaps(s) /\ End(s, h) = s.curbrk - TAG_SIZE
    /\ k \in Nat /\ FRL_SIZE <= k /\ s.curbrk + k <= Top

\* A descriptor of a miniheap that has no blocks yet.
NewDesc(h, k) == [len |-> k, free |-> <<h>>, rover |-> h, b4rover |-> 0, largest_blk |-> 0,
                  numalloc |-> 0, numfree |-> 0]

\* What __LinkUpNewMHeap does.
LinkedUp(q, r, h, k) ==
    /\ Typed(r) /\ \A y : Contains(r.list, y) <=> Contains(q.list, y) \/ y = h
    /\ r.used = q.used
    /\ r.len = With(With(q.len, h + k, END_TAG), h + DESCRIPTOR, k - DESCRIPTOR)
    /\ \A g \in Heaps(q) : r.mh[g] = q.mh[g]
    /\ Desc(r.mh[h], k, <<h>>, h, 0, 0, 0, 0)
    /\ r.MiniHeapRover = q.MiniHeapRover /\ r.LargestSizeB4 = q.LargestSizeB4
    /\ r.MiniHeapFreeRover = q.MiniHeapFreeRover /\ r.curbrk = q.curbrk /\ r.wild = q.wild

\* q is s but for the break.
SameBut(s, q) ==
    /\ Typed(q) /\ q.len = s.len /\ q.used = s.used /\ q.list = s.list /\ q.mh = s.mh
    /\ q.MiniHeapRover = s.MiniHeapRover /\ q.LargestSizeB4 = s.LargestSizeB4
    /\ q.MiniHeapFreeRover = s.MiniHeapFreeRover /\ q.wild = s.wild

\* A miniheap of k tags, its END_TAG included, is put in the list and its block freed.
Opened(q, h, k, lg) ==
    LET linked == LinkUpNewMHeap(q, h, k - TAG_SIZE)
    IN  FreeNewBlock(linked, h, h + DESCRIPTOR, linked.len[h + DESCRIPTOR], lg)

MayOpen(s, q, h, k, lg) ==
    /\ Sound(s) /\ SameBut(s, q) /\ h \in Addr /\ k \in Nat
    /\ h + k - TAG_SIZE <= Top /\ DESCRIPTOR + FRL_SIZE + TAG_SIZE <= k
    /\ \A g \in Heaps(s) : End(s, g) < h \/ h + k - TAG_SIZE < g
    /\ lg \in {0, Largest}

IsOpened(s, q, t, h, k) ==
    /\ KeptBlocks(s, t) /\ t.curbrk = q.curbrk /\ Heaps(t) = Heaps(s) \cup {h}
    /\ End(t, h) = h + k - TAG_SIZE /\ \A g \in Heaps(s) : End(t, g) = End(s, g)

\* The rover after the miniheap h has gone.
RoverAfter(s, h) ==
    LET next == NextHeap(s, h)
    IN  CASE s.MiniHeapRover # h -> s.MiniHeapRover
          [] s.MiniHeapRover = h /\ next # NULL -> next
          [] OTHER -> nheapbeg(s)

NoRover(s, h) == IF RoverAfter(s, h) = h THEN NULL ELSE RoverAfter(s, h)

NoLarger(s, h) == IF s.MiniHeapRover = h /\ NextHeap(s, h) = NULL THEN 0 ELSE s.LargestSizeB4

\* The last miniheap and its last free block when the break can be lowered.
AtBrk(s, h, b) ==
    /\ Sound(s) /\ BelowBrk(s) /\ h \in Heaps(s) /\ h = Last(s.list) /\ s.list # << >>
    /\ \A g \in Heaps(s) : g <= h
    /\ b = Last(s.mh[h].free) /\ b # h /\ LastFreeLen(s, h) = s.len[b]
    /\ b + s.len[b] = End(s, h) /\ End(s, h) + TAG_SIZE = s.curbrk
    /\ b \in Blocks(s.len) /\ b \notin s.used /\ h + DESCRIPTOR <= b

\* The last block of the miniheap h, which is free, has been cut off.
Shorter(s, x, h, b) ==
    /\ AtBrk(s, h, b) /\ h + DESCRIPTOR < b
    /\ Typed(x) /\ RoversOk(x) /\ x.list = s.list /\ x.used = s.used
    /\ x.len \in [DOMAIN s.len \ {End(s, h)} -> Int] /\ x.len[b] = END_TAG
    /\ \A c \in DOMAIN x.len : c # b => x.len[c] = s.len[c]
    /\ \A g \in Heaps(s) : g # h => x.mh[g] = s.mh[g]
    /\ LET m == s.mh[h]
       IN  Desc(x.mh[h], b - h, Front(m.free), Stepped(m, b), m.b4rover, m.largest_blk, m.numalloc, m.numfree - 1)

\* The search of c begins: t and d.
Sought(s, c, t, d) ==
    /\ SameHeap(s, t) /\ t.curbrk = s.curbrk /\ Searched(t, d)
    /\ DOMAIN d = DOMAIN NoCall
    /\ d.op = c.op /\ d.by = c.by /\ d.stg = c.stg /\ d.amt = c.amt
    /\ d.p2 = c.p2 /\ d.growth = c.growth /\ d.expanded = c.expanded

\* The rover of malloc is set.
AtRover(f, h, v) == [f EXCEPT !.MiniHeapRover = h, !.LargestSizeB4 = v]

\* The new block is none that the program has.
Gives(a) ==
    /\ call.op = "malloc" /\ a \in Nat /\ a > 0 /\ a \notin near.used
    /\ MallocReturns(a + TAG_SIZE)

\* No block of the miniheap h would do: f.
MissedIn(f, h, size) ==
    /\ Sound(f) /\ f.used = near.used /\ f.len = near.len /\ f.list = near.list /\ f.curbrk = near.curbrk
    /\ Ends(f) = Ends(near) /\ f.LargestSizeB4 = near.LargestSizeB4
    /\ f.mh[h].largest_blk < size /\ f.mh[h].largest_blk <= near.mh[h].largest_blk
    /\ \A x \in Heaps(near) : x # h => f.mh[x] = near.mh[x]

\* A miniheap has been visited, f, and the block a has been found in it, or none.
Found(f, a) ==
    /\ Taken(near, f, call.mhp, a, BlockSize(call.amt)) /\ MallocReturns(a + TAG_SIZE)
    /\ near' = [f EXCEPT !.MiniHeapRover = call.mhp, !.LargestSizeB4 = f.LargestSizeB4]

NotFound(f) ==
    /\ MissedIn(f, call.mhp, BlockSize(call.amt))
    /\ near' = [f EXCEPT !.MiniHeapRover = call.mhp,
                         !.LargestSizeB4 = Max({f.LargestSizeB4, near.mh[call.mhp].largest_blk})]
    /\ call' = [call EXCEPT !.mhp = NextHeap(near, call.mhp)] /\ UNCHANGED <<moving, given>>

\* _nexpand of the block of c has begun: t and d.
Started(g, c, t, d) ==
    /\ Situated(t) /\ Skipped(t) /\ Owned(t, g, d) /\ Expands(t, d)
    /\ DOMAIN d = DOMAIN NoCall /\ d.op \in {"expand", "expanded"}
    /\ d.by = c.by /\ d.stg = c.stg /\ d.amt = c.amt /\ d.mhp = c.mhp /\ d.expanded = c.expanded
    /\ d.growth \in Nat /\ d.p2 \in 0..Top

MayStart(s, g, c) ==
    /\ Situated(s) /\ Skipped(s) /\ Owned(s, g, NoCall) /\ DOMAIN c = DOMAIN NoCall
    /\ c.stg \in DOMAIN g /\ c.amt \in Nat /\ c.growth \in Nat /\ c.p2 \in 0..Top

IsExpanded(c) == [c EXCEPT !.op = "expanded"]

\* What __HeapManager_expand begins with.
ToExpand(s, c) ==
    LET p1 == c.stg - TAG_SIZE
    IN  [c EXCEPT !.op = "expand", !.p2 = p1 + s.len[p1], !.growth = BlockSize(c.amt) - s.len[p1]]

CutTail(s, c) ==
    LET p1 == c.stg - TAG_SIZE
        new == BlockSize(c.amt)
        h == CHOOSE x \in Holders(s, c.stg) : TRUE
    IN  FreeNewBlock([s EXCEPT !.len[p1] = new], h, p1 + new, s.len[p1] - new, s.mh[h].largest_blk)

\* _nexpand of the block of c begins.
Begins(s, c) ==
    /\ MayStart(s, given, c) /\ ExpandStarts(s, c) /\ c.by \in {"program", "nrealloc"}
    /\ c.expanded \in BOOLEAN /\ c.mhp = NULL /\ Names(c, moving', given)
    /\ \A d : d.by = c.by /\ d.op \in {"expand", "expanded"} => MovingOk(moving', given, d)
    /\ UNCHANGED <<platform, given, own>>

\* The call that begins an _nexpand.
NewCall(by, stg, amt) == [NoCall EXCEPT !.by = by, !.stg = stg, !.amt = amt]

\* The call of _nexpand goes on as d.
GoesOn(d) ==
    /\ DOMAIN d = DOMAIN NoCall /\ d.op \in {"expand", "expanded"} /\ d.by = call.by /\ d.stg = call.stg
    /\ d.amt = call.amt /\ d.mhp = call.mhp /\ d.expanded = call.expanded /\ d.growth \in Nat

\* The block needs k more after it has got v.
StillExpands(c, k, v) == [c EXCEPT !.growth = k, !.p2 = @ + v]

BrkAt(s, c) == [s EXCEPT !.curbrk = c]

-------------------------------------------------------------------------------
\* The block that _nrealloc has in hand is not shorter than it was when _nrealloc
\* began, but for the one that _nexpand has made shorter and is about to give back.
Held(s, c, m) ==
    m.at # "no" => \/ m.old + TAG_SIZE <= s.len[m.stg - TAG_SIZE]
                   \/ c.op = "expanded" /\ c.stg = m.stg

HeldNow == Held(near, call, moving)

\* A block that stays allocated does not get shorter.
NoneShorter ==
    \A b \in near.used : b \in near'.used => near'.len[b] = near.len[b] \/ near.len[b] <= near'.len[b]

\* A _nrealloc goes on with its block.
GoesOnWith(m) == moving.at # "no" /\ m.stg = moving.stg /\ m.old = moving.old
SameMoving == moving'.at # "no" => GoesOnWith(moving')

\* _nexpand begins in the heap f.
BeginsIn(f, c) == MayStart(f, given, c) /\ ExpandStarts(f, c)

-------------------------------------------------------------------------------
\* No free block would have done for the malloc.
NoneFits == \A b \in DOMAIN near'.len : IsFree(near', b) => near'.len[b] < BlockSize(call.amt)

\* Between calls no two blocks share a cell, nor a block and other memory of the program.
CellsApart ==
    Idle => \A p \in DOMAIN given :
               /\ Contract!Cells(p, given[p]) \cap own = {}
               /\ \A q \in DOMAIN given : q # p => Contract!Cells(p, given[p]) \cap Contract!Cells(q, given[q]) = {}

Steps == Contract!Give \/ Contract!Resize \/ Contract!TakeBack \/ Contract!Extend

Own == <<given, own>>

\* The block is long enough when _nexpand begins.
LongEnough(f) == moving'.at # "no" => moving'.old + TAG_SIZE <= f.len[moving'.stg - TAG_SIZE]

\* A call is nearer to its end.
Nearer == call'.expanded = call.expanded /\ StepsLeft' < StepsLeft

\* Where the search begins, and the lengths of the blocks it has passed.
FromIndex(m, size) == IF size <= m.b4rover THEN 2 ELSE Max({2, IndexIn(m.free, m.rover)})

PassedLens(s, h, size, to) ==
    {IF size <= s.mh[h].b4rover THEN 0 ELSE s.mh[h].b4rover}
    \cup {s.len[s.mh[h].free[i]] : i \in FromIndex(s.mh[h], size)..to}

Bounds(s, h, size, to, x) ==
    /\ x \in 0..Top /\ \A j \in 2..to : s.len[s.mh[h].free[j]] <= x
    /\ \/ x = 0 \/ (~(size <= s.mh[h].b4rover) /\ x = s.mh[h].b4rover)
       \/ \E j \in FromIndex(s.mh[h], size)..to : x = s.len[s.mh[h].free[j]]

\* The loop of _nheapshrink over the list.
Step(t, h) == IF AllFree(t, h) THEN ReleaseMiniHeap(t, h) ELSE t

Upto(s, k, f) == f = [i \in 0..k |-> IF i = 0 THEN s ELSE Step(f[i - 1], s.list[i])]

Run(s, f) == f = [i \in 0..Len(s.list) |-> IF i = 0 THEN s ELSE Step(f[i - 1], s.list[i])]

\* What sbrk has read and is to add.
AskedOk == asked.from \in 0..Top /\ asked.n \in Sbrks \cup {0} /\ (asked # NotAsked => asked.n \in Sbrks /\ platform = "brk")
===============================================================================
