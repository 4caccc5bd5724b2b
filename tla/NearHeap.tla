------------------------------- MODULE NearHeap -------------------------------
(***************************************************************************)
(* The near heap of the C runtime: malloc, free, _expand, realloc and      *)
(* _heapmin (clib/heap), on the two kinds of platforms there are: those    *)
(* where miniheaps are obtained one by one from the system ("NT"), and     *)
(* those where the heap grows at the end of the data segment ("brk").      *)
(*                                                                         *)
(* A call works under the semaphore NHeap from its start to its return, so *)
(* one call at a time is in progress (call).  _nrealloc does not: it is    *)
(* one to four calls, between which other threads make theirs.             *)
(***************************************************************************)
EXTENDS MiniHeap

CONSTANTS
    Platforms,
    Page,           \* what VirtualAlloc gives out, in tags (1024 of them)
    _amblksiz,      \* the least by which the heap grows
    Start,          \* the end of the data segment when the program starts
    Top,            \* the memory there is
    Sizes,          \* what the program asks for
    Sbrks,          \* what the program takes with sbrk
    MaxBlocks,      \* bound: the blocks it has
    MaxOwn,         \* bound: the memory it takes with sbrk
    ShrinkAnytime,  \* _heapmin may be called also when it will remove the
                    \* miniheap of __MiniHeapFreeRover, on brk
    SbrkRace        \* the heap may grow between sbrk's reading of the break and
                    \* its setting

ASSUME HeapAssumption ==
    /\ Platforms \subseteq {"NT", "brk"}
    /\ {Page, _amblksiz, Start, Top, MaxBlocks, MaxOwn} \subseteq Nat \ {0}
    /\ Sizes \subseteq Nat \ {0} /\ Sbrks \subseteq Nat \ {0}
    /\ Start <= Top /\ Top <= Largest
    /\ {ShrinkAnytime, SbrkRace} \subseteq BOOLEAN

VARIABLES
    platform,
    near,     \* the data of the heap, see MiniHeap
    call,     \* the call in progress
    moving,   \* the _nrealloc in progress
    given,    \* history: the size of each block the program has
    own,      \* history: the memory it has taken with sbrk
    asked     \* the sbrk in progress: the break it has read, and its increment

heapVars == <<platform, near, call, moving, given, own>>
vars == <<platform, near, call, moving, given, own, asked>>

NoCall == [op |-> "none", by |-> "program", stg |-> NULL, amt |-> 0,
           mhp |-> NULL, p2 |-> NULL, growth |-> 0, expanded |-> FALSE]
NotAsked == [from |-> NULL, n |-> 0]
NotMoving == [at |-> "no", stg |-> NULL, amt |-> 0, old |-> 0, p |-> NULL]

Init ==
    /\ platform \in Platforms
    /\ near = [len |-> << >>, used |-> {}, list |-> << >>, mh |-> << >>,
               MiniHeapRover |-> NULL, LargestSizeB4 |-> 0,
               MiniHeapFreeRover |-> NULL, curbrk |-> Start, wild |-> FALSE]
    /\ call = NoCall /\ moving = NotMoving
    /\ given = << >> /\ own = {} /\ asked = NotAsked

nheapbeg(s) == IF s.list = << >> THEN NULL ELSE Head(s.list)
NextHeap(s, h) == IF h = Last(s.list) THEN NULL
                  ELSE s.list[IndexIn(s.list, h) + 1]

-------------------------------------------------------------------------------
\* Memory to the system and from it.

\* Mutant: the rover of _nfree may be at the miniheap that is given back.
SameFreeRover(s, h) == s.MiniHeapFreeRover

FreeRover(s, h) == IF s.MiniHeapFreeRover = h THEN NULL ELSE s.MiniHeapFreeRover

\* __ReturnMemToSystem and the unlinking of the miniheap.
ReleaseMiniHeap(s, h) ==
    LET next == NextHeap(s, h)
        rover == CASE s.MiniHeapRover # h -> s.MiniHeapRover
                   [] s.MiniHeapRover = h /\ next # NULL -> next
                   [] OTHER -> nheapbeg(s)
    IN  [s EXCEPT
           !.MiniHeapRover = IF rover = h THEN NULL ELSE rover,
           !.LargestSizeB4 = IF s.MiniHeapRover = h /\ next = NULL THEN 0 ELSE @,
           !.MiniHeapFreeRover = FreeRover(s, h),
           !.list = Unlink(@, h),
           !.mh = Without(@, h),
           !.len = Restrict(@, {b \in DOMAIN @ : b \notin h .. h + s.mh[h].len})]

LastFreeLen(s, h) == LET b == Last(s.mh[h].free) IN IF b = h THEN 0 ELSE s.len[b]

\* Mutant: a miniheap is given back for any free block at its end.
EndsFree(s, h) == LastFreeLen(s, h) > 0

\* A miniheap is one free block.
AllFree(s, h) == s.mh[h].len - DESCRIPTOR = LastFreeLen(s, h)

\* _nheapshrink where there are miniheaps to give back: it goes over the list.
ReleaseFreeHeaps(s) ==
    LET visited[i \in 0..Len(s.list)] ==
            IF i = 0 THEN s
            ELSE IF AllFree(visited[i - 1], s.list[i])
                 THEN ReleaseMiniHeap(visited[i - 1], s.list[i])
                 ELSE visited[i - 1]
    IN  visited[Len(s.list)]

\* Mutant: the break is lowered whoever has memory below it.
CanLowerAnyBreak(s) ==
    /\ s.list # << >>
    /\ LastFreeLen(s, Last(s.list)) > FRL
    /\ Last(s.mh[Last(s.list)].free) + LastFreeLen(s, Last(s.list))
         = Last(s.list) + s.mh[Last(s.list)].len

\* What _nheapshrink checks before it lowers the break: the last free block of
\* the last miniheap is at its end, is worth it, and no other memory follows.
CanLowerBreak(s) ==
    /\ s.list # << >>
    /\ LET h == Last(s.list)
           end == Last(s.mh[h].free) + LastFreeLen(s, h)
       IN  /\ end = h + s.mh[h].len
           /\ LastFreeLen(s, h) > FRL
           /\ s.curbrk = end + TAG_SIZE

\* The last miniheap is nothing but a free block.
LastHeapFree(s) ==
    LET h == Last(s.list) IN s.mh[h].len - LastFreeLen(s, h) <= DESCRIPTOR

CutsFreeRover(s) ==
    CanLowerBreak(s) /\ LastHeapFree(s) /\ s.MiniHeapFreeRover = Last(s.list)

\* Mutant: the block that is cut off is still counted.
CutStillCounted(s) ==
    LET h == Last(s.list)
        m == s.mh[h]
        b == Last(m.free)
    IN  [s EXCEPT !.len = With(Without(@, b + s.len[b]), b, END_TAG),
                  !.mh[h] = [m EXCEPT
                               !.len = @ - s.len[b],
                               !.free = Front(@),
                               !.rover = IF @ = b THEN Before(m.free, b) ELSE @],
                  !.curbrk = b + TAG_SIZE]

CutLastFree(s) ==
    LET h == Last(s.list)
        m == s.mh[h]
        b == Last(m.free)
    IN  [s EXCEPT !.len = With(Without(@, b + s.len[b]), b, END_TAG),
                  !.mh[h] = [m EXCEPT
                               !.len = @ - s.len[b],
                               !.numfree = @ - 1,
                               !.free = Front(@),
                               !.rover = IF @ = b THEN Before(m.free, b) ELSE @],
                  !.curbrk = b + TAG_SIZE]

\* __MiniHeapFreeRover is left as it is.
CutLastHeap(s) ==
    LET h == Last(s.list)
        left == Front(s.list)
    IN  [s EXCEPT !.list = left,
                  !.mh = Without(@, h),
                  !.len = Restrict(@, {b \in DOMAIN @ : b < h}),
                  !.MiniHeapRover = IF @ # h THEN @
                                    ELSE IF left = << >> THEN NULL ELSE Head(left),
                  !.LargestSizeB4 = IF s.MiniHeapRover = h THEN 0 ELSE @,
                  !.curbrk = h]

nheapshrink(s) ==
    CASE platform = "NT" -> ReleaseFreeHeaps(s)
      [] platform = "brk" /\ ~CanLowerBreak(s) -> s
      [] OTHER -> IF LastHeapFree(s) THEN CutLastHeap(s) ELSE CutLastFree(s)

\* The length of the last free block of the first miniheap when the break is
\* right behind it.
LastFree(s) ==
    IF /\ s.list # << >>
       /\ Last(s.mh[nheapbeg(s)].free) + LastFreeLen(s, nheapbeg(s)) + TAG_SIZE = s.curbrk
    THEN LastFreeLen(s, nheapbeg(s)) ELSE 0

\* Mutant: nothing is counted for the descriptor of a new miniheap.
AdjustForBlock(s, amount) ==
    LET amt == Even(amount + TAG_SIZE)
        less == IF platform = "NT" THEN 0 ELSE LastFree(s)
        least == Max({Max({0, amt - less}) + TAG_SIZE + FRL, _amblksiz})
    IN  IF platform = "NT" THEN ((least + Page - 1) \div Page) * Page ELSE least

\* What the heap grows by.
AdjustAmount(s, amount) ==
    LET amt == Even(amount + TAG_SIZE)
        less == IF platform = "NT" THEN 0 ELSE LastFree(s)
        need == Max({0, amt - less}) + TAG_SIZE + FRL + DESCRIPTOR
        least == Max({need, _amblksiz})
    IN  IF platform = "NT" THEN ((least + Page - 1) \div Page) * Page ELSE least

\* VirtualAlloc gives pages that are free, or none.
Addresses(s, amount) ==
    {a \in 1..Top : /\ a % Page = 0 /\ a + amount <= Top
                    /\ \A h \in ToSet(s.list) : \/ a + amount <= h
                                                \/ h + s.mh[h].len < a}

CreateNewNHeap(s, a, amount) ==
    LET linked == LinkUpNewMHeap(s, a, amount - TAG_SIZE)
        b == a + DESCRIPTOR
    IN  FreeNewBlock(linked, a, b, linked.len[b], 0)

\* The break moves from s.curbrk by amount: the miniheap that ends there gets
\* longer, from its END_TAG on, or the new memory becomes a miniheap.
Slice(s, amount) ==
    LET brk == s.curbrk
        reach == {h \in ToSet(s.list) : h <= brk /\ h + s.mh[h].len + TAG_SIZE >= brk}
        p1 == IF reach = {} THEN Last(s.list) ELSE Min(reach)
        moved == [s EXCEPT !.curbrk = brk + amount]
        linked == LinkUpNewMHeap(moved, brk, amount - TAG_SIZE)
    IN  IF s.list # << >> /\ p1 + s.mh[p1].len = brk - TAG_SIZE
        THEN FreeNewBlock(Changed(moved, p1, With(s.len, brk - TAG_SIZE + amount, END_TAG),
                                  s.used, [s.mh[p1] EXCEPT !.len = @ + amount]),
                          p1, brk - TAG_SIZE, amount, Largest)
        ELSE FreeNewBlock(linked, brk, brk + DESCRIPTOR,
                          linked.len[brk + DESCRIPTOR], Largest)

\* No growth.
Kept(s) == [ok |-> FALSE, heap |-> s]

\* The results __ExpandDGROUP can have.
ExpandDGROUP(s, amount) ==
    LET shrunk == IF platform = "NT" THEN nheapshrink(s) ELSE s
        size == AdjustAmount(shrunk, amount)
        new == IF platform = "NT"
               THEN {CreateNewNHeap(shrunk, a, size) : a \in Addresses(shrunk, size)}
               ELSE {Slice(shrunk, size) : x \in {y \in {size} : s.curbrk + y <= Top}}
    IN  {[ok |-> TRUE, heap |-> t] : t \in new} \cup {Kept(shrunk)}

-------------------------------------------------------------------------------
\* Calls and their returns.

Idle == call.op = "none"

\* A block the program may name in a call: not one that _nrealloc works on.
Mine == DOMAIN given \ {moving.stg, moving.p}

\* Where a search for amt starts: at the rover, unless a miniheap before it may
\* do.
Search(s, c) ==
    LET atRover == BlockSize(c.amt) > s.LargestSizeB4 /\ s.MiniHeapRover # NULL
    IN  /\ near' = IF atRover THEN s ELSE [s EXCEPT !.LargestSizeB4 = 0]
        /\ call' = [c EXCEPT !.mhp = IF atRover THEN s.MiniHeapRover ELSE nheapbeg(s)]

MallocCall(by, amt) ==
    Search(near, [NoCall EXCEPT !.op = "malloc", !.by = by, !.amt = amt])

MallocReturns(p) ==
    /\ call' = NoCall
    /\ given' = IF p = NULL THEN given ELSE With(given, p, call.amt)
    /\ moving' = CASE call.by = "program" -> moving
                   [] call.by = "nrealloc" /\ p = NULL -> [moving EXCEPT !.at = "restore"]
                   [] OTHER -> [moving EXCEPT !.at = "free", !.p = p]

\* __HeapManager_expand as far as the loop over the blocks that follow.  A block
\* that is to be smaller gives the rest to _nfree when that can be a block.
ExpandStarts(s, c) ==
    LET p1 == c.stg - TAG_SIZE
        old == s.len[p1]
        new == BlockSize(c.amt)
        h == CHOOSE x \in Holders(s, c.stg) : TRUE
    IN  CASE new > old ->
               /\ near' = s
               /\ call' = [c EXCEPT !.op = "expand", !.p2 = p1 + old,
                                    !.growth = new - old]
          [] new <= old /\ old - new >= FRL_SIZE ->
               /\ near' = FreeNewBlock([s EXCEPT !.len[p1] = new], h, p1 + new,
                                       old - new, s.mh[h].largest_blk)
               /\ call' = [c EXCEPT !.op = "expanded"]
          [] OTHER ->
               /\ near' = s
               /\ call' = [c EXCEPT !.op = "expanded"]

ExpandCall(by, stg, amt) ==
    ExpandStarts(near, [NoCall EXCEPT !.by = by, !.stg = stg, !.amt = amt])

ExpandReturns(done) ==
    /\ call' = NoCall
    /\ given' = IF done /\ (call.by = "program" \/ moving.at = "expand")
                THEN [given EXCEPT ![call.stg] = call.amt] ELSE given
    /\ moving' = CASE call.by = "program" -> moving
                   [] call.by = "nrealloc" /\ moving.at = "expand" /\ ~done ->
                        [moving EXCEPT !.at = "malloc"]
                   [] OTHER -> NotMoving

-------------------------------------------------------------------------------
Malloc(amt) ==
    /\ Idle /\ Cardinality(DOMAIN given) < MaxBlocks
    /\ MallocCall("program", amt)
    /\ UNCHANGED <<platform, moving, given, own, asked>>

\* The next miniheap is searched.
VisitMiniHeap ==
    /\ call.op = "malloc" /\ call.mhp # NULL
    /\ LET h == call.mhp
           largest == near.mh[h].largest_blk
           try == IF largest >= call.amt THEN MemAllocator(near, h, call.amt)
                  ELSE [block |-> NULL, heap |-> near]
           found == try.block # NULL
       IN  /\ near' = [try.heap EXCEPT
                         !.MiniHeapRover = h,
                         !.LargestSizeB4 = IF found THEN @ ELSE Max({@, largest})]
           /\ IF found THEN MallocReturns(try.block + TAG_SIZE)
              ELSE /\ call' = [call EXCEPT !.mhp = NextHeap(near, h)]
                   /\ UNCHANGED <<moving, given>>
    /\ UNCHANGED <<platform, own, asked>>

\* Mutant: it is not noted that the heap has grown.
GrowAgain ==
    /\ call.op = "malloc" /\ call.mhp = NULL /\ ~call.expanded
    /\ \E r \in ExpandDGROUP(near, call.amt) : r.ok /\ Search(r.heap, call)
    /\ UNCHANGED <<platform, moving, given, own, asked>>

\* No miniheap has the block: once, the heap grows and is searched again.  The
\* __nmemneed of the library has no memory to spare.
GrowForMalloc ==
    /\ call.op = "malloc" /\ call.mhp = NULL /\ ~call.expanded
    /\ \E r \in ExpandDGROUP(near, call.amt) :
          /\ r.ok
          /\ Search(r.heap, [call EXCEPT !.expanded = TRUE])
    /\ UNCHANGED <<platform, moving, given, own, asked>>

MallocFails ==
    /\ call.op = "malloc" /\ call.mhp = NULL
    /\ \E r \in IF call.expanded THEN {Kept(near)} ELSE ExpandDGROUP(near, call.amt) :
          ~r.ok /\ near' = r.heap
    /\ MallocReturns(NULL)
    /\ UNCHANGED <<platform, own, asked>>

Free(stg) ==
    /\ Idle
    /\ near' = nfree(near, stg)
    /\ given' = Without(given, stg)
    /\ UNCHANGED <<platform, call, moving, own, asked>>

Expand(stg, amt) ==
    /\ Idle
    /\ ExpandCall("program", stg, amt)
    /\ UNCHANGED <<platform, moving, given, own, asked>>

\* The block that follows is free: all of it is taken, or what is needed.
TakeNext ==
    /\ call.op = "expand" /\ IsFree(near, call.p2)
    /\ LET p1 == call.stg - TAG_SIZE
           p2 == call.p2
           free_size == near.len[p2]
           h == CHOOSE x \in Holders(near, call.stg) : TRUE
           m == [near.mh[h] EXCEPT
                   !.rover = IF @ = p2 THEN Before(near.mh[h].free, p2) ELSE @]
           rest == free_size - call.growth
       IN  IF rest < FRL_SIZE
           THEN /\ near' = Changed(near, h, With(Without(near.len, p2), p1, near.len[p1] + free_size),
                                   near.used, [m EXCEPT !.free = Unlink(@, p2), !.numfree = @ - 1])
                /\ call' = IF rest >= 0 THEN [call EXCEPT !.op = "expanded"]
                           ELSE [call EXCEPT !.growth = -rest, !.p2 = @ + free_size]
           ELSE /\ near' = Changed(near, h,
                                   With(With(Without(near.len, p2), p2 + call.growth, rest),
                                        p1, near.len[p1] + call.growth),
                                   near.used,
                                   [m EXCEPT !.free[IndexIn(m.free, p2)] = p2 + call.growth])
                /\ call' = [call EXCEPT !.op = "expanded"]
    /\ UNCHANGED <<platform, moving, given, own, asked>>

\* The miniheap ends after the block, and growth may make it longer.
MayGrow == near.len[call.p2] = END_TAG /\ platform = "brk" /\ ~call.expanded

\* The heap grows, once.
GrowForExpand ==
    /\ call.op = "expand" /\ MayGrow
    /\ \E r \in ExpandDGROUP(near, call.growth) :
          /\ r.ok
          /\ ExpandStarts(r.heap, [call EXCEPT !.expanded = TRUE])
    /\ UNCHANGED <<platform, moving, given, own, asked>>

\* The block keeps what it has got so far.
ExpandFails ==
    /\ call.op = "expand" /\ ~IsFree(near, call.p2)
    /\ \E r \in IF MayGrow THEN ExpandDGROUP(near, call.growth) ELSE {Kept(near)} :
          ~r.ok /\ near' = r.heap
    /\ ExpandReturns(FALSE)
    /\ UNCHANGED <<platform, own, asked>>

ExpandDone ==
    /\ call.op = "expanded"
    /\ ExpandReturns(TRUE)
    /\ UNCHANGED <<platform, near, own, asked>>

\* _nrealloc of a block, for a size above 0; for none and for 0 it is _nmalloc
\* and _nfree.
Realloc(stg, amt) ==
    /\ Idle /\ moving = NotMoving
    /\ moving' = [at |-> "expand", stg |-> stg, amt |-> amt, p |-> NULL,
                  old |-> near.len[stg - TAG_SIZE] - TAG_SIZE]
    /\ ExpandCall("nrealloc", stg, amt)
    /\ UNCHANGED <<platform, given, own, asked>>

ReallocMoves ==
    /\ Idle /\ moving.at = "malloc"
    /\ MallocCall("nrealloc", moving.amt)
    /\ UNCHANGED <<platform, moving, given, own, asked>>

\* Mutant: the old block stays allocated.
ReallocForgets ==
    /\ Idle /\ moving.at = "free"
    /\ given' = Without(given, moving.stg)
    /\ moving' = NotMoving
    /\ UNCHANGED <<platform, near, call, own, asked>>

\* The data has been copied.
ReallocFrees ==
    /\ Idle /\ moving.at = "free"
    /\ near' = nfree(near, moving.stg)
    /\ given' = Without(given, moving.stg)
    /\ moving' = NotMoving
    /\ UNCHANGED <<platform, call, own, asked>>

\* Mutant: the block stays as long as the first _nexpand has made it.
ReallocGivesUp ==
    /\ Idle /\ moving.at = "restore"
    /\ moving' = NotMoving
    /\ UNCHANGED <<platform, near, call, given, own, asked>>

\* "reset back to old size"
ReallocRestores ==
    /\ Idle /\ moving.at = "restore"
    /\ ExpandCall("nrealloc", moving.stg, moving.old)
    /\ UNCHANGED <<platform, moving, given, own, asked>>

Heapmin ==
    /\ Idle
    /\ platform = "brk" /\ ~ShrinkAnytime => ~CutsFreeRover(near)
    /\ near' = nheapshrink(near)
    /\ UNCHANGED <<platform, call, moving, given, own, asked>>

\* The program takes memory at the break.  sbrk reads the break without the
\* semaphore, maybe in the midst of another thread's call.
SbrkReads(n) ==
    /\ platform = "brk" /\ asked = NotAsked /\ Cardinality(own) + n <= MaxOwn
    /\ asked' = [from |-> near.curbrk, n |-> n]
    /\ UNCHANGED heapVars

\* __brk sets it, under the semaphore, and returns the break it finds.
SbrkSets ==
    /\ Idle /\ asked # NotAsked /\ asked.from + asked.n <= Top
    /\ SbrkRace \/ near.curbrk <= asked.from
    /\ near' = [near EXCEPT !.curbrk = asked.from + asked.n]
    /\ own' = own \cup near.curbrk .. near.curbrk + asked.n - 1
    /\ asked' = NotAsked
    /\ UNCHANGED <<platform, call, moving, given>>

\* There is not so much memory.
SbrkFails ==
    /\ Idle /\ asked # NotAsked /\ asked.from + asked.n > Top
    /\ asked' = NotAsked
    /\ UNCHANGED heapVars

InCall == VisitMiniHeap \/ GrowForMalloc \/ MallocFails \/ TakeNext
          \/ GrowForExpand \/ ExpandFails \/ ExpandDone

Next ==
    \/ InCall \/ ReallocMoves \/ ReallocFrees \/ ReallocRestores \/ Heapmin
    \/ \E amt \in Sizes : Malloc(amt)
    \/ \E stg \in Mine : Free(stg)
    \/ \E stg \in Mine, amt \in Sizes : Expand(stg, amt) \/ Realloc(stg, amt)
    \/ SbrkSets \/ SbrkFails \/ \E n \in Sbrks : SbrkReads(n)

Spec == Init /\ [][Next]_vars

-------------------------------------------------------------------------------
\* Blocks, miniheaps, the break and the calls in progress are of their kinds; every
\* allocated block and every miniheap has its tag or descriptor in memory.
TypeOK ==
    /\ platform \in Platforms
    /\ near.used \subseteq DOMAIN near.len /\ DOMAIN near.len \subseteq 1..Top
    /\ \A b \in DOMAIN near.len : near.len[b] \in (1..Top) \cup {END_TAG}
    /\ DOMAIN near.mh = ToSet(near.list) /\ ToSet(near.list) \subseteq 1..Top
    /\ near.LargestSizeB4 \in (0..Top) \cup {Largest}
    /\ near.curbrk \in Start..Top /\ near.wild \in BOOLEAN
    /\ call.op \in {"none", "malloc", "expand", "expanded"}
    /\ call.by \in {"program", "nrealloc"} /\ call.expanded \in BOOLEAN
    /\ {call.stg, call.mhp, call.p2} \subseteq 0..Top
    /\ {call.amt, call.growth} \subseteq Nat
    /\ moving.at \in {"no", "expand", "malloc", "free", "restore"}
    /\ {moving.stg, moving.old, moving.p} \subseteq 0..Top /\ moving.amt \in Nat
    /\ DOMAIN given \subseteq 1..Top /\ own \subseteq 1..Top
    /\ asked.from \in 0..Top /\ asked.n \in Sbrks \cup {0}

\* The tags of a miniheap from its descriptor to its END_TAG.
TagsOf(h) == {b \in DOMAIN near.len : h < b /\ b <= h + near.mh[h].len}

\* The lengths of the blocks of a miniheap lead from its descriptor to its
\* END_TAG, whatever the splits, joins, growths and cuts have been.
Tiled(h) ==
    LET tags == TagsOf(h)
    IN  /\ h + near.mh[h].len \in tags
        /\ tags = {h + DESCRIPTOR} \cup
                  {b + near.len[b] : b \in tags \ {h + near.mh[h].len}}
        /\ \A b \in tags : near.len[b] = END_TAG <=> b = h + near.mh[h].len

\* The ring has the free blocks of the miniheap, all of them in the order of
\* their addresses, no two of them neighbours; numfree and numalloc count.
RingExact(h) ==
    LET m == near.mh[h]
        blocks == TagsOf(h) \ {h + m.len}
    IN  /\ m.free[1] = h /\ ToSet(Tail(m.free)) = blocks \ near.used
        /\ \A i, j \in DOMAIN m.free : i < j => m.free[i] < m.free[j]
        /\ \A b \in blocks \ near.used : b + near.len[b] \notin blocks \ near.used
        /\ m.numfree = Cardinality(blocks \ near.used)
        /\ m.numalloc = Cardinality(blocks \cap near.used)

\* Between calls the allocated blocks are those of the program, each as long as
\* it asked for.
NothingLost ==
    /\ near.used = {p - TAG_SIZE : p \in DOMAIN given}
    /\ \A p \in DOMAIN given : given[p] + TAG_SIZE <= near.len[p - TAG_SIZE]

\* Every miniheap is tiled by its blocks and its ring is exact; the miniheaps are
\* in the order of their addresses and apart; nothing else is taken for a block,
\* and no block stays allocated that the program does not have.
HeapsExact ==
    /\ Idle => NothingLost
    /\ \A h \in ToSet(near.list) : Tiled(h) /\ RingExact(h)
    /\ \A i, j \in DOMAIN near.list : i < j =>
          near.list[i] + near.mh[near.list[i]].len < near.list[j]
    /\ DOMAIN near.len = UNION {TagsOf(h) : h \in ToSet(near.list)}

\* What lets a search skip blocks and miniheaps is true: nothing that is skipped
\* would have done.
BoundsHold ==
    /\ \A h \in ToSet(near.list) :
          LET m == near.mh[h] IN
          /\ Contains(m.free, m.rover)
          /\ \A i \in 2..Len(m.free) :
                /\ near.len[m.free[i]] <= m.largest_blk
                /\ m.free[i] < m.rover => near.len[m.free[i]] <= m.b4rover
    /\ Live(near, near.MiniHeapRover)
    /\ \A h \in ToSet(near.list) : h < near.MiniHeapRover =>
          near.mh[h].largest_blk <= near.LargestSizeB4 \/ ~Idle

\* An _nrealloc that fails leaves its block no shorter than it was, and longer
\* only by what is too little to be a block: what the first _nexpand has taken
\* goes back.  The old size is rounded up as any is.
ReallocGivesBack ==
    [][moving.at = "restore" /\ moving' = NotMoving =>
       near'.len[moving.stg - TAG_SIZE]
           \in moving.old + TAG_SIZE .. BlockSize(moving.old) + FRL_SIZE - 1]_vars

\* _nfree follows no rover to memory that has been given back.
RoversLive == ~near.wild

\* malloc returns NULL only when there is no free block that is long enough.
NullMeansFull ==
    [][call.op = "malloc" /\ Idle' /\ near'.used = near.used =>
       \A b \in DOMAIN near'.len :
          IsFree(near', b) => near'.len[b] < BlockSize(call.amt)]_vars

\* The blocks of the program are its own, whatever calls come between the steps
\* of _nrealloc and of sbrk, and whichever memory the program takes for itself (as
\* long as the heap does not grow in the midst of sbrk, see SbrkSets).
Contract == INSTANCE Allocator

\* The heap implements Allocator.
BlocksOwn == Contract!Spec

\* The miniheaps that a malloc, or the blocks that an _nexpand, has before it.
StepsLeft ==
    CASE call.op = "malloc" ->
           IF call.mhp = NULL THEN 0
           ELSE 1 + Len(near.list) - IndexIn(near.list, call.mhp)
      [] call.op = "expand" -> 1 + Cardinality({b \in DOMAIN near.len : b > call.p2})
      [] OTHER -> 0

\* Every call comes to its end: a step has fewer miniheaps or blocks before it
\* than the last one, or it is the growth of the heap, of which there is one.
CallsEnd ==
    [][~Idle /\ ~Idle' => \/ call'.expanded /\ ~call.expanded
                          \/ call'.expanded = call.expanded /\ StepsLeft' < StepsLeft]_heapVars

\* What the heap grows by is enough: a malloc for which it has grown has its block.
GrowthSuffices ==
    [][call.op = "malloc" /\ call.expanded /\ Idle' => DOMAIN given' # DOMAIN given]_heapVars
===============================================================================
