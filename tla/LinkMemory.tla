---------------------------- MODULE LinkMemory -----------------------------
(***************************************************************************)
(* The linker's virtual memory (bld/wl/c/virtmem.c), its relocation lists   *)
(* (reloc.c) and the spill file (spillio.c) that both move to when the C    *)
(* heap has no room (mem.c).  The linker is one thread; what makes this     *)
(* code hard is recursion: a request for memory frees memory by swapping    *)
(* out, and swapping out may itself request memory.  `stack` holds the      *)
(* active C functions, and every step is a step of the one on top.          *)
(*                                                                         *)
(* The unit of size and of addresses is a cell.  Node k covers the          *)
(* addresses from k * NodeCells (branch and leaf number, nodes are handed   *)
(* out in this order), the huge pages start at HugeBase (HUGE_PAGE).        *)
(* RAM blocks are numbered, 0 is NULL; a place in the spill file is its     *)
(* offset + 1, as SpillAlloc returns it.                                    *)
(***************************************************************************)
EXTENDS Integers, Sequences, FiniteSets

CONSTANTS
    NodeCells,     \* MAX_NODE_SIZE
    TinyCells,     \* TINY_BLOCK_CUTOFF
    SubCells,      \* HUGE_SUBPAGE_SIZE
    Subpages,      \* HUGE_NUM_SUBPAGES
    SectorCells,   \* SECTOR_SIZE
    RelocCells,    \* RELOC_PAGE_SIZE, in relocation items
    NameCells,     \* the size of the spill file's name
    HeapCells,     \* what the C heap can hold
    CacheBlocks,   \* what PermShrink and CacheRelease can give back, in cells
    MaxNodes, MaxHuge, MaxRelocs, MaxOther,   \* bounds of the model
    Format,        \* FmtData.type, decided before the first relocation
    Sizes,         \* the sizes of storage asked for
    Accesses,      \* what callers do: set of [op, skip], from cell skip of their storage on
    MaxOwned,      \* how often storage is asked for (bound of the model)
    MaxDepth       \* the C functions the machine's stack has room for

ASSUME SizesAssumption ==
    /\ NodeCells \in Nat \ {0} /\ TinyCells \in 0..NodeCells
    /\ SubCells \in Nat \ {0} /\ Subpages \in Nat \ {0, 1}
    /\ NodeCells < Subpages * SubCells
    /\ SectorCells \in Nat \ {0} /\ RelocCells \in Nat \ {0} /\ NameCells \in Nat \ {0}
    /\ {HeapCells, CacheBlocks, MaxNodes, MaxHuge, MaxRelocs, MaxOther, MaxDepth} \subseteq Nat
    /\ CacheBlocks =< HeapCells
    /\ Sizes \subseteq Nat \ {0} /\ MaxOwned \in Nat
    /\ Format \in {"MK_PE", "MK_OS2_FLAT", "MK_OS2_16BIT", "MK_QNX", "MK_ELF", "other"}
    /\ Accesses \subseteq
         [op : {"PutInfo", "PutNulls", "ReadInfo", "CompareInfo"}, skip : Nat]

VARIABLES
    SegTab,     \* sequence of [size, inmem, loc], a node each
    HugeTab,    \* sequence of [numthere, numswapped, sizelast, page]
    NextSwap,   \* the nodes that SwapOutVirt takes next
    tiny,       \* [left, addr]: TinyLeft and TinyAddr
    relocs,     \* the relocation list that RelocList names, newest block first:
                \* [left, spilled, loc]
    ram,        \* block -> its cells
    room,       \* cells free in the C heap
    cache,      \* cells that PermShrink and CacheRelease can still give back
    other,      \* cells of the linker's other structures
    TempFile,   \* the spill file is open
    spill,      \* the spill file; Len(spill) is TmpFSize
    owned,      \* the storage handed out: set of [addr, len]
    stack,      \* the active functions, the innermost first
    ret,        \* what the last LAlloc for a page returned
    status      \* "run", "fatal" (no dynamic memory) or "overflow"

pages == <<SegTab, HugeTab, NextSwap, tiny, owned>>
heap  == <<ram, room, cache, other>>
file  == <<TempFile, spill>>
vars  == <<pages, relocs, heap, file, stack, ret, status>>

----------------------------------------------------------------------------
(* Values of cells. *)
Null  == 0      \* written by PutNulls
Fresh == -1     \* zeroed by LAlloc and never written
Hole  == -2     \* never written in the spill file

HugeCells == Subpages * SubCells                \* MAX_BIGNODE_SIZE
HugeBase  == (MaxNodes + 1) * NodeCells
EndAddr   == HugeBase + MaxHuge * HugeCells
Addr      == NodeCells..(EndAddr - 1)
IsHuge(a) == a >= HugeBase                      \* stg.l & HUGE_PAGE

Own(a)  == a
Item(k) == EndAddr + k                          \* the k-th relocation written

(* NODE and BIGNODE, SUBPAGENUM (from 1), and the offsets inside them. *)
Node(a)    == a \div NodeCells
BigNode(a) == ((a - HugeBase) \div HugeCells) + 1
Subpage(a) == (((a - HugeBase) % HugeCells) \div SubCells) + 1
Off(a)     == IF IsHuge(a) THEN (a - HugeBase) % SubCells ELSE a % NodeCells

SubSize(p, s) == IF s = HugeTab[p].numthere THEN HugeTab[p].sizelast ELSE SubCells

(* The piece of virtual memory that holds address a: node->loc, or an entry *)
(* of a huge page.                                                          *)
Place(a) ==
    IF IsHuge(a)
    THEN [loc   |-> HugeTab[BigNode(a)].page[Subpage(a)],
          inmem |-> Subpage(a) > HugeTab[BigNode(a)].numswapped,
          size  |-> SubSize(BigNode(a), Subpage(a))]
    ELSE SegTab[Node(a)]

----------------------------------------------------------------------------
(* SpillAlloc: an area starts on a sector. *)
Padded(n)     == ((n + SectorCells - 1) \div SectorCells) * SectorCells
SpillBase     == Padded(Len(spill)) + 1
UnpaddedSpilled(amt) == [i \in 1..(Len(spill) + amt) |->      \* mutant of Spilled
                           IF i <= Len(spill) THEN spill[i] ELSE Hole]
Spilled(amt) == [i \in 1..(Padded(Len(spill)) + amt) |->
                    IF i <= Len(spill) THEN spill[i] ELSE Hole]
(* Mutant: SpillWrite seeks to the start of the area. *)
WrittenAtBase(f, base, off, d) ==
    [i \in 1..Len(f) |-> IF i - base \in 0..(Len(d) - 1) THEN d[i - base + 1] ELSE f[i]]

(* SpillWrite into file f: cells d from place base + off. *)
Written(f, base, off, d) ==
    [i \in 1..Len(f) |-> IF i - base - off \in 0..(Len(d) - 1)
                         THEN d[i - base - off + 1] ELSE f[i]]

(* free() of RAM block b. *)
Without(r, b) == [c \in DOMAIN r \ {b} |-> r[c]]
FreeBlock(r)  == CHOOSE c \in 1..(Cardinality(DOMAIN r) + 1) : c \notin DOMAIN r

Top     == stack[1]
Pop     == stack' = Tail(stack)
Active(fn) == status = "run" /\ stack # <<>> /\ Top.fn = fn

(* A call of the functions in frames, the innermost first. *)
Call(frames, below) ==
    /\ stack' = frames \o below
    /\ status' = IF Len(stack') > MaxDepth THEN "overflow" ELSE status

LAllocFrame(size, use) == [fn |-> "LAlloc", size |-> size, use |-> use]

(* SpillAlloc of the function on top, in two steps when the file is not     *)
(* open: OpenTempFile first asks for the memory of the file's name.         *)
OpenFirst == /\ ~TempFile
             /\ Call(<<LAllocFrame(NameCells, "name")>>, stack)
             /\ UNCHANGED <<pages, relocs, heap, file, ret>>

----------------------------------------------------------------------------
(* AllocStg and what it calls, for a request of size cells. *)
Pieces(size, limit) == (size + limit - 1) \div limit
PieceSize(size, limit, i) ==
    IF i < Pieces(size, limit) THEN limit ELSE size - (i - 1) * limit

GetStg(size, limit) ==
    [i \in 1..Pieces(size, limit) |->
        [size |-> PieceSize(size, limit, i), inmem |-> FALSE, loc |-> 0]]

(* Mutant: the last subpage of a huge page may have size 0. *)
GetBigStgOverhang(size) ==
    [i \in 1..Pieces(size, HugeCells) |->
        [numthere   |-> (PieceSize(size, HugeCells, i) \div SubCells) + 1,
         numswapped |-> 0,
         sizelast   |-> PieceSize(size, HugeCells, i) % SubCells,
         page       |-> <<>>]]

GetBigStg(size) ==
    [i \in 1..Pieces(size, HugeCells) |->
        LET amt == PieceSize(size, HugeCells, i)
            whole == amt % SubCells = 0
        IN  [numthere   |-> (amt \div SubCells) + (IF whole THEN 0 ELSE 1),
             numswapped |-> 0,
             sizelast   |-> IF whole THEN SubCells ELSE amt % SubCells,
             page       |-> <<>>]]

Give(a, n) == owned' = owned \union {[addr |-> a, len |-> n]}

AllocTinyStg(size) ==
    LET fits == tiny.left >= size
        addr == IF fits THEN tiny.addr ELSE (Len(SegTab) + 1) * NodeCells
        left == IF fits THEN tiny.left ELSE NodeCells
    IN  /\ fits \/ Len(SegTab) < MaxNodes
        /\ SegTab' = IF fits THEN SegTab ELSE SegTab \o GetStg(NodeCells, NodeCells)
        /\ tiny' = [left |-> left - size, addr |-> addr + size]
        /\ Give(addr, size)
        /\ UNCHANGED HugeTab

AllocStg(size) ==
    /\ status = "run" /\ stack = <<>>
    /\ Cardinality(owned) < MaxOwned
    /\ \/ size <= TinyCells /\ AllocTinyStg(size)
       \/ /\ size > TinyCells /\ size >= HugeCells
          /\ Len(HugeTab) + Pieces(size, HugeCells) <= MaxHuge
          /\ HugeTab' = HugeTab \o GetBigStg(size)
          /\ Give(HugeBase + Len(HugeTab) * HugeCells, size)
          /\ UNCHANGED <<SegTab, tiny>>
       \/ /\ size > TinyCells /\ size < HugeCells
          /\ Len(SegTab) + Pieces(size, NodeCells) <= MaxNodes
          /\ SegTab' = SegTab \o GetStg(size, NodeCells)
          /\ Give((Len(SegTab) + 1) * NodeCells, size)
          /\ UNCHANGED <<HugeTab, tiny>>
    /\ UNCHANGED <<NextSwap, relocs, heap, file, stack, ret, status>>

----------------------------------------------------------------------------
(* ScanNodes with one of its callbacks, for n cells from address a. *)
Access(op, a, n) ==
    /\ status = "run" /\ stack = <<>>
    /\ \E b \in owned : a >= b.addr /\ a + n <= b.addr + b.len
    /\ Call(<<[fn |-> "ScanNodes", op |-> op, addr |-> a, len |-> n, got |-> <<>>]>>, <<>>)
    /\ UNCHANGED <<pages, relocs, heap, file, ret>>

(* The first access to a page gives it its memory. *)
ScanFirstUse ==
    /\ Active("ScanNodes") /\ Top.len > 0
    /\ \/ /\ ~IsHuge(Top.addr) /\ Place(Top.addr).loc = 0
          /\ Call(<<LAllocFrame(Place(Top.addr).size, "page"),
                    [fn |-> "AllocNode", node |-> Node(Top.addr)]>>, stack)
          /\ UNCHANGED pages
       \/ LET p == BigNode(Top.addr) IN
          /\ IsHuge(Top.addr) /\ HugeTab[p].page = <<>>
          /\ HugeTab' = [HugeTab EXCEPT ![p].page = [s \in 1..HugeTab[p].numthere |-> 0]]
          /\ Call(<<LAllocFrame(HugeTab[p].sizelast, "page"),
                    [fn |-> "AllocHugeNode", page |-> p, index |-> HugeTab[p].numthere,
                     nomem |-> FALSE]>>, stack)
          /\ UNCHANGED <<SegTab, NextSwap, tiny, owned>>
    /\ UNCHANGED <<relocs, heap, file, ret>>

(* What LoadInfo, CompareBlock and OutInfo find: amt cells at place p. *)
Contents(p, off, amt) ==
    [i \in 1..amt |-> IF p.inmem THEN ram[p.loc][off + i] ELSE spill[p.loc + off + i - 1]]

ScanPiece ==
    /\ Active("ScanNodes") /\ Top.len > 0
    /\ IF IsHuge(Top.addr) THEN HugeTab[BigNode(Top.addr)].page # <<>>
                           ELSE Place(Top.addr).loc # 0
    /\ LET p    == Place(Top.addr)
           off  == Off(Top.addr)
           amt  == IF off + Top.len <= p.size THEN Top.len ELSE p.size - off
           rest == [Top EXCEPT !.addr = @ + amt, !.len = @ - amt]
           data == [i \in 1..amt |-> IF Top.op = "PutInfo" THEN Own(Top.addr + i - 1) ELSE Null]
           same == \A i \in 1..amt : Contents(p, off, amt)[i] = Own(Top.addr + i - 1)
           Put  == IF p.inmem
                   THEN /\ ram' = [ram EXCEPT ![p.loc] =
                                     [i \in 1..Len(@) |-> IF i - off \in 1..amt
                                                          THEN data[i - off] ELSE @[i]]]
                        /\ UNCHANGED spill
                   ELSE spill' = Written(spill, p.loc, off, data) /\ UNCHANGED ram
       IN  \/ /\ Top.op \in {"PutInfo", "PutNulls"}
              /\ Put
              /\ stack' = <<rest>>
           \/ /\ Top.op = "ReadInfo"
              /\ stack' = <<[rest EXCEPT !.got = @ \o Contents(p, off, amt)]>>
              /\ UNCHANGED <<ram, spill>>
           \/ /\ Top.op = "CompareInfo"
              /\ stack' = <<[rest EXCEPT !.got = <<same>>, !.len = IF same THEN @ ELSE 0]>>
              /\ UNCHANGED <<ram, spill>>
    /\ UNCHANGED <<pages, relocs, room, cache, other, TempFile, ret, status>>

ScanReturn ==
    /\ Active("ScanNodes") /\ Top.len = 0
    /\ Pop
    /\ UNCHANGED <<pages, relocs, heap, file, ret, status>>

(* Mutant: the node that joins NextSwap is its only one. *)
OnlyLink(k) == <<k>>
Linked(k) == Append(NextSwap, k)

(* AllocNode, after its LAlloc. *)
AllocNode ==
    /\ Active("AllocNode")
    /\ LET k == Top.node IN
       \/ /\ ret # 0
          /\ SegTab' = [SegTab EXCEPT ![k].loc = ret, ![k].inmem = TRUE]
          /\ NextSwap' = Linked(k)
          /\ Pop /\ ret' = 0
          /\ UNCHANGED <<HugeTab, tiny, owned, relocs, heap, file, status>>
       \/ ret = 0 /\ OpenFirst
       \/ /\ ret = 0 /\ TempFile
          /\ SegTab' = [SegTab EXCEPT ![k].loc = SpillBase, ![k].inmem = FALSE]
          /\ spill' = Spilled(SegTab[k].size)
          /\ NextSwap' = Linked(k)
          /\ Pop
          /\ UNCHANGED <<HugeTab, tiny, owned, relocs, heap, TempFile, ret, status>>

(* AllocHugeNode, after the LAlloc for subpage index: the last one first,   *)
(* and once one of them gets no memory all that follow go to the file.      *)
HugeNext(frame, nomem, below) ==
    IF frame.index = 1 THEN stack' = below /\ UNCHANGED status
    ELSE LET next == [frame EXCEPT !.index = @ - 1, !.nomem = nomem]
         IN  IF nomem THEN stack' = <<next>> \o below /\ UNCHANGED status
             ELSE Call(<<LAllocFrame(SubCells, "page"), next>>, below)

AllocHugeNode ==
    /\ Active("AllocHugeNode")
    /\ LET p == Top.page
           s == Top.index IN
       \/ /\ ret # 0
          /\ HugeTab' = [HugeTab EXCEPT ![p].page[s] = ret]
          /\ HugeNext(Top, FALSE, Tail(stack))
          /\ ret' = 0
          /\ UNCHANGED <<SegTab, NextSwap, tiny, owned, relocs, heap, file>>
       \/ ret = 0 /\ OpenFirst
       \/ /\ ret = 0 /\ TempFile
          /\ HugeTab' = [HugeTab EXCEPT ![p].page[s] = SpillBase,
                                        ![p].numswapped = IF Top.nomem THEN @ ELSE s]
          /\ spill' = Spilled(SubSize(p, s))
          /\ HugeNext(Top, TRUE, Tail(stack))
          /\ UNCHANGED <<SegTab, NextSwap, tiny, owned, relocs, heap, TempFile, ret>>

----------------------------------------------------------------------------
(* LAlloc: malloc, and FreeUpMemory for as long as it fails. *)
Malloc ==
    /\ Active("LAlloc")
    /\ Top.size <= room
    /\ room' = room - Top.size
    /\ Pop
    /\ \/ /\ Top.use = "page"
          /\ ret' = FreeBlock(ram)
          /\ ram' = [b \in DOMAIN ram \union {ret'} |->
                       IF b = ret' THEN [i \in 1..Top.size |-> Fresh] ELSE ram[b]]
          /\ UNCHANGED <<other, TempFile>>
       \/ /\ Top.use = "other"
          /\ other' = other + Top.size
          /\ UNCHANGED <<ram, ret, TempFile>>
       \/ /\ Top.use = "name"          \* the rest of OpenTempFile
          /\ TempFile' = TRUE
          /\ UNCHANGED <<ram, ret, other>>
    /\ UNCHANGED <<pages, relocs, cache, spill, status>>

NoRoom == Active("LAlloc") /\ Top.size > room

(* PermShrink or CacheRelease. *)
FreeCaches ==
    /\ NoRoom
    /\ cache > 0
    /\ cache' = cache - 1 /\ room' = room + 1
    /\ UNCHANGED <<pages, relocs, ram, other, file, stack, ret, status>>

(* SwapOutVirt up to its SpillAlloc: take nodes from NextSwap up to the     *)
(* first one that is in memory.                                             *)
InMemAt == {i \in 1..Len(NextSwap) : SegTab[NextSwap[i]].inmem}
FirstInMem == CHOOSE i \in InMemAt : \A j \in InMemAt : i <= j

SwapOutVirt ==
    /\ NoRoom /\ cache = 0
    /\ InMemAt # {}
    /\ LET k == NextSwap[FirstInMem] IN
       /\ NextSwap' = SubSeq(NextSwap, FirstInMem + 1, Len(NextSwap))
       /\ SegTab' = [SegTab EXCEPT ![k].inmem = FALSE]
       /\ Call(<<[fn |-> "SwapOutVirt", node |-> k]>>, stack)
    /\ UNCHANGED <<HugeTab, tiny, owned, relocs, heap, file, ret>>

RelocsBehindFirst == {i \in 2..Len(relocs) : ~relocs[i].spilled}  \* mutant of InMemRelocs
InMemRelocs == {i \in 1..Len(relocs) : ~relocs[i].spilled}

(* Whose list WriteReloc writes to: that of a page or of the whole of the   *)
(* group, or that of the section.                                           *)
RelocList ==
    CASE Format \in {"MK_PE", "MK_OS2_FLAT"} -> "pages"
      [] Format \in {"MK_OS2_16BIT", "MK_ELF"} -> "group"
      [] Format \in {"MK_QNX", "other"} -> "section"

(* The lists SwapOutRelocs goes over; that of the group is not one of them  *)
(* when the format is MK_ELF.                                               *)
SwappedLists ==
    CASE Format \in {"MK_PE", "MK_OS2_FLAT"} -> {"pages"}
      [] Format = "MK_OS2_16BIT" -> {"group"}
      [] Format = "MK_QNX" -> {"group", "section"}
      [] Format \in {"MK_ELF", "other"} -> {"section"}

(* What SwapOutRelocs finds. *)
SwapRelocs == IF RelocList \in SwappedLists THEN InMemRelocs ELSE {}

(* SwapOutRelocs, and LAlloc's answer when nothing is left to swap out.     *)
(* ChkLAlloc gives the fatal error "dynamic memory exhausted".              *)
SwapOutRelocs ==
    /\ NoRoom /\ cache = 0 /\ InMemAt = {}
    /\ NextSwap' = <<>>
    /\ \/ /\ SwapRelocs # {}
          /\ LET i == CHOOSE i \in SwapRelocs : \A j \in SwapRelocs : i <= j
             IN  Call(<<[fn |-> "SpillRelocList", block |-> i]>>, stack)
          /\ UNCHANGED ret
       \/ /\ SwapRelocs = {} /\ Top.use = "page"
          /\ ret' = 0 /\ Pop
          /\ UNCHANGED status
       \/ /\ SwapRelocs = {} /\ Top.use # "page"
          /\ status' = "fatal"
          /\ UNCHANGED <<stack, ret>>
    /\ UNCHANGED <<SegTab, HugeTab, tiny, owned, relocs, heap, file>>

(* The rest of SwapOutVirt. *)
SwapOutNode ==
    /\ Active("SwapOutVirt")
    /\ LET k == Top.node
           mem == SegTab[k].loc IN
       \/ OpenFirst
       \/ /\ TempFile
          /\ SegTab' = [SegTab EXCEPT ![k].loc = SpillBase]
          /\ spill' = Written(Spilled(SegTab[k].size), SpillBase, 0, ram[mem])
          /\ ram' = Without(ram, mem)
          /\ room' = room + Len(ram[mem])
          /\ Pop
          /\ UNCHANGED <<HugeTab, NextSwap, tiny, owned, relocs, cache, other, TempFile, ret, status>>

(* Mutant: the cells that are left, and not those in use, are written. *)
UnusedPart(b) == SubSeq(ram[b.loc], 1, b.left)
UsedPart(b) == SubSeq(ram[b.loc], 1, RelocCells - b.left)

(* SpillRelocList at the first block in memory: only the part of it in use  *)
(* is written to the file.                                                  *)
SpillReloc ==
    /\ Active("SpillRelocList")
    /\ LET i == Top.block
           mem == relocs[i].loc IN
       \/ OpenFirst
       \/ /\ TempFile
          /\ spill' = Written(Spilled(RelocCells), SpillBase, 0, UsedPart(relocs[i]))
          /\ relocs' = [relocs EXCEPT ![i].spilled = TRUE, ![i].loc = SpillBase]
          /\ ram' = Without(ram, mem)
          /\ room' = room + Len(ram[mem])
          /\ Pop
          /\ UNCHANGED <<pages, cache, other, TempFile, ret, status>>

----------------------------------------------------------------------------
(* DoWriteReloc of one item. *)
RelocLeft  == IF relocs = <<>> THEN 0 ELSE relocs[1].left
RelocCount == RelocCells * Len(relocs) - RelocLeft

PutReloc(list, r, f) ==
    LET b == list[1]
        off == RelocCells - b.left
    IN  /\ relocs' = [list EXCEPT ![1].left = @ - 1]
        /\ IF b.spilled
           THEN spill' = Written(f, b.loc, off, <<Item(RelocCount)>>) /\ ram' = r
           ELSE ram' = [r EXCEPT ![b.loc][off + 1] = Item(RelocCount)] /\ spill' = f

WriteReloc ==
    /\ status = "run" /\ stack = <<>>
    /\ \/ /\ RelocLeft > 0
          /\ PutReloc(relocs, ram, spill)
          /\ UNCHANGED <<stack, status>>
       \/ /\ RelocLeft = 0
          /\ Len(relocs) < MaxRelocs
          /\ Call(<<LAllocFrame(RelocCells, "page"), [fn |-> "AllocRelocInfo"]>>, <<>>)
          /\ UNCHANGED <<relocs, ram, spill>>
    /\ UNCHANGED <<pages, room, cache, other, TempFile, ret>>

(* AllocRelocInfo after its LAlloc, and the write to the new block. *)
AllocRelocInfo ==
    /\ Active("AllocRelocInfo")
    /\ LET With(loc, spilled) ==
             <<[left |-> RelocCells, spilled |-> spilled, loc |-> loc]>> \o relocs IN
       \/ /\ ret # 0
          /\ PutReloc(With(ret, FALSE), ram, spill)
          /\ Pop /\ ret' = 0
          /\ UNCHANGED <<pages, room, cache, other, TempFile, status>>
       \/ ret = 0 /\ OpenFirst
       \/ /\ ret = 0 /\ TempFile
          /\ PutReloc(With(SpillBase, TRUE), ram, Spilled(RelocCells))
          /\ Pop
          /\ UNCHANGED <<pages, room, cache, other, TempFile, ret, status>>

(* The linker's other structures come from the same heap. *)
ChkAlloc(n) ==
    /\ status = "run" /\ stack = <<>>
    /\ other + n <= MaxOther
    /\ Call(<<LAllocFrame(n, "other")>>, <<>>)
    /\ UNCHANGED <<pages, relocs, heap, file, ret>>

LnkFree(n) ==
    /\ status = "run" /\ stack = <<>>
    /\ n <= other
    /\ other' = other - n /\ room' = room + n
    /\ UNCHANGED <<pages, relocs, ram, cache, file, stack, ret, status>>

(* What is freed at the end: FreeVirtMem walks the nodes and the subpages   *)
(* from numswapped on, FreeRelocList the blocks that were not spilled.      *)
AllSubpages(p) ==                       \* mutant: numswapped is not looked at
    {[of |-> <<"huge", p, s>>, loc |-> HugeTab[p].page[s]] : s \in 1..Len(HugeTab[p].page)}
FreedSubpages(p) ==
    {[of |-> <<"huge", p, s>>, loc |-> HugeTab[p].page[s]] :
        s \in (HugeTab[p].numswapped + 1)..Len(HugeTab[p].page)}

FreedAtEnd ==
    {[of |-> <<"reloc", i>>, loc |-> relocs[i].loc] : i \in InMemRelocs}
      \union {[of |-> <<"node", k>>, loc |-> SegTab[k].loc] :
                 k \in {k \in 1..Len(SegTab) : SegTab[k].inmem}}
      \union UNION {FreedSubpages(p) : p \in 1..Len(HugeTab)}

----------------------------------------------------------------------------
Init ==
    /\ SegTab = <<>> /\ HugeTab = <<>> /\ NextSwap = <<>>
    /\ tiny = [left |-> 0, addr |-> 0]
    /\ owned = {} /\ relocs = <<>>
    /\ ram = [b \in {} |-> <<>>]
    /\ room = HeapCells - CacheBlocks /\ cache = CacheBlocks /\ other = 0
    /\ TempFile = FALSE /\ spill = <<>>
    /\ stack = <<>> /\ ret = 0 /\ status = "run"

(* What the rest of the linker asks for, between two requests. *)
Requests ==
    \/ \E size \in Sizes : AllocStg(size)
    \/ \E x \in Accesses, b \in owned :
          x.skip < b.len /\ Access(x.op, b.addr + x.skip, b.len - x.skip)
    \/ WriteReloc
    \/ \E n \in 1..MaxOther : ChkAlloc(n) \/ LnkFree(n)

(* The steps of a request. *)
Step ==
    \/ ScanFirstUse \/ ScanPiece \/ ScanReturn
    \/ AllocNode \/ AllocHugeNode \/ AllocRelocInfo
    \/ Malloc \/ FreeCaches \/ SwapOutVirt \/ SwapOutRelocs
    \/ SwapOutNode \/ SpillReloc

Next == Requests \/ Step

Spec == Init /\ [][Next]_vars

----------------------------------------------------------------------------
Idle == stack = <<>>

(* SwapOutVirt clears a node's flag before it requests the file's name: the *)
(* nodes that are in RAM with the flag cleared.                             *)
Leaving == {stack[i].node : i \in {i \in 1..Len(stack) : stack[i].fn = "SwapOutVirt"}}

TypeOK ==
    /\ SegTab \in Seq([size : 1..NodeCells, inmem : BOOLEAN, loc : Nat])
    /\ HugeTab \in Seq([numthere : 1..Subpages, numswapped : 0..Subpages,
                        sizelast : 1..SubCells, page : Seq(Nat)])
    /\ \A p \in 1..Len(HugeTab) :
         /\ HugeTab[p].numswapped <= HugeTab[p].numthere
         /\ Len(HugeTab[p].page) \in {0, HugeTab[p].numthere}
    /\ NextSwap \in Seq(1..Len(SegTab))
    /\ tiny \in [left : 0..NodeCells, addr : Nat]
    /\ relocs \in Seq([left : 0..RelocCells, spilled : BOOLEAN, loc : Nat])
    /\ \A b \in DOMAIN ram : ram[b] \in Seq(Int)
    /\ room \in 0..HeapCells /\ cache \in 0..CacheBlocks /\ other \in 0..MaxOther
    /\ TempFile \in BOOLEAN /\ spill \in Seq(Int)
    /\ owned \subseteq [addr : Addr, len : Sizes]
    /\ status # "overflow" => Len(stack) <= MaxDepth
    /\ ret \in Nat
    /\ status \in {"run", "fatal", "overflow"}

----------------------------------------------------------------------------
(* The memory the callers see. *)
Backed(a) ==
    IF IsHuge(a)
    THEN /\ BigNode(a) <= Len(HugeTab)
         /\ Subpage(a) <= Len(HugeTab[BigNode(a)].page)
         /\ Place(a).loc # 0 /\ Off(a) < Place(a).size
    ELSE /\ Node(a) <= Len(SegTab)
         /\ Place(a).loc # 0 /\ Off(a) < Place(a).size

Content(a) ==
    LET p == Place(a)
    IN  IF ~Backed(a) THEN Fresh
        ELSE IF p.inmem \/ (~IsHuge(a) /\ Node(a) \in Leaving)
             THEN ram[p.loc][Off(a) + 1]
             ELSE spill[p.loc + Off(a)]

Seen(v) == IF v = Hole THEN Fresh ELSE v

Caller == stack[Len(stack)]

SeenStore == [a \in Addr |-> Seen(Content(a))]

SeenCall ==
    IF stack = <<>> \/ Caller.fn # "ScanNodes"
    THEN [op |-> "none", addr |-> 0, len |-> 0, got |-> <<>>]
    ELSE [op |-> Caller.op, addr |-> Caller.addr, len |-> Caller.len,
          got |-> IF Caller.op = "ReadInfo"
                  THEN [i \in 1..Len(Caller.got) |-> Seen(Caller.got[i])]
                  ELSE Caller.got]

Plain == INSTANCE PlainMemory WITH
    Unwritten <- Fresh, store <- SeenStore, call <- SeenCall

(* Whatever is swapped out, and whenever, what a caller reads is what was   *)
(* last put there: the pages in RAM, the huge pages, the pages that never   *)
(* had RAM and the spill file together behave as a plain array of cells.    *)
ActsAsMemory == Plain!Spec

(* A node in memory is on the list that SwapOutVirt takes its victims from, *)
(* and no node is on it twice: none is forgotten in memory, none is swapped *)
(* out again from a block that was freed.                                   *)
SwapListExact ==
    /\ \A k \in 1..Len(SegTab) : SegTab[k].inmem => \E i \in 1..Len(NextSwap) : NextSwap[i] = k
    /\ \A i, j \in 1..Len(NextSwap) : NextSwap[i] = NextSwap[j] => i = j

(* The areas of the spill file that pages and relocation blocks live in. *)
SpillAreas ==
    {[of |-> <<"node", k>>, at |-> SegTab[k].loc, len |-> SegTab[k].size] :
        k \in {k \in 1..Len(SegTab) \ Leaving : SegTab[k].loc # 0 /\ ~SegTab[k].inmem}}
      \union {[of |-> <<"reloc", i>>, at |-> relocs[i].loc, len |-> RelocCells] :
                i \in 1..Len(relocs) \ InMemRelocs}
      \union UNION {{[of |-> <<"huge", p, s>>, at |-> HugeTab[p].page[s], len |-> SubSize(p, s)] :
                       s \in {s \in 1..HugeTab[p].numswapped : HugeTab[p].page # <<>>
                                                              /\ HugeTab[p].page[s] # 0}} :
                    p \in 1..Len(HugeTab)}

(* Of the heap: each page and relocation block in RAM has a block of its    *)
(* own, every block is one of these, and the heap's cells add up.           *)
RamCells == UNION {{b} \X (1..Len(ram[b])) : b \in DOMAIN ram}

RamExact ==
    /\ \A x, y \in FreedAtEnd : x.loc = y.loc => x = y
    /\ {x.loc : x \in FreedAtEnd} = DOMAIN ram
    /\ room + cache + other + (IF TempFile THEN NameCells ELSE 0) + Cardinality(RamCells)
         = HeapCells

(* Of the file: no two areas share a cell, each starts on a sector and lies *)
(* inside what SpillAlloc has handed out.                                   *)
SpillApart ==
    \A x \in SpillAreas :
       /\ (x.at - 1) % SectorCells = 0
       /\ x.at + x.len - 1 <= Len(spill)
       /\ \A y \in SpillAreas \ {x} : x.at + x.len <= y.at \/ y.at + y.len <= x.at

(* Every page and relocation block has a place of its own, in RAM or in the *)
(* spill file, also while blocks move from the one to the other;            *)
(* FreeVirtMem and FreeRelocInfo free each block once and leave none.       *)
PlacesExact == (Idle => RamExact) /\ SpillApart

(* The relocations are all there, in the order they were written, wherever  *)
(* their blocks are: DumpRelocList writes them to the load file from here.  *)
RelocsKept ==
    \A i \in 1..Len(relocs) : \A j \in 1..(RelocCells - relocs[i].left) :
        LET b == relocs[i]
            item == Item((Len(relocs) - i) * RelocCells + j - 1)
        IN  (IF b.spilled THEN spill[b.loc + j - 1] ELSE ram[b.loc][j]) = item

(* "When all available memory is used, a spill file will be used"           *)
(* (wlerrmsg.gml:122): once the file is open, the linker gives up for want  *)
(* of memory only when nothing but huge pages is left in memory (and, if    *)
(* the format is MK_ELF, relocations, which SwapOutRelocs does not find),   *)
(* and never runs out of its stack.  Before, it may: see OpenFirst.         *)
HugeBlocks == {HugeTab[x[1]].page[x[2]] : x \in {x \in (1..Len(HugeTab)) \X (1..Subpages) :
                                                   x[2] \in DOMAIN HugeTab[x[1]].page}}
RelocBlocks == {relocs[i].loc : i \in InMemRelocs}
KeptBlocks  == HugeBlocks \cup IF Format = "MK_ELF" THEN RelocBlocks ELSE {}

SpilledBeforeFatal ==
    TempFile => /\ status # "overflow"
                /\ status = "fatal" => DOMAIN ram \subseteq KeptBlocks
=============================================================================
