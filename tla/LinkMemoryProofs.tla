-------------------------- MODULE LinkMemoryProofs --------------------------
(***************************************************************************)
(* What LinkMemory guarantees for any sizes of nodes, pages, sectors and    *)
(* heap, any storage that is asked for and any accesses: the properties of  *)
(* the model, from the inductive invariant, and the refinement of           *)
(* PlainMemory.                                                             *)
(***************************************************************************)
EXTENDS LinkMemorySteps

LEMMA InitInv == Init => IInv
<1> SUFFICES ASSUME Init PROVE IInv
  OBVIOUS
<1>1. TypeOK
  <2>1. \A p \in 1..Len(HugeTab) : FALSE
    BY DEF Init
  <2>2. \A b \in DOMAIN ram : FALSE
    BY DEF Init
  <2>3. room \in 0..HeapCells /\ cache \in 0..CacheBlocks /\ other \in 0..MaxOther
    BY Constants DEF Init
  <2>4. tiny \in [left : 0..NodeCells, addr : Nat]
    BY Constants DEF Init
  <2>5. Len(stack) <= MaxDepth
    BY Constants DEF Init
  <2>6. owned \subseteq [addr : Addr, len : Sizes] /\ ret \in Nat /\ TempFile \in BOOLEAN
        /\ status \in {"run", "fatal", "overflow"}
    BY DEF Init
  <2>7. SegTab \in Seq(NodeSet) /\ HugeTab \in Seq(HugeSet) /\ relocs \in Seq(RelocSet)
        /\ spill \in Seq(Int) /\ NextSwap \in Seq(1..Len(SegTab))
    BY DEF Init
  <2> QED
    BY <2>1, <2>2, <2>3, <2>4, <2>5, <2>6, <2>7 DEF TypeOK, NodeSet, HugeSet, RelocSet
<1>2. DOMAIN ram = {} /\ CellsIn(ram) = {}
  BY DEF Init, CellsIn
<1>3. Kinds
  <2>1. IsFiniteSet(DOMAIN ram) /\ IsFiniteSet(CellsIn(ram))
    BY <1>2, FS_EmptySet
  <2>2. ram = [b \in DOMAIN ram |-> ram[b]]
    BY DEF Init
  <2>3. stack \in Seq(Frames)
    BY DEF Init
  <2>4. Len(SegTab) <= MaxNodes /\ Len(HugeTab) <= MaxHuge /\ Len(relocs) <= MaxRelocs
    BY Constants DEF Init
  <2> QED
    BY <1>2, <2>1, <2>2, <2>3, <2>4 DEF Kinds
<1>4. Storage
  BY DEF Storage, Init
<1>5. Depth = 0 /\ \A d \in 1..Depth : FALSE
  BY DEF Depth, Init
<1>6. Calls
  BY <1>5 DEF Calls, Distinct, InHand, Init
<1>7. HugePages /\ SwapList
  BY DEF HugePages, SwapList, SwapListExact, Init
<1>8. Accounted
  <2>1. Cardinality(CellsIn(ram)) = 0
    BY <1>2, FS_EmptySet
  <2>2. TempFile = FALSE /\ room = HeapCells - CacheBlocks /\ cache = CacheBlocks /\ other = 0
    BY DEF Init
  <2> QED
    BY <2>1, <2>2, Constants DEF Accounted
<1>9. \A o : ~HasPlace(o)
  BY DEF HasPlace, Init
<1>10. DOMAIN Places = {} /\ spill \in Seq(Int)
  BY <1>9 DEF Places, Init
<1>11. Memory(Places, ram, spill)
  <2>1. Places = [o \in DOMAIN Places |-> Places[o]] /\ ram = [b \in DOMAIN ram |-> ram[b]]
    BY <1>3 DEF Places, Kinds
  <2>2. Typed(Places, ram, spill)
    BY <1>2, <1>10, <2>1 DEF Typed
  <2> QED
    BY <1>2, <1>10, <2>2 DEF Memory, Housed, Alone, NoLeak, Inside, FileApart
<1>12. RelocValues /\ NewIsFresh
  BY DEF RelocValues, NewIsFresh, Init
<1> QED
  BY <1>1, <1>3, <1>4, <1>6, <1>7, <1>8, <1>11, <1>12 DEF IInv, Control

(* Every step but that of a Put. *)
QuietActions ==
    \/ \E size \in Sizes : AllocStg(size)
    \/ \E x \in Accesses, b \in owned :
          x.skip < b.len /\ Access(x.op, b.addr + x.skip, b.len - x.skip)
    \/ WriteReloc
    \/ \E n \in 1..MaxOther : ChkAlloc(n) \/ LnkFree(n)
    \/ ScanFirstUse \/ ScanReturn
    \/ AllocNode \/ AllocHugeNode \/ AllocRelocInfo
    \/ Malloc \/ FreeCaches \/ SwapOutVirt \/ SwapOutRelocs
    \/ SwapOutNode \/ SpillReloc

LEMMA NextIs == Next <=> QuietActions \/ ScanPiece
BY DEF Next, Requests, Step, QuietActions

LEMMA QuietActionsStep ==
    ASSUME IInv, QuietActions
    PROVE  IInv' /\ CellsKept
<1>1. CASE \E size \in Sizes : AllocStg(size)
  BY <1>1, AllocStgStep
<1>2. CASE \E x \in Accesses, b \in owned :
             x.skip < b.len /\ Access(x.op, b.addr + x.skip, b.len - x.skip)
  BY <1>2, AccessStep
<1>3. CASE WriteReloc
  BY <1>3, WriteRelocStep
<1>4. CASE \E n \in 1..MaxOther : ChkAlloc(n) \/ LnkFree(n)
  BY <1>4, ChkAllocStep, LnkFreeStep
<1>5. CASE ScanFirstUse \/ ScanReturn
  BY <1>5, ScanFirstUseStep, ScanReturnStep
<1>6. CASE AllocNode \/ AllocHugeNode \/ AllocRelocInfo
  BY <1>6, AllocNodeStep, AllocHugeNodeStep, AllocRelocInfoStep
<1>7. CASE Malloc \/ FreeCaches
  BY <1>7, MallocStep, FreeCachesStep
<1>8. CASE SwapOutVirt \/ SwapOutRelocs \/ SwapOutNode \/ SpillReloc
  BY <1>8, SwapOutVirtStep, SwapOutRelocsStep, SwapOutNodeStep, SpillRelocStep
<1> QED
  BY <1>1, <1>2, <1>3, <1>4, <1>5, <1>6, <1>7, <1>8 DEF QuietActions

LEMMA StutterInv ==
    ASSUME IInv, UNCHANGED vars
    PROVE  IInv'
<1>1. /\ SegTab' = SegTab /\ HugeTab' = HugeTab /\ NextSwap' = NextSwap /\ tiny' = tiny
      /\ owned' = owned /\ relocs' = relocs /\ ram' = ram /\ room' = room /\ cache' = cache
      /\ other' = other /\ TempFile' = TempFile /\ spill' = spill /\ stack' = stack
      /\ ret' = ret /\ status' = status
  BY DEF vars, pages, heap, file
<1>2. TypeOK' <=> TypeOK
  BY <1>1 DEF TypeOK
<1>3. (Kinds' <=> Kinds) /\ (Storage' <=> Storage)
  BY <1>1 DEF Kinds, CellsIn, Storage, Covered, SubSize
<1>4. Calls' <=> Calls
  BY <1>1 DEF Calls, InPlace, Scanning, AddingNode, AddingHuge, AddingReloc, Asking,
              SwappingNode, SpillingReloc, Distinct, InHand, NeededBy, SubSize, Under,
              RelocLeft, Frame, Depth, At
<1>5. (HugePages' <=> HugePages) /\ (SwapList' <=> SwapList) /\ (Accounted' <=> Accounted)
  BY <1>1 DEF HugePages, Unplaced, Frame, Depth, At, SwapList, SwapListExact, Accounted, CellsIn
<1>6. Places' = Places
  <2>1. \A o : HasPlace(o)' <=> HasPlace(o)
    BY <1>1 DEF HasPlace
  <2>2. \A o : PlaceOf(o)' = PlaceOf(o)
    BY <1>1 DEF PlaceOf, SubSize, RelocAt, Leaving
  <2> QED
    BY <2>1, <2>2 DEF Places
<1>7. Memory(Places', ram', spill') <=> Memory(Places, ram, spill)
  BY <1>1, <1>6
<1>8. RelocValues' <=> RelocValues
  BY <1>1, <1>6 DEF RelocValues, RelocAt, Value
<1>9. NewIsFresh' <=> NewIsFresh
  BY <1>1 DEF NewIsFresh
<1> QED
  BY <1>2, <1>3, <1>4, <1>5, <1>7, <1>8, <1>9 DEF IInv, Control

LEMMA NextInv == IInv /\ [Next]_vars => IInv'
<1> SUFFICES ASSUME IInv, [Next]_vars PROVE IInv'
  OBVIOUS
<1>1. CASE UNCHANGED vars
  BY <1>1, StutterInv
<1>2. CASE QuietActions
  BY <1>2, QuietActionsStep
<1>3. CASE ScanPiece
  BY <1>3, ScanPieceStep
<1> QED
  BY <1>1, <1>2, <1>3, NextIs

(* The inductive invariant holds in every state the linker reaches.         *)
THEOREM Invariance == Spec => []IInv
BY InitInv, NextInv, PTL DEF Spec

(* How SpillAreas and FreedAtEnd name the owner o. *)
Tag(o) == CASE o.kind = "node" -> <<"node", o.no>>
            [] o.kind = "reloc" -> <<"reloc", Len(relocs) + 1 - o.no>>
            [] OTHER -> <<"huge", o.no, o.sub>>

LEMMA TagsAre ==
    /\ \A k : Tag(NodeNo(k)) = <<"node", k>>
    /\ \A n : Tag(RelocNo(n)) = <<"reloc", Len(relocs) + 1 - n>>
    /\ \A p, s : Tag(HugeNo(p, s)) = <<"huge", p, s>>
BY DEF Tag, NodeNo, RelocNo, HugeNo

(* The block i of the list is the one that was made as number NumberOf(i). *)
NumberOf(i) == Len(relocs) + 1 - i

LEMMA RelocNumber ==
    ASSUME TypeOK, NEW i \in 1..Len(relocs)
    PROVE  /\ NumberOf(i) \in 1..Len(relocs) /\ NumberOf(i) \in Nat
           /\ RelocAt(NumberOf(i)) = relocs[i] /\ Len(relocs) + 1 - NumberOf(i) = i
<1>1. Len(relocs) \in Nat /\ i \in Nat
  BY TypesAre
<1>2. NumberOf(i) \in 1..Len(relocs) /\ NumberOf(i) \in Nat /\ Len(relocs) + 1 - NumberOf(i) = i
  BY <1>1 DEF NumberOf
<1> QED
  BY <1>2 DEF RelocAt

(* The areas of the file and the blocks that are freed at the end have      *)
(* owners.                                                                  *)
OwnedArea(x) ==
    \E o \in DOMAIN Places : /\ Places[o].where = "file" /\ Places[o].loc = x.at
                             /\ Places[o].size = x.len /\ x.of = Tag(o)
                             /\ x = [of |-> x.of, at |-> x.at, len |-> x.len]

LEMMA AreasOwned ==
    ASSUME IInv, NEW x \in SpillAreas
    PROVE  OwnedArea(x)
<1>1. TypeOK
  BY IInvIs DEF Control
<1>2. CASE \E k \in 1..Len(SegTab) \ Leaving :
             /\ SegTab[k].loc # 0 /\ ~SegTab[k].inmem
             /\ x = [of |-> <<"node", k>>, at |-> SegTab[k].loc, len |-> SegTab[k].size]
  <2>1. PICK k \in 1..Len(SegTab) \ Leaving :
             /\ SegTab[k].loc # 0 /\ ~SegTab[k].inmem
             /\ x = [of |-> <<"node", k>>, at |-> SegTab[k].loc, len |-> SegTab[k].size]
    BY <1>2
  <2>2. k \in Nat
    BY <1>1, <2>1, TypesAre
  <2>3. NodeNo(k) \in DOMAIN Places
        /\ Places[NodeNo(k)] = InFile(SegTab[k].loc, SegTab[k].size)
    BY <2>1, <2>2, NodePlace, PlacesAre
  <2> QED
    BY <2>1, <2>3, TagsAre DEF OwnedArea, InFile
<1>3. CASE \E i \in 1..Len(relocs) \ InMemRelocs :
             x = [of |-> <<"reloc", i>>, at |-> relocs[i].loc, len |-> RelocCells]
  <2>1. PICK i \in 1..Len(relocs) \ InMemRelocs :
             x = [of |-> <<"reloc", i>>, at |-> relocs[i].loc, len |-> RelocCells]
    BY <1>3
  <2>2. relocs[i].spilled
    BY <2>1 DEF InMemRelocs
  <2>3. /\ NumberOf(i) \in 1..Len(relocs) /\ NumberOf(i) \in Nat
        /\ RelocAt(NumberOf(i)) = relocs[i] /\ Len(relocs) + 1 - NumberOf(i) = i
    BY <1>1, RelocNumber
  <2>4. /\ RelocNo(NumberOf(i)) \in DOMAIN Places
        /\ Places[RelocNo(NumberOf(i))] = InFile(relocs[i].loc, RelocCells)
    BY <2>2, <2>3, RelocPlace, PlacesAre
  <2>5. Tag(RelocNo(NumberOf(i))) = <<"reloc", i>>
    BY <2>3, TagsAre
  <2> QED
    BY <2>1, <2>4, <2>5 DEF OwnedArea, InFile
<1>4. CASE \E p \in 1..Len(HugeTab) : \E s \in 1..HugeTab[p].numswapped :
             /\ HugeTab[p].page # <<>> /\ HugeTab[p].page[s] # 0
             /\ x = [of |-> <<"huge", p, s>>, at |-> HugeTab[p].page[s], len |-> SubSize(p, s)]
  <2>1. PICK p \in 1..Len(HugeTab) : \E s \in 1..HugeTab[p].numswapped :
             /\ HugeTab[p].page # <<>> /\ HugeTab[p].page[s] # 0
             /\ x = [of |-> <<"huge", p, s>>, at |-> HugeTab[p].page[s], len |-> SubSize(p, s)]
    BY <1>4
  <2>2. PICK s \in 1..HugeTab[p].numswapped :
             /\ HugeTab[p].page # <<>> /\ HugeTab[p].page[s] # 0
             /\ x = [of |-> <<"huge", p, s>>, at |-> HugeTab[p].page[s], len |-> SubSize(p, s)]
    BY <2>1
  <2>3. /\ p \in Nat /\ HugeTab[p].numswapped \in 0..Subpages /\ HugeTab[p].numthere \in 1..Subpages
        /\ Len(HugeTab[p].page) \in {0, HugeTab[p].numthere} /\ HugeTab[p].page \in Seq(Nat)
    BY <1>1, TypesAre
  <2>4. Len(HugeTab[p].page) = HugeTab[p].numthere
    BY <2>2, <2>3
  <2>5. HugeTab[p].numswapped <= HugeTab[p].numthere
    BY <1>1 DEF TypeOK
  <2>6. HugeTab[p].numthere \in Nat /\ HugeTab[p].numswapped \in Nat
    BY <2>3, SubpageNumbers
  <2>7. s \in Nat /\ s \in 1..Len(HugeTab[p].page) /\ ~(s > HugeTab[p].numswapped)
    BY <2>2, <2>4, <2>5, <2>6
  <2>8. /\ HugeNo(p, s) \in DOMAIN Places
        /\ Places[HugeNo(p, s)] = InFile(HugeTab[p].page[s], SubSize(p, s))
    BY <2>2, <2>3, <2>7, HugePlace, PlacesAre
  <2> QED
    BY <2>2, <2>8, TagsAre DEF OwnedArea, InFile
<1> QED
  BY <1>2, <1>3, <1>4 DEF SpillAreas

LEMMA InvSpillApart == IInv => SpillApart
<1> SUFFICES ASSUME IInv PROVE SpillApart
  OBVIOUS
<1>1. Typed(Places, ram, spill) /\ Inside(Places, spill) /\ FileApart(Places)
  BY DEF IInv, Memory
<1> SUFFICES ASSUME NEW x \in SpillAreas
             PROVE  /\ (x.at - 1) % SectorCells = 0
                    /\ x.at + x.len - 1 <= Len(spill)
                    /\ \A y \in SpillAreas \ {x} : x.at + x.len <= y.at \/ y.at + y.len <= x.at
  BY DEF SpillApart
<1>2. PICK o \in DOMAIN Places : /\ Places[o].where = "file" /\ Places[o].loc = x.at
                                 /\ Places[o].size = x.len /\ x.of = Tag(o)
                                 /\ x = [of |-> x.of, at |-> x.at, len |-> x.len]
  BY AreasOwned DEF OwnedArea
<1>3. (x.at - 1) % SectorCells = 0 /\ x.at + x.len - 1 <= Len(spill)
  BY <1>1, <1>2 DEF Inside
<1>4. ASSUME NEW y \in SpillAreas, y # x
      PROVE  x.at + x.len <= y.at \/ y.at + y.len <= x.at
  <2>1. PICK q \in DOMAIN Places : /\ Places[q].where = "file" /\ Places[q].loc = y.at
                                   /\ Places[q].size = y.len /\ y.of = Tag(q)
                                   /\ y = [of |-> y.of, at |-> y.at, len |-> y.len]
    BY AreasOwned DEF OwnedArea
  <2>2. q # o
    BY <1>2, <1>4, <2>1
  <2>3. Apart(Places[o], Places[q])
    BY <1>1, <1>2, <2>1, <2>2 DEF FileApart
  <2> QED
    BY <1>2, <2>1, <2>3 DEF Apart
<1> QED
  BY <1>3, <1>4

OwnedBlock(x) ==
    \E o \in DOMAIN Places : /\ Places[o].where = "ram" /\ Places[o].loc = x.loc
                             /\ x.of = Tag(o) /\ x = [of |-> x.of, loc |-> x.loc]

LEMMA BlocksOwned ==
    ASSUME IInv, Idle, NEW x \in FreedAtEnd
    PROVE  OwnedBlock(x)
<1>1. TypeOK /\ HugePages /\ SwapList
  BY IInvIs DEF Control
<1>2. CASE \E k \in 1..Len(SegTab) :
             SegTab[k].inmem /\ x = [of |-> <<"node", k>>, loc |-> SegTab[k].loc]
  <2>1. PICK k \in 1..Len(SegTab) :
             SegTab[k].inmem /\ x = [of |-> <<"node", k>>, loc |-> SegTab[k].loc]
    BY <1>2
  <2>2. k \in Nat /\ SegTab[k].loc # 0
    BY <1>1, <2>1, TypesAre DEF SwapList
  <2>3. NodeNo(k) \in DOMAIN Places
        /\ Places[NodeNo(k)] = InRam(SegTab[k].loc, SegTab[k].size)
    BY <2>1, <2>2, NodePlace, PlacesAre
  <2> QED
    BY <2>1, <2>3, TagsAre DEF OwnedBlock, InRam
<1>3. CASE \E i \in InMemRelocs : x = [of |-> <<"reloc", i>>, loc |-> relocs[i].loc]
  <2>1. PICK i \in InMemRelocs : x = [of |-> <<"reloc", i>>, loc |-> relocs[i].loc]
    BY <1>3
  <2>2. i \in 1..Len(relocs) /\ ~relocs[i].spilled
    BY <2>1 DEF InMemRelocs
  <2>3. /\ NumberOf(i) \in 1..Len(relocs) /\ NumberOf(i) \in Nat
        /\ RelocAt(NumberOf(i)) = relocs[i] /\ Len(relocs) + 1 - NumberOf(i) = i
    BY <1>1, <2>2, RelocNumber
  <2>4. /\ RelocNo(NumberOf(i)) \in DOMAIN Places
        /\ Places[RelocNo(NumberOf(i))] = InRam(relocs[i].loc, RelocCells)
    BY <2>2, <2>3, RelocPlace, PlacesAre
  <2>5. Tag(RelocNo(NumberOf(i))) = <<"reloc", i>>
    BY <2>3, TagsAre
  <2> QED
    BY <2>1, <2>4, <2>5 DEF OwnedBlock, InRam
<1>4. CASE \E p \in 1..Len(HugeTab) :
             \E s \in (HugeTab[p].numswapped + 1)..Len(HugeTab[p].page) :
                x = [of |-> <<"huge", p, s>>, loc |-> HugeTab[p].page[s]]
  <2>1. PICK p \in 1..Len(HugeTab) :
             \E s \in (HugeTab[p].numswapped + 1)..Len(HugeTab[p].page) :
                x = [of |-> <<"huge", p, s>>, loc |-> HugeTab[p].page[s]]
    BY <1>4
  <2>2. PICK s \in (HugeTab[p].numswapped + 1)..Len(HugeTab[p].page) :
             x = [of |-> <<"huge", p, s>>, loc |-> HugeTab[p].page[s]]
    BY <2>1
  <2>3. p \in Nat /\ HugeTab[p].numswapped \in 0..Subpages /\ HugeTab[p].page \in Seq(Nat)
    BY <1>1, TypesAre
  <2>4. HugeTab[p].numswapped \in Nat /\ Len(HugeTab[p].page) \in Nat
    <3>1. Subpages \in Nat
      BY Constants
    <3> QED
      BY <2>3, <3>1
  <2>5. s \in Nat /\ s \in 1..Len(HugeTab[p].page) /\ s > HugeTab[p].numswapped
    BY <2>2, <2>4
  <2>6. HugeTab[p].page[s] # 0
    <3>1. ~Unplaced(p, s)
      <4>1. Depth = 0
        BY DEF Depth, Idle
      <4> QED
        BY <4>1 DEF Unplaced
    <3> QED
      BY <1>1, <2>5, <3>1 DEF HugePages
  <2>7. /\ HugeNo(p, s) \in DOMAIN Places
        /\ Places[HugeNo(p, s)] = InRam(HugeTab[p].page[s], SubSize(p, s))
    BY <2>3, <2>5, <2>6, HugePlace, PlacesAre
  <2> QED
    BY <2>2, <2>7, TagsAre DEF OwnedBlock, InRam
<1> QED
  BY <1>2, <1>3, <1>4 DEF FreedAtEnd, FreedSubpages

(* Every block is freed at the end. *)
LEMMA BlocksFreed ==
    ASSUME IInv, Idle, NEW b \in DOMAIN ram
    PROVE  \E x \in FreedAtEnd : x.loc = b
<1>1. TypeOK /\ NoLeak(Places, ram)
  BY DEF IInv, Control, Memory
<1>2. Leaving = {} /\ ret = 0
  <2>1. Depth = 0
    BY DEF Depth, Idle
  <2>2. Leaving = {}
    BY <2>1 DEF Leaving, Depth
  <2>3. InHand
    BY DEF IInv, Control, Calls
  <2> QED
    BY <2>1, <2>2, <2>3 DEF InHand
<1>3. PICK o \in DOMAIN Places : Places[o].where = "ram" /\ Places[o].loc = b
  BY <1>1 DEF NoLeak
<1>4. o \in Owners /\ HasPlace(o) /\ PlaceOf(o).where = "ram" /\ PlaceOf(o).loc = b
  BY <1>3, PlacesAre
<1>5. CASE o.kind = "node"
  <2>1. o.no \in 1..Len(SegTab) /\ PlaceOf(o) = IF SegTab[o.no].inmem
                                                THEN InRam(SegTab[o.no].loc, SegTab[o.no].size)
                                                ELSE InFile(SegTab[o.no].loc, SegTab[o.no].size)
    BY <1>2, <1>4, <1>5 DEF HasPlace, PlaceOf
  <2>2. SegTab[o.no].inmem /\ SegTab[o.no].loc = b
    BY <1>4, <2>1 DEF InRam, InFile
  <2>3. [of |-> <<"node", o.no>>, loc |-> SegTab[o.no].loc] \in FreedAtEnd
    BY <2>1, <2>2 DEF FreedAtEnd
  <2> QED
    BY <2>2, <2>3
<1>6. CASE o.kind = "huge"
  <2>1. /\ o.no \in 1..Len(HugeTab) /\ o.sub \in 1..Len(HugeTab[o.no].page)
        /\ PlaceOf(o) = IF o.sub > HugeTab[o.no].numswapped
                        THEN InRam(HugeTab[o.no].page[o.sub], SubSize(o.no, o.sub))
                        ELSE InFile(HugeTab[o.no].page[o.sub], SubSize(o.no, o.sub))
    BY <1>4, <1>6 DEF HasPlace, PlaceOf
  <2>2. o.sub > HugeTab[o.no].numswapped /\ HugeTab[o.no].page[o.sub] = b
    BY <1>4, <2>1 DEF InRam, InFile
  <2>3. o.sub \in (HugeTab[o.no].numswapped + 1)..Len(HugeTab[o.no].page)
    <3>1. HugeTab[o.no].numswapped \in 0..Subpages /\ HugeTab[o.no].page \in Seq(Nat)
      BY <1>1, <2>1, TypesAre
    <3>2. HugeTab[o.no].numswapped \in Nat /\ Len(HugeTab[o.no].page) \in Nat
      BY <3>1, Constants
    <3> QED
      BY <2>1, <2>2, <3>2
  <2>4. [of |-> <<"huge", o.no, o.sub>>, loc |-> HugeTab[o.no].page[o.sub]] \in FreedAtEnd
    <3>1. [of |-> <<"huge", o.no, o.sub>>, loc |-> HugeTab[o.no].page[o.sub]]
            \in FreedSubpages(o.no)
      BY <2>3 DEF FreedSubpages
    <3>2. FreedSubpages(o.no) \subseteq FreedAtEnd
      BY <2>1 DEF FreedAtEnd
    <3> QED
      BY <3>1, <3>2
  <2> QED
    BY <2>2, <2>4
<1>7. CASE o.kind = "reloc"
  <2>1. /\ o.no \in 1..Len(relocs)
        /\ PlaceOf(o) = IF RelocAt(o.no).spilled THEN InFile(RelocAt(o.no).loc, RelocCells)
                                                 ELSE InRam(RelocAt(o.no).loc, RelocCells)
    BY <1>4, <1>7 DEF HasPlace, PlaceOf
  <2>2. ~RelocAt(o.no).spilled /\ RelocAt(o.no).loc = b
    BY <1>4, <2>1 DEF InRam, InFile
  <2>3. NumberOf(o.no) \in 1..Len(relocs) /\ RelocAt(o.no) = relocs[NumberOf(o.no)]
    <3>1. NumberOf(o.no) \in 1..Len(relocs)
      BY <1>1, <2>1, RelocNumber
    <3> QED
      BY <3>1 DEF NumberOf, RelocAt
  <2>4. NumberOf(o.no) \in InMemRelocs
    BY <2>2, <2>3 DEF InMemRelocs
  <2>5. [of |-> <<"reloc", NumberOf(o.no)>>, loc |-> relocs[NumberOf(o.no)].loc] \in FreedAtEnd
    BY <2>4 DEF FreedAtEnd
  <2> QED
    BY <2>2, <2>3, <2>5
<1>8. CASE o.kind = "new"
  BY <1>2, <1>4, <1>8 DEF HasPlace
<1> QED
  BY <1>4, <1>5, <1>6, <1>7, <1>8, OwnersAre

LEMMA InvRamExact == IInv /\ Idle => RamExact
<1> SUFFICES ASSUME IInv, Idle PROVE RamExact
  OBVIOUS
<1>1. Housed(Places, ram) /\ Alone(Places)
  BY DEF IInv, Memory
<1>2. ASSUME NEW x \in FreedAtEnd, NEW y \in FreedAtEnd, x.loc = y.loc
      PROVE  x = y
  <2>1. PICK o \in DOMAIN Places : /\ Places[o].where = "ram" /\ Places[o].loc = x.loc
                                   /\ x.of = Tag(o) /\ x = [of |-> x.of, loc |-> x.loc]
    BY BlocksOwned DEF OwnedBlock
  <2>2. PICK q \in DOMAIN Places : /\ Places[q].where = "ram" /\ Places[q].loc = y.loc
                                   /\ y.of = Tag(q) /\ y = [of |-> y.of, loc |-> y.loc]
    BY BlocksOwned DEF OwnedBlock
  <2>3. o = q
    BY <1>1, <1>2, <2>1, <2>2 DEF Alone
  <2> QED
    BY <1>2, <2>1, <2>2, <2>3
<1>3. \A x \in FreedAtEnd : x.loc \in DOMAIN ram
  BY <1>1, BlocksOwned DEF OwnedBlock, Housed
<1>4. {x.loc : x \in FreedAtEnd} = DOMAIN ram
  BY <1>3, BlocksFreed
<1>5. room + cache + other + (IF TempFile THEN NameCells ELSE 0) + Cardinality(RamCells)
        = HeapCells
  BY DEF IInv, Accounted, CellsIn, RamCells
<1> QED
  BY <1>2, <1>4, <1>5 DEF RamExact

LEMMA InvRelocsKept == IInv => RelocsKept
<1> SUFFICES ASSUME IInv, NEW i \in 1..Len(relocs), NEW j \in 1..(RelocCells - relocs[i].left)
             PROVE  (IF relocs[i].spilled THEN spill[relocs[i].loc + j - 1] ELSE ram[relocs[i].loc][j])
                      = Item((Len(relocs) - i) * RelocCells + j - 1)
  BY DEF RelocsKept
<1>1. TypeOK /\ RelocValues
  BY DEF IInv, Control
<1>2. PICK n \in Nat : n = NumberOf(i)
  BY <1>1, RelocNumber
<1>3. n \in 1..Len(relocs) /\ RelocAt(n) = relocs[i] /\ Len(relocs) + 1 - n = i
  BY <1>1, <1>2, RelocNumber
<1>4. Value(Places, ram, spill, RelocNo(n), j) = Item((n - 1) * RelocCells + j - 1)
  BY <1>1, <1>3 DEF RelocValues
<1>5. n - 1 = Len(relocs) - i
  BY <1>1, <1>3, TypesAre
<1>6. Places[RelocNo(n)] = IF relocs[i].spilled THEN InFile(relocs[i].loc, RelocCells)
                                                ELSE InRam(relocs[i].loc, RelocCells)
  BY <1>3, RelocPlace, PlacesAre
<1>7. Value(Places, ram, spill, RelocNo(n), j)
        = IF relocs[i].spilled THEN spill[relocs[i].loc + j - 1] ELSE ram[relocs[i].loc][j]
  BY <1>6 DEF Value, InRam, InFile
<1> QED
  BY <1>4, <1>5, <1>7

(* Nodes, huge pages, relocation blocks, RAM blocks and the spill file are  *)
(* of their kinds, and the list of nodes to swap out has nodes (virtmem.c). *)
THEOREM TypeCorrect == Spec => []TypeOK
<1>1. IInv => TypeOK
  BY DEF IInv, Control
<1> QED
  BY <1>1, Invariance, PTL

(* No node is forgotten in memory and none is swapped out twice             *)
(* (SwapOutVirt takes NextSwap's nodes, AllocNode adds them).               *)
THEOREM SwapListIsExact == Spec => []SwapListExact
<1>1. IInv => SwapListExact
  BY DEF IInv, Control, SwapList
<1> QED
  BY <1>1, Invariance, PTL

(* Every page and relocation block has a place of its own, in RAM or in the *)
(* spill file, also while one moves; the heap's cells add up, and           *)
(* FreeVirtMem and FreeRelocInfo free each block once and leave none.       *)
THEOREM PlacesAreExact == Spec => []PlacesExact
<1>1. IInv => PlacesExact
  BY InvRamExact, InvSpillApart DEF PlacesExact
<1> QED
  BY <1>1, Invariance, PTL

(* Relocations are kept in order wherever their blocks are (DoWriteReloc,   *)
(* SpillRelocList).                                                         *)
THEOREM RelocsAreKept == Spec => []RelocsKept
<1>1. IInv => RelocsKept
  BY InvRelocsKept
<1> QED
  BY <1>1, Invariance, PTL

(* Once the spill file is open, the functions nest no deeper than this:     *)
(* SpillAlloc no longer asks for memory.                                    *)
LEMMA ShallowStack ==
    ASSUME IInv, TempFile
    PROVE  Depth <= 4
<1>1. stack \in Seq(Frames) /\ Depth \in Nat /\ \A d \in 1..Depth : InPlace(d) /\ Frame(d) \in Frames
  BY FramesAre DEF IInv, Control, Kinds, Calls
<1>2. ASSUME NEW d \in 1..Depth, Frame(d).fn \in {"ScanNodes"} \union Askers
      PROVE  d <= 2
  BY <1>1, <1>2 DEF InPlace, Scanning, AddingNode, AddingHuge, AddingReloc, Askers
<1>3. ASSUME NEW d \in 1..Depth, Frame(d).fn = "LAlloc"
      PROVE  d <= 3
  <2>1. Frame(d).use \in {"page", "name", "other"} /\ Asking(d)
    BY <1>1, <1>3, FrameKinds DEF InPlace
  <2>2. CASE Frame(d).use = "page"
    <3>1. d > 1 /\ Frame(d - 1).fn \in Askers
      BY <1>3, <2>1, <2>2 DEF Asking, Under
    <3>2. d - 1 \in 1..Depth
      BY <1>1, <3>1
    <3>3. d - 1 <= 2
      BY <1>2, <3>1, <3>2
    <3> QED
      BY <1>1, <3>3
  <2>3. CASE Frame(d).use = "other"
    BY <1>3, <2>1, <2>3 DEF Asking
  <2>4. CASE Frame(d).use = "name"
    BY <1>3, <2>1, <2>4 DEF Asking
  <2> QED
    BY <2>1, <2>2, <2>3, <2>4
<1>4. ASSUME NEW d \in 1..Depth, Frame(d).fn \in Movers
      PROVE  d <= 4
  <2>1. d > 1 /\ Frame(d - 1).fn = "LAlloc"
    BY <1>1, <1>4 DEF InPlace, SwappingNode, SpillingReloc, Movers, Under
  <2>2. d - 1 \in 1..Depth
    BY <1>1, <2>1
  <2>3. d - 1 <= 3
    BY <1>3, <2>1, <2>2
  <2> QED
    BY <1>1, <2>3
<1>5. CASE Depth = 0
  BY <1>5
<1>6. CASE Depth # 0
  <2>1. Depth \in 1..Depth
    BY <1>1, <1>6
  <2>2. Frame(Depth).fn \in {"ScanNodes"} \union Askers \/ Frame(Depth).fn = "LAlloc"
          \/ Frame(Depth).fn \in Movers
    BY <1>1, <2>1, FrameKinds DEF Askers, Movers
  <2>3. Depth <= 2 \/ Depth <= 3 \/ Depth <= 4
    BY <1>2, <1>3, <1>4, <2>1, <2>2
  <2> QED
    BY <1>1, <2>3
<1> QED
  BY <1>5, <1>6

(* When the linker gives up, nothing but what it does not swap out then is   *)
(* left in memory.                                                          *)
LEMMA NothingElseLeft ==
    ASSUME IInv, Active("LAlloc"), Top.use # "page", TempFile, InMemAt = {}, SwapRelocs = {}
    PROVE  DOMAIN ram \subseteq KeptBlocks
<1>1. TypeOK /\ Kinds /\ Calls /\ SwapList /\ NoLeak(Places, ram)
  BY DEF IInv, Control, Memory
<1>2. stack # <<>> /\ Top.fn = "LAlloc"
  BY DEF Active
<1>3. Depth \in Nat \ {0} /\ Frame(Depth) = Top /\ Top \in Frames /\ Depth \in 1..Depth
  <2>1. Depth \in Nat \ {0} /\ Frame(Depth) = Top /\ Top \in Frames
    BY <1>1, <1>2, TopIs DEF Kinds
  <2> QED
    BY <2>1
<1>4. Depth = 1 /\ ret = 0
  <2>1. Asking(Depth) /\ Top.use \in {"page", "name", "other"}
    BY <1>1, <1>2, <1>3, FrameKinds DEF Calls, InPlace
  <2>2. Top.use = "other"
    BY <1>2, <1>3, <2>1 DEF Asking
  <2> QED
    BY <1>2, <1>3, <2>1, <2>2 DEF Asking
<1>5. Leaving = {}
  <2>1. \A i \in 1..Len(stack) : stack[i].fn # "SwapOutVirt"
    BY <1>2, <1>4 DEF Depth, Top
  <2> QED
    BY <2>1 DEF Leaving
<1> SUFFICES ASSUME NEW b \in DOMAIN ram PROVE b \in KeptBlocks
  OBVIOUS
<1>6. PICK o \in DOMAIN Places : Places[o].where = "ram" /\ Places[o].loc = b
  BY <1>1 DEF NoLeak
<1>7. o \in Owners /\ HasPlace(o) /\ PlaceOf(o).where = "ram" /\ PlaceOf(o).loc = b
  BY <1>6, PlacesAre
<1>8. o.kind # "new"
  BY <1>4, <1>7 DEF HasPlace
<1>9. o.kind # "node"
  <2> SUFFICES ASSUME o.kind = "node" PROVE FALSE
    OBVIOUS
  <2>1. o.no \in 1..Len(SegTab) /\ PlaceOf(o) = IF SegTab[o.no].inmem
                                                THEN InRam(SegTab[o.no].loc, SegTab[o.no].size)
                                                ELSE InFile(SegTab[o.no].loc, SegTab[o.no].size)
    BY <1>5, <1>7 DEF HasPlace, PlaceOf
  <2>2. SegTab[o.no].inmem
    BY <1>7, <2>1 DEF InRam, InFile
  <2>3. PICK i \in 1..Len(NextSwap) : NextSwap[i] = o.no
    BY <1>1, <2>1, <2>2 DEF SwapList, SwapListExact
  <2>4. i \in InMemAt
    BY <2>2, <2>3 DEF InMemAt
  <2> QED
    BY <2>4
<1>10. ASSUME o.kind = "reloc" PROVE b \in KeptBlocks
  <2>1. /\ o.no \in 1..Len(relocs)
        /\ PlaceOf(o) = IF RelocAt(o.no).spilled THEN InFile(RelocAt(o.no).loc, RelocCells)
                                                 ELSE InRam(RelocAt(o.no).loc, RelocCells)
    BY <1>7, <1>10 DEF HasPlace, PlaceOf
  <2>2. ~RelocAt(o.no).spilled
    BY <1>7, <2>1 DEF InRam, InFile
  <2>3. NumberOf(o.no) \in 1..Len(relocs)
    BY <1>1, <2>1, RelocNumber
  <2>4. RelocAt(o.no) = relocs[NumberOf(o.no)]
    BY DEF NumberOf, RelocAt
  <2>5. NumberOf(o.no) \in InMemRelocs
    BY <2>2, <2>3, <2>4 DEF InMemRelocs
  <2>6. Format = "MK_ELF"
    BY <2>5, SizesAssumption DEF SwapRelocs, RelocList, SwappedLists
  <2>7. b \in RelocBlocks
    BY <1>7, <2>1, <2>2, <2>4, <2>5 DEF InRam, RelocBlocks
  <2> QED
    BY <2>6, <2>7 DEF KeptBlocks
<1> SUFFICES ASSUME o.kind # "reloc" PROVE b \in HugeBlocks
  BY <1>10 DEF KeptBlocks
<1>11. o.kind = "huge"
  BY <1>7, <1>8, <1>9, OwnersAre
<1>12. /\ o.no \in 1..Len(HugeTab) /\ o.sub \in 1..Len(HugeTab[o.no].page)
       /\ HugeTab[o.no].page[o.sub] = b
  BY <1>7, <1>11 DEF HasPlace, PlaceOf, InRam, InFile
<1>13. o.sub \in DOMAIN HugeTab[o.no].page /\ o.sub \in 1..Subpages
  <2>1. /\ HugeTab[o.no].page \in Seq(Nat) /\ HugeTab[o.no].numthere \in 1..Subpages
        /\ Len(HugeTab[o.no].page) \in {0, HugeTab[o.no].numthere}
    BY <1>1, <1>12, TypesAre
  <2>2. Len(HugeTab[o.no].page) <= Subpages
    BY <2>1, SubpageNumbers, Constants
  <2>3. Subpages \in Nat
    BY Constants
  <2> QED
    BY <1>12, <2>1, <2>2, <2>3
<1> DEFINE x == <<o.no, o.sub>>
<1>14. x \in (1..Len(HugeTab)) \X (1..Subpages) /\ x[1] = o.no /\ x[2] = o.sub
  BY <1>12, <1>13
<1> HIDE DEF x
<1>15. x[2] \in DOMAIN HugeTab[x[1]].page /\ HugeTab[x[1]].page[x[2]] = b
  BY <1>12, <1>13, <1>14
<1> QED
  BY <1>14, <1>15 DEF HugeBlocks

(* How a run ends. *)
Ended ==
    /\ status = "overflow" => Len(stack) > MaxDepth
    /\ status = "fatal" /\ TempFile => DOMAIN ram \subseteq KeptBlocks

EndsWell == status' # "fatal" /\ (status' = "overflow" => Len(stack') > MaxDepth)

LEMMA CallEndsWell ==
    ASSUME status = "run", NEW f, NEW s, Call(f, s)
    PROVE  EndsWell
BY DEF Call, EndsWell

LEMMA SameEndsWell ==
    ASSUME status = "run", UNCHANGED status
    PROVE  EndsWell
BY DEF EndsWell

LEMMA OpenEndsWell ==
    ASSUME status = "run", OpenFirst
    PROVE  EndsWell
BY CallEndsWell DEF OpenFirst

LEMMA ActionsEndWell ==
    ASSUME Next, ~SwapOutRelocs
    PROVE  EndsWell
<1>1. CASE \E size \in Sizes : AllocStg(size)
  BY <1>1, SameEndsWell DEF AllocStg
<1>2. CASE \E x \in Accesses, b \in owned :
             x.skip < b.len /\ Access(x.op, b.addr + x.skip, b.len - x.skip)
  BY <1>2, CallEndsWell DEF Access
<1>3. CASE WriteReloc
  BY <1>3, CallEndsWell, SameEndsWell DEF WriteReloc
<1>4. CASE \E n \in 1..MaxOther : ChkAlloc(n) \/ LnkFree(n)
  BY <1>4, CallEndsWell, SameEndsWell DEF ChkAlloc, LnkFree
<1>5. CASE ScanFirstUse \/ ScanPiece \/ ScanReturn
  BY <1>5, CallEndsWell, SameEndsWell DEF ScanFirstUse, ScanPiece, ScanReturn, Active
<1>6. CASE AllocNode \/ AllocRelocInfo
  BY <1>6, OpenEndsWell, SameEndsWell DEF AllocNode, AllocRelocInfo, Active
<1>7. CASE AllocHugeNode
  <2>1. status = "run"
    BY <1>7 DEF AllocHugeNode, Active
  <2>2. ASSUME NEW f, NEW m, NEW b, HugeNext(f, m, b) PROVE EndsWell
    BY <2>1, <2>2, CallEndsWell, SameEndsWell DEF HugeNext
  <2> QED
    BY <1>7, <2>1, <2>2, OpenEndsWell DEF AllocHugeNode
<1>8. CASE Malloc \/ FreeCaches
  BY <1>8, SameEndsWell DEF Malloc, FreeCaches, NoRoom, Active
<1>9. CASE SwapOutVirt
  BY <1>9, CallEndsWell DEF SwapOutVirt, NoRoom, Active
<1>10. CASE SwapOutNode \/ SpillReloc
  BY <1>10, OpenEndsWell, SameEndsWell DEF SwapOutNode, SpillReloc, Active
<1> QED
  BY <1>1, <1>2, <1>3, <1>4, <1>5, <1>6, <1>7, <1>8, <1>9, <1>10 DEF Next, Requests, Step

LEMMA EndedNext == IInv /\ Ended /\ [Next]_vars => Ended'
<1> SUFFICES ASSUME IInv, Ended, [Next]_vars PROVE Ended'
  OBVIOUS
<1>1. CASE UNCHANGED vars
  BY <1>1 DEF vars, pages, heap, file, Ended, KeptBlocks, HugeBlocks, RelocBlocks, InMemRelocs
<1>2. CASE Next /\ ~SwapOutRelocs
  BY <1>2, ActionsEndWell DEF Ended, EndsWell
<1>3. CASE SwapOutRelocs
  <2>1. Active("LAlloc") /\ InMemAt = {} /\ status = "run"
    BY <1>3 DEF SwapOutRelocs, NoRoom, Active
  <2>2. HugeTab' = HugeTab /\ relocs' = relocs /\ ram' = ram /\ TempFile' = TempFile
    BY <1>3 DEF SwapOutRelocs, heap, file
  <2>3. CASE SwapRelocs # {}
    <3>1. EndsWell
      BY <1>3, <2>1, <2>3, CallEndsWell DEF SwapOutRelocs
    <3> QED
      BY <3>1 DEF Ended, EndsWell
  <2>4. CASE SwapRelocs = {} /\ Top.use = "page"
    <3>1. EndsWell
      BY <1>3, <2>1, <2>4, SameEndsWell DEF SwapOutRelocs
    <3> QED
      BY <3>1 DEF Ended, EndsWell
  <2>5. CASE SwapRelocs = {} /\ Top.use # "page"
    <3>1. status' = "fatal"
      BY <1>3, <2>5 DEF SwapOutRelocs
    <3>2. TempFile' => DOMAIN ram' \subseteq KeptBlocks'
      <4>1. TempFile => DOMAIN ram \subseteq KeptBlocks
        BY <2>1, <2>5, NothingElseLeft
      <4>2. KeptBlocks' = KeptBlocks
        BY <2>2 DEF KeptBlocks, HugeBlocks, RelocBlocks, InMemRelocs
      <4> QED
        BY <2>2, <4>1, <4>2
    <3> QED
      BY <3>1, <3>2 DEF Ended
  <2> QED
    BY <2>3, <2>4, <2>5
<1> QED
  BY <1>1, <1>2, <1>3

(* Once the spill file is open, the linker gives up only when nothing but   *)
(* huge pages (and, if the format is MK_ELF, relocations) is left in        *)
(* memory, and never runs out of its stack, if that has room for four of    *)
(* its functions: ScanNodes, AllocNode, LAlloc and SwapOutVirt (SwapOutVirt *)
(* and SwapOutRelocs through FreeUpMemory).                                 *)
THEOREM SpillsFirst ==
    ASSUME MaxDepth >= 4
    PROVE  Spec => []SpilledBeforeFatal
<1>1. Init => Ended
  BY DEF Init, Ended
<1>2. IInv /\ Ended => SpilledBeforeFatal
  <2> SUFFICES ASSUME IInv, Ended, TempFile
               PROVE  status # "overflow" /\ (status = "fatal" => DOMAIN ram \subseteq KeptBlocks)
    BY DEF SpilledBeforeFatal
  <2>1. Len(stack) \in Nat /\ Len(stack) <= 4 /\ MaxDepth \in Nat
    BY ShallowStack, FramesAre, Constants DEF Depth, IInv, Control, Kinds
  <2>2. ~(Len(stack) > MaxDepth)
    BY <2>1
  <2> QED
    BY <2>2 DEF Ended
<1> QED
  BY <1>1, <1>2, EndedNext, Invariance, PTL DEF Spec

(***************************************************************************)
(* The memory the callers see is that of the owners' places.                *)
(***************************************************************************)
CellOf(a) == Value(Places, ram, spill, Owner(a), Off(a) + 1)
CellHeld(a) == Owner(a) \in DOMAIN Places /\ Off(a) < Places[Owner(a)].size

ContentsOwned ==
    \A a \in Addr : Content(a) = IF CellHeld(a) THEN CellOf(a) ELSE Fresh

LEMMA AddressesAre ==
    ASSUME NEW a \in Addr
    PROVE  /\ a \in Nat /\ Off(a) \in Nat
           /\ ~IsHuge(a) => Node(a) \in Nat \ {0}
           /\ IsHuge(a) => BigNode(a) \in Nat \ {0} /\ Subpage(a) \in Nat \ {0}
<1>1. a \in Nat /\ a >= NodeCells /\ NodeCells \in Nat \ {0}
  BY Constants DEF Addr
<1>2. CASE ~IsHuge(a)
  <2>1. Node(a) \in Nat /\ Off(a) \in 0..(NodeCells - 1) /\ a = NodeCells * Node(a) + Off(a)
    BY <1>1, <1>2, NodeAddress
  <2>2. Off(a) \in Nat /\ Off(a) < NodeCells
    BY <1>1, <2>1
  <2>3. Node(a) # 0
    <3>1. Node(a) = 0 => NodeCells * Node(a) = 0
      BY <1>1
    <3> QED
      BY <1>1, <2>1, <2>2, <3>1
  <2> QED
    BY <1>1, <1>2, <2>1, <2>2, <2>3
<1>3. CASE IsHuge(a)
  <2>1. /\ BigNode(a) \in Nat \ {0} /\ Subpage(a) \in 1..Subpages
        /\ Off(a) \in 0..(SubCells - 1)
    BY <1>1, <1>3, HugeAddress
  <2>2. SubCells \in Nat /\ Subpages \in Nat
    BY Constants
  <2> QED
    BY <1>1, <1>3, <2>1, <2>2
<1> QED
  BY <1>2, <1>3

LEMMA ContentOfNode ==
    ASSUME TypeOK, NEW a \in Addr, ~IsHuge(a)
    PROVE  Content(a) = IF CellHeld(a) THEN CellOf(a) ELSE Fresh
<1>1. a \in Nat /\ Off(a) \in Nat
  BY AddressesAre
<1>2. PICK k \in Nat \ {0} : k = Node(a)
  BY AddressesAre
<1>3. Owner(a) = NodeNo(k) /\ Place(a) = SegTab[k]
  BY <1>2 DEF Owner, Place
<1>4. Len(SegTab) \in Nat
  BY TypesAre
<1>5. /\ NodeNo(k) \in DOMAIN Places <=> k \in 1..Len(SegTab) /\ SegTab[k].loc # 0
      /\ NodeNo(k) \in DOMAIN Places => Places[NodeNo(k)] = PlaceOf(NodeNo(k))
      /\ PlaceOf(NodeNo(k)) = IF SegTab[k].inmem \/ k \in Leaving
                              THEN InRam(SegTab[k].loc, SegTab[k].size)
                              ELSE InFile(SegTab[k].loc, SegTab[k].size)
  BY NodePlace, PlacesAre
<1>6. k <= Len(SegTab) <=> k \in 1..Len(SegTab)
  BY <1>4
<1>7. Backed(a) <=> k \in 1..Len(SegTab) /\ SegTab[k].loc # 0 /\ Off(a) < SegTab[k].size
  BY <1>2, <1>3, <1>6 DEF Backed
<1>8. PlaceOf(NodeNo(k)).size = SegTab[k].size
  BY <1>5 DEF InRam, InFile
<1>9. Backed(a) <=> CellHeld(a)
  BY <1>3, <1>5, <1>7, <1>8 DEF CellHeld
<1>10. CASE ~Backed(a)
  BY <1>9, <1>10 DEF Content
<1>11. CASE Backed(a)
  <2>1. Places[Owner(a)] = PlaceOf(NodeNo(k))
    BY <1>3, <1>5, <1>7, <1>11
  <2>2. CASE SegTab[k].inmem \/ k \in Leaving
    <3>1. Content(a) = ram[SegTab[k].loc][Off(a) + 1]
      BY <1>2, <1>3, <1>11, <2>2 DEF Content
    <3>2. CellOf(a) = ram[SegTab[k].loc][Off(a) + 1]
      BY <1>5, <2>1, <2>2 DEF CellOf, Value, InRam
    <3> QED
      BY <1>9, <1>11, <3>1, <3>2
  <2>3. CASE ~(SegTab[k].inmem \/ k \in Leaving)
    <3>1. Content(a) = spill[SegTab[k].loc + Off(a)]
      BY <1>2, <1>3, <1>11, <2>3 DEF Content
    <3>2. CellOf(a) = spill[SegTab[k].loc + (Off(a) + 1) - 1]
      BY <1>5, <2>1, <2>3 DEF CellOf, Value, InFile
    <3>3. SegTab[k].loc \in Nat
      BY <1>7, <1>11, TypesAre
    <3>4. SegTab[k].loc + (Off(a) + 1) - 1 = SegTab[k].loc + Off(a)
      BY <1>1, <3>3
    <3> QED
      BY <1>9, <1>11, <3>1, <3>2, <3>4
  <2> QED
    BY <2>2, <2>3
<1> QED
  BY <1>10, <1>11

LEMMA ContentOfHuge ==
    ASSUME TypeOK, NEW a \in Addr, IsHuge(a)
    PROVE  Content(a) = IF CellHeld(a) THEN CellOf(a) ELSE Fresh
<1>1. a \in Nat /\ Off(a) \in Nat
  BY AddressesAre
<1>2. PICK p \in Nat \ {0} : p = BigNode(a)
  BY AddressesAre
<1>3. PICK s \in Nat \ {0} : s = Subpage(a)
  BY AddressesAre
<1>4. Owner(a) = HugeNo(p, s)
  BY <1>2, <1>3 DEF Owner
<1>5. /\ Place(a).loc = HugeTab[p].page[s] /\ Place(a).inmem = (s > HugeTab[p].numswapped)
      /\ Place(a).size = SubSize(p, s)
  BY <1>2, <1>3, HugeEntry
<1>6. /\ HugeNo(p, s) \in DOMAIN Places <=>
           p \in 1..Len(HugeTab) /\ s \in 1..Len(HugeTab[p].page) /\ HugeTab[p].page[s] # 0
      /\ HugeNo(p, s) \in DOMAIN Places => Places[HugeNo(p, s)] = PlaceOf(HugeNo(p, s))
      /\ PlaceOf(HugeNo(p, s)) = IF s > HugeTab[p].numswapped
                                 THEN InRam(HugeTab[p].page[s], SubSize(p, s))
                                 ELSE InFile(HugeTab[p].page[s], SubSize(p, s))
  BY HugePlace, PlacesAre
<1>7. p <= Len(HugeTab) <=> p \in 1..Len(HugeTab)
  BY TypesAre
<1>8. p \in 1..Len(HugeTab) => (s <= Len(HugeTab[p].page) <=> s \in 1..Len(HugeTab[p].page))
  <2> SUFFICES ASSUME p \in 1..Len(HugeTab)
               PROVE  s <= Len(HugeTab[p].page) <=> s \in 1..Len(HugeTab[p].page)
    OBVIOUS
  <2>1. HugeTab[p].page \in Seq(Nat)
    BY TypesAre
  <2> QED
    BY <2>1
<1>9. Backed(a) <=> /\ p \in 1..Len(HugeTab) /\ s \in 1..Len(HugeTab[p].page)
                    /\ HugeTab[p].page[s] # 0 /\ Off(a) < SubSize(p, s)
  BY <1>2, <1>3, <1>5, <1>7, <1>8 DEF Backed
<1>10. PlaceOf(HugeNo(p, s)).size = SubSize(p, s)
  BY <1>6 DEF InRam, InFile
<1>11. Backed(a) <=> CellHeld(a)
  BY <1>4, <1>6, <1>9, <1>10 DEF CellHeld
<1>12. CASE ~Backed(a)
  BY <1>11, <1>12 DEF Content
<1>13. CASE Backed(a)
  <2>1. Places[Owner(a)] = PlaceOf(HugeNo(p, s))
    BY <1>4, <1>6, <1>9, <1>13
  <2>2. CASE s > HugeTab[p].numswapped
    <3>1. Content(a) = ram[HugeTab[p].page[s]][Off(a) + 1]
      BY <1>5, <1>13, <2>2 DEF Content
    <3>2. CellOf(a) = ram[HugeTab[p].page[s]][Off(a) + 1]
      BY <1>6, <2>1, <2>2 DEF CellOf, Value, InRam
    <3> QED
      BY <1>11, <1>13, <3>1, <3>2
  <2>3. CASE ~(s > HugeTab[p].numswapped)
    <3>1. Content(a) = spill[HugeTab[p].page[s] + Off(a)]
      BY <1>5, <1>13, <2>3 DEF Content
    <3>2. CellOf(a) = spill[HugeTab[p].page[s] + (Off(a) + 1) - 1]
      BY <1>6, <2>1, <2>3 DEF CellOf, Value, InFile
    <3>3. HugeTab[p].page[s] \in Nat
      BY <1>9, <1>13, TypesAre
    <3>4. HugeTab[p].page[s] + (Off(a) + 1) - 1 = HugeTab[p].page[s] + Off(a)
      BY <1>1, <3>3
    <3> QED
      BY <1>11, <1>13, <3>1, <3>2, <3>4
  <2> QED
    BY <2>2, <2>3
<1> QED
  BY <1>12, <1>13

LEMMA ContentInv == IInv => ContentsOwned
BY ContentOfNode, ContentOfHuge DEF ContentsOwned, IInv, Control

LEMMA ThenContentInv == IInv' => ContentsOwned'
BY ContentInv, PTL

(* A step that keeps the cells shows the callers nothing.                   *)
LEMMA StoreKept ==
    ASSUME IInv, IInv', CellsKept
    PROVE  SeenStore' = SeenStore
<1>1. /\ \A a \in Addr : Content(a) = IF CellHeld(a) THEN CellOf(a) ELSE Fresh
      /\ \A a \in Addr : Content(a)' = IF CellHeld(a)' THEN CellOf(a)' ELSE Fresh
  BY ContentInv, ThenContentInv DEF ContentsOwned
<1> SUFFICES ASSUME NEW a \in Addr PROVE Seen(Content(a)') = Seen(Content(a))
  BY DEF SeenStore, Seen
<1>2. PICK o : o = Owner(a)
  OBVIOUS
<1>3. o.kind \in {"node", "huge"}
  BY <1>2 DEF Owner, NodeNo, HugeNo
<1>4. PICK j \in Nat \ {0} : j = Off(a) + 1 /\ j - 1 = Off(a)
  BY AddressesAre
<1>5. /\ CellHeld(a) <=> o \in DOMAIN Places /\ Off(a) < Places[o].size
      /\ CellHeld(a)' <=> o \in DOMAIN Places' /\ Off(a) < Places'[o].size
      /\ CellOf(a) = Value(Places, ram, spill, o, j)
      /\ CellOf(a)' = Value(Places', ram', spill', o, j)
  BY <1>2, <1>4 DEF CellHeld, CellOf
<1>6. Typed(Places, ram, spill) /\ Typed(Places', ram', spill')
  BY DEF IInv, Memory
<1>7. CASE o \in DOMAIN Places
  <2>1. /\ o \in DOMAIN Places' /\ Places'[o].size = Places[o].size
        /\ \A i \in 1..Places[o].size :
              Value(Places', ram', spill', o, i) = Value(Places, ram, spill, o, i)
    BY <1>3, <1>7 DEF CellsKept, PagesPlaced, SameValues
  <2>2. CellHeld(a)' <=> CellHeld(a)
    BY <1>5, <1>7, <2>1
  <2>3. Places[o].size \in Nat
    BY <1>6, <1>7 DEF Typed, PlaceSet
  <2>4. CellHeld(a) => j \in 1..Places[o].size
    BY <1>4, <1>5, <2>3
  <2>5. Content(a)' = Content(a)
    BY <1>1, <1>5, <2>1, <2>2, <2>4
  <2> QED
    BY <2>5
<1>8. CASE o \notin DOMAIN Places
  <2>1. Content(a) = Fresh
    BY <1>1, <1>5, <1>8
  <2>2. CASE ~CellHeld(a)'
    BY <1>1, <2>1, <2>2
  <2>3. CASE CellHeld(a)'
    <3>1. o \in DOMAIN Places' \ DOMAIN Places
      BY <1>5, <1>8, <2>3
    <3>2. Places'[o].size \in Nat
      BY <1>6, <3>1 DEF Typed, PlaceSet
    <3>3. j \in 1..Places'[o].size
      BY <1>4, <1>5, <2>3, <3>2
    <3>4. Value(Places', ram', spill', o, j) \in {Fresh, Hole}
      BY <1>3, <3>1, <3>3 DEF CellsKept
    <3>5. Content(a)' \in {Fresh, Hole}
      BY <1>1, <1>5, <2>3, <3>4
    <3> QED
      BY <2>1, <3>5 DEF Seen, Fresh, Hole
  <2> QED
    BY <2>2, <2>3
<1> QED
  BY <1>7, <1>8

(***************************************************************************)
(* The call that a caller is in is that of the outermost function.          *)
(***************************************************************************)
InScan == stack # <<>> /\ Caller.fn = "ScanNodes"
SameCaller == (InScan' <=> InScan) /\ (InScan => Caller' = Caller)

LEMMA CallKept ==
    ASSUME SameCaller
    PROVE  SeenCall' = SeenCall
BY DEF SameCaller, InScan, SeenCall, Seen

LEMMA LastOf ==
    ASSUME NEW X, NEW s \in Seq(X), s # <<>>, NEW f, NEW g
    PROVE  /\ <<f>> \o s # <<>> /\ (<<f>> \o s)[Len(<<f>> \o s)] = s[Len(s)]
           /\ <<f, g>> \o s # <<>> /\ (<<f, g>> \o s)[Len(<<f, g>> \o s)] = s[Len(s)]
<1> DEFINE Y == X \union {f, g}
<1>1. s \in Seq(Y)
  OBVIOUS
<1>2. <<f>> \in Seq(Y) /\ <<f, g>> \in Seq(Y)
  OBVIOUS
<1>3. ASSUME NEW t \in Seq(Y)
      PROVE  t \o s # <<>> /\ (t \o s)[Len(t \o s)] = s[Len(s)]
  <2>1. Len(s) \in Nat \ {0} /\ Len(t) \in Nat /\ Len(t \o s) = Len(t) + Len(s)
    BY <1>1
  <2>2. (t \o s)[Len(t) + Len(s)] = s[Len(s)]
    BY <1>1, <2>1
  <2> QED
    BY <2>1, <2>2
<1> QED
  BY <1>2, <1>3

LEMMA EmptyLen ==
    ASSUME NEW s, s = <<>>
    PROVE  Len(s) = 0
OBVIOUS

LEMMA TailOf ==
    ASSUME NEW X, NEW s \in Seq(X), s # <<>>
    PROVE  /\ Tail(s) \in Seq(X)
           /\ Tail(s) = <<>> => s[Len(s)] = s[1]
           /\ Tail(s) # <<>> => Tail(s)[Len(Tail(s))] = s[Len(s)]
<1>1. PICK n \in Nat \ {0} : n = Len(s)
  OBVIOUS
<1>2. PICK t : t = Tail(s)
  OBVIOUS
<1>3. t \in Seq(X) /\ Len(t) = n - 1 /\ \A i \in 1..(n - 1) : t[i] = s[i + 1]
  BY <1>1, <1>2
<1> PICK l \in Nat : l = n - 1
  OBVIOUS
<1>4. CASE t = <<>>
  <2>1. Len(t) = 0
    BY <1>4, EmptyLen
  <2>2. n = 1
    <3>1. l = 0
      BY <1>3, <2>1
    <3> QED
      BY <3>1
  <2> QED
    BY <1>1, <1>2, <1>3, <1>4, <2>2
<1>5. CASE t # <<>>
  <2>1. Len(t) # 0
    BY <1>3, <1>5
  <2>2. n - 1 \in 1..(n - 1) /\ n - 1 + 1 = n
    BY <1>1, <1>3, <2>1
  <2>3. t[Len(t)] = s[Len(s)]
    BY <1>1, <1>3, <2>2
  <2> QED
    BY <1>2, <1>3, <1>5, <2>3
<1> QED
  BY <1>4, <1>5

(* A call over a function, a return from one that is no caller's, and the   *)
(* first call of a request that is not an access.                           *)
LEMMA CalledOver ==
    ASSUME stack \in Seq(Frames), stack # <<>>, NEW f, NEW g,
           Call(<<f>>, stack) \/ Call(<<f, g>>, stack)
    PROVE  SameCaller
<1>1. /\ <<f>> \o stack # <<>> /\ (<<f>> \o stack)[Len(<<f>> \o stack)] = stack[Len(stack)]
      /\ <<f, g>> \o stack # <<>>
      /\ (<<f, g>> \o stack)[Len(<<f, g>> \o stack)] = stack[Len(stack)]
  BY LastOf
<1>2. CASE stack' = <<f>> \o stack
  BY <1>1, <1>2 DEF SameCaller, InScan, Caller
<1>3. CASE stack' = <<f, g>> \o stack
  BY <1>1, <1>3 DEF SameCaller, InScan, Caller
<1> QED
  BY <1>2, <1>3 DEF Call

LEMMA ReturnedFrom ==
    ASSUME stack \in Seq(Frames), stack # <<>>, Top.fn # "ScanNodes", stack' = Tail(stack)
    PROVE  SameCaller
<1>1. /\ Tail(stack) = <<>> => stack[Len(stack)] = stack[1]
      /\ Tail(stack) # <<>> => Tail(stack)[Len(Tail(stack))] = stack[Len(stack)]
  BY TailOf
<1>2. CASE Tail(stack) = <<>>
  BY <1>1, <1>2 DEF SameCaller, InScan, Caller, Top
<1>3. CASE Tail(stack) # <<>>
  BY <1>1, <1>3 DEF SameCaller, InScan, Caller
<1> QED
  BY <1>2, <1>3

LEMMA CalledFirst ==
    ASSUME stack = <<>>, NEW f, NEW g, f.fn # "ScanNodes", g.fn # "ScanNodes",
           Call(<<f>>, <<>>) \/ Call(<<f, g>>, <<>>)
    PROVE  SameCaller
<1>1. stack' = <<f>> \/ stack' = <<f, g>>
  <2>1. <<f>> \o <<>> = <<f>> /\ <<f, g>> \o <<>> = <<f, g>>
    OBVIOUS
  <2> QED
    BY <2>1 DEF Call
<1> QED
  BY <1>1 DEF SameCaller, InScan, Caller

LEMMA SameStack ==
    ASSUME stack' = stack
    PROVE  SameCaller
BY DEF SameCaller, InScan, Caller

LEMMA NextInHuge ==
    ASSUME IInv, Active("AllocHugeNode"), NEW m, HugeNext(Top, m, Tail(stack))
    PROVE  SameCaller
<1>1. /\ stack \in Seq(Frames) /\ stack # <<>> /\ Depth = 2 /\ Top.fn = "AllocHugeNode"
  <2> SUFFICES ASSUME NEW p, p = Top.page, NEW s, s = Top.index
               PROVE  stack \in Seq(Frames) /\ stack # <<>> /\ Depth = 2 /\ Top.fn = "AllocHugeNode"
    OBVIOUS
  <2> QED
    BY AddingHugeAt
<1>2. /\ Tail(stack) \in Seq(Frames) /\ Tail(stack) # <<>>
      /\ Tail(stack)[Len(Tail(stack))] = stack[Len(stack)]
  <2>1. Tail(stack) \in Seq(Frames)
    BY <1>1
  <2>2. Tail(stack) # <<>>
    <3>1. PICK t : t = Tail(stack)
      OBVIOUS
    <3>2. Len(t) = 1
      BY <1>1, <3>1 DEF Depth
    <3>3. t # <<>>
      BY <3>2, EmptyLen
    <3> QED
      BY <3>1, <3>3
  <2> QED
    BY <1>1, <2>1, <2>2, TailOf
<1>3. CASE stack' = Tail(stack)
  BY <1>1, <1>3, ReturnedFrom
<1>4. CASE \E f : stack' = <<f>> \o Tail(stack)
  <2>1. PICK f : stack' = <<f>> \o Tail(stack)
    BY <1>4
  <2>2. stack' # <<>> /\ stack'[Len(stack')] = stack[Len(stack)]
    BY <1>2, <2>1, LastOf
  <2> QED
    BY <1>1, <2>2 DEF SameCaller, InScan, Caller
<1>5. CASE \E f, g : stack' = <<f, g>> \o Tail(stack)
  <2>1. PICK f, g : stack' = <<f, g>> \o Tail(stack)
    BY <1>5
  <2>2. stack' # <<>> /\ stack'[Len(stack')] = stack[Len(stack)]
    BY <1>2, <2>1, LastOf
  <2> QED
    BY <1>1, <2>2 DEF SameCaller, InScan, Caller
<1> QED
  BY <1>3, <1>4, <1>5 DEF HugeNext, Call

(* Every step but those of an access itself leaves the caller's call as it  *)
(* is.                                                                      *)
LEMMA CallersKept ==
    ASSUME IInv, QuietActions, ~ScanReturn,
           ~\E x \in Accesses, b \in owned :
               x.skip < b.len /\ Access(x.op, b.addr + x.skip, b.len - x.skip)
    PROVE  SameCaller
<1>1. stack \in Seq(Frames)
  BY DEF IInv, Control, Kinds
<1>2. OpenFirst /\ stack # <<>> => SameCaller
  BY <1>1, CalledOver DEF OpenFirst
<1>3. CASE \E size \in Sizes : AllocStg(size)
  BY <1>3, SameStack DEF AllocStg
<1>4. CASE WriteReloc
  <2>1. CASE stack' = stack
    BY <2>1, SameStack
  <2>2. CASE Call(<<LAllocFrame(RelocCells, "page"), [fn |-> "AllocRelocInfo"]>>, <<>>)
    <3> DEFINE f == LAllocFrame(RelocCells, "page")
               g == [fn |-> "AllocRelocInfo"]
    <3>1. f.fn # "ScanNodes" /\ g.fn # "ScanNodes" /\ Call(<<f, g>>, <<>>)
      BY <2>2 DEF LAllocFrame
    <3> HIDE DEF f, g
    <3> QED
      BY <1>4, <3>1, CalledFirst DEF WriteReloc
  <2> QED
    BY <1>4, <2>1, <2>2 DEF WriteReloc
<1>5. CASE \E n \in 1..MaxOther : ChkAlloc(n)
  <2>1. PICK n \in 1..MaxOther : ChkAlloc(n)
    BY <1>5
  <2> DEFINE f == LAllocFrame(n, "other")
  <2>2. f.fn # "ScanNodes" /\ Call(<<f>>, <<>>) /\ stack = <<>>
    BY <2>1 DEF ChkAlloc, LAllocFrame
  <2> HIDE DEF f
  <2> QED
    BY <2>2, CalledFirst
<1>6. CASE \E n \in 1..MaxOther : LnkFree(n)
  BY <1>6, SameStack DEF LnkFree
<1>7. CASE ScanFirstUse
  BY <1>1, <1>7, CalledOver DEF ScanFirstUse, Active
<1>8. CASE AllocNode \/ AllocRelocInfo \/ SwapOutNode \/ SpillReloc
  <2>1. stack # <<>> /\ Top.fn # "ScanNodes"
    BY <1>8 DEF AllocNode, AllocRelocInfo, SwapOutNode, SpillReloc, Active
  <2>2. OpenFirst \/ Pop
    BY <1>8 DEF AllocNode, AllocRelocInfo, SwapOutNode, SpillReloc
  <2> QED
    BY <1>1, <1>2, <2>1, <2>2, ReturnedFrom DEF Pop
<1>9. CASE AllocHugeNode
  <2>1. Active("AllocHugeNode") /\ stack # <<>>
    BY <1>9 DEF AllocHugeNode, Active
  <2>2. OpenFirst \/ \E m : HugeNext(Top, m, Tail(stack))
    BY <1>9 DEF AllocHugeNode
  <2> QED
    BY <1>2, <2>1, <2>2, NextInHuge
<1>10. CASE Malloc
  BY <1>1, <1>10, ReturnedFrom DEF Malloc, Active, Pop
<1>11. CASE FreeCaches
  BY <1>11, SameStack DEF FreeCaches
<1>12. CASE SwapOutVirt
  BY <1>1, <1>12, CalledOver DEF SwapOutVirt, NoRoom, Active
<1>13. CASE SwapOutRelocs
  <2>1. stack # <<>> /\ Top.fn # "ScanNodes"
    BY <1>13 DEF SwapOutRelocs, NoRoom, Active
  <2>2. (\E f : Call(<<f>>, stack)) \/ Pop \/ stack' = stack
    BY <1>13 DEF SwapOutRelocs
  <2> QED
    BY <1>1, <2>1, <2>2, CalledOver, ReturnedFrom, SameStack DEF Pop
<1> QED
  BY <1>3, <1>4, <1>5, <1>6, <1>7, <1>8, <1>9, <1>10, <1>11, <1>12, <1>13 DEF QuietActions

PlainVars == <<SeenStore, SeenCall>>

LEMMA NoCallThere ==
    ASSUME stack = <<>>
    PROVE  SeenCall = Plain!NoCall
BY DEF SeenCall, Plain!NoCall

LEMMA NoCallAfter ==
    ASSUME stack' = <<>>
    PROVE  SeenCall' = Plain!NoCall
BY DEF SeenCall, Plain!NoCall

(* What the caller's frame f stands for. *)
CallOf(f) == [op |-> f.op, addr |-> f.addr, len |-> f.len,
              got |-> IF f.op = "ReadInfo" THEN [i \in 1..Len(f.got) |-> Seen(f.got[i])]
                                           ELSE f.got]

LEMMA CallThere ==
    ASSUME NEW f, stack = <<f>>, f.fn = "ScanNodes"
    PROVE  SeenCall = CallOf(f)
<1>1. Len(stack) = 1 /\ stack[1] = f /\ stack # <<>>
  OBVIOUS
<1>2. Caller = f
  BY <1>1 DEF Caller
<1> QED
  BY <1>1, <1>2 DEF SeenCall, CallOf

LEMMA CallAfter ==
    ASSUME NEW f, stack' = <<f>>, f.fn = "ScanNodes"
    PROVE  SeenCall' = CallOf(f)
<1>1. Len(stack') = 1 /\ stack'[1] = f /\ stack' # <<>>
  OBVIOUS
<1>2. Caller' = f
  BY <1>1 DEF Caller
<1> QED
  BY <1>1, <1>2 DEF SeenCall, CallOf, Seen

LEMMA SameCardinality == Plain!Cardinality(Addr) = Cardinality(Addr)
BY DEF Plain!Cardinality, Cardinality

(* An access begins a call of the plain memory. *)
LEMMA AccessBegins ==
    ASSUME IInv, NEW x \in Accesses, NEW b \in owned, x.skip < b.len,
           NEW a, a = b.addr + x.skip, NEW n, n = b.len - x.skip, Access(x.op, a, n),
           SeenStore' = SeenStore
    PROVE  Plain!Next
<1>1. /\ b.addr \in Nat /\ b.len \in Nat /\ x.skip \in Nat
      /\ x.op \in {"PutInfo", "PutNulls", "ReadInfo", "CompareInfo"}
  <2>1. b.addr \in Addr /\ b.len \in Sizes
    BY DEF IInv, Control, TypeOK
  <2> QED
    BY <2>1, NumbersAre, SizesAssumption
<1>2. a \in Nat /\ n \in Nat \ {0} /\ a..(a + n - 1) \subseteq b.addr..(b.addr + b.len - 1)
  BY <1>1
<1>3. a..(a + n - 1) \subseteq Addr
  BY <1>2 DEF IInv, Control, Storage
<1>4. a \in Addr
  <2>1. a \in a..(a + n - 1)
    BY <1>2
  <2> QED
    BY <1>3, <2>1
<1>5. n \in 1..Cardinality(Addr)
  <2>1. IsFiniteSet(Addr)
    BY Constants, FS_Interval DEF Addr
  <2>2. Cardinality(a..(a + n - 1)) = n
    <3>1. PICK c \in Int : c = a
      BY <1>2
    <3>2. PICK d \in Int : d = a + n - 1
      BY <1>2
    <3>3. Cardinality(c..d) = IF c > d THEN 0 ELSE d - c + 1
      BY FS_Interval
    <3>4. ~(c > d) /\ d - c + 1 = n
      BY <1>2, <3>1, <3>2
    <3> QED
      BY <3>1, <3>2, <3>3, <3>4
  <2>3. Cardinality(a..(a + n - 1)) <= Cardinality(Addr)
    BY <1>3, <2>1, FS_Subset
  <2>4. Cardinality(Addr) \in Nat
    BY <2>1, FS_CardinalityType
  <2> QED
    BY <1>2, <2>2, <2>3, <2>4
<1>6. SeenCall = Plain!NoCall
  BY NoCallThere DEF Access
<1> DEFINE f == [fn |-> "ScanNodes", op |-> x.op, addr |-> a, len |-> n, got |-> <<>>]
<1>7. stack' = <<f>> \o <<>>
  BY DEF Access, Call
<1>8. CallOf(f) = [op |-> x.op, addr |-> a, len |-> n, got |-> <<>>]
  <2>1. f.op = x.op /\ f.addr = a /\ f.len = n /\ f.got = <<>> /\ f.fn = "ScanNodes"
    OBVIOUS
  <2>2. Len(f.got) = 0
    BY <2>1
  <2>3. [i \in 1..Len(f.got) |-> Seen(f.got[i])] = <<>>
    BY <2>2
  <2> HIDE DEF f
  <2> QED
    BY <2>1, <2>3 DEF CallOf
<1>9. f.fn = "ScanNodes"
  OBVIOUS
<1> HIDE DEF f
<1>10. stack' = <<f>>
  BY <1>7
<1>11. SeenCall' = [op |-> x.op, addr |-> a, len |-> n, got |-> <<>>]
  BY <1>8, <1>9, <1>10, CallAfter
<1>12. Plain!Begin(x.op, a, n)
  BY <1>3, <1>6, <1>11 DEF Plain!Begin
<1>13. PICK N : N = Cardinality(Addr)
  OBVIOUS
<1>14. \E op \in {"PutInfo", "PutNulls", "ReadInfo", "CompareInfo"} :
         \E c \in Addr : \E m \in 1..N : Plain!Begin(op, c, m)
  BY <1>1, <1>4, <1>5, <1>12, <1>13, Zenon
<1>15. N = Plain!Cardinality(Addr)
  BY <1>13, SameCardinality
<1> QED
  BY <1>14, <1>15 DEF Plain!Next

(* ScanNodes returns: the call is over. *)
LEMMA ScanReturns ==
    ASSUME IInv, ScanReturn, SeenStore' = SeenStore
    PROVE  Plain!Next
<1>1. Active("ScanNodes") /\ Top.len = 0 /\ stack' = Tail(stack)
  BY DEF ScanReturn, Pop
<1>2. Depth = 1 /\ stack \in Seq(Frames) /\ Top \in Frames /\ stack # <<>>
  <2>1. Depth = 1 /\ stack \in Seq(Frames)
    BY <1>1, ScanningAt DEF IInv, Control, Kinds
  <2> QED
    BY <1>1, <2>1, TopIs DEF Active
<1>3. stack = <<Top>>
  BY <1>2 DEF Depth, Top
<1>4. Top.fn = "ScanNodes" /\ Top.op \in {"PutInfo", "PutNulls", "ReadInfo", "CompareInfo"}
  BY <1>1, <1>2, FrameKinds DEF Active
<1> PICK f : f = Top
  OBVIOUS
<1>5. SeenCall = CallOf(f)
  BY <1>3, <1>4, CallThere
<1>6. SeenCall.len = 0 /\ SeenCall # Plain!NoCall
  <2>1. SeenCall.op = f.op /\ SeenCall.len = f.len
    BY <1>5 DEF CallOf
  <2>2. Plain!NoCall.op = "none"
    BY DEF Plain!NoCall
  <2> QED
    BY <1>1, <1>4, <2>1, <2>2
<1>7. SeenCall' = Plain!NoCall
  <2>1. stack' = <<>>
    BY <1>1, <1>3
  <2> QED
    BY <2>1, NoCallAfter
<1> QED
  BY <1>6, <1>7 DEF Plain!Next, Plain!Return

(* The cells that ScanPiece is at.                                          *)
LEMMA PieceCells ==
    ASSUME IInv, Active("ScanNodes"), Top.len > 0, CanScan, NEW j \in Nat, j < PieceAmt
    PROVE  /\ Top.addr + j \in Addr /\ Top.addr + j \in Nat /\ Owner(Top.addr + j) = Piece
           /\ Off(Top.addr + j) = Off(Top.addr) + j /\ CellHeld(Top.addr + j)
<1>1. /\ Piece \in DOMAIN Places
      /\ Off(Top.addr) \in Nat /\ Place(Top.addr).size \in Nat
      /\ Top.addr \in Nat /\ Top.len \in Nat
      /\ PieceAmt \in Nat \ {0} /\ PieceAmt <= Top.len
      /\ Off(Top.addr) + PieceAmt <= Place(Top.addr).size
      /\ Place(Top.addr).size <= Limit(Top.addr)
      /\ Places[Piece] = IF Place(Top.addr).inmem
                         THEN InRam(Place(Top.addr).loc, Place(Top.addr).size)
                         ELSE InFile(Place(Top.addr).loc, Place(Top.addr).size)
  BY PieceAt DEF CanScan
<1>2. PICK a \in Nat : a = Top.addr
  BY <1>1
<1>3. Limit(a) \in Nat
  BY Constants DEF Limit
<1>4. Off(a) + j < Limit(a) /\ Off(a) + j < Place(a).size
  BY <1>1, <1>2, <1>3
<1>5. Owner(a + j) = Owner(a) /\ Off(a + j) = Off(a) + j
  BY <1>4, NextCells
<1>6. a + j \in Addr
  <2>1. Depth = 1 /\ stack \in Seq(Frames) /\ stack # <<>>
    BY ScanningAt DEF IInv, Control, Kinds, Active
  <2>2. Frame(1) = Top /\ Top.fn = "ScanNodes" /\ Scanning(1)
    BY <2>1, TopIs DEF IInv, Control, Calls, InPlace, Active
  <2>3. PICK b \in owned : b.addr <= Top.addr /\ Top.addr + Top.len <= b.addr + b.len
    BY <2>2 DEF Scanning
  <2>4. b.addr \in Nat /\ b.len \in Nat
    <3>1. b.addr \in Addr /\ b.len \in Sizes
      BY DEF IInv, Control, TypeOK
    <3> QED
      BY <3>1, NumbersAre
  <2>5. a + j \in b.addr..(b.addr + b.len - 1)
    BY <1>1, <1>2, <2>3, <2>4
  <2> QED
    BY <2>5 DEF IInv, Control, Storage
<1>7. Places[Piece].size = Place(Top.addr).size
  BY <1>1 DEF InRam, InFile
<1>8. CellHeld(a + j)
  BY <1>1, <1>2, <1>4, <1>5, <1>7 DEF CellHeld, Piece
<1> QED
  BY <1>2, <1>5, <1>6, <1>8 DEF Piece

LEMMA NoOtherPieceCells ==
    ASSUME IInv, Active("ScanNodes"), Top.len > 0, CanScan, NEW a \in Addr, Owner(a) = Piece,
           NEW j \in Nat, j < PieceAmt, Off(a) = Off(Top.addr) + j
    PROVE  a = Top.addr + j
<1>1. PICK b \in Nat : b = Top.addr + j
  BY PieceCells
<1>2. Owner(b) = Piece /\ Off(b) = Off(Top.addr) + j
  BY <1>1, PieceCells
<1>3. a \in Nat
  BY NumbersAre
<1>4. a = b
  BY <1>2, <1>3, OneCell
<1> QED
  BY <1>1, <1>4

(* What ScanPiece reads is what the plain memory holds.                     *)
LEMMA PieceSeen ==
    ASSUME IInv, Active("ScanNodes"), Top.len > 0, CanScan, NEW i \in 1..PieceAmt
    PROVE  SeenStore[Top.addr + i - 1] = Seen(PieceRead[i]) /\ Top.addr + i - 1 \in Addr
<1>1. PieceAmt \in Nat /\ Top.addr \in Nat /\ Off(Top.addr) \in Nat
  BY PieceAt DEF CanScan
<1>2. PICK j \in Nat : j = i - 1 /\ j < PieceAmt /\ i \in Nat
  BY <1>1
<1>3. PICK a \in Nat : a = Top.addr + j
  BY <1>1
<1>4. Top.addr + i - 1 = a /\ Off(Top.addr) + j + 1 = Off(Top.addr) + i
  BY <1>1, <1>2, <1>3
<1>5. a \in Addr /\ Owner(a) = Piece /\ Off(a) = Off(Top.addr) + j /\ CellHeld(a)
  BY <1>2, <1>3, PieceCells
<1>6. Content(a) = CellOf(a)
  BY <1>5, ContentInv DEF ContentsOwned
<1>7. CellOf(a) = Value(Places, ram, spill, Piece, Off(Top.addr) + i)
  BY <1>4, <1>5 DEF CellOf
<1>8. PieceRead[i] = Value(Places, ram, spill, Piece, Off(Top.addr) + i)
  BY ContentsAre
<1> QED
  BY <1>4, <1>5, <1>6, <1>7, <1>8 DEF SeenStore

CallRec(op, a, l, g) == [op |-> op, addr |-> a, len |-> l, got |-> g]

LEMMA RestOf ==
    ASSUME NEW op, NEW a \in Int, NEW l \in Int, NEW g, SeenCall = CallRec(op, a, l, g), NEW n \in Int
    PROVE  /\ SeenCall.op = op /\ SeenCall.addr = a /\ SeenCall.len = l
           /\ Plain!Rest(n) = CallRec(op, a + n, l - n, g)
<1>1. PICK c : c = SeenCall
  OBVIOUS
<1>2. c = [op |-> op, addr |-> a, len |-> l, got |-> g]
  BY <1>1 DEF CallRec
<1>3. c.op = op /\ c.addr = a /\ c.len = l
  BY <1>2
<1> DEFINE d == [c EXCEPT !.addr = @ + n, !.len = @ - n]
<1>4. d = [op |-> op, addr |-> a + n, len |-> l - n, got |-> g]
  <2>1. d = [x \in {"op", "addr", "len", "got"} |->
               IF x = "len" THEN l - n ELSE IF x = "addr" THEN a + n ELSE c[x]]
    BY <1>2
  <2> QED
    BY <1>2, <2>1
<1> QED
  BY <1>1, <1>3, <1>4 DEF CallRec, Plain!Rest

MoreGot(c, h)   == [c EXCEPT !.got = @ \o h]
OnlyGot(c, h, m) == [c EXCEPT !.got = h, !.len = m]

LEMMA GotOf ==
    ASSUME NEW op, NEW a, NEW l, NEW g, NEW h, NEW m, NEW c, c = CallRec(op, a, l, g)
    PROVE  /\ MoreGot(c, h) = CallRec(op, a, l, g \o h)
           /\ OnlyGot(c, h, m) = CallRec(op, a, m, h)
<1>1. c = [op |-> op, addr |-> a, len |-> l, got |-> g]
  BY DEF CallRec
<1>2. c.got = g
  BY <1>1
<1>3. PICK k : k = g \o h
  OBVIOUS
<1>4. [c EXCEPT !.got = k] = [op |-> op, addr |-> a, len |-> l, got |-> k]
  BY <1>1
<1> DEFINE d == [c EXCEPT !.got = h, !.len = m]
<1>5. d = [op |-> op, addr |-> a, len |-> m, got |-> h]
  <2>1. d = [x \in {"op", "addr", "len", "got"} |->
               IF x = "len" THEN m ELSE IF x = "got" THEN h ELSE c[x]]
    BY <1>1
  <2> QED
    BY <1>1, <2>1
<1>6. [c EXCEPT !.got = @ \o h] = [c EXCEPT !.got = k]
  BY <1>2, <1>3
<1> QED
  BY <1>3, <1>4, <1>5, <1>6 DEF CallRec, MoreGot, OnlyGot

SeenSeq(s) == [i \in 1..Len(s) |-> Seen(s[i])]
GotBy(f) == IF f.op = "ReadInfo" THEN SeenSeq(f.got) ELSE f.got

LEMMA CallOfIs ==
    ASSUME NEW f
    PROVE  CallOf(f) = CallRec(f.op, f.addr, f.len, GotBy(f))
BY DEF CallOf, CallRec, GotBy, SeenSeq

Joined(c, a, b, n, m) ==
    /\ \A i \in 1..n : c[i] = a[i]
    /\ \A i \in 1..m : c[n + i] = b[i]
    /\ c = [i \in 1..(n + m) |-> c[i]]

LEMMA ConcatIs ==
    ASSUME NEW Y, NEW a \in Seq(Y), NEW b \in Seq(Y), NEW n \in Nat, NEW m \in Nat,
           Len(a) = n, Len(b) = m
    PROVE  Joined(a \o b, a, b, n, m)
<1>1. PICK c : c = a \o b
  OBVIOUS
<1>2. c \in Seq(Y) /\ Len(c) = n + m
  <2>1. a \o b \in Seq(Y) /\ Len(a \o b) = Len(a) + Len(b)
    OBVIOUS
  <2> QED
    BY <1>1, <2>1
<1>3. c = [i \in 1..(n + m) |-> c[i]]
  <2>1. PICK k : k = n + m
    OBVIOUS
  <2> QED
    BY <1>2, <2>1
<1>4. \A i \in 1..n : c[i] = a[i]
  BY <1>1
<1>5. \A i \in 1..m : c[n + i] = b[i]
  BY <1>1
<1> QED
  BY <1>1, <1>3, <1>4, <1>5 DEF Joined

LEMMA SeenConcat ==
    ASSUME NEW X, NEW s \in Seq(X), NEW t \in Seq(X)
    PROVE  SeenSeq(s \o t) = SeenSeq(s) \o SeenSeq(t)
<1>1. Len(s) \in Nat /\ Len(t) \in Nat /\ Len(s \o t) = Len(s) + Len(t)
  OBVIOUS
<1> DEFINE u == s \o t
           n == Len(s)
           m == Len(t)
           a == SeenSeq(s)
           b == SeenSeq(t)
           Y == {Seen(s[i]) : i \in 1..n} \union {Seen(t[i]) : i \in 1..m}
<1>2. \A i \in 1..n : u[i] = s[i]
  BY <1>1
<1>3. \A i \in 1..m : u[n + i] = t[i]
  BY <1>1
<1>4. /\ a \in Seq(Y) /\ Len(a) = n /\ \A i \in 1..n : a[i] = Seen(s[i])
      /\ b \in Seq(Y) /\ Len(b) = m /\ \A i \in 1..m : b[i] = Seen(t[i])
  <2>1. \A i \in 1..n : Seen(s[i]) \in Y
    OBVIOUS
  <2>2. \A i \in 1..m : Seen(t[i]) \in Y
    OBVIOUS
  <2> HIDE DEF Y
  <2> QED
    BY <1>1, <2>1, <2>2, IsASeq DEF SeenSeq
<1>5. SeenSeq(u) = [i \in 1..(n + m) |-> Seen(u[i])]
  BY <1>1 DEF SeenSeq
<1>6. n \in Nat /\ m \in Nat
  BY <1>1
<1> HIDE DEF u, n, m, a, b, Y
<1>7. /\ \A i \in 1..n : (a \o b)[i] = a[i]
      /\ \A i \in 1..m : (a \o b)[n + i] = b[i]
      /\ a \o b = [i \in 1..(n + m) |-> (a \o b)[i]]
  <2>1. a \in Seq(Y) /\ b \in Seq(Y) /\ Len(a) = n /\ Len(b) = m
    BY <1>4
  <2>2. Joined(a \o b, a, b, n, m)
    BY <1>6, <2>1, ConcatIs
  <2> QED
    BY <2>2 DEF Joined
<1>8. ASSUME NEW i \in 1..(n + m) PROVE (a \o b)[i] = Seen(u[i])
  <2>1. CASE i <= n
    <3>1. i \in 1..n
      BY <1>6, <2>1
    <3> QED
      BY <1>2, <1>4, <1>7, <3>1
  <2>2. CASE i > n
    <3>1. PICK k \in 1..m : i = n + k
      <4>1. i - n \in 1..m /\ i = n + (i - n)
        BY <1>6, <2>2
      <4> QED
        BY <4>1
    <3> QED
      BY <1>3, <1>4, <1>7, <3>1
  <2> QED
    <3>1. i <= n \/ i > n
      BY <1>6
    <3> QED
      BY <2>1, <2>2, <3>1
<1>9. SeenSeq(u) = a \o b
  BY <1>5, <1>7, <1>8
<1> QED
  BY <1>9 DEF u, a, b

(***************************************************************************)
(* A step of ScanNodes is a step of the plain memory.                       *)
(***************************************************************************)
LEMMA ScanCallIs ==
    ASSUME IInv, Active("ScanNodes")
    PROVE  /\ stack = <<Top>> /\ Top.fn = "ScanNodes" /\ Top \in ScanFrames
           /\ SeenCall = CallRec(Top.op, Top.addr, Top.len, GotBy(Top))
<1>1. Depth = 1 /\ stack \in Seq(Frames) /\ Top \in Frames /\ stack # <<>>
  <2>1. Depth = 1 /\ stack \in Seq(Frames)
    BY ScanningAt DEF IInv, Control, Kinds
  <2> QED
    BY <2>1, TopIs DEF Active
<1>2. stack = <<Top>>
  BY <1>1 DEF Depth, Top
<1>3. Top.fn = "ScanNodes"
  BY DEF Active
<1>4. Top \in ScanFrames
  BY ScanningAt, ScanFramesAre
<1> PICK f : f = Top
  OBVIOUS
<1>5. SeenCall = CallOf(f)
  BY <1>2, <1>3, CallThere
<1>6. CallOf(f) = CallRec(f.op, f.addr, f.len, GotBy(f))
  BY CallOfIs
<1> QED
  BY <1>2, <1>3, <1>4, <1>5, <1>6

LEMMA ScanCallAfter ==
    ASSUME NEW f, stack' = <<f>>, f.fn = "ScanNodes"
    PROVE  SeenCall' = CallRec(f.op, f.addr, f.len, GotBy(f))
<1>1. SeenCall' = CallOf(f)
  BY CallAfter
<1>2. CallOf(f) = CallRec(f.op, f.addr, f.len, GotBy(f))
  BY CallOfIs
<1> QED
  BY <1>1, <1>2

LEMMA PieceStored ==
    ASSUME IInv, IInv', Active("ScanNodes"), Top.len > 0, CanScan,
           Stored(Piece, Off(Top.addr), PieceData), NEW a \in Addr
    PROVE  SeenStore'[a] = IF a \notin Top.addr..(Top.addr + PieceAmt - 1) THEN SeenStore[a]
                           ELSE IF Top.op = "PutInfo" THEN Own(a) ELSE Null
<1>1. /\ Content(a) = IF CellHeld(a) THEN CellOf(a) ELSE Fresh
      /\ Content(a)' = IF CellHeld(a)' THEN CellOf(a)' ELSE Fresh
  BY ContentInv, ThenContentInv DEF ContentsOwned
<1>2. SeenStore[a] = Seen(Content(a)) /\ SeenStore'[a] = Seen(Content(a)')
  BY DEF SeenStore, Seen
<1>3. /\ Places' = Places
      /\ SameValues(DOMAIN Places \ {Piece}, Places, ram, spill, Places', ram', spill')
      /\ CellsPut(Places, ram, spill, Piece, Off(Top.addr), PieceData, ram', spill')
  BY DEF Stored
<1>4. PICK o : o = Owner(a)
  OBVIOUS
<1>5. PICK c \in Nat \ {0} : c = Off(a) + 1 /\ c - 1 = Off(a)
  BY AddressesAre
<1>6. /\ CellHeld(a) <=> o \in DOMAIN Places /\ Off(a) < Places[o].size
      /\ CellHeld(a)' <=> o \in DOMAIN Places /\ Off(a) < Places[o].size
      /\ CellOf(a) = Value(Places, ram, spill, o, c)
      /\ CellOf(a)' = Value(Places', ram', spill', o, c)
  BY <1>3, <1>4, <1>5 DEF CellHeld, CellOf
<1>7. PieceAmt \in Nat \ {0} /\ Top.addr \in Nat /\ Off(Top.addr) \in Nat
  BY PieceAt DEF CanScan
<1>8. PieceData \in Seq(Int) /\ Len(PieceData) = PieceAmt
  BY <1>7, PieceDataIs
<1>9. a \in Nat /\ Off(a) \in Nat
  BY AddressesAre
<1>10. CellHeld(a) => c \in 1..Places[o].size
  <2>1. Typed(Places, ram, spill)
    BY DEF IInv, Memory
  <2>2. o \in DOMAIN Places => Places[o].size \in Nat
    BY <2>1 DEF Typed, PlaceSet
  <2> QED
    BY <1>5, <1>6, <2>2
<1>11. CASE a \in Top.addr..(Top.addr + PieceAmt - 1)
  <2>1. PICK j \in Nat : a = Top.addr + j /\ j < PieceAmt
    <3>1. a - Top.addr \in Nat /\ a = Top.addr + (a - Top.addr) /\ a - Top.addr < PieceAmt
      BY <1>7, <1>9, <1>11
    <3> QED
      BY <3>1
  <2>2. o = Piece /\ Off(a) = Off(Top.addr) + j /\ CellHeld(a)
    BY <1>4, <2>1, PieceCells
  <2>3. PICK off \in Nat : off = Off(Top.addr)
    BY <1>7
  <2>4. PICK i \in Nat : i = j + 1 /\ i \in 1..PieceAmt /\ c - off = i
    <3>1. j + 1 \in 1..PieceAmt /\ c - off = j + 1
      BY <1>5, <1>7, <2>1, <2>2, <2>3
    <3> QED
      BY <2>1, <3>1
  <2>5. Value(Places, ram', spill', o, c) = PieceData[i]
    <3>1. c \in 1..Places[Piece].size
      BY <1>10, <2>2
    <3>2. Value(Places, ram', spill', Piece, c) =
            IF c - Off(Top.addr) \in 1..Len(PieceData) THEN PieceData[c - Off(Top.addr)]
            ELSE Value(Places, ram, spill, Piece, c)
      BY <1>3, <3>1 DEF CellsPut
    <3> QED
      BY <1>8, <2>2, <2>3, <2>4, <3>2
  <2>6. PieceData[i] = IF Top.op = "PutInfo" THEN Own(a) ELSE Null
    <3>1. Top.addr + i - 1 = a
      BY <1>7, <2>1, <2>4
    <3>2. PieceData[i] = IF Top.op = "PutInfo" THEN Own(Top.addr + i - 1) ELSE Null
      BY <2>4 DEF PieceData
    <3> QED
      BY <3>1, <3>2
  <2>7. Content(a)' = IF Top.op = "PutInfo" THEN Own(a) ELSE Null
    BY <1>1, <1>3, <1>6, <2>2, <2>5, <2>6
  <2>8. Seen(Own(a)) = Own(a) /\ Seen(Null) = Null
    BY <1>9 DEF Seen, Own, Null, Hole
  <2> QED
    BY <1>2, <1>11, <2>7, <2>8
<1>12. CASE a \notin Top.addr..(Top.addr + PieceAmt - 1)
  <2>1. CASE ~CellHeld(a)
    BY <1>1, <1>2, <1>6, <1>12, <2>1
  <2>2. CASE CellHeld(a) /\ o # Piece
    <3>1. o \in DOMAIN Places \ {Piece} /\ c \in 1..Places[o].size
      BY <1>6, <1>10, <2>2
    <3>2. Value(Places', ram', spill', o, c) = Value(Places, ram, spill, o, c)
      BY <1>3, <3>1 DEF SameValues
    <3>3. Content(a)' = Content(a)
      BY <1>1, <1>6, <2>2, <3>2
    <3> QED
      BY <1>2, <1>12, <3>3
  <2>3. CASE CellHeld(a) /\ o = Piece
    <3>1. PICK off \in Nat : off = Off(Top.addr)
      BY <1>7
    <3>2. c - off \notin 1..PieceAmt
      <4> SUFFICES ASSUME c - off \in 1..PieceAmt PROVE FALSE
        OBVIOUS
      <4>1. PICK j \in Nat : j < PieceAmt /\ Off(a) = off + j
        <5>1. Off(a) - off \in Nat /\ Off(a) - off < PieceAmt /\ Off(a) = off + (Off(a) - off)
          BY <1>5, <1>7, <1>9
        <5> QED
          BY <5>1
      <4>2. a = Top.addr + j
        BY <1>4, <2>3, <3>1, <4>1, NoOtherPieceCells
      <4> QED
        BY <1>7, <1>12, <4>1, <4>2
    <3>3. c \in 1..Places[Piece].size
      BY <1>10, <2>3
    <3>4. Value(Places, ram', spill', Piece, c) =
            IF c - Off(Top.addr) \in 1..Len(PieceData) THEN PieceData[c - Off(Top.addr)]
            ELSE Value(Places, ram, spill, Piece, c)
      BY <1>3, <3>3 DEF CellsPut
    <3>5. Value(Places, ram', spill', Piece, c) = Value(Places, ram, spill, Piece, c)
      BY <1>8, <3>1, <3>2, <3>4
    <3>6. Content(a)' = Content(a)
      BY <1>1, <1>3, <1>6, <2>3, <3>5
    <3> QED
      BY <1>2, <1>12, <3>6
  <2> QED
    BY <2>1, <2>2, <2>3
<1> QED
  BY <1>11, <1>12

(* PutInfo and PutNulls. *)
LEMMA PutIsPut ==
    ASSUME IInv, IInv', Active("ScanNodes"), Top.len > 0, CanScan,
           Top.op \in {"PutInfo", "PutNulls"}, Stored(Piece, Off(Top.addr), PieceData),
           stack' = <<[Top EXCEPT !.addr = @ + PieceAmt, !.len = @ - PieceAmt]>>
    PROVE  Plain!Next
<1> SUFFICES ASSUME NEW r, r = [Top EXCEPT !.addr = @ + PieceAmt, !.len = @ - PieceAmt]
             PROVE  Plain!Next
  OBVIOUS
<1>1. /\ r \in ScanFrames /\ r.op = Top.op /\ r.addr = Top.addr + PieceAmt
      /\ r.len = Top.len - PieceAmt /\ r.got = Top.got
      /\ Top.addr \in Nat /\ Top.len \in Nat /\ PieceAmt <= Top.len
  BY ScanFrameThen
<1>2. PieceAmt \in Nat \ {0}
  BY PieceAt DEF CanScan
<1>3. r.fn = "ScanNodes"
  BY <1>1 DEF ScanFrames
<1>4. GotBy(r) = GotBy(Top)
  BY <1>1 DEF GotBy
<1>5. SeenCall' = CallRec(Top.op, Top.addr + PieceAmt, Top.len - PieceAmt, GotBy(Top))
  <2>1. SeenCall' = CallRec(r.op, r.addr, r.len, GotBy(r))
    <3>1. stack' = <<r>>
      OBVIOUS
    <3>2. PICK f : f = r
      OBVIOUS
    <3>3. SeenCall' = CallRec(f.op, f.addr, f.len, GotBy(f))
      BY <1>3, <3>1, <3>2, ScanCallAfter
    <3> QED
      BY <3>2, <3>3
  <2> QED
    BY <1>1, <1>4, <2>1
<1>6. PICK op : op = Top.op
  OBVIOUS
<1>7. PICK a \in Nat : a = Top.addr
  BY <1>1
<1>8. PICK l \in Nat : l = Top.len
  BY <1>1
<1>9. PICK n \in Nat \ {0} : n = PieceAmt
  BY <1>2
<1>10. SeenCall = CallRec(op, a, l, GotBy(Top))
  BY <1>6, <1>7, <1>8, ScanCallIs
<1>11. /\ SeenCall.op = op /\ SeenCall.addr = a /\ SeenCall.len = l
       /\ Plain!Rest(n) = CallRec(op, a + n, l - n, GotBy(Top))
  BY <1>10, RestOf
<1>12. SeenCall' = Plain!Rest(n)
  BY <1>5, <1>6, <1>7, <1>8, <1>9, <1>11
<1>13. SeenStore' = [b \in Addr |-> IF b \notin Plain!Piece(n) THEN SeenStore[b]
                                    ELSE IF SeenCall.op = "PutInfo" THEN Plain!Own(b) ELSE Null]
  <2>1. ASSUME NEW b \in Addr
        PROVE  SeenStore'[b] = IF b \notin Plain!Piece(n) THEN SeenStore[b]
                               ELSE IF SeenCall.op = "PutInfo" THEN Plain!Own(b) ELSE Null
    <3>1. SeenStore'[b] = IF b \notin Top.addr..(Top.addr + PieceAmt - 1) THEN SeenStore[b]
                          ELSE IF Top.op = "PutInfo" THEN Own(b) ELSE Null
      BY PieceStored
    <3>2. Plain!Piece(n) = Top.addr..(Top.addr + PieceAmt - 1)
      BY <1>7, <1>9, <1>11 DEF Plain!Piece
    <3> QED
      BY <1>6, <1>11, <3>1, <3>2 DEF Own, Plain!Own
  <2>2. SeenStore' = [b \in Addr |-> SeenStore'[b]]
    BY DEF SeenStore
  <2> QED
    BY <2>1, <2>2
<1>14. Plain!Put(n)
  BY <1>6, <1>11, <1>12, <1>13 DEF Plain!Put
<1>15. n \in 1..SeenCall.len
  BY <1>1, <1>8, <1>9, <1>11
<1> QED
  BY <1>14, <1>15 DEF Plain!Next

(* What is left of the call after the piece. *)
LEMMA PieceRest ==
    ASSUME IInv, Active("ScanNodes"), Top.len > 0, CanScan
    PROVE  /\ SeenCall.op = Top.op /\ SeenCall.addr = Top.addr /\ SeenCall.len = Top.len
           /\ Plain!Rest(PieceAmt) =
                CallRec(Top.op, Top.addr + PieceAmt, Top.len - PieceAmt, GotBy(Top))
           /\ PieceAmt \in 1..SeenCall.len
<1>1. /\ Top.addr \in Nat /\ Top.len \in Nat
      /\ PieceAmt \in Nat \ {0} /\ PieceAmt <= Top.len
  BY PieceAt DEF CanScan
<1>2. PICK op : op = Top.op
  OBVIOUS
<1>3. PICK a \in Nat : a = Top.addr
  BY <1>1
<1>4. PICK l \in Nat : l = Top.len
  BY <1>1
<1>5. PICK n \in Nat \ {0} : n = PieceAmt
  BY <1>1
<1>6. SeenCall = CallRec(op, a, l, GotBy(Top))
  BY <1>2, <1>3, <1>4, ScanCallIs
<1>7. /\ SeenCall.op = op /\ SeenCall.addr = a /\ SeenCall.len = l
      /\ Plain!Rest(n) = CallRec(op, a + n, l - n, GotBy(Top))
  BY <1>6, RestOf
<1>8. n \in 1..SeenCall.len
  BY <1>1, <1>4, <1>5, <1>7
<1> QED
  BY <1>2, <1>3, <1>4, <1>5, <1>7, <1>8

(* ReadInfo. *)
LEMMA ReadIsRead ==
    ASSUME IInv, Active("ScanNodes"), Top.len > 0, CanScan, Top.op = "ReadInfo",
           SeenStore' = SeenStore,
           NEW r, r = [Top EXCEPT !.addr = @ + PieceAmt, !.len = @ - PieceAmt],
           stack' = <<[r EXCEPT !.got = @ \o PieceRead]>>
    PROVE  Plain!Next
<1>1. /\ r \in ScanFrames /\ r.op = Top.op /\ r.addr = Top.addr + PieceAmt
      /\ r.len = Top.len - PieceAmt /\ r.got = Top.got
      /\ PieceAmt \in Nat /\ Top.addr \in Nat
  BY ScanFrameThen
<1>2. PICK s : s = PieceRead
  OBVIOUS
<1>3. s \in Seq(Int) /\ Len(s) = PieceAmt
  BY <1>2, ContentsAre
<1>4. PICK g : g = r.got
  OBVIOUS
<1>5. g \in Gots
  BY <1>1, <1>4 DEF ScanFrames, Gots
<1>6. g \o s \in Gots
  <2>1. s \in Seq(Int \union BOOLEAN)
    BY <1>3, WiderSeq
  <2> QED
    BY <1>5, <2>1 DEF Gots
<1>7. PICK h : h = g \o s
  OBVIOUS
<1>8. PICK f : f = WithGot(r, h)
  OBVIOUS
<1>9. f \in ScanFrames /\ f.op = r.op /\ f.addr = r.addr /\ f.len = r.len /\ f.got = h
  <2>1. \A q \in ScanFrames, x \in Gots :
          LET z == WithGot(q, x)
          IN  z \in ScanFrames /\ z.op = q.op /\ z.addr = q.addr /\ z.len = q.len /\ z.got = x
    BY GotIs
  <2>2. r \in ScanFrames /\ h \in Gots
    BY <1>1, <1>6, <1>7
  <2> QED
    BY <1>8, <2>1, <2>2, Zenon
<1>10. stack' = <<f>>
  BY <1>2, <1>4, <1>7, <1>8 DEF WithGot
<1>11. f.fn = "ScanNodes"
  BY <1>9 DEF ScanFrames
<1>12. SeenCall' = CallRec(f.op, f.addr, f.len, GotBy(f))
  BY <1>10, <1>11, ScanCallAfter
<1>13. GotBy(f) = SeenSeq(g) \o SeenSeq(s)
  <2>1. GotBy(f) = SeenSeq(h)
    BY <1>1, <1>9 DEF GotBy
  <2>2. g \in Seq(Int \union BOOLEAN) /\ s \in Seq(Int \union BOOLEAN)
    BY <1>3, <1>5, WiderSeq DEF Gots
  <2>3. SeenSeq(g \o s) = SeenSeq(g) \o SeenSeq(s)
    BY <2>2, SeenConcat
  <2> QED
    BY <1>7, <2>1, <2>3
<1>14. SeenSeq(g) = GotBy(Top)
  BY <1>1, <1>4 DEF GotBy
<1>15. SeenSeq(s) = [i \in 1..PieceAmt |-> SeenStore[Top.addr + i - 1]]
  BY <1>2, <1>3, PieceSeen DEF SeenSeq
<1>16. PICK d : d = SeenSeq(s)
  OBVIOUS
<1>17. SeenCall' = CallRec(Top.op, Top.addr + PieceAmt, Top.len - PieceAmt, GotBy(Top) \o d)
  BY <1>1, <1>9, <1>12, <1>13, <1>14, <1>16
<1>18. PICK c : c = Plain!Rest(PieceAmt)
  OBVIOUS
<1>19. c = CallRec(Top.op, Top.addr + PieceAmt, Top.len - PieceAmt, GotBy(Top))
  BY <1>18, PieceRest
<1>20. MoreGot(c, d) = CallRec(Top.op, Top.addr + PieceAmt, Top.len - PieceAmt, GotBy(Top) \o d)
  <2> PICK op, x, l, q : op = Top.op /\ x = Top.addr + PieceAmt /\ l = Top.len - PieceAmt
                         /\ q = GotBy(Top)
    OBVIOUS
  <2>1. c = CallRec(op, x, l, q)
    BY <1>19
  <2>2. MoreGot(c, d) = CallRec(op, x, l, q \o d)
    BY <2>1, GotOf
  <2> QED
    BY <2>2
<1>21. SeenCall' = [Plain!Rest(PieceAmt) EXCEPT
                      !.got = @ \o [i \in 1..PieceAmt |-> SeenStore[SeenCall.addr + i - 1]]]
  <2>1. d = [i \in 1..PieceAmt |-> SeenStore[SeenCall.addr + i - 1]]
    BY <1>15, <1>16, PieceRest
  <2> QED
    BY <1>17, <1>18, <1>20, <2>1 DEF MoreGot
<1>22. Plain!Read(PieceAmt)
  <2>1. SeenCall.op = "ReadInfo"
    BY PieceRest
  <2> QED
    BY <1>21, <2>1 DEF Plain!Read
<1>23. PieceAmt \in 1..SeenCall.len
  BY PieceRest
<1> QED
  BY <1>22, <1>23 DEF Plain!Next

(* CompareInfo. *)
PieceSame == \A i \in 1..PieceAmt : PieceRead[i] = Own(Top.addr + i - 1)
PieceLeft == [Top EXCEPT !.addr = @ + PieceAmt, !.len = @ - PieceAmt]
PlainSame == \A x \in Plain!Piece(PieceAmt) : SeenStore[x] = Plain!Own(x)

LEMMA CellSame ==
    ASSUME IInv, Active("ScanNodes"), Top.len > 0, CanScan, NEW i \in 1..PieceAmt
    PROVE  PieceRead[i] = Own(Top.addr + i - 1)
             <=> SeenStore[Top.addr + i - 1] = Plain!Own(Top.addr + i - 1)
<1>1. SeenStore[Top.addr + i - 1] = Seen(PieceRead[i])
  BY PieceSeen
<1>2. Top.addr \in Nat /\ PieceAmt \in Nat
  BY PieceAt DEF CanScan
<1>3. Top.addr + i - 1 \in Nat
  BY <1>2
<1> QED
  BY <1>1, <1>3 DEF Seen, Own, Plain!Own, Fresh, Hole

LEMMA PlainPieceIs ==
    ASSUME IInv, Active("ScanNodes"), Top.len > 0, CanScan
    PROVE  Plain!Piece(PieceAmt) = Top.addr..(Top.addr + PieceAmt - 1)
BY PieceRest DEF Plain!Piece

LEMMA SameHere ==
    ASSUME IInv, Active("ScanNodes"), Top.len > 0, CanScan, PieceSame
    PROVE  PlainSame
<1>1. Top.addr \in Nat /\ PieceAmt \in Nat
  BY PieceAt DEF CanScan
<1>2. \A i \in 1..PieceAmt : SeenStore[Top.addr + i - 1] = Plain!Own(Top.addr + i - 1)
  BY CellSame DEF PieceSame
<1>3. ASSUME NEW x \in Top.addr..(Top.addr + PieceAmt - 1)
      PROVE  SeenStore[x] = Plain!Own(x)
  <2>1. PICK i \in 1..PieceAmt : x = Top.addr + i - 1
    <3>1. x - Top.addr + 1 \in 1..PieceAmt /\ x = Top.addr + (x - Top.addr + 1) - 1
      BY <1>1
    <3> QED
      BY <3>1
  <2> QED
    BY <1>2, <2>1
<1> QED
  BY <1>3, PlainPieceIs DEF PlainSame

LEMMA SameThere ==
    ASSUME IInv, Active("ScanNodes"), Top.len > 0, CanScan, PlainSame
    PROVE  PieceSame
<1>1. Top.addr \in Nat /\ PieceAmt \in Nat
  BY PieceAt DEF CanScan
<1>2. \A x \in Top.addr..(Top.addr + PieceAmt - 1) : SeenStore[x] = Plain!Own(x)
  BY PlainPieceIs DEF PlainSame
<1>3. ASSUME NEW i \in 1..PieceAmt
      PROVE  PieceRead[i] = Own(Top.addr + i - 1)
  <2>1. Top.addr + i - 1 \in Top.addr..(Top.addr + PieceAmt - 1)
    BY <1>1
  <2> QED
    BY <1>2, <2>1, CellSame
<1> QED
  BY <1>3 DEF PieceSame

LEMMA WithGotLenIs ==
    \A q \in ScanFrames, x \in Gots, y \in Nat :
       LET z == WithGotLen(q, x, y)
       IN  z \in ScanFrames /\ z.op = q.op /\ z.addr = q.addr /\ z.len = y /\ z.got = x
BY GotAndLenAre

LEMMA CompareIsCompare ==
    ASSUME IInv, Active("ScanNodes"), Top.len > 0, CanScan, Top.op = "CompareInfo",
           SeenStore' = SeenStore,
           NEW r, r = PieceLeft, NEW b \in BOOLEAN, b <=> PieceSame,
           NEW k, k = IF b THEN r.len ELSE 0, stack' = <<WithGotLen(r, <<b>>, k)>>
    PROVE  Plain!Next
<1>1. /\ r \in ScanFrames /\ r.op = Top.op /\ r.addr = Top.addr + PieceAmt
      /\ r.len = Top.len - PieceAmt /\ r.len \in Nat
  BY ScanFrameThen DEF ScanFrames, PieceLeft
<1>2. PICK l \in Nat : l = IF b THEN r.len ELSE 0
  BY <1>1
<1>3. PICK g \in Gots : g = <<b>>
  <2>1. <<b>> \in Gots
    BY DEF Gots
  <2> QED
    BY <2>1
<1>4. PICK f : f = WithGotLen(r, g, l)
  OBVIOUS
<1>5. f \in ScanFrames /\ f.op = r.op /\ f.addr = r.addr /\ f.len = l /\ f.got = g
  <2>1. \A q \in ScanFrames, x \in Gots, y \in Nat :
          LET z == WithGotLen(q, x, y)
          IN  z \in ScanFrames /\ z.op = q.op /\ z.addr = q.addr /\ z.len = y /\ z.got = x
    BY WithGotLenIs
  <2>2. r \in ScanFrames /\ g \in Gots /\ l \in Nat
    BY <1>1, <1>2, <1>3
  <2> QED
    BY <1>4, <2>1, <2>2, ZenonT(40)
<1>6. stack' = <<f>>
  BY <1>2, <1>3, <1>4
<1>7. f.fn = "ScanNodes"
  BY <1>5 DEF ScanFrames
<1>8. SeenCall' = CallRec(f.op, f.addr, f.len, GotBy(f))
  BY <1>6, <1>7, ScanCallAfter
<1>9. GotBy(f) = g
  BY <1>1, <1>5 DEF GotBy
<1>10. SeenCall' = CallRec(Top.op, Top.addr + PieceAmt, l, g)
  BY <1>1, <1>5, <1>8, <1>9
<1>11. PICK c : c = Plain!Rest(PieceAmt)
  OBVIOUS
<1>12. c = CallRec(Top.op, Top.addr + PieceAmt, Top.len - PieceAmt, GotBy(Top))
  BY <1>11, PieceRest
<1>13. c.len = r.len
  BY <1>1, <1>12 DEF CallRec
<1>14. OnlyGot(c, g, l) = CallRec(Top.op, Top.addr + PieceAmt, l, g)
  <2> PICK op, x, y, q : op = Top.op /\ x = Top.addr + PieceAmt /\ y = Top.len - PieceAmt
                         /\ q = GotBy(Top)
    OBVIOUS
  <2>1. c = CallRec(op, x, y, q)
    BY <1>12
  <2>2. OnlyGot(c, g, l) = CallRec(op, x, l, g)
    BY <2>1, GotOf
  <2> QED
    BY <2>2
<1>15. b <=> PlainSame
  <2>1. CASE b
    BY <2>1, SameHere
  <2>2. CASE ~b
    BY <2>2, SameThere
  <2> QED
    BY <2>1, <2>2
<1>16. Plain!Compare(PieceAmt)
  <2>1. SeenCall.op = "CompareInfo"
    BY PieceRest
  <2>2. SeenCall' = [c EXCEPT !.got = <<b>>, !.len = IF b THEN @ ELSE 0]
    BY <1>2, <1>3, <1>10, <1>13, <1>14 DEF OnlyGot
  <2>3. b = PlainSame
    BY <1>15 DEF PlainSame
  <2>4. SeenCall' = [c EXCEPT !.got = <<PlainSame>>, !.len = IF PlainSame THEN @ ELSE 0]
    BY <2>2, <2>3
  <2> QED
    BY <1>11, <2>1, <2>4 DEF Plain!Compare, PlainSame
<1>17. PieceAmt \in 1..SeenCall.len
  BY PieceRest
<1> QED
  BY <1>16, <1>17 DEF Plain!Next

LEMMA ScanPieceIs ==
    ASSUME IInv, ScanPiece
    PROVE  Plain!Next
<1>1. /\ IInv' /\ Active("ScanNodes") /\ Top.len > 0 /\ CanScan
      /\ IF Top.op \in {"PutInfo", "PutNulls"}
         THEN Stored(Piece, Off(Top.addr), PieceData)
         ELSE CellsKept
  BY ScanPieceStep
<1>2. Top.op \in {"PutInfo", "PutNulls", "ReadInfo", "CompareInfo"}
  <2>1. Top \in ScanFrames
    BY <1>1, ScanningAt, ScanFramesAre
  <2> QED
    BY <2>1 DEF ScanFrames
<1>3. CASE Top.op \in {"PutInfo", "PutNulls"}
  <2>1. stack' = <<[Top EXCEPT !.addr = @ + PieceAmt, !.len = @ - PieceAmt]>>
    BY <1>3 DEF ScanPiece, PieceAmt
  <2> QED
    BY <1>1, <1>3, <2>1, PutIsPut
<1> SUFFICES ASSUME Top.op \in {"ReadInfo", "CompareInfo"},
                    NEW r, r = [Top EXCEPT !.addr = @ + PieceAmt, !.len = @ - PieceAmt]
             PROVE  Plain!Next
  BY <1>2, <1>3
<1>4. SeenStore' = SeenStore
  BY <1>1, StoreKept
<1>5. CASE Top.op = "ReadInfo"
  <2>1. stack' = <<[r EXCEPT !.got = @ \o PieceRead]>>
    BY <1>5 DEF ScanPiece, PieceAmt, PieceRead
  <2> QED
    BY <1>1, <1>4, <1>5, <2>1, ReadIsRead
<1>6. CASE Top.op = "CompareInfo"
  <2> DEFINE b == \A i \in 1..PieceAmt : PieceRead[i] = Own(Top.addr + i - 1)
  <2>1. stack' = <<[r EXCEPT !.got = <<b>>, !.len = IF b THEN @ ELSE 0]>>
    BY <1>6 DEF ScanPiece, PieceAmt, PieceRead
  <2>2. b \in BOOLEAN /\ (b <=> PieceSame)
    BY DEF PieceSame
  <2> HIDE DEF b
  <2> QED
    <3>1. PICK c \in BOOLEAN : c = b
      BY <2>2
    <3>2. c <=> PieceSame
      BY <2>2, <3>1
    <3>3. PICK k : k = IF c THEN r.len ELSE 0
      OBVIOUS
    <3>4. stack' = <<WithGotLen(r, <<c>>, k)>>
      BY <2>1, <3>1, <3>3 DEF WithGotLen
    <3>5. Active("ScanNodes") /\ Top.len > 0 /\ CanScan
      BY <1>1
    <3>6. r = PieceLeft
      BY DEF PieceLeft
    <3> QED
      BY <1>4, <1>6, <3>2, <3>3, <3>4, <3>5, <3>6, CompareIsCompare
<1> QED
  BY <1>5, <1>6

LEMMA InitIsInit == Init => Plain!Init
<1> SUFFICES ASSUME Init PROVE Plain!Init
  OBVIOUS
<1>1. Len(SegTab) = 0 /\ Len(HugeTab) = 0 /\ stack = <<>>
  BY DEF Init
<1>2. ASSUME NEW a \in Addr PROVE Seen(Content(a)) = Fresh
  <2>1. ~Backed(a)
    <3>1. CASE IsHuge(a)
      <4>1. BigNode(a) \in Nat \ {0}
        BY <3>1, AddressesAre
      <4>2. ~(BigNode(a) <= Len(HugeTab))
        BY <1>1, <4>1
      <4> QED
        BY <3>1, <4>2 DEF Backed
    <3>2. CASE ~IsHuge(a)
      <4>1. Node(a) \in Nat \ {0}
        BY <3>2, AddressesAre
      <4>2. ~(Node(a) <= Len(SegTab))
        BY <1>1, <4>1
      <4> QED
        BY <3>2, <4>2 DEF Backed
    <3> QED
      BY <3>1, <3>2
  <2> QED
    BY <2>1 DEF Content, Seen, Fresh, Hole
<1>3. SeenStore = [a \in Addr |-> Fresh]
  BY <1>2 DEF SeenStore
<1>4. SeenCall = Plain!NoCall
  BY <1>1, NoCallThere
<1> QED
  BY <1>3, <1>4 DEF Plain!Init

LEMMA NextIsNext ==
    ASSUME IInv, Next
    PROVE  [Plain!Next]_PlainVars
<1>1. CASE ScanPiece
  BY <1>1, ScanPieceIs
<1>2. CASE QuietActions
  <2>1. IInv' /\ CellsKept
    BY <1>2, QuietActionsStep
  <2>2. SeenStore' = SeenStore
    BY <2>1, StoreKept
  <2>3. CASE ScanReturn
    BY <2>2, <2>3, ScanReturns
  <2>4. CASE \E x \in Accesses, b \in owned :
               x.skip < b.len /\ Access(x.op, b.addr + x.skip, b.len - x.skip)
    <3>1. PICK x \in Accesses, b \in owned :
            x.skip < b.len /\ Access(x.op, b.addr + x.skip, b.len - x.skip)
      BY <2>4
    <3>2. PICK a : a = b.addr + x.skip
      OBVIOUS
    <3>3. PICK n : n = b.len - x.skip
      OBVIOUS
    <3>4. x.skip < b.len /\ Access(x.op, a, n)
      BY <3>1, <3>2, <3>3
    <3> QED
      BY <2>2, <3>2, <3>3, <3>4, AccessBegins
  <2>5. CASE ~ScanReturn /\ ~\E x \in Accesses, b \in owned :
               x.skip < b.len /\ Access(x.op, b.addr + x.skip, b.len - x.skip)
    <3>1. SameCaller
      BY <1>2, <2>5, CallersKept
    <3>2. SeenCall' = SeenCall
      BY <3>1, CallKept
    <3> QED
      BY <2>2, <3>2 DEF PlainVars
  <2> QED
    BY <2>3, <2>4, <2>5
<1> QED
  BY <1>1, <1>2, NextIs

LEMMA StutterIsStutter == UNCHANGED vars => UNCHANGED PlainVars
<1> SUFFICES ASSUME UNCHANGED vars PROVE UNCHANGED PlainVars
  OBVIOUS
<1>1. UNCHANGED <<SegTab, HugeTab, ram, spill, stack>>
  BY DEF vars, pages, heap, file
<1>2. SeenCall' = SeenCall
  BY <1>1, SameStack, CallKept
<1>3. SeenStore' = SeenStore
  BY <1>1 DEF SeenStore, Seen, Content, Backed, Leaving, Place, SubSize
<1> QED
  BY <1>2, <1>3 DEF PlainVars

(* Every behaviour of the linker's virtual memory is one of the plain array *)
(* of cells: what a caller reads or compares is what was last put there,    *)
(* whatever has been swapped out, and when, and never what another page or  *)
(* a relocation block has left in RAM or in the file.                       *)
THEOREM MemoryKept == Spec => ActsAsMemory
<1>1. Init => Plain!Init
  BY InitIsInit
<1>2. IInv /\ [Next]_vars => [Plain!Next]_PlainVars
  BY NextIsNext, StutterIsStutter
<1>3. [Plain!Next]_PlainVars <=> [Plain!Next]_<<SeenStore, SeenCall>>
  BY DEF PlainVars
<1> QED
  BY <1>1, <1>2, <1>3, Invariance, PTL DEF Spec, ActsAsMemory, Plain!Spec
============================================================================
