-------------------------- MODULE LinkMemorySteps --------------------------
(***************************************************************************)
(* The inductive invariant of LinkMemory, the facts its proof rests on, and *)
(* a lemma ...Step for every action: it keeps the invariant, and, but for   *)
(* ScanPiece, the cells of every page.                                      *)
(*                                                                          *)
(* Everything that has a place - a node, a subpage, a relocation block and  *)
(* the block that LAlloc has just returned - is an owner, and Places maps   *)
(* the owners to their places in RAM or in the spill file.  Memory says     *)
(* that the places of different owners never meet and that no block is      *)
(* without owner, and the lemmas about Memory say what malloc, free, a      *)
(* move to the file and a write do to it, whoever the owner is.  Calls      *)
(* says who may call whom, and what each function finds when the ones it    *)
(* has called return.                                                       *)
(***************************************************************************)
EXTENDS LinkMemory, FiniteSetTheorems, SequenceTheorems, NaturalsInduction, TLAPS

----------------------------------------------------------------------------
(***************************************************************************)
(* Who has a place: a node, a subpage, the n-th relocation block that was   *)
(* made, and the block that LAlloc has just returned.                       *)
(***************************************************************************)
NodeNo(k)   == [kind |-> "node", no |-> k, sub |-> 0]
HugeNo(p, s) == [kind |-> "huge", no |-> p, sub |-> s]
RelocNo(n)  == [kind |-> "reloc", no |-> n, sub |-> 0]
NewBlock    == [kind |-> "new", no |-> 0, sub |-> 0]
Owners      == [kind : {"node", "huge", "reloc", "new"}, no : Nat, sub : Nat]

RelocAt(n) == relocs[Len(relocs) + 1 - n]

HasPlace(o) ==
    \/ o.kind = "node" /\ o.sub = 0 /\ o.no \in 1..Len(SegTab) /\ SegTab[o.no].loc # 0
    \/ /\ o.kind = "huge" /\ o.no \in 1..Len(HugeTab)
       /\ o.sub \in 1..Len(HugeTab[o.no].page) /\ HugeTab[o.no].page[o.sub] # 0
    \/ o.kind = "reloc" /\ o.sub = 0 /\ o.no \in 1..Len(relocs)
    \/ o.kind = "new" /\ o.sub = 0 /\ o.no = 0 /\ ret # 0

InRam(b, n)  == [where |-> "ram", loc |-> b, size |-> n]
InFile(a, n) == [where |-> "file", loc |-> a, size |-> n]

PlaceOf(o) ==
    CASE o.kind = "node" ->
           IF SegTab[o.no].inmem \/ o.no \in Leaving
           THEN InRam(SegTab[o.no].loc, SegTab[o.no].size)
           ELSE InFile(SegTab[o.no].loc, SegTab[o.no].size)
      [] o.kind = "huge" ->
           IF o.sub > HugeTab[o.no].numswapped
           THEN InRam(HugeTab[o.no].page[o.sub], SubSize(o.no, o.sub))
           ELSE InFile(HugeTab[o.no].page[o.sub], SubSize(o.no, o.sub))
      [] o.kind = "reloc" ->
           IF RelocAt(o.no).spilled THEN InFile(RelocAt(o.no).loc, RelocCells)
                                    ELSE InRam(RelocAt(o.no).loc, RelocCells)
      [] o.kind = "new" -> InRam(ret, Len(ram[ret]))

Places == [o \in {o \in Owners : HasPlace(o)} |-> PlaceOf(o)]

(***************************************************************************)
(* Places P in the heap's blocks r and the spill file f: every owner in RAM *)
(* has a block of its own, of its size, and no block is without owner; the  *)
(* areas of the file do not meet.                                           *)
(***************************************************************************)
PlaceSet == [where : {"ram", "file"}, loc : Nat, size : Nat \ {0}]

Apart(x, y) == x.loc + x.size <= y.loc \/ y.loc + y.size <= x.loc

Typed(P, r, f) ==
    P \in [DOMAIN P -> PlaceSet] /\ r \in [DOMAIN r -> Seq(Int)] /\ f \in Seq(Int)
Housed(P, r) ==
    \A o \in DOMAIN P : P[o].where = "ram" =>
       P[o].loc \in DOMAIN r /\ Len(r[P[o].loc]) = P[o].size
Alone(P) ==
    \A o, q \in DOMAIN P : o # q /\ P[o].where = "ram" /\ P[q].where = "ram"
       => P[o].loc # P[q].loc
NoLeak(P, r) ==
    \A b \in DOMAIN r : \E o \in DOMAIN P : P[o].where = "ram" /\ P[o].loc = b
Inside(P, f) ==
    \A o \in DOMAIN P : P[o].where = "file" =>
       /\ P[o].loc >= 1 /\ (P[o].loc - 1) % SectorCells = 0
       /\ P[o].loc + P[o].size - 1 <= Len(f)
FileApart(P) ==
    \A o, q \in DOMAIN P : o # q /\ P[o].where = "file" /\ P[q].where = "file"
       => Apart(P[o], P[q])
Memory(P, r, f) ==
    /\ Typed(P, r, f) /\ Housed(P, r) /\ Alone(P) /\ NoLeak(P, r)
    /\ Inside(P, f) /\ FileApart(P)

(* The j-th cell of o. *)
Value(P, r, f, o, j) ==
    IF P[o].where = "ram" THEN r[P[o].loc][j] ELSE f[P[o].loc + j - 1]

(* Every owner in S has the same cells in both. *)
SameValues(S, P, r, f, Q, s, g) ==
    \A o \in S : /\ P[o].size = Q[o].size
                 /\ \A j \in 1..P[o].size : Value(Q, s, g, o, j) = Value(P, r, f, o, j)

With(f, x, v) == [y \in DOMAIN f \union {x} |-> IF y = x THEN v ELSE f[y]]

----------------------------------------------------------------------------
(***************************************************************************)
(* Facts about numbers, functions and the spill file.                       *)
(***************************************************************************)
LEMMA WithIs ==
    ASSUME NEW f, NEW x, NEW v
    PROVE  /\ DOMAIN With(f, x, v) = DOMAIN f \union {x}
           /\ With(f, x, v)[x] = v
           /\ \A y \in DOMAIN f \ {x} : With(f, x, v)[y] = f[y]
BY DEF With

LEMMA ExceptIs ==
    ASSUME NEW f, f = [y \in DOMAIN f |-> f[y]], NEW x \in DOMAIN f, NEW v
    PROVE  [f EXCEPT ![x] = v] = With(f, x, v)
BY DEF With

LEMMA WithoutIs ==
    ASSUME NEW f, NEW x
    PROVE  /\ DOMAIN Without(f, x) = DOMAIN f \ {x}
           /\ \A y \in DOMAIN f \ {x} : Without(f, x)[y] = f[y]
BY DEF Without

LEMMA DivMod ==
    ASSUME NEW a \in Nat, NEW d \in Nat \ {0}
    PROVE  /\ a \div d \in Nat /\ a % d \in 0..(d - 1)
           /\ a = d * (a \div d) + (a % d)
BY SMT

LEMMA DivModUnique ==
    ASSUME NEW d \in Nat \ {0}, NEW q \in Nat, NEW r \in 0..(d - 1)
    PROVE  (d * q + r) \div d = q /\ (d * q + r) % d = r
BY SMT

(* The j-th cell of what begins at base, as a place and as one of m cells   *)
(* written from offset off on.                                              *)
LEMMA CellNo ==
    ASSUME NEW base \in Nat \ {0}, NEW n \in Nat, NEW j \in 1..n,
           NEW len \in Nat, base + n - 1 <= len, NEW off \in Nat, NEW m \in Nat
    PROVE  LET i == base + j - 1
           IN  /\ i \in 1..len
               /\ i - base - off \in 0..(m - 1) <=> j - off \in 1..m
               /\ i - base - off + 1 = j - off
OBVIOUS

(* An area starts on a sector, behind everything before. *)
LEMMA PaddedIs ==
    ASSUME NEW n \in Nat
    PROVE  Padded(n) \in Nat /\ n <= Padded(n) /\ Padded(n) % SectorCells = 0
<1> DEFINE m == n + SectorCells - 1
           q == m \div SectorCells
<1>1. SectorCells \in Nat \ {0} /\ m \in Nat
  BY SizesAssumption
<1>2. q \in Nat /\ m % SectorCells \in 0..(SectorCells - 1) /\ m = SectorCells * q + (m % SectorCells)
  BY <1>1, DivMod
<1>3. Padded(n) = SectorCells * q
  BY <1>1, <1>2 DEF Padded
<1>4. (SectorCells * q) % SectorCells = 0
  <2>1. 0 \in 0..(SectorCells - 1) /\ q \in Nat
    BY <1>1, <1>2
  <2> HIDE DEF q
  <2>2. (SectorCells * q + 0) % SectorCells = 0
    BY <1>1, <2>1, DivModUnique
  <2> QED
    BY <1>1, <2>1, <2>2
<1>5. SectorCells * q \in Nat
  BY <1>1, <1>2
<1>6. n <= SectorCells * q
  <2> HIDE DEF q
  <2> QED BY <1>1, <1>2, <1>5
<1> QED
  BY <1>3, <1>4, <1>5, <1>6

LEMMA SpilledIs ==
    ASSUME spill \in Seq(Int), NEW n \in Nat \ {0}
    PROVE  /\ Spilled(n) \in Seq(Int)
           /\ Len(Spilled(n)) = SpillBase + n - 1
           /\ SpillBase \in Nat /\ SpillBase > Len(spill)
           /\ (SpillBase - 1) % SectorCells = 0
           /\ \A i \in 1..Len(spill) : Spilled(n)[i] = spill[i]
           /\ \A i \in 1..n : Spilled(n)[SpillBase + i - 1] = Hole
<1>1. Len(spill) \in Nat /\ \A i \in 1..Len(spill) : spill[i] \in Int
  OBVIOUS
<1>2. /\ Padded(Len(spill)) \in Nat /\ Len(spill) <= Padded(Len(spill))
      /\ Padded(Len(spill)) % SectorCells = 0
  BY <1>1, PaddedIs
<1> DEFINE m == Padded(Len(spill))
<1>3. m + n \in Nat /\ Hole \in Int
  BY <1>2 DEF Hole
<1>4. \A i \in 1..(m + n) : (IF i <= Len(spill) THEN spill[i] ELSE Hole) \in Int
  BY <1>1, <1>2, <1>3
<1>5. Spilled(n) = [i \in 1..(m + n) |-> IF i <= Len(spill) THEN spill[i] ELSE Hole]
  BY DEF Spilled
<1> HIDE DEF m
<1>6. Spilled(n) \in Seq(Int) /\ Len(Spilled(n)) = m + n
  BY <1>3, <1>4, <1>5, IsASeq
<1>7. SpillBase = m + 1
  BY DEF SpillBase, m
<1>8. m \in Nat /\ Len(spill) <= m /\ m % SectorCells = 0
  BY <1>2 DEF m
<1>9. SpillBase - 1 = m
  BY <1>7, <1>8
<1> QED
  BY <1>1, <1>3, <1>5, <1>6, <1>7, <1>8, <1>9

WrittenCells(f, base, off, d, g) ==
    \A i \in 1..Len(f) : g[i] = IF i - base - off \in 0..(Len(d) - 1)
                                THEN d[i - base - off + 1] ELSE f[i]

LEMMA WrittenIs ==
    ASSUME NEW f \in Seq(Int), NEW base \in Nat \ {0}, NEW off \in Nat, NEW d \in Seq(Int)
    PROVE  /\ Written(f, base, off, d) \in Seq(Int)
           /\ Len(Written(f, base, off, d)) = Len(f)
           /\ WrittenCells(f, base, off, d, Written(f, base, off, d))
<1>1. /\ Len(f) \in Nat /\ Len(d) \in Nat /\ \A i \in 1..Len(f) : f[i] \in Int
      /\ \A i \in 1..Len(d) : d[i] \in Int
  OBVIOUS
<1>2. \A i \in 1..Len(f) : (IF i - base - off \in 0..(Len(d) - 1)
                            THEN d[i - base - off + 1] ELSE f[i]) \in Int
  <2> SUFFICES ASSUME NEW i \in 1..Len(f), i - base - off \in 0..(Len(d) - 1)
               PROVE  d[i - base - off + 1] \in Int
    BY <1>1
  <2>1. i - base - off + 1 \in 1..Len(d)
    BY <1>1
  <2> QED
    BY <1>1, <2>1
<1>3. Written(f, base, off, d) \in Seq(Int) /\ Len(Written(f, base, off, d)) = Len(f)
  BY <1>1, <1>2, IsASeq DEF Written
<1> QED
  BY <1>3 DEF Written, WrittenCells

----------------------------------------------------------------------------
(***************************************************************************)
(* What happens to places: each lemma says that the places stay in order    *)
(* and which cells keep their value.                                        *)
(***************************************************************************)
(* The cells of o: those of s, those of s as far as s goes, or all of them v. *)
CellsAre(P, r, f, o, s)   == \A j \in 1..P[o].size : Value(P, r, f, o, j) = s[j]
FirstCells(P, r, f, o, s) == \A j \in 1..Len(s) : Value(P, r, f, o, j) = s[j]
CellsAll(P, r, f, o, v)   == \A j \in 1..P[o].size : Value(P, r, f, o, j) = v

(* In the blocks s and the file g they are d from cell off + 1 on, and as    *)
(* before elsewhere.                                                        *)
CellsPut(P, r, f, o, off, d, s, g) ==
    \A j \in 1..P[o].size : Value(P, s, g, o, j) =
       IF j - off \in 1..Len(d) THEN d[j - off] ELSE Value(P, r, f, o, j)

(* malloc gives o a block. *)
LEMMA PlaceInRam ==
    ASSUME NEW P, NEW r, NEW f, Memory(P, r, f),
           NEW o, o \notin DOMAIN P, NEW b \in Nat, b \notin DOMAIN r,
           NEW s \in Seq(Int), s # <<>>,
           NEW Q, Q = With(P, o, InRam(b, Len(s))), NEW t, t = With(r, b, s)
    PROVE  /\ Memory(Q, t, f) /\ SameValues(DOMAIN P, P, r, f, Q, t, f)
           /\ \A j \in 1..Len(s) : Value(Q, t, f, o, j) = s[j]
<1>1. /\ DOMAIN Q = DOMAIN P \union {o} /\ Q[o] = InRam(b, Len(s))
      /\ \A q \in DOMAIN P : q # o /\ Q[q] = P[q]
      /\ Q = [q \in DOMAIN Q |-> Q[q]]
  BY DEF With
<1>2. /\ DOMAIN t = DOMAIN r \union {b} /\ t[b] = s
      /\ \A c \in DOMAIN r : c # b /\ t[c] = r[c]
      /\ t = [c \in DOMAIN t |-> t[c]]
  BY DEF With
<1>3. Len(s) \in Nat \ {0}
  OBVIOUS
<1>4. /\ Q[o].where = "ram" /\ Q[o].loc = b /\ Q[o].size = Len(s) /\ Q[o] \in PlaceSet
  BY <1>1, <1>3 DEF InRam, PlaceSet
<1>5. \A q \in DOMAIN P : P[q] \in PlaceSet
  BY DEF Memory, Typed
<1>6. Typed(Q, t, f)
  BY <1>1, <1>2, <1>4, <1>5 DEF Typed, Memory
<1>7. Housed(Q, t)
  BY <1>1, <1>2, <1>4 DEF Memory, Housed
<1>8. Alone(Q)
  BY <1>1, <1>4 DEF Memory, Alone, Housed
<1>9. NoLeak(Q, t)
  BY <1>1, <1>2, <1>4 DEF Memory, NoLeak
<1>10. Inside(Q, f) /\ FileApart(Q)
  BY <1>1, <1>4 DEF Memory, Inside, FileApart
<1>11. SameValues(DOMAIN P, P, r, f, Q, t, f)
  BY <1>1, <1>2, <1>5 DEF Memory, Housed, SameValues, Value
<1>12. \A j \in 1..Len(s) : Value(Q, t, f, o, j) = s[j]
  BY <1>2, <1>4 DEF Value
<1> QED
  BY <1>6, <1>7, <1>8, <1>9, <1>10, <1>11, <1>12 DEF Memory

(* SpillAlloc gives o an area. *)
LEMMA PlaceInFile ==
    ASSUME NEW P, NEW r, Memory(P, r, spill),
           NEW o, o \notin DOMAIN P, NEW n \in Nat \ {0},
           NEW Q, Q = With(P, o, InFile(SpillBase, n)), NEW g, g = Spilled(n)
    PROVE  /\ Memory(Q, r, g) /\ SameValues(DOMAIN P, P, r, spill, Q, r, g)
           /\ CellsAll(Q, r, g, o, Hole)
<1>1. /\ DOMAIN Q = DOMAIN P \union {o} /\ Q[o] = InFile(SpillBase, n)
      /\ \A q \in DOMAIN P : q # o /\ Q[q] = P[q]
      /\ Q = [q \in DOMAIN Q |-> Q[q]]
  BY DEF With
<1>2. spill \in Seq(Int)
  BY DEF Memory, Typed
<1>3. /\ g \in Seq(Int) /\ Len(g) = SpillBase + n - 1
      /\ SpillBase \in Nat /\ SpillBase > Len(spill) /\ (SpillBase - 1) % SectorCells = 0
      /\ \A i \in 1..Len(spill) : g[i] = spill[i]
      /\ \A i \in 1..n : g[SpillBase + i - 1] = Hole
  BY <1>2, SpilledIs
<1> DEFINE base == SpillBase
<1>4. /\ Q[o].where = "file" /\ Q[o].loc = base /\ Q[o].size = n /\ Q[o] \in PlaceSet
  BY <1>1, <1>3 DEF InFile, PlaceSet
<1>5. Len(spill) \in Nat
  BY <1>2
<1> HIDE DEF base
<1>6. \A q \in DOMAIN P : /\ P[q] \in PlaceSet /\ P[q].loc \in Nat /\ P[q].size \in Nat \ {0}
                         /\ P[q].where \in {"ram", "file"}
  BY DEF Memory, Typed, PlaceSet
<1>7. base \in Nat /\ base > Len(spill) /\ (base - 1) % SectorCells = 0 /\ Len(g) = base + n - 1
  BY <1>3 DEF base
<1>8. Typed(Q, r, g)
  BY <1>1, <1>3, <1>4, <1>6 DEF Typed, Memory
<1>9. Housed(Q, r) /\ Alone(Q) /\ NoLeak(Q, r)
  BY <1>1, <1>4 DEF Memory, Housed, Alone, NoLeak
<1>10. Inside(Q, g)
  BY <1>1, <1>4, <1>5, <1>6, <1>7, SMTT(30) DEF Memory, Inside
<1>11. \A q \in DOMAIN P : P[q].where = "file" => P[q].loc + P[q].size <= base
  BY <1>5, <1>6, <1>7 DEF Memory, Inside
<1>12. FileApart(Q)
  BY <1>1, <1>4, <1>11 DEF Memory, FileApart, Apart
<1>13. SameValues(DOMAIN P, P, r, spill, Q, r, g)
  <2> SUFFICES ASSUME NEW q \in DOMAIN P, NEW j \in 1..P[q].size, P[q].where = "file"
               PROVE  g[P[q].loc + j - 1] = spill[P[q].loc + j - 1]
    BY <1>1, <1>6 DEF SameValues, Value
  <2>1. P[q].loc + j - 1 \in 1..Len(spill)
    BY <1>5, <1>6, SMTT(30) DEF Memory, Inside
  <2> QED
    BY <1>3, <2>1
<1>14. \A j \in 1..n : Value(Q, r, g, o, j) = Hole
  BY <1>3, <1>4 DEF Value, base
<1> QED
  BY <1>4, <1>8, <1>9, <1>10, <1>12, <1>13, <1>14 DEF Memory, CellsAll

(* The block of o goes to the file: what was in it, then free(). *)
InFileNow(P, r, o, d, Q, s, g) ==
    /\ Memory(Q, s, g) /\ SameValues(DOMAIN P \ {o}, P, r, spill, Q, s, g)
    /\ DOMAIN Q = DOMAIN P /\ Q[o].size = P[o].size /\ FirstCells(Q, s, g, o, d)

LEMMA PlaceMoves ==
    ASSUME NEW P, NEW r, Memory(P, r, spill),
           NEW o \in DOMAIN P, P[o].where = "ram", NEW d \in Seq(Int), Len(d) <= P[o].size,
           NEW Q, Q = With(P, o, InFile(SpillBase, P[o].size)),
           NEW s, s = Without(r, P[o].loc),
           NEW g, g = Written(Spilled(P[o].size), SpillBase, 0, d)
    PROVE  InFileNow(P, r, o, d, Q, s, g)
<1> DEFINE base == SpillBase
           n == P[o].size
           h == Spilled(n)
<1>0. /\ g = Written(h, base, 0, d) /\ Q = With(P, o, InFile(base, n))
      /\ n = P[o].size /\ Len(d) <= n
  OBVIOUS
<1>1. spill \in Seq(Int) /\ Len(spill) \in Nat
  BY DEF Memory, Typed
<1>2. \A q \in DOMAIN P : /\ P[q] \in PlaceSet /\ P[q].loc \in Nat /\ P[q].size \in Nat \ {0}
                         /\ P[q].where \in {"ram", "file"}
  BY DEF Memory, Typed, PlaceSet
<1>3. n \in Nat \ {0}
  BY <1>2
<1>4. /\ h \in Seq(Int) /\ Len(h) = base + n - 1
      /\ base \in Nat /\ base > Len(spill) /\ (base - 1) % SectorCells = 0
      /\ \A i \in 1..Len(spill) : h[i] = spill[i]
  BY <1>1, <1>3, SpilledIs
<1> HIDE DEF base, h, n
<1>5. base \in Nat \ {0} /\ 0 \in Nat
  BY <1>1, <1>4
<1>6. /\ g \in Seq(Int) /\ Len(g) = Len(h)
      /\ \A i \in 1..Len(h) : g[i] = IF i - base - 0 \in 0..(Len(d) - 1)
                                    THEN d[i - base - 0 + 1] ELSE h[i]
  <2>1. h \in Seq(Int) /\ d \in Seq(Int)
    BY <1>4
  <2>2. base \in Nat \ {0} /\ 0 \in Nat /\ g = Written(h, base, 0, d)
    BY <1>0, <1>5
  <2>3. g \in Seq(Int) /\ Len(g) = Len(h) /\ WrittenCells(h, base, 0, d, g)
    <3>1. /\ Written(h, base, 0, d) \in Seq(Int) /\ Len(Written(h, base, 0, d)) = Len(h)
          /\ WrittenCells(h, base, 0, d, Written(h, base, 0, d))
      BY <2>1, <2>2, WrittenIs
    <3> QED
      BY <2>2, <3>1
  <2> QED
    BY <2>3 DEF WrittenCells
<1>7. /\ DOMAIN Q = DOMAIN P /\ Q = [q \in DOMAIN Q |-> Q[q]] /\ Q[o] = InFile(base, n)
      /\ \A q \in DOMAIN P \ {o} : Q[q] = P[q]
  BY <1>0 DEF Memory, Typed, With
<1>8. /\ DOMAIN s = DOMAIN r \ {P[o].loc} /\ s = [c \in DOMAIN s |-> s[c]]
      /\ \A c \in DOMAIN s : s[c] = r[c]
  BY DEF Without
<1>9. /\ Q[o].where = "file" /\ Q[o].loc = base /\ Q[o].size = n /\ Q[o] \in PlaceSet
  BY <1>3, <1>4, <1>7 DEF InFile, PlaceSet
<1>10. Typed(Q, s, g)
  BY <1>2, <1>6, <1>7, <1>8, <1>9, ZenonT(40) DEF Typed, Memory
<1>11. Housed(Q, s) /\ Alone(Q) /\ NoLeak(Q, s)
  <2>1. \A q \in DOMAIN Q : Q[q].where = "ram" => q # o
    BY <1>9
  <2>2. Housed(Q, s)
    BY <1>7, <1>8, <2>1 DEF Memory, Housed, Alone
  <2>3. Alone(Q)
    BY <1>7, <2>1 DEF Memory, Alone
  <2>4. NoLeak(Q, s)
    BY <1>7, <1>8, <2>1 DEF Memory, NoLeak
  <2> QED
    BY <2>2, <2>3, <2>4
<1>12. Inside(Q, g)
  <2>1. Len(spill) <= Len(g) /\ Len(g) = base + n - 1 /\ base >= 1
    BY <1>1, <1>3, <1>4, <1>5, <1>6
  <2>2. Len(g) \in Nat
    BY <1>6
  <2>3. ASSUME NEW q \in DOMAIN P, q # o, P[q].where = "file"
        PROVE  /\ Q[q].loc >= 1 /\ (Q[q].loc - 1) % SectorCells = 0
               /\ Q[q].loc + Q[q].size - 1 <= Len(g)
    <3> DEFINE e == P[q].loc + P[q].size - 1
    <3>1. e \in Int /\ e <= Len(spill)
      BY <1>2, <2>3 DEF Memory, Inside
    <3> HIDE DEF e
    <3>2. e <= Len(g)
      BY <1>1, <2>1, <2>2, <3>1
    <3> QED
      BY <1>7, <2>3, <3>2 DEF Memory, Inside, e
  <2>4. base >= 1 /\ (base - 1) % SectorCells = 0 /\ base + n - 1 <= Len(g)
    BY <1>3, <1>4, <1>5, <2>1
  <2>5. ASSUME NEW q \in DOMAIN Q, Q[q].where = "file"
        PROVE  /\ Q[q].loc >= 1 /\ (Q[q].loc - 1) % SectorCells = 0
               /\ Q[q].loc + Q[q].size - 1 <= Len(g)
    <3>1. CASE q = o
      BY <1>9, <2>4, <3>1
    <3>2. CASE q # o
      <4>1. q \in DOMAIN P /\ P[q].where = "file"
        BY <1>7, <2>5, <3>2
      <4> QED
        BY <2>3, <3>2, <4>1
    <3> QED
      BY <3>1, <3>2
  <2> QED
    BY <2>5 DEF Inside
<1>13. \A q \in DOMAIN P : P[q].where = "file" => P[q].loc + P[q].size <= base
  BY <1>1, <1>2, <1>4, SMTT(30) DEF Memory, Inside
<1>14. FileApart(Q)
  BY <1>7, <1>9, <1>13, SMTT(30) DEF Memory, FileApart, Apart
<1>15. SameValues(DOMAIN P \ {o}, P, r, spill, Q, s, g)
  <2>1. ASSUME NEW q \in DOMAIN P \ {o}, NEW j \in 1..P[q].size, P[q].where = "file"
        PROVE  g[P[q].loc + j - 1] = spill[P[q].loc + j - 1]
    <3> DEFINE i == P[q].loc + j - 1
    <3>1. i \in 1..Len(spill) /\ i < base /\ i \in 1..Len(h)
      <4> DEFINE at == P[q].loc
                 m == P[q].size
      <4>1. at >= 1 /\ at + m - 1 <= Len(spill) /\ at \in Nat /\ m \in Nat /\ j \in 1..m
        BY <1>2, <2>1 DEF Memory, Inside
      <4> HIDE DEF at, m
      <4>2. at + j - 1 \in 1..Len(spill)
        BY <1>1, <4>1, SMTT(30)
      <4>3. i \in 1..Len(spill)
        BY <4>2 DEF at
      <4> HIDE DEF i
      <4> QED
        BY <1>1, <1>3, <1>4, <1>5, <4>3
    <3> HIDE DEF i
    <3>2. ~(i - base - 0 \in 0..(Len(d) - 1))
      BY <1>1, <1>4, <3>1
    <3>3. g[i] = h[i] /\ h[i] = spill[i]
      BY <1>4, <1>6, <3>1, <3>2
    <3> QED
      BY <3>3 DEF i
  <2>2. ASSUME NEW q \in DOMAIN P \ {o}, P[q].where = "ram" PROVE P[q].loc \in DOMAIN s
    BY <1>8, <2>2 DEF Memory, Housed, Alone
  <2> QED
    BY <1>2, <1>7, <1>8, <2>1, <2>2 DEF SameValues, Value
<1>16. \A j \in 1..Len(d) : Value(Q, s, g, o, j) = d[j]
  <2> SUFFICES ASSUME NEW j \in 1..Len(d) PROVE g[base + j - 1] = d[j]
    BY <1>9 DEF Value
  <2> DEFINE i == base + j - 1
  <2>1. Len(d) \in Nat /\ Len(d) <= n
    BY <1>0
  <2>2. i \in 1..Len(h) /\ i - base - 0 \in 0..(Len(d) - 1) /\ i - base - 0 + 1 = j
    <3>1. Len(h) \in Nat /\ base + Len(d) - 1 <= Len(h)
      BY <1>3, <1>4, <1>5, <2>1
    <3>2. base \in Nat \ {0} /\ Len(d) \in Nat /\ j \in 1..Len(d)
      BY <1>5, <2>1
    <3>3. \A x \in Nat, y \in Nat \ {0}, z \in Nat : \A l \in 1..z : y + z - 1 <= x =>
             y + l - 1 \in 1..x /\ y + l - 1 - y - 0 \in 0..(z - 1) /\ y + l - 1 - y - 0 + 1 = l
      OBVIOUS
    <3> QED
      BY <3>1, <3>2, <3>3
  <2> HIDE DEF i
  <2>3. g[i] = d[j]
    BY <1>6, <2>2
  <2> QED
    BY <2>3 DEF i
<1> QED
  BY <1>7, <1>9, <1>10, <1>11, <1>12, <1>14, <1>15, <1>16 DEF InFileNow, Memory, FirstCells, n

SameCells(P, o, Q, q, r, f) ==
    \A j \in 1..P[o].size : Value(Q, r, f, q, j) = Value(P, r, f, o, j)

(* The place of o becomes that of q. *)
LEMMA PlaceRenamed ==
    ASSUME NEW P, NEW r, NEW f, Memory(P, r, f),
           NEW o \in DOMAIN P, NEW q, q \notin DOMAIN P,
           NEW Q, Q = With(Without(P, o), q, P[o])
    PROVE  /\ Memory(Q, r, f) /\ SameValues(DOMAIN P \ {o}, P, r, f, Q, r, f)
           /\ Q[q].size = P[o].size /\ SameCells(P, o, Q, q, r, f)
<1>1. /\ DOMAIN Q = (DOMAIN P \ {o}) \union {q} /\ Q[q] = P[o]
      /\ \A x \in DOMAIN P \ {o} : x # q /\ Q[x] = P[x]
      /\ Q = [x \in DOMAIN Q |-> Q[x]]
  BY DEF With, Without
<1>2. Typed(Q, r, f)
  BY <1>1 DEF Memory, Typed
<1>3. Housed(Q, r) /\ NoLeak(Q, r) /\ Inside(Q, f)
  BY <1>1 DEF Memory, Housed, NoLeak, Inside
<1>4. Alone(Q)
  BY <1>1 DEF Memory, Alone
<1>5. FileApart(Q)
  BY <1>1 DEF Memory, FileApart, Apart
<1> QED
  BY <1>1, <1>2, <1>3, <1>4, <1>5 DEF Memory, SameValues, Value, SameCells

(* The cells of o's block are written ... *)
LEMMA WriteInRam ==
    ASSUME NEW P, NEW r, NEW f, Memory(P, r, f),
           NEW o \in DOMAIN P, P[o].where = "ram",
           NEW s \in Seq(Int), Len(s) = P[o].size, NEW t, t = With(r, P[o].loc, s)
    PROVE  /\ Memory(P, t, f) /\ SameValues(DOMAIN P \ {o}, P, r, f, P, t, f)
           /\ CellsAre(P, t, f, o, s)
<1>1. /\ DOMAIN t = DOMAIN r /\ t = [b \in DOMAIN t |-> t[b]] /\ P[o].loc \in DOMAIN r
      /\ t[P[o].loc] = s /\ \A b \in DOMAIN r \ {P[o].loc} : t[b] = r[b]
  BY DEF Memory, Typed, Housed, With
<1>2. Typed(P, t, f)
  BY <1>1 DEF Memory, Typed
<1>3. Housed(P, t) /\ NoLeak(P, t)
  BY <1>1 DEF Memory, Housed, NoLeak
<1>4. SameValues(DOMAIN P \ {o}, P, r, f, P, t, f)
  BY <1>1 DEF Memory, Housed, Alone, SameValues, Value
<1> QED
  BY <1>1, <1>2, <1>3, <1>4 DEF Memory, Value, CellsAre

(* ... or those of its area, from cell off + 1 on. *)
LEMMA WriteInFile ==
    ASSUME NEW P, NEW r, NEW f, Memory(P, r, f),
           NEW o \in DOMAIN P, P[o].where = "file",
           NEW off \in Nat, NEW d \in Seq(Int), off + Len(d) <= P[o].size,
           NEW g, g = Written(f, P[o].loc, off, d)
    PROVE  /\ Memory(P, r, g) /\ SameValues(DOMAIN P \ {o}, P, r, f, P, r, g)
           /\ CellsPut(P, r, f, o, off, d, r, g)
<1> DEFINE base == P[o].loc
<1>0. g = Written(f, base, off, d)
  OBVIOUS
<1>1. f \in Seq(Int) /\ Len(f) \in Nat /\ Len(d) \in Nat
  BY DEF Memory, Typed
<1>2. \A q \in DOMAIN P : /\ P[q] \in PlaceSet /\ P[q].loc \in Nat /\ P[q].size \in Nat \ {0}
                         /\ P[q].where \in {"ram", "file"}
  BY DEF Memory, Typed, PlaceSet
<1>3. base \in Nat \ {0} /\ base + P[o].size - 1 <= Len(f)
  BY <1>2 DEF Memory, Inside
<1> HIDE DEF base
<1>4. /\ g \in Seq(Int) /\ Len(g) = Len(f)
      /\ \A i \in 1..Len(f) : g[i] = IF i - base - off \in 0..(Len(d) - 1)
                                    THEN d[i - base - off + 1] ELSE f[i]
  <2>1. f \in Seq(Int) /\ d \in Seq(Int)
    BY <1>1
  <2>2. base \in Nat \ {0} /\ off \in Nat /\ g = Written(f, base, off, d)
    BY <1>0, <1>3
  <2>3. g \in Seq(Int) /\ Len(g) = Len(f) /\ WrittenCells(f, base, off, d, g)
    <3>1. /\ Written(f, base, off, d) \in Seq(Int) /\ Len(Written(f, base, off, d)) = Len(f)
          /\ WrittenCells(f, base, off, d, Written(f, base, off, d))
      BY <2>1, <2>2, WrittenIs
    <3> QED
      BY <2>2, <3>1
  <2> QED
    BY <2>3 DEF WrittenCells
<1>5. Typed(P, r, g) /\ Inside(P, g)
  BY <1>4 DEF Memory, Typed, Inside
<1>6. \A j \in 1..P[o].size :
         Value(P, r, g, o, j) = IF j - off \in 1..Len(d) THEN d[j - off]
                                ELSE Value(P, r, f, o, j)
  <2> SUFFICES ASSUME NEW j \in 1..P[o].size
               PROVE  g[base + j - 1] = IF j - off \in 1..Len(d) THEN d[j - off]
                                        ELSE f[base + j - 1]
    BY DEF Value, base
  <2> DEFINE i == base + j - 1
             n == P[o].size
  <2>1. n \in Nat /\ base \in Nat \ {0} /\ base + n - 1 <= Len(f) /\ j \in 1..n
        /\ off + Len(d) <= n
    BY <1>2, <1>3
  <2> HIDE DEF n
  <2>2. /\ i \in 1..Len(f) /\ (i - base - off \in 0..(Len(d) - 1) <=> j - off \in 1..Len(d))
        /\ i - base - off + 1 = j - off
    BY <1>1, <2>1, CellNo
  <2> HIDE DEF i
  <2>3. g[i] = IF j - off \in 1..Len(d) THEN d[j - off] ELSE f[i]
    BY <1>4, <2>2
  <2> QED
    BY <2>3 DEF i
<1>7. SameValues(DOMAIN P \ {o}, P, r, f, P, r, g)
  <2> SUFFICES ASSUME NEW q \in DOMAIN P \ {o}, NEW j \in 1..P[q].size, P[q].where = "file"
               PROVE  g[P[q].loc + j - 1] = f[P[q].loc + j - 1]
    BY <1>2 DEF SameValues, Value
  <2> DEFINE i == P[q].loc + j - 1
             n == P[o].size
             m == P[q].size
             at == P[q].loc
  <2>1. /\ n \in Nat /\ m \in Nat /\ at \in Nat /\ at >= 1 /\ at + m - 1 <= Len(f)
        /\ (base + n <= at \/ at + m <= base) /\ off + Len(d) <= n
    BY <1>2 DEF Memory, Inside, FileApart, Apart, base
  <2>2. off + Len(d) <= n /\ j \in 1..m /\ i = at + j - 1
    OBVIOUS
  <2> HIDE DEF n, m, at, i
  <2>3. i \in 1..Len(f) /\ ~(i - base - off \in 0..(Len(d) - 1))
    BY <1>1, <1>3, <2>1, <2>2
  <2>4. g[i] = f[i]
    BY <1>4, <2>3
  <2> QED
    BY <2>4 DEF i
<1> QED
  BY <1>5, <1>6, <1>7 DEF Memory, CellsPut

----------------------------------------------------------------------------
(***************************************************************************)
(* The inductive invariant.                                                 *)
(***************************************************************************)
Frames ==
    [fn : {"ScanNodes"}, op : {"PutInfo", "PutNulls", "ReadInfo", "CompareInfo"},
     addr : Nat, len : Nat, got : Seq(Int \union BOOLEAN)]
      \union [fn : {"AllocNode"}, node : Nat]
      \union [fn : {"AllocHugeNode"}, page : Nat, index : Nat, nomem : BOOLEAN]
      \union [fn : {"AllocRelocInfo"}]
      \union [fn : {"LAlloc"}, size : Nat \ {0}, use : {"page", "name", "other"}]
      \union [fn : {"SwapOutVirt"}, node : Nat]
      \union [fn : {"SpillRelocList"}, block : Nat]

(* The active functions, from the outermost on. *)
At(s, d) == s[Len(s) + 1 - d]
Depth    == Len(stack)
Frame(d) == At(stack, d)

CellsIn(r) == UNION {{b} \X (1..Len(r[b])) : b \in DOMAIN r}

Kinds ==
    /\ stack \in Seq(Frames)
    /\ Len(SegTab) <= MaxNodes /\ Len(HugeTab) <= MaxHuge /\ Len(relocs) <= MaxRelocs
    /\ ram = [b \in DOMAIN ram |-> ram[b]] /\ DOMAIN ram \subseteq Nat \ {0}
    /\ IsFiniteSet(DOMAIN ram) /\ IsFiniteSet(CellsIn(ram))

(* What has been handed out is there. *)
Covered(a) ==
    IF IsHuge(a)
    THEN /\ BigNode(a) \in 1..Len(HugeTab)
         /\ Subpage(a) \in 1..HugeTab[BigNode(a)].numthere
         /\ Off(a) < SubSize(BigNode(a), Subpage(a))
    ELSE Node(a) \in 1..Len(SegTab) /\ Off(a) < SegTab[Node(a)].size

Storage ==
    /\ \A b \in owned : \A a \in b.addr..(b.addr + b.len - 1) : a \in Addr /\ Covered(a)
    /\ tiny.left > 0 => \E k \in 1..Len(SegTab) :
          /\ SegTab[k].size = NodeCells
          /\ k * NodeCells <= tiny.addr /\ tiny.addr + tiny.left = (k + 1) * NodeCells

(* Who calls whom, and what it finds when it goes on. *)
Askers == {"AllocNode", "AllocHugeNode", "AllocRelocInfo"}
Movers == {"SwapOutVirt", "SpillRelocList"}
Under(d, fns) == d > 1 /\ Frame(d - 1).fn \in fns

NeededBy(f) ==
    CASE f.fn = "AllocNode" -> SegTab[f.node].size
      [] f.fn = "AllocHugeNode" -> SubSize(f.page, f.index)
      [] OTHER -> RelocCells

Scanning(d) ==
    Frame(d).fn = "ScanNodes" =>
      /\ d = 1
      /\ \E b \in owned : /\ b.addr <= Frame(d).addr
                          /\ Frame(d).addr + Frame(d).len <= b.addr + b.len

AddingNode(d) ==
    Frame(d).fn = "AllocNode" =>
      /\ d = 2 /\ Frame(1).fn = "ScanNodes"
      /\ Frame(d).node \in 1..Len(SegTab) /\ SegTab[Frame(d).node].loc = 0

AddingHuge(d) ==
    Frame(d).fn = "AllocHugeNode" =>
      /\ d = 2 /\ Frame(1).fn = "ScanNodes"
      /\ Frame(d).page \in 1..Len(HugeTab)
      /\ HugeTab[Frame(d).page].page # <<>>
      /\ Frame(d).index \in 1..HugeTab[Frame(d).page].numthere
      /\ Frame(d).nomem => /\ TempFile /\ ret = 0 /\ Depth = 2
                           /\ HugeTab[Frame(d).page].numswapped > Frame(d).index
      /\ ~Frame(d).nomem => HugeTab[Frame(d).page].numswapped = 0

AddingReloc(d) ==
    Frame(d).fn = "AllocRelocInfo" => d = 1 /\ RelocLeft = 0 /\ Len(relocs) < MaxRelocs

Asking(d) ==
    Frame(d).fn = "LAlloc" =>
      /\ ret = 0
      /\ Frame(d).use = "other" => d = 1 /\ other + Frame(d).size <= MaxOther
      /\ Frame(d).use = "page" => Under(d, Askers) /\ Frame(d).size = NeededBy(Frame(d - 1))
      /\ Frame(d).use = "name" =>
           /\ Under(d, Askers \union Movers) /\ Frame(d).size = NameCells /\ ~TempFile
           /\ d < Depth => cache = 0 /\ room < NameCells

SwappingNode(d) ==
    Frame(d).fn = "SwapOutVirt" =>
      /\ Under(d, {"LAlloc"})
      /\ Frame(d).node \in 1..Len(SegTab)
      /\ SegTab[Frame(d).node].loc # 0 /\ ~SegTab[Frame(d).node].inmem

SpillingReloc(d) ==
    Frame(d).fn = "SpillRelocList" =>
      /\ Under(d, {"LAlloc"})
      /\ Frame(d).block \in 1..Len(relocs) /\ ~relocs[Frame(d).block].spilled

InPlace(d) ==
    /\ Scanning(d) /\ AddingNode(d) /\ AddingHuge(d) /\ AddingReloc(d)
    /\ Asking(d) /\ SwappingNode(d) /\ SpillingReloc(d)

Distinct ==
    \A d, e \in 1..Depth :
       Frame(d).fn = "SwapOutVirt" /\ Frame(e).fn = "SwapOutVirt"
         /\ Frame(d).node = Frame(e).node => d = e

(* The block that LAlloc returned to the function on top. *)
InHand ==
    ret # 0 => /\ Depth > 0 /\ Frame(Depth).fn \in Askers
               /\ ret \in DOMAIN ram /\ Len(ram[ret]) = NeededBy(Frame(Depth))

Calls ==
    /\ \A d \in 1..Depth : InPlace(d)
    /\ Distinct /\ InHand

(* The subpages that AllocHugeNode has not come to, and no others, are      *)
(* without a place.                                                         *)
Unplaced(p, s) ==
    \E d \in 1..Depth : /\ Frame(d).fn = "AllocHugeNode" /\ Frame(d).page = p
                        /\ s <= Frame(d).index
HugePages ==
    \A p \in 1..Len(HugeTab) :
       /\ HugeTab[p].page = <<>> => HugeTab[p].numswapped = 0
       /\ \A s \in 1..Len(HugeTab[p].page) :
            HugeTab[p].page[s] = 0 <=> Unplaced(p, s)

SwapList ==
    /\ \A i \in 1..Len(NextSwap) : SegTab[NextSwap[i]].loc # 0
    /\ \A k \in 1..Len(SegTab) : SegTab[k].inmem => SegTab[k].loc # 0
    /\ SwapListExact

Accounted ==
    room + cache + other + (IF TempFile THEN NameCells ELSE 0) + Cardinality(CellsIn(ram))
      = HeapCells

RelocValues ==
    \A n \in 1..Len(relocs) : \A j \in 1..(RelocCells - RelocAt(n).left) :
       Value(Places, ram, spill, RelocNo(n), j) = Item((n - 1) * RelocCells + j - 1)

(* LAlloc zeroes what malloc gives it. *)
NewIsFresh == ret # 0 => \A j \in 1..Len(ram[ret]) : ram[ret][j] = Fresh

(* What control can say, and what it keeps in order. *)
Control == TypeOK /\ Kinds /\ Storage /\ Calls /\ HugePages /\ SwapList
IInv == /\ Control
        /\ Memory(Places, ram, spill) /\ Accounted /\ RelocValues /\ NewIsFresh

----------------------------------------------------------------------------
(***************************************************************************)
(* The stack: calls and returns do not move the frames below.               *)
(***************************************************************************)
LEMMA OnTop ==
    ASSUME NEW X, NEW s \in Seq(X), NEW f \in X
    PROVE  LET t == <<f>> \o s
           IN  /\ t \in Seq(X) /\ Len(t) = Len(s) + 1 /\ Len(s) \in Nat /\ t # <<>>
               /\ At(t, Len(s) + 1) = f /\ \A d \in 1..Len(s) : At(t, d) = At(s, d)
<1> DEFINE t == <<f>> \o s
<1>1. /\ t \in Seq(X) /\ Len(t) = Len(s) + 1 /\ Len(s) \in Nat
      /\ t[1] = f /\ \A i \in 1..Len(s) : t[i + 1] = s[i]
  <2>1. <<f>> \in Seq(X) /\ Len(<<f>>) = 1 /\ <<f>>[1] = f
    OBVIOUS
  <2>2. /\ t \in Seq(X) /\ Len(t) = 1 + Len(s) /\ Len(s) \in Nat
        /\ \A i \in 1..(1 + Len(s)) : t[i] = IF i <= 1 THEN <<f>>[i] ELSE s[i - 1]
    BY <2>1, ConcatProperties
  <2> QED
    BY <2>1, <2>2
<1> HIDE DEF t
<1>2. \A d \in 1..Len(s) : /\ Len(s) + 1 - d \in 1..Len(s)
                           /\ (Len(s) + 1) + 1 - d = (Len(s) + 1 - d) + 1
  BY <1>1
<1>3. (Len(s) + 1) + 1 - (Len(s) + 1) = 1 /\ t # <<>>
  BY <1>1
<1> QED
  BY <1>1, <1>2, <1>3 DEF At, t

LEMMA PairIs ==
    ASSUME NEW X, NEW f \in X, NEW g \in X
    PROVE  <<f, g>> = <<f>> \o <<g>>
<1>1. /\ <<f>> \in Seq(X) /\ <<g>> \in Seq(X) /\ Len(<<f>>) = 1 /\ Len(<<g>>) = 1
      /\ <<f>>[1] = f /\ <<g>>[1] = g
  OBVIOUS
<1> DEFINE t == <<f>> \o <<g>>
<1>2. /\ t \in Seq(X) /\ Len(t) = 1 + 1
      /\ \A i \in 1..(1 + 1) : t[i] = IF i <= 1 THEN <<f>>[i] ELSE <<g>>[i - 1]
  BY <1>1, ConcatProperties
<1> HIDE DEF t
<1>3. Len(t) = 2 /\ t[1] = f /\ t[2] = g
  BY <1>1, <1>2
<1>4. /\ <<f, g>> \in Seq(X) /\ Len(<<f, g>>) = 2 /\ <<f, g>>[1] = f /\ <<f, g>>[2] = g
  OBVIOUS
<1>5. \A i \in 1..Len(t) : t[i] = <<f, g>>[i]
  BY <1>3, <1>4
<1> QED
  BY <1>2, <1>3, <1>4, <1>5, SeqEqual DEF t

LEMMA Uncovered ==
    ASSUME NEW X, NEW s \in Seq(X), s # <<>>
    PROVE  /\ Tail(s) \in Seq(X) /\ Len(Tail(s)) = Len(s) - 1 /\ Len(s) \in Nat \ {0}
           /\ At(s, Len(s)) = s[1] /\ s[1] \in X
           /\ \A d \in 1..(Len(s) - 1) : At(Tail(s), d) = At(s, d)
<1>1. /\ Tail(s) \in Seq(X) /\ Len(Tail(s)) = Len(s) - 1 /\ Len(s) \in Nat \ {0}
      /\ \A i \in 1..(Len(s) - 1) : Tail(s)[i] = s[i + 1]
  BY HeadTailProperties
<1>2. \A d \in 1..(Len(s) - 1) : /\ (Len(s) - 1) + 1 - d \in 1..(Len(s) - 1)
                                 /\ ((Len(s) - 1) + 1 - d) + 1 = Len(s) + 1 - d
  BY <1>1
<1>3. Len(s) + 1 - Len(s) = 1
  BY <1>1
<1> QED
  BY <1>1, <1>2, <1>3 DEF At

LEMMA FramesAre ==
    ASSUME stack \in Seq(Frames)
    PROVE  Depth \in Nat /\ \A d \in 1..Depth : Frame(d) \in Frames
<1>1. Depth \in Nat /\ \A i \in 1..Depth : stack[i] \in Frames
  BY DEF Depth
<1>2. \A d \in 1..Depth : Depth + 1 - d \in 1..Depth
  BY <1>1
<1> QED
  BY <1>1, <1>2 DEF Frame, Depth, At

LEMMA TopIs ==
    ASSUME stack \in Seq(Frames), stack # <<>>
    PROVE  Depth \in Nat \ {0} /\ Frame(Depth) = Top /\ Top \in Frames
BY Uncovered DEF Depth, Frame, Top

LEMMA OneCalled ==
    ASSUME stack \in Seq(Frames), NEW f \in Frames, stack' = <<f>> \o stack,
           NEW n, n = Depth
    PROVE  /\ stack' \in Seq(Frames) /\ Depth' = n + 1 /\ n \in Nat
           /\ Frame(n + 1)' = f /\ \A d \in 1..n : Frame(d)' = Frame(d)
BY OnTop DEF Depth, Frame

LEMMA TwoCalled ==
    ASSUME stack \in Seq(Frames), NEW f \in Frames, NEW g \in Frames,
           stack' = <<f, g>> \o stack, NEW n, n = Depth
    PROVE  /\ stack' \in Seq(Frames) /\ Depth' = n + 2 /\ n \in Nat
           /\ Frame(n + 2)' = f /\ Frame(n + 1)' = g
           /\ \A d \in 1..n : Frame(d)' = Frame(d)
<1> DEFINE t == <<g>> \o stack
<1>1. /\ t \in Seq(Frames) /\ Len(t) = n + 1 /\ n \in Nat
      /\ At(t, n + 1) = g /\ \A d \in 1..n : At(t, d) = At(stack, d)
  BY OnTop DEF Depth
<1>2. stack' = <<f>> \o t
  <2>1. <<f, g>> = <<f>> \o <<g>>
    BY PairIs
  <2>2. <<f>> \in Seq(Frames) /\ <<g>> \in Seq(Frames)
    OBVIOUS
  <2> QED
    BY <2>1, <2>2, ConcatAssociative
<1> HIDE DEF t
<1>3. /\ stack' \in Seq(Frames) /\ Len(stack') = Len(t) + 1
      /\ At(stack', Len(t) + 1) = f /\ \A d \in 1..Len(t) : At(stack', d) = At(t, d)
  <2> DEFINE w == <<f>> \o t
  <2>1. /\ w \in Seq(Frames) /\ Len(w) = Len(t) + 1
        /\ At(w, Len(t) + 1) = f /\ \A d \in 1..Len(t) : At(w, d) = At(t, d)
    BY <1>1, OnTop
  <2>2. stack' = w
    BY <1>2
  <2> QED
    BY <2>1, <2>2
<1>4. n + 1 \in 1..Len(t) /\ \A d \in 1..n : d \in 1..Len(t)
  BY <1>1
<1>5. Len(t) + 1 = n + 2
  BY <1>1
<1>6. Frame(n + 1)' = g
  BY <1>1, <1>3, <1>4 DEF Frame
<1>7. \A d \in 1..n : Frame(d)' = Frame(d)
  BY <1>1, <1>3, <1>4 DEF Frame
<1> QED
  BY <1>1, <1>3, <1>5, <1>6, <1>7 DEF Depth, Frame

LEMMA Returned ==
    ASSUME stack \in Seq(Frames), stack # <<>>, stack' = Tail(stack), NEW n, n = Depth
    PROVE  /\ stack' \in Seq(Frames) /\ Depth' = n - 1 /\ n \in Nat \ {0}
           /\ \A d \in 1..(n - 1) : Frame(d)' = Frame(d)
BY Uncovered DEF Depth, Frame

LEMMA Replaced ==
    ASSUME stack \in Seq(Frames), stack # <<>>, NEW f \in Frames,
           stack' = <<f>> \o Tail(stack), NEW n, n = Depth
    PROVE  /\ stack' \in Seq(Frames) /\ Depth' = n /\ n \in Nat \ {0}
           /\ Frame(n)' = f /\ \A d \in 1..(n - 1) : Frame(d)' = Frame(d)
<1> DEFINE t == Tail(stack)
<1>1. /\ t \in Seq(Frames) /\ Len(t) = n - 1 /\ n \in Nat \ {0}
      /\ \A d \in 1..(n - 1) : At(t, d) = At(stack, d)
  BY Uncovered DEF Depth
<1> HIDE DEF t
<1>2. /\ stack' \in Seq(Frames) /\ Len(stack') = Len(t) + 1
      /\ At(stack', Len(t) + 1) = f /\ \A d \in 1..Len(t) : At(stack', d) = At(t, d)
  <2> DEFINE w == <<f>> \o t
  <2>1. /\ w \in Seq(Frames) /\ Len(w) = Len(t) + 1
        /\ At(w, Len(t) + 1) = f /\ \A d \in 1..Len(t) : At(w, d) = At(t, d)
    BY <1>1, OnTop
  <2>2. stack' = w
    BY DEF t
  <2> QED
    BY <2>1, <2>2
<1> QED
  BY <1>1, <1>2, SMTT(30) DEF Depth, Frame

LEMMA ReplacedAndCalled ==
    ASSUME stack \in Seq(Frames), stack # <<>>, NEW f \in Frames, NEW g \in Frames,
           stack' = <<f, g>> \o Tail(stack), NEW n, n = Depth
    PROVE  /\ stack' \in Seq(Frames) /\ Depth' = n + 1 /\ n \in Nat \ {0}
           /\ Frame(n + 1)' = f /\ Frame(n)' = g
           /\ \A d \in 1..(n - 1) : Frame(d)' = Frame(d)
<1> DEFINE t == Tail(stack)
           u == <<g>> \o t
<1>1. /\ t \in Seq(Frames) /\ Len(t) = n - 1 /\ n \in Nat \ {0}
      /\ \A d \in 1..(n - 1) : At(t, d) = At(stack, d)
  BY Uncovered DEF Depth
<1>2. stack' = <<f>> \o u
  <2>1. <<f, g>> = <<f>> \o <<g>>
    BY PairIs
  <2>2. <<f>> \in Seq(Frames) /\ <<g>> \in Seq(Frames)
    OBVIOUS
  <2> QED
    BY <1>1, <2>1, <2>2, ConcatAssociative
<1> HIDE DEF t
<1>3. /\ u \in Seq(Frames) /\ Len(u) = n
      /\ At(u, n) = g /\ \A d \in 1..(n - 1) : At(u, d) = At(t, d)
  <2>1. Len(t) + 1 = n
    BY <1>1
  <2> QED
    BY <1>1, <2>1, OnTop
<1> HIDE DEF u
<1>4. /\ stack' \in Seq(Frames) /\ Len(stack') = n + 1
      /\ At(stack', n + 1) = f /\ \A d \in 1..n : At(stack', d) = At(u, d)
  <2> DEFINE w == <<f>> \o u
  <2>1. /\ w \in Seq(Frames) /\ Len(w) = Len(u) + 1
        /\ At(w, Len(u) + 1) = f /\ \A d \in 1..Len(u) : At(w, d) = At(u, d)
    BY <1>3, OnTop
  <2>2. stack' = w
    BY <1>2
  <2> QED
    BY <1>3, <2>1, <2>2
<1>5. n \in 1..n /\ \A d \in 1..(n - 1) : d \in 1..n
  BY <1>1
<1> QED
  BY <1>1, <1>3, <1>4, <1>5 DEF Depth, Frame

----------------------------------------------------------------------------
(***************************************************************************)
(* Addresses.                                                               *)
(***************************************************************************)
Owner(a) == IF IsHuge(a) THEN HugeNo(BigNode(a), Subpage(a)) ELSE NodeNo(Node(a))
Limit(a) == IF IsHuge(a) THEN SubCells ELSE NodeCells

LEMMA Constants ==
    /\ NodeCells \in Nat \ {0} /\ SubCells \in Nat \ {0} /\ Subpages \in Nat \ {0, 1}
    /\ TinyCells \in Nat /\ TinyCells <= NodeCells
    /\ RelocCells \in Nat \ {0} /\ SectorCells \in Nat \ {0} /\ NameCells \in Nat \ {0}
    /\ HeapCells \in Nat /\ CacheBlocks \in Nat /\ CacheBlocks <= HeapCells
    /\ MaxNodes \in Nat /\ MaxHuge \in Nat /\ MaxRelocs \in Nat /\ MaxOther \in Nat
    /\ MaxDepth \in Nat /\ Sizes \subseteq Nat \ {0}
    /\ HugeCells \in Nat \ {0} /\ HugeCells = SubCells * Subpages /\ NodeCells < HugeCells
    /\ HugeBase \in Nat /\ HugeBase = NodeCells * (MaxNodes + 1)
    /\ EndAddr \in Nat /\ EndAddr = HugeBase + HugeCells * MaxHuge
<1>1. /\ NodeCells \in Nat \ {0} /\ SubCells \in Nat \ {0} /\ Subpages \in Nat \ {0, 1}
      /\ TinyCells \in Nat /\ TinyCells <= NodeCells
      /\ RelocCells \in Nat \ {0} /\ SectorCells \in Nat \ {0} /\ NameCells \in Nat \ {0}
      /\ HeapCells \in Nat /\ CacheBlocks \in Nat /\ CacheBlocks <= HeapCells
      /\ MaxNodes \in Nat /\ MaxHuge \in Nat /\ MaxRelocs \in Nat /\ MaxOther \in Nat
      /\ MaxDepth \in Nat /\ Sizes \subseteq Nat \ {0}
      /\ NodeCells < Subpages * SubCells
  BY SizesAssumption
<1>2. /\ Subpages * SubCells \in Nat \ {0} /\ Subpages * SubCells = SubCells * Subpages
  BY <1>1
<1>3. (MaxNodes + 1) * NodeCells \in Nat /\ (MaxNodes + 1) * NodeCells = NodeCells * (MaxNodes + 1)
  BY <1>1
<1>4. HugeCells \in Nat \ {0} /\ HugeCells = SubCells * Subpages /\ NodeCells < HugeCells
  BY <1>1, <1>2 DEF HugeCells
<1>5. HugeBase \in Nat /\ HugeBase = NodeCells * (MaxNodes + 1)
  BY <1>3 DEF HugeBase
<1>6. /\ MaxHuge * HugeCells \in Nat /\ MaxHuge * HugeCells = HugeCells * MaxHuge
  BY <1>1, <1>4
<1>7. EndAddr \in Nat /\ EndAddr = HugeBase + HugeCells * MaxHuge
  BY <1>5, <1>6 DEF EndAddr
<1> QED
  BY <1>1, <1>4, <1>5, <1>7

(* An address in the huge pages, part by part. *)
LEMMA HugeParts ==
    ASSUME NEW q \in Nat, NEW u \in 0..(Subpages - 1), NEW v \in 0..(SubCells - 1)
    PROVE  LET x == HugeCells * q + SubCells * u + v
           IN  /\ x \in Nat /\ x \div HugeCells = q /\ (x % HugeCells) \div SubCells = u
               /\ x % SubCells = v
<1> DEFINE S == SubCells
           H == HugeCells
           r == S * u + v
           x == H * q + S * u + v
<1>1. S \in Nat \ {0} /\ Subpages \in Nat \ {0, 1} /\ H \in Nat \ {0} /\ H = S * Subpages
  BY Constants
<1> HIDE DEF S, H
<1>2. u \in Nat /\ u + 1 <= Subpages /\ v \in Nat /\ v < S
  BY <1>1 DEF S
<1>3. S * (u + 1) <= S * Subpages /\ S * (u + 1) = S * u + S /\ S * u \in Nat
  BY <1>1, <1>2
<1>4. r \in Nat /\ r < H /\ H * q \in Nat /\ x = H * q + r
  BY <1>1, <1>2, <1>3
<1> HIDE DEF r, x
<1>5. x \div H = q /\ x % H = r
  BY <1>1, <1>4, DivModUnique
<1>6. r \div S = u
  BY <1>1, <1>2, DivModUnique DEF r
<1>7. H * q = S * (Subpages * q) /\ Subpages * q \in Nat
  BY <1>1
<1> DEFINE p == Subpages * q
<1> HIDE DEF p
<1>8. S * (p + u) = S * p + S * u /\ p + u \in Nat /\ H * q = S * p /\ S * p \in Nat
  BY <1>1, <1>2, <1>7 DEF p
<1>9. x = S * (p + u) + v
  BY <1>2, <1>3, <1>8, <1>1 DEF x
<1>10. x % S = v
  BY <1>1, <1>2, <1>8, <1>9, DivModUnique
<1>11. x \in Nat
  BY <1>4
<1> QED
  BY <1>5, <1>6, <1>10, <1>11 DEF S, H, x

LEMMA NodeAddress ==
    ASSUME NEW a \in Nat, ~IsHuge(a)
    PROVE  /\ Node(a) \in Nat /\ Off(a) \in 0..(NodeCells - 1)
           /\ a = NodeCells * Node(a) + Off(a)
BY Constants, DivMod DEF Node, Off

LEMMA HugeAddress ==
    ASSUME NEW a \in Nat, IsHuge(a)
    PROVE  /\ BigNode(a) \in Nat \ {0} /\ Subpage(a) \in 1..Subpages
           /\ Off(a) \in 0..(SubCells - 1)
           /\ a = HugeBase + HugeCells * (BigNode(a) - 1) + SubCells * (Subpage(a) - 1) + Off(a)
<1> DEFINE x == a - HugeBase
           q == x \div HugeCells
           r == x % HugeCells
           u == r \div SubCells
           v == r % SubCells
<1>1. /\ x \in Nat /\ HugeBase \in Nat /\ HugeCells \in Nat \ {0} /\ SubCells \in Nat \ {0}
      /\ Subpages \in Nat /\ HugeCells = SubCells * Subpages
  BY Constants DEF IsHuge
<1> HIDE DEF x
<1>2. q \in Nat /\ r \in 0..(HugeCells - 1) /\ x = HugeCells * q + r
  BY <1>1, DivMod
<1>3. r \in Nat
  BY <1>1, <1>2
<1> HIDE DEF r
<1>4. u \in Nat /\ v \in 0..(SubCells - 1) /\ r = SubCells * u + v
  BY <1>1, <1>3, DivMod
<1>5. u < Subpages
  <2> HIDE DEF u, v
  <2>1. SubCells * u < SubCells * Subpages
    BY <1>1, <1>2, <1>3, <1>4
  <2> QED
    BY <1>1, <1>4, <2>1
<1> HIDE DEF q, u, v
<1>6. x = HugeCells * q + SubCells * u + v
  <2>1. HugeCells * q \in Nat /\ SubCells * u \in Nat /\ v \in Nat
    BY <1>1, <1>2, <1>4
  <2> QED
    BY <1>2, <1>4, <2>1
<1>7. u \in 0..(Subpages - 1)
  BY <1>1, <1>4, <1>5
<1>8. x % SubCells = v
  BY <1>2, <1>4, <1>6, <1>7, HugeParts
<1>9. BigNode(a) = q + 1 /\ Subpage(a) = u + 1 /\ Off(a) = v
  BY <1>8 DEF BigNode, Subpage, Off, x, q, u, r
<1>10. a = HugeBase + x
  BY <1>1 DEF x
<1>11. BigNode(a) - 1 = q /\ Subpage(a) - 1 = u
  BY <1>2, <1>4, <1>9
<1>12. a = HugeBase + HugeCells * q + SubCells * u + v
  <2>1. HugeCells * q \in Nat /\ SubCells * u \in Nat /\ v \in Nat
    BY <1>1, <1>2, <1>4
  <2> QED
    BY <1>1, <1>6, <1>10, <2>1
<1> QED
  BY <1>1, <1>2, <1>4, <1>7, <1>9, <1>11, <1>12

(* No two addresses are the same cell of the same owner. *)
LEMMA OneCell ==
    ASSUME NEW a \in Nat, NEW b \in Nat, Owner(a) = Owner(b), Off(a) = Off(b)
    PROVE  a = b
<1>1. IsHuge(a) <=> IsHuge(b)
  BY DEF Owner, HugeNo, NodeNo
<1>2. CASE IsHuge(a)
  <2>1. BigNode(a) = BigNode(b) /\ Subpage(a) = Subpage(b)
    BY <1>1, <1>2 DEF Owner, HugeNo
  <2> QED
    BY <1>1, <1>2, <2>1, HugeAddress
<1>3. CASE ~IsHuge(a)
  <2>1. Node(a) = Node(b)
    BY <1>1, <1>3 DEF Owner, NodeNo
  <2> QED
    BY <1>1, <1>3, <2>1, NodeAddress
<1> QED
  BY <1>2, <1>3

(* The cells that follow, up to the end of the piece. *)
LEMMA NextCells ==
    ASSUME NEW a \in Nat, NEW j \in Nat, Off(a) + j < Limit(a)
    PROVE  /\ Owner(a + j) = Owner(a) /\ Off(a + j) = Off(a) + j
           /\ IsHuge(a + j) <=> IsHuge(a)
<1>1. CASE IsHuge(a)
  <2> DEFINE q == BigNode(a) - 1
             u == Subpage(a) - 1
             v == Off(a)
  <2>1. /\ q \in Nat /\ u \in 0..(Subpages - 1) /\ v \in Nat /\ v + j < SubCells
        /\ a = HugeBase + HugeCells * q + SubCells * u + v
        /\ BigNode(a) = q + 1 /\ Subpage(a) = u + 1
    BY <1>1, HugeAddress, Constants DEF Limit
  <2>2. HugeBase \in Nat /\ HugeCells * q \in Nat /\ SubCells * u \in Nat
    BY <2>1, Constants
  <2> HIDE DEF q, u, v
  <2>3. (a + j) - HugeBase = HugeCells * q + SubCells * u + (v + j)
    BY <2>1, <2>2
  <2>4. v + j \in 0..(SubCells - 1)
    BY <2>1, Constants
  <2> DEFINE x == HugeCells * q + SubCells * u + (v + j)
  <2>5. x \div HugeCells = q /\ (x % HugeCells) \div SubCells = u /\ x % SubCells = v + j
    BY <2>1, <2>4, HugeParts
  <2>6. IsHuge(a + j)
    BY <1>1, Constants DEF IsHuge
  <2> HIDE DEF x
  <2>7. BigNode(a + j) = q + 1 /\ Subpage(a + j) = u + 1 /\ Off(a + j) = v + j
    BY <2>3, <2>5, <2>6 DEF BigNode, Subpage, Off, x
  <2> QED
    BY <1>1, <2>1, <2>6, <2>7 DEF Owner, v
<1>2. CASE ~IsHuge(a)
  <2> DEFINE k == Node(a)
             v == Off(a)
  <2>1. k \in Nat /\ v \in Nat /\ v + j < NodeCells /\ a = NodeCells * k + v
    BY <1>2, NodeAddress, Constants DEF Limit
  <2>2. NodeCells * k \in Nat /\ NodeCells \in Nat \ {0}
    BY <2>1, Constants
  <2> HIDE DEF k, v
  <2>3. a + j = NodeCells * k + (v + j) /\ v + j \in 0..(NodeCells - 1)
    BY <2>1, <2>2
  <2>4. (a + j) \div NodeCells = k /\ (a + j) % NodeCells = v + j
    <3> DEFINE w == v + j
    <3>1. w \in 0..(NodeCells - 1) /\ a + j = NodeCells * k + w
      BY <2>3
    <3> HIDE DEF w
    <3>2. (NodeCells * k + w) \div NodeCells = k /\ (NodeCells * k + w) % NodeCells = w
      BY <2>1, <2>2, <3>1, DivModUnique
    <3> QED
      BY <3>1, <3>2 DEF w
  <2>5. ~IsHuge(a + j)
    <3>1. NodeCells * k < NodeCells * (MaxNodes + 1)
      BY <1>2, <2>1, <2>2, Constants DEF IsHuge
    <3>2. k + 1 <= MaxNodes + 1
      BY <2>1, <2>2, <3>1, Constants
    <3>3. NodeCells * (k + 1) <= NodeCells * (MaxNodes + 1) /\ NodeCells * (k + 1) = NodeCells * k + NodeCells
      BY <2>1, <2>2, <3>2, Constants
    <3> QED
      BY <2>1, <2>2, <2>3, <3>3, Constants DEF IsHuge
  <2> QED
    BY <1>2, <2>4, <2>5 DEF Owner, Node, Off, k, v
<1> QED
  BY <1>1, <1>2

----------------------------------------------------------------------------
(***************************************************************************)
(* What AllocStg makes covers what it hands out.                            *)
(***************************************************************************)
LEMMA PiecesAre ==
    ASSUME NEW size \in Nat \ {0}, NEW limit \in Nat \ {0}
    PROVE  /\ Pieces(size, limit) \in Nat \ {0}
           /\ \A i \in 1..Pieces(size, limit) : PieceSize(size, limit, i) \in 1..limit
           /\ \A j \in 0..(size - 1) :
                /\ j \div limit \in Nat /\ (j \div limit) + 1 \in 1..Pieces(size, limit)
                /\ j % limit < PieceSize(size, limit, (j \div limit) + 1)
<1> DEFINE m == size + limit - 1
           n == m \div limit
<1>1. m \in Nat
  OBVIOUS
<1> HIDE DEF m
<1>2. n \in Nat /\ m = limit * n + (m % limit) /\ m % limit \in 0..(limit - 1)
  BY <1>1, DivMod
<1> DEFINE e == m % limit
<1>3. e \in Nat /\ e < limit /\ m = limit * n + e
  BY <1>2
<1> HIDE DEF n, e
<1>4. limit * n \in Nat /\ limit * n <= size + limit - 1 /\ size <= limit * n
  BY <1>2, <1>3 DEF m
<1>5. n # 0
  BY <1>4
<1>6. limit * (n - 1) = limit * n - limit /\ (n - 1) * limit = limit * (n - 1)
  BY <1>2
<1>7. size - (n - 1) * limit \in 1..limit
  BY <1>2, <1>4, <1>6
<1>8. Pieces(size, limit) = n
  BY DEF Pieces, n, m
<1>9. \A i \in 1..n : PieceSize(size, limit, i) \in 1..limit
  BY <1>2, <1>7, <1>8 DEF PieceSize
<1>10. ASSUME NEW j \in 0..(size - 1)
       PROVE  /\ j \div limit \in Nat /\ (j \div limit) + 1 \in 1..n
              /\ j % limit < PieceSize(size, limit, (j \div limit) + 1)
  <2> DEFINE q == j \div limit
             r == j % limit
  <2>1. q \in Nat /\ r \in 0..(limit - 1) /\ j = limit * q + r
    BY DivMod
  <2> HIDE DEF q, r
  <2>2. q < n
    <3>1. limit * q < limit * n
      BY <1>2, <1>4, <2>1
    <3> QED
      BY <1>2, <2>1, <3>1
  <2>3. q + 1 \in 1..n
    BY <1>2, <2>1, <2>2
  <2>4. CASE q + 1 < n
    BY <1>8, <2>1, <2>3, <2>4 DEF PieceSize
  <2>5. CASE q + 1 = n
    <3>1. PieceSize(size, limit, q + 1) = size - q * limit
      BY <1>8, <2>1, <2>3, <2>5 DEF PieceSize
    <3>2. q * limit = limit * q /\ limit * q \in Nat
      BY <2>1
    <3> QED
      BY <2>1, <2>3, <3>1, <3>2 DEF q, r
  <2> QED
    BY <1>2, <2>1, <2>3, <2>4, <2>5 DEF q, r
<1> QED
  BY <1>2, <1>5, <1>8, <1>9, <1>10

NodeSet == [size : 1..NodeCells, inmem : BOOLEAN, loc : Nat]
HugeSet == [numthere : 1..Subpages, numswapped : 0..Subpages,
            sizelast : 1..SubCells, page : Seq(Nat)]

LEMMA GetStgIs ==
    ASSUME NEW size \in Nat \ {0}
    PROVE  /\ GetStg(size, NodeCells) \in Seq(NodeSet)
           /\ Len(GetStg(size, NodeCells)) = Pieces(size, NodeCells)
           /\ \A i \in 1..Pieces(size, NodeCells) :
                GetStg(size, NodeCells)[i] =
                  [size |-> PieceSize(size, NodeCells, i), inmem |-> FALSE, loc |-> 0]
<1> DEFINE n == Pieces(size, NodeCells)
           P(i) == [size |-> PieceSize(size, NodeCells, i), inmem |-> FALSE, loc |-> 0]
<1>1. NodeCells \in Nat \ {0}
  BY Constants
<1>2. n \in Nat /\ \A i \in 1..n : PieceSize(size, NodeCells, i) \in 1..NodeCells
  BY <1>1, PiecesAre
<1>3. GetStg(size, NodeCells) = [i \in 1..n |-> P(i)]
  BY DEF GetStg
<1> HIDE DEF n
<1>4. \A i \in 1..n : P(i) \in NodeSet
  BY <1>2 DEF NodeSet
<1>5. [i \in 1..n |-> P(i)] \in Seq(NodeSet)
  BY <1>2, <1>4, IsASeq
<1>6. Len([i \in 1..n |-> P(i)]) = n
  BY <1>2
<1> QED
  BY <1>3, <1>5, <1>6 DEF n

(* numthere and sizelast of a huge page of amt cells. *)
LEMMA SubpagesAre ==
    ASSUME NEW amt \in 1..HugeCells
    PROVE  LET whole == amt % SubCells = 0
               there == (amt \div SubCells) + (IF whole THEN 0 ELSE 1)
               last  == IF whole THEN SubCells ELSE amt % SubCells
           IN  /\ there \in 1..Subpages /\ last \in 1..SubCells
               /\ \A r \in 0..(amt - 1) :
                    /\ (r \div SubCells) \in 0..(Subpages - 1)
                    /\ (r \div SubCells) + 1 \in 1..there
                    /\ r % SubCells < IF (r \div SubCells) + 1 = there THEN last ELSE SubCells
<1> DEFINE S == SubCells
           n == amt \div S
           e == amt % S
           whole == e = 0
           there == n + (IF whole THEN 0 ELSE 1)
           last  == IF whole THEN S ELSE e
<1>1. /\ S \in Nat \ {0} /\ Subpages \in Nat \ {0, 1} /\ HugeCells = S * Subpages
      /\ amt \in Nat \ {0} /\ amt <= S * Subpages
  BY Constants
<1> HIDE DEF S
<1>2. n \in Nat /\ e \in 0..(S - 1) /\ amt = S * n + e
  BY <1>1, DivMod
<1> HIDE DEF n, e
<1>3. S * n \in Nat /\ S * n <= S * Subpages /\ (~whole => S * n < S * Subpages)
  BY <1>1, <1>2
<1>4. n <= Subpages /\ (~whole => n < Subpages) /\ (whole => n # 0)
  <2>1. n <= Subpages
    BY <1>1, <1>2, <1>3
  <2>2. ~whole => n < Subpages
    BY <1>1, <1>2, <1>3
  <2>3. whole => n # 0
    BY <1>1, <1>2
  <2> QED
    BY <2>1, <2>2, <2>3
<1>5. there \in 1..Subpages /\ last \in 1..S
  BY <1>1, <1>2, <1>4
<1>6. ASSUME NEW r \in 0..(amt - 1)
      PROVE  /\ (r \div S) \in 0..(Subpages - 1) /\ (r \div S) + 1 \in 1..there
             /\ r % S < IF (r \div S) + 1 = there THEN last ELSE S
  <2> DEFINE u == r \div S
             v == r % S
  <2>1. u \in Nat /\ v \in 0..(S - 1) /\ r = S * u + v
    <3>1. r \in Nat
      BY <1>1
    <3> QED
      BY <1>1, <3>1, DivMod
  <2> HIDE DEF u, v
  <2>2. S * u \in Nat /\ S * u <= r /\ r < S * n + e
    BY <1>1, <1>2, <2>1
  <2>3. u <= n /\ (whole => u < n)
    <3>1. S * u < S * (n + 1) /\ S * (n + 1) = S * n + S
      BY <1>1, <1>2, <2>1, <2>2
    <3>2. whole => S * u < S * n
      BY <1>1, <1>2, <2>1, <2>2
    <3>3. u < n + 1
      BY <1>1, <1>2, <2>1, <3>1
    <3>4. whole => u < n
      BY <1>1, <1>2, <2>1, <3>2
    <3> QED
      BY <1>2, <2>1, <3>3, <3>4
  <2>4. u + 1 \in 1..there
    BY <1>2, <2>1, <2>3
  <2>5. v < IF u + 1 = there THEN last ELSE S
    <3>1. CASE whole
      BY <1>1, <2>1, <3>1
    <3>2. CASE ~whole /\ u + 1 = there
      <4>1. u = n
        BY <1>2, <2>1, <3>2
      <4> QED
        BY <1>2, <2>1, <2>2, <3>2, <4>1
    <3>3. CASE ~whole /\ u + 1 # there
      BY <1>1, <2>1, <3>3
    <3> QED
      BY <3>1, <3>2, <3>3
  <2>6. u \in 0..(Subpages - 1)
    BY <1>1, <1>2, <1>4, <2>1, <2>3
  <2> QED
    BY <2>4, <2>5, <2>6 DEF u, v
<1> QED
  BY <1>5, <1>6 DEF S, n, e

LEMMA GetBigStgIs ==
    ASSUME NEW size \in Nat \ {0}
    PROVE  LET n == Pieces(size, HugeCells)
               H == GetBigStg(size)
           IN  /\ H \in Seq(HugeSet) /\ Len(H) = n
               /\ \A i \in 1..n : H[i].page = <<>> /\ H[i].numswapped = 0
               /\ \A j \in 0..(size - 1) :
                    LET i == (j \div HugeCells) + 1
                        r == j % HugeCells
                        u == r \div SubCells
                    IN  /\ j \div HugeCells \in Nat /\ i \in 1..n
                        /\ u \in 0..(Subpages - 1) /\ u + 1 \in 1..H[i].numthere
                        /\ r % SubCells < IF u + 1 = H[i].numthere THEN H[i].sizelast
                                                                   ELSE SubCells
<1> DEFINE n == Pieces(size, HugeCells)
           H == GetBigStg(size)
           amt(i) == PieceSize(size, HugeCells, i)
           there(a) == (a \div SubCells) + (IF a % SubCells = 0 THEN 0 ELSE 1)
           last(a) == IF a % SubCells = 0 THEN SubCells ELSE a % SubCells
           P(i) == [numthere |-> there(amt(i)), numswapped |-> 0,
                    sizelast |-> last(amt(i)), page |-> <<>>]
<1>1. HugeCells \in Nat \ {0}
  BY Constants
<1>2. /\ n \in Nat /\ \A i \in 1..n : amt(i) \in 1..HugeCells
      /\ \A j \in 0..(size - 1) :
           /\ j \div HugeCells \in Nat /\ (j \div HugeCells) + 1 \in 1..n
           /\ j % HugeCells < amt((j \div HugeCells) + 1)
  BY <1>1, PiecesAre
<1>3. H = [i \in 1..n |-> P(i)]
  BY DEF GetBigStg
<1> HIDE DEF n, amt, H
<1>4. ASSUME NEW i \in 1..n
      PROVE  /\ there(amt(i)) \in 1..Subpages /\ last(amt(i)) \in 1..SubCells
             /\ \A r \in 0..(amt(i) - 1) :
                  /\ (r \div SubCells) \in 0..(Subpages - 1)
                  /\ (r \div SubCells) + 1 \in 1..there(amt(i))
                  /\ r % SubCells < IF (r \div SubCells) + 1 = there(amt(i))
                                    THEN last(amt(i)) ELSE SubCells
  BY <1>2, SubpagesAre
<1> HIDE DEF there, last
<1>5. \A i \in 1..n : P(i) \in HugeSet
  <2>1. 0 \in 0..Subpages /\ <<>> \in Seq(Nat)
    BY Constants
  <2> QED
    BY <1>4, <2>1 DEF HugeSet
<1>6. H \in Seq(HugeSet) /\ Len(H) = n
  <2>1. [i \in 1..n |-> P(i)] \in Seq(HugeSet)
    BY <1>2, <1>5, IsASeq
  <2>2. Len([i \in 1..n |-> P(i)]) = n
    BY <1>2
  <2> QED
    BY <1>3, <2>1, <2>2
<1>7. \A i \in 1..n : /\ H[i].page = <<>> /\ H[i].numswapped = 0
                      /\ H[i].numthere = there(amt(i)) /\ H[i].sizelast = last(amt(i))
  BY <1>3
<1>8. ASSUME NEW j \in 0..(size - 1)
      PROVE  LET i == (j \div HugeCells) + 1
                 r == j % HugeCells
                 u == r \div SubCells
             IN  /\ j \div HugeCells \in Nat /\ i \in 1..n
                 /\ u \in 0..(Subpages - 1) /\ u + 1 \in 1..H[i].numthere
                 /\ r % SubCells < IF u + 1 = H[i].numthere THEN H[i].sizelast ELSE SubCells
  <2> DEFINE i == (j \div HugeCells) + 1
             r == j % HugeCells
  <2>1. j \div HugeCells \in Nat /\ i \in 1..n /\ r \in Nat /\ r < amt(i)
    <3>1. j \in Nat
      OBVIOUS
    <3>2. r \in 0..(HugeCells - 1)
      BY <1>1, <3>1, DivMod
    <3>3. r \in Nat
      BY <1>1, <3>2
    <3> QED
      BY <1>2, <3>3
  <2>2. amt(i) \in Nat
    BY <1>2, <2>1, Constants
  <2>3. r \in 0..(amt(i) - 1)
    BY <2>1, <2>2
  <2> HIDE DEF i, r
  <2> QED
    BY <1>4, <1>7, <2>1, <2>3 DEF i, r
<1> QED
  BY <1>6, <1>7, <1>8 DEF n, H

LEMMA InNode ==
    ASSUME NEW k \in 1..MaxNodes, NEW a \in Nat,
           k * NodeCells <= a, a < (k + 1) * NodeCells
    PROVE  /\ ~IsHuge(a) /\ Node(a) = k /\ Off(a) = a - k * NodeCells /\ a \in Addr
           /\ Off(a) < NodeCells
<1>1. /\ NodeCells \in Nat \ {0} /\ MaxNodes \in Nat /\ MaxHuge \in Nat /\ k \in Nat
      /\ HugeBase \in Nat /\ HugeBase = NodeCells * (MaxNodes + 1)
      /\ EndAddr = HugeBase + HugeCells * MaxHuge /\ HugeCells \in Nat /\ EndAddr \in Nat
  BY Constants
<1> DEFINE v == a - k * NodeCells
<1>2. k * NodeCells = NodeCells * k /\ NodeCells * k \in Nat
      /\ (k + 1) * NodeCells = NodeCells * k + NodeCells
  BY <1>1
<1>3. v \in 0..(NodeCells - 1) /\ a = NodeCells * k + v
  BY <1>1, <1>2
<1> HIDE DEF v
<1>4. a \div NodeCells = k /\ a % NodeCells = v
  BY <1>1, <1>3, DivModUnique
<1>5. NodeCells * (k + 1) <= NodeCells * (MaxNodes + 1) /\ NodeCells <= NodeCells * k
      /\ NodeCells * (k + 1) = NodeCells * k + NodeCells
  BY <1>1
<1>6. a < HugeBase /\ NodeCells <= a
  BY <1>1, <1>2, <1>3, <1>5
<1>7. HugeCells * MaxHuge \in Nat
  BY <1>1
<1>8. ~IsHuge(a) /\ a \in Addr
  BY <1>1, <1>6, <1>7 DEF IsHuge, Addr
<1> QED
  BY <1>1, <1>3, <1>4, <1>8 DEF Node, Off, v

LEMMA InHuge ==
    ASSUME NEW p \in 1..MaxHuge, NEW u \in 0..(Subpages - 1), NEW v \in 0..(SubCells - 1),
           NEW a, a = HugeBase + HugeCells * (p - 1) + SubCells * u + v
    PROVE  /\ a \in Nat /\ IsHuge(a) /\ BigNode(a) = p /\ Subpage(a) = u + 1 /\ Off(a) = v
           /\ a \in Addr
<1>1. /\ HugeBase \in Nat /\ HugeCells \in Nat \ {0} /\ SubCells \in Nat \ {0} /\ MaxHuge \in Nat
      /\ EndAddr = HugeBase + HugeCells * MaxHuge /\ EndAddr \in Nat /\ NodeCells \in Nat
      /\ Subpages \in Nat /\ HugeCells = SubCells * Subpages /\ MaxNodes \in Nat
      /\ HugeBase = NodeCells * (MaxNodes + 1)
  BY Constants
<1> DEFINE q == p - 1
           x == HugeCells * q + SubCells * u + v
<1>2. q \in Nat /\ p = q + 1 /\ q + 1 <= MaxHuge
  BY <1>1
<1> HIDE DEF q
<1>3. /\ x \in Nat /\ x \div HugeCells = q /\ (x % HugeCells) \div SubCells = u
      /\ x % SubCells = v
  BY <1>2, HugeParts
<1>4. HugeCells * q \in Nat /\ SubCells * u \in Nat /\ u \in Nat /\ v \in Nat
  BY <1>1, <1>2
<1>5. a = HugeBase + x
  BY <1>1, <1>4 DEF q
<1>6. x < HugeCells * MaxHuge
  <2>1. SubCells * (u + 1) <= SubCells * Subpages /\ SubCells * (u + 1) = SubCells * u + SubCells
    BY <1>1, <1>4
  <2>2. HugeCells * (q + 1) <= HugeCells * MaxHuge /\ HugeCells * (q + 1) = HugeCells * q + HugeCells
    BY <1>1, <1>2
  <2>3. v < SubCells
    BY <1>1
  <2> QED
    BY <1>1, <1>4, <2>1, <2>2, <2>3
<1> HIDE DEF x
<1>7. NodeCells <= HugeBase
  BY <1>1
<1>8. a \in Nat /\ IsHuge(a) /\ a - HugeBase = x
  BY <1>1, <1>3, <1>5 DEF IsHuge
<1>9. a \in Addr
  BY <1>1, <1>3, <1>5, <1>6, <1>7 DEF Addr
<1> QED
  BY <1>2, <1>3, <1>8, <1>9 DEF BigNode, Subpage, Off

(* Nodes and huge pages keep their sizes when others are added. *)
Larger ==
    /\ Len(SegTab) <= Len(SegTab')
    /\ \A k \in 1..Len(SegTab) : SegTab'[k].size = SegTab[k].size
    /\ Len(HugeTab) <= Len(HugeTab')
    /\ \A p \in 1..Len(HugeTab) : /\ HugeTab'[p].numthere = HugeTab[p].numthere
                                  /\ HugeTab'[p].sizelast = HugeTab[p].sizelast

LEMMA StaysCovered ==
    ASSUME TypeOK, Larger, Len(SegTab') \in Nat, Len(HugeTab') \in Nat, NEW a, Covered(a)
    PROVE  Covered(a)'
<1>1. Len(SegTab) \in Nat /\ Len(HugeTab) \in Nat
  BY DEF TypeOK
<1>2. CASE IsHuge(a)
  <2> DEFINE p == BigNode(a)
  <2>1. p \in 1..Len(HugeTab) /\ p \in 1..Len(HugeTab')
    BY <1>1, <1>2 DEF Covered, Larger
  <2>2. SubSize(p, Subpage(a))' = SubSize(p, Subpage(a))
    BY <2>1 DEF Larger, SubSize
  <2> QED
    BY <1>2, <2>1, <2>2 DEF Covered, Larger, IsHuge, BigNode, Subpage, Off
<1>3. CASE ~IsHuge(a)
  <2>1. Node(a) \in 1..Len(SegTab) /\ Node(a) \in 1..Len(SegTab')
    BY <1>1, <1>3 DEF Covered, Larger
  <2> QED
    BY <1>3, <2>1 DEF Covered, Larger, IsHuge, Node, Off
<1> QED
  BY <1>2, <1>3

(* What a step that hands out nothing leaves of the storage. *)
LEMMA StorageSame ==
    ASSUME TypeOK, Storage, Larger, Len(SegTab') \in Nat, Len(HugeTab') \in Nat,
           UNCHANGED <<owned, tiny>>
    PROVE  Storage'
<1>1. ASSUME NEW b \in owned, NEW a \in b.addr..(b.addr + b.len - 1)
      PROVE  a \in Addr /\ Covered(a)'
  BY <1>1, StaysCovered DEF Storage
<1>2. Len(SegTab) \in Nat
  BY DEF TypeOK
<1>3. ASSUME tiny.left > 0
      PROVE  \E k \in 1..Len(SegTab') :
                /\ SegTab'[k].size = NodeCells
                /\ k * NodeCells <= tiny.addr /\ tiny.addr + tiny.left = (k + 1) * NodeCells
  BY <1>2, <1>3 DEF Storage, Larger
<1> QED
  BY <1>1, <1>3 DEF Storage, Addr, EndAddr, HugeBase, HugeCells

(* What AllocStg adds has no place yet. *)
Added ==
    /\ SegTab' \in Seq(NodeSet) /\ Len(SegTab) <= Len(SegTab') /\ Len(SegTab') <= MaxNodes
    /\ \A k \in 1..Len(SegTab) : SegTab'[k] = SegTab[k]
    /\ \A k \in (Len(SegTab) + 1)..Len(SegTab') : SegTab'[k].loc = 0 /\ ~SegTab'[k].inmem
    /\ HugeTab' \in Seq(HugeSet) /\ Len(HugeTab) <= Len(HugeTab') /\ Len(HugeTab') <= MaxHuge
    /\ \A p \in 1..Len(HugeTab) : HugeTab'[p] = HugeTab[p]
    /\ \A p \in (Len(HugeTab) + 1)..Len(HugeTab') :
         HugeTab'[p].page = <<>> /\ HugeTab'[p].numswapped = 0

(* The sequence s with t after it. *)
LEMMA Behind ==
    ASSUME NEW X, NEW s \in Seq(X), NEW t \in Seq(X)
    PROVE  /\ s \o t \in Seq(X) /\ Len(s \o t) = Len(s) + Len(t)
           /\ Len(s) \in Nat /\ Len(t) \in Nat
           /\ \A i \in 1..Len(s) : (s \o t)[i] = s[i]
           /\ \A i \in 1..Len(t) : (s \o t)[Len(s) + i] = t[i]
           /\ \A i \in (Len(s) + 1)..(Len(s) + Len(t)) :
                 i - Len(s) \in 1..Len(t) /\ (s \o t)[i] = t[i - Len(s)]
<1>1. /\ s \o t \in Seq(X) /\ Len(s \o t) = Len(s) + Len(t)
      /\ Len(s) \in Nat /\ Len(t) \in Nat
      /\ \A i \in 1..(Len(s) + Len(t)) : (s \o t)[i] = IF i <= Len(s) THEN s[i] ELSE t[i - Len(s)]
  BY ConcatProperties
<1> DEFINE m == Len(s)
           n == Len(t)
           u == s \o t
<1> HIDE DEF m, n, u
<1>2. \A i \in 1..m : i \in 1..(m + n) /\ i <= m
  BY <1>1 DEF m, n
<1>3. \A i \in 1..n : m + i \in 1..(m + n) /\ ~(m + i <= m) /\ (m + i) - m = i
  BY <1>1 DEF m, n
<1>4. \A i \in (m + 1)..(m + n) : i \in 1..(m + n) /\ ~(i <= m) /\ i - m \in 1..n
  BY <1>1 DEF m, n
<1> QED
  BY <1>1, <1>2, <1>3, <1>4 DEF m, n, u

LEMMA AddedIsLarger ==
    ASSUME TypeOK, Added
    PROVE  Larger /\ Len(SegTab') \in Nat /\ Len(HugeTab') \in Nat
BY DEF Added, Larger

(* Storage in a node that AllocTinyStg fills. *)
LEMMA TinyStorage ==
    ASSUME TypeOK, Kinds, Storage, NEW size \in Sizes, size <= TinyCells,
           AllocTinyStg(size)
    PROVE  Added /\ Storage' /\ tiny' \in [left : 0..NodeCells, addr : Nat]
           /\ owned' \subseteq [addr : Addr, len : Sizes]
<1> DEFINE n == Len(SegTab)
           fits == tiny.left >= size
           addr == IF fits THEN tiny.addr ELSE (n + 1) * NodeCells
           left == IF fits THEN tiny.left ELSE NodeCells
<1>1. /\ NodeCells \in Nat \ {0} /\ size \in Nat \ {0} /\ MaxNodes \in Nat /\ MaxHuge \in Nat
  BY Constants
<1>2. /\ n \in Nat /\ n <= MaxNodes /\ Len(HugeTab) \in Nat /\ Len(HugeTab) <= MaxHuge
      /\ SegTab \in Seq(NodeSet) /\ HugeTab \in Seq(HugeSet)
      /\ tiny.left \in 0..NodeCells /\ tiny.addr \in Nat
  BY DEF TypeOK, Kinds, NodeSet, HugeSet
<1>3. /\ fits \/ n < MaxNodes
      /\ SegTab' = IF fits THEN SegTab ELSE SegTab \o GetStg(NodeCells, NodeCells)
      /\ tiny' = [left |-> left - size, addr |-> addr + size]
      /\ owned' = owned \union {[addr |-> addr, len |-> size]}
      /\ HugeTab' = HugeTab
  BY DEF AllocTinyStg, Give
<1>4. Added /\ (~fits => /\ Len(SegTab') = n + 1 /\ SegTab'[n + 1].size = NodeCells)
            /\ (fits => SegTab' = SegTab)
  <2>1. CASE fits
    BY <1>2, <1>3, <2>1 DEF Added
  <2>2. CASE ~fits
    <3> DEFINE g == GetStg(NodeCells, NodeCells)
    <3>1. Pieces(NodeCells, NodeCells) = 1
      <4> DEFINE m == NodeCells + NodeCells - 1
      <4>1. m = NodeCells * 1 + (NodeCells - 1) /\ NodeCells - 1 \in 0..(NodeCells - 1)
        BY <1>1
      <4>2. m \div NodeCells = 1
        BY <1>1, <4>1, DivModUnique
      <4> QED
        BY <4>2 DEF Pieces
    <3>2. /\ g \in Seq(NodeSet) /\ Len(g) = 1
          /\ g[1] = [size |-> PieceSize(NodeCells, NodeCells, 1), inmem |-> FALSE, loc |-> 0]
      <4>1. 1 \in 1..Pieces(NodeCells, NodeCells)
        BY <3>1
      <4> QED
        BY <1>1, <3>1, <4>1, GetStgIs
    <3>3. PieceSize(NodeCells, NodeCells, 1) = NodeCells
      <4>1. (1 - 1) * NodeCells = 0
        BY <1>1
      <4>2. PieceSize(NodeCells, NodeCells, 1) = NodeCells - (1 - 1) * NodeCells
        BY <3>1 DEF PieceSize
      <4> QED
        BY <1>1, <4>1, <4>2
    <3>4. SegTab' = SegTab \o g /\ n < MaxNodes
      BY <1>3, <2>2
    <3> HIDE DEF g
    <3>5. /\ SegTab' \in Seq(NodeSet) /\ Len(SegTab') = n + 1
          /\ \A i \in 1..n : SegTab'[i] = SegTab[i]
          /\ SegTab'[n + 1] = g[1]
      <4> DEFINE w == SegTab \o g
      <4>1. /\ w \in Seq(NodeSet) /\ Len(w) = Len(SegTab) + Len(g)
            /\ \A i \in 1..Len(SegTab) : w[i] = SegTab[i]
            /\ \A i \in 1..Len(g) : w[Len(SegTab) + i] = g[i]
        <5>1. SegTab \in Seq(NodeSet) /\ g \in Seq(NodeSet)
          BY <1>2, <3>2
        <5> QED
          BY <5>1, Behind
      <4>2. 1 \in 1..Len(g)
        BY <3>2
      <4> HIDE DEF w
      <4>3. SegTab' = w
        BY <3>4 DEF w
      <4> QED
        BY <3>2, <4>1, <4>2, <4>3
    <3>6. \A k \in (n + 1)..Len(SegTab') : k = n + 1
      BY <1>2, <3>5
    <3>7. /\ SegTab'[n + 1].size = NodeCells /\ SegTab'[n + 1].loc = 0 /\ ~SegTab'[n + 1].inmem
      BY <3>2, <3>3, <3>5
    <3>8. Len(SegTab) <= Len(SegTab') /\ Len(SegTab') <= MaxNodes
      BY <1>1, <1>2, <3>4, <3>5
    <3>9. \A p \in (Len(HugeTab) + 1)..Len(HugeTab) : FALSE
      BY <1>2
    <3> QED
      BY <1>2, <1>3, <2>2, <3>5, <3>6, <3>7, <3>8, <3>9 DEF Added
  <2> QED
    BY <2>1, <2>2
<1>5. PICK k \in 1..Len(SegTab') :
        /\ SegTab'[k].size = NodeCells /\ k * NodeCells <= addr /\ addr + left = (k + 1) * NodeCells
        /\ k \in 1..MaxNodes
  <2>1. CASE fits
    <3>1. tiny.left > 0
      BY <1>1, <1>2, <2>1
    <3>2. PICK k \in 1..n : /\ SegTab[k].size = NodeCells /\ k * NodeCells <= tiny.addr
                           /\ tiny.addr + tiny.left = (k + 1) * NodeCells
      BY <3>1 DEF Storage
    <3> QED
      BY <1>1, <1>2, <1>4, <2>1, <3>2
  <2>2. CASE ~fits
    <3>1. n + 1 \in 1..Len(SegTab') /\ n + 1 \in 1..MaxNodes
      BY <1>1, <1>2, <1>3, <1>4, <2>2
    <3>2. (n + 1) * NodeCells + NodeCells = ((n + 1) + 1) * NodeCells
          /\ (n + 1) * NodeCells \in Nat
      BY <1>1, <1>2
    <3>3. addr = (n + 1) * NodeCells /\ left = NodeCells
      BY <2>2
    <3> QED
      BY <1>4, <2>2, <3>1, <3>2, <3>3
  <2> QED
    BY <2>1, <2>2
<1>6. left \in Nat /\ size <= left /\ left <= NodeCells /\ addr \in Nat
  <2>1. size <= left /\ (fits \/ left = NodeCells)
    <3>1. CASE fits
      BY <3>1
    <3>2. CASE ~fits
      BY <1>1, <3>2, Constants
    <3> QED
      BY <3>1, <3>2
  <2>2. (n + 1) * NodeCells \in Nat
    BY <1>1, <1>2
  <2> QED
    BY <1>1, <1>2, <2>1, <2>2
<1> HIDE DEF addr, left, fits
<1>7. ASSUME NEW a \in addr..(addr + size - 1)
      PROVE  a \in Addr /\ Covered(a)'
  <2>1. a \in Nat /\ k * NodeCells <= a /\ a < (k + 1) * NodeCells
    BY <1>1, <1>5, <1>6
  <2>2. ~IsHuge(a) /\ Node(a) = k /\ a \in Addr /\ Off(a) < NodeCells
    BY <1>5, <2>1, InNode
  <2> QED
    BY <1>5, <2>2 DEF Covered, IsHuge, Node, Off, HugeBase
<1>8. Larger /\ Len(SegTab') \in Nat /\ Len(HugeTab') \in Nat
  BY <1>4, AddedIsLarger
<1>9. addr \in Addr
  BY <1>1, <1>6, <1>7
<1>10. Storage'
  <2>1. ASSUME NEW b \in owned', NEW a \in b.addr..(b.addr + b.len - 1)
        PROVE  a \in Addr /\ Covered(a)'
    <3>1. CASE b \in owned
      BY <1>8, <2>1, <3>1, StaysCovered DEF Storage
    <3>2. CASE b = [addr |-> addr, len |-> size]
      <4>1. b.addr = addr /\ b.len = size
        BY <3>2
      <4>2. a \in addr..(addr + size - 1)
        BY <4>1
      <4> QED
        BY <1>7, <4>2
    <3>3. b \in owned \/ b = [addr |-> addr, len |-> size]
      BY <1>3, <2>1
    <3> QED
      BY <3>1, <3>2, <3>3
  <2>2. tiny'.left = left - size /\ tiny'.addr = addr + size
    BY <1>3
  <2>3. /\ k * NodeCells <= tiny'.addr /\ tiny'.addr + tiny'.left = (k + 1) * NodeCells
    <3>1. k \in Nat
      BY <1>1, <1>5
    <3>2. k * NodeCells \in Nat /\ (k + 1) * NodeCells \in Nat
      BY <1>1, <3>1
    <3>3. size \in Nat
      BY <1>1
    <3> QED
      BY <1>5, <1>6, <2>2, <3>2, <3>3
  <2> QED
    BY <1>5, <2>1, <2>3 DEF Storage, Addr, EndAddr, HugeBase, HugeCells
<1>11. tiny' \in [left : 0..NodeCells, addr : Nat]
  BY <1>1, <1>3, <1>6
<1>12. owned' \subseteq [addr : Addr, len : Sizes]
  BY <1>3, <1>9, SMTT(30) DEF TypeOK
<1> QED
  BY <1>4, <1>10, <1>11, <1>12

LEMMA HandedOut ==
    ASSUME TypeOK, Storage, Added, NEW addr \in Nat, NEW size \in Sizes,
           owned' = owned \union {[addr |-> addr, len |-> size]},
           \A a \in addr..(addr + size - 1) : a \in Addr /\ Covered(a)',
           UNCHANGED tiny
    PROVE  Storage' /\ owned' \subseteq [addr : Addr, len : Sizes]
<1>1. Larger /\ Len(SegTab') \in Nat /\ Len(HugeTab') \in Nat /\ Len(SegTab) \in Nat
  BY AddedIsLarger DEF TypeOK
<1>2. ASSUME NEW b \in owned', NEW a \in b.addr..(b.addr + b.len - 1)
      PROVE  a \in Addr /\ Covered(a)'
  <2>1. CASE b \in owned
    BY <1>1, <1>2, <2>1, StaysCovered DEF Storage
  <2>2. CASE b = [addr |-> addr, len |-> size]
    <3>1. b.addr = addr /\ b.len = size
      BY <2>2
    <3>2. a \in addr..(addr + size - 1)
      BY <3>1
    <3> QED
      BY <3>2
  <2> QED
    BY <1>2, <2>1, <2>2
<1>3. ASSUME tiny.left > 0
      PROVE  \E k \in 1..Len(SegTab') :
                /\ SegTab'[k].size = NodeCells
                /\ k * NodeCells <= tiny.addr /\ tiny.addr + tiny.left = (k + 1) * NodeCells
  BY <1>1, <1>3, SMTT(30) DEF Storage, Larger
<1>4. Storage'
  BY <1>2, <1>3 DEF Storage, Addr, EndAddr, HugeBase, HugeCells
<1>5. addr \in addr..(addr + size - 1)
  BY Constants
<1>6. owned' \subseteq [addr : Addr, len : Sizes]
  BY <1>5 DEF TypeOK
<1> QED
  BY <1>4, <1>6

(* Storage in nodes of its own. *)
LEMMA NodeStorage ==
    ASSUME TypeOK, Kinds, Storage, NEW size \in Sizes,
           Len(SegTab) + Pieces(size, NodeCells) <= MaxNodes,
           SegTab' = SegTab \o GetStg(size, NodeCells),
           Give((Len(SegTab) + 1) * NodeCells, size),
           UNCHANGED <<HugeTab, tiny>>
    PROVE  Added /\ Storage' /\ owned' \subseteq [addr : Addr, len : Sizes]
<1> DEFINE n == Len(SegTab)
           g == GetStg(size, NodeCells)
           m == Pieces(size, NodeCells)
           addr == (n + 1) * NodeCells
<1>1. /\ NodeCells \in Nat \ {0} /\ size \in Nat \ {0} /\ MaxNodes \in Nat /\ MaxHuge \in Nat
  BY Constants
<1>2. /\ n \in Nat /\ n <= MaxNodes /\ Len(HugeTab) \in Nat /\ Len(HugeTab) <= MaxHuge
      /\ SegTab \in Seq(NodeSet) /\ HugeTab \in Seq(HugeSet)
  BY DEF TypeOK, Kinds, NodeSet, HugeSet
<1>3. /\ m \in Nat \ {0}
      /\ \A j \in 0..(size - 1) :
           /\ j \div NodeCells \in Nat /\ (j \div NodeCells) + 1 \in 1..m
           /\ j % NodeCells < PieceSize(size, NodeCells, (j \div NodeCells) + 1)
  BY <1>1, PiecesAre
<1>4. /\ g \in Seq(NodeSet) /\ Len(g) = m
      /\ \A i \in 1..m : /\ g[i].size = PieceSize(size, NodeCells, i)
                         /\ g[i].loc = 0 /\ ~g[i].inmem
  <2>1. \A i \in 1..m : g[i] = [size |-> PieceSize(size, NodeCells, i),
                                inmem |-> FALSE, loc |-> 0]
    BY <1>1, GetStgIs
  <2> HIDE DEF g, m
  <2>2. \A i \in 1..m : /\ g[i].size = PieceSize(size, NodeCells, i)
                        /\ g[i].loc = 0 /\ ~g[i].inmem
    <3> SUFFICES ASSUME NEW i \in 1..m
                 PROVE  /\ g[i].size = PieceSize(size, NodeCells, i)
                        /\ g[i].loc = 0 /\ ~g[i].inmem
      OBVIOUS
    <3>1. g[i] = [size |-> PieceSize(size, NodeCells, i), inmem |-> FALSE, loc |-> 0]
      BY <2>1
    <3> QED
      BY <3>1
  <2> QED
    BY <1>1, <2>2, GetStgIs DEF g, m
<1>5. SegTab' = SegTab \o g /\ n + m <= MaxNodes
  OBVIOUS
<1>6. owned' = owned \union {[addr |-> addr, len |-> size]} /\ HugeTab' = HugeTab /\ tiny' = tiny
  BY DEF Give
<1> HIDE DEF g, m, addr
<1>7. /\ SegTab' \in Seq(NodeSet) /\ Len(SegTab') = n + m
      /\ \A i \in 1..n : SegTab'[i] = SegTab[i]
      /\ \A i \in 1..m : SegTab'[n + i] = g[i]
      /\ \A i \in (n + 1)..(n + m) : i - n \in 1..m /\ SegTab'[i] = g[i - n]
  <2> DEFINE w == SegTab \o g
  <2>1. /\ w \in Seq(NodeSet) /\ Len(w) = Len(SegTab) + Len(g)
        /\ \A i \in 1..Len(SegTab) : w[i] = SegTab[i]
        /\ \A i \in 1..Len(g) : w[Len(SegTab) + i] = g[i]
        /\ \A i \in (Len(SegTab) + 1)..(Len(SegTab) + Len(g)) :
              i - Len(SegTab) \in 1..Len(g) /\ w[i] = g[i - Len(SegTab)]
    <3>1. SegTab \in Seq(NodeSet) /\ g \in Seq(NodeSet)
      BY <1>2, <1>4
    <3> QED
      BY <3>1, Behind, SMTT(30)
  <2> HIDE DEF w
  <2>2. SegTab' = w
    BY <1>5 DEF w
  <2> QED
    BY <1>4, <2>1, <2>2
<1>8. Added
  <2>1. n <= n + m /\ n + m <= MaxNodes
    BY <1>2, <1>3, <1>5
  <2>2. \A p \in (Len(HugeTab) + 1)..Len(HugeTab) : FALSE
    BY <1>2
  <2>3. \A k \in (n + 1)..(n + m) : SegTab'[k].loc = 0 /\ ~SegTab'[k].inmem
    BY <1>4, <1>7
  <2> QED
    BY <1>2, <1>6, <1>7, <2>1, <2>2, <2>3 DEF Added
<1> HIDE DEF n
<1>9. addr \in Nat /\ addr = NodeCells * (n + 1)
  BY <1>1, <1>2 DEF addr
<1>10. ASSUME NEW a \in addr..(addr + size - 1)
       PROVE  a \in Addr /\ Covered(a)'
  <2> DEFINE j == a - addr
             q == j \div NodeCells
             r == j % NodeCells
             k == n + 1 + q
  <2>1. j \in 0..(size - 1) /\ j \in Nat /\ a = addr + j
    BY <1>1, <1>9
  <2> HIDE DEF j
  <2>2. /\ q \in Nat /\ q + 1 \in 1..m /\ r < PieceSize(size, NodeCells, q + 1)
        /\ r \in 0..(NodeCells - 1) /\ j = NodeCells * q + r
    BY <1>1, <1>3, <2>1, DivMod
  <2> HIDE DEF q, r
  <2>3. /\ NodeCells * (n + 1) + NodeCells * q = NodeCells * (n + 1 + q)
        /\ k * NodeCells = NodeCells * (n + 1 + q) /\ k * NodeCells \in Nat
        /\ (k + 1) * NodeCells = k * NodeCells + NodeCells
    BY <1>1, <1>2, <2>2
  <2>4. k \in 1..MaxNodes /\ k \in 1..(n + m) /\ k = n + (q + 1)
    BY <1>1, <1>2, <1>3, <1>5, <2>2
  <2> HIDE DEF k
  <2>5. a = k * NodeCells + r
    <3>1. NodeCells * q \in Nat /\ NodeCells * (n + 1) \in Nat
      BY <1>1, <1>2, <2>2
    <3> QED
      BY <1>1, <1>9, <2>1, <2>2, <2>3, <3>1, SMTT(30)
  <2>6. a \in Nat /\ k * NodeCells <= a /\ a < (k + 1) * NodeCells /\ a - k * NodeCells = r
    BY <1>1, <2>2, <2>3, <2>5, SMTT(30)
  <2>7. ~IsHuge(a) /\ Node(a) = k /\ a \in Addr /\ Off(a) = r
    BY <2>4, <2>6, InNode
  <2>8. SegTab'[k].size = PieceSize(size, NodeCells, q + 1)
    BY <1>4, <1>7, <2>2, <2>4
  <2>9. k \in 1..Len(SegTab')
    BY <1>7, <2>4
  <2> QED
    BY <2>2, <2>7, <2>8, <2>9 DEF Covered, IsHuge, Node, Off, HugeBase
<1> QED
  BY <1>6, <1>8, <1>9, <1>10, HandedOut

(* Storage in huge pages. *)
LEMMA HugeStorage ==
    ASSUME TypeOK, Kinds, Storage, NEW size \in Sizes,
           Len(HugeTab) + Pieces(size, HugeCells) <= MaxHuge,
           HugeTab' = HugeTab \o GetBigStg(size),
           Give(HugeBase + Len(HugeTab) * HugeCells, size),
           UNCHANGED <<SegTab, tiny>>
    PROVE  Added /\ Storage' /\ owned' \subseteq [addr : Addr, len : Sizes]
<1> DEFINE n == Len(HugeTab)
           g == GetBigStg(size)
           m == Pieces(size, HugeCells)
           addr == HugeBase + n * HugeCells
<1>1. /\ HugeCells \in Nat \ {0} /\ size \in Nat \ {0} /\ MaxNodes \in Nat /\ MaxHuge \in Nat
      /\ SubCells \in Nat \ {0} /\ HugeBase \in Nat
  BY Constants
<1>2. /\ n \in Nat /\ n <= MaxHuge /\ Len(SegTab) \in Nat /\ Len(SegTab) <= MaxNodes
      /\ SegTab \in Seq(NodeSet) /\ HugeTab \in Seq(HugeSet)
  BY DEF TypeOK, Kinds, NodeSet, HugeSet
<1>3. m \in Nat \ {0}
  BY <1>1, PiecesAre
<1>4. /\ g \in Seq(HugeSet) /\ Len(g) = m
      /\ \A i \in 1..m : g[i].page = <<>> /\ g[i].numswapped = 0
      /\ \A j \in 0..(size - 1) :
           LET i == (j \div HugeCells) + 1
               r == j % HugeCells
               u == r \div SubCells
           IN  /\ j \div HugeCells \in Nat /\ i \in 1..m
               /\ u \in 0..(Subpages - 1) /\ u + 1 \in 1..g[i].numthere
               /\ r % SubCells < IF u + 1 = g[i].numthere THEN g[i].sizelast ELSE SubCells
  BY <1>1, GetBigStgIs
<1>5. HugeTab' = HugeTab \o g /\ n + m <= MaxHuge
  OBVIOUS
<1>6. owned' = owned \union {[addr |-> addr, len |-> size]} /\ SegTab' = SegTab /\ tiny' = tiny
  BY DEF Give
<1> HIDE DEF g, m, addr
<1>7. /\ HugeTab' \in Seq(HugeSet) /\ Len(HugeTab') = n + m
      /\ \A i \in 1..n : HugeTab'[i] = HugeTab[i]
      /\ \A i \in 1..m : HugeTab'[n + i] = g[i]
      /\ \A i \in (n + 1)..(n + m) : i - n \in 1..m /\ HugeTab'[i] = g[i - n]
  <2> DEFINE w == HugeTab \o g
  <2>1. /\ w \in Seq(HugeSet) /\ Len(w) = Len(HugeTab) + Len(g)
        /\ \A i \in 1..Len(HugeTab) : w[i] = HugeTab[i]
        /\ \A i \in 1..Len(g) : w[Len(HugeTab) + i] = g[i]
        /\ \A i \in (Len(HugeTab) + 1)..(Len(HugeTab) + Len(g)) :
              i - Len(HugeTab) \in 1..Len(g) /\ w[i] = g[i - Len(HugeTab)]
    <3>1. HugeTab \in Seq(HugeSet) /\ g \in Seq(HugeSet)
      BY <1>2, <1>4
    <3> QED
      BY <3>1, Behind
  <2> HIDE DEF w
  <2>2. HugeTab' = w
    BY <1>5 DEF w
  <2> QED
    BY <1>4, <2>1, <2>2
<1>8. Added
  <2>1. n <= n + m /\ n + m <= MaxHuge
    BY <1>2, <1>3, <1>5
  <2>2. \A k \in (Len(SegTab) + 1)..Len(SegTab) : FALSE
    BY <1>2
  <2>3. \A p \in (n + 1)..(n + m) : HugeTab'[p].page = <<>> /\ HugeTab'[p].numswapped = 0
    BY <1>4, <1>7
  <2> QED
    BY <1>2, <1>6, <1>7, <2>1, <2>2, <2>3 DEF Added
<1> HIDE DEF n
<1>9. addr \in Nat /\ addr = HugeBase + HugeCells * n
  <2>1. n * HugeCells = HugeCells * n /\ HugeCells * n \in Nat
    BY <1>1, <1>2
  <2> QED
    BY <1>1, <2>1 DEF addr
<1>10. ASSUME NEW a \in addr..(addr + size - 1)
       PROVE  a \in Addr /\ Covered(a)'
  <2> DEFINE j == a - addr
             q == j \div HugeCells
             r == j % HugeCells
             u == r \div SubCells
             v == r % SubCells
             p == n + 1 + q
  <2>1. j \in 0..(size - 1) /\ j \in Nat /\ a = addr + j
    BY <1>1, <1>9
  <2> HIDE DEF j
  <2>2. /\ q \in Nat /\ q + 1 \in 1..m /\ u \in 0..(Subpages - 1)
        /\ u + 1 \in 1..g[q + 1].numthere
        /\ v < IF u + 1 = g[q + 1].numthere THEN g[q + 1].sizelast ELSE SubCells
    BY <1>4, <2>1
  <2>3. j = HugeCells * q + r /\ r \in Nat
    <3>1. r \in 0..(HugeCells - 1) /\ j = HugeCells * q + r
      BY <1>1, <2>1, DivMod
    <3> QED
      BY <1>1, <3>1
  <2> HIDE DEF q, r
  <2>4. r = SubCells * u + v /\ v \in 0..(SubCells - 1)
    BY <1>1, <2>3, DivMod
  <2> HIDE DEF u, v
  <2>5. HugeCells * n + HugeCells * q = HugeCells * (n + q) /\ n + q \in Nat /\ p - 1 = n + q
    BY <1>1, <1>2, <2>2
  <2>6. p \in 1..MaxHuge /\ p \in 1..(n + m) /\ p = n + (q + 1)
    BY <1>1, <1>2, <1>3, <1>5, <2>2
  <2> HIDE DEF p
  <2>7. a = HugeBase + HugeCells * (p - 1) + SubCells * u + v
    <3>1. /\ HugeCells * q \in Nat /\ HugeCells * n \in Nat /\ SubCells * u \in Nat
          /\ HugeCells * (p - 1) = HugeCells * n + HugeCells * q
      BY <1>1, <1>2, <2>2, <2>5, Constants
    <3>2. v \in Nat
      BY <1>1, <2>4
    <3> DEFINE x == HugeCells * q
               y == HugeCells * n
               z == SubCells * u
               w == HugeCells * (p - 1)
    <3>3. x \in Nat /\ y \in Nat /\ z \in Nat /\ w = y + x
      BY <3>1
    <3>4. a = addr + j /\ addr = HugeBase + y /\ j = x + r /\ r = z + v
      BY <1>9, <2>1, <2>3, <2>4
    <3> HIDE DEF x, y, z, w
    <3>5. a = HugeBase + w + z + v
      BY <1>1, <3>2, <3>3, <3>4
    <3> QED
      BY <3>5 DEF w, z
  <2>8. a \in Nat /\ IsHuge(a) /\ BigNode(a) = p /\ Subpage(a) = u + 1 /\ Off(a) = v /\ a \in Addr
    BY <2>2, <2>4, <2>6, <2>7, InHuge
  <2>9. HugeTab'[p] = g[q + 1]
    BY <1>7, <2>2, <2>6
  <2>10. p \in 1..Len(HugeTab')
    BY <1>7, <2>6
  <2>11. /\ u + 1 \in 1..HugeTab'[p].numthere
         /\ v < IF u + 1 = HugeTab'[p].numthere THEN HugeTab'[p].sizelast ELSE SubCells
    BY <2>2, <2>9
  <2>12. /\ IsHuge(a) /\ BigNode(a) \in 1..Len(HugeTab')
         /\ Subpage(a) \in 1..HugeTab'[BigNode(a)].numthere
         /\ Off(a) < IF Subpage(a) = HugeTab'[BigNode(a)].numthere
                     THEN HugeTab'[BigNode(a)].sizelast ELSE SubCells
    BY <2>8, <2>10, <2>11
  <2>13. Covered(a)'
    BY <2>12 DEF Covered, SubSize, IsHuge, BigNode, Subpage, Off, HugeBase, HugeCells
  <2> QED
    BY <2>8, <2>13
<1> QED
  BY <1>6, <1>8, <1>9, <1>10, HandedOut
----------------------------------------------------------------------------
(***************************************************************************)
(* The cells of the heap.                                                   *)
(***************************************************************************)
LEMMA CellsOf ==
    ASSUME NEW b, NEW n \in Nat
    PROVE  IsFiniteSet({b} \X (1..n)) /\ Cardinality({b} \X (1..n)) = n
<1>1. IsFiniteSet({b}) /\ Cardinality({b}) = 1
  BY FS_Singleton
<1>2. IsFiniteSet(1..n) /\ Cardinality(1..n) = n
  BY FS_Interval
<1> DEFINE S == {b}
           T == 1..n
<1>3. IsFiniteSet(S) /\ IsFiniteSet(T)
  BY <1>1, <1>2
<1> HIDE DEF S, T
<1>4. IsFiniteSet(S \X T) /\ Cardinality(S \X T) = Cardinality(S) * Cardinality(T)
  BY <1>3, FS_Product
<1>5. Cardinality(S) * Cardinality(T) = n
  BY <1>1, <1>2 DEF S, T
<1> QED
  BY <1>4, <1>5 DEF S, T

LEMMA CellsJoined ==
    ASSUME NEW A, IsFiniteSet(A), NEW b, NEW n \in Nat, \A x \in A : x[1] # b
    PROVE  /\ IsFiniteSet(A \union ({b} \X (1..n))) /\ Cardinality(A) \in Nat
           /\ Cardinality(A \union ({b} \X (1..n))) = Cardinality(A) + n
<1> DEFINE B == {b} \X (1..n)
<1>1. IsFiniteSet(B) /\ Cardinality(B) = n
  BY CellsOf
<1>2. A \intersect B = {}
  OBVIOUS
<1> HIDE DEF B
<1>3. /\ IsFiniteSet(A \union B)
      /\ Cardinality(A \union B) = Cardinality(A) + Cardinality(B) - Cardinality({})
  <2>1. IsFiniteSet(B)
    BY <1>1
  <2>2. /\ IsFiniteSet(A \cup B)
        /\ Cardinality(A \cup B) = Cardinality(A) + Cardinality(B) - Cardinality(A \cap B)
    BY <2>1, FS_Union
  <2> QED
    BY <1>2, <2>2
<1>4. Cardinality(A) \in Nat /\ Cardinality({}) = 0
  BY FS_CardinalityType, FS_EmptySet
<1> QED
  BY <1>1, <1>3, <1>4 DEF B

(* malloc and free. *)
LEMMA CellsAdded ==
    ASSUME NEW r, IsFiniteSet(CellsIn(r)), NEW b, b \notin DOMAIN r, NEW s \in Seq(Int)
    PROVE  /\ IsFiniteSet(CellsIn(With(r, b, s))) /\ Cardinality(CellsIn(r)) \in Nat
           /\ Cardinality(CellsIn(With(r, b, s))) = Cardinality(CellsIn(r)) + Len(s)
<1>1. CellsIn(With(r, b, s)) = CellsIn(r) \union ({b} \X (1..Len(s)))
  BY DEF CellsIn, With
<1>2. \A x \in CellsIn(r) : x[1] # b
  BY DEF CellsIn
<1> DEFINE A == CellsIn(r)
           n == Len(s)
<1>3. n \in Nat /\ IsFiniteSet(A) /\ \A x \in A : x[1] # b
  BY <1>2
<1> HIDE DEF A, n
<1>4. /\ IsFiniteSet(A \union ({b} \X (1..n))) /\ Cardinality(A) \in Nat
      /\ Cardinality(A \union ({b} \X (1..n))) = Cardinality(A) + n
  BY <1>3, CellsJoined
<1> QED
  BY <1>1, <1>4 DEF A, n

LEMMA CellsFreed ==
    ASSUME NEW r, IsFiniteSet(CellsIn(r)), NEW b \in DOMAIN r, Len(r[b]) \in Nat
    PROVE  /\ IsFiniteSet(CellsIn(Without(r, b))) /\ Cardinality(CellsIn(Without(r, b))) \in Nat
           /\ Cardinality(CellsIn(r)) = Cardinality(CellsIn(Without(r, b))) + Len(r[b])
<1> DEFINE A == CellsIn(Without(r, b))
<1>1. CellsIn(r) = A \union ({b} \X (1..Len(r[b])))
  BY DEF CellsIn, Without
<1>2. \A x \in A : x[1] # b
  BY DEF CellsIn, Without
<1>3. A \in SUBSET CellsIn(r)
  BY <1>1
<1> DEFINE n == Len(r[b])
<1> HIDE DEF A
<1>4. IsFiniteSet(A)
  BY <1>3, FS_Subset
<1>5. n \in Nat
  OBVIOUS
<1> HIDE DEF n
<1>6. /\ IsFiniteSet(A \union ({b} \X (1..n))) /\ Cardinality(A) \in Nat
      /\ Cardinality(A \union ({b} \X (1..n))) = Cardinality(A) + n
  BY <1>2, <1>4, <1>5, CellsJoined
<1> QED
  BY <1>1, <1>4, <1>6 DEF A, n

LEMMA CellsSame ==
    ASSUME NEW r, NEW t, DOMAIN t = DOMAIN r, \A b \in DOMAIN r : Len(t[b]) = Len(r[b])
    PROVE  CellsIn(t) = CellsIn(r)
BY DEF CellsIn

(* A finite set leaves one of the first numbers out. *)
LEMMA FreeBlockIsNew ==
    ASSUME NEW r, IsFiniteSet(DOMAIN r)
    PROVE  FreeBlock(r) \in Nat \ {0} /\ FreeBlock(r) \notin DOMAIN r
<1> DEFINE c == Cardinality(DOMAIN r)
<1>1. c \in Nat
  BY FS_CardinalityType
<1>2. IsFiniteSet(1..(c + 1)) /\ Cardinality(1..(c + 1)) = c + 1
  BY <1>1, FS_Interval
<1>3. ASSUME 1..(c + 1) \subseteq DOMAIN r PROVE FALSE
  BY <1>1, <1>2, <1>3, FS_Subset
<1>4. PICK n \in 1..(c + 1) : n \notin DOMAIN r
  BY <1>3
<1>5. FreeBlock(r) \in 1..(c + 1) /\ FreeBlock(r) \notin DOMAIN r
  BY <1>4 DEF FreeBlock
<1> QED
  BY <1>1, <1>5

(* A set of numbers has a least one. *)
LEMMA LeastIs ==
    ASSUME NEW S \in SUBSET Nat, S # {}
    PROVE  LET m == CHOOSE i \in S : \A j \in S : i <= j
           IN  m \in S /\ \A j \in S : m <= j
<1> DEFINE R == {x \in Nat \X Nat : x[1] < x[2]}
<1>1. IsWellFoundedOn(R, Nat)
  BY NatLessThanWellFounded DEF OpToRel
<1>2. PICK x \in S : \A y \in S : ~(<<y, x>> \in R)
  BY <1>1, WFMin
<1>3. \A y \in S : ~(y < x)
  BY <1>2
<1>4. \A y \in S : x <= y
  BY <1>3
<1> QED
  BY <1>4

----------------------------------------------------------------------------
(***************************************************************************)
(* Places, owner by owner.                                                  *)
(***************************************************************************)
LEMMA MovingIs ==
    ASSUME NEW s \in Seq(Frames), NEW k
    PROVE  k \in {s[i].node : i \in {i \in 1..Len(s) : s[i].fn = "SwapOutVirt"}} <=>
             \E d \in 1..Len(s) : At(s, d).fn = "SwapOutVirt" /\ At(s, d).node = k
<1> DEFINE n == Len(s)
<1>1. n \in Nat
  OBVIOUS
<1>2. \A d \in 1..n : n + 1 - d \in 1..n /\ n + 1 - (n + 1 - d) = d
  BY <1>1
<1>3. k \in {s[i].node : i \in {i \in 1..Len(s) : s[i].fn = "SwapOutVirt"}} <=>
        \E i \in 1..n : s[i].fn = "SwapOutVirt" /\ s[i].node = k
  OBVIOUS
<1> QED
  BY <1>2, <1>3 DEF At

LEMMA LeavingIs ==
    ASSUME stack \in Seq(Frames), NEW k
    PROVE  k \in Leaving <=> \E d \in 1..Depth : Frame(d).fn = "SwapOutVirt" /\ Frame(d).node = k
BY MovingIs DEF Leaving, Depth, Frame

LEMMA LeavingThenIs ==
    ASSUME stack' \in Seq(Frames), NEW k
    PROVE  k \in Leaving' <=> \E d \in 1..Depth' : Frame(d)'.fn = "SwapOutVirt" /\ Frame(d)'.node = k
BY MovingIs DEF Leaving, Depth, Frame

SamePlace(o) == (HasPlace(o)' <=> HasPlace(o)) /\ (HasPlace(o) => PlaceOf(o)' = PlaceOf(o))

LEMMA PlacesKept ==
    ASSUME \A o \in Owners : SamePlace(o)
    PROVE  Places' = Places
<1>1. \A o \in Owners : HasPlace(o)' <=> HasPlace(o)
  BY DEF SamePlace
<1>2. \A o \in Owners : HasPlace(o) => PlaceOf(o)' = PlaceOf(o)
  BY DEF SamePlace
<1>3. {o \in Owners : HasPlace(o)'} = {o \in Owners : HasPlace(o)}
  BY <1>1
<1>4. Places' = [o \in {o \in Owners : HasPlace(o)'} |-> PlaceOf(o)']
  BY DEF Places, Owners
<1> QED
  BY <1>2, <1>3, <1>4 DEF Places

LEMMA PlaceGained ==
    ASSUME NEW o \in Owners, ~HasPlace(o), HasPlace(o)',
           \A q \in Owners \ {o} : SamePlace(q)
    PROVE  o \notin DOMAIN Places /\ Places' = With(Places, o, PlaceOf(o)')
<1>1. \A q \in Owners \ {o} : HasPlace(q)' <=> HasPlace(q)
  BY DEF SamePlace
<1>2. \A q \in Owners \ {o} : HasPlace(q) => PlaceOf(q)' = PlaceOf(q)
  BY DEF SamePlace
<1>3. {q \in Owners : HasPlace(q)'} = {q \in Owners : HasPlace(q)} \union {o}
  BY <1>1
<1>4. Places' = [q \in {q \in Owners : HasPlace(q)'} |-> PlaceOf(q)']
  BY DEF Places, Owners
<1> QED
  BY <1>2, <1>3, <1>4 DEF Places, With

LEMMA PlaceMoved ==
    ASSUME NEW o \in Owners, HasPlace(o), HasPlace(o)',
           \A q \in Owners \ {o} : SamePlace(q)
    PROVE  /\ o \in DOMAIN Places /\ Places[o] = PlaceOf(o)
           /\ Places' = [Places EXCEPT ![o] = PlaceOf(o)']
<1>1. \A q \in Owners \ {o} : HasPlace(q)' <=> HasPlace(q)
  BY DEF SamePlace
<1>2. \A q \in Owners \ {o} : HasPlace(q) => PlaceOf(q)' = PlaceOf(q)
  BY DEF SamePlace
<1>3. {q \in Owners : HasPlace(q)'} = {q \in Owners : HasPlace(q)}
  BY <1>1
<1>4. Places' = [q \in {q \in Owners : HasPlace(q)'} |-> PlaceOf(q)']
  BY DEF Places, Owners
<1> QED
  BY <1>2, <1>3, <1>4 DEF Places

LEMMA PlacePassed ==
    ASSUME NEW o \in Owners, NEW q \in Owners, HasPlace(o), ~HasPlace(o)',
           ~HasPlace(q), HasPlace(q)', PlaceOf(q)' = PlaceOf(o),
           \A x \in Owners \ {o, q} : SamePlace(x)
    PROVE  /\ o \in DOMAIN Places /\ q \notin DOMAIN Places /\ Places[o] = PlaceOf(o)
           /\ Places' = With(Without(Places, o), q, Places[o])
<1>1. \A x \in Owners \ {o, q} : HasPlace(x)' <=> HasPlace(x)
  BY DEF SamePlace
<1>2. \A x \in Owners \ {o, q} : HasPlace(x) => PlaceOf(x)' = PlaceOf(x)
  BY DEF SamePlace
<1>3. {x \in Owners : HasPlace(x)'} = ({x \in Owners : HasPlace(x)} \ {o}) \union {q}
  BY <1>1
<1>4. Places' = [x \in {x \in Owners : HasPlace(x)'} |-> PlaceOf(x)']
  BY DEF Places, Owners
<1>5. o # q
  OBVIOUS
<1> QED
  BY <1>2, <1>3, <1>4, <1>5 DEF Places, With, Without

(* What the place of an owner of each kind depends on. *)
LEMMA NodeSame ==
    ASSUME NEW o \in Owners, o.kind = "node",
           o.no \in 1..Len(SegTab') <=> o.no \in 1..Len(SegTab),
           o.no \in 1..Len(SegTab) =>
             /\ SegTab'[o.no].loc = SegTab[o.no].loc /\ SegTab'[o.no].size = SegTab[o.no].size
             /\ (SegTab'[o.no].inmem \/ o.no \in Leaving') <=> (SegTab[o.no].inmem \/ o.no \in Leaving)
    PROVE  SamePlace(o)
<1>1. o.kind # "huge" /\ o.kind # "reloc" /\ o.kind # "new"
  OBVIOUS
<1>2. HasPlace(o)' <=> HasPlace(o)
  BY <1>1 DEF HasPlace
<1>3. ASSUME HasPlace(o) PROVE PlaceOf(o)' = PlaceOf(o)
  <2>1. o.no \in 1..Len(SegTab)
    BY <1>1, <1>3 DEF HasPlace
  <2> QED
    BY <1>1, <2>1 DEF PlaceOf
<1> QED
  BY <1>2, <1>3 DEF SamePlace

LEMMA HugeSame ==
    ASSUME NEW o \in Owners, o.kind = "huge",
           o.no \in 1..Len(HugeTab') <=> o.no \in 1..Len(HugeTab),
           o.no \in 1..Len(HugeTab) => HugeTab'[o.no] = HugeTab[o.no]
    PROVE  SamePlace(o)
<1>1. o.kind # "node" /\ o.kind # "reloc" /\ o.kind # "new"
  OBVIOUS
<1>2. HasPlace(o)' <=> HasPlace(o)
  BY <1>1 DEF HasPlace
<1>3. ASSUME HasPlace(o) PROVE PlaceOf(o)' = PlaceOf(o)
  <2>1. o.no \in 1..Len(HugeTab)
    BY <1>1, <1>3 DEF HasPlace
  <2> QED
    BY <1>1, <2>1 DEF PlaceOf, SubSize
<1> QED
  BY <1>2, <1>3 DEF SamePlace

LEMMA RelocSame ==
    ASSUME NEW o \in Owners, o.kind = "reloc",
           o.no \in 1..Len(relocs') <=> o.no \in 1..Len(relocs),
           o.no \in 1..Len(relocs) => /\ RelocAt(o.no)'.spilled = RelocAt(o.no).spilled
                                      /\ RelocAt(o.no)'.loc = RelocAt(o.no).loc
    PROVE  SamePlace(o)
<1>1. o.kind # "node" /\ o.kind # "huge" /\ o.kind # "new"
  OBVIOUS
<1>2. HasPlace(o)' <=> HasPlace(o)
  BY <1>1 DEF HasPlace
<1>3. ASSUME HasPlace(o) PROVE PlaceOf(o)' = PlaceOf(o)
  <2>1. o.no \in 1..Len(relocs)
    BY <1>1, <1>3 DEF HasPlace
  <2> QED
    BY <1>1, <2>1 DEF PlaceOf
<1> QED
  BY <1>2, <1>3 DEF SamePlace

LEMMA NewSame ==
    ASSUME NEW o \in Owners, o.kind = "new", ret' = ret,
           ret # 0 => Len(ram'[ret]) = Len(ram[ret])
    PROVE  SamePlace(o)
<1>1. o.kind # "node" /\ o.kind # "huge" /\ o.kind # "reloc"
  OBVIOUS
<1>2. HasPlace(o)' <=> HasPlace(o)
  BY <1>1 DEF HasPlace
<1>3. ASSUME HasPlace(o) PROVE PlaceOf(o)' = PlaceOf(o)
  <2>1. ret # 0
    BY <1>1, <1>3 DEF HasPlace
  <2> QED
    BY <1>1, <2>1 DEF PlaceOf
<1> QED
  BY <1>2, <1>3 DEF SamePlace

LEMMA OwnersAre ==
    ASSUME NEW o \in Owners
    PROVE  /\ o.kind \in {"node", "huge", "reloc", "new"} /\ o.no \in Nat /\ o.sub \in Nat
           /\ o = [kind |-> o.kind, no |-> o.no, sub |-> o.sub]
BY DEF Owners

LEMMA TheyAreOwners ==
    /\ \A k \in Nat : NodeNo(k) \in Owners
    /\ \A p, s \in Nat : HugeNo(p, s) \in Owners
    /\ \A n \in Nat : RelocNo(n) \in Owners
    /\ NewBlock \in Owners
BY DEF NodeNo, HugeNo, RelocNo, NewBlock, Owners

LEMMA NodePlace ==
    ASSUME NEW k \in Nat
    PROVE  /\ NodeNo(k) \in DOMAIN Places <=> k \in 1..Len(SegTab) /\ SegTab[k].loc # 0
           /\ HasPlace(NodeNo(k)) <=> k \in 1..Len(SegTab) /\ SegTab[k].loc # 0
           /\ PlaceOf(NodeNo(k)) = IF SegTab[k].inmem \/ k \in Leaving
                                   THEN InRam(SegTab[k].loc, SegTab[k].size)
                                   ELSE InFile(SegTab[k].loc, SegTab[k].size)
<1>1. NodeNo(k) \in Owners
  BY TheyAreOwners
<1>2. NodeNo(k).kind = "node" /\ NodeNo(k).no = k /\ NodeNo(k).sub = 0
  BY DEF NodeNo
<1>3. HasPlace(NodeNo(k)) <=> k \in 1..Len(SegTab) /\ SegTab[k].loc # 0
  BY <1>2 DEF HasPlace
<1> QED
  BY <1>1, <1>2, <1>3 DEF Places, PlaceOf

LEMMA HugePlace ==
    ASSUME NEW p \in Nat, NEW s \in Nat
    PROVE  /\ HugeNo(p, s) \in DOMAIN Places <=>
                p \in 1..Len(HugeTab) /\ s \in 1..Len(HugeTab[p].page) /\ HugeTab[p].page[s] # 0
           /\ HasPlace(HugeNo(p, s)) <=>
                p \in 1..Len(HugeTab) /\ s \in 1..Len(HugeTab[p].page) /\ HugeTab[p].page[s] # 0
           /\ PlaceOf(HugeNo(p, s)) = IF s > HugeTab[p].numswapped
                                      THEN InRam(HugeTab[p].page[s], SubSize(p, s))
                                      ELSE InFile(HugeTab[p].page[s], SubSize(p, s))
<1>1. HugeNo(p, s) \in Owners
  BY TheyAreOwners
<1>2. HugeNo(p, s).kind = "huge" /\ HugeNo(p, s).no = p /\ HugeNo(p, s).sub = s
  BY DEF HugeNo
<1>3. HasPlace(HugeNo(p, s)) <=>
        p \in 1..Len(HugeTab) /\ s \in 1..Len(HugeTab[p].page) /\ HugeTab[p].page[s] # 0
  BY <1>2 DEF HasPlace
<1> QED
  BY <1>1, <1>2, <1>3 DEF Places, PlaceOf

LEMMA RelocPlace ==
    ASSUME NEW n \in Nat
    PROVE  /\ RelocNo(n) \in DOMAIN Places <=> n \in 1..Len(relocs)
           /\ HasPlace(RelocNo(n)) <=> n \in 1..Len(relocs)
           /\ PlaceOf(RelocNo(n)) = IF RelocAt(n).spilled THEN InFile(RelocAt(n).loc, RelocCells)
                                    ELSE InRam(RelocAt(n).loc, RelocCells)
<1>1. RelocNo(n) \in Owners
  BY TheyAreOwners
<1>2. RelocNo(n).kind = "reloc" /\ RelocNo(n).no = n /\ RelocNo(n).sub = 0
  BY DEF RelocNo
<1>3. HasPlace(RelocNo(n)) <=> n \in 1..Len(relocs)
  BY <1>2 DEF HasPlace
<1> QED
  BY <1>1, <1>2, <1>3 DEF Places, PlaceOf

LEMMA NewPlace ==
    /\ NewBlock \in DOMAIN Places <=> ret # 0
    /\ HasPlace(NewBlock) <=> ret # 0
    /\ PlaceOf(NewBlock) = InRam(ret, Len(ram[ret]))
<1>1. NewBlock \in Owners
  BY TheyAreOwners
<1>2. NewBlock.kind = "new" /\ NewBlock.no = 0 /\ NewBlock.sub = 0
  BY DEF NewBlock
<1>3. HasPlace(NewBlock) <=> ret # 0
  BY <1>2 DEF HasPlace
<1> QED
  BY <1>1, <1>2, <1>3 DEF Places, PlaceOf

LEMMA PlacesAre ==
    ASSUME NEW o \in DOMAIN Places
    PROVE  o \in Owners /\ HasPlace(o) /\ Places[o] = PlaceOf(o)
BY DEF Places
----------------------------------------------------------------------------
(* What the type invariant says of the tables' entries. *)
RelocSet == [left : 0..RelocCells, spilled : BOOLEAN, loc : Nat]

LEMMA TypesAre ==
    ASSUME TypeOK
    PROVE  /\ SegTab \in Seq(NodeSet) /\ HugeTab \in Seq(HugeSet) /\ relocs \in Seq(RelocSet)
           /\ Len(SegTab) \in Nat /\ Len(HugeTab) \in Nat /\ Len(relocs) \in Nat
           /\ \A k \in 1..Len(SegTab) : k \in Nat /\ SegTab[k].size \in 1..NodeCells /\ SegTab[k].loc \in Nat
           /\ \A p \in 1..Len(HugeTab) :
                /\ p \in Nat /\ HugeTab[p].numthere \in 1..Subpages
                /\ HugeTab[p].numswapped \in 0..Subpages /\ HugeTab[p].sizelast \in 1..SubCells
                /\ HugeTab[p].page \in Seq(Nat) /\ Len(HugeTab[p].page) \in {0, HugeTab[p].numthere}
           /\ \A i \in 1..Len(relocs) :
                i \in Nat /\ relocs[i].left \in 0..RelocCells /\ relocs[i].loc \in Nat
           /\ NextSwap \in Seq(1..Len(SegTab)) /\ Len(NextSwap) \in Nat
           /\ \A i \in 1..Len(NextSwap) : NextSwap[i] \in 1..Len(SegTab)
<1>1. /\ SegTab \in Seq(NodeSet) /\ HugeTab \in Seq(HugeSet) /\ relocs \in Seq(RelocSet)
      /\ \A p \in 1..Len(HugeTab) : Len(HugeTab[p].page) \in {0, HugeTab[p].numthere}
  BY DEF TypeOK, NodeSet, HugeSet, RelocSet
<1>2. Len(SegTab) \in Nat /\ Len(HugeTab) \in Nat /\ Len(relocs) \in Nat
  BY <1>1
<1>3. \A k \in 1..Len(SegTab) : k \in Nat /\ SegTab[k] \in NodeSet
  BY <1>1
<1>4. \A p \in 1..Len(HugeTab) : p \in Nat /\ HugeTab[p] \in HugeSet
  BY <1>1
<1>5. \A i \in 1..Len(relocs) : i \in Nat /\ relocs[i] \in RelocSet
  BY <1>1
<1>6. \A x \in NodeSet : x.size \in 1..NodeCells /\ x.loc \in Nat
  BY DEF NodeSet
<1>7. \A x \in HugeSet : /\ x.numthere \in 1..Subpages /\ x.numswapped \in 0..Subpages
                         /\ x.sizelast \in 1..SubCells /\ x.page \in Seq(Nat)
  BY DEF HugeSet
<1>8. \A x \in RelocSet : x.left \in 0..RelocCells /\ x.loc \in Nat
  BY DEF RelocSet
<1>9. NextSwap \in Seq(1..Len(SegTab))
  BY DEF TypeOK
<1>10. Len(NextSwap) \in Nat /\ \A i \in 1..Len(NextSwap) : NextSwap[i] \in 1..Len(SegTab)
  BY <1>9
<1> QED
  BY <1>1, <1>2, <1>3, <1>4, <1>5, <1>6, <1>7, <1>8, <1>9, <1>10

----------------------------------------------------------------------------
(***************************************************************************)
(* The frames that a step leaves on the stack stay in place.                *)
(***************************************************************************)
LEMMA FrameKinds ==
    ASSUME NEW f \in Frames
    PROVE  /\ f.fn = "ScanNodes" => f.addr \in Nat /\ f.len \in Nat
                                    /\ f.op \in {"PutInfo", "PutNulls", "ReadInfo", "CompareInfo"}
           /\ f.fn = "AllocNode" => f.node \in Nat
           /\ f.fn = "AllocHugeNode" => f.page \in Nat /\ f.index \in Nat /\ f.nomem \in BOOLEAN
           /\ f.fn = "LAlloc" => f.size \in Nat \ {0} /\ f.use \in {"page", "name", "other"}
           /\ f.fn = "SwapOutVirt" => f.node \in Nat
           /\ f.fn = "SpillRelocList" => f.block \in Nat
           /\ f.fn \in {"ScanNodes", "AllocNode", "AllocHugeNode", "AllocRelocInfo", "LAlloc",
                        "SwapOutVirt", "SpillRelocList"}
BY DEF Frames

(* What a step with m frames kept and l after it has to leave alone. *)
Quiet(m, l) ==
    /\ \A d \in 1..m : Frame(d)' = Frame(d)
    /\ owned' = owned /\ HugeTab' = HugeTab /\ Len(SegTab') = Len(SegTab)
    /\ \A k \in 1..Len(SegTab) : /\ SegTab'[k].size = SegTab[k].size
                                 /\ SegTab'[k].loc = 0 <=> SegTab[k].loc = 0
                                 /\ SegTab'[k].inmem => SegTab[k].inmem
    /\ Len(relocs') = Len(relocs) /\ RelocLeft' = RelocLeft
    /\ \A d \in 1..m : Frame(d).fn = "SpillRelocList" => ~relocs'[Frame(d).block].spilled
    /\ \A d \in 1..m : Frame(d).fn = "AllocHugeNode" => Frame(d).nomem = FALSE
    /\ \A d \in 1..m : Frame(d).fn = "LAlloc" =>
         /\ ret' = 0
         /\ Frame(d).use = "other" => other' = other
         /\ Frame(d).use = "name" => TempFile' = FALSE /\ (d < l => cache' = 0 /\ room' < NameCells)

LEMMA CallsKept ==
    ASSUME Calls, NEW n, n = Depth, n \in Nat, NEW m \in 0..n,
           NEW l \in Nat, l = Depth', m <= l, Quiet(m, l)
    PROVE  \A d \in 1..m : InPlace(d)'
<1> SUFFICES ASSUME NEW d \in 1..m PROVE InPlace(d)'
  OBVIOUS
<1>1. InPlace(d) /\ d \in 1..Depth
  BY DEF Calls
<1>2. Frame(d)' = Frame(d) /\ (d > 1 => d - 1 \in 1..m /\ Frame(d - 1)' = Frame(d - 1))
  BY DEF Quiet
<1>3. d = 1 \/ d > 1
  OBVIOUS
<1>4. \A fns : Under(d, fns)' <=> Under(d, fns)
  BY <1>2, <1>3 DEF Under
<1>5. /\ owned' = owned /\ HugeTab' = HugeTab /\ Len(SegTab') = Len(SegTab)
      /\ Len(relocs') = Len(relocs) /\ RelocLeft' = RelocLeft
  BY DEF Quiet
<1>6. Scanning(d)'
  BY <1>1, <1>2, <1>5 DEF InPlace, Scanning
<1>7. AddingNode(d)'
  BY <1>1, <1>2, <1>5 DEF InPlace, AddingNode, Quiet
<1>8. AddingHuge(d)'
  <2>1. Frame(d).fn = "AllocHugeNode" => Frame(d).nomem = FALSE
    BY DEF Quiet
  <2> QED
    BY <1>1, <1>2, <1>5, <2>1 DEF InPlace, AddingHuge
<1>9. AddingReloc(d)'
  BY <1>1, <1>2, <1>5 DEF InPlace, AddingReloc
<1>10. Asking(d)'
  <2> SUFFICES ASSUME Frame(d).fn = "LAlloc" PROVE Asking(d)'
    BY <1>2 DEF Asking
  <2>1. /\ ret' = 0
        /\ Frame(d).use = "other" => other' = other
        /\ Frame(d).use = "name" => TempFile' = FALSE /\ (d < l => cache' = 0 /\ room' < NameCells)
    BY DEF Quiet
  <2>2. Frame(d).use = "other" => d = 1 /\ other' + Frame(d).size <= MaxOther
    BY <1>1, <2>1 DEF InPlace, Asking
  <2>3. Frame(d).use = "name" =>
           /\ Under(d, Askers \union Movers)' /\ Frame(d).size = NameCells /\ ~TempFile'
           /\ d < l => cache' = 0 /\ room' < NameCells
    BY <1>1, <1>4, <2>1 DEF InPlace, Asking
  <2>4. ASSUME Frame(d).use = "page"
        PROVE  Under(d, Askers)' /\ Frame(d).size = NeededBy(Frame(d - 1))'
    <3>1. Under(d, Askers) /\ Frame(d).size = NeededBy(Frame(d - 1))
      BY <1>1, <2>4 DEF InPlace, Asking
    <3>2. d > 1 /\ InPlace(d - 1) /\ Frame(d - 1)' = Frame(d - 1)
      BY <1>2, <3>1 DEF Under, Calls
    <3>3. \A f : NeededBy(f)' = IF f.fn = "AllocNode" THEN SegTab'[f.node].size
                                ELSE IF f.fn = "AllocHugeNode" THEN SubSize(f.page, f.index)
                                ELSE RelocCells
      BY <1>5 DEF NeededBy, SubSize
    <3>4. Frame(d - 1).fn = "AllocNode" => SegTab'[Frame(d - 1).node].size = SegTab[Frame(d - 1).node].size
      BY <3>2 DEF InPlace, AddingNode, Quiet
    <3>5. NeededBy(Frame(d - 1))' = NeededBy(Frame(d - 1))
      BY <3>2, <3>3, <3>4 DEF NeededBy
    <3> QED
      BY <1>4, <3>1, <3>5
  <2> QED
    BY <1>2, <2>1, <2>2, <2>3, <2>4 DEF Asking
<1>11. SwappingNode(d)'
  <2> SUFFICES ASSUME Frame(d).fn = "SwapOutVirt" PROVE SwappingNode(d)'
    BY <1>2 DEF SwappingNode
  <2>1. /\ Under(d, {"LAlloc"}) /\ Frame(d).node \in 1..Len(SegTab)
        /\ SegTab[Frame(d).node].loc # 0 /\ ~SegTab[Frame(d).node].inmem
    BY <1>1 DEF InPlace, SwappingNode
  <2>2. SegTab'[Frame(d).node].loc # 0 /\ ~SegTab'[Frame(d).node].inmem
    BY <2>1 DEF Quiet
  <2> QED
    BY <1>2, <1>4, <1>5, <2>1, <2>2 DEF SwappingNode
<1>12. SpillingReloc(d)'
  <2>1. Frame(d).fn = "SpillRelocList" => ~relocs'[Frame(d).block].spilled
    BY DEF Quiet
  <2> QED
    BY <1>1, <1>2, <1>4, <1>5, <2>1 DEF InPlace, SpillingReloc
<1> QED
  BY <1>6, <1>7, <1>8, <1>9, <1>10, <1>11, <1>12 DEF InPlace
----------------------------------------------------------------------------
(***************************************************************************)
(* The invariant in two parts: who calls whom and what the tables say; and  *)
(* the places, with what their cells hold.                                  *)
(***************************************************************************)
Data == Memory(Places, ram, spill) /\ RelocValues /\ NewIsFresh

(* The pages among the owners, and a step that changes no cell of theirs:   *)
(* a page that gets a place has not been written.                           *)
PagesPlaced == {o \in DOMAIN Places : o.kind \in {"node", "huge"}}
CellsKept ==
    /\ PagesPlaced \subseteq DOMAIN Places'
    /\ SameValues(PagesPlaced, Places, ram, spill, Places', ram', spill')
    /\ \A o \in DOMAIN Places' \ DOMAIN Places : o.kind \in {"node", "huge"} =>
         \A j \in 1..Places'[o].size : Value(Places', ram', spill', o, j) \in {Fresh, Hole}

LEMMA IInvIs ==
    IInv <=> Control /\ Accounted /\ Data
BY DEF IInv, Data

LEMMA UnplacedKept ==
    ASSUME NEW n \in Nat, n = Depth, NEW l \in Nat, l = Depth', NEW m \in Nat, m <= n, m <= l,
           \A d \in 1..m : Frame(d)' = Frame(d),
           \A d \in (m + 1)..n : Frame(d).fn # "AllocHugeNode",
           \A d \in (m + 1)..l : Frame(d)'.fn # "AllocHugeNode"
    PROVE  \A p, s : Unplaced(p, s)' <=> Unplaced(p, s)
<1> SUFFICES ASSUME NEW p, NEW s PROVE Unplaced(p, s)' <=> Unplaced(p, s)
  OBVIOUS
<1>1. ASSUME Unplaced(p, s) PROVE Unplaced(p, s)'
  <2>1. PICK d \in 1..n : Frame(d).fn = "AllocHugeNode" /\ Frame(d).page = p /\ s <= Frame(d).index
    BY <1>1 DEF Unplaced
  <2>2. d \in 1..m /\ d \in 1..l
    BY <2>1
  <2> QED
    BY <2>1, <2>2 DEF Unplaced
<1>2. ASSUME Unplaced(p, s)' PROVE Unplaced(p, s)
  <2>1. PICK d \in 1..l : Frame(d)'.fn = "AllocHugeNode" /\ Frame(d)'.page = p /\ s <= Frame(d)'.index
    BY <1>2 DEF Unplaced
  <2>2. d \in 1..m /\ d \in 1..n
    BY <2>1
  <2> QED
    BY <2>1, <2>2 DEF Unplaced
<1> QED
  BY <1>1, <1>2

LEMMA LeavingKept ==
    ASSUME NEW n \in Nat, n = Depth, NEW l \in Nat, l = Depth', NEW m \in Nat, m <= n, m <= l,
           stack \in Seq(Frames), stack' \in Seq(Frames),
           \A d \in 1..m : Frame(d)' = Frame(d),
           \A d \in (m + 1)..n : Frame(d).fn # "SwapOutVirt",
           \A d \in (m + 1)..l : Frame(d)'.fn # "SwapOutVirt"
    PROVE  \A k : k \in Leaving' <=> k \in Leaving
<1> SUFFICES ASSUME NEW k PROVE k \in Leaving' <=> k \in Leaving
  OBVIOUS
<1>1. ASSUME k \in Leaving PROVE k \in Leaving'
  <2>1. PICK d \in 1..n : Frame(d).fn = "SwapOutVirt" /\ Frame(d).node = k
    BY <1>1, LeavingIs
  <2>2. d \in 1..m /\ d \in 1..l
    BY <2>1
  <2>3. \E e \in 1..Depth' : Frame(e)'.fn = "SwapOutVirt" /\ Frame(e)'.node = k
    BY <2>1, <2>2
  <2> QED
    BY <2>3, LeavingThenIs
<1>2. ASSUME k \in Leaving' PROVE k \in Leaving
  <2>1. PICK d \in 1..l : Frame(d)'.fn = "SwapOutVirt" /\ Frame(d)'.node = k
    BY <1>2, LeavingThenIs
  <2>2. d \in 1..m /\ d \in 1..n
    BY <2>1
  <2> QED
    BY <2>1, <2>2, LeavingIs
<1> QED
  BY <1>1, <1>2

LEMMA HugePagesKept ==
    ASSUME HugePages, HugeTab' = HugeTab, \A p, s : Unplaced(p, s)' <=> Unplaced(p, s)
    PROVE  HugePages'
BY DEF HugePages

LEMMA DistinctKept ==
    ASSUME Distinct, NEW n \in Nat, n = Depth, NEW l \in Nat, l = Depth',
           NEW m \in Nat, m <= n, m <= l,
           \A d \in 1..m : Frame(d)' = Frame(d),
           \A d \in (m + 1)..l : Frame(d)'.fn # "SwapOutVirt"
    PROVE  Distinct'
<1>1. \A d \in 1..l : Frame(d)'.fn = "SwapOutVirt" => d \in 1..m /\ d \in 1..n /\ Frame(d)' = Frame(d)
  OBVIOUS
<1> QED
  BY <1>1 DEF Distinct

(* The relocations keep their values. *)
LEMMA RelocValuesKept ==
    ASSUME TypeOK, RelocValues, Len(relocs') = Len(relocs),
           \A n \in 1..Len(relocs) : RelocAt(n)'.left = RelocAt(n).left,
           NEW S, \A n \in 1..Len(relocs) : RelocNo(n) \in S,
           SameValues(S, Places, ram, spill, Places', ram', spill')
    PROVE  RelocValues'
<1> SUFFICES ASSUME NEW n \in 1..Len(relocs'), NEW j \in 1..(RelocCells - RelocAt(n)'.left)
             PROVE  Value(Places', ram', spill', RelocNo(n), j) = Item((n - 1) * RelocCells + j - 1)
  BY DEF RelocValues, Item, EndAddr, HugeBase, HugeCells, RelocNo, Value
<1>1. /\ Len(relocs) \in Nat /\ n \in 1..Len(relocs) /\ n \in Nat
      /\ \A i \in 1..Len(relocs) : relocs[i].left \in 0..RelocCells
  <2>1. Len(relocs) \in Nat /\ n \in 1..Len(relocs)
    BY TypesAre
  <2> QED
    BY <2>1, TypesAre
<1>2. Len(relocs) + 1 - n \in 1..Len(relocs)
  BY <1>1
<1>3. j \in 1..(RelocCells - RelocAt(n).left) /\ RelocAt(n).left \in 0..RelocCells
  BY <1>1, <1>2 DEF RelocAt
<1>4. Places[RelocNo(n)].size = RelocCells
  <2>1. /\ RelocNo(n) \in DOMAIN Places
        /\ PlaceOf(RelocNo(n)) = IF RelocAt(n).spilled THEN InFile(RelocAt(n).loc, RelocCells)
                                 ELSE InRam(RelocAt(n).loc, RelocCells)
    BY <1>1, RelocPlace
  <2>2. Places[RelocNo(n)] = PlaceOf(RelocNo(n))
    BY <2>1, PlacesAre
  <2> QED
    BY <2>1, <2>2 DEF InFile, InRam
<1>5. j \in 1..RelocCells
  BY <1>3, Constants
<1>6. Value(Places', ram', spill', RelocNo(n), j) = Value(Places, ram, spill, RelocNo(n), j)
  BY <1>1, <1>4, <1>5 DEF SameValues
<1> QED
  BY <1>1, <1>3, <1>6 DEF RelocValues

LEMMA SameIsSame ==
    ASSUME NEW S, NEW P, NEW r, NEW f
    PROVE  SameValues(S, P, r, f, P, r, f)
BY DEF SameValues

(* A step that leaves all that is placed alone. *)
LEMMA DataSame ==
    ASSUME TypeOK, Data, Places' = Places, UNCHANGED <<ram, spill, ret>>,
           Len(relocs') = Len(relocs), \A n \in 1..Len(relocs) : RelocAt(n)'.left = RelocAt(n).left
    PROVE  Data' /\ CellsKept
<1>1. /\ SameValues(PagesPlaced, Places, ram, spill, Places', ram', spill')
      /\ SameValues(DOMAIN Places, Places, ram, spill, Places', ram', spill')
  BY SameIsSame
<1>2. \A n \in 1..Len(relocs) : RelocNo(n) \in DOMAIN Places
  <2> TAKE n \in 1..Len(relocs)
  <2>1. n \in Nat
    BY DEF TypeOK
  <2> QED
    BY <2>1, RelocPlace
<1>3. RelocValues'
  BY <1>1, <1>2, RelocValuesKept DEF Data
<1>4. Memory(Places', ram', spill') /\ NewIsFresh'
  BY DEF Data, NewIsFresh, Fresh
<1>5. CellsKept
  BY <1>1 DEF CellsKept, PagesPlaced
<1> QED
  BY <1>3, <1>4, <1>5 DEF Data

LEMMA StillPlaces ==
    ASSUME UNCHANGED <<SegTab, HugeTab, ret, ram>>, \A k : k \in Leaving' <=> k \in Leaving,
           Len(relocs') = Len(relocs),
           \A n \in 1..Len(relocs) : /\ RelocAt(n)'.spilled = RelocAt(n).spilled
                                     /\ RelocAt(n)'.loc = RelocAt(n).loc
    PROVE  Places' = Places
<1>1. ASSUME NEW o \in Owners PROVE SamePlace(o)
  <2>1. CASE o.kind = "node"
    BY <2>1, NodeSame
  <2>2. CASE o.kind = "huge"
    BY <2>2, HugeSame
  <2>3. CASE o.kind = "reloc"
    BY <2>3, RelocSame
  <2>4. CASE o.kind = "new"
    BY <2>4, NewSame
  <2> QED
    BY <2>1, <2>2, <2>3, <2>4, OwnersAre
<1> QED
  BY <1>1, PlacesKept
----------------------------------------------------------------------------
(***************************************************************************)
(* What the other structures and the caches take and give back.             *)
(***************************************************************************)
LEMMA RoomThenIs ==
    ASSUME Accounted', room' \in Nat, cache' \in Nat, other' \in Nat, IsFiniteSet(CellsIn(ram'))
    PROVE  room' <= HeapCells
<1>1. Cardinality(CellsIn(ram')) \in Nat
  BY FS_CardinalityType
<1> DEFINE c == Cardinality(CellsIn(ram'))
           t == IF TempFile' THEN NameCells ELSE 0
<1>2. t \in Nat /\ c \in Nat
  BY <1>1, Constants
<1>3. room' + cache' + other' + t + c = HeapCells
  BY DEF Accounted, CellsIn
<1> HIDE DEF c, t
<1> QED
  BY <1>2, <1>3

LEMMA WiderSeq ==
    ASSUME NEW A, NEW B, A \subseteq B, NEW s \in Seq(A)
    PROVE  s \in Seq(B)
OBVIOUS

LEMMA NoCalls ==
    ASSUME stack = <<>>
    PROVE  /\ Depth = 0 /\ stack \in Seq(Frames)
           /\ \A p, s : ~Unplaced(p, s)
           /\ Leaving = {}
<1>1. Depth = 0
  BY DEF Depth
<1>2. \A p, s : ~Unplaced(p, s)
  BY <1>1 DEF Unplaced
<1>3. Leaving = {}
  BY DEF Leaving
<1> QED
  BY <1>1, <1>2, <1>3

LEMMA NoCallsThen ==
    ASSUME stack' = <<>>, ret' = 0
    PROVE  /\ Depth' = 0 /\ stack' \in Seq(Frames) /\ Calls'
           /\ \A p, s : ~Unplaced(p, s)'
           /\ Leaving' = {}
<1>1. Depth' = 0
  BY DEF Depth
<1>2. \A p, s : ~Unplaced(p, s)'
  BY <1>1 DEF Unplaced
<1>3. Leaving' = {}
  BY DEF Leaving
<1>4. Calls'
  BY <1>1 DEF Calls, Distinct, InHand
<1> QED
  BY <1>1, <1>2, <1>3, <1>4

(* Nothing is in hand between two requests. *)
LEMMA IdleRet ==
    ASSUME Calls, stack = <<>>
    PROVE  ret = 0
BY NoCalls DEF Calls, InHand

----------------------------------------------------------------------------
(***************************************************************************)
(* The requests.                                                            *)
(***************************************************************************)
LEMMA AllocStgStep ==
    ASSUME IInv, NEW size \in Sizes, AllocStg(size)
    PROVE  IInv' /\ CellsKept
<1>1. /\ TypeOK /\ Kinds /\ Storage /\ Calls /\ HugePages /\ SwapList
      /\ Accounted /\ Data
  BY IInvIs DEF Control
<1>2. /\ stack = <<>> /\ ret = 0
      /\ UNCHANGED <<NextSwap, relocs, ram, room, cache, other, TempFile, spill, stack, ret, status>>
  BY <1>1, IdleRet DEF AllocStg, heap, file
<1>3. /\ Added /\ Storage' /\ tiny' \in [left : 0..NodeCells, addr : Nat]
      /\ owned' \subseteq [addr : Addr, len : Sizes]
  <2>1. CASE size <= TinyCells /\ AllocTinyStg(size)
    BY <1>1, <2>1, TinyStorage
  <2>2. CASE /\ Len(HugeTab) + Pieces(size, HugeCells) <= MaxHuge
             /\ HugeTab' = HugeTab \o GetBigStg(size)
             /\ Give(HugeBase + Len(HugeTab) * HugeCells, size)
             /\ UNCHANGED <<SegTab, tiny>>
    <3>1. Added /\ Storage' /\ owned' \subseteq [addr : Addr, len : Sizes]
      BY <1>1, <2>2, HugeStorage
    <3> QED
      BY <1>1, <2>2, <3>1 DEF TypeOK
  <2>3. CASE /\ Len(SegTab) + Pieces(size, NodeCells) <= MaxNodes
             /\ SegTab' = SegTab \o GetStg(size, NodeCells)
             /\ Give((Len(SegTab) + 1) * NodeCells, size)
             /\ UNCHANGED <<HugeTab, tiny>>
    <3>1. Added /\ Storage' /\ owned' \subseteq [addr : Addr, len : Sizes]
      BY <1>1, <2>3, NodeStorage
    <3> QED
      BY <1>1, <2>3, <3>1 DEF TypeOK
  <2> QED
    BY <2>1, <2>2, <2>3 DEF AllocStg
<1> DEFINE n == Len(SegTab)
           h == Len(HugeTab)
<1>4. /\ n \in Nat /\ h \in Nat /\ Len(SegTab') \in Nat /\ Len(HugeTab') \in Nat
      /\ n <= Len(SegTab') /\ h <= Len(HugeTab')
  BY <1>1, <1>3, AddedIsLarger, TypesAre DEF Added
<1>5. /\ \A k \in 1..n : k \in 1..Len(SegTab') /\ SegTab'[k] = SegTab[k]
      /\ \A k \in 1..Len(SegTab') : k \notin 1..n => SegTab'[k].loc = 0 /\ ~SegTab'[k].inmem
      /\ \A p \in 1..h : p \in 1..Len(HugeTab') /\ HugeTab'[p] = HugeTab[p]
      /\ \A p \in 1..Len(HugeTab') : p \notin 1..h =>
           HugeTab'[p].page = <<>> /\ HugeTab'[p].numswapped = 0
  <2>1. /\ \A k \in 1..Len(SegTab') : k \notin 1..n => k \in (n + 1)..Len(SegTab')
        /\ \A p \in 1..Len(HugeTab') : p \notin 1..h => p \in (h + 1)..Len(HugeTab')
        /\ \A k \in 1..n : k \in 1..Len(SegTab')
        /\ \A p \in 1..h : p \in 1..Len(HugeTab')
    BY <1>4
  <2> QED
    BY <1>3, <2>1 DEF Added
<1>6. TypeOK'
  <2>1. /\ SegTab' \in Seq([size : 1..NodeCells, inmem : BOOLEAN, loc : Nat])
        /\ HugeTab' \in Seq([numthere : 1..Subpages, numswapped : 0..Subpages,
                             sizelast : 1..SubCells, page : Seq(Nat)])
    BY <1>3 DEF Added, NodeSet, HugeSet
  <2>2. ASSUME NEW p \in 1..Len(HugeTab')
        PROVE  /\ HugeTab'[p].numswapped <= HugeTab'[p].numthere
               /\ Len(HugeTab'[p].page) \in {0, HugeTab'[p].numthere}
    <3>1. CASE p \in 1..h
      BY <1>1, <1>5, <3>1 DEF TypeOK
    <3>2. CASE p \notin 1..h
      <4>1. HugeTab'[p].numthere \in 1..Subpages
        <5>1. HugeTab' \in Seq(HugeSet)
          BY <1>3 DEF Added
        <5>2. HugeTab'[p] \in HugeSet
          BY <5>1
        <5> QED
          BY <5>2 DEF HugeSet
      <4>2. HugeTab'[p].page = <<>> /\ HugeTab'[p].numswapped = 0
        BY <1>5, <3>2
      <4> QED
        BY <4>1, <4>2, Constants
    <3> QED
      BY <3>1, <3>2
  <2>3. NextSwap' \in Seq(1..Len(SegTab'))
    <3>1. 1..n \subseteq 1..Len(SegTab') /\ NextSwap \in Seq(1..n)
      BY <1>1, <1>5 DEF TypeOK
    <3> QED
      BY <1>2, <3>1, WiderSeq
  <2> QED
    BY <1>1, <1>2, <1>3, <2>1, <2>2, <2>3 DEF TypeOK, Addr, EndAddr, HugeBase, HugeCells
<1>7. Kinds'
  BY <1>1, <1>2, <1>3 DEF Kinds, Added, CellsIn, Frames
<1>8. Calls' /\ (\A p, s : ~Unplaced(p, s)') /\ Leaving' = {} /\ Leaving = {}
  BY <1>2, NoCallsThen, NoCalls
<1>9. HugePages'
  <2>2. ASSUME NEW p \in 1..Len(HugeTab'), HugeTab'[p].page = <<>>
        PROVE  HugeTab'[p].numswapped = 0
    BY <1>1, <1>5, <2>2 DEF HugePages
  <2> SUFFICES ASSUME NEW p \in 1..Len(HugeTab'), NEW s \in 1..Len(HugeTab'[p].page)
               PROVE  HugeTab'[p].page[s] # 0
    BY <1>8, <2>2 DEF HugePages
  <2>1. p \in 1..h
    <3>1. ASSUME HugeTab'[p].page = <<>> PROVE FALSE
      BY <3>1
    <3> QED
      BY <1>5, <3>1
  <2> QED
    BY <1>1, <1>2, <1>5, <2>1, NoCalls DEF HugePages
<1>10. SwapList'
  <2>1. \A i \in 1..Len(NextSwap) : NextSwap[i] \in 1..n
    BY <1>1, TypesAre
  <2>2. \A i \in 1..Len(NextSwap') : SegTab'[NextSwap'[i]].loc # 0
    BY <1>1, <1>2, <1>5, <2>1 DEF SwapList
  <2>3. \A k \in 1..Len(SegTab') : SegTab'[k].inmem => SegTab'[k].loc # 0
    BY <1>1, <1>5 DEF SwapList
  <2>4. SwapListExact'
    BY <1>1, <1>2, <1>5 DEF SwapList, SwapListExact
  <2> QED
    BY <2>2, <2>3, <2>4 DEF SwapList
<1>11. Accounted'
  BY <1>1, <1>2 DEF Accounted, CellsIn
<1>12. Places' = Places
  <2>1. ASSUME NEW o \in Owners PROVE SamePlace(o)
    <3>1. CASE o.kind = "node"
      <4>1. o.kind # "huge" /\ o.kind # "reloc" /\ o.kind # "new"
        BY <3>1
      <4>2. HasPlace(o)' <=> HasPlace(o)
        BY <1>5, <4>1 DEF HasPlace
      <4>3. ASSUME HasPlace(o) PROVE PlaceOf(o)' = PlaceOf(o)
        <5>1. o.no \in 1..n
          BY <3>1, <4>1, <4>3 DEF HasPlace
        <5> QED
          BY <1>5, <1>8, <3>1, <5>1 DEF PlaceOf
      <4> QED
        BY <4>2, <4>3 DEF SamePlace
    <3>2. CASE o.kind = "huge"
      <4>1. o.kind # "node" /\ o.kind # "reloc" /\ o.kind # "new"
        BY <3>2
      <4>2. HasPlace(o)' <=> HasPlace(o)
        <5>1. ASSUME NEW p \in 1..Len(HugeTab'), HugeTab'[p].page = <<>>
              PROVE  \A s : s \notin 1..Len(HugeTab'[p].page)
          BY <5>1
        <5> QED
          BY <1>5, <4>1, <5>1 DEF HasPlace
      <4>3. ASSUME HasPlace(o) PROVE PlaceOf(o)' = PlaceOf(o)
        <5>1. o.no \in 1..h
          BY <3>2, <4>1, <4>3 DEF HasPlace
        <5> QED
          BY <1>5, <3>2, <4>1, <5>1 DEF PlaceOf, SubSize
      <4> QED
        BY <4>2, <4>3 DEF SamePlace
    <3>3. CASE o.kind = "reloc"
      BY <1>2, <3>3, RelocSame DEF RelocAt
    <3>4. CASE o.kind = "new"
      BY <1>2, <3>4, NewSame
    <3> QED
      BY <3>1, <3>2, <3>3, <3>4, OwnersAre
  <2> QED
    BY <2>1, PlacesKept
<1>13. Data' /\ CellsKept
  BY <1>1, <1>2, <1>12, DataSame DEF RelocAt
<1> QED
  BY <1>3, <1>6, <1>7, <1>8, <1>9, <1>10, <1>11, <1>13, IInvIs DEF IInv, Control, Data
----------------------------------------------------------------------------
(***************************************************************************)
(* Steps that leave the tables alone.                                       *)
(***************************************************************************)
LEMMA StillTypes ==
    ASSUME TypeOK, UNCHANGED <<SegTab, HugeTab, tiny, owned, relocs>>,
           NextSwap' \in Seq(1..Len(SegTab)),
           \A b \in DOMAIN ram' : ram'[b] \in Seq(Int),
           room' \in 0..HeapCells, cache' \in 0..CacheBlocks, other' \in 0..MaxOther,
           TempFile' \in BOOLEAN, spill' \in Seq(Int), ret' \in Nat,
           status' \in {"run", "fatal", "overflow"},
           status' # "overflow" => Len(stack') <= MaxDepth
    PROVE  TypeOK'
BY DEF TypeOK, Addr, EndAddr, HugeBase, HugeCells

LEMMA StillControl ==
    ASSUME TypeOK, Kinds, Storage, Calls, HugePages, TypeOK', SwapList',
           UNCHANGED <<SegTab, HugeTab, tiny, owned, relocs>>,
           NEW n \in Nat, n = Depth, NEW l \in Nat, l = Depth', NEW m \in Nat, m <= n, m <= l,
           stack' \in Seq(Frames), Quiet(m, l),
           \A d \in (m + 1)..n : Frame(d).fn \notin {"AllocHugeNode", "SwapOutVirt"},
           \A d \in (m + 1)..l : /\ Frame(d)'.fn \notin {"AllocHugeNode", "SwapOutVirt"}
                                 /\ InPlace(d)',
           InHand',
           ram' = [b \in DOMAIN ram' |-> ram'[b]], DOMAIN ram' \subseteq Nat \ {0},
           IsFiniteSet(DOMAIN ram'), IsFiniteSet(CellsIn(ram'))
    PROVE  Control' /\ \A k : k \in Leaving' <=> k \in Leaving
<1>1. \A d \in 1..m : Frame(d)' = Frame(d)
  BY DEF Quiet
<1>2. Storage'
  <2>1. Larger /\ Len(SegTab') \in Nat /\ Len(HugeTab') \in Nat
    BY TypesAre DEF Larger
  <2> QED
    BY <2>1, StorageSame
<1>3. HugePages'
  <2>1. \A p, s : Unplaced(p, s)' <=> Unplaced(p, s)
    BY <1>1, UnplacedKept
  <2> QED
    BY <2>1, HugePagesKept
<1>4. \A k : k \in Leaving' <=> k \in Leaving
  BY <1>1, LeavingKept DEF Kinds
<1>5. Calls'
  <2>1. \A d \in 1..m : InPlace(d)'
    BY CallsKept
  <2>2. \A d \in 1..l : d \in 1..m \/ d \in (m + 1)..l
    OBVIOUS
  <2>3. Distinct'
    BY <1>1, DistinctKept DEF Calls
  <2> QED
    BY <2>1, <2>2, <2>3 DEF Calls
<1>6. Kinds'
  BY DEF Kinds, CellsIn, Frames
<1> QED
  BY <1>2, <1>3, <1>4, <1>5, <1>6 DEF Control

(* A function calls others. *)
LEMMA PushStep ==
    ASSUME IInv, UNCHANGED <<pages, relocs, heap, file, ret>>, ret = 0,
           status' = IF Len(stack') > MaxDepth THEN "overflow" ELSE status,
           NEW n \in Nat, n = Depth, NEW l \in Nat, l = Depth', n <= l,
           stack' \in Seq(Frames),
           \A d \in 1..n : Frame(d)' = Frame(d),
           n > 0 => Frame(n).fn # "LAlloc",
           \A d \in 1..n : Frame(d).fn = "AllocHugeNode" => Frame(d).nomem = FALSE,
           \A d \in (n + 1)..l : /\ Frame(d)'.fn \notin {"AllocHugeNode", "SwapOutVirt"}
                                 /\ InPlace(d)'
    PROVE  IInv' /\ CellsKept
<1>1. /\ TypeOK /\ Kinds /\ Storage /\ Calls /\ HugePages /\ SwapList
      /\ Accounted /\ Data
  BY IInvIs DEF Control
<1>2. /\ UNCHANGED <<SegTab, HugeTab, NextSwap, tiny, owned>>
      /\ UNCHANGED <<ram, room, cache, other, TempFile, spill>>
  BY DEF pages, heap, file
<1>3. \A d \in (n + 1)..n : FALSE
  OBVIOUS
<1>4. TypeOK' /\ SwapList'
  <2>1. Len(stack') \in Nat /\ MaxDepth \in Nat
    BY Constants
  <2>2. status' \in {"run", "fatal", "overflow"} /\ (status' # "overflow" => Len(stack') <= MaxDepth)
    BY <1>1, <2>1 DEF TypeOK
  <2>3. /\ \A b \in DOMAIN ram : ram[b] \in Seq(Int)
        /\ room \in 0..HeapCells /\ cache \in 0..CacheBlocks /\ other \in 0..MaxOther
        /\ TempFile \in BOOLEAN /\ spill \in Seq(Int) /\ ret \in Nat
        /\ NextSwap \in Seq(1..Len(SegTab))
    BY <1>1 DEF TypeOK
  <2>4. TypeOK'
    BY <1>1, <1>2, <2>2, <2>3, StillTypes
  <2> QED
    BY <1>1, <1>2, <2>4 DEF SwapList, SwapListExact
<1>5. Quiet(n, l)
  <2>1. ASSUME NEW d \in 1..n, Frame(d).fn = "LAlloc"
        PROVE  /\ Frame(d).use = "other" => other' = other
               /\ Frame(d).use = "name" => TempFile' = FALSE /\ (d < l => cache' = 0 /\ room' < NameCells)
    <3>1. Asking(d) /\ d < n
      BY <1>1, <2>1 DEF Calls, InPlace
    <3> QED
      BY <1>1, <1>2, <2>1, <3>1 DEF Asking, TypeOK
  <2>2. \A d \in 1..n : Frame(d).fn = "SpillRelocList" => ~relocs'[Frame(d).block].spilled
    BY <1>1 DEF Calls, InPlace, SpillingReloc
  <2> QED
    BY <1>2, <2>1, <2>2 DEF Quiet, RelocLeft
<1>6. Control' /\ \A k : k \in Leaving' <=> k \in Leaving
  <2>1. InHand'
    BY DEF InHand
  <2>2. /\ ram' = [b \in DOMAIN ram' |-> ram'[b]] /\ DOMAIN ram' \subseteq Nat \ {0}
        /\ IsFiniteSet(DOMAIN ram') /\ IsFiniteSet(CellsIn(ram'))
    BY <1>1, <1>2 DEF Kinds
  <2> QED
    BY <1>1, <1>2, <1>3, <1>4, <1>5, <2>1, <2>2, StillControl
<1>7. Accounted'
  BY <1>1, <1>2 DEF Accounted, CellsIn
<1>8. Places' = Places
  BY <1>2, <1>6, StillPlaces DEF RelocAt
<1>9. Data' /\ CellsKept
  BY <1>1, <1>2, <1>8, DataSame DEF RelocAt
<1> QED
  BY <1>6, <1>7, <1>9 DEF IInv, Data

LEMMA FirstStep ==
    ASSUME IInv, stack = <<>>, UNCHANGED <<pages, relocs, heap, file, ret>>,
           status' = IF Len(stack') > MaxDepth THEN "overflow" ELSE status,
           NEW l \in Nat, l = Depth', stack' \in Seq(Frames),
           \A d \in 1..l : /\ Frame(d)'.fn \notin {"AllocHugeNode", "SwapOutVirt"}
                           /\ InPlace(d)'
    PROVE  IInv' /\ CellsKept
<1> DEFINE n == Depth
<1>1. n = 0 /\ ret = 0
  BY IdleRet, NoCalls DEF IInv, Control
<1>2. n \in Nat /\ n = Depth /\ n <= l /\ ~(n > 0) /\ (\A d \in 1..n : FALSE)
      /\ \A d \in (n + 1)..l : d \in 1..l
  BY <1>1
<1> HIDE DEF n
<1> QED
  BY <1>1, <1>2, PushStep

(* One frame has one function. *)
LEMMA ThenInPlace ==
    ASSUME NEW d
    PROVE  /\ Frame(d)'.fn = "ScanNodes" /\ Scanning(d)' => InPlace(d)'
           /\ Frame(d)'.fn = "AllocNode" /\ AddingNode(d)' => InPlace(d)'
           /\ Frame(d)'.fn = "AllocHugeNode" /\ AddingHuge(d)' => InPlace(d)'
           /\ Frame(d)'.fn = "AllocRelocInfo" /\ AddingReloc(d)' => InPlace(d)'
           /\ Frame(d)'.fn = "LAlloc" /\ Asking(d)' => InPlace(d)'
           /\ Frame(d)'.fn = "SwapOutVirt" /\ SwappingNode(d)' => InPlace(d)'
           /\ Frame(d)'.fn = "SpillRelocList" /\ SpillingReloc(d)' => InPlace(d)'
BY DEF InPlace, Scanning, AddingNode, AddingHuge, AddingReloc, Asking, SwappingNode, SpillingReloc

LEMMA AccessStep ==
    ASSUME IInv, NEW x \in Accesses, NEW b \in owned, x.skip < b.len,
           Access(x.op, b.addr + x.skip, b.len - x.skip)
    PROVE  IInv' /\ CellsKept
<1> DEFINE a == b.addr + x.skip
           f == [fn |-> "ScanNodes", op |-> x.op, addr |-> a, len |-> b.len - x.skip, got |-> <<>>]
<1>1. stack = <<>> /\ ret = 0 /\ Depth = 0 /\ stack \in Seq(Frames)
  BY IdleRet, NoCalls DEF IInv, Control, Access
<1>2. /\ x.op \in {"PutInfo", "PutNulls", "ReadInfo", "CompareInfo"} /\ x.skip \in Nat
      /\ b.addr \in Nat /\ b.len \in Nat
  <2>1. b \in [addr : Addr, len : Sizes]
    BY DEF IInv, Control, TypeOK
  <2>2. x \in [op : {"PutInfo", "PutNulls", "ReadInfo", "CompareInfo"}, skip : Nat]
    BY SizesAssumption
  <2>3. Addr \subseteq Nat /\ Sizes \subseteq Nat
    BY Constants DEF Addr
  <2>4. b.addr \in Addr /\ b.len \in Sizes
    BY <2>1
  <2>5. x.op \in {"PutInfo", "PutNulls", "ReadInfo", "CompareInfo"} /\ x.skip \in Nat
    BY <2>2
  <2> QED
    BY <2>3, <2>4, <2>5
<1>3. f \in Frames
  <2>1. a \in Nat /\ b.len - x.skip \in Nat /\ <<>> \in Seq(Int \union BOOLEAN)
    BY <1>2
  <2> QED
    BY <1>2, <2>1 DEF Frames
<1>4. /\ stack' = <<f>> \o <<>> /\ UNCHANGED <<pages, relocs, heap, file, ret>>
      /\ status' = IF Len(stack') > MaxDepth THEN "overflow" ELSE status
  BY DEF Access, Call
<1>5. stack' \in Seq(Frames) /\ Depth' = 1 /\ Frame(1)' = f
  <2>1. stack' = <<f>> \o stack /\ 0 + 1 = 1
    BY <1>1, <1>4
  <2> HIDE DEF f
  <2> QED
    BY <1>1, <1>3, <2>1, OneCalled
<1>6. InPlace(1)'
  <2>1. b \in owned' /\ b.addr <= f.addr /\ f.addr + f.len <= b.addr + b.len
    BY <1>2, <1>4 DEF pages
  <2>2. f.fn = "ScanNodes"
    OBVIOUS
  <2> HIDE DEF f
  <2>3. Scanning(1)'
    BY <1>5, <2>1 DEF Scanning
  <2>4. Frame(1)'.fn = "ScanNodes"
    BY <1>5, <2>2
  <2> QED
    BY <2>3, <2>4, ThenInPlace
<1>7. \A d \in 1..1 : /\ Frame(d)'.fn \notin {"AllocHugeNode", "SwapOutVirt"}
                      /\ InPlace(d)'
  <2>1. \A d \in 1..1 : d = 1
    OBVIOUS
  <2> QED
    BY <1>5, <1>6, <2>1
<1>8. 1 \in Nat
  OBVIOUS
<1> QED
  BY <1>1, <1>4, <1>5, <1>7, <1>8, FirstStep

LEMMA ChkAllocStep ==
    ASSUME IInv, NEW x \in 1..MaxOther, ChkAlloc(x)
    PROVE  IInv' /\ CellsKept
<1> DEFINE f == LAllocFrame(x, "other")
<1>1. stack = <<>> /\ ret = 0 /\ Depth = 0 /\ stack \in Seq(Frames)
  BY IdleRet, NoCalls DEF IInv, Control, ChkAlloc
<1>2. f \in Frames /\ f.fn = "LAlloc" /\ f.use = "other" /\ f.size = x /\ x \in Nat \ {0}
  BY Constants DEF Frames, LAllocFrame
<1>3. /\ stack' = <<f>> \o <<>> /\ UNCHANGED <<pages, relocs, heap, file, ret>>
      /\ status' = IF Len(stack') > MaxDepth THEN "overflow" ELSE status
      /\ other + x <= MaxOther
  BY DEF ChkAlloc, Call
<1> HIDE DEF f
<1>4. stack' \in Seq(Frames) /\ Depth' = 1 /\ Frame(1)' = f
  <2>1. stack' = <<f>> \o stack /\ 0 + 1 = 1
    BY <1>1, <1>3
  <2> QED
    BY <1>1, <1>2, <2>1, OneCalled
<1>5. InPlace(1)'
  <2>1. Asking(1)'
    BY <1>1, <1>2, <1>3, <1>4 DEF Asking, heap
  <2> QED
    BY <1>2, <1>4, <2>1, ThenInPlace
<1>6. \A d \in 1..1 : /\ Frame(d)'.fn \notin {"AllocHugeNode", "SwapOutVirt"}
                      /\ InPlace(d)'
  <2>1. \A d \in 1..1 : d = 1
    OBVIOUS
  <2> QED
    BY <1>2, <1>4, <1>5, <2>1
<1>7. 1 \in Nat
  OBVIOUS
<1> QED
  BY <1>1, <1>3, <1>4, <1>6, <1>7, FirstStep
----------------------------------------------------------------------------
(***************************************************************************)
(* The function on top.                                                     *)
(***************************************************************************)
LEMMA TopAt ==
    ASSUME IInv, stack # <<>>, NEW n, n = Depth
    PROVE  /\ n \in Nat \ {0} /\ Frame(n) = Top /\ Top \in Frames /\ InPlace(n) /\ stack \in Seq(Frames)
           /\ Top.fn \notin Askers => ret = 0
<1>1. stack \in Seq(Frames) /\ Calls
  BY DEF IInv, Control, Kinds
<1>2. n \in Nat \ {0} /\ Frame(n) = Top /\ Top \in Frames
  BY <1>1, TopIs
<1>3. n \in 1..Depth
  BY <1>2
<1> QED
  BY <1>1, <1>2, <1>3 DEF Calls, InHand

LEMMA ScanningAt ==
    ASSUME IInv, Active("ScanNodes")
    PROVE  /\ Depth = 1 /\ Frame(1) = Top /\ Top \in Frames /\ ret = 0 /\ status = "run"
           /\ Top.fn = "ScanNodes" /\ Top.addr \in Nat /\ Top.len \in Nat
           /\ Top.op \in {"PutInfo", "PutNulls", "ReadInfo", "CompareInfo"}
           /\ \E b \in owned : b.addr <= Top.addr /\ Top.addr + Top.len <= b.addr + b.len
           /\ \A a \in Top.addr..(Top.addr + Top.len - 1) : a \in Addr /\ Covered(a)
<1> DEFINE n == Depth
<1>1. stack # <<>> /\ Top.fn = "ScanNodes" /\ status = "run"
  BY DEF Active
<1>2. n \in Nat \ {0} /\ Frame(n) = Top /\ Top \in Frames /\ InPlace(n) /\ ret = 0
  BY <1>1, TopAt DEF Askers
<1>3. /\ n = 1
      /\ \E b \in owned : b.addr <= Top.addr /\ Top.addr + Top.len <= b.addr + b.len
  BY <1>1, <1>2 DEF InPlace, Scanning
<1>4. /\ Top.addr \in Nat /\ Top.len \in Nat
      /\ Top.op \in {"PutInfo", "PutNulls", "ReadInfo", "CompareInfo"}
  BY <1>1, <1>2, FrameKinds
<1>5. \A a \in Top.addr..(Top.addr + Top.len - 1) : a \in Addr /\ Covered(a)
  <2> TAKE a \in Top.addr..(Top.addr + Top.len - 1)
  <2>1. PICK b \in owned : b.addr <= Top.addr /\ Top.addr + Top.len <= b.addr + b.len
    BY <1>3
  <2>2. b.addr \in Addr /\ b.len \in Sizes
    BY DEF IInv, Control, TypeOK
  <2>3. b.addr \in Nat /\ b.len \in Nat
    <3>1. Addr \subseteq Nat /\ Sizes \subseteq Nat
      BY Constants DEF Addr
    <3> QED
      BY <2>2, <3>1
  <2>4. a \in b.addr..(b.addr + b.len - 1)
    BY <1>4, <2>1, <2>3
  <2> QED
    BY <2>4 DEF IInv, Control, Storage
<1> QED
  BY <1>1, <1>2, <1>3, <1>4, <1>5

(* The request for the name of the spill file. *)
LEMMA OpenFirstStep ==
    ASSUME IInv, stack # <<>>, Top.fn \in Askers \union Movers, ret = 0, OpenFirst
    PROVE  IInv' /\ CellsKept
<1> DEFINE n == Depth
           f == LAllocFrame(NameCells, "name")
<1>1. n \in Nat \ {0} /\ Frame(n) = Top /\ Top \in Frames /\ stack \in Seq(Frames)
  BY TopAt
<1>2. f \in Frames /\ f.fn = "LAlloc" /\ f.use = "name" /\ f.size = NameCells
  BY Constants DEF Frames, LAllocFrame
<1>3. /\ stack' = <<f>> \o stack /\ UNCHANGED <<pages, relocs, heap, file, ret>> /\ ~TempFile
      /\ status' = IF Len(stack') > MaxDepth THEN "overflow" ELSE status
  BY DEF OpenFirst, Call
<1> HIDE DEF f
<1> SUFFICES ASSUME NEW k, k = n PROVE IInv' /\ CellsKept
  OBVIOUS
<1> HIDE DEF n
<1>4. k = Depth /\ k \in Nat \ {0} /\ Frame(k) = Top
  BY <1>1 DEF n
<1>5. /\ stack' \in Seq(Frames) /\ Depth' = k + 1 /\ Frame(k + 1)' = f
      /\ \A d \in 1..k : Frame(d)' = Frame(d)
  BY <1>1, <1>2, <1>3, <1>4, OneCalled
<1>6. \A d \in 1..k : Frame(d).fn = "AllocHugeNode" => Frame(d).nomem = FALSE
  <2> TAKE d \in 1..k
  <2>1. Frame(d) \in Frames /\ InPlace(d)
    BY <1>1, <1>4, FramesAre DEF IInv, Control, Calls
  <2> QED
    BY <1>3, <2>1, FrameKinds DEF InPlace, AddingHuge
<1>7. InPlace(k + 1)'
  <2>1. Under(k + 1, Askers \union Movers)'
    <3>1. k + 1 > 1 /\ (k + 1) - 1 = k /\ k \in 1..k
      BY <1>4
    <3>2. Frame((k + 1) - 1)'.fn \in Askers \union Movers
      BY <1>4, <1>5, <3>1
    <3> QED
      BY <3>1, <3>2 DEF Under, Askers, Movers
  <2>2. ret' = 0 /\ ~TempFile' /\ ~(k + 1 < Depth')
    BY <1>3, <1>4, <1>5 DEF file
  <2>3. Asking(k + 1)'
    BY <1>2, <1>5, <2>1, <2>2 DEF Asking
  <2> QED
    BY <1>2, <1>5, <2>3, ThenInPlace
<1>8. \A d \in (k + 1)..(k + 1) : /\ Frame(d)'.fn \notin {"AllocHugeNode", "SwapOutVirt"}
                                  /\ InPlace(d)'
  <2>1. \A d \in (k + 1)..(k + 1) : d = k + 1
    BY <1>4
  <2> QED
    BY <1>2, <1>5, <1>7, <2>1
<1>9. Frame(k).fn # "LAlloc"
  BY <1>4 DEF Askers, Movers
<1>10. k + 1 \in Nat /\ k <= k + 1 /\ k \in Nat
  BY <1>4
<1> QED
  BY <1>3, <1>4, <1>5, <1>6, <1>8, <1>9, <1>10, PushStep

LEMMA LnkFreeStep ==
    ASSUME IInv, NEW x \in 1..MaxOther, LnkFree(x)
    PROVE  IInv' /\ CellsKept
<1>1. /\ TypeOK /\ Kinds /\ Storage /\ Calls /\ HugePages /\ SwapList
      /\ Accounted /\ Data
  BY IInvIs DEF Control
<1>2. /\ stack = <<>> /\ stack' = <<>> /\ ret = 0 /\ x <= other
      /\ other' = other - x /\ room' = room + x
      /\ UNCHANGED <<SegTab, HugeTab, NextSwap, tiny, owned, relocs>>
      /\ UNCHANGED <<ram, cache, TempFile, spill, ret, status>>
  BY <1>1, IdleRet DEF LnkFree, pages, file
<1>3. /\ room \in Nat /\ other \in 0..MaxOther /\ cache \in 0..CacheBlocks /\ x \in Nat
      /\ MaxOther \in Nat
  BY <1>1, Constants DEF TypeOK
<1>4. room' \in Nat /\ other' \in 0..MaxOther /\ cache' \in Nat
  BY <1>2, <1>3, Constants
<1>5. Accounted'
  <2> DEFINE c == Cardinality(CellsIn(ram))
             t == IF TempFile THEN NameCells ELSE 0
  <2>1. c \in Nat /\ t \in Nat
    BY <1>1, FS_CardinalityType, Constants DEF Kinds
  <2>2. room + cache + other + t + c = HeapCells
    BY <1>1 DEF Accounted
  <2> HIDE DEF c, t
  <2>3. room' + cache' + other' + t + c = HeapCells
    BY <1>2, <1>3, <2>1, <2>2
  <2> QED
    BY <1>2, <2>3 DEF Accounted, CellsIn, c, t
<1>6. /\ ram' = [b \in DOMAIN ram' |-> ram'[b]] /\ DOMAIN ram' \subseteq Nat \ {0}
      /\ IsFiniteSet(DOMAIN ram') /\ IsFiniteSet(CellsIn(ram'))
  BY <1>1, <1>2 DEF Kinds
<1>7. TypeOK' /\ SwapList'
  <2>1. room' <= HeapCells
    BY <1>2, <1>4, <1>5, <1>6, RoomThenIs
  <2>2. /\ \A b \in DOMAIN ram : ram[b] \in Seq(Int)
        /\ TempFile \in BOOLEAN /\ spill \in Seq(Int) /\ ret \in Nat
        /\ NextSwap \in Seq(1..Len(SegTab)) /\ status \in {"run", "fatal", "overflow"}
        /\ (status # "overflow" => Len(stack) <= MaxDepth)
    BY <1>1 DEF TypeOK
  <2>3. room' \in 0..HeapCells
    BY <1>4, <2>1, Constants
  <2>4. TypeOK'
    BY <1>1, <1>2, <1>3, <1>4, <2>2, <2>3, StillTypes
  <2> QED
    BY <1>1, <1>2, <2>4 DEF SwapList, SwapListExact
<1>8. Control' /\ \A k : k \in Leaving' <=> k \in Leaving
  <2> DEFINE n == Depth
             l == Depth'
  <2>1. n = 0 /\ l = 0 /\ stack' \in Seq(Frames) /\ Depth' = 0
    BY <1>2, NoCalls, NoCallsThen
  <2>2. Quiet(0, 0)
    BY <1>2 DEF Quiet, RelocLeft
  <2>3. InHand'
    BY <1>2 DEF InHand
  <2>4. \A d \in (0 + 1)..0 : FALSE
    OBVIOUS
  <2> QED
    BY <1>1, <1>2, <1>6, <1>7, <2>1, <2>2, <2>3, <2>4, StillControl
<1>9. Places' = Places
  BY <1>2, <1>8, StillPlaces DEF RelocAt
<1>10. Data' /\ CellsKept
  BY <1>1, <1>2, <1>9, DataSame DEF RelocAt
<1> QED
  BY <1>5, <1>8, <1>10 DEF IInv, Data
----------------------------------------------------------------------------
(***************************************************************************)
(* Access to storage.                                                       *)
(***************************************************************************)
(* LAlloc for a page, called by the function that needs it. *)
LEMMA AskingPage ==
    ASSUME NEW k \in Nat \ {0}, NEW f, NEW g, Frame(k + 1)' = f, Frame(k)' = g,
           f.fn = "LAlloc", f.use = "page", g.fn \in Askers, f.size = NeededBy(g)', ret' = 0
    PROVE  InPlace(k + 1)'
<1>1. k + 1 > 1 /\ (k + 1) - 1 = k
  OBVIOUS
<1>2. Frame((k + 1) - 1)' = g
  BY <1>1
<1>3. Under(k + 1, Askers)'
  BY <1>1, <1>2 DEF Under, Askers
<1>4. Frame(k + 1)'.size = NeededBy(Frame((k + 1) - 1))'
  <2>1. NeededBy(Frame((k + 1) - 1))' = NeededBy(g)'
    BY <1>2 DEF NeededBy, SubSize
  <2> QED
    BY <2>1
<1>5. Asking(k + 1)'
  BY <1>3, <1>4 DEF Asking
<1> QED
  BY <1>5, ThenInPlace

LEMMA FirstUseOfNode ==
    ASSUME IInv, Active("ScanNodes"), Top.len > 0, ~IsHuge(Top.addr), Place(Top.addr).loc = 0,
           Call(<<LAllocFrame(Place(Top.addr).size, "page"),
                  [fn |-> "AllocNode", node |-> Node(Top.addr)]>>, stack),
           UNCHANGED <<pages, relocs, heap, file, ret>>
    PROVE  IInv' /\ CellsKept
<1> DEFINE a == Top.addr
<1> SUFFICES ASSUME NEW f, f = LAllocFrame(Place(a).size, "page"),
                    NEW g, g = [fn |-> "AllocNode", node |-> Node(a)]
             PROVE  IInv' /\ CellsKept
  OBVIOUS
<1>1. /\ Depth = 1 /\ Frame(1) = Top /\ ret = 0 /\ Top.fn = "ScanNodes" /\ stack \in Seq(Frames)
      /\ a \in Nat /\ Covered(a)
  <2>1. Top.addr \in Nat /\ Top.len \in Nat
    BY ScanningAt
  <2>2. a \in a..(a + Top.len - 1)
    BY <2>1
  <2> QED
    BY <2>1, <2>2, ScanningAt, TopAt DEF IInv, Control, Kinds
<1> DEFINE k == Node(a)
<1>2. k \in 1..Len(SegTab) /\ SegTab[k].loc = 0 /\ f.size = SegTab[k].size
      /\ k \in Nat /\ SegTab[k].size \in Nat \ {0}
  <2>1. k \in 1..Len(SegTab) /\ SegTab[k].loc = 0 /\ f.size = SegTab[k].size
    BY <1>1 DEF Covered, Place, LAllocFrame
  <2> HIDE DEF k
  <2>2. k \in Nat /\ SegTab[k].size \in 1..NodeCells
    BY <2>1, TypesAre DEF IInv, Control
  <2> QED
    BY <2>1, <2>2, Constants
<1>3. f \in Frames /\ g \in Frames /\ f.fn = "LAlloc" /\ f.use = "page"
      /\ g.fn = "AllocNode" /\ g.node = k
  BY <1>2 DEF Frames, LAllocFrame
<1>4. /\ stack' = <<f, g>> \o stack
      /\ status' = IF Len(stack') > MaxDepth THEN "overflow" ELSE status
  BY DEF Call
<1> HIDE DEF k
<1>5. /\ stack' \in Seq(Frames) /\ Depth' = 3 /\ Frame(3)' = f /\ Frame(2)' = g
      /\ \A d \in 1..1 : Frame(d)' = Frame(d)
  <2>1. 1 + 2 = 3 /\ 1 + 1 = 2
    OBVIOUS
  <2> QED
    BY ONLY <1>1, <1>3, <1>4, <2>1, TwoCalled, SMTT(30)
<1>6. Frame(1)' = Frame(1)
  BY <1>5
<1>7. SegTab' = SegTab /\ Len(SegTab') = Len(SegTab) /\ ret' = 0
  BY <1>1 DEF pages
<1>8. InPlace(2)'
  <2>1. AddingNode(2)'
    BY <1>1, <1>2, <1>3, <1>5, <1>6, <1>7 DEF AddingNode
  <2> QED
    BY <1>3, <1>5, <2>1, ThenInPlace
<1>9. InPlace(3)'
  <2> SUFFICES ASSUME NEW e \in Nat \ {0}, e = 2 PROVE InPlace(3)'
    OBVIOUS
  <2>1. Frame(e + 1)' = f /\ Frame(e)' = g /\ e + 1 = 3
    BY <1>5
  <2>2. g.fn \in Askers /\ f.size = NeededBy(g)'
    BY <1>2, <1>3, <1>7 DEF Askers, NeededBy
  <2>3. InPlace(e + 1)'
    BY <1>3, <1>7, <2>1, <2>2, AskingPage
  <2> QED
    BY <2>1, <2>3
<1> SUFFICES ASSUME NEW n \in Nat, n = 1, NEW l \in Nat, l = 3 PROVE IInv' /\ CellsKept
  OBVIOUS
<1>10. \A d \in (n + 1)..l : d = 2 \/ d = 3
  OBVIOUS
<1>11. \A d \in (n + 1)..l : Frame(d)'.fn \notin {"AllocHugeNode", "SwapOutVirt"} /\ InPlace(d)'
  BY <1>3, <1>5, <1>8, <1>9, <1>10
<1>12. /\ n = Depth /\ l = Depth' /\ n <= l /\ Frame(n).fn # "LAlloc"
       /\ \A d \in 1..n : Frame(d)' = Frame(d)
       /\ \A d \in 1..n : Frame(d).fn = "AllocHugeNode" => Frame(d).nomem = FALSE
  <2>1. \A d \in 1..n : d = 1
    OBVIOUS
  <2> QED
    BY <1>1, <1>5, <1>6, <2>1
<1> QED
  BY <1>1, <1>4, <1>5, <1>11, <1>12, PushStep

(* One huge page changes. *)
LEMMA HugeTabStep ==
    ASSUME TypeOK, Kinds, Storage, NEW p \in 1..Len(HugeTab), NEW h \in HugeSet,
           HugeTab' = [HugeTab EXCEPT ![p] = h],
           h.numthere = HugeTab[p].numthere, h.sizelast = HugeTab[p].sizelast,
           h.numswapped <= h.numthere, Len(h.page) \in {0, h.numthere},
           UNCHANGED <<SegTab, NextSwap, tiny, owned, relocs, ram, room, cache, other, TempFile>>,
           spill' \in Seq(Int), ret' \in Nat, status' \in {"run", "fatal", "overflow"},
           status' # "overflow" => Len(stack') <= MaxDepth
    PROVE  /\ TypeOK' /\ Storage' /\ Len(HugeTab') = Len(HugeTab) /\ HugeTab'[p] = h
           /\ \A q \in 1..Len(HugeTab) : q # p => HugeTab'[q] = HugeTab[q]
<1>1. HugeTab \in Seq(HugeSet) /\ Len(SegTab) \in Nat /\ Len(HugeTab) \in Nat
  BY TypesAre
<1>2. /\ HugeTab' \in Seq(HugeSet) /\ Len(HugeTab') = Len(HugeTab) /\ HugeTab'[p] = h
      /\ \A q \in 1..Len(HugeTab) : q # p => HugeTab'[q] = HugeTab[q]
  BY <1>1
<1>3. \A q \in 1..Len(HugeTab') : /\ HugeTab'[q].numswapped <= HugeTab'[q].numthere
                                  /\ Len(HugeTab'[q].page) \in {0, HugeTab'[q].numthere}
  BY <1>2 DEF TypeOK
<1>4. TypeOK'
  <2>1. HugeTab' \in Seq([numthere : 1..Subpages, numswapped : 0..Subpages,
                          sizelast : 1..SubCells, page : Seq(Nat)])
    BY <1>2 DEF HugeSet
  <2> QED
    BY <1>3, <2>1 DEF TypeOK, Addr, EndAddr, HugeBase, HugeCells
<1>5. Larger
  BY <1>1, <1>2 DEF Larger
<1>6. Storage'
  BY <1>1, <1>2, <1>5, StorageSame
<1> QED
  BY <1>2, <1>4, <1>6
LEMMA SubpageNumbers ==
    ASSUME NEW t \in 1..Subpages
    PROVE  t \in Nat /\ t \in Nat \ {0} /\ t <= Subpages /\ Subpages \in Nat
BY Constants

LEMMA SizeNumbers ==
    /\ \A x \in 1..SubCells : x \in Nat \ {0}
    /\ \A x \in 1..NodeCells : x \in Nat \ {0}
BY Constants

LEMMA Zeros ==
    ASSUME NEW t \in Nat, NEW z, z = [s \in 1..t |-> 0]
    PROVE  z \in Seq(Nat) /\ Len(z) = t /\ \A s \in 1..t : z[s] = 0
OBVIOUS

LEMMA FirstUseOfHuge ==
    ASSUME IInv, Active("ScanNodes"), Top.len > 0, NEW p, p = BigNode(Top.addr),
           IsHuge(Top.addr), HugeTab[p].page = <<>>,
           HugeTab' = [HugeTab EXCEPT ![p].page = [s \in 1..HugeTab[p].numthere |-> 0]],
           Call(<<LAllocFrame(HugeTab[p].sizelast, "page"),
                  [fn |-> "AllocHugeNode", page |-> p, index |-> HugeTab[p].numthere,
                   nomem |-> FALSE]>>, stack),
           UNCHANGED <<SegTab, NextSwap, tiny, owned, relocs, heap, file, ret>>
    PROVE  IInv' /\ CellsKept
<1> SUFFICES ASSUME NEW f, f = LAllocFrame(HugeTab[p].sizelast, "page"),
                    NEW t, t = HugeTab[p].numthere,
                    NEW g, g = [fn |-> "AllocHugeNode", page |-> p, index |-> t, nomem |-> FALSE],
                    NEW h, h = [HugeTab[p] EXCEPT !.page = [s \in 1..t |-> 0]]
             PROVE  IInv' /\ CellsKept
  OBVIOUS
<1>1. /\ TypeOK /\ Kinds /\ Storage /\ Calls /\ HugePages /\ SwapList
      /\ Accounted /\ Data
  BY IInvIs DEF Control
<1>2. /\ Depth = 1 /\ Frame(1) = Top /\ ret = 0 /\ Top.fn = "ScanNodes" /\ stack \in Seq(Frames)
      /\ Covered(Top.addr)
  <2>1. Top.addr \in Nat /\ Top.len \in Nat
    BY ScanningAt
  <2>2. Top.addr \in Top.addr..(Top.addr + Top.len - 1)
    BY <2>1
  <2> QED
    BY <1>1, <2>1, <2>2, ScanningAt DEF Kinds
<1>3. p \in 1..Len(HugeTab) /\ p \in Nat
  <2>1. p \in 1..Len(HugeTab)
    BY <1>2 DEF Covered
  <2> QED
    BY <1>1, <2>1, TypesAre
<1>4. /\ HugeTab[p] \in HugeSet /\ HugeTab[p].numthere \in 1..Subpages
      /\ HugeTab[p].sizelast \in 1..SubCells /\ HugeTab[p].numswapped = 0
  <2>1. HugeTab[p] \in HugeSet /\ HugeTab[p].numthere \in 1..Subpages
        /\ HugeTab[p].sizelast \in 1..SubCells
    BY <1>1, <1>3, TypesAre
  <2> QED
    BY <1>1, <1>3, <2>1 DEF HugePages
<1>5. t \in 1..Subpages /\ t \in Nat /\ t \in Nat \ {0} /\ Subpages \in Nat
  BY <1>4, SubpageNumbers
<1>6. /\ h.numthere = t /\ h.sizelast = HugeTab[p].sizelast
      /\ h.numswapped = 0 /\ h.page = [s \in 1..t |-> 0]
  BY <1>4 DEF HugeSet
<1>7. h.page \in Seq(Nat) /\ Len(h.page) = t /\ \A s \in 1..t : h.page[s] = 0
  BY <1>5, <1>6, Zeros
<1>8. h \in HugeSet
  <2>1. h = [numthere |-> t, numswapped |-> HugeTab[p].numswapped,
             sizelast |-> HugeTab[p].sizelast, page |-> [s \in 1..t |-> 0]]
    BY <1>4 DEF HugeSet
  <2>2. 0 \in 0..Subpages
    BY <1>5
  <2> QED
    BY <1>4, <1>5, <1>6, <1>7, <2>1, <2>2 DEF HugeSet
<1>9. HugeTab' = [HugeTab EXCEPT ![p] = h]
  OBVIOUS
<1>10. /\ stack' = <<f, g>> \o stack
       /\ status' = IF Len(stack') > MaxDepth THEN "overflow" ELSE status
       /\ UNCHANGED <<ram, room, cache, other, TempFile, spill>>
  BY DEF Call, heap, file
<1>11. /\ f \in Frames /\ g \in Frames /\ f.fn = "LAlloc" /\ f.use = "page"
       /\ f.size = HugeTab[p].sizelast
       /\ g.fn = "AllocHugeNode" /\ g.page = p /\ g.index = t /\ g.nomem = FALSE
  <2>1. HugeTab[p].sizelast \in Nat \ {0}
    BY <1>4, SizeNumbers
  <2>2. f = [fn |-> "LAlloc", size |-> HugeTab[p].sizelast, use |-> "page"]
    BY DEF LAllocFrame
  <2>3. g = [fn |-> "AllocHugeNode", page |-> p, index |-> t, nomem |-> FALSE]
    OBVIOUS
  <2>4. f \in Frames /\ f.fn = "LAlloc" /\ f.use = "page" /\ f.size = HugeTab[p].sizelast
    BY <2>1, <2>2 DEF Frames
  <2>5. g \in Frames /\ g.fn = "AllocHugeNode" /\ g.page = p /\ g.index = t /\ g.nomem = FALSE
    BY <1>3, <1>5, <2>3 DEF Frames
  <2> QED
    BY <2>4, <2>5
<1>12. /\ stack' \in Seq(Frames) /\ Depth' = 3 /\ Frame(3)' = f /\ Frame(2)' = g
       /\ Frame(1)' = Frame(1)
  <2> SUFFICES ASSUME NEW e, e = Depth, e = 1
               PROVE  /\ stack' \in Seq(Frames) /\ Depth' = 3 /\ Frame(3)' = f /\ Frame(2)' = g
                      /\ Frame(1)' = Frame(1)
    BY <1>2
  <2>1. e + 2 = 3 /\ e + 1 = 2 /\ 1 \in 1..e
    OBVIOUS
  <2>2. /\ stack' \in Seq(Frames) /\ Depth' = e + 2 /\ Frame(e + 2)' = f /\ Frame(e + 1)' = g
        /\ \A d \in 1..e : Frame(d)' = Frame(d)
    <3>1. stack \in Seq(Frames) /\ f \in Frames /\ g \in Frames /\ stack' = <<f, g>> \o stack
      BY <1>2, <1>10, <1>11
    <3> HIDE DEF Depth, Frame
    <3> QED
      BY <3>1, TwoCalled, Zenon
  <2> QED
    BY <2>1, <2>2
<1>13. status' \in {"run", "fatal", "overflow"} /\ (status' # "overflow" => Len(stack') <= MaxDepth)
  <2>1. Len(stack') \in Nat /\ MaxDepth \in Nat
    BY <1>12, Constants
  <2>2. status \in {"run", "fatal", "overflow"} /\ status = "run"
    BY DEF Active
  <2> QED
    BY <1>10, <2>1, <2>2
<1>14. /\ TypeOK' /\ Storage' /\ Len(HugeTab') = Len(HugeTab) /\ HugeTab'[p] = h
       /\ \A q \in 1..Len(HugeTab) : q # p => HugeTab'[q] = HugeTab[q]
  <2>1. spill' \in Seq(Int) /\ ret' \in Nat
    BY <1>1, <1>10 DEF TypeOK
  <2>2. h.numswapped <= h.numthere /\ Len(h.page) \in {0, h.numthere}
    BY <1>5, <1>6, <1>7
  <2>3. h.numthere = HugeTab[p].numthere /\ h.sizelast = HugeTab[p].sizelast
    BY <1>6
  <2>4. UNCHANGED <<SegTab, NextSwap, tiny, owned, relocs, ram, room, cache, other, TempFile>>
    BY <1>10
  <2> QED
    BY <1>1, <1>3, <1>8, <1>9, <1>13, <2>1, <2>2, <2>3, <2>4, HugeTabStep, ZenonT(40)
<1>15. Kinds'
  <2>1. Len(SegTab') <= MaxNodes /\ Len(HugeTab') <= MaxHuge /\ Len(relocs') <= MaxRelocs
    BY <1>1, <1>14 DEF Kinds
  <2>2. /\ ram' = [b \in DOMAIN ram' |-> ram'[b]] /\ DOMAIN ram' \subseteq Nat \ {0}
        /\ IsFiniteSet(DOMAIN ram') /\ IsFiniteSet(CellsIn(ram'))
    BY <1>1, <1>10 DEF Kinds
  <2> QED
    BY <1>12, <2>1, <2>2 DEF Kinds, CellsIn, Frames
<1>16. InPlace(1)'
  <2>1. Scanning(1)
    BY <1>1, <1>2 DEF Calls, InPlace
  <2>2. Scanning(1)'
    BY <1>12, <2>1 DEF Scanning
  <2> QED
    BY <1>2, <1>12, <2>2, ThenInPlace
<1>17. InPlace(2)'
  <2>1. h.page # <<>> /\ g.index \in 1..h.numthere
    BY <1>5, <1>6, <1>7, <1>11
  <2>2. AddingHuge(2)'
    BY <1>2, <1>3, <1>6, <1>11, <1>12, <1>14, <2>1 DEF AddingHuge
  <2> QED
    BY <1>11, <1>12, <2>2, ThenInPlace
<1>18. InPlace(3)'
  <2> SUFFICES ASSUME NEW e \in Nat \ {0}, e = 2 PROVE InPlace(3)'
    OBVIOUS
  <2>1. Frame(e + 1)' = f /\ Frame(e)' = g /\ e + 1 = 3
    BY <1>12
  <2>2. g.fn \in Askers /\ f.size = NeededBy(g)' /\ ret' = 0
    BY <1>2, <1>6, <1>11, <1>14 DEF Askers, NeededBy, SubSize
  <2>3. InPlace(e + 1)'
    BY <1>11, <2>1, <2>2, AskingPage
  <2> QED
    BY <2>1, <2>3
<1>19. Calls' /\ (\A k : k \in Leaving' <=> k \in Leaving)
  <2>1. \A d \in 1..Depth' : d = 1 \/ d = 2 \/ d = 3
    BY <1>12
  <2>2. \A d \in 1..Depth' : InPlace(d)' /\ Frame(d)'.fn # "SwapOutVirt"
    BY <1>2, <1>11, <1>12, <1>16, <1>17, <1>18, <2>1
  <2>3. Distinct' /\ InHand'
    BY <1>2, <2>2 DEF Distinct, InHand
  <2>4. \A d \in 1..Depth : Frame(d).fn # "SwapOutVirt"
    <3>1. \A d \in 1..Depth : d = 1
      BY <1>2
    <3> QED
      BY <1>2, <3>1
  <2>5. ASSUME NEW k PROVE k \notin Leaving' /\ k \notin Leaving
    BY <1>2, <1>12, <2>2, <2>4, LeavingIs, LeavingThenIs
  <2> QED
    BY <2>2, <2>3, <2>5 DEF Calls
<1>20. HugePages'
  <2>1. ASSUME NEW q \in 1..Len(HugeTab'), NEW s \in 1..Len(HugeTab'[q].page)
        PROVE  HugeTab'[q].page[s] = 0 <=> Unplaced(q, s)'
    <3>1. CASE q = p
      <4>1. s \in 1..t /\ HugeTab'[q].page[s] = 0 /\ s <= t
        BY <1>5, <1>7, <1>14, <3>1
      <4>2. 2 \in 1..Depth' /\ Frame(2)'.fn = "AllocHugeNode" /\ Frame(2)'.page = q
            /\ s <= Frame(2)'.index
        BY <1>11, <1>12, <3>1, <4>1
      <4>3. Unplaced(q, s)'
        BY <4>2 DEF Unplaced
      <4> QED
        BY <4>1, <4>3
    <3>2. CASE q # p
      <4>1. HugeTab'[q] = HugeTab[q] /\ q \in 1..Len(HugeTab)
        BY <1>14, <3>2
      <4>2. \A d \in 1..Depth : d = 1
        BY <1>2
      <4>3. ~Unplaced(q, s)
        BY <1>2, <4>2 DEF Unplaced
      <4>4. \A d \in 1..Depth' : d = 1 \/ d = 2 \/ d = 3
        BY <1>12
      <4>5. ~Unplaced(q, s)'
        BY <1>2, <1>11, <1>12, <3>2, <4>4 DEF Unplaced
      <4> QED
        BY <1>1, <4>1, <4>3, <4>5 DEF HugePages
    <3> QED
      BY <3>1, <3>2
  <2>2. ASSUME NEW q \in 1..Len(HugeTab'), HugeTab'[q].page = <<>>
        PROVE  HugeTab'[q].numswapped = 0
    BY <1>1, <1>6, <1>14, <2>2 DEF HugePages
  <2> QED
    BY <2>1, <2>2 DEF HugePages
<1>21. SwapList' /\ Accounted'
  BY <1>1, <1>10 DEF SwapList, SwapListExact, Accounted, CellsIn
<1>22. Places' = Places
  <2>1. ASSUME NEW o \in Owners PROVE SamePlace(o)
    <3>1. CASE o.kind = "node"
      BY <1>19, <3>1, NodeSame
    <3>2. CASE o.kind = "huge"
      <4>1. CASE o.no # p
        BY <1>14, <3>2, <4>1, HugeSame
      <4>2. CASE o.no = p
        <5>1. o.kind # "node" /\ o.kind # "reloc" /\ o.kind # "new"
          BY <3>2
        <5>2. ~HasPlace(o)'
          <6>1. HugeTab'[o.no].page = h.page
            BY <1>14, <4>2
          <6>2. \A s \in 1..Len(HugeTab'[o.no].page) : HugeTab'[o.no].page[s] = 0
            BY <1>7, <6>1
          <6> QED
            BY <5>1, <6>2 DEF HasPlace
        <5>3. \A s : s \notin 1..Len(HugeTab[p].page)
          OBVIOUS
        <5>4. ~HasPlace(o)
          BY <4>2, <5>1, <5>3 DEF HasPlace
        <5> QED
          BY <5>2, <5>4 DEF SamePlace
      <4> QED
        BY <4>1, <4>2
    <3>3. CASE o.kind = "reloc"
      BY <3>3, RelocSame DEF RelocAt
    <3>4. CASE o.kind = "new"
      BY <1>10, <3>4, NewSame
    <3> QED
      BY <3>1, <3>2, <3>3, <3>4, OwnersAre
  <2> QED
    BY <2>1, PlacesKept
<1>23. Data' /\ CellsKept
  BY <1>1, <1>10, <1>22, DataSame DEF RelocAt
<1> QED
  BY <1>14, <1>15, <1>19, <1>20, <1>21, <1>23, IInvIs DEF IInv, Control, Data
LEMMA ScanFirstUseStep ==
    ASSUME IInv, ScanFirstUse
    PROVE  IInv' /\ CellsKept
<1>1. CASE /\ ~IsHuge(Top.addr) /\ Place(Top.addr).loc = 0
           /\ Call(<<LAllocFrame(Place(Top.addr).size, "page"),
                     [fn |-> "AllocNode", node |-> Node(Top.addr)]>>, stack)
           /\ UNCHANGED pages
  <2>1. Active("ScanNodes") /\ Top.len > 0 /\ UNCHANGED <<pages, relocs, heap, file, ret>>
    BY <1>1 DEF ScanFirstUse
  <2> QED
    BY <1>1, <2>1, FirstUseOfNode
<1>2. CASE LET p == BigNode(Top.addr) IN
           /\ IsHuge(Top.addr) /\ HugeTab[p].page = <<>>
           /\ HugeTab' = [HugeTab EXCEPT ![p].page = [s \in 1..HugeTab[p].numthere |-> 0]]
           /\ Call(<<LAllocFrame(HugeTab[p].sizelast, "page"),
                     [fn |-> "AllocHugeNode", page |-> p, index |-> HugeTab[p].numthere,
                      nomem |-> FALSE]>>, stack)
           /\ UNCHANGED <<SegTab, NextSwap, tiny, owned>>
  <2>1. Active("ScanNodes") /\ Top.len > 0 /\ UNCHANGED <<relocs, heap, file, ret>>
    BY DEF ScanFirstUse
  <2> SUFFICES ASSUME NEW p, p = BigNode(Top.addr) PROVE IInv' /\ CellsKept
    OBVIOUS
  <2> QED
    BY <1>2, <2>1, FirstUseOfHuge
<1> QED
  BY <1>1, <1>2 DEF ScanFirstUse

----------------------------------------------------------------------------
(***************************************************************************)
(* Steps that leave the tables alone and call nothing.                      *)
(***************************************************************************)
LEMMA QuietStep ==
    ASSUME IInv, UNCHANGED <<pages, relocs, status>>, Accounted',
           room' \in Nat, cache' \in 0..CacheBlocks, other' \in 0..MaxOther,
           TempFile' \in BOOLEAN, spill' \in Seq(Int), ret' \in Nat,
           \A b \in DOMAIN ram' : ram'[b] \in Seq(Int),
           ram' = [b \in DOMAIN ram' |-> ram'[b]], DOMAIN ram' \subseteq Nat \ {0},
           IsFiniteSet(DOMAIN ram'), IsFiniteSet(CellsIn(ram')),
           NEW n \in Nat, n = Depth, NEW l \in Nat, l = Depth', l <= n,
           NEW m \in Nat, m <= l,
           stack' \in Seq(Frames), Quiet(m, l),
           \A d \in (m + 1)..n : Frame(d).fn \notin {"AllocHugeNode", "SwapOutVirt"},
           \A d \in (m + 1)..l : /\ Frame(d)'.fn \notin {"AllocHugeNode", "SwapOutVirt"}
                                 /\ InPlace(d)',
           InHand'
    PROVE  Control' /\ \A k : k \in Leaving' <=> k \in Leaving
<1>1. TypeOK /\ Kinds /\ Storage /\ Calls /\ HugePages /\ SwapList
  BY DEF IInv, Control
<1>2. UNCHANGED <<SegTab, HugeTab, NextSwap, tiny, owned>>
  BY DEF pages
<1>3. TypeOK'
  <2>1. room' \in 0..HeapCells
    <3>1. cache' \in Nat /\ other' \in Nat
      BY Constants
    <3>2. room' <= HeapCells
      BY <3>1, RoomThenIs
    <3> QED
      BY <3>2, Constants
  <2>2. status' # "overflow" => Len(stack') <= MaxDepth
    <3>1. Len(stack) \in Nat /\ Len(stack') \in Nat /\ MaxDepth \in Nat /\ Len(stack') <= Len(stack)
      BY <1>1, Constants DEF Kinds, Depth
    <3>2. status # "overflow" => Len(stack) <= MaxDepth
      BY <1>1 DEF TypeOK
    <3> QED
      BY <3>1, <3>2
  <2>3. status' \in {"run", "fatal", "overflow"} /\ NextSwap' \in Seq(1..Len(SegTab))
    BY <1>1, <1>2 DEF TypeOK
  <2> QED
    BY <1>1, <1>2, <2>1, <2>2, <2>3, StillTypes
<1>4. SwapList'
  BY <1>1, <1>2 DEF SwapList, SwapListExact
<1>5. m <= n
  OBVIOUS
<1> QED
  BY <1>1, <1>2, <1>3, <1>4, <1>5, StillControl

(* A huge page out of memory is filled by its AllocHugeNode alone. *)
LEMMA NoneWithoutMemory ==
    ASSUME Calls, NEW n \in Nat \ {0}, n = Depth, Frame(n).fn # "AllocHugeNode",
           stack \in Seq(Frames)
    PROVE  \A d \in 1..n : Frame(d).fn = "AllocHugeNode" => Frame(d).nomem = FALSE
<1> TAKE d \in 1..n
<1>1. Frame(d) \in Frames /\ AddingHuge(d)
  BY FramesAre DEF Calls, InPlace
<1>2. Frame(d).fn = "AllocHugeNode" => Frame(d).nomem \in BOOLEAN
  BY <1>1, FrameKinds
<1> QED
  BY <1>1, <1>2 DEF AddingHuge

LEMMA NothingInHand ==
    ASSUME Calls, NEW d \in 1..Depth, Frame(d).fn = "LAlloc"
    PROVE  ret = 0 /\ Asking(d)
BY DEF Calls, InPlace, Asking

LEMMA ScanReturnStep ==
    ASSUME IInv, ScanReturn
    PROVE  IInv' /\ CellsKept
<1>1. /\ TypeOK /\ Kinds /\ Storage /\ Calls /\ HugePages /\ SwapList
      /\ Accounted /\ Data
  BY IInvIs DEF Control
<1>2. /\ Depth = 1 /\ Frame(1) = Top /\ ret = 0 /\ Top.fn = "ScanNodes"
      /\ stack \in Seq(Frames) /\ stack # <<>> /\ stack' = Tail(stack)
      /\ UNCHANGED <<pages, relocs, status>>
      /\ UNCHANGED <<SegTab, HugeTab, ram, room, cache, other, TempFile, spill, ret>>
  <2>1. Active("ScanNodes")
    BY DEF ScanReturn
  <2>2. stack # <<>>
    BY <2>1 DEF Active
  <2> QED
    BY <1>1, <2>1, <2>2, ScanningAt DEF ScanReturn, Pop, Kinds, pages, heap, file
<1>3. Depth' = 0 /\ stack' \in Seq(Frames)
  BY <1>2, Returned
<1>4. Control' /\ \A k : k \in Leaving' <=> k \in Leaving
  <2> SUFFICES ASSUME NEW n \in Nat, n = 1, NEW l \in Nat, l = 0
               PROVE  Control' /\ \A k : k \in Leaving' <=> k \in Leaving
    OBVIOUS
  <2>1. Quiet(l, l)
    <3>1. \A d \in 1..l : FALSE
      OBVIOUS
    <3> QED
      BY <1>2, <3>1 DEF Quiet, RelocLeft, pages
  <2>2. \A d \in (l + 1)..n : Frame(d).fn \notin {"AllocHugeNode", "SwapOutVirt"}
    <3>1. \A d \in (l + 1)..n : d = 1
      OBVIOUS
    <3> QED
      BY <1>2, <3>1
  <2>3. \A d \in (l + 1)..l : FALSE
    OBVIOUS
  <2>4. Accounted' /\ InHand'
    BY <1>1, <1>2 DEF Accounted, CellsIn, InHand
  <2>5. /\ room' \in Nat /\ cache' \in 0..CacheBlocks /\ other' \in 0..MaxOther
        /\ TempFile' \in BOOLEAN /\ spill' \in Seq(Int) /\ ret' \in Nat
        /\ \A b \in DOMAIN ram' : ram'[b] \in Seq(Int)
    BY <1>1, <1>2 DEF TypeOK
  <2>6. /\ ram' = [b \in DOMAIN ram' |-> ram'[b]] /\ DOMAIN ram' \subseteq Nat \ {0}
        /\ IsFiniteSet(DOMAIN ram') /\ IsFiniteSet(CellsIn(ram'))
    BY <1>1, <1>2 DEF Kinds
  <2> QED
    BY <1>2, <1>3, <2>1, <2>2, <2>3, <2>4, <2>5, <2>6, QuietStep, SMTT(30)
<1>5. Accounted'
  BY <1>1, <1>2 DEF Accounted, CellsIn
<1>6. Places' = Places
  BY <1>2, <1>4, StillPlaces DEF RelocAt
<1>7. Data' /\ CellsKept
  BY <1>1, <1>2, <1>6, DataSame DEF RelocAt
<1> QED
  BY <1>4, <1>5, <1>7 DEF IInv, Data

LEMMA FreeCachesStep ==
    ASSUME IInv, FreeCaches
    PROVE  IInv' /\ CellsKept
<1>1. /\ TypeOK /\ Kinds /\ Storage /\ Calls /\ HugePages /\ SwapList
      /\ Accounted /\ Data
  BY IInvIs DEF Control
<1>2. /\ stack # <<>> /\ Top.fn = "LAlloc" /\ stack \in Seq(Frames)
      /\ cache > 0 /\ cache' = cache - 1 /\ room' = room + 1
      /\ UNCHANGED <<pages, relocs, status>>
      /\ UNCHANGED <<SegTab, HugeTab, ram, other, TempFile, spill, ret, stack, owned>>
  BY <1>1 DEF FreeCaches, NoRoom, Active, Kinds, pages, file
<1> SUFFICES ASSUME NEW n, n = Depth PROVE IInv' /\ CellsKept
  OBVIOUS
<1>3. n \in Nat \ {0} /\ Frame(n) = Top
  BY <1>2, TopIs
<1>4. Depth' = n /\ \A d \in 1..n : Frame(d)' = Frame(d)
  BY <1>2 DEF Depth, Frame
<1>5. room \in Nat /\ cache \in 0..CacheBlocks /\ other \in 0..MaxOther
  BY <1>1 DEF TypeOK
<1>6. room' \in Nat /\ cache' \in 0..CacheBlocks /\ other' \in 0..MaxOther
  BY <1>2, <1>5, Constants
<1>7. Accounted'
  <2> DEFINE c == Cardinality(CellsIn(ram))
             t == IF TempFile THEN NameCells ELSE 0
  <2>1. c \in Nat /\ t \in Nat
    BY <1>1, FS_CardinalityType, Constants DEF Kinds
  <2>2. room + cache + other + t + c = HeapCells /\ cache \in Nat /\ other \in Nat
    BY <1>1, <1>5, Constants DEF Accounted
  <2> HIDE DEF c, t
  <2>3. room' + cache' + other' + t + c = HeapCells
    BY <1>2, <1>5, <2>1, <2>2
  <2> QED
    BY <1>2, <2>3 DEF Accounted, CellsIn, c, t
<1>8. Quiet(n, n)
  <2>1. ASSUME NEW d \in 1..n, Frame(d).fn = "LAlloc"
        PROVE  /\ ret' = 0
               /\ Frame(d).use = "other" => other' = other
               /\ Frame(d).use = "name" => TempFile' = FALSE /\ (d < n => cache' = 0 /\ room' < NameCells)
    <3>1. Asking(d) /\ ret = 0 /\ cache # 0
      <4>1. cache # 0
        BY <1>2, <1>5, Constants
      <4> QED
        BY <1>1, <2>1, <4>1, NothingInHand
    <3>2. Frame(d).use = "name" => ~TempFile /\ ~(d < n)
      BY <2>1, <3>1 DEF Asking
    <3> QED
      BY <1>1, <1>2, <3>1, <3>2 DEF TypeOK
  <2>2. \A d \in 1..n : Frame(d).fn = "SpillRelocList" => ~relocs'[Frame(d).block].spilled
    BY <1>1, <1>2 DEF Calls, InPlace, SpillingReloc
  <2>3. \A d \in 1..n : Frame(d).fn = "AllocHugeNode" => Frame(d).nomem = FALSE
    BY <1>1, <1>2, <1>3, NoneWithoutMemory
  <2> QED
    BY <1>2, <1>4, <2>1, <2>2, <2>3 DEF Quiet, RelocLeft
<1>9. Control' /\ \A k : k \in Leaving' <=> k \in Leaving
  <2>1. \A d \in (n + 1)..n : FALSE
    BY <1>3
  <2>2. InHand'
    <3>1. ret = 0
      BY <1>1, <1>2, <1>3, NothingInHand
    <3> QED
      BY <1>2, <3>1 DEF InHand
  <2>3. /\ TempFile' \in BOOLEAN /\ spill' \in Seq(Int) /\ ret' \in Nat
        /\ \A b \in DOMAIN ram' : ram'[b] \in Seq(Int)
    BY <1>1, <1>2 DEF TypeOK
  <2>4. /\ ram' = [b \in DOMAIN ram' |-> ram'[b]] /\ DOMAIN ram' \subseteq Nat \ {0}
        /\ IsFiniteSet(DOMAIN ram') /\ IsFiniteSet(CellsIn(ram'))
    BY <1>1, <1>2 DEF Kinds
  <2>5. n \in Nat /\ n <= n /\ n = Depth /\ n = Depth'
    BY <1>3, <1>4
  <2> QED
    BY <1>2, <1>6, <1>7, <1>8, <2>1, <2>2, <2>3, <2>4, <2>5, QuietStep
<1>10. Places' = Places
  BY <1>2, <1>9, StillPlaces DEF RelocAt
<1>11. Data' /\ CellsKept
  BY <1>1, <1>2, <1>10, DataSame DEF RelocAt
<1> QED
  BY <1>7, <1>9, <1>11 DEF IInv, Data
----------------------------------------------------------------------------
(***************************************************************************)
(* malloc.                                                                  *)
(***************************************************************************)
LEMMA ActiveAt ==
    ASSUME IInv, NEW fn, Active(fn), NEW n, n = Depth
    PROVE  /\ stack # <<>> /\ stack \in Seq(Frames) /\ status = "run"
           /\ n \in Nat \ {0} /\ n \in 1..n /\ n - 1 \in Nat /\ n - 1 <= n
           /\ Frame(n) = Top /\ Top.fn = fn /\ Top \in Frames /\ InPlace(n)
<1>1. stack # <<>> /\ Top.fn = fn /\ status = "run"
  BY DEF Active
<1>2. n \in Nat \ {0} /\ Frame(n) = Top /\ Top \in Frames /\ InPlace(n) /\ stack \in Seq(Frames)
  BY <1>1, TopAt
<1> QED
  BY <1>1, <1>2

(* Nothing below a function that asks for a page waits for memory. *)
LEMMA BelowAsker ==
    ASSUME Calls, NEW n \in Nat, n <= Depth, Depth \in Nat, n > 0, Frame(n).fn \in Askers
    PROVE  \A d \in 1..n : Frame(d).fn \in Askers \union {"ScanNodes"}
<1>1. InPlace(n)
  BY DEF Calls
<1>2. CASE Frame(n).fn = "AllocRelocInfo"
  <2>1. n = 1
    BY <1>1, <1>2 DEF InPlace, AddingReloc
  <2>2. \A d \in 1..n : d = n
    BY <2>1
  <2> QED
    BY <2>2
<1>3. CASE Frame(n).fn \in {"AllocNode", "AllocHugeNode"}
  <2>1. n = 2 /\ Frame(1).fn = "ScanNodes"
    BY <1>1, <1>3 DEF InPlace, AddingNode, AddingHuge
  <2>2. \A d \in 1..n : d = 1 \/ d = n
    BY <2>1
  <2> QED
    BY <2>1, <2>2
<1> QED
  BY <1>2, <1>3 DEF Askers

LEMMA AccountThen ==
    ASSUME Accounted, NEW r \in Int, NEW c \in Int, NEW o \in Int, NEW t \in Int, NEW z \in Int,
           room \in Nat, cache \in Nat, other \in Nat, IsFiniteSet(CellsIn(ram)),
           room' = room + r, cache' = cache + c, other' = other + o,
           (IF TempFile' THEN NameCells ELSE 0) = (IF TempFile THEN NameCells ELSE 0) + t,
           Cardinality(CellsIn(ram')) = Cardinality(CellsIn(ram)) + z, r + c + o + t + z = 0
    PROVE  Accounted'
<1> DEFINE a == Cardinality(CellsIn(ram))
           b == IF TempFile THEN NameCells ELSE 0
           a2 == Cardinality(CellsIn(ram'))
           b2 == IF TempFile' THEN NameCells ELSE 0
<1>1. a \in Nat /\ b \in Nat /\ a2 = a + z /\ b2 = b + t
  BY FS_CardinalityType, Constants
<1>2. room + cache + other + b + a = HeapCells
  BY DEF Accounted
<1> SUFFICES room' + cache' + other' + b2 + a2 = HeapCells
  BY DEF Accounted, CellsIn
<1> HIDE DEF a, b, a2, b2
<1> QED
  BY <1>1, <1>2

LEMMA MallocOther ==
    ASSUME IInv, Active("LAlloc"), Top.use = "other", Top.size <= room,
           room' = room - Top.size, other' = other + Top.size, stack' = Tail(stack),
           UNCHANGED <<ram, ret, TempFile, pages, relocs, cache, spill, status>>
    PROVE  IInv' /\ CellsKept
<1>1. /\ TypeOK /\ Kinds /\ Storage /\ Calls /\ HugePages /\ SwapList
      /\ Accounted /\ Data
  BY IInvIs DEF Control
<1> SUFFICES ASSUME NEW n, n = Depth, NEW x, x = Top.size PROVE IInv' /\ CellsKept
  OBVIOUS
<1>2. /\ stack # <<>> /\ stack \in Seq(Frames) /\ Frame(n) = Top /\ Top.fn = "LAlloc"
      /\ n \in 1..Depth /\ Top \in Frames
  BY ActiveAt
<1>3. ret = 0 /\ n = 1 /\ other + x <= MaxOther /\ x \in Nat
  <2>1. ret = 0 /\ Asking(n)
    BY <1>1, <1>2, NothingInHand
  <2>2. Top.size \in Nat \ {0}
    BY <1>2, FrameKinds
  <2> QED
    BY <1>2, <2>1, <2>2 DEF Asking
<1>4. Depth' = 0 /\ stack' \in Seq(Frames)
  <2>1. Depth' = n - 1 /\ stack' \in Seq(Frames)
    BY <1>2, Returned
  <2> QED
    BY <1>3, <2>1
<1>5. room \in Nat /\ cache \in 0..CacheBlocks /\ other \in 0..MaxOther
  BY <1>1 DEF TypeOK
<1>6. /\ room' \in Nat /\ cache' \in 0..CacheBlocks /\ other' \in 0..MaxOther
      /\ cache \in Nat /\ other \in Nat
  BY <1>3, <1>5, Constants
<1>7. Accounted'
  <2>1. /\ room' = room + (-x) /\ cache' = cache + 0 /\ other' = other + x
        /\ -x \in Int /\ x \in Int /\ 0 \in Int /\ (-x) + 0 + x + 0 + 0 = 0
    BY <1>3, <1>5, <1>6
  <2>2. (IF TempFile' THEN NameCells ELSE 0) = (IF TempFile THEN NameCells ELSE 0) + 0
    BY Constants
  <2>3. IsFiniteSet(CellsIn(ram)) /\ Cardinality(CellsIn(ram')) = Cardinality(CellsIn(ram)) + 0
    <3>1. Cardinality(CellsIn(ram)) \in Nat /\ CellsIn(ram') = CellsIn(ram) /\ IsFiniteSet(CellsIn(ram))
      BY <1>1, FS_CardinalityType DEF Kinds
    <3> QED
      BY <3>1
  <2> QED
    BY <1>1, <1>5, <1>6, <2>1, <2>2, <2>3, AccountThen
<1>8. Control' /\ \A k : k \in Leaving' <=> k \in Leaving
  <2> SUFFICES ASSUME NEW l \in Nat, l = 0
               PROVE  Control' /\ \A k : k \in Leaving' <=> k \in Leaving
    OBVIOUS
  <2>1. Quiet(l, l)
    <3>1. \A d \in 1..l : FALSE
      OBVIOUS
    <3> QED
      BY <3>1 DEF Quiet, RelocLeft, pages
  <2>2. \A d \in (l + 1)..n : Frame(d).fn \notin {"AllocHugeNode", "SwapOutVirt"}
    <3>1. \A d \in (l + 1)..n : d = n
      BY <1>3
    <3> QED
      BY <1>2, <3>1
  <2>3. \A d \in (l + 1)..l : FALSE
    OBVIOUS
  <2>4. InHand'
    BY <1>3 DEF InHand
  <2>5. /\ TempFile' \in BOOLEAN /\ spill' \in Seq(Int) /\ ret' \in Nat
        /\ \A b \in DOMAIN ram' : ram'[b] \in Seq(Int)
    BY <1>1 DEF TypeOK
  <2>6. /\ ram' = [b \in DOMAIN ram' |-> ram'[b]] /\ DOMAIN ram' \subseteq Nat \ {0}
        /\ IsFiniteSet(DOMAIN ram') /\ IsFiniteSet(CellsIn(ram'))
    BY <1>1 DEF Kinds
  <2>7. n \in Nat /\ l <= n /\ l <= l
    BY <1>3
  <2> QED
    BY <1>4, <1>6, <1>7, <2>1, <2>2, <2>3, <2>4, <2>5, <2>6, <2>7, QuietStep
<1>9. UNCHANGED <<SegTab, HugeTab>>
  BY DEF pages
<1>10. Places' = Places
  BY <1>8, <1>9, StillPlaces DEF RelocAt
<1>11. Data' /\ CellsKept
  BY <1>1, <1>10, DataSame DEF RelocAt
<1> QED
  BY <1>7, <1>8, <1>11 DEF IInv, Data

(* What a return with m = l = n - 1 keeps. *)
LEMMA QuietReturn ==
    ASSUME IInv, stack # <<>>, NEW n \in Nat \ {0}, n = Depth, stack' = Tail(stack),
           Frame(n).fn \notin {"AllocHugeNode", "SwapOutVirt", "SpillRelocList"},
           UNCHANGED <<pages, relocs>>,
           \A d \in 1..(n - 1) : Frame(d).fn = "LAlloc" =>
              /\ ret' = 0 /\ other' = other /\ Frame(d).use # "name"
    PROVE  /\ stack' \in Seq(Frames) /\ Depth' = n - 1 /\ n - 1 \in Nat /\ n - 1 <= n
           /\ Quiet(n - 1, n - 1)
           /\ \A d \in ((n - 1) + 1)..n : Frame(d).fn \notin {"AllocHugeNode", "SwapOutVirt"}
           /\ \A d \in ((n - 1) + 1)..(n - 1) : FALSE
<1>1. stack \in Seq(Frames) /\ Calls
  BY DEF IInv, Control, Kinds
<1>2. stack' \in Seq(Frames) /\ Depth' = n - 1 /\ \A d \in 1..(n - 1) : Frame(d)' = Frame(d)
  BY <1>1, Returned
<1>3. \A d \in 1..(n - 1) : d \in 1..n
  OBVIOUS
<1>4. \A d \in 1..(n - 1) : Frame(d).fn = "SpillRelocList" => ~relocs'[Frame(d).block].spilled
  BY <1>1, <1>3 DEF Calls, InPlace, SpillingReloc
<1>5. \A d \in 1..(n - 1) : Frame(d).fn = "AllocHugeNode" => Frame(d).nomem = FALSE
  BY <1>1, <1>3, NoneWithoutMemory
<1>6. Quiet(n - 1, n - 1)
  BY <1>2, <1>4, <1>5 DEF Quiet, RelocLeft, pages
<1>7. \A d \in ((n - 1) + 1)..n : d = n
  OBVIOUS
<1>8. \A d \in ((n - 1) + 1)..(n - 1) : FALSE
  OBVIOUS
<1> QED
  BY <1>2, <1>6, <1>7, <1>8

LEMMA MallocName ==
    ASSUME IInv, Active("LAlloc"), Top.use = "name", Top.size <= room,
           room' = room - Top.size, TempFile' = TRUE, stack' = Tail(stack),
           UNCHANGED <<ram, ret, other, pages, relocs, cache, spill, status>>
    PROVE  IInv' /\ CellsKept
<1>1. /\ TypeOK /\ Kinds /\ Storage /\ Calls /\ HugePages /\ SwapList
      /\ Accounted /\ Data
  BY IInvIs DEF Control
<1> SUFFICES ASSUME NEW n, n = Depth PROVE IInv' /\ CellsKept
  OBVIOUS
<1>2. /\ stack # <<>> /\ stack \in Seq(Frames) /\ Frame(n) = Top /\ Top.fn = "LAlloc"
      /\ n \in Nat \ {0} /\ n \in 1..Depth
  BY ActiveAt
<1>3. ret = 0 /\ Top.size = NameCells /\ TempFile = FALSE
  <2>1. ret = 0 /\ Asking(n)
    BY <1>1, <1>2, NothingInHand
  <2> QED
    BY <1>1, <1>2, <2>1 DEF Asking, TypeOK
<1>4. room \in Nat /\ cache \in 0..CacheBlocks /\ other \in 0..MaxOther
  BY <1>1 DEF TypeOK
<1>5. NameCells \in Nat /\ room' \in Nat /\ cache \in Nat /\ other \in Nat /\ ~(room < NameCells)
  BY <1>3, <1>4, Constants
<1>6. \A d \in 1..(n - 1) : Frame(d).fn = "LAlloc" =>
        /\ ret' = 0 /\ other' = other /\ Frame(d).use # "name"
  <2> TAKE d \in 1..(n - 1)
  <2> HAVE Frame(d).fn = "LAlloc"
  <2>1. d \in 1..Depth /\ d < Depth
    BY <1>2
  <2>2. Asking(d)
    BY <1>1, <2>1, NothingInHand
  <2> QED
    BY <1>3, <1>5, <2>1, <2>2 DEF Asking
<1> SUFFICES ASSUME NEW l, l = n - 1 PROVE IInv' /\ CellsKept
  OBVIOUS
<1>7. /\ stack' \in Seq(Frames) /\ Depth' = l /\ l \in Nat /\ l <= n /\ l <= l /\ n \in Nat
      /\ Quiet(l, l)
      /\ \A d \in (l + 1)..n : Frame(d).fn \notin {"AllocHugeNode", "SwapOutVirt"}
      /\ \A d \in (l + 1)..l : FALSE
  <2>1. Frame(n).fn \notin {"AllocHugeNode", "SwapOutVirt", "SpillRelocList"}
    BY <1>2
  <2> QED
    BY <1>2, <1>6, <2>1, QuietReturn
<1>8. Accounted'
  <2>1. /\ room' = room + (-NameCells) /\ cache' = cache + 0 /\ other' = other + 0
        /\ -NameCells \in Int /\ NameCells \in Int /\ 0 \in Int
        /\ (-NameCells) + 0 + 0 + NameCells + 0 = 0
    BY <1>3, <1>4, <1>5
  <2>2. (IF TempFile' THEN NameCells ELSE 0) = (IF TempFile THEN NameCells ELSE 0) + NameCells
    BY <1>3, <1>5
  <2>3. IsFiniteSet(CellsIn(ram)) /\ Cardinality(CellsIn(ram')) = Cardinality(CellsIn(ram)) + 0
    <3>1. Cardinality(CellsIn(ram)) \in Nat /\ CellsIn(ram') = CellsIn(ram) /\ IsFiniteSet(CellsIn(ram))
      BY <1>1, FS_CardinalityType DEF Kinds
    <3> QED
      BY <3>1
  <2> QED
    BY <1>1, <1>4, <1>5, <2>1, <2>2, <2>3, AccountThen
<1>9. Control' /\ \A k : k \in Leaving' <=> k \in Leaving
  <2>1. InHand'
    BY <1>3 DEF InHand
  <2>2. /\ TempFile' \in BOOLEAN /\ spill' \in Seq(Int) /\ ret' \in Nat
        /\ \A b \in DOMAIN ram' : ram'[b] \in Seq(Int)
    BY <1>1 DEF TypeOK
  <2>3. /\ ram' = [b \in DOMAIN ram' |-> ram'[b]] /\ DOMAIN ram' \subseteq Nat \ {0}
        /\ IsFiniteSet(DOMAIN ram') /\ IsFiniteSet(CellsIn(ram'))
    BY <1>1 DEF Kinds
  <2>4. cache' \in 0..CacheBlocks /\ other' \in 0..MaxOther
    BY <1>4
  <2> QED
    BY <1>5, <1>7, <1>8, <2>1, <2>2, <2>3, <2>4, QuietStep
<1>10. UNCHANGED <<SegTab, HugeTab>>
  BY DEF pages
<1>11. Places' = Places
  BY <1>9, <1>10, StillPlaces DEF RelocAt
<1>12. Data' /\ CellsKept
  BY <1>1, <1>11, DataSame DEF RelocAt
<1> QED
  BY <1>8, <1>9, <1>12 DEF IInv, Data
LEMMA NewPlaceThen ==
    /\ HasPlace(NewBlock)' <=> ret' # 0
    /\ PlaceOf(NewBlock)' = InRam(ret', Len(ram'[ret']))
<1>1. NewBlock.kind = "new" /\ NewBlock.no = 0 /\ NewBlock.sub = 0
  BY DEF NewBlock
<1> QED
  BY <1>1 DEF HasPlace, PlaceOf, InRam

LEMMA OneNew ==
    ASSUME NEW o \in Owners, o.kind = "new", o # NewBlock
    PROVE  SamePlace(o)
<1>1. o.kind # "node" /\ o.kind # "huge" /\ o.kind # "reloc"
  OBVIOUS
<1>2. ~(o.no = 0 /\ o.sub = 0)
  BY OwnersAre DEF NewBlock
<1>3. ~HasPlace(o) /\ ~HasPlace(o)'
  BY <1>1, <1>2 DEF HasPlace
<1> QED
  BY <1>3 DEF SamePlace

LEMMA RelocsPlaced ==
    ASSUME TypeOK
    PROVE  \A n \in 1..Len(relocs) : RelocNo(n) \in DOMAIN Places
<1> TAKE n \in 1..Len(relocs)
<1>1. n \in Nat
  BY DEF TypeOK
<1> QED
  BY <1>1, RelocPlace

(* Nothing that had a place lost its cells. *)
LEMMA DataKept ==
    ASSUME TypeOK, Data, Memory(Places', ram', spill'),
           SameValues(DOMAIN Places, Places, ram, spill, Places', ram', spill'),
           DOMAIN Places \subseteq DOMAIN Places',
           \A o \in DOMAIN Places' \ DOMAIN Places : o.kind \in {"node", "huge"} =>
              \A j \in 1..Places'[o].size : Value(Places', ram', spill', o, j) \in {Fresh, Hole},
           Len(relocs') = Len(relocs), \A n \in 1..Len(relocs) : RelocAt(n)'.left = RelocAt(n).left,
           ret' # 0 => \A j \in 1..Len(ram'[ret']) : ram'[ret'][j] = Fresh
    PROVE  Data' /\ CellsKept
<1>1. RelocValues'
  BY RelocsPlaced, RelocValuesKept DEF Data
<1>2. NewIsFresh'
  BY DEF NewIsFresh, Fresh
<1>3. CellsKept
  BY DEF CellsKept, PagesPlaced, SameValues
<1> QED
  BY <1>1, <1>2, <1>3 DEF Data

LEMMA MallocPage ==
    ASSUME IInv, Active("LAlloc"), Top.use = "page", Top.size <= room,
           room' = room - Top.size, stack' = Tail(stack), ret' = FreeBlock(ram),
           ram' = [b \in DOMAIN ram \union {ret'} |->
                       IF b = ret' THEN [i \in 1..Top.size |-> Fresh] ELSE ram[b]],
           UNCHANGED <<other, TempFile, pages, relocs, cache, spill, status>>
    PROVE  IInv' /\ CellsKept
<1>1. /\ TypeOK /\ Kinds /\ Storage /\ Calls /\ HugePages /\ SwapList
      /\ Accounted /\ Data
  BY IInvIs DEF Control
<1> SUFFICES ASSUME NEW n, n = Depth, NEW x, x = Top.size, NEW b, b = FreeBlock(ram),
                    NEW s, s = [i \in 1..x |-> Fresh]
             PROVE  IInv' /\ CellsKept
  OBVIOUS
<1>2. /\ stack # <<>> /\ stack \in Seq(Frames) /\ Frame(n) = Top /\ Top.fn = "LAlloc"
      /\ n \in Nat \ {0} /\ n \in 1..Depth /\ Top \in Frames
  BY ActiveAt
<1>3. ret = 0 /\ x \in Nat \ {0} /\ Under(n, Askers) /\ x = NeededBy(Frame(n - 1))
  <2>1. ret = 0 /\ Asking(n)
    BY <1>1, <1>2, NothingInHand
  <2>2. Top.size \in Nat \ {0}
    BY <1>2, FrameKinds
  <2> QED
    BY <1>2, <2>1, <2>2 DEF Asking
<1>4. b \in Nat \ {0} /\ b \notin DOMAIN ram /\ ret' = b /\ ram' = With(ram, b, s)
  BY <1>1, FreeBlockIsNew DEF Kinds, With
<1>5. s \in Seq(Int) /\ Len(s) = x /\ s # <<>> /\ \A j \in 1..x : s[j] = Fresh
  <2>1. Fresh \in Int /\ 1 \in 1..x
    BY <1>3 DEF Fresh
  <2> QED
    BY <1>3, <2>1
<1>6. DOMAIN ram' = DOMAIN ram \union {b} /\ ram'[b] = s /\ \A c \in DOMAIN ram : ram'[c] = ram[c]
  BY <1>4, WithIs
<1> SUFFICES ASSUME NEW l, l = n - 1 PROVE IInv' /\ CellsKept
  OBVIOUS
<1>7. l \in Nat /\ l > 0 /\ l <= Depth /\ Frame(l).fn \in Askers /\ Depth \in Nat /\ l \in 1..l
  BY <1>2, <1>3 DEF Under
<1>8. \A d \in 1..l : Frame(d).fn # "LAlloc"
  BY <1>1, <1>7, BelowAsker DEF Askers
<1>9. /\ stack' \in Seq(Frames) /\ Depth' = l /\ l <= n /\ l <= l /\ n \in Nat
      /\ Quiet(l, l)
      /\ \A d \in (l + 1)..n : Frame(d).fn \notin {"AllocHugeNode", "SwapOutVirt"}
      /\ \A d \in (l + 1)..l : FALSE
  <2>1. Frame(n).fn \notin {"AllocHugeNode", "SwapOutVirt", "SpillRelocList"}
    BY <1>2
  <2> QED
    BY <1>2, <1>8, <2>1, QuietReturn
<1>10. room \in Nat /\ cache \in 0..CacheBlocks /\ other \in 0..MaxOther
  BY <1>1 DEF TypeOK
<1>11. room' \in Nat /\ cache \in Nat /\ other \in Nat
  BY <1>3, <1>10, Constants
<1>12. IsFiniteSet(CellsIn(ram)) /\ IsFiniteSet(CellsIn(ram'))
       /\ Cardinality(CellsIn(ram')) = Cardinality(CellsIn(ram)) + x
  <2>1. IsFiniteSet(CellsIn(ram))
    BY <1>1 DEF Kinds
  <2>2. /\ IsFiniteSet(CellsIn(With(ram, b, s)))
        /\ Cardinality(CellsIn(With(ram, b, s))) = Cardinality(CellsIn(ram)) + Len(s)
    <3>1. s \in Seq(Int) /\ b \notin DOMAIN ram
      BY <1>4, <1>5
    <3> QED
      BY <2>1, <3>1, CellsAdded, Zenon
  <2>3. CellsIn(ram') = CellsIn(With(ram, b, s))
    BY <1>4
  <2> QED
    BY <1>5, <2>1, <2>2, <2>3
<1>13. Accounted'
  <2>1. /\ room' = room + (-x) /\ cache' = cache + 0 /\ other' = other + 0
        /\ -x \in Int /\ x \in Int /\ 0 \in Int
        /\ (-x) + 0 + 0 + 0 + x = 0
    BY <1>3, <1>10, <1>11
  <2>2. (IF TempFile' THEN NameCells ELSE 0) = (IF TempFile THEN NameCells ELSE 0) + 0
    BY Constants
  <2> QED
    BY <1>1, <1>10, <1>11, <1>12, <2>1, <2>2, AccountThen
<1>14. Control' /\ \A k : k \in Leaving' <=> k \in Leaving
  <2>1. InHand'
    <3>1. Frame(l)' = Frame(l)
      BY <1>7, <1>9 DEF Quiet
    <3>2. UNCHANGED <<SegTab, HugeTab>>
      BY DEF pages
    <3>3. NeededBy(Frame(l))' = NeededBy(Frame(l))
      BY <3>1, <3>2 DEF NeededBy, SubSize
    <3>4. Frame(Depth)' = Frame(l)
      BY <1>9, <3>1
    <3>5. NeededBy(Frame(Depth))' = NeededBy(Frame(l))
      BY <1>9, <3>3
    <3> QED
      BY <1>3, <1>4, <1>5, <1>6, <1>7, <1>9, <3>4, <3>5 DEF InHand, Askers
  <2>2. /\ TempFile' \in BOOLEAN /\ spill' \in Seq(Int) /\ ret' \in Nat
        /\ \A c \in DOMAIN ram' : ram'[c] \in Seq(Int)
    BY <1>1, <1>4, <1>5, <1>6 DEF TypeOK
  <2>3. /\ ram' = [c \in DOMAIN ram' |-> ram'[c]] /\ DOMAIN ram' \subseteq Nat \ {0}
        /\ IsFiniteSet(DOMAIN ram') /\ IsFiniteSet(CellsIn(ram'))
    <3>1. ram' = [c \in DOMAIN ram' |-> ram'[c]]
      BY <1>4 DEF With
    <3>2. IsFiniteSet(DOMAIN ram \union {b})
      BY <1>1, FS_AddElement DEF Kinds
    <3> QED
      BY <1>1, <1>4, <1>6, <1>12, <3>1, <3>2 DEF Kinds
  <2>4. cache' \in 0..CacheBlocks /\ other' \in 0..MaxOther
    BY <1>10
  <2> QED
    BY <1>7, <1>9, <1>11, <1>13, <2>1, <2>2, <2>3, <2>4, QuietStep
<1>15. NewBlock \notin DOMAIN Places /\ Places' = With(Places, NewBlock, InRam(b, x))
  <2>1. /\ ~HasPlace(NewBlock) /\ HasPlace(NewBlock)'
        /\ PlaceOf(NewBlock)' = InRam(b, x)
    BY <1>3, <1>4, <1>5, <1>6, NewPlace, NewPlaceThen
  <2>2. ASSUME NEW o \in Owners \ {NewBlock} PROVE SamePlace(o)
    <3>1. CASE o.kind = "node"
      BY <1>14, <3>1, NodeSame DEF pages
    <3>2. CASE o.kind = "huge"
      BY <3>2, HugeSame DEF pages
    <3>3. CASE o.kind = "reloc"
      BY <3>3, RelocSame DEF RelocAt
    <3>4. CASE o.kind = "new"
      BY <3>4, OneNew
    <3> QED
      BY <3>1, <3>2, <3>3, <3>4, OwnersAre
  <2>3. NewBlock \in Owners
    BY TheyAreOwners
  <2> QED
    BY <2>1, <2>2, <2>3, PlaceGained
<1>16. Memory(Places, ram, spill) /\ b \in Nat
  BY <1>1, <1>4 DEF Data
<1>17. /\ Memory(Places', ram', spill')
       /\ SameValues(DOMAIN Places, Places, ram, spill, Places', ram', spill')
  <2> SUFFICES ASSUME NEW Q, Q = With(Places, NewBlock, InRam(b, Len(s))),
                      NEW t, t = With(ram, b, s)
               PROVE  /\ Memory(Places', ram', spill')
                      /\ SameValues(DOMAIN Places, Places, ram, spill, Places', ram', spill')
    OBVIOUS
  <2>1. Memory(Q, t, spill) /\ SameValues(DOMAIN Places, Places, ram, spill, Q, t, spill)
    BY <1>4, <1>5, <1>15, <1>16, PlaceInRam
  <2>2. Places' = Q /\ ram' = t /\ spill' = spill
    BY <1>4, <1>5, <1>15
  <2> HIDE DEF Places
  <2> QED
    BY <2>1, <2>2
<1>18. DOMAIN Places' = DOMAIN Places \union {NewBlock}
  BY <1>15, WithIs
<1>19. Data' /\ CellsKept
  <2>1. \A o \in DOMAIN Places' \ DOMAIN Places : ~(o.kind \in {"node", "huge"})
    BY <1>18 DEF NewBlock
  <2>2. \A j \in 1..Len(ram'[ret']) : ram'[ret'][j] = Fresh
    BY <1>4, <1>5, <1>6
  <2>3. \A k \in 1..Len(relocs) : RelocAt(k)'.left = RelocAt(k).left
    BY DEF RelocAt
  <2> QED
    BY <1>1, <1>17, <1>18, <2>1, <2>2, <2>3, DataKept
<1> QED
  BY <1>13, <1>14, <1>19 DEF IInv, Data

LEMMA MallocStep ==
    ASSUME IInv, Malloc
    PROVE  IInv' /\ CellsKept
<1>1. /\ Active("LAlloc") /\ Top.size <= room /\ room' = room - Top.size /\ stack' = Tail(stack)
      /\ UNCHANGED <<pages, relocs, cache, spill, status>>
  BY DEF Malloc, Pop
<1>2. CASE /\ Top.use = "page"
           /\ ret' = FreeBlock(ram)
           /\ ram' = [b \in DOMAIN ram \union {ret'} |->
                       IF b = ret' THEN [i \in 1..Top.size |-> Fresh] ELSE ram[b]]
           /\ UNCHANGED <<other, TempFile>>
  BY <1>1, <1>2, MallocPage
<1>3. CASE Top.use = "other" /\ other' = other + Top.size /\ UNCHANGED <<ram, ret, TempFile>>
  BY <1>1, <1>3, MallocOther
<1>4. CASE Top.use = "name" /\ TempFile' = TRUE /\ UNCHANGED <<ram, ret, other>>
  BY <1>1, <1>4, MallocName
<1> QED
  BY <1>2, <1>3, <1>4 DEF Malloc
----------------------------------------------------------------------------
(***************************************************************************)
(* A piece of storage is read or written.                                   *)
(***************************************************************************)
PieceAmt == IF Off(Top.addr) + Top.len <= Place(Top.addr).size THEN Top.len
            ELSE Place(Top.addr).size - Off(Top.addr)
Piece    == Owner(Top.addr)

LEMMA NumbersAre == Addr \subseteq Nat /\ Sizes \subseteq Nat
BY Constants DEF Addr

LEMMA HugeEntry ==
    ASSUME NEW a, IsHuge(a)
    PROVE  /\ Place(a).loc = HugeTab[BigNode(a)].page[Subpage(a)]
           /\ Place(a).inmem = (Subpage(a) > HugeTab[BigNode(a)].numswapped)
           /\ Place(a).size = SubSize(BigNode(a), Subpage(a))
BY DEF Place

LEMMA OneFrame ==
    ASSUME IInv, Active("ScanNodes")
    PROVE  Leaving = {} /\ \A p, s : ~Unplaced(p, s)
<1>1. Depth = 1 /\ Frame(1).fn = "ScanNodes" /\ stack \in Seq(Frames)
  BY ScanningAt DEF IInv, Control, Kinds
<1>2. \A d \in 1..Depth : d = 1
  BY <1>1
<1>3. \A d \in 1..Depth : Frame(d).fn = "ScanNodes"
  BY <1>1, <1>2
<1>4. \A k : k \notin Leaving
  BY <1>1, <1>3, LeavingIs
<1>5. \A p, s : ~Unplaced(p, s)
  BY <1>3 DEF Unplaced
<1> QED
  BY <1>4, <1>5

(* The cell at an address that has been handed out, in a page that has its  *)
(* memory.                                                                  *)
LEMMA PlaceAt ==
    ASSUME IInv, Leaving = {}, \A p, s : ~Unplaced(p, s), NEW a \in Nat, Covered(a),
           IF IsHuge(a) THEN HugeTab[BigNode(a)].page # <<>> ELSE Place(a).loc # 0
    PROVE  /\ Owner(a) \in DOMAIN Places /\ Owner(a).kind \in {"node", "huge"}
           /\ Off(a) \in Nat /\ Place(a).size \in Nat /\ Off(a) < Place(a).size
           /\ Place(a).size <= Limit(a)
           /\ Places[Owner(a)] = IF Place(a).inmem THEN InRam(Place(a).loc, Place(a).size)
                                                   ELSE InFile(Place(a).loc, Place(a).size)
<1>1. TypeOK /\ HugePages
  BY DEF IInv, Control
<1>2. CASE ~IsHuge(a)
  <2> DEFINE k == Node(a)
  <2>1. /\ k \in 1..Len(SegTab) /\ Off(a) < SegTab[k].size /\ Place(a) = SegTab[k]
        /\ Owner(a) = NodeNo(k) /\ Limit(a) = NodeCells
    BY <1>2 DEF Covered, Place, Owner, Limit
  <2> HIDE DEF k
  <2>2. Off(a) \in Nat
    <3>1. Off(a) \in 0..(NodeCells - 1)
      BY <1>2, NodeAddress
    <3> QED
      BY <3>1
  <2>3. k \in Nat /\ SegTab[k].size \in 1..NodeCells
    BY <1>1, <2>1, TypesAre
  <2>4. NodeNo(k) \in DOMAIN Places /\ PlaceOf(NodeNo(k)) =
          IF SegTab[k].inmem THEN InRam(SegTab[k].loc, SegTab[k].size)
                             ELSE InFile(SegTab[k].loc, SegTab[k].size)
    BY <1>2, <2>1, <2>3, NodePlace
  <2>5. Places[NodeNo(k)] = PlaceOf(NodeNo(k))
    BY <2>4, PlacesAre
  <2>6. NodeNo(k).kind = "node" /\ SegTab[k].size \in Nat /\ SegTab[k].size <= NodeCells
    BY <2>3, Constants DEF NodeNo
  <2> QED
    BY <2>1, <2>2, <2>4, <2>5, <2>6
<1>3. CASE IsHuge(a)
  <2> DEFINE p == BigNode(a)
             s == Subpage(a)
  <2>1. /\ p \in 1..Len(HugeTab) /\ s \in 1..HugeTab[p].numthere /\ Off(a) < SubSize(p, s)
        /\ HugeTab[p].page # <<>>
        /\ Place(a) = [loc |-> HugeTab[p].page[s], inmem |-> s > HugeTab[p].numswapped,
                       size |-> SubSize(p, s)]
        /\ Owner(a) = HugeNo(p, s) /\ Limit(a) = SubCells
    BY <1>3 DEF Covered, Place, Owner, Limit
  <2> HIDE DEF p, s
  <2>2. Off(a) \in Nat
    <3>1. Off(a) \in 0..(SubCells - 1)
      BY <1>3, HugeAddress
    <3> QED
      BY <3>1
  <2>3. /\ p \in Nat /\ HugeTab[p].numthere \in 1..Subpages /\ HugeTab[p].sizelast \in 1..SubCells
        /\ HugeTab[p].page \in Seq(Nat) /\ Len(HugeTab[p].page) \in {0, HugeTab[p].numthere}
    BY <1>1, <2>1, TypesAre
  <2>4. s \in 1..Len(HugeTab[p].page) /\ s \in Nat
    <3>1. Len(HugeTab[p].page) # 0
      BY <2>1, <2>3
    <3> QED
      BY <2>1, <2>3, <3>1
  <2>5. HugeTab[p].page[s] # 0
    BY <1>1, <2>1, <2>4 DEF HugePages
  <2>6. SubSize(p, s) \in 1..SubCells
    BY <2>3, Constants DEF SubSize
  <2>7. SubSize(p, s) \in Nat /\ SubSize(p, s) <= SubCells
    BY <2>6, Constants
  <2>8. HugeNo(p, s) \in DOMAIN Places /\ PlaceOf(HugeNo(p, s)) =
          IF s > HugeTab[p].numswapped THEN InRam(HugeTab[p].page[s], SubSize(p, s))
                                       ELSE InFile(HugeTab[p].page[s], SubSize(p, s))
    BY <2>1, <2>3, <2>4, <2>5, HugePlace
  <2>9. Places[HugeNo(p, s)] = PlaceOf(HugeNo(p, s)) /\ HugeNo(p, s).kind = "huge"
    BY <2>8, PlacesAre DEF HugeNo
  <2>10. /\ Place(a).loc = HugeTab[p].page[s] /\ Place(a).size = SubSize(p, s)
         /\ Place(a).inmem = (s > HugeTab[p].numswapped)
    BY <1>3, HugeEntry DEF p, s
  <2>11. Places[Owner(a)] = IF Place(a).inmem THEN InRam(Place(a).loc, Place(a).size)
                                              ELSE InFile(Place(a).loc, Place(a).size)
    BY <2>1, <2>8, <2>9, <2>10
  <2> QED
    BY <2>1, <2>2, <2>7, <2>8, <2>9, <2>10, <2>11
<1> QED
  BY <1>2, <1>3

LEMMA PieceAt ==
    ASSUME IInv, Active("ScanNodes"), Top.len > 0,
           IF IsHuge(Top.addr) THEN HugeTab[BigNode(Top.addr)].page # <<>>
                               ELSE Place(Top.addr).loc # 0
    PROVE  /\ Piece \in DOMAIN Places /\ Piece.kind \in {"node", "huge"}
           /\ Off(Top.addr) \in Nat /\ Place(Top.addr).size \in Nat
           /\ Top.addr \in Nat /\ Top.len \in Nat
           /\ PieceAmt \in Nat \ {0} /\ PieceAmt <= Top.len
           /\ Off(Top.addr) + PieceAmt <= Place(Top.addr).size
           /\ Place(Top.addr).size <= Limit(Top.addr)
           /\ Places[Piece] = IF Place(Top.addr).inmem
                              THEN InRam(Place(Top.addr).loc, Place(Top.addr).size)
                              ELSE InFile(Place(Top.addr).loc, Place(Top.addr).size)
<1> DEFINE a == Top.addr
<1>1. a \in Nat /\ Top.len \in Nat /\ Covered(a)
  <2>1. Top.addr \in Nat /\ Top.len \in Nat
    BY ScanningAt
  <2>2. a \in a..(a + Top.len - 1)
    BY <2>1
  <2> QED
    BY <2>1, <2>2, ScanningAt
<1>2. Leaving = {} /\ \A p, s : ~Unplaced(p, s)
  BY OneFrame
<1>3. /\ Owner(a) \in DOMAIN Places /\ Owner(a).kind \in {"node", "huge"}
      /\ Off(a) \in Nat /\ Place(a).size \in Nat /\ Off(a) < Place(a).size
      /\ Place(a).size <= Limit(a)
      /\ Places[Owner(a)] = IF Place(a).inmem THEN InRam(Place(a).loc, Place(a).size)
                                              ELSE InFile(Place(a).loc, Place(a).size)
  BY <1>1, <1>2, PlaceAt
<1>4. /\ PieceAmt \in Nat \ {0} /\ PieceAmt <= Top.len
      /\ Off(a) + PieceAmt <= Place(a).size
  <2> DEFINE o == Off(a)
             z == Place(a).size
  <2>1. o \in Nat /\ z \in Nat /\ o < z /\ Top.len \in Nat /\ Top.len > 0
        /\ PieceAmt = IF o + Top.len <= z THEN Top.len ELSE z - o
    BY <1>1, <1>3 DEF PieceAmt
  <2> HIDE DEF o, z
  <2>2. PieceAmt \in Nat \ {0} /\ PieceAmt <= Top.len /\ o + PieceAmt <= z
    BY <2>1
  <2> QED
    BY <2>2 DEF o, z
<1> QED
  BY <1>1, <1>3, <1>4 DEF Piece

LEMMA ScanGoesOn ==
    ASSUME IInv, Active("ScanNodes"), NEW f \in Frames, f.fn = "ScanNodes",
           f.addr >= Top.addr, f.addr + f.len <= Top.addr + Top.len, stack' = <<f>>,
           UNCHANGED <<pages, relocs, room, cache, other, TempFile, ret, status>>,
           spill' \in Seq(Int), \A b \in DOMAIN ram : ram'[b] \in Seq(Int) /\ Len(ram'[b]) = Len(ram[b]),
           DOMAIN ram' = DOMAIN ram, ram' = [b \in DOMAIN ram' |-> ram'[b]]
    PROVE  Control' /\ Accounted' /\ Places' = Places
<1>1. /\ TypeOK /\ Kinds /\ Storage /\ Calls /\ HugePages /\ SwapList
      /\ Accounted /\ Data
  BY IInvIs DEF Control
<1>2. /\ Depth = 1 /\ Frame(1) = Top /\ ret = 0 /\ Top.fn = "ScanNodes" /\ stack \in Seq(Frames)
      /\ Top.addr \in Nat /\ Top.len \in Nat
      /\ \E b \in owned : b.addr <= Top.addr /\ Top.addr + Top.len <= b.addr + b.len
  BY <1>1, ScanningAt DEF Kinds
<1>3. stack' \in Seq(Frames) /\ Depth' = 1 /\ Frame(1)' = f
  <2>1. stack' \in Seq(Frames) /\ Len(stack') = 1 /\ stack'[1] = f
    OBVIOUS
  <2> QED
    BY <2>1 DEF Depth, Frame, At
<1>4. CellsIn(ram') = CellsIn(ram)
  BY CellsSame
<1>5. Accounted'
  BY <1>1, <1>4 DEF Accounted, CellsIn
<1>6. InPlace(1)'
  <2>1. PICK b \in owned : b.addr <= Top.addr /\ Top.addr + Top.len <= b.addr + b.len
    BY <1>2
  <2>2. b.addr \in Addr /\ b.len \in Sizes
    BY <1>1 DEF TypeOK
  <2>3. Addr \subseteq Nat /\ Sizes \subseteq Nat
    BY NumbersAre
  <2>4. f.addr \in Nat /\ f.len \in Nat
    BY FrameKinds
  <2>5. b \in owned' /\ b.addr <= f.addr /\ f.addr + f.len <= b.addr + b.len
    BY <1>2, <2>1, <2>2, <2>3, <2>4 DEF pages
  <2>6. Scanning(1)'
    BY <1>3, <2>5 DEF Scanning
  <2> QED
    BY <1>3, <2>6, ThenInPlace
<1>7. Control' /\ \A k : k \in Leaving' <=> k \in Leaving
  <2> SUFFICES ASSUME NEW m \in Nat, m = 0, NEW n \in Nat, n = 1
               PROVE  Control' /\ \A k : k \in Leaving' <=> k \in Leaving
    OBVIOUS
  <2>1. Quiet(m, n)
    <3>1. \A d \in 1..m : FALSE
      OBVIOUS
    <3> QED
      BY <3>1 DEF Quiet, RelocLeft, pages
  <2>2. \A d \in (m + 1)..n : d = 1
    OBVIOUS
  <2>3. \A d \in (m + 1)..n : Frame(d).fn \notin {"AllocHugeNode", "SwapOutVirt"}
    BY <1>2, <2>2
  <2>4. \A d \in (m + 1)..n : /\ Frame(d)'.fn \notin {"AllocHugeNode", "SwapOutVirt"}
                              /\ InPlace(d)'
    BY <1>3, <1>6, <2>2
  <2>5. InHand'
    BY <1>2 DEF InHand
  <2>6. /\ room' \in Nat /\ cache' \in 0..CacheBlocks /\ other' \in 0..MaxOther
        /\ TempFile' \in BOOLEAN /\ ret' \in Nat
        /\ \A b \in DOMAIN ram' : ram'[b] \in Seq(Int)
    BY <1>1 DEF TypeOK
  <2>7. DOMAIN ram' \subseteq Nat \ {0} /\ IsFiniteSet(DOMAIN ram') /\ IsFiniteSet(CellsIn(ram'))
    BY <1>1, <1>4 DEF Kinds
  <2>8. n <= n /\ m <= n /\ n = Depth /\ n = Depth'
    BY <1>2, <1>3
  <2>9. UNCHANGED <<pages, relocs, status>>
    OBVIOUS
  <2> QED
    BY <1>3, <1>5, <2>1, <2>3, <2>4, <2>5, <2>6, <2>7, <2>8, <2>9, QuietStep
<1>8. Places' = Places
  <2>1. ASSUME NEW o \in Owners PROVE SamePlace(o)
    <3>1. CASE o.kind = "node"
      BY <1>7, <3>1, NodeSame DEF pages
    <3>2. CASE o.kind = "huge"
      BY <3>2, HugeSame DEF pages
    <3>3. CASE o.kind = "reloc"
      BY <3>3, RelocSame DEF RelocAt
    <3>4. CASE o.kind = "new"
      BY <1>2, <3>4, NewSame
    <3> QED
      BY <3>1, <3>2, <3>3, <3>4, OwnersAre
  <2> QED
    BY <2>1, PlacesKept
<1> QED
  BY <1>5, <1>7, <1>8
----------------------------------------------------------------------------
(* The cells d are stored in the cells of o from off + 1 on. *)
Stored(o, off, d) ==
    /\ Places' = Places
    /\ SameValues(DOMAIN Places \ {o}, Places, ram, spill, Places', ram', spill')
    /\ CellsPut(Places, ram, spill, o, off, d, ram', spill')

(* What RAM block s becomes. *)
Overlaid(s, off, d) == [i \in 1..Len(s) |-> IF i - off \in 1..Len(d) THEN d[i - off] ELSE s[i]]

OverlaidCells(s, off, d, t) ==
    \A i \in 1..Len(s) : t[i] = IF i - off \in 1..Len(d) THEN d[i - off] ELSE s[i]

LEMMA OverlaidIs ==
    ASSUME NEW s \in Seq(Int), NEW off \in Nat, NEW d \in Seq(Int)
    PROVE  /\ Overlaid(s, off, d) \in Seq(Int) /\ Len(Overlaid(s, off, d)) = Len(s)
           /\ OverlaidCells(s, off, d, Overlaid(s, off, d))
<1>1. \A i \in 1..Len(s) : (IF i - off \in 1..Len(d) THEN d[i - off] ELSE s[i]) \in Int
  OBVIOUS
<1> QED
  BY <1>1, IsASeq DEF Overlaid, OverlaidCells

LEMMA PutInRam ==
    ASSUME NEW P, NEW r, NEW f, Memory(P, r, f), NEW o \in DOMAIN P, P[o].where = "ram",
           NEW off \in Nat, NEW d \in Seq(Int), NEW b, b = P[o].loc,
           NEW t, t = With(r, b, Overlaid(r[b], off, d))
    PROVE  /\ Memory(P, t, f) /\ SameValues(DOMAIN P \ {o}, P, r, f, P, t, f)
           /\ CellsPut(P, r, f, o, off, d, t, f)
<1> DEFINE s == Overlaid(r[b], off, d)
<1>1. b \in DOMAIN r /\ Len(r[b]) = P[o].size /\ r[b] \in Seq(Int)
  BY DEF Memory, Typed, Housed
<1>2. /\ s \in Seq(Int) /\ Len(s) = P[o].size
      /\ OverlaidCells(r[b], off, d, s)
  BY <1>1, OverlaidIs
<1>3. t = With(r, P[o].loc, s)
  OBVIOUS
<1> HIDE DEF s
<1>4. Memory(P, t, f) /\ SameValues(DOMAIN P \ {o}, P, r, f, P, t, f) /\ CellsAre(P, t, f, o, s)
  BY <1>2, <1>3, WriteInRam
<1>5. CellsPut(P, r, f, o, off, d, t, f)
  <2> SUFFICES ASSUME NEW j \in 1..P[o].size
               PROVE  Value(P, t, f, o, j) = IF j - off \in 1..Len(d) THEN d[j - off]
                                             ELSE Value(P, r, f, o, j)
    BY DEF CellsPut
  <2>1. Value(P, t, f, o, j) = s[j]
    BY <1>4 DEF CellsAre
  <2>2. Value(P, r, f, o, j) = r[b][j] /\ j \in 1..Len(r[b])
    BY <1>1 DEF Value
  <2> QED
    BY <1>2, <2>1, <2>2 DEF OverlaidCells
<1> QED
  BY <1>4, <1>5

LEMMA StoreInRam ==
    ASSUME Memory(Places, ram, spill), Places' = Places, NEW o \in DOMAIN Places,
           Places[o].where = "ram", NEW off \in Nat, NEW d \in Seq(Int),
           NEW b, b = Places[o].loc, spill' = spill,
           ram' = With(ram, b, Overlaid(ram[b], off, d))
    PROVE  Memory(Places', ram', spill') /\ Stored(o, off, d)
<1>1. /\ Memory(Places, ram', spill)
      /\ SameValues(DOMAIN Places \ {o}, Places, ram, spill, Places, ram', spill)
      /\ CellsPut(Places, ram, spill, o, off, d, ram', spill)
  BY PutInRam
<1> QED
  BY <1>1 DEF Stored

LEMMA StoreInFile ==
    ASSUME Memory(Places, ram, spill), Places' = Places, NEW o \in DOMAIN Places,
           Places[o].where = "file", NEW off \in Nat, NEW d \in Seq(Int),
           off + Len(d) <= Places[o].size,
           ram' = ram, spill' = Written(spill, Places[o].loc, off, d)
    PROVE  Memory(Places', ram', spill') /\ Stored(o, off, d)
<1>1. /\ Memory(Places, ram, spill')
      /\ SameValues(DOMAIN Places \ {o}, Places, ram, spill, Places, ram, spill')
      /\ CellsPut(Places, ram, spill, o, off, d, ram, spill')
  BY WriteInFile
<1> QED
  BY <1>1 DEF Stored

(* RAM blocks keep their numbers and their lengths. *)
LEMMA OverlaidRam ==
    ASSUME Memory(Places, ram, spill), NEW b \in DOMAIN ram, NEW off \in Nat, NEW d \in Seq(Int),
           ram' = With(ram, b, Overlaid(ram[b], off, d))
    PROVE  /\ DOMAIN ram' = DOMAIN ram /\ ram' = [c \in DOMAIN ram' |-> ram'[c]]
           /\ \A c \in DOMAIN ram : ram'[c] \in Seq(Int) /\ Len(ram'[c]) = Len(ram[c])
<1>1. \A c \in DOMAIN ram : ram[c] \in Seq(Int)
  BY DEF Memory, Typed
<1>2. DOMAIN ram' = DOMAIN ram \union {b} /\ ram' = [c \in DOMAIN ram' |-> ram'[c]]
      /\ ram'[b] = Overlaid(ram[b], off, d) /\ \A c \in DOMAIN ram \ {b} : ram'[c] = ram[c]
  BY DEF With
<1>3. Overlaid(ram[b], off, d) \in Seq(Int) /\ Len(Overlaid(ram[b], off, d)) = Len(ram[b])
  BY <1>1, OverlaidIs
<1> QED
  BY <1>1, <1>2, <1>3

----------------------------------------------------------------------------
(* What is left for ScanNodes after a piece. *)
ScanFrames == [fn : {"ScanNodes"}, op : {"PutInfo", "PutNulls", "ReadInfo", "CompareInfo"},
               addr : Nat, len : Nat, got : Seq(Int \union BOOLEAN)]

LEMMA ScanFramesAre ==
    /\ ScanFrames \subseteq Frames
    /\ \A f \in Frames : f.fn = "ScanNodes" => f \in ScanFrames
BY DEF ScanFrames, Frames

LEMMA RestIs ==
    ASSUME NEW f \in ScanFrames, NEW n \in Nat, n <= f.len,
           NEW r, r = [f EXCEPT !.addr = @ + n, !.len = @ - n]
    PROVE  /\ r \in ScanFrames /\ r.op = f.op /\ r.addr = f.addr + n
           /\ r.len = f.len - n /\ r.got = f.got
<1>1. /\ f = [fn |-> "ScanNodes", op |-> f.op, addr |-> f.addr, len |-> f.len, got |-> f.got]
      /\ f.op \in {"PutInfo", "PutNulls", "ReadInfo", "CompareInfo"}
      /\ f.addr \in Nat /\ f.len \in Nat /\ f.got \in Seq(Int \union BOOLEAN)
  BY DEF ScanFrames
<1>2. f.addr + n \in Nat /\ f.len - n \in Nat
  BY <1>1
<1>3. r = [fn |-> "ScanNodes", op |-> f.op, addr |-> f.addr + n, len |-> f.len - n, got |-> f.got]
  BY DEF ScanFrames
<1> QED
  BY <1>1, <1>2, <1>3 DEF ScanFrames

Gots                == Seq(Int \union BOOLEAN)
WithGot(f, g)       == [f EXCEPT !.got = g]
WithGotLen(f, g, l) == [f EXCEPT !.got = g, !.len = l]

LEMMA GotIs ==
    ASSUME NEW f \in ScanFrames, NEW g \in Gots, NEW r, r = WithGot(f, g)
    PROVE  /\ r \in ScanFrames /\ r.op = f.op /\ r.addr = f.addr
           /\ r.len = f.len /\ r.got = g
<1>1. /\ f = [fn |-> "ScanNodes", op |-> f.op, addr |-> f.addr, len |-> f.len, got |-> f.got]
      /\ f.op \in {"PutInfo", "PutNulls", "ReadInfo", "CompareInfo"}
      /\ f.addr \in Nat /\ f.len \in Nat
  BY DEF ScanFrames
<1>2. r = [fn |-> "ScanNodes", op |-> f.op, addr |-> f.addr, len |-> f.len, got |-> g]
  BY <1>1 DEF WithGot
<1> QED
  BY <1>1, <1>2 DEF ScanFrames, Gots

LEMMA GotAndLenAre ==
    ASSUME NEW f \in ScanFrames, NEW g \in Gots, NEW l \in Nat,
           NEW r, r = WithGotLen(f, g, l)
    PROVE  /\ r \in ScanFrames /\ r.op = f.op /\ r.addr = f.addr
           /\ r.len = l /\ r.got = g
<1>1. /\ f = [fn |-> "ScanNodes", op |-> f.op, addr |-> f.addr, len |-> f.len, got |-> f.got]
      /\ f.op \in {"PutInfo", "PutNulls", "ReadInfo", "CompareInfo"} /\ f.addr \in Nat
  BY DEF ScanFrames
<1>2. r = [fn |-> "ScanNodes", op |-> f.op, addr |-> f.addr, len |-> l, got |-> g]
  BY DEF ScanFrames, WithGotLen
<1> QED
  BY <1>1, <1>2 DEF ScanFrames, Gots

(* A cell that is stored in a page leaves the relocations alone. *)
LEMMA PageStored ==
    ASSUME TypeOK, Data, NEW o \in DOMAIN Places, o.kind \in {"node", "huge"},
           Memory(Places', ram', spill'), NEW off, NEW d, Stored(o, off, d),
           relocs' = relocs, ret' = 0
    PROVE  Data'
<1>1. RelocValues /\ \A n \in 1..Len(relocs) : RelocNo(n) \in DOMAIN Places
  BY RelocsPlaced DEF Data
<1>2. \A n \in 1..Len(relocs) : RelocNo(n) \in DOMAIN Places \ {o}
  <2> SUFFICES ASSUME NEW n \in 1..Len(relocs) PROVE RelocNo(n) # o
    BY <1>1
  <2>1. RelocNo(n).kind = "reloc"
    BY DEF RelocNo
  <2> QED
    BY <2>1
<1>3. SameValues(DOMAIN Places \ {o}, Places, ram, spill, Places', ram', spill')
  BY DEF Stored
<1>4. Len(relocs') = Len(relocs) /\ \A n \in 1..Len(relocs) : RelocAt(n)'.left = RelocAt(n).left
  BY DEF RelocAt
<1>5. RelocValues'
  BY <1>1, <1>2, <1>3, <1>4, RelocValuesKept
<1>6. NewIsFresh'
  BY DEF NewIsFresh
<1> QED
  BY <1>5, <1>6 DEF Data

(* The cells that ScanPiece writes. *)
PieceData == [i \in 1..PieceAmt |-> IF Top.op = "PutInfo" THEN Own(Top.addr + i - 1) ELSE Null]

LEMMA PieceDataIs ==
    ASSUME Top.addr \in Nat, PieceAmt \in Nat
    PROVE  PieceData \in Seq(Int) /\ Len(PieceData) = PieceAmt
<1>1. \A i \in 1..PieceAmt : (IF Top.op = "PutInfo" THEN Own(Top.addr + i - 1) ELSE Null) \in Int
  BY DEF Own, Null
<1> QED
  BY <1>1, IsASeq DEF PieceData

----------------------------------------------------------------------------
CanScan == IF IsHuge(Top.addr) THEN HugeTab[BigNode(Top.addr)].page # <<>>
                               ELSE Place(Top.addr).loc # 0

PutPiece ==
    /\ IF Place(Top.addr).inmem
       THEN /\ ram' = [ram EXCEPT ![Place(Top.addr).loc] =
                          [i \in 1..Len(@) |-> IF i - Off(Top.addr) \in 1..PieceAmt
                                               THEN PieceData[i - Off(Top.addr)] ELSE @[i]]]
            /\ UNCHANGED spill
       ELSE /\ spill' = Written(spill, Place(Top.addr).loc, Off(Top.addr), PieceData)
            /\ UNCHANGED ram
    /\ stack' = <<[Top EXCEPT !.addr = @ + PieceAmt, !.len = @ - PieceAmt]>>

LEMMA ScanFrameThen ==
    ASSUME IInv, Active("ScanNodes"), Top.len > 0, CanScan,
           NEW r, r = [Top EXCEPT !.addr = @ + PieceAmt, !.len = @ - PieceAmt]
    PROVE  /\ Top \in ScanFrames /\ r \in ScanFrames /\ r.op = Top.op /\ r.addr = Top.addr + PieceAmt
           /\ r.len = Top.len - PieceAmt /\ r.got = Top.got
           /\ PieceAmt \in Nat /\ Top.addr \in Nat /\ Top.len \in Nat
           /\ PieceAmt <= Top.len
<1>1. Top \in ScanFrames
  BY ScanningAt, ScanFramesAre
<1>2. PieceAmt \in Nat /\ PieceAmt <= Top.len /\ Top.addr \in Nat /\ Top.len \in Nat
  BY PieceAt DEF CanScan
<1>3. /\ r \in ScanFrames /\ r.op = Top.op /\ r.addr = Top.addr + PieceAmt
      /\ r.len = Top.len - PieceAmt /\ r.got = Top.got
  BY <1>1, <1>2, RestIs, ZenonT(40)
<1> QED
  BY <1>1, <1>2, <1>3

LEMMA PutPieceStep ==
    ASSUME IInv, Active("ScanNodes"), Top.len > 0, CanScan, PutPiece,
           UNCHANGED <<pages, relocs, room, cache, other, TempFile, ret, status>>
    PROVE  IInv' /\ Stored(Piece, Off(Top.addr), PieceData)
<1> DEFINE p == Place(Top.addr)
           off == Off(Top.addr)
           d == PieceData
           o == Piece
<1>1. /\ TypeOK /\ Kinds /\ Data /\ Memory(Places, ram, spill)
  BY IInvIs DEF Control, Data
<1>2. /\ o \in DOMAIN Places /\ o.kind \in {"node", "huge"} /\ off \in Nat /\ p.size \in Nat
      /\ off + PieceAmt <= p.size /\ PieceAmt \in Nat
      /\ Places[o] = IF p.inmem THEN InRam(p.loc, p.size) ELSE InFile(p.loc, p.size)
      /\ Top.addr \in Nat
  BY PieceAt DEF CanScan
<1>3. d \in Seq(Int) /\ Len(d) = PieceAmt
  BY <1>2, PieceDataIs
<1>4. ret = 0 /\ ret' = 0 /\ relocs' = relocs
  BY ScanningAt
<1>5. spill \in Seq(Int)
  BY <1>1 DEF TypeOK
<1> HIDE DEF p, off, d, o
<1>6. /\ spill' \in Seq(Int) /\ DOMAIN ram' = DOMAIN ram /\ ram' = [b \in DOMAIN ram' |-> ram'[b]]
      /\ \A b \in DOMAIN ram : ram'[b] \in Seq(Int) /\ Len(ram'[b]) = Len(ram[b])
      /\ Places' = Places => Memory(Places', ram', spill') /\ Stored(o, off, d)
  <2>1. CASE p.inmem
    <3>1. Places[o].where = "ram" /\ Places[o].loc = p.loc
      BY <1>2, <2>1 DEF InRam
    <3>2. p.loc \in DOMAIN ram /\ ram = [b \in DOMAIN ram |-> ram[b]]
      BY <1>1, <1>2, <3>1 DEF Memory, Housed, Kinds
    <3>3. spill' = spill /\ ram' = [ram EXCEPT ![p.loc] =
             [i \in 1..Len(ram[p.loc]) |-> IF i - off \in 1..Len(d) THEN d[i - off] ELSE ram[p.loc][i]]]
      BY <1>3, <2>1 DEF PutPiece, p, off, d
    <3>4. ram' = [ram EXCEPT ![p.loc] = Overlaid(ram[p.loc], off, d)]
      BY <3>3 DEF Overlaid
    <3>5. ram' = With(ram, p.loc, Overlaid(ram[p.loc], off, d))
      BY <3>2, <3>4 DEF With
    <3>6. /\ DOMAIN ram' = DOMAIN ram /\ ram' = [b \in DOMAIN ram' |-> ram'[b]]
          /\ \A b \in DOMAIN ram : ram'[b] \in Seq(Int) /\ Len(ram'[b]) = Len(ram[b])
      BY <1>1, <1>2, <1>3, <3>2, <3>5, OverlaidRam
    <3>7. Places' = Places => Memory(Places', ram', spill') /\ Stored(o, off, d)
      BY <1>1, <1>2, <1>3, <3>1, <3>3, <3>5, StoreInRam
    <3> QED
      BY <1>5, <3>3, <3>6, <3>7
  <2>2. CASE ~p.inmem
    <3>1. Places[o].where = "file" /\ Places[o].loc = p.loc /\ Places[o].size = p.size
      BY <1>2, <2>2 DEF InFile
    <3>2. ram' = ram /\ spill' = Written(spill, p.loc, off, d)
      BY <2>2 DEF PutPiece, p, off, d
    <3>3. p.loc \in Nat \ {0}
      BY <1>1, <1>2, <3>1 DEF Memory, Typed, PlaceSet, Inside
    <3>4. spill' \in Seq(Int)
      BY <1>2, <1>3, <1>5, <3>2, <3>3, WrittenIs
    <3>5. Places' = Places => Memory(Places', ram', spill') /\ Stored(o, off, d)
      BY <1>1, <1>2, <1>3, <3>1, <3>2, StoreInFile
    <3>6. ram = [b \in DOMAIN ram |-> ram[b]] /\ \A b \in DOMAIN ram : ram[b] \in Seq(Int)
      BY <1>1 DEF Kinds, TypeOK
    <3> QED
      BY <3>2, <3>4, <3>5, <3>6
  <2> QED
    BY <2>1, <2>2
<1>7. Control' /\ Accounted' /\ Places' = Places
  <2> SUFFICES ASSUME NEW f, f = [Top EXCEPT !.addr = @ + PieceAmt, !.len = @ - PieceAmt]
               PROVE  Control' /\ Accounted' /\ Places' = Places
    OBVIOUS
  <2>1. /\ f \in ScanFrames /\ f.addr = Top.addr + PieceAmt /\ f.len = Top.len - PieceAmt
        /\ PieceAmt \in Nat /\ Top.addr \in Nat /\ Top.len \in Nat
    BY ScanFrameThen
  <2>2. f \in Frames /\ f.fn = "ScanNodes"
    BY <2>1, ScanFramesAre DEF ScanFrames
  <2>3. f.addr >= Top.addr /\ f.addr + f.len <= Top.addr + Top.len /\ stack' = <<f>>
    BY <2>1 DEF PutPiece
  <2> QED
    BY <1>6, <2>2, <2>3, ScanGoesOn
<1>8. Memory(Places', ram', spill') /\ Stored(o, off, d)
  BY <1>6, <1>7
<1>9. Data'
  BY <1>1, <1>2, <1>4, <1>8, PageStored
<1> QED
  BY <1>7, <1>8, <1>9 DEF IInv, Data, o, off, d

----------------------------------------------------------------------------
PieceRead == Contents(Place(Top.addr), Off(Top.addr), PieceAmt)

(* The cells of what has a place are numbers. *)
LEMMA ValuesAre ==
    ASSUME NEW P, NEW r, NEW f, Memory(P, r, f), NEW o \in DOMAIN P, NEW j \in 1..P[o].size
    PROVE  Value(P, r, f, o, j) \in Int
<1>1. P[o].loc \in Nat /\ P[o].size \in Nat \ {0} /\ P[o].where \in {"ram", "file"}
  BY DEF Memory, Typed, PlaceSet
<1>2. CASE P[o].where = "ram"
  <2>1. r[P[o].loc] \in Seq(Int) /\ Len(r[P[o].loc]) = P[o].size
    BY <1>2 DEF Memory, Typed, Housed
  <2> QED
    BY <1>2, <2>1 DEF Value
<1>3. CASE P[o].where = "file"
  <2>1. /\ P[o].loc >= 1 /\ P[o].loc + P[o].size - 1 <= Len(f) /\ f \in Seq(Int)
    BY <1>3 DEF Memory, Typed, Inside
  <2> DEFINE at == P[o].loc
             n == P[o].size
  <2>2. at \in Nat /\ n \in Nat /\ at >= 1 /\ at + n - 1 <= Len(f) /\ j \in 1..n /\ Len(f) \in Nat
    BY <1>1, <2>1
  <2> HIDE DEF at, n
  <2>3. at + j - 1 \in 1..Len(f)
    BY <2>2
  <2>4. f[at + j - 1] \in Int
    BY <2>1, <2>3
  <2> QED
    BY <1>3, <2>4 DEF Value, at
<1> QED
  BY <1>1, <1>2, <1>3

LEMMA ContentsAre ==
    ASSUME IInv, Active("ScanNodes"), Top.len > 0, CanScan
    PROVE  /\ PieceRead \in Seq(Int) /\ Len(PieceRead) = PieceAmt
           /\ \A i \in 1..PieceAmt :
                 PieceRead[i] = Value(Places, ram, spill, Piece, Off(Top.addr) + i)
<1> DEFINE p == Place(Top.addr)
           off == Off(Top.addr)
           n == PieceAmt
           o == Piece
<1>1. Memory(Places, ram, spill)
  BY IInvIs DEF Data
<1>2. /\ o \in DOMAIN Places /\ off \in Nat /\ p.size \in Nat
      /\ off + n <= p.size /\ n \in Nat
      /\ Places[o] = IF p.inmem THEN InRam(p.loc, p.size) ELSE InFile(p.loc, p.size)
  BY PieceAt DEF CanScan
<1>3. PieceRead = [i \in 1..n |-> IF p.inmem THEN ram[p.loc][off + i] ELSE spill[p.loc + off + i - 1]]
  BY DEF PieceRead, Contents
<1> HIDE DEF p, off, n, o
<1>4. ASSUME NEW i \in 1..n
      PROVE  /\ (IF p.inmem THEN ram[p.loc][off + i] ELSE spill[p.loc + off + i - 1])
                   = Value(Places, ram, spill, o, off + i)
             /\ Value(Places, ram, spill, o, off + i) \in Int
  <2>1. Places[o].size = p.size /\ Places[o].loc = p.loc
        /\ Places[o].where = IF p.inmem THEN "ram" ELSE "file"
    BY <1>2 DEF InRam, InFile
  <2>2. off + i \in 1..p.size
    BY <1>2
  <2>3. Value(Places, ram, spill, o, off + i) \in Int
    <3> SUFFICES ASSUME NEW j, j = off + i PROVE Value(Places, ram, spill, o, j) \in Int
      OBVIOUS
    <3>1. j \in 1..Places[o].size
      BY <2>1, <2>2
    <3> QED
      BY <1>1, <1>2, <3>1, ValuesAre
  <2>4. p.loc \in Nat
    BY <1>1, <1>2, <2>1 DEF Memory, Typed, PlaceSet
  <2>5. p.loc + (off + i) - 1 = p.loc + off + i - 1
    BY <1>2, <2>4
  <2>6. (IF p.inmem THEN ram[p.loc][off + i] ELSE spill[p.loc + off + i - 1])
           = Value(Places, ram, spill, o, off + i)
    BY <2>1, <2>5 DEF Value
  <2> QED
    BY <2>3, <2>6
<1>5. \A i \in 1..n : (IF p.inmem THEN ram[p.loc][off + i] ELSE spill[p.loc + off + i - 1]) \in Int
  BY <1>4
<1>6. PieceRead \in Seq(Int) /\ Len(PieceRead) = n
  BY <1>2, <1>3, <1>5, IsASeq
<1>7. \A i \in 1..n : PieceRead[i] = Value(Places, ram, spill, o, off + i)
  BY <1>3, <1>4
<1> QED
  BY <1>6, <1>7 DEF n, o, off

(* A piece is read or compared. *)
LEMMA ReadStep ==
    ASSUME IInv, Active("ScanNodes"), NEW f \in ScanFrames, stack' = <<f>>,
           f.addr >= Top.addr, f.addr + f.len <= Top.addr + Top.len,
           UNCHANGED <<pages, relocs, heap, file, ret, status>>
    PROVE  IInv' /\ CellsKept
<1>1. TypeOK /\ Kinds /\ Data
  BY IInvIs DEF Control
<1>2. f \in Frames /\ f.fn = "ScanNodes"
  BY ScanFramesAre DEF ScanFrames
<1>3. /\ spill' \in Seq(Int) /\ DOMAIN ram' = DOMAIN ram /\ ram' = [b \in DOMAIN ram' |-> ram'[b]]
      /\ \A b \in DOMAIN ram : ram'[b] \in Seq(Int) /\ Len(ram'[b]) = Len(ram[b])
      /\ UNCHANGED <<room, cache, other, TempFile, ram, spill>>
  BY <1>1 DEF TypeOK, Kinds, heap, file
<1>4. Control' /\ Accounted' /\ Places' = Places
  BY <1>2, <1>3, ScanGoesOn
<1>5. Data' /\ CellsKept
  BY <1>1, <1>3, <1>4, DataSame DEF RelocAt
<1> QED
  BY <1>4, <1>5, IInvIs DEF IInv, Data

LEMMA ScanPieceStep ==
    ASSUME IInv, ScanPiece
    PROVE  /\ IInv' /\ Active("ScanNodes") /\ Top.len > 0 /\ CanScan
           /\ IF Top.op \in {"PutInfo", "PutNulls"}
              THEN Stored(Piece, Off(Top.addr), PieceData)
              ELSE CellsKept
<1>1. Active("ScanNodes") /\ Top.len > 0 /\ CanScan
      /\ UNCHANGED <<pages, relocs, room, cache, other, TempFile, ret, status>>
  BY DEF ScanPiece, CanScan
<1> SUFFICES ASSUME NEW r, r = [Top EXCEPT !.addr = @ + PieceAmt, !.len = @ - PieceAmt]
             PROVE  /\ IInv'
                    /\ IF Top.op \in {"PutInfo", "PutNulls"}
                       THEN Stored(Piece, Off(Top.addr), PieceData)
                       ELSE CellsKept
  BY <1>1
<1>2. /\ Top \in ScanFrames /\ r \in ScanFrames /\ r.op = Top.op /\ r.addr = Top.addr + PieceAmt
      /\ r.len = Top.len - PieceAmt /\ r.got = Top.got
      /\ PieceAmt \in Nat /\ Top.addr \in Nat /\ Top.len \in Nat /\ PieceAmt <= Top.len
  BY <1>1, ScanFrameThen
<1>3. CASE Top.op \in {"PutInfo", "PutNulls"}
  <2>1. PutPiece
    BY <1>3 DEF ScanPiece, PutPiece, PieceAmt, PieceData
  <2> QED
    BY <1>1, <1>3, <2>1, PutPieceStep
<1>4. CASE Top.op = "ReadInfo"
  <2>1. stack' = <<[r EXCEPT !.got = @ \o PieceRead]>> /\ UNCHANGED <<ram, spill>>
    BY <1>4 DEF ScanPiece, PieceAmt, PieceRead
  <2> SUFFICES ASSUME NEW g, g = r.got \o PieceRead, NEW f, f = [r EXCEPT !.got = g]
               PROVE  IInv' /\ CellsKept
    BY <1>4
  <2>2. r.got \in Seq(Int \union BOOLEAN) /\ PieceRead \in Seq(Int \union BOOLEAN)
    <3>1. PieceRead \in Seq(Int)
      BY <1>1, ContentsAre
    <3>2. PieceRead \in Seq(Int \union BOOLEAN)
      BY <3>1, WiderSeq
    <3> QED
      BY <1>2, <3>2 DEF ScanFrames
  <2>3. g \in Gots
    BY <2>2 DEF Gots
  <2>4. f \in ScanFrames /\ f.addr = r.addr /\ f.len = r.len
    <3>1. f = WithGot(r, g)
      BY DEF WithGot
    <3> QED
      BY <1>2, <2>3, <3>1, GotIs
  <2>5. stack' = <<f>>
    BY <2>1
  <2>6. f.addr >= Top.addr /\ f.addr + f.len <= Top.addr + Top.len
    BY <1>2, <2>4
  <2> QED
    BY <1>1, <2>1, <2>4, <2>5, <2>6, ReadStep DEF heap, file
<1>5. CASE Top.op = "CompareInfo"
  <2> DEFINE b == \A i \in 1..PieceAmt : PieceRead[i] = Own(Top.addr + i - 1)
             l == IF b THEN r.len ELSE 0
             f == [r EXCEPT !.got = <<b>>, !.len = l]
  <2>1. stack' = <<f>> /\ UNCHANGED <<ram, spill>>
    BY <1>5 DEF ScanPiece, PieceAmt, PieceRead
  <2>2. b \in BOOLEAN
    OBVIOUS
  <2> HIDE DEF b
  <2>3. <<b>> \in Seq(Int \union BOOLEAN)
    BY <2>2
  <2>4. l \in Nat /\ l <= r.len /\ r.len \in Nat
    BY <1>2 DEF ScanFrames
  <2>5. f \in ScanFrames /\ f.addr = r.addr /\ f.len = l
    <3> HIDE DEF l
    <3> DEFINE g == <<b>>
    <3>1. r \in ScanFrames /\ f = WithGotLen(r, g, l) /\ l \in Nat
      BY <1>2, <2>4 DEF WithGotLen
    <3>2. g \in Gots
      BY <2>3 DEF Gots
    <3> HIDE DEF g, f
    <3>3. \A q \in ScanFrames, x \in Gots, y \in Nat :
            LET z == WithGotLen(q, x, y) IN z \in ScanFrames /\ z.addr = q.addr /\ z.len = y
      BY GotAndLenAre
    <3> QED
      BY <3>1, <3>2, <3>3, Zenon
  <2> HIDE DEF f, l
  <2>6. f.addr >= Top.addr /\ f.addr + f.len <= Top.addr + Top.len
    BY <1>2, <2>4, <2>5
  <2> QED
    <3>1. UNCHANGED <<pages, relocs, heap, file, ret, status>>
      BY <1>1, <2>1 DEF heap, file
    <3> QED
      BY <1>1, <1>5, <2>1, <2>5, <2>6, <3>1, ReadStep
<1> QED
  BY <1>2, <1>3, <1>4, <1>5 DEF ScanFrames

----------------------------------------------------------------------------
(***************************************************************************)
(* A relocation is written.                                                 *)
(***************************************************************************)
(* In the blocks t and the file g the cell c of o is v, the others are as   *)
(* before.                                                                  *)
CellPut(P, r, f, o, c, v, t, g) ==
    \A j \in 1..P[o].size : Value(P, t, g, o, j) = IF j = c THEN v ELSE Value(P, r, f, o, j)

(* RAM blocks keep their numbers and their lengths. *)
SameBlocks(r, t) ==
    /\ DOMAIN t = DOMAIN r /\ t = [b \in DOMAIN t |-> t[b]]
    /\ \A b \in DOMAIN r : t[b] \in Seq(Int) /\ Len(t[b]) = Len(r[b])

CellSet(r, b, c, v) == [r EXCEPT ![b][c] = v]

LEMMA PutOneInRam ==
    ASSUME NEW P, NEW r, NEW f, Memory(P, r, f), NEW o \in DOMAIN P, P[o].where = "ram",
           NEW c \in 1..P[o].size, NEW v \in Int, NEW b, b = P[o].loc,
           NEW t, t = CellSet(r, b, c, v)
    PROVE  /\ Memory(P, t, f) /\ SameValues(DOMAIN P \ {o}, P, r, f, P, t, f)
           /\ CellPut(P, r, f, o, c, v, t, f) /\ SameBlocks(r, t)
<1>1. /\ b \in DOMAIN r /\ Len(r[b]) = P[o].size /\ r[b] \in Seq(Int)
      /\ r \in [DOMAIN r -> Seq(Int)]
  BY DEF Memory, Typed, Housed
<1> DEFINE s == [r[b] EXCEPT ![c] = v]
<1>2. /\ s \in Seq(Int) /\ Len(s) = P[o].size
      /\ \A j \in 1..P[o].size : s[j] = IF j = c THEN v ELSE r[b][j]
  BY <1>1
<1>3. t = With(r, b, s)
  BY <1>1 DEF With, CellSet
<1> HIDE DEF s
<1>4. /\ Memory(P, t, f) /\ SameValues(DOMAIN P \ {o}, P, r, f, P, t, f)
      /\ CellsAre(P, t, f, o, s)
  BY <1>2, <1>3, WriteInRam
<1>5. CellPut(P, r, f, o, c, v, t, f)
  BY <1>2, <1>4 DEF CellPut, CellsAre, Value
<1>6. SameBlocks(r, t)
  BY <1>1, <1>2, <1>3, SMTT(30) DEF SameBlocks, With
<1> QED
  BY <1>4, <1>5, <1>6

LEMMA PutOneInFile ==
    ASSUME NEW P, NEW r, NEW f, Memory(P, r, f), NEW o \in DOMAIN P, P[o].where = "file",
           NEW off \in Nat, off < P[o].size, NEW v \in Int, NEW d, d = <<v>>,
           NEW b, b = P[o].loc, NEW g, g = Written(f, b, off, d)
    PROVE  /\ Memory(P, r, g) /\ SameValues(DOMAIN P \ {o}, P, r, f, P, r, g)
           /\ CellPut(P, r, f, o, off + 1, v, r, g) /\ SameBlocks(r, r)
<1>1. d \in Seq(Int) /\ Len(d) = 1 /\ d[1] = v
  OBVIOUS
<1>2. P[o].size \in Nat /\ off + Len(d) <= P[o].size
  BY <1>1 DEF Memory, Typed, PlaceSet
<1>3. g = Written(f, P[o].loc, off, d)
  OBVIOUS
<1>4. /\ Memory(P, r, g) /\ SameValues(DOMAIN P \ {o}, P, r, f, P, r, g)
      /\ CellsPut(P, r, f, o, off, d, r, g)
  BY <1>1, <1>2, <1>3, WriteInFile
<1>5. CellPut(P, r, f, o, off + 1, v, r, g)
  <2> SUFFICES ASSUME NEW j \in 1..P[o].size
               PROVE  Value(P, r, g, o, j) = IF j = off + 1 THEN v ELSE Value(P, r, f, o, j)
    BY DEF CellPut
  <2>1. Value(P, r, g, o, j) = IF j - off \in 1..Len(d) THEN d[j - off] ELSE Value(P, r, f, o, j)
    BY <1>4 DEF CellsPut
  <2>2. j \in Nat /\ (j - off \in 1..Len(d) <=> j = off + 1) /\ (j = off + 1 => j - off = 1)
    BY <1>1, <1>2
  <2> QED
    BY <1>1, <2>1, <2>2
<1>6. SameBlocks(r, r)
  BY DEF SameBlocks, Memory, Typed
<1> QED
  BY <1>4, <1>5, <1>6

(* A step of the relocations that ends a request. *)
LEMMA RelocControl ==
    ASSUME IInv, \A d \in 1..Depth : Frame(d).fn \notin {"AllocHugeNode", "SwapOutVirt"},
           stack' = <<>>, ret' = 0, status = "run",
           UNCHANGED <<pages, room, cache, other, TempFile, status>>,
           relocs' \in Seq(RelocSet), Len(relocs') <= MaxRelocs,
           SameBlocks(ram, ram'), spill' \in Seq(Int)
    PROVE  Control' /\ Accounted' /\ \A k : k \in Leaving' <=> k \in Leaving
<1>1. /\ TypeOK /\ Kinds /\ Storage /\ HugePages /\ SwapList /\ Accounted
  BY IInvIs DEF Control
<1>2. /\ Depth' = 0 /\ stack' \in Seq(Frames) /\ Calls'
      /\ (\A p, s : ~Unplaced(p, s)') /\ Leaving' = {} /\ Len(stack') = 0
  BY NoCallsThen
<1>3. (\A p, s : ~Unplaced(p, s)) /\ \A k : k \notin Leaving
  BY <1>1, LeavingIs DEF Unplaced, Kinds
<1>4. CellsIn(ram') = CellsIn(ram)
  BY CellsSame DEF SameBlocks
<1>5. TypeOK'
  <2>1. \A b \in DOMAIN ram' : ram'[b] \in Seq(Int)
    BY DEF SameBlocks
  <2>2. Len(stack') <= MaxDepth
    BY <1>2, Constants
  <2> QED
    BY <1>1, <2>1, <2>2 DEF TypeOK, RelocSet, pages, Addr, EndAddr, HugeBase, HugeCells
<1>6. Kinds'
  BY <1>1, <1>2, <1>4 DEF Kinds, SameBlocks, CellsIn, Frames, pages
<1>7. Storage'
  <2>1. Larger /\ Len(SegTab') \in Nat /\ Len(HugeTab') \in Nat
    BY <1>1, TypesAre DEF Larger, pages
  <2> QED
    BY <1>1, <2>1, StorageSame DEF pages
<1>8. HugePages'
  BY <1>1, <1>2, <1>3, HugePagesKept DEF pages
<1>9. SwapList'
  BY <1>1 DEF SwapList, SwapListExact, pages
<1>10. Accounted'
  BY <1>1, <1>4 DEF Accounted, CellsIn
<1> QED
  BY <1>2, <1>3, <1>5, <1>6, <1>7, <1>8, <1>9, <1>10 DEF Control

----------------------------------------------------------------------------
LEMMA RelocWritten ==
    ASSUME TypeOK, RelocValues, NEW m \in Nat \ {0}, m = Len(relocs'), NEW S,
           \A n \in 1..(m - 1) : /\ n \in 1..Len(relocs) /\ RelocAt(n)'.left = RelocAt(n).left
                                 /\ RelocNo(n) \in S,
           SameValues(S, Places, ram, spill, Places', ram', spill'),
           \A j \in 1..(RelocCells - RelocAt(m)'.left) :
              Value(Places', ram', spill', RelocNo(m), j) = Item((m - 1) * RelocCells + j - 1)
    PROVE  RelocValues'
<1>1. ASSUME NEW n \in 1..(m - 1), NEW j \in 1..(RelocCells - RelocAt(n)'.left)
      PROVE  Value(Places', ram', spill', RelocNo(n), j) = Item((n - 1) * RelocCells + j - 1)
  <2>1. n \in 1..Len(relocs) /\ RelocAt(n)'.left = RelocAt(n).left /\ RelocNo(n) \in S /\ n \in Nat
    OBVIOUS
  <2>2. Value(Places, ram, spill, RelocNo(n), j) = Item((n - 1) * RelocCells + j - 1)
    BY <2>1 DEF RelocValues
  <2>3. Places[RelocNo(n)].size = RelocCells
    <3>1. RelocNo(n) \in DOMAIN Places
      BY <2>1, RelocPlace
    <3>2. Places[RelocNo(n)] = PlaceOf(RelocNo(n))
      BY <3>1, PlacesAre
    <3> QED
      BY <2>1, <3>2, RelocPlace DEF InFile, InRam
  <2>4. j \in 1..RelocCells
    <3>1. RelocAt(n).left \in 0..RelocCells
      BY <2>1, TypesAre DEF RelocAt
    <3> QED
      BY <2>1, <3>1, Constants
  <2> QED
    BY <2>1, <2>2, <2>3, <2>4 DEF SameValues
<1>2. \A n \in 1..m : n \in 1..(m - 1) \/ n = m
  OBVIOUS
<1> QED
  BY <1>1, <1>2 DEF RelocValues

(* Which relocation the next one is. *)
LEMMA ItemNo ==
    ASSUME NEW m \in Nat, NEW left \in Nat
    PROVE  (m - 1) * RelocCells + (RelocCells - left + 1) - 1 = RelocCells * m - left
BY Constants

LEMMA OneLess ==
    ASSUME NEW b \in RelocSet, b.left > 0
    PROVE  /\ [b EXCEPT !.left = @ - 1] \in RelocSet
           /\ [b EXCEPT !.left = @ - 1].left = b.left - 1
           /\ [b EXCEPT !.left = @ - 1].loc = b.loc
           /\ [b EXCEPT !.left = @ - 1].spilled = b.spilled
BY Constants DEF RelocSet

LEMMA WriteOldBlock ==
    ASSUME IInv, status = "run", stack = <<>>, RelocLeft > 0, PutReloc(relocs, ram, spill),
           UNCHANGED <<stack, status, pages, room, cache, other, TempFile, ret>>
    PROVE  IInv' /\ CellsKept
<1> SUFFICES ASSUME NEW m, m = Len(relocs) PROVE IInv' /\ CellsKept
  OBVIOUS
<1> DEFINE b == relocs[1]
           off == RelocCells - b.left
           o == RelocNo(m)
           v == Item(RelocCount)
<1>1. /\ TypeOK /\ Kinds /\ Data /\ Calls /\ Memory(Places, ram, spill) /\ RelocValues
  BY IInvIs DEF Control, Data
<1>2. ret = 0 /\ ret' = 0 /\ Depth = 0 /\ stack' = <<>>
  BY <1>1, IdleRet, NoCalls
<1>3. relocs # <<>> /\ m \in Nat \ {0} /\ relocs \in Seq(RelocSet) /\ RelocLeft = b.left
  BY <1>1, TypesAre DEF RelocLeft
<1>4. b \in RelocSet /\ b.left \in 0..RelocCells /\ b.left > 0 /\ RelocAt(m) = b
  <2>1. RelocAt(m) = b
    BY <1>3 DEF RelocAt
  <2>2. b \in RelocSet
    BY <1>3
  <2>3. b.left \in 0..RelocCells
    BY <2>2 DEF RelocSet
  <2>4. b.left > 0
    BY <1>3
  <2> QED
    BY <2>1, <2>2, <2>3, <2>4
<1>5. off \in Nat /\ off < RelocCells /\ b.left \in Nat
  BY <1>4, Constants
<1>6. v \in Int /\ RelocCount = RelocCells * m - b.left
  <2>1. RelocCount = RelocCells * m - b.left
    BY <1>3 DEF RelocCount
  <2>2. RelocCells * m \in Nat
    BY <1>3, Constants
  <2> QED
    <3>1. RelocCells * m - b.left \in Int
      BY <1>5, <2>2
    <3>2. EndAddr \in Int
      BY Constants
    <3>3. RelocCount \in Int /\ v = EndAddr + RelocCount
      BY <2>1, <3>1 DEF Item
    <3> HIDE DEF v
    <3>4. v \in Int
      BY <3>2, <3>3
    <3> QED
      BY <2>1, <3>4 DEF v
<1>7. /\ o \in DOMAIN Places /\ Places[o].size = RelocCells /\ Places[o].loc = b.loc
      /\ Places[o].where = IF b.spilled THEN "file" ELSE "ram"
  <2>1. m \in 1..Len(relocs) /\ m \in Nat
    BY <1>3
  <2>2. o \in DOMAIN Places
    BY <2>1, RelocPlace
  <2>3. Places[o] = PlaceOf(o)
    BY <2>2, PlacesAre
  <2> QED
    BY <1>4, <2>1, <2>2, <2>3, RelocPlace DEF InRam, InFile
<1>8. relocs' = [relocs EXCEPT ![1].left = @ - 1]
  BY DEF PutReloc
<1>9. IF b.spilled THEN spill' = Written(spill, b.loc, off, <<v>>) /\ ram' = ram
                   ELSE ram' = [ram EXCEPT ![b.loc][off + 1] = v] /\ spill' = spill
  BY DEF PutReloc
<1> HIDE DEF o, v, off
<1>10. /\ Memory(Places, ram', spill')
       /\ SameValues(DOMAIN Places \ {o}, Places, ram, spill, Places, ram', spill')
       /\ CellPut(Places, ram, spill, o, off + 1, v, ram', spill') /\ SameBlocks(ram, ram')
  <2>1. CASE b.spilled
    <3>1. /\ off < Places[o].size /\ b.loc = Places[o].loc /\ Places[o].where = "file"
          /\ spill' = Written(spill, b.loc, off, <<v>>) /\ ram' = ram
      BY <1>5, <1>7, <1>9, <2>1
    <3>2. /\ Memory(Places, ram, spill')
          /\ SameValues(DOMAIN Places \ {o}, Places, ram, spill, Places, ram, spill')
          /\ CellPut(Places, ram, spill, o, off + 1, v, ram, spill') /\ SameBlocks(ram, ram)
      BY <1>1, <1>5, <1>6, <1>7, <3>1, PutOneInFile
    <3> QED
      BY <3>1, <3>2
  <2>2. CASE ~b.spilled
    <3> SUFFICES ASSUME NEW c, c = off + 1
                 PROVE /\ Memory(Places, ram', spill')
                       /\ SameValues(DOMAIN Places \ {o}, Places, ram, spill, Places, ram', spill')
                       /\ CellPut(Places, ram, spill, o, c, v, ram', spill') /\ SameBlocks(ram, ram')
      OBVIOUS
    <3>1. c \in 1..RelocCells
      BY <1>5, Constants
    <3>2. /\ c \in 1..Places[o].size /\ spill' = spill /\ Places[o].where = "ram"
          /\ b.loc = Places[o].loc /\ ram' = CellSet(ram, b.loc, c, v)
      BY <1>7, <1>9, <2>2, <3>1 DEF CellSet
    <3>3. /\ Memory(Places, ram', spill)
          /\ SameValues(DOMAIN Places \ {o}, Places, ram, spill, Places, ram', spill)
          /\ CellPut(Places, ram, spill, o, c, v, ram', spill) /\ SameBlocks(ram, ram')
      BY <1>1, <1>6, <1>7, <3>2, PutOneInRam
    <3> QED
      BY <3>2, <3>3
  <2> QED
    BY <2>1, <2>2
<1>11. /\ relocs' \in Seq(RelocSet) /\ Len(relocs') = m
       /\ relocs'[1].left = b.left - 1 /\ relocs'[1].loc = b.loc /\ relocs'[1].spilled = b.spilled
       /\ \A i \in 2..m : relocs'[i] = relocs[i]
  <2>1. /\ [b EXCEPT !.left = @ - 1] \in RelocSet /\ [b EXCEPT !.left = @ - 1].left = b.left - 1
        /\ [b EXCEPT !.left = @ - 1].loc = b.loc /\ [b EXCEPT !.left = @ - 1].spilled = b.spilled
    BY <1>4, OneLess
  <2>2. relocs' = [relocs EXCEPT ![1] = [b EXCEPT !.left = @ - 1]]
    BY <1>8
  <2>3. relocs' \in Seq(RelocSet) /\ Len(relocs') = m /\ relocs'[1] = [b EXCEPT !.left = @ - 1]
        /\ \A i \in 2..m : relocs'[i] = relocs[i]
    BY <1>3, <2>1, <2>2
  <2> QED
    BY <2>1, <2>3
<1>12. /\ \A n \in 1..m : RelocAt(n)'.spilled = RelocAt(n).spilled /\ RelocAt(n)'.loc = RelocAt(n).loc
       /\ \A n \in 1..(m - 1) : RelocAt(n)' = RelocAt(n)
       /\ RelocAt(m)'.left = b.left - 1
  <2>1. \A n \in 1..(m - 1) : RelocAt(n)' = RelocAt(n)
    <3> SUFFICES ASSUME NEW n \in 1..(m - 1) PROVE relocs'[m + 1 - n] = relocs[m + 1 - n]
      BY <1>11 DEF RelocAt
    <3>1. m + 1 - n \in 2..m
      BY <1>3
    <3> QED
      BY <1>11, <3>1
  <2>2. RelocAt(m)' = relocs'[1]
    BY <1>3, <1>11 DEF RelocAt
  <2>3. \A n \in 1..m : n \in 1..(m - 1) \/ n = m
    BY <1>3
  <2> QED
    BY <1>4, <1>11, <2>1, <2>2, <2>3
<1>13. Control' /\ Accounted' /\ \A k : k \in Leaving' <=> k \in Leaving
  <2>1. \A d \in 1..Depth : FALSE
    BY <1>2
  <2>2. Len(relocs') <= MaxRelocs /\ spill' \in Seq(Int)
    BY <1>1, <1>10, <1>11 DEF Kinds, Memory, Typed
  <2> QED
    BY <1>2, <1>10, <1>11, <2>1, <2>2, RelocControl
<1> HIDE DEF b
<1>14. Places' = Places
  <2>1. ASSUME NEW q \in Owners PROVE SamePlace(q)
    <3>1. CASE q.kind = "node"
      BY <1>13, <3>1, NodeSame DEF pages
    <3>2. CASE q.kind = "huge"
      BY <3>2, HugeSame DEF pages
    <3>3. CASE q.kind = "reloc"
      BY <1>11, <1>12, <3>3, RelocSame
    <3>4. CASE q.kind = "new"
      BY <1>2, <3>4, NewSame
    <3> QED
      BY <3>1, <3>2, <3>3, <3>4, OwnersAre
  <2> QED
    BY <2>1, PlacesKept
<1>15. RelocValues'
  <2>1. \A n \in 1..(m - 1) : n \in 1..Len(relocs) /\ RelocAt(n)'.left = RelocAt(n).left
                              /\ RelocNo(n) \in DOMAIN Places \ {o}
    <3> SUFFICES ASSUME NEW n \in 1..(m - 1)
                 PROVE  n \in 1..Len(relocs) /\ RelocNo(n) \in DOMAIN Places /\ RelocNo(n) # o
      BY <1>12
    <3>1. n \in 1..Len(relocs) /\ n # m
      BY <1>3
    <3> QED
      BY <1>1, <3>1, RelocsPlaced DEF o, RelocNo
  <2>2. ASSUME NEW j \in 1..(RelocCells - RelocAt(m)'.left)
        PROVE  Value(Places', ram', spill', RelocNo(m), j) = Item((m - 1) * RelocCells + j - 1)
    <3>1. j \in 1..RelocCells /\ (j = off + 1 \/ j \in 1..(RelocCells - b.left)) /\ j \in Nat
      <4>1. j \in 1..(RelocCells - (b.left - 1))
        BY <1>12
      <4>2. \A x \in Nat, y \in Nat : \A i \in 1..(x - (y - 1)) : y > 0 =>
               i \in 1..x /\ (i = x - y + 1 \/ i \in 1..(x - y)) /\ i \in Nat
        OBVIOUS
      <4>3. RelocCells \in Nat /\ b.left \in Nat /\ b.left > 0
        BY <1>4, <1>5, Constants
      <4> QED
        BY <4>1, <4>2, <4>3 DEF off
    <3>2. Value(Places', ram', spill', o, j) = IF j = off + 1 THEN v ELSE Value(Places, ram, spill, o, j)
      BY <1>7, <1>10, <1>14, <3>1 DEF CellPut
    <3>3. CASE j = off + 1
      <4>1. (m - 1) * RelocCells + (RelocCells - b.left + 1) - 1 = RelocCells * m - b.left
        BY <1>3, <1>5, ItemNo
      <4>2. v = Item(RelocCells * m - b.left)
        BY <1>6 DEF v
      <4>3. j = RelocCells - b.left + 1
        BY <3>3 DEF off
      <4>4. v = Item((m - 1) * RelocCells + j - 1)
        BY <4>1, <4>2, <4>3
      <4> QED
        BY <3>2, <3>3, <4>4 DEF o
    <3>4. CASE j # off + 1
      <4>1. j \in 1..(RelocCells - RelocAt(m).left) /\ m \in 1..Len(relocs)
        BY <1>3, <1>4, <3>1, <3>4
      <4> QED
        BY <1>1, <3>2, <3>4, <4>1 DEF RelocValues, o
    <3> QED
      BY <3>3, <3>4
  <2>3. m \in Nat \ {0} /\ m = Len(relocs')
    BY <1>3, <1>11
  <2>4. SameValues(DOMAIN Places \ {o}, Places, ram, spill, Places', ram', spill')
    BY <1>10, <1>14
  <2> SUFFICES ASSUME NEW S, S = DOMAIN Places \ {o} PROVE RelocValues'
    OBVIOUS
  <2> QED
    BY <1>1, <2>1, <2>2, <2>3, <2>4, RelocWritten
<1>16. NewIsFresh' /\ Memory(Places', ram', spill')
  BY <1>2, <1>10, <1>14 DEF NewIsFresh
<1>17. CellsKept
  <2>1. \A q \in PagesPlaced : q \in DOMAIN Places \ {o}
    BY DEF PagesPlaced, o, RelocNo
  <2>2. SameValues(PagesPlaced, Places, ram, spill, Places', ram', spill')
    BY <1>10, <1>14, <2>1 DEF SameValues
  <2>3. PagesPlaced \subseteq DOMAIN Places'
    BY <1>14 DEF PagesPlaced
  <2> QED
    BY <1>14, <2>2, <2>3 DEF CellsKept
<1> QED
  BY <1>13, <1>15, <1>16, <1>17, IInvIs DEF IInv

----------------------------------------------------------------------------
(* The first relocation of a new block. *)
LEMMA SameThenSame ==
    ASSUME NEW S, NEW T, S \subseteq T, NEW P, NEW r, NEW f, NEW Q, NEW s, NEW g,
           NEW R, NEW t, NEW h, SameValues(S, P, r, f, Q, s, g), SameValues(T, Q, s, g, R, t, h)
    PROVE  SameValues(S, P, r, f, R, t, h)
<1> SUFFICES ASSUME NEW o \in S
             PROVE  /\ P[o].size = R[o].size
                    /\ \A j \in 1..P[o].size : Value(R, t, h, o, j) = Value(P, r, f, o, j)
  BY DEF SameValues
<1>1. P[o].size = Q[o].size /\ \A j \in 1..P[o].size : Value(Q, s, g, o, j) = Value(P, r, f, o, j)
  BY DEF SameValues
<1>2. Q[o].size = R[o].size /\ \A j \in 1..Q[o].size : Value(R, t, h, o, j) = Value(Q, s, g, o, j)
  BY DEF SameValues
<1> QED
  BY <1>1, <1>2

LEMMA FirstSet ==
    ASSUME NEW X, NEW s \in Seq(X), Len(s) > 0, NEW v \in X, NEW t, t = [s EXCEPT ![1] = v]
    PROVE  /\ t \in Seq(X) /\ Len(t) = Len(s) /\ t[1] = v
           /\ \A j \in 2..Len(s) : t[j] = s[j]
OBVIOUS

FirstLess(list) == [list EXCEPT ![1].left = @ - 1]

LEMMA FirstItem ==
    ASSUME TypeOK, NEW m, m = Len(relocs) + 1, NEW b \in RelocSet, b.left > 0,
           relocs' = FirstLess(<<b>> \o relocs)
    PROVE  /\ relocs' \in Seq(RelocSet) /\ Len(relocs') = m /\ m \in Nat \ {0}
           /\ RelocAt(m)'.left = b.left - 1 /\ RelocAt(m)'.loc = b.loc
           /\ RelocAt(m)'.spilled = b.spilled
           /\ \A n \in 1..(m - 1) : n \in 1..Len(relocs) /\ RelocAt(n)' = RelocAt(n)
<1>1. relocs \in Seq(RelocSet) /\ Len(relocs) \in Nat
  BY TypesAre
<1>2. m \in Nat \ {0} /\ m - 1 = Len(relocs)
  BY <1>1
<1> DEFINE c == [b EXCEPT !.left = @ - 1]
           list == <<b>> \o relocs
<1>3. c \in RelocSet /\ c.left = b.left - 1 /\ c.loc = b.loc /\ c.spilled = b.spilled
  BY OneLess
<1>4. /\ list \in Seq(RelocSet) /\ Len(list) = m /\ list[1] = b
      /\ \A i \in 2..m : list[i] = relocs[i - 1]
  BY <1>1, <1>2
<1>5. relocs' = [list EXCEPT ![1] = c]
  BY <1>4 DEF FirstLess
<1> HIDE DEF list, c
<1>6. /\ relocs' \in Seq(RelocSet) /\ Len(relocs') = m /\ relocs'[1] = c
      /\ \A i \in 2..m : relocs'[i] = relocs[i - 1]
  <2>1. list \in Seq(RelocSet) /\ Len(list) > 0 /\ c \in RelocSet
    BY <1>2, <1>3, <1>4
  <2>2. /\ relocs' \in Seq(RelocSet) /\ Len(relocs') = Len(list) /\ relocs'[1] = c
        /\ \A i \in 2..Len(list) : relocs'[i] = list[i]
    BY <1>5, <2>1, FirstSet
  <2> QED
    BY <1>4, <2>2
<1>7. RelocAt(m)' = c
  BY <1>2, <1>6 DEF RelocAt
<1>8. \A n \in 1..(m - 1) : n \in 1..Len(relocs) /\ RelocAt(n)' = RelocAt(n)
  <2> SUFFICES ASSUME NEW n \in 1..(m - 1)
               PROVE  n \in 1..Len(relocs) /\ relocs'[m + 1 - n] = relocs[m - n]
    BY <1>2, <1>6 DEF RelocAt
  <2>1. m + 1 - n \in 2..m /\ (m + 1 - n) - 1 = m - n
    BY <1>2
  <2>2. n \in 1..Len(relocs)
    BY <1>2
  <2> QED
    BY <1>6, <2>1, <2>2
<1> QED
  BY <1>2, <1>3, <1>6, <1>7, <1>8

(* P is the places with the new block among them, g the file with its area. *)
LEMMA WriteNewBlock ==
    ASSUME IInv, status = "run", Depth = 1, Frame(1).fn = "AllocRelocInfo", RelocLeft = 0,
           Len(relocs) < MaxRelocs, NEW m, m = Len(relocs) + 1,
           NEW b \in RelocSet, b.left = RelocCells, NEW g,
           PutReloc(<<b>> \o relocs, ram, g),
           stack' = <<>>, ret' = 0, UNCHANGED <<status, pages, room, cache, other, TempFile>>,
           NEW o, o = RelocNo(m), NEW P, Places' = P,
           DOMAIN P = (DOMAIN Places \ {NewBlock}) \union {o}, Memory(P, ram, g),
           P[o] = IF b.spilled THEN InFile(b.loc, RelocCells) ELSE InRam(b.loc, RelocCells),
           SameValues(DOMAIN Places \ {NewBlock}, Places, ram, spill, P, ram, g)
    PROVE  IInv' /\ CellsKept
<1> DEFINE v == Item(RelocCount)
<1>1. TypeOK /\ Kinds /\ RelocValues
  BY IInvIs DEF Control, Data
<1>2. b.left > 0 /\ RelocCells - b.left = 0 /\ RelocCells \in Nat \ {0} /\ 1 \in 1..RelocCells
  BY Constants
<1>3. /\ relocs' = FirstLess(<<b>> \o relocs)
      /\ IF b.spilled THEN spill' = Written(g, b.loc, 0, <<v>>) /\ ram' = ram
                      ELSE ram' = [ram EXCEPT ![b.loc][1] = v] /\ spill' = g
  <2>1. (<<b>> \o relocs)[1] = b
    BY <1>1, TypesAre
  <2>2. RelocCells - b.left + 1 = 1
    BY <1>2
  <2> QED
    BY <1>2, <2>1, <2>2 DEF PutReloc, FirstLess
<1>4. /\ relocs' \in Seq(RelocSet) /\ Len(relocs') = m /\ m \in Nat \ {0}
      /\ RelocAt(m)'.left = b.left - 1
      /\ \A n \in 1..(m - 1) : n \in 1..Len(relocs) /\ RelocAt(n)' = RelocAt(n)
  BY <1>1, <1>2, <1>3, FirstItem
<1>5. RelocCount = RelocCells * (m - 1) /\ v \in Int
  <2>1. m - 1 = Len(relocs) /\ m - 1 \in Nat
    BY <1>1, TypesAre
  <2>2. RelocCells * (m - 1) \in Nat
    BY <1>2, <2>1
  <2>3. RelocCount = RelocCells * (m - 1)
    BY <2>1, <2>2 DEF RelocCount
  <2>4. EndAddr \in Int
    BY Constants
  <2> QED
    BY <2>2, <2>3, <2>4 DEF Item
<1> HIDE DEF v
<1>6. P[o].size = RelocCells /\ P[o].loc = b.loc /\ P[o].where = IF b.spilled THEN "file" ELSE "ram"
  BY DEF InRam, InFile
<1>7. /\ Memory(P, ram', spill') /\ SameValues(DOMAIN P \ {o}, P, ram, g, P, ram', spill')
      /\ CellPut(P, ram, g, o, 1, v, ram', spill') /\ SameBlocks(ram, ram')
  <2> SUFFICES ASSUME NEW off \in Nat, off = 0, NEW c, c = 1
               PROVE  /\ Memory(P, ram', spill') /\ SameValues(DOMAIN P \ {o}, P, ram, g, P, ram', spill')
                      /\ CellPut(P, ram, g, o, c, v, ram', spill') /\ SameBlocks(ram, ram')
    OBVIOUS
  <2>0. o \in DOMAIN P /\ off + 1 = c
    OBVIOUS
  <2>1. CASE b.spilled
    <3>1. /\ off < P[o].size /\ b.loc = P[o].loc /\ P[o].where = "file"
          /\ spill' = Written(g, b.loc, off, <<v>>) /\ ram' = ram
      BY <1>2, <1>3, <1>6, <2>1
    <3>2. /\ Memory(P, ram, spill') /\ SameValues(DOMAIN P \ {o}, P, ram, g, P, ram, spill')
          /\ CellPut(P, ram, g, o, off + 1, v, ram, spill') /\ SameBlocks(ram, ram)
      BY <1>5, <2>0, <3>1, PutOneInFile
    <3> QED
      BY <2>0, <3>1, <3>2
  <2>2. CASE ~b.spilled
    <3>1. /\ c \in 1..P[o].size /\ spill' = g /\ P[o].where = "ram"
          /\ b.loc = P[o].loc /\ ram' = CellSet(ram, b.loc, c, v)
      BY <1>2, <1>3, <1>6, <2>2 DEF CellSet
    <3>2. /\ Memory(P, ram', g) /\ SameValues(DOMAIN P \ {o}, P, ram, g, P, ram', g)
          /\ CellPut(P, ram, g, o, c, v, ram', g) /\ SameBlocks(ram, ram')
      BY <1>5, <2>0, <3>1, PutOneInRam
    <3> QED
      BY <3>1, <3>2
  <2> QED
    BY <2>1, <2>2
<1>8. Control' /\ Accounted'
  <2>1. \A d \in 1..Depth : Frame(d).fn \notin {"AllocHugeNode", "SwapOutVirt"}
    <3>1. \A d \in 1..Depth : d = 1
      OBVIOUS
    <3> QED
      BY <3>1
  <2>2. spill' \in Seq(Int)
    BY <1>7 DEF Memory, Typed
  <2>3. Len(relocs') <= MaxRelocs
    <3>1. Len(relocs) \in Nat /\ MaxRelocs \in Nat
      BY <1>1, TypesAre, Constants
    <3> QED
      BY <1>4, <3>1
  <2> QED
    BY <1>4, <1>7, <2>1, <2>2, <2>3, RelocControl
<1>9. RelocNo(m) \notin DOMAIN Places
  <2>1. m \in Nat /\ m \notin 1..Len(relocs)
    BY <1>1, <1>4, TypesAre
  <2> QED
    BY <2>1, RelocPlace
<1>10. SameValues(DOMAIN Places \ {NewBlock}, Places, ram, spill, Places', ram', spill')
  <2> SUFFICES ASSUME NEW S, S = DOMAIN Places \ {NewBlock}
               PROVE  SameValues(S, Places, ram, spill, P, ram', spill')
    OBVIOUS
  <2>1. S \subseteq DOMAIN P \ {o}
    BY <1>9
  <2> QED
    BY <1>7, <2>1, SameThenSame
<1>11. RelocValues'
  <2> SUFFICES ASSUME NEW S, S = DOMAIN Places \ {NewBlock} PROVE RelocValues'
    OBVIOUS
  <2>1. \A n \in 1..(m - 1) : n \in 1..Len(relocs) /\ RelocAt(n)'.left = RelocAt(n).left
                              /\ RelocNo(n) \in S
    <3> SUFFICES ASSUME NEW n \in 1..(m - 1)
                 PROVE  RelocNo(n) \in DOMAIN Places /\ RelocNo(n) # NewBlock
      BY <1>4
    <3>1. n \in 1..Len(relocs)
      BY <1>4
    <3>2. RelocNo(n).kind = "reloc" /\ NewBlock.kind = "new"
      BY DEF RelocNo, NewBlock
    <3> QED
      BY <1>1, <3>1, <3>2, RelocsPlaced
  <2>2. ASSUME NEW j \in 1..(RelocCells - RelocAt(m)'.left)
        PROVE  Value(Places', ram', spill', RelocNo(m), j) = Item((m - 1) * RelocCells + j - 1)
    <3>1. j = 1
      BY <1>2, <1>4
    <3>2. 1 \in 1..P[o].size
      BY <1>2, <1>6
    <3>3. Value(P, ram', spill', o, j) = v
      BY <1>7, <3>1, <3>2 DEF CellPut
    <3>4. (m - 1) * RelocCells + 1 - 1 = RelocCells * (m - 1)
      BY <1>2, <1>4
    <3>5. v = Item((m - 1) * RelocCells + j - 1)
      BY <1>5, <3>1, <3>4 DEF v
    <3> QED
      BY <3>3, <3>5
  <2>3. SameValues(S, Places, ram, spill, Places', ram', spill')
    BY <1>10
  <2>4. m = Len(relocs')
    BY <1>4
  <2> QED
    BY <1>1, <1>4, <2>1, <2>2, <2>3, <2>4, RelocWritten
<1>12. NewIsFresh' /\ Memory(Places', ram', spill')
  BY <1>7 DEF NewIsFresh
<1>13. CellsKept
  <2>1. \A q \in PagesPlaced : q \in DOMAIN Places \ {NewBlock}
    BY DEF PagesPlaced, NewBlock
  <2>2. SameValues(PagesPlaced, Places, ram, spill, Places', ram', spill')
    BY <1>10, <2>1 DEF SameValues
  <2>3. PagesPlaced \subseteq DOMAIN Places'
    BY <2>1
  <2>4. \A q \in DOMAIN Places' \ DOMAIN Places : q = o
    OBVIOUS
  <2>5. o.kind = "reloc"
    BY DEF RelocNo
  <2> QED
    BY <2>2, <2>3, <2>4, <2>5 DEF CellsKept
<1> QED
  BY <1>8, <1>11, <1>12, <1>13, IInvIs DEF IInv

(* The function that adds a block of relocations. *)
LEMMA AddingAt ==
    ASSUME IInv, Active("AllocRelocInfo")
    PROVE  /\ Depth = 1 /\ Frame(1) = Top /\ Frame(1).fn = "AllocRelocInfo" /\ status = "run"
           /\ RelocLeft = 0 /\ Len(relocs) < MaxRelocs /\ Tail(stack) = <<>>
           /\ Leaving = {} /\ stack # <<>> /\ Top.fn \in Askers
           /\ ret # 0 => ret \in DOMAIN ram /\ Len(ram[ret]) = RelocCells
<1> SUFFICES ASSUME NEW n, n = Depth
             PROVE  /\ n = 1 /\ Frame(n) = Top /\ Frame(n).fn = "AllocRelocInfo" /\ status = "run"
                    /\ RelocLeft = 0 /\ Len(relocs) < MaxRelocs /\ Tail(stack) = <<>>
                    /\ Leaving = {} /\ stack # <<>> /\ Top.fn \in Askers
                    /\ ret # 0 => ret \in DOMAIN ram /\ Len(ram[ret]) = RelocCells
  OBVIOUS
<1>1. /\ stack # <<>> /\ stack \in Seq(Frames) /\ status = "run"
      /\ n \in Nat \ {0} /\ Frame(n) = Top /\ Top.fn = "AllocRelocInfo" /\ InPlace(n)
  BY ActiveAt
<1>2. n = 1 /\ RelocLeft = 0 /\ Len(relocs) < MaxRelocs
  BY <1>1 DEF InPlace, AddingReloc
<1>3. Tail(stack) = <<>>
  <2>1. Len(stack) = 1
    BY <1>2 DEF Depth
  <2>2. Tail(stack) \in Seq(Frames) /\ Len(Tail(stack)) = Len(stack) - 1
    BY <1>1, Uncovered
  <2>3. Len(Tail(stack)) = 0
    BY <2>1, <2>2
  <2> QED
    BY <2>2, <2>3, EmptySeq
<1>4. Leaving = {}
  <2> SUFFICES ASSUME NEW k \in Leaving PROVE FALSE
    OBVIOUS
  <2>1. PICK d \in 1..Depth : Frame(d).fn = "SwapOutVirt"
    BY <1>1, LeavingIs
  <2>2. d = n
    BY <1>2
  <2> QED
    BY <1>1, <2>1, <2>2
<1>5. ret # 0 => ret \in DOMAIN ram /\ Len(ram[ret]) = RelocCells
  <2>1. InHand
    BY DEF IInv, Control, Calls
  <2>2. NeededBy(Frame(Depth)) = RelocCells
    BY <1>1 DEF NeededBy
  <2> QED
    BY <2>1, <2>2 DEF InHand
<1> QED
  BY <1>1, <1>2, <1>3, <1>4, <1>5 DEF Askers

(* The other owners keep their places. *)
LEMMA BlockAdded ==
    ASSUME TypeOK, UNCHANGED pages, Leaving = {}, Leaving' = {}, NEW m, m = Len(relocs) + 1,
           NEW b \in RelocSet, b.left > 0, relocs' = FirstLess(<<b>> \o relocs),
           NEW q, q = RelocNo(m)
    PROVE  /\ \A o \in Owners \ {NewBlock, q} : SamePlace(o)
           /\ q \in Owners /\ q # NewBlock /\ ~HasPlace(q) /\ HasPlace(q)'
           /\ PlaceOf(q)' = IF b.spilled THEN InFile(b.loc, RelocCells) ELSE InRam(b.loc, RelocCells)
<1>1. /\ Len(relocs') = m /\ m \in Nat \ {0} /\ m - 1 = Len(relocs) /\ Len(relocs) \in Nat
      /\ RelocAt(m)'.loc = b.loc /\ RelocAt(m)'.spilled = b.spilled
      /\ \A n \in 1..(m - 1) : RelocAt(n)' = RelocAt(n)
  <2>1. Len(relocs) \in Nat
    BY TypesAre
  <2>2. /\ Len(relocs') = m /\ m \in Nat \ {0} /\ RelocAt(m)'.loc = b.loc
        /\ RelocAt(m)'.spilled = b.spilled /\ \A n \in 1..(m - 1) : RelocAt(n)' = RelocAt(n)
    BY FirstItem
  <2> QED
    BY <2>1, <2>2
<1>2. q \in Owners /\ q # NewBlock /\ q.kind = "reloc" /\ q.no = m /\ q.sub = 0
  BY <1>1, TheyAreOwners DEF RelocNo, NewBlock
<1>3. m \notin 1..Len(relocs) /\ m \in 1..Len(relocs')
  BY <1>1
<1>4. ~HasPlace(q) /\ HasPlace(q)'
  BY <1>2, <1>3 DEF HasPlace
<1>5. PlaceOf(q)' = IF b.spilled THEN InFile(b.loc, RelocCells) ELSE InRam(b.loc, RelocCells)
  BY <1>1, <1>2 DEF PlaceOf
<1>6. \A o \in Owners \ {NewBlock, q} : SamePlace(o)
  <2> SUFFICES ASSUME NEW o \in Owners, o # NewBlock, o # q
               PROVE  SamePlace(o)
    OBVIOUS
  <2>1. CASE o.kind = "node"
    BY <2>1, NodeSame DEF pages
  <2>2. CASE o.kind = "huge"
    BY <2>2, HugeSame DEF pages
  <2>3. CASE o.kind = "new"
    BY <2>3, OneNew
  <2>4. CASE o.kind = "reloc" /\ o.sub # 0
    BY <2>4 DEF SamePlace, HasPlace
  <2>5. CASE o.kind = "reloc" /\ o.sub = 0
    <3>1. o.no # m /\ o.no \in Nat
      BY <2>5, OwnersAre DEF RelocNo
    <3>2. /\ o.no \in 1..Len(relocs') <=> o.no \in 1..Len(relocs)
          /\ o.no \in 1..Len(relocs) => o.no \in 1..(m - 1)
      BY <1>1, <3>1
    <3> QED
      BY <1>1, <2>5, <3>2, RelocSame
  <2> QED
    BY <2>1, <2>2, <2>3, <2>4, <2>5, OwnersAre
<1> QED
  BY <1>2, <1>4, <1>5, <1>6

LEMMA PutIsLess ==
    ASSUME NEW b, NEW r, NEW f, PutReloc(<<b>> \o relocs, r, f)
    PROVE  relocs' = FirstLess(<<b>> \o relocs)
BY DEF PutReloc, FirstLess

LEMMA NewBlockInRam ==
    ASSUME IInv, Active("AllocRelocInfo"), ret # 0,
           NEW b, b = [left |-> RelocCells, spilled |-> FALSE, loc |-> ret],
           PutReloc(<<b>> \o relocs, ram, spill), Pop, ret' = 0,
           UNCHANGED <<pages, room, cache, other, TempFile, status>>
    PROVE  IInv' /\ CellsKept
<1>1. /\ Depth = 1 /\ Frame(1).fn = "AllocRelocInfo" /\ status = "run" /\ RelocLeft = 0
      /\ Len(relocs) < MaxRelocs /\ stack' = <<>> /\ Leaving = {} /\ Leaving' = {}
      /\ Len(ram[ret]) = RelocCells
  BY AddingAt, NoCallsThen DEF Pop
<1>2. TypeOK /\ Memory(Places, ram, spill) /\ ret \in Nat
  BY DEF IInv, Control, TypeOK
<1>3. b \in RelocSet /\ b.left = RelocCells /\ b.left > 0 /\ b.spilled = FALSE /\ b.loc = ret
  BY <1>2, Constants DEF RelocSet
<1> SUFFICES ASSUME NEW m, m = Len(relocs) + 1, NEW q, q = RelocNo(m),
                    NEW P, P = With(Without(Places, NewBlock), q, Places[NewBlock])
             PROVE  IInv' /\ CellsKept
  OBVIOUS
<1>4. relocs' = FirstLess(<<b>> \o relocs)
  BY PutIsLess
<1>5. /\ \A o \in Owners \ {NewBlock, q} : SamePlace(o)
      /\ q \in Owners /\ q # NewBlock /\ ~HasPlace(q) /\ HasPlace(q)'
      /\ PlaceOf(q)' = InRam(ret, RelocCells)
  BY <1>1, <1>2, <1>3, <1>4, BlockAdded
<1>6. /\ NewBlock \in Owners /\ HasPlace(NewBlock) /\ ~HasPlace(NewBlock)'
      /\ PlaceOf(NewBlock) = InRam(ret, RelocCells)
  BY <1>1, TheyAreOwners, NewPlace, NewPlaceThen
<1>7. /\ NewBlock \in DOMAIN Places /\ q \notin DOMAIN Places /\ Places[NewBlock] = InRam(ret, RelocCells)
      /\ Places' = P
  BY <1>5, <1>6, PlacePassed
<1>8. /\ Memory(P, ram, spill)
      /\ SameValues(DOMAIN Places \ {NewBlock}, Places, ram, spill, P, ram, spill)
  BY <1>2, <1>7, PlaceRenamed
<1>9. DOMAIN P = (DOMAIN Places \ {NewBlock}) \union {q} /\ P[q] = InRam(ret, RelocCells)
  <2>1. DOMAIN Without(Places, NewBlock) = DOMAIN Places \ {NewBlock}
    BY WithoutIs
  <2>2. DOMAIN P = DOMAIN Without(Places, NewBlock) \union {q} /\ P[q] = Places[NewBlock]
    BY DEF With
  <2> QED
    BY <1>7, <2>1, <2>2
<1>10. P[q] = IF b.spilled THEN InFile(b.loc, RelocCells) ELSE InRam(b.loc, RelocCells)
  BY <1>3, <1>9
<1> SUFFICES ASSUME NEW g, g = spill PROVE IInv' /\ CellsKept
  OBVIOUS
<1>11. /\ PutReloc(<<b>> \o relocs, ram, g) /\ Memory(P, ram, g)
       /\ SameValues(DOMAIN Places \ {NewBlock}, Places, ram, spill, P, ram, g)
  BY <1>8
<1> QED
  BY <1>1, <1>3, <1>7, <1>9, <1>10, <1>11, WriteNewBlock

LEMMA NewBlockInFile ==
    ASSUME IInv, Active("AllocRelocInfo"), ret = 0,
           NEW b, b = [left |-> RelocCells, spilled |-> TRUE, loc |-> SpillBase],
           PutReloc(<<b>> \o relocs, ram, Spilled(RelocCells)), Pop,
           UNCHANGED <<pages, room, cache, other, TempFile, ret, status>>
    PROVE  IInv' /\ CellsKept
<1>1. /\ Depth = 1 /\ Frame(1).fn = "AllocRelocInfo" /\ status = "run" /\ RelocLeft = 0
      /\ Len(relocs) < MaxRelocs /\ stack' = <<>> /\ Leaving = {} /\ ret' = 0 /\ Leaving' = {}
  BY AddingAt, NoCallsThen DEF Pop
<1>2. TypeOK /\ Memory(Places, ram, spill) /\ SpillBase \in Nat /\ RelocCells \in Nat \ {0}
  BY SpilledIs, Constants DEF IInv, Control, TypeOK
<1>3. b \in RelocSet /\ b.left = RelocCells /\ b.left > 0 /\ b.spilled = TRUE /\ b.loc = SpillBase
  BY <1>2 DEF RelocSet
<1> SUFFICES ASSUME NEW m, m = Len(relocs) + 1, NEW q, q = RelocNo(m),
                    NEW P, P = With(Places, q, InFile(SpillBase, RelocCells)),
                    NEW g, g = Spilled(RelocCells)
             PROVE  IInv' /\ CellsKept
  OBVIOUS
<1>4. relocs' = FirstLess(<<b>> \o relocs)
  BY PutIsLess
<1>5. /\ \A o \in Owners \ {NewBlock, q} : SamePlace(o)
      /\ q \in Owners /\ q # NewBlock /\ ~HasPlace(q) /\ HasPlace(q)'
      /\ PlaceOf(q)' = InFile(SpillBase, RelocCells)
  BY <1>1, <1>2, <1>3, <1>4, BlockAdded
<1>6. SamePlace(NewBlock) /\ NewBlock \notin DOMAIN Places
  BY <1>1, NewPlace, NewPlaceThen DEF SamePlace
<1>7. q \notin DOMAIN Places /\ Places' = P
  <2>1. \A o \in Owners \ {q} : SamePlace(o)
    BY <1>5, <1>6
  <2> QED
    BY <1>5, <2>1, PlaceGained
<1>8. Memory(P, ram, g) /\ SameValues(DOMAIN Places, Places, ram, spill, P, ram, g)
  BY <1>2, <1>7, PlaceInFile
<1>9. DOMAIN P = (DOMAIN Places \ {NewBlock}) \union {q} /\ P[q] = InFile(SpillBase, RelocCells)
  <2>1. DOMAIN P = DOMAIN Places \union {q} /\ P[q] = InFile(SpillBase, RelocCells)
    BY DEF With
  <2> QED
    BY <1>6, <2>1
<1>10. P[q] = IF b.spilled THEN InFile(b.loc, RelocCells) ELSE InRam(b.loc, RelocCells)
  BY <1>3, <1>9
<1>11. SameValues(DOMAIN Places \ {NewBlock}, Places, ram, spill, P, ram, g)
  BY <1>8 DEF SameValues
<1>12. PutReloc(<<b>> \o relocs, ram, g) /\ stack' = <<>> /\ ret' = 0 /\ Places' = P
  BY <1>1, <1>7
<1>13. UNCHANGED <<status, pages, room, cache, other, TempFile>>
  OBVIOUS
<1>14. b \in RelocSet /\ b.left = RelocCells
  BY <1>3
<1>15. DOMAIN P = (DOMAIN Places \ {NewBlock}) \union {q} /\ Memory(P, ram, g)
  BY <1>8, <1>9
<1> QED
  BY <1>1, <1>10, <1>11, <1>12, <1>13, <1>14, <1>15, WriteNewBlock, ZenonT(40)

LEMMA AllocRelocInfoStep ==
    ASSUME IInv, AllocRelocInfo
    PROVE  IInv' /\ CellsKept
<1> DEFINE b1 == [left |-> RelocCells, spilled |-> FALSE, loc |-> ret]
           b3 == [left |-> RelocCells, spilled |-> TRUE, loc |-> SpillBase]
<1>1. Active("AllocRelocInfo")
  BY DEF AllocRelocInfo
<1>2. CASE /\ ret # 0 /\ PutReloc(<<b1>> \o relocs, ram, spill) /\ Pop /\ ret' = 0
           /\ UNCHANGED <<pages, room, cache, other, TempFile, status>>
  BY <1>1, <1>2, NewBlockInRam
<1>3. CASE ret = 0 /\ OpenFirst
  BY <1>1, <1>3, AddingAt, OpenFirstStep
<1>4. CASE /\ ret = 0 /\ PutReloc(<<b3>> \o relocs, ram, Spilled(RelocCells)) /\ Pop
           /\ UNCHANGED <<pages, room, cache, other, TempFile, ret, status>>
  BY <1>1, <1>4, NewBlockInFile
<1> QED
  BY <1>2, <1>3, <1>4 DEF AllocRelocInfo
LEMMA AskForBlock ==
    ASSUME IInv, status = "run", stack = <<>>, RelocLeft = 0, Len(relocs) < MaxRelocs,
           Call(<<LAllocFrame(RelocCells, "page"), [fn |-> "AllocRelocInfo"]>>, <<>>),
           UNCHANGED <<pages, relocs, heap, file, ret>>
    PROVE  IInv' /\ CellsKept
<1> SUFFICES ASSUME NEW f, f = LAllocFrame(RelocCells, "page"), NEW g, g = [fn |-> "AllocRelocInfo"]
             PROVE  IInv' /\ CellsKept
  OBVIOUS
<1>1. ret = 0 /\ Depth = 0 /\ stack \in Seq(Frames)
  BY IdleRet, NoCalls DEF IInv, Control
<1>2. /\ f \in Frames /\ f.fn = "LAlloc" /\ f.use = "page" /\ f.size = RelocCells
      /\ g \in Frames /\ g.fn = "AllocRelocInfo"
  BY Constants DEF Frames, LAllocFrame
<1>3. /\ stack' = <<f, g>> \o stack
      /\ status' = IF Len(stack') > MaxDepth THEN "overflow" ELSE status
  BY DEF Call
<1>4. stack' \in Seq(Frames) /\ Depth' = 2 /\ Frame(2)' = f /\ Frame(1)' = g
  <2>1. 0 + 2 = 2 /\ 0 + 1 = 1
    OBVIOUS
  <2> QED
    BY ONLY <1>1, <1>2, <1>3, <2>1, TwoCalled, SMTT(30)
<1>5. InPlace(1)'
  <2>1. RelocLeft' = 0 /\ Len(relocs') < MaxRelocs
    BY DEF RelocLeft
  <2>2. AddingReloc(1)'
    BY <2>1 DEF AddingReloc
  <2> QED
    BY <1>2, <1>4, <2>2, ThenInPlace
<1>6. InPlace(2)'
  <2> SUFFICES ASSUME NEW k \in Nat \ {0}, k = 1 PROVE InPlace(k + 1)'
    OBVIOUS
  <2>1. Frame(k + 1)' = f /\ Frame(k)' = g /\ ret' = 0
    BY <1>1, <1>4
  <2>2. f.size = NeededBy(g)' /\ g.fn \in Askers
    BY <1>2 DEF NeededBy, Askers
  <2> QED
    BY <1>2, <2>1, <2>2, AskingPage
<1> SUFFICES ASSUME NEW l \in Nat, l = 2 PROVE IInv' /\ CellsKept
  OBVIOUS
<1>7. \A d \in 1..l : /\ Frame(d)'.fn \notin {"AllocHugeNode", "SwapOutVirt"} /\ InPlace(d)'
  <2>1. \A d \in 1..l : d = 1 \/ d = 2
    OBVIOUS
  <2> QED
    BY <1>2, <1>4, <1>5, <1>6, <2>1
<1>8. l = Depth'
  BY <1>4
<1> QED
  BY <1>3, <1>4, <1>7, <1>8, FirstStep

LEMMA WriteRelocStep ==
    ASSUME IInv, WriteReloc
    PROVE  IInv' /\ CellsKept
<1>1. /\ status = "run" /\ stack = <<>>
      /\ UNCHANGED <<pages, room, cache, other, TempFile, ret>>
  BY DEF WriteReloc
<1>2. CASE RelocLeft > 0 /\ PutReloc(relocs, ram, spill) /\ UNCHANGED <<stack, status>>
  BY <1>1, <1>2, WriteOldBlock
<1>3. CASE /\ RelocLeft = 0 /\ Len(relocs) < MaxRelocs
           /\ Call(<<LAllocFrame(RelocCells, "page"), [fn |-> "AllocRelocInfo"]>>, <<>>)
           /\ UNCHANGED <<relocs, ram, spill>>
  <2>1. UNCHANGED <<pages, relocs, heap, file, ret>>
    BY <1>1, <1>3 DEF heap, file
  <2> QED
    BY <1>1, <1>3, <2>1, AskForBlock
<1> QED
  BY <1>2, <1>3 DEF WriteReloc
----------------------------------------------------------------------------
(***************************************************************************)
(* Swapping out.                                                            *)
(***************************************************************************)
(* One node changes. *)
LEMMA NodeTabStep ==
    ASSUME TypeOK, Storage, NEW k \in 1..Len(SegTab), NEW h \in NodeSet,
           SegTab' = [SegTab EXCEPT ![k] = h], h.size = SegTab[k].size,
           UNCHANGED <<HugeTab, tiny, owned, relocs>>,
           NextSwap' \in Seq(1..Len(SegTab)),
           \A b \in DOMAIN ram' : ram'[b] \in Seq(Int),
           room' \in 0..HeapCells, cache' \in 0..CacheBlocks, other' \in 0..MaxOther,
           TempFile' \in BOOLEAN, spill' \in Seq(Int), ret' \in Nat,
           status' \in {"run", "fatal", "overflow"},
           status' # "overflow" => Len(stack') <= MaxDepth
    PROVE  /\ TypeOK' /\ Storage' /\ Len(SegTab') = Len(SegTab) /\ SegTab'[k] = h
           /\ \A j \in 1..Len(SegTab) : j # k => SegTab'[j] = SegTab[j]
<1>1. SegTab \in Seq(NodeSet) /\ Len(SegTab) \in Nat /\ Len(HugeTab) \in Nat
  BY TypesAre
<1>2. /\ SegTab' \in Seq(NodeSet) /\ Len(SegTab') = Len(SegTab) /\ SegTab'[k] = h
      /\ \A j \in 1..Len(SegTab) : j # k => SegTab'[j] = SegTab[j]
  BY <1>1
<1>3. TypeOK'
  <2>1. SegTab' \in Seq([size : 1..NodeCells, inmem : BOOLEAN, loc : Nat])
    BY <1>2 DEF NodeSet
  <2>2. NextSwap' \in Seq(1..Len(SegTab'))
    BY <1>2
  <2> QED
    BY <2>1, <2>2 DEF TypeOK, Addr, EndAddr, HugeBase, HugeCells
<1>4. Larger
  <2>1. \A j \in 1..Len(SegTab) : SegTab'[j].size = SegTab[j].size
    BY <1>2
  <2> QED
    BY <1>1, <1>2, <2>1 DEF Larger
<1>5. Storage'
  BY <1>1, <1>2, <1>4, StorageSame
<1> QED
  BY <1>2, <1>3, <1>5

(* The first node of the list that is in memory. *)
LEMMA FirstIs ==
    ASSUME InMemAt # {}
    PROVE  FirstInMem \in InMemAt /\ \A j \in InMemAt : FirstInMem <= j
<1> SUFFICES ASSUME NEW S, S = InMemAt
             PROVE  FirstInMem \in S /\ \A j \in S : FirstInMem <= j
  OBVIOUS
<1>1. S \in SUBSET Nat /\ S # {}
  BY DEF InMemAt
<1>2. FirstInMem = CHOOSE i \in S : \A j \in S : i <= j
  BY DEF FirstInMem
<1> QED
  BY <1>1, <1>2, LeastIs

(* The list behind its first f nodes. *)
LEMMA BehindFirst ==
    ASSUME NEW X, NEW s \in Seq(X), NEW f \in 1..Len(s), NEW t, t = SubSeq(s, f + 1, Len(s))
    PROVE  /\ t \in Seq(X) /\ Len(t) = Len(s) - f /\ Len(s) \in Nat /\ Len(t) \in Nat
           /\ \A i \in 1..Len(t) : i + f \in 1..Len(s) /\ t[i] = s[i + f]
           /\ \A j \in 1..Len(s) : j > f => j - f \in 1..Len(t) /\ t[j - f] = s[j]
<1>1. Len(s) \in Nat /\ f \in Nat
  OBVIOUS
<1>2. t \in Seq(X) /\ Len(t) = Len(s) - f /\ \A i \in 1..Len(t) : t[i] = s[i + f]
  <2> SUFFICES ASSUME NEW m \in Int, m = f + 1, NEW n \in Int, n = Len(s)
               PROVE  t \in Seq(X) /\ Len(t) = Len(s) - f /\ \A i \in 1..Len(t) : t[i] = s[i + f]
    BY <1>1
  <2>1. \A i \in m..n : s[i] \in X
    BY <1>1
  <2>2. t = SubSeq(s, m, n)
    OBVIOUS
  <2>3. /\ t \in Seq(X) /\ Len(t) = IF m <= n THEN n - m + 1 ELSE 0
        /\ \A i \in 1..(n - m + 1) : t[i] = s[m + i - 1]
    BY <2>1, <2>2, SubSeqProperties
  <2>4. Len(t) = n - m + 1 /\ n - m + 1 = Len(s) - f
    BY <1>1, <2>3
  <2>5. \A i \in 1..(n - m + 1) : m + i - 1 = i + f
    BY <1>1
  <2> QED
    BY <2>3, <2>4, <2>5
<1>3. Len(t) \in Nat
  BY <1>2
<1>4. \A i \in 1..Len(t) : i + f \in 1..Len(s)
  BY <1>1, <1>2, <1>3
<1>5. \A j \in 1..Len(s) : j > f => j - f \in 1..Len(t) /\ t[j - f] = s[j]
  <2> SUFFICES ASSUME NEW j \in 1..Len(s), j > f
               PROVE  j - f \in 1..Len(t) /\ t[j - f] = s[j]
    OBVIOUS
  <2>1. j - f \in 1..Len(t) /\ (j - f) + f = j
    BY <1>1, <1>2, <1>3
  <2> QED
    BY <1>2, <2>1
<1> QED
  BY <1>1, <1>2, <1>3, <1>4, <1>5

(* The list after a victim was taken: exact again. *)
LEMMA VictimTaken ==
    ASSUME TypeOK, SwapList, NEW f \in InMemAt, \A j \in InMemAt : f <= j,
           NextSwap' = SubSeq(NextSwap, f + 1, Len(NextSwap)),
           NEW k, k = NextSwap[f], Len(SegTab') = Len(SegTab),
           ~SegTab'[k].inmem, SegTab'[k].loc = SegTab[k].loc,
           \A j \in 1..Len(SegTab) : j # k => SegTab'[j] = SegTab[j]
    PROVE  SwapList' /\ NextSwap' \in Seq(1..Len(SegTab))
<1>1. NextSwap \in Seq(1..Len(SegTab)) /\ f \in 1..Len(NextSwap)
      /\ \A i \in 1..Len(NextSwap) : NextSwap[i] \in 1..Len(SegTab)
  BY TypesAre DEF InMemAt
<1> SUFFICES ASSUME NEW t, t = NextSwap' PROVE SwapList' /\ t \in Seq(1..Len(SegTab))
  OBVIOUS
<1>2. /\ t \in Seq(1..Len(SegTab)) /\ Len(NextSwap) \in Nat /\ Len(t) \in Nat
      /\ \A i \in 1..Len(t) : i + f \in 1..Len(NextSwap) /\ t[i] = NextSwap[i + f]
      /\ \A j \in 1..Len(NextSwap) : j > f => j - f \in 1..Len(t) /\ t[j - f] = NextSwap[j]
  BY <1>1, BehindFirst
<1>3. \A j \in 1..Len(SegTab) : SegTab'[j].loc = SegTab[j].loc
  OBVIOUS
<1>4. \A i \in 1..Len(t) : SegTab'[t[i]].loc # 0
  <2> SUFFICES ASSUME NEW i \in 1..Len(t) PROVE SegTab'[t[i]].loc # 0
    OBVIOUS
  <2>1. i + f \in 1..Len(NextSwap) /\ t[i] = NextSwap[i + f]
    BY <1>2
  <2>2. t[i] \in 1..Len(SegTab) /\ SegTab[t[i]].loc # 0
    BY <1>1, <2>1 DEF SwapList
  <2> QED
    BY <1>3, <2>2
<1>5. ASSUME NEW j \in 1..Len(SegTab), SegTab'[j].inmem
      PROVE  SegTab'[j].loc # 0 /\ \E i \in 1..Len(t) : t[i] = j
  <2>1. j # k /\ SegTab[j].inmem
    BY <1>5
  <2>2. PICK i \in 1..Len(NextSwap) : NextSwap[i] = j
    BY <2>1 DEF SwapList, SwapListExact
  <2>3. i \in InMemAt /\ i # f
    BY <2>1, <2>2 DEF InMemAt
  <2>4. i > f
    BY <1>1, <2>3
  <2>5. i - f \in 1..Len(t) /\ t[i - f] = j
    BY <1>2, <2>2, <2>4
  <2> QED
    BY <1>3, <2>1, <2>5 DEF SwapList
<1>6. ASSUME NEW i \in 1..Len(t), NEW j \in 1..Len(t), t[i] = t[j]
      PROVE  i = j
  <2>1. /\ i + f \in 1..Len(NextSwap) /\ j + f \in 1..Len(NextSwap)
        /\ NextSwap[i + f] = NextSwap[j + f]
    BY <1>2, <1>6
  <2>2. i + f = j + f
    BY <2>1 DEF SwapList, SwapListExact
  <2> QED
    BY <1>1, <1>2, <2>2
<1> QED
  BY <1>2, <1>4, <1>5, <1>6 DEF SwapList, SwapListExact
LEMMA ItemSet ==
    ASSUME NEW X, NEW s \in Seq(X), NEW i \in 1..Len(s), NEW v \in X,
           NEW t, t = [s EXCEPT ![i] = v]
    PROVE  /\ t \in Seq(X) /\ Len(t) = Len(s) /\ t[i] = v
           /\ \A j \in 1..Len(s) : j # i => t[j] = s[j]
OBVIOUS

(* No malloc succeeds, whoever waits for its memory. *)
LEMMA NoRoomAt ==
    ASSUME IInv, NoRoom, cache = 0, NEW n, n = Depth
    PROVE  /\ n \in Nat \ {0} /\ Frame(n) = Top /\ Top.fn = "LAlloc" /\ Top \in Frames
           /\ stack \in Seq(Frames) /\ stack # <<>> /\ ret = 0 /\ status = "run"
           /\ \A d \in 1..n : Frame(d).fn = "LAlloc" /\ Frame(d).use = "name" =>
                 TempFile = FALSE /\ room < NameCells
           /\ \A d \in 1..n : Frame(d).fn = "AllocHugeNode" => Frame(d).nomem = FALSE
<1>1. /\ stack # <<>> /\ stack \in Seq(Frames) /\ status = "run"
      /\ n \in Nat \ {0} /\ n \in 1..n /\ Frame(n) = Top /\ Top.fn = "LAlloc"
      /\ Top \in Frames /\ Top.size > room
  BY ActiveAt DEF NoRoom
<1>2. Calls /\ TypeOK
  BY DEF IInv, Control
<1>3. ret = 0
  BY <1>1, <1>2, NothingInHand
<1>4. ASSUME NEW d \in 1..n, Frame(d).fn = "LAlloc", Frame(d).use = "name"
      PROVE  TempFile = FALSE /\ room < NameCells
  <2>1. Asking(d) /\ TempFile \in BOOLEAN
    BY <1>2, <1>4, NothingInHand DEF TypeOK
  <2>2. d < n \/ d = n
    BY <1>1
  <2>3. CASE d < n
    BY <1>4, <2>1, <2>3 DEF Asking
  <2>4. CASE d = n
    BY <1>1, <1>4, <2>1, <2>4 DEF Asking
  <2> QED
    BY <2>2, <2>3, <2>4
<1>5. \A d \in 1..n : Frame(d).fn = "AllocHugeNode" => Frame(d).nomem = FALSE
  BY <1>1, <1>2, NoneWithoutMemory
<1> QED
  BY <1>1, <1>3, <1>4, <1>5

LEMMA VictimCalls ==
    ASSUME IInv, NoRoom, cache = 0, NEW n, n = Depth, NEW k \in 1..Len(SegTab),
           SegTab[k].inmem, SegTab[k].loc # 0,
           stack' = <<[fn |-> "SwapOutVirt", node |-> k]>> \o stack,
           UNCHANGED <<HugeTab, owned, relocs, room, cache, other, TempFile, ret>>,
           Len(SegTab') = Len(SegTab), ~SegTab'[k].inmem, SegTab'[k].loc = SegTab[k].loc,
           SegTab'[k].size = SegTab[k].size,
           \A j \in 1..Len(SegTab) : j # k => SegTab'[j] = SegTab[j]
    PROVE  /\ stack' \in Seq(Frames) /\ Calls' /\ \A p, s : Unplaced(p, s)' <=> Unplaced(p, s)
           /\ \A j : j \in Leaving' <=> j \in Leaving \/ j = k
<1> SUFFICES ASSUME NEW f, f = [fn |-> "SwapOutVirt", node |-> k], NEW l, l = n + 1
             PROVE  /\ stack' \in Seq(Frames) /\ Calls' /\ \A p, s : Unplaced(p, s)' <=> Unplaced(p, s)
                    /\ \A j : j \in Leaving' <=> j \in Leaving \/ j = k
  OBVIOUS
<1>1. /\ n \in Nat \ {0} /\ Frame(n) = Top /\ Top.fn = "LAlloc" /\ Top \in Frames
      /\ stack \in Seq(Frames) /\ stack # <<>> /\ ret = 0
      /\ \A d \in 1..n : Frame(d).fn = "LAlloc" /\ Frame(d).use = "name" =>
            TempFile = FALSE /\ room < NameCells
      /\ \A d \in 1..n : Frame(d).fn = "AllocHugeNode" => Frame(d).nomem = FALSE
  BY NoRoomAt
<1>2. Calls /\ TypeOK /\ k \in Nat
  <2>1. Calls /\ TypeOK
    BY DEF IInv, Control
  <2> QED
    BY <2>1, TypesAre
<1>3. f \in Frames /\ f.fn = "SwapOutVirt" /\ f.node = k
  BY <1>2 DEF Frames
<1>4. /\ stack' \in Seq(Frames) /\ Depth' = l /\ Frame(l)' = f
      /\ \A d \in 1..n : Frame(d)' = Frame(d)
  BY <1>1, <1>3, OneCalled
<1>5. l \in Nat /\ n <= l /\ n \in 0..n /\ n \in Nat /\ l - 1 = n /\ l > 1
      /\ \A d \in 1..l : d \in 1..n \/ d = l
  BY <1>1
<1>6. Quiet(n, l)
  <2>1. \A d \in 1..n : Frame(d).fn = "LAlloc" =>
          /\ ret' = 0
          /\ Frame(d).use = "other" => other' = other
          /\ Frame(d).use = "name" => TempFile' = FALSE /\ (d < l => cache' = 0 /\ room' < NameCells)
    BY <1>1
  <2>2. \A d \in 1..n : Frame(d).fn = "SpillRelocList" => ~relocs'[Frame(d).block].spilled
    BY <1>2 DEF Calls, InPlace, SpillingReloc
  <2>3. \A j \in 1..Len(SegTab) : /\ SegTab'[j].size = SegTab[j].size
                                  /\ SegTab'[j].loc = 0 <=> SegTab[j].loc = 0
                                  /\ SegTab'[j].inmem => SegTab[j].inmem
    OBVIOUS
  <2> QED
    BY <1>1, <1>4, <2>1, <2>2, <2>3 DEF Quiet, RelocLeft
<1>7. \A d \in 1..n : InPlace(d)'
  BY <1>2, <1>4, <1>5, <1>6, CallsKept
<1>8. InPlace(l)'
  <2>1. Under(l, {"LAlloc"})'
    <3>1. Frame(l - 1)' = Frame(n)
      BY <1>1, <1>4, <1>5
    <3> QED
      BY <1>1, <1>5, <3>1 DEF Under
  <2>2. SwappingNode(l)'
    BY <1>3, <1>4, <2>1 DEF SwappingNode
  <2> QED
    BY <1>3, <1>4, <2>2, ThenInPlace
<1>9. \A d \in 1..n : Frame(d).fn = "SwapOutVirt" => Frame(d).node # k
  <2> SUFFICES ASSUME NEW d \in 1..n, Frame(d).fn = "SwapOutVirt", Frame(d).node = k
               PROVE  FALSE
    OBVIOUS
  <2>1. SwappingNode(d)
    BY <1>2 DEF Calls, InPlace
  <2> QED
    BY <2>1 DEF SwappingNode
<1>10. Distinct'
  <2> SUFFICES ASSUME NEW d \in 1..l, NEW e \in 1..l,
                      Frame(d)'.fn = "SwapOutVirt", Frame(e)'.fn = "SwapOutVirt",
                      Frame(d)'.node = Frame(e)'.node
               PROVE  d = e
    BY <1>4 DEF Distinct
  <2>1. CASE d \in 1..n /\ e \in 1..n
    BY <1>2, <1>4, <2>1 DEF Calls, Distinct
  <2>2. CASE d = l /\ e = l
    BY <2>2
  <2>3. CASE d = l /\ e \in 1..n
    BY <1>3, <1>4, <1>9, <2>3
  <2>4. CASE e = l /\ d \in 1..n
    BY <1>3, <1>4, <1>9, <2>4
  <2> QED
    BY <1>5, <2>1, <2>2, <2>3, <2>4
<1>11. Calls'
  <2>1. InHand'
    BY <1>1 DEF InHand
  <2>2. \A d \in 1..l : InPlace(d)'
    BY <1>5, <1>7, <1>8
  <2> QED
    BY <1>4, <1>10, <2>1, <2>2 DEF Calls
<1>12. \A p, s : Unplaced(p, s)' <=> Unplaced(p, s)
  <2>1. \A d \in (n + 1)..n : FALSE
    BY <1>1
  <2>2. \A d \in (n + 1)..l : Frame(d)'.fn # "AllocHugeNode"
    <3>1. \A d \in (n + 1)..l : d = l
      BY <1>1
    <3> QED
      BY <1>3, <1>4, <3>1
  <2>3. n <= n
    BY <1>1
  <2> QED
    BY <1>4, <1>5, <2>1, <2>2, <2>3, UnplacedKept
<1>13. ASSUME NEW j PROVE j \in Leaving' <=> j \in Leaving \/ j = k
  <2>1. j \in Leaving' <=> \E d \in 1..l : Frame(d)'.fn = "SwapOutVirt" /\ Frame(d)'.node = j
    BY <1>4, LeavingThenIs
  <2>2. j \in Leaving <=> \E d \in 1..n : Frame(d).fn = "SwapOutVirt" /\ Frame(d).node = j
    BY <1>1, LeavingIs
  <2>3. l \in 1..l /\ \A d \in 1..n : d \in 1..l
    BY <1>1
  <2> QED
    BY <1>3, <1>4, <1>5, <2>1, <2>2, <2>3
<1> QED
  BY <1>4, <1>11, <1>12, <1>13

LEMMA SwapOutVirtStep ==
    ASSUME IInv, SwapOutVirt
    PROVE  IInv' /\ CellsKept
<1>1. /\ TypeOK /\ Kinds /\ Storage /\ Calls /\ HugePages /\ SwapList
      /\ Accounted /\ Data
  BY IInvIs DEF Control
<1>2. /\ NoRoom /\ cache = 0 /\ InMemAt # {}
      /\ UNCHANGED <<HugeTab, tiny, owned, relocs>> /\ UNCHANGED <<ram, room, cache, other>>
      /\ UNCHANGED <<TempFile, spill, ret>>
      /\ status' = IF Len(stack') > MaxDepth THEN "overflow" ELSE status
  BY DEF SwapOutVirt, Call, heap, file
<1>3. PICK i \in InMemAt : /\ \A j \in InMemAt : i <= j
                          /\ NextSwap' = SubSeq(NextSwap, i + 1, Len(NextSwap))
                          /\ SegTab' = [SegTab EXCEPT ![NextSwap[i]].inmem = FALSE]
                          /\ stack' = <<[fn |-> "SwapOutVirt", node |-> NextSwap[i]]>> \o stack
  BY <1>2, FirstIs DEF SwapOutVirt, Call
<1>4. PICK k \in 1..Len(SegTab) : k = NextSwap[i] /\ SegTab[k].inmem /\ SegTab[k].loc # 0
                                 /\ SegTab[k] \in NodeSet
  <2>1. i \in 1..Len(NextSwap) /\ SegTab[NextSwap[i]].inmem
    BY <1>3 DEF InMemAt
  <2> QED
    BY <1>1, <2>1, TypesAre DEF SwapList
<1>5. PICK h \in NodeSet : /\ h.size = SegTab[k].size /\ h.loc = SegTab[k].loc /\ h.inmem = FALSE
                          /\ SegTab' = [SegTab EXCEPT ![k] = h]
  <2>1. /\ [SegTab[k] EXCEPT !.inmem = FALSE] \in NodeSet
        /\ [SegTab[k] EXCEPT !.inmem = FALSE].size = SegTab[k].size
        /\ [SegTab[k] EXCEPT !.inmem = FALSE].loc = SegTab[k].loc
        /\ [SegTab[k] EXCEPT !.inmem = FALSE].inmem = FALSE
    BY <1>4 DEF NodeSet
  <2>2. SegTab' = [SegTab EXCEPT ![k] = [SegTab[k] EXCEPT !.inmem = FALSE]]
    BY <1>3, <1>4
  <2> QED
    BY <2>1, <2>2
<1>6. SegTab' = [SegTab EXCEPT ![k] = h]
  BY <1>5
<1>7. /\ Len(SegTab') = Len(SegTab) /\ SegTab'[k] = h
      /\ \A j \in 1..Len(SegTab) : j # k => SegTab'[j] = SegTab[j]
  <2>1. SegTab \in Seq(NodeSet) /\ h \in NodeSet /\ k \in 1..Len(SegTab)
    BY <1>1, <1>4, <1>5, TypesAre
  <2> QED
    BY <1>6, <2>1, ItemSet
<1>8. SwapList' /\ NextSwap' \in Seq(1..Len(SegTab))
  <2>1. ~SegTab'[k].inmem /\ SegTab'[k].loc = SegTab[k].loc
    BY <1>5, <1>7
  <2> QED
    BY <1>1, <1>3, <1>4, <1>7, <2>1, VictimTaken
<1>9. /\ stack' \in Seq(Frames) /\ Calls' /\ \A p, s : Unplaced(p, s)' <=> Unplaced(p, s)
      /\ \A j : j \in Leaving' <=> j \in Leaving \/ j = k
  BY <1>2, <1>3, <1>4, <1>5, <1>7, VictimCalls
<1>10. TypeOK' /\ Storage'
  <2>1. Len(stack') \in Nat /\ MaxDepth \in Nat
    BY <1>9, Constants
  <2>2. status' \in {"run", "fatal", "overflow"} /\ (status' # "overflow" => Len(stack') <= MaxDepth)
    BY <1>1, <1>2, <2>1 DEF TypeOK
  <2>3. /\ \A b \in DOMAIN ram' : ram'[b] \in Seq(Int)
        /\ room' \in 0..HeapCells /\ cache' \in 0..CacheBlocks /\ other' \in 0..MaxOther
        /\ TempFile' \in BOOLEAN /\ spill' \in Seq(Int) /\ ret' \in Nat
    BY <1>1, <1>2 DEF TypeOK
  <2> QED
    BY <1>1, <1>2, <1>4, <1>5, <1>6, <1>8, <2>2, <2>3, NodeTabStep
<1>11. Kinds'
  BY <1>1, <1>2, <1>7, <1>9 DEF Kinds, CellsIn, Frames
<1>12. HugePages'
  BY <1>1, <1>2, <1>9, HugePagesKept
<1>13. Places' = Places
  <2>1. ASSUME NEW o \in Owners PROVE SamePlace(o)
    <3>1. CASE o.kind = "node"
      <4>1. ASSUME o.no \in 1..Len(SegTab)
            PROVE  /\ SegTab'[o.no].loc = SegTab[o.no].loc /\ SegTab'[o.no].size = SegTab[o.no].size
                   /\ (SegTab'[o.no].inmem \/ o.no \in Leaving') <=> (SegTab[o.no].inmem \/ o.no \in Leaving)
        <5>1. CASE o.no = k
          BY <1>4, <1>5, <1>7, <1>9, <5>1
        <5>2. CASE o.no # k
          BY <1>7, <1>9, <4>1, <5>2
        <5> QED
          BY <5>1, <5>2
      <4> QED
        BY <1>7, <3>1, <4>1, NodeSame
    <3>2. CASE o.kind = "huge"
      BY <1>2, <3>2, HugeSame
    <3>3. CASE o.kind = "reloc"
      BY <1>2, <3>3, RelocSame DEF RelocAt
    <3>4. CASE o.kind = "new"
      BY <1>2, <3>4, NewSame
    <3> QED
      BY <3>1, <3>2, <3>3, <3>4, OwnersAre
  <2> QED
    BY <2>1, PlacesKept
<1>14. Data' /\ CellsKept
  BY <1>1, <1>2, <1>13, DataSame DEF RelocAt
<1>15. Accounted'
  BY <1>1, <1>2 DEF Accounted, CellsIn
<1> QED
  BY <1>8, <1>9, <1>10, <1>11, <1>12, <1>14, <1>15, IInvIs DEF Control, IInv, Data
(* No node is left to swap out. *)
LEMMA ListEmptied ==
    ASSUME IInv, NoRoom, cache = 0, InMemAt = {}, NextSwap' = <<>>,
           UNCHANGED <<SegTab, HugeTab, tiny, owned, relocs, heap, file>>, ret' = 0,
           status' \in {"run", "fatal", "overflow"},
           status' # "overflow" => Len(stack') <= MaxDepth,
           NEW n, n = Depth, NEW l \in Nat, l = Depth', NEW m \in Nat, m <= n, m <= l,
           stack' \in Seq(Frames), \A d \in 1..m : Frame(d)' = Frame(d),
           \A d \in (m + 1)..n : Frame(d).fn \notin {"AllocHugeNode", "SwapOutVirt"},
           \A d \in (m + 1)..l : /\ Frame(d)'.fn \notin {"AllocHugeNode", "SwapOutVirt"}
                                 /\ InPlace(d)'
    PROVE  IInv' /\ CellsKept
<1>1. /\ TypeOK /\ Kinds /\ Storage /\ Calls /\ HugePages /\ SwapList
      /\ Accounted /\ Data
  BY IInvIs DEF Control
<1>2. /\ UNCHANGED <<SegTab, HugeTab, tiny, owned, relocs>> /\ UNCHANGED <<ram, room, cache, other>>
      /\ UNCHANGED <<TempFile, spill>>
  BY DEF heap, file
<1>3. /\ n \in Nat \ {0} /\ stack \in Seq(Frames) /\ ret = 0
      /\ \A d \in 1..n : Frame(d).fn = "LAlloc" /\ Frame(d).use = "name" =>
            TempFile = FALSE /\ room < NameCells
      /\ \A d \in 1..n : Frame(d).fn = "AllocHugeNode" => Frame(d).nomem = FALSE
  BY NoRoomAt
<1>4. TypeOK'
  <2>1. /\ \A b \in DOMAIN ram' : ram'[b] \in Seq(Int)
        /\ room' \in 0..HeapCells /\ cache' \in 0..CacheBlocks /\ other' \in 0..MaxOther
        /\ TempFile' \in BOOLEAN /\ spill' \in Seq(Int) /\ ret' \in Nat
    BY <1>1, <1>2 DEF TypeOK
  <2>2. NextSwap' \in Seq(1..Len(SegTab))
    OBVIOUS
  <2> QED
    BY <1>1, <1>2, <2>1, <2>2, StillTypes
<1>5. SwapList'
  <2>1. \A k \in 1..Len(SegTab) : ~SegTab[k].inmem
    <3> SUFFICES ASSUME NEW k \in 1..Len(SegTab), SegTab[k].inmem PROVE FALSE
      OBVIOUS
    <3>1. PICK i \in 1..Len(NextSwap) : NextSwap[i] = k
      BY <1>1 DEF SwapList, SwapListExact
    <3> QED
      BY <3>1 DEF InMemAt
  <2>2. Len(NextSwap') = 0 /\ \A i \in 1..0 : FALSE
    OBVIOUS
  <2> QED
    BY <1>2, <2>1, <2>2 DEF SwapList, SwapListExact
<1>6. Quiet(m, l)
  <2>1. \A d \in 1..m : d \in 1..n
    BY <1>3
  <2>2. \A d \in 1..m : Frame(d).fn = "LAlloc" =>
          /\ ret' = 0
          /\ Frame(d).use = "other" => other' = other
          /\ Frame(d).use = "name" => TempFile' = FALSE /\ (d < l => cache' = 0 /\ room' < NameCells)
    BY <1>2, <1>3, <2>1
  <2>3. \A d \in 1..m : Frame(d).fn = "SpillRelocList" => ~relocs'[Frame(d).block].spilled
    BY <1>1, <1>2, <2>1 DEF Calls, InPlace, SpillingReloc
  <2> QED
    BY <1>2, <1>3, <2>1, <2>2, <2>3 DEF Quiet, RelocLeft
<1>7. Control' /\ \A k : k \in Leaving' <=> k \in Leaving
  <2>1. InHand'
    BY DEF InHand
  <2>2. /\ ram' = [b \in DOMAIN ram' |-> ram'[b]] /\ DOMAIN ram' \subseteq Nat \ {0}
        /\ IsFiniteSet(DOMAIN ram') /\ IsFiniteSet(CellsIn(ram'))
    BY <1>1, <1>2 DEF Kinds
  <2>3. n \in Nat
    BY <1>3
  <2> QED
    BY <1>1, <1>2, <1>4, <1>5, <1>6, <2>1, <2>2, <2>3, StillControl
<1>8. Places' = Places
  BY <1>2, <1>3, <1>7, StillPlaces DEF RelocAt
<1>9. Data' /\ CellsKept
  BY <1>1, <1>2, <1>3, <1>8, DataSame DEF RelocAt
<1>10. Accounted'
  BY <1>1, <1>2 DEF Accounted, CellsIn
<1> QED
  BY <1>7, <1>9, <1>10 DEF IInv, Data

LEMMA SwapOutRelocsStep ==
    ASSUME IInv, SwapOutRelocs
    PROVE  IInv' /\ CellsKept
<1>1. /\ NoRoom /\ cache = 0 /\ InMemAt = {} /\ NextSwap' = <<>>
      /\ UNCHANGED <<SegTab, HugeTab, tiny, owned, relocs, heap, file>>
  BY DEF SwapOutRelocs
<1> SUFFICES ASSUME NEW n, n = Depth PROVE IInv' /\ CellsKept
  OBVIOUS
<1>2. /\ n \in Nat \ {0} /\ Frame(n) = Top /\ Top.fn = "LAlloc" /\ Top \in Frames
      /\ stack \in Seq(Frames) /\ stack # <<>> /\ ret = 0 /\ status = "run"
  BY <1>1, NoRoomAt
<1>3. Len(stack) <= MaxDepth /\ TypeOK /\ Calls
  BY <1>2 DEF IInv, Control, TypeOK
<1>4. CASE /\ SwapRelocs # {} /\ ret' = ret
           /\ LET i == CHOOSE i \in SwapRelocs : \A j \in SwapRelocs : i <= j
              IN  Call(<<[fn |-> "SpillRelocList", block |-> i]>>, stack)
  <2>1. PICK i \in SwapRelocs : Call(<<[fn |-> "SpillRelocList", block |-> i]>>, stack)
    <3> SUFFICES ASSUME NEW S, S = SwapRelocs
                 PROVE  \E i \in S : Call(<<[fn |-> "SpillRelocList", block |-> i]>>, stack)
      OBVIOUS
    <3> DEFINE j == CHOOSE i \in S : \A j \in S : i <= j
    <3>1. S \in SUBSET Nat /\ S # {}
      BY <1>4 DEF SwapRelocs, InMemRelocs
    <3>2. j \in S
      BY <3>1, LeastIs
    <3>3. Call(<<[fn |-> "SpillRelocList", block |-> j]>>, stack)
      BY <1>4
    <3> QED
      BY <3>2, <3>3
  <2>2. i \in 1..Len(relocs) /\ ~relocs[i].spilled /\ i \in Nat
    BY <2>1 DEF SwapRelocs, InMemRelocs
  <2>3. PICK f \in Frames : f.fn = "SpillRelocList" /\ f.block = i /\ stack' = <<f>> \o stack
    BY <2>1, <2>2 DEF Frames, Call
  <2> SUFFICES ASSUME NEW l, l = n + 1 PROVE IInv' /\ CellsKept
    OBVIOUS
  <2>4. /\ stack' \in Seq(Frames) /\ Depth' = l /\ Frame(l)' = f
        /\ \A d \in 1..n : Frame(d)' = Frame(d)
    BY <1>2, <2>3, OneCalled
  <2>5. l \in Nat /\ n <= l /\ n <= n /\ n \in Nat /\ l - 1 = n /\ l > 1 /\ n \in 1..n
        /\ (\A d \in (n + 1)..n : FALSE) /\ \A d \in (n + 1)..l : d = l
    BY <1>2
  <2>6. InPlace(l)'
    <3>1. Under(l, {"LAlloc"})'
      <4>1. Frame(l - 1)' = Frame(n)
        BY <2>4, <2>5
      <4> QED
        BY <1>2, <2>5, <4>1 DEF Under
    <3>2. SpillingReloc(l)'
      BY <1>1, <2>2, <2>3, <2>4, <3>1 DEF SpillingReloc
    <3> QED
      BY <2>3, <2>4, <3>2, ThenInPlace
  <2>7. \A d \in (n + 1)..l : /\ Frame(d)'.fn \notin {"AllocHugeNode", "SwapOutVirt"}
                              /\ InPlace(d)'
    BY <2>3, <2>4, <2>5, <2>6
  <2>8. status' \in {"run", "fatal", "overflow"} /\ (status' # "overflow" => Len(stack') <= MaxDepth)
    <3>1. status' = IF Len(stack') > MaxDepth THEN "overflow" ELSE status
      BY <2>1 DEF Call
    <3>2. Len(stack') \in Nat /\ MaxDepth \in Nat
      BY <2>4, Constants
    <3> QED
      BY <1>2, <3>1, <3>2
  <2>9. ret' = 0
    BY <1>2, <1>4
  <2> QED
    BY <1>1, <2>4, <2>5, <2>7, <2>8, <2>9, ListEmptied
<1>5. CASE Top.use = "page" /\ ret' = 0 /\ Pop /\ UNCHANGED status
  <2> SUFFICES ASSUME NEW l, l = n - 1 PROVE IInv' /\ CellsKept
    OBVIOUS
  <2>1. stack' \in Seq(Frames) /\ Depth' = l /\ \A d \in 1..l : Frame(d)' = Frame(d)
    BY <1>2, <1>5, Returned DEF Pop
  <2>2. l \in Nat /\ l <= l /\ l <= n /\ (\A d \in (l + 1)..l : FALSE) /\ \A d \in (l + 1)..n : d = n
    BY <1>2
  <2>3. \A d \in (l + 1)..n : Frame(d).fn \notin {"AllocHugeNode", "SwapOutVirt"}
    BY <1>2, <2>2
  <2>4. status' \in {"run", "fatal", "overflow"} /\ (status' # "overflow" => Len(stack') <= MaxDepth)
    <3>1. Len(stack') = l /\ Len(stack) = n /\ MaxDepth \in Nat
      BY <2>1, Constants DEF Depth
    <3> QED
      BY <1>2, <1>3, <1>5, <2>2, <3>1
  <2> QED
    BY <1>1, <1>5, <2>1, <2>2, <2>3, <2>4, ListEmptied
<1>6. CASE status' = "fatal" /\ UNCHANGED <<stack, ret>>
  <2>1. /\ stack' \in Seq(Frames) /\ Depth' = n /\ (\A d \in 1..n : Frame(d)' = Frame(d))
        /\ n \in Nat /\ n <= n /\ (\A d \in (n + 1)..n : FALSE) /\ ret' = 0
    BY <1>2, <1>6 DEF Depth, Frame
  <2>2. status' \in {"run", "fatal", "overflow"} /\ (status' # "overflow" => Len(stack') <= MaxDepth)
    BY <1>3, <1>6
  <2> QED
    BY <1>1, <2>1, <2>2, ListEmptied
<1> QED
  BY <1>4, <1>5, <1>6 DEF SwapOutRelocs
(* Once the file is open nothing is on the stack above a function that      *)
(* moves memory to it.                                                      *)
LEMMA OneMover ==
    ASSUME IInv, TempFile, NEW n, n = Depth, NEW d \in 1..(n - 1)
    PROVE  Frame(d).fn \notin Movers
<1>1. stack \in Seq(Frames) /\ \A e \in 1..Depth : InPlace(e)
  BY DEF IInv, Control, Kinds, Calls
<1>2. n \in Nat /\ \A e \in 1..n : Frame(e) \in Frames /\ InPlace(e)
  BY <1>1, FramesAre
<1> SUFFICES ASSUME NEW e, e = d + 1, Frame(d).fn \in Movers PROVE FALSE
  OBVIOUS
<1>3. e \in 1..n /\ e - 1 = d /\ e > 1 /\ d \in 1..n
  BY <1>2
<1>4. Frame(e).fn # "ScanNodes" /\ Frame(e).fn # "AllocRelocInfo"
  BY <1>2, <1>3 DEF InPlace, Scanning, AddingReloc
<1>5. Frame(e).fn # "AllocNode" /\ Frame(e).fn # "AllocHugeNode"
  <2>1. CASE Frame(e).fn = "AllocNode"
    <3>1. e = 2 /\ Frame(1).fn = "ScanNodes"
      BY <1>2, <1>3, <2>1 DEF InPlace, AddingNode
    <3>2. d = 1
      BY <1>3, <3>1
    <3> QED
      BY <3>1, <3>2 DEF Movers
  <2>2. CASE Frame(e).fn = "AllocHugeNode"
    <3>1. e = 2 /\ Frame(1).fn = "ScanNodes"
      BY <1>2, <1>3, <2>2 DEF InPlace, AddingHuge
    <3>2. d = 1
      BY <1>3, <3>1
    <3> QED
      BY <3>1, <3>2 DEF Movers
  <2> QED
    BY <2>1, <2>2
<1>6. Frame(e).fn # "SwapOutVirt" /\ Frame(e).fn # "SpillRelocList"
  BY <1>2, <1>3 DEF InPlace, SwappingNode, SpillingReloc, Under, Movers
<1>7. Frame(e).fn # "LAlloc"
  <2> SUFFICES ASSUME Frame(e).fn = "LAlloc" PROVE FALSE
    OBVIOUS
  <2>1. Asking(e) /\ Frame(e).use \in {"page", "name", "other"}
    BY <1>2, <1>3, FrameKinds DEF InPlace
  <2> QED
    BY <1>3, <2>1 DEF Asking, Under, Movers, Askers
<1> QED
  BY <1>2, <1>3, <1>4, <1>5, <1>6, <1>7, FrameKinds

(* free() of a block. *)
LEMMA BlockFreed ==
    ASSUME TypeOK, Kinds, Accounted, NEW b \in DOMAIN ram, ram' = Without(ram, b),
           room' = room + Len(ram[b]), UNCHANGED <<cache, other, TempFile>>
    PROVE  /\ Accounted' /\ room' \in 0..HeapCells
           /\ ram' = [c \in DOMAIN ram' |-> ram'[c]] /\ DOMAIN ram' \subseteq Nat \ {0}
           /\ IsFiniteSet(DOMAIN ram') /\ IsFiniteSet(CellsIn(ram'))
           /\ \A c \in DOMAIN ram' : ram'[c] \in Seq(Int)
<1>1. /\ room \in 0..HeapCells /\ cache \in 0..CacheBlocks /\ other \in 0..MaxOther
      /\ \A c \in DOMAIN ram : ram[c] \in Seq(Int)
      /\ DOMAIN ram \subseteq Nat \ {0} /\ IsFiniteSet(DOMAIN ram) /\ IsFiniteSet(CellsIn(ram))
  BY DEF TypeOK, Kinds
<1>2. room \in Nat /\ cache \in Nat /\ other \in Nat
  BY <1>1, Constants
<1> SUFFICES ASSUME NEW x, x = Len(ram[b])
             PROVE  /\ Accounted' /\ room' \in 0..HeapCells
                    /\ ram' = [c \in DOMAIN ram' |-> ram'[c]] /\ DOMAIN ram' \subseteq Nat \ {0}
                    /\ IsFiniteSet(DOMAIN ram') /\ IsFiniteSet(CellsIn(ram'))
                    /\ \A c \in DOMAIN ram' : ram'[c] \in Seq(Int)
  OBVIOUS
<1>3. x \in Nat /\ room' = room + x /\ room' \in Nat
  BY <1>1, <1>2
<1>4. /\ IsFiniteSet(CellsIn(ram')) /\ Cardinality(CellsIn(ram')) \in Nat
      /\ Cardinality(CellsIn(ram)) = Cardinality(CellsIn(ram')) + x
  <2>1. Len(ram[b]) \in Nat /\ IsFiniteSet(CellsIn(ram))
    BY <1>1, <1>3
  <2>2. /\ IsFiniteSet(CellsIn(Without(ram, b))) /\ Cardinality(CellsIn(Without(ram, b))) \in Nat
        /\ Cardinality(CellsIn(ram)) = Cardinality(CellsIn(Without(ram, b))) + Len(ram[b])
    BY <2>1, CellsFreed, Zenon
  <2>3. CellsIn(ram') = CellsIn(Without(ram, b))
    OBVIOUS
  <2> QED
    BY <2>2, <2>3
<1>5. Accounted'
  <2> SUFFICES ASSUME NEW z, z = -x PROVE Accounted'
    OBVIOUS
  <2>1. /\ cache' = cache + 0 /\ other' = other + 0 /\ x \in Int /\ 0 \in Int /\ z \in Int
        /\ x + 0 + 0 + 0 + z = 0
        /\ Cardinality(CellsIn(ram')) = Cardinality(CellsIn(ram)) + z
    BY <1>2, <1>3, <1>4
  <2>2. (IF TempFile' THEN NameCells ELSE 0) = (IF TempFile THEN NameCells ELSE 0) + 0
    BY Constants
  <2> QED
    BY <1>1, <1>2, <1>3, <2>1, <2>2, AccountThen
<1>6. room' \in 0..HeapCells
  <2>1. cache' \in Nat /\ other' \in Nat
    BY <1>2
  <2>2. room' <= HeapCells
    BY <1>3, <1>4, <1>5, <2>1, RoomThenIs
  <2> QED
    BY <1>3, <2>2, Constants
<1>7. DOMAIN ram' = DOMAIN ram \ {b} /\ \A c \in DOMAIN ram' : ram'[c] = ram[c]
  BY WithoutIs
<1>8. ram' = [c \in DOMAIN ram' |-> ram'[c]]
  BY DEF Without
<1>9. IsFiniteSet(DOMAIN ram')
  BY <1>1, <1>7, FS_RemoveElement
<1> QED
  BY <1>1, <1>4, <1>5, <1>6, <1>7, <1>8, <1>9

LEMMA SwapListSame ==
    ASSUME SwapList, NextSwap' = NextSwap, Len(SegTab') = Len(SegTab),
           NextSwap \in Seq(1..Len(SegTab)),
           \A k \in 1..Len(SegTab) : /\ SegTab'[k].inmem <=> SegTab[k].inmem
                                     /\ SegTab'[k].loc = 0 <=> SegTab[k].loc = 0
    PROVE  SwapList'
<1>1. \A i \in 1..Len(NextSwap) : NextSwap[i] \in 1..Len(SegTab)
  OBVIOUS
<1> QED
  BY <1>1 DEF SwapList, SwapListExact

(* What the functions below find when memory was moved to the file. *)
LEMMA MoverReturns ==
    ASSUME IInv, NEW fn \in Movers, Active(fn), TempFile, NEW n, n = Depth,
           stack' = Tail(stack), UNCHANGED <<HugeTab, owned, other, TempFile, ret>>,
           Len(SegTab') = Len(SegTab),
           \A k \in 1..Len(SegTab) : /\ SegTab'[k].size = SegTab[k].size
                                     /\ SegTab'[k].loc = 0 <=> SegTab[k].loc = 0
                                     /\ SegTab'[k].inmem => SegTab[k].inmem,
           Len(relocs') = Len(relocs), RelocLeft' = RelocLeft
    PROVE  /\ stack' \in Seq(Frames) /\ Calls' /\ ret = 0 /\ n \in Nat \ {0} /\ Depth' = n - 1
           /\ \A d \in 1..(n - 1) : Frame(d)' = Frame(d) /\ Frame(d).fn \notin Movers
           /\ \A p, s : Unplaced(p, s)' <=> Unplaced(p, s)
           /\ \A j : j \notin Leaving'
<1> SUFFICES ASSUME NEW l, l = n - 1
             PROVE  /\ stack' \in Seq(Frames) /\ Calls' /\ ret = 0 /\ n \in Nat \ {0} /\ Depth' = l
                    /\ \A d \in 1..l : Frame(d)' = Frame(d) /\ Frame(d).fn \notin Movers
                    /\ \A p, s : Unplaced(p, s)' <=> Unplaced(p, s)
                    /\ \A j : j \notin Leaving'
  OBVIOUS
<1>1. /\ stack # <<>> /\ stack \in Seq(Frames)
      /\ n \in Nat \ {0} /\ Frame(n) = Top /\ Top.fn = fn /\ Top.fn \in Movers /\ Calls
  BY ActiveAt DEF IInv, Control
<1>2. Frame(n).fn \notin Askers \union {"AllocHugeNode", "LAlloc"}
  BY <1>1 DEF Movers, Askers
<1>3. ret = 0
  BY <1>1, TopAt DEF Movers, Askers
<1>4. /\ stack' \in Seq(Frames) /\ Depth' = l /\ \A d \in 1..l : Frame(d)' = Frame(d)
  BY <1>1, Returned
<1>5. /\ l \in Nat /\ l <= l /\ l <= n /\ n \in Nat /\ l \in 0..n
      /\ (\A d \in (l + 1)..n : d = n) /\ (\A d \in (l + 1)..l : FALSE)
      /\ \A d \in 1..l : d \in 1..n
  BY <1>1
<1>6. \A d \in 1..l : Frame(d).fn \notin Movers
  BY OneMover
<1>7. Quiet(l, l)
  <2>1. \A d \in 1..n : Frame(d).fn = "AllocHugeNode" => Frame(d).nomem = FALSE
    BY <1>1, <1>2, NoneWithoutMemory
  <2>2. ASSUME NEW d \in 1..l, Frame(d).fn = "LAlloc"
        PROVE  Frame(d).use # "name"
    <3>1. Asking(d)
      BY <1>1, <1>5, <2>2 DEF Calls, InPlace
    <3> QED
      BY <2>2, <3>1 DEF Asking
  <2>3. \A d \in 1..l : Frame(d).fn # "SpillRelocList"
    BY <1>6 DEF Movers
  <2> QED
    BY <1>3, <1>4, <1>5, <2>1, <2>2, <2>3 DEF Quiet
<1>8. Calls'
  <2>1. \A d \in 1..l : InPlace(d)'
    BY <1>1, <1>4, <1>5, <1>7, CallsKept
  <2>2. Distinct'
    BY <1>1, <1>4, <1>5, DistinctKept DEF Calls
  <2>3. InHand'
    BY <1>3 DEF InHand
  <2> QED
    BY <1>4, <2>1, <2>2, <2>3 DEF Calls
<1>9. \A p, s : Unplaced(p, s)' <=> Unplaced(p, s)
  BY <1>2, <1>4, <1>5, UnplacedKept
<1>10. ASSUME NEW j, j \in Leaving' PROVE FALSE
  <2>1. PICK d \in 1..Depth' : Frame(d)'.fn = "SwapOutVirt"
    BY <1>4, <1>10, LeavingThenIs
  <2> QED
    BY <1>4, <1>6, <2>1 DEF Movers
<1> QED
  BY <1>1, <1>3, <1>4, <1>6, <1>8, <1>9, <1>10
(* A place moves from a block to the end of the file. *)
MovesTo(P, r, o, d, Q, s, g) ==
    /\ P = [q \in DOMAIN P |-> P[q]]
    /\ Q = [P EXCEPT ![o] = InFile(SpillBase, P[o].size)] /\ s = Without(r, P[o].loc)
    /\ g = Written(Spilled(P[o].size), SpillBase, 0, d)

LEMMA MovesThus ==
    ASSUME NEW P, NEW r, Memory(P, r, spill),
           NEW o \in DOMAIN P, P[o].where = "ram", NEW d \in Seq(Int), Len(d) <= P[o].size,
           NEW Q, NEW s, NEW g, MovesTo(P, r, o, d, Q, s, g)
    PROVE  InFileNow(P, r, o, d, Q, s, g)
<1>1. Q = With(P, o, InFile(SpillBase, P[o].size))
  BY DEF MovesTo, With
<1>2. s = Without(r, P[o].loc)
  BY DEF MovesTo
<1>3. g = Written(Spilled(P[o].size), SpillBase, 0, d)
  BY DEF MovesTo
<1> QED
  BY <1>1, <1>2, <1>3, PlaceMoves, Zenon

LEMMA MovedToFile ==
    ASSUME Memory(Places, ram, spill), NEW o \in DOMAIN Places, Places[o].where = "ram",
           NEW d \in Seq(Int), Len(d) <= Places[o].size,
           MovesTo(Places, ram, o, d, Places', ram', spill')
    PROVE  /\ Memory(Places', ram', spill')
           /\ SameValues(DOMAIN Places \ {o}, Places, ram, spill, Places', ram', spill')
           /\ FirstCells(Places', ram', spill', o, d) /\ DOMAIN Places' = DOMAIN Places
           /\ Places'[o].size = Places[o].size
<1>1. InFileNow(Places, ram, o, d, Places', ram', spill')
  BY MovesThus
<1> QED
  BY <1>1 DEF InFileNow

LEMMA NodeLeft ==
    ASSUME IInv, Active("SwapOutVirt"), TempFile, NEW k, k = Top.node,
           SegTab' = [SegTab EXCEPT ![k].loc = SpillBase],
           spill' = Written(Spilled(SegTab[k].size), SpillBase, 0, ram[SegTab[k].loc]),
           ram' = Without(ram, SegTab[k].loc), room' = room + Len(ram[SegTab[k].loc]), Pop,
           UNCHANGED <<HugeTab, NextSwap, tiny, owned, relocs, cache, other, TempFile, ret, status>>
    PROVE  IInv' /\ CellsKept
<1>1. /\ TypeOK /\ Kinds /\ Storage /\ Calls /\ HugePages /\ SwapList
      /\ Accounted /\ Data
  BY IInvIs DEF Control
<1> SUFFICES ASSUME NEW n, n = Depth PROVE IInv' /\ CellsKept
  OBVIOUS
<1>2. /\ stack # <<>> /\ stack \in Seq(Frames) /\ status = "run" /\ stack' = Tail(stack)
      /\ n \in Nat \ {0} /\ n \in 1..n /\ Frame(n) = Top /\ Top.fn = "SwapOutVirt" /\ InPlace(n)
  BY ActiveAt DEF Pop
<1>3. /\ k \in 1..Len(SegTab) /\ SegTab[k].loc # 0 /\ ~SegTab[k].inmem
      /\ SegTab[k] \in NodeSet /\ k \in Nat /\ SegTab[k].size \in Nat \ {0} /\ SegTab[k].loc \in Nat
  <2>1. k \in 1..Len(SegTab) /\ SegTab[k].loc # 0 /\ ~SegTab[k].inmem
    BY <1>2 DEF InPlace, SwappingNode
  <2>2. SegTab[k] \in NodeSet /\ k \in Nat /\ SegTab[k].size \in 1..NodeCells /\ SegTab[k].loc \in Nat
    BY <1>1, <2>1, TypesAre
  <2> QED
    BY <2>1, <2>2, SizeNumbers
<1>4. k \in Leaving
  BY <1>2, LeavingIs
<1>5. SpillBase \in Nat /\ SpillBase # 0
  <2>1. spill \in Seq(Int) /\ Len(spill) \in Nat
    BY <1>1 DEF TypeOK
  <2>2. SpillBase \in Nat /\ SpillBase > Len(spill)
    BY <1>3, <2>1, SpilledIs
  <2> QED
    BY <2>1, <2>2
<1>6. PICK h \in NodeSet : /\ h.size = SegTab[k].size /\ h.loc = SpillBase /\ h.inmem = SegTab[k].inmem
                           /\ SegTab' = [SegTab EXCEPT ![k] = h]
  <2>1. /\ [SegTab[k] EXCEPT !.loc = SpillBase] \in NodeSet
        /\ [SegTab[k] EXCEPT !.loc = SpillBase].size = SegTab[k].size
        /\ [SegTab[k] EXCEPT !.loc = SpillBase].inmem = SegTab[k].inmem
        /\ [SegTab[k] EXCEPT !.loc = SpillBase].loc = SpillBase
    BY <1>3, <1>5 DEF NodeSet
  <2>2. SegTab' = [SegTab EXCEPT ![k] = [SegTab[k] EXCEPT !.loc = SpillBase]]
    BY <1>3
  <2> QED
    BY <2>1, <2>2
<1>7. /\ Len(SegTab') = Len(SegTab) /\ SegTab'[k] = h
      /\ \A j \in 1..Len(SegTab) : j # k => SegTab'[j] = SegTab[j]
  <2>1. SegTab \in Seq(NodeSet)
    BY <1>1, TypesAre
  <2>2. SegTab' = [SegTab EXCEPT ![k] = h]
    BY <1>6
  <2> QED
    BY <1>3, <2>1, <2>2, ItemSet
<1>8. \A j \in 1..Len(SegTab) : /\ SegTab'[j].size = SegTab[j].size
                                /\ SegTab'[j].loc = 0 <=> SegTab[j].loc = 0
                                /\ SegTab'[j].inmem <=> SegTab[j].inmem
  BY <1>3, <1>5, <1>6, <1>7
<1>9. /\ stack' \in Seq(Frames) /\ Calls' /\ ret = 0 /\ Depth' = n - 1
      /\ \A d \in 1..(n - 1) : Frame(d)' = Frame(d) /\ Frame(d).fn \notin Movers
      /\ \A p, s : Unplaced(p, s)' <=> Unplaced(p, s)
      /\ \A j : j \notin Leaving'
  <2>1. RelocLeft' = RelocLeft
    BY DEF RelocLeft
  <2>2. "SwapOutVirt" \in Movers
    BY DEF Movers
  <2> QED
    BY <1>2, <1>7, <1>8, <2>1, <2>2, MoverReturns
<1>10. \A j : j \in Leaving <=> j = k
  <2> SUFFICES ASSUME NEW j, j \in Leaving PROVE j = k
    BY <1>4
  <2>1. PICK d \in 1..n : Frame(d).fn = "SwapOutVirt" /\ Frame(d).node = j
    BY <1>2, LeavingIs
  <2>2. d = n
    BY <1>2, <1>9, <2>1 DEF Movers
  <2> QED
    BY <1>2, <2>1, <2>2
<1> SUFFICES ASSUME NEW o, o = NodeNo(k), NEW b, b = SegTab[k].loc, NEW z, z = SegTab[k].size
             PROVE  IInv' /\ CellsKept
  OBVIOUS
<1>11. o \in DOMAIN Places /\ Places[o] = InRam(b, z) /\ o \in Owners /\ HasPlace(o)
  BY <1>3, <1>4, NodePlace, PlacesAre
<1>12. HasPlace(o)' /\ PlaceOf(o)' = InFile(SpillBase, z)
  <2>1. o.kind = "node" /\ o.no = k /\ o.sub = 0
    BY DEF NodeNo
  <2>2. k \in 1..Len(SegTab')
    BY <1>3, <1>7
  <2>3. HasPlace(o)'
    BY <1>5, <1>6, <1>7, <2>1, <2>2 DEF HasPlace
  <2>4. ~(SegTab'[k].inmem \/ k \in Leaving')
    BY <1>3, <1>6, <1>7, <1>9
  <2>5. SegTab'[k].loc = SpillBase /\ SegTab'[k].size = z
    BY <1>6, <1>7
  <2> QED
    BY <2>1, <2>3, <2>4, <2>5 DEF PlaceOf
<1>13. \A q \in Owners \ {o} : SamePlace(q)
  <2> SUFFICES ASSUME NEW q \in Owners, q # o PROVE SamePlace(q)
    OBVIOUS
  <2>1. CASE q.kind = "node" /\ q.sub # 0
    BY <2>1 DEF SamePlace, HasPlace
  <2>2. CASE q.kind = "node" /\ q.sub = 0
    <3>1. q.no # k
      BY <2>2, OwnersAre DEF NodeNo
    <3>2. q.no \notin Leaving /\ q.no \notin Leaving'
      BY <1>9, <1>10, <3>1
    <3> QED
      BY <1>7, <2>2, <3>1, <3>2, NodeSame
  <2>3. CASE q.kind = "huge"
    BY <2>3, HugeSame
  <2>4. CASE q.kind = "reloc"
    BY <2>4, RelocSame DEF RelocAt
  <2>5. CASE q.kind = "new"
    BY <1>9, <2>5, NewSame
  <2> QED
    BY <2>1, <2>2, <2>3, <2>4, <2>5, OwnersAre
<1>14. Places' = [Places EXCEPT ![o] = InFile(SpillBase, z)]
  BY <1>11, <1>12, <1>13, PlaceMoved
<1>15. Places[o].where = "ram" /\ Places[o].loc = b /\ Places[o].size = z
  BY <1>11 DEF InRam
<1>16. /\ Memory(Places, ram, spill) /\ b \in DOMAIN ram /\ Len(ram[b]) = z /\ ram[b] \in Seq(Int)
  BY <1>1, <1>11, <1>15 DEF Data, Memory, Housed, Typed
<1>17. /\ Memory(Places', ram', spill') /\ DOMAIN Places' = DOMAIN Places
       /\ SameValues(DOMAIN Places, Places, ram, spill, Places', ram', spill')
  <2> SUFFICES ASSUME NEW d, d = ram[b]
               PROVE  /\ Memory(Places', ram', spill') /\ DOMAIN Places' = DOMAIN Places
                      /\ SameValues(DOMAIN Places, Places, ram, spill, Places', ram', spill')
    OBVIOUS
  <2>1. d \in Seq(Int) /\ Len(d) <= Places[o].size /\ Len(d) = z
    BY <1>3, <1>15, <1>16
  <2>2. Places' = [Places EXCEPT ![o] = InFile(SpillBase, Places[o].size)]
    BY <1>14, <1>15
  <2>3. MovesTo(Places, ram, o, d, Places', ram', spill')
    BY <1>15, <2>2 DEF MovesTo, Places
  <2>4. /\ Memory(Places', ram', spill')
        /\ SameValues(DOMAIN Places \ {o}, Places, ram, spill, Places', ram', spill')
        /\ FirstCells(Places', ram', spill', o, d) /\ DOMAIN Places' = DOMAIN Places
        /\ Places'[o].size = Places[o].size
    BY <1>11, <1>15, <1>16, <2>1, <2>3, MovedToFile
  <2>5. \A j \in 1..Places[o].size : Value(Places', ram', spill', o, j) = Value(Places, ram, spill, o, j)
    <3> SUFFICES ASSUME NEW j \in 1..Places[o].size
                 PROVE  Value(Places', ram', spill', o, j) = Value(Places, ram, spill, o, j)
      OBVIOUS
    <3>1. Value(Places', ram', spill', o, j) = d[j]
      BY <1>15, <2>1, <2>4 DEF FirstCells
    <3>2. Value(Places, ram, spill, o, j) = ram[Places[o].loc][j]
      BY <1>15 DEF Value
    <3> QED
      BY <1>15, <3>1, <3>2
  <2> QED
    BY <2>4, <2>5, ZenonT(40) DEF SameValues
<1>18. /\ Accounted' /\ room' \in 0..HeapCells
       /\ ram' = [c \in DOMAIN ram' |-> ram'[c]] /\ DOMAIN ram' \subseteq Nat \ {0}
       /\ IsFiniteSet(DOMAIN ram') /\ IsFiniteSet(CellsIn(ram'))
       /\ \A c \in DOMAIN ram' : ram'[c] \in Seq(Int)
  BY <1>1, <1>16, BlockFreed, SMTT(30)
<1>19. TypeOK' /\ Storage'
  <2>1. Len(stack') <= MaxDepth
    <3>1. Len(stack) <= MaxDepth /\ MaxDepth \in Nat
      BY <1>1, <1>2, Constants DEF TypeOK
    <3>2. Len(stack') = n - 1 /\ Len(stack) = n
      BY <1>9 DEF Depth
    <3> QED
      BY <1>2, <3>1, <3>2
  <2>2. /\ cache' \in 0..CacheBlocks /\ other' \in 0..MaxOther /\ TempFile' \in BOOLEAN
        /\ ret' \in Nat /\ status' \in {"run", "fatal", "overflow"} /\ NextSwap' \in Seq(1..Len(SegTab))
    BY <1>1 DEF TypeOK
  <2>3. spill' \in Seq(Int)
    BY <1>17 DEF Memory, Typed
  <2>4. SegTab' = [SegTab EXCEPT ![k] = h] /\ h.size = SegTab[k].size
    BY <1>6
  <2> QED
    BY <1>1, <1>3, <1>18, <2>1, <2>2, <2>3, <2>4, NodeTabStep
<1>20. Kinds'
  BY <1>1, <1>7, <1>9, <1>18 DEF Kinds, CellsIn, Frames
<1>21. HugePages'
  BY <1>1, <1>9, HugePagesKept
<1>22. SwapList'
  BY <1>1, <1>7, <1>8, SwapListSame, TypesAre
<1>23. Data' /\ CellsKept
  <2>1. Len(relocs') = Len(relocs) /\ \A j \in 1..Len(relocs) : RelocAt(j)'.left = RelocAt(j).left
    BY DEF RelocAt
  <2>2. \A q \in DOMAIN Places' \ DOMAIN Places : FALSE
    BY <1>17
  <2>3. ret' = 0
    BY <1>9
  <2> QED
    BY <1>1, <1>17, <2>1, <2>2, <2>3, DataKept
<1> QED
  BY <1>9, <1>18, <1>19, <1>20, <1>21, <1>22, <1>23 DEF IInv, Control, Data

LEMMA SwapOutNodeStep ==
    ASSUME IInv, SwapOutNode
    PROVE  IInv' /\ CellsKept
<1>1. Active("SwapOutVirt") /\ "SwapOutVirt" \in Movers
  BY DEF SwapOutNode, Movers
<1>2. CASE OpenFirst
  <2>1. stack # <<>> /\ Top.fn \in Movers /\ ret = 0
    BY <1>1, TopAt DEF Active, Movers, Askers
  <2> QED
    BY <1>2, <2>1, OpenFirstStep
<1>3. CASE ~OpenFirst
  BY <1>1, <1>3, NodeLeft DEF SwapOutNode
<1> QED
  BY <1>2, <1>3
(* SpillRelocList changes one block of the list, and not how full it is. *)
SpilledAt(i, a) == relocs' = [relocs EXCEPT ![i].spilled = TRUE, ![i].loc = a]

Moved(i, m, a) ==
    /\ relocs' \in Seq(RelocSet) /\ Len(relocs') = Len(relocs) /\ RelocLeft' = RelocLeft
    /\ m \in 1..Len(relocs) /\ RelocAt(m) = relocs[i] /\ RelocAt(m)' = relocs'[i]
    /\ relocs'[i].spilled = TRUE /\ relocs'[i].loc = a
    /\ \A j \in 1..Len(relocs) : relocs'[j].left = relocs[j].left
    /\ \A n \in 1..Len(relocs) : /\ RelocAt(n)'.left = RelocAt(n).left
                                 /\ n # m => RelocAt(n)' = RelocAt(n)

LEMMA BlockMoved ==
    ASSUME TypeOK, NEW i \in 1..Len(relocs), NEW a \in Nat,
           SpilledAt(i, a)
    PROVE  \E m \in Nat : Moved(i, m, a)
<1>0. PICK m \in Nat : m = Len(relocs) + 1 - i
  <2>1. Len(relocs) \in Nat
    BY TypesAre
  <2>2. Len(relocs) + 1 - i \in Nat
    BY <2>1
  <2> QED
    BY <2>2
<1>1. relocs \in Seq(RelocSet) /\ Len(relocs) \in Nat /\ i \in Nat /\ relocs[i] \in RelocSet
  BY TypesAre
<1>2. PICK h \in RelocSet : /\ h.left = relocs[i].left /\ h.spilled = TRUE /\ h.loc = a
                            /\ relocs' = [relocs EXCEPT ![i] = h]
  <2>1. /\ [relocs[i] EXCEPT !.spilled = TRUE, !.loc = a] \in RelocSet
        /\ [relocs[i] EXCEPT !.spilled = TRUE, !.loc = a].left = relocs[i].left
        /\ [relocs[i] EXCEPT !.spilled = TRUE, !.loc = a].spilled = TRUE
        /\ [relocs[i] EXCEPT !.spilled = TRUE, !.loc = a].loc = a
    BY <1>1 DEF RelocSet
  <2>2. relocs' = [relocs EXCEPT ![i] = [relocs[i] EXCEPT !.spilled = TRUE, !.loc = a]]
    BY <1>1 DEF SpilledAt
  <2> QED
    BY <2>1, <2>2
<1>3. /\ relocs' \in Seq(RelocSet) /\ Len(relocs') = Len(relocs) /\ relocs'[i] = h
      /\ \A j \in 1..Len(relocs) : j # i => relocs'[j] = relocs[j]
  <2>1. relocs' = [relocs EXCEPT ![i] = h]
    BY <1>2
  <2>2. relocs \in Seq(RelocSet)
    BY <1>1
  <2> QED
    BY <2>1, <2>2, ItemSet
<1>4. \A j \in 1..Len(relocs) : relocs'[j].left = relocs[j].left
  BY <1>2, <1>3
<1>5. RelocLeft' = RelocLeft
  <2>1. CASE relocs = <<>>
    BY <1>1, <2>1
  <2>2. CASE relocs # <<>>
    <3>1. relocs' # <<>> /\ 1 \in 1..Len(relocs)
      BY <1>1, <1>3, <2>2
    <3> QED
      BY <1>4, <2>2, <3>1 DEF RelocLeft
  <2> QED
    BY <2>1, <2>2
<1>6. m \in 1..Len(relocs) /\ Len(relocs) + 1 - m = i /\ m \in Nat
  BY <1>0, <1>1
<1>7. RelocAt(m) = relocs[i] /\ RelocAt(m)' = relocs'[i]
  BY <1>3, <1>6 DEF RelocAt
<1>8. ASSUME NEW n \in 1..Len(relocs)
      PROVE  RelocAt(n)'.left = RelocAt(n).left /\ (n # m => RelocAt(n)' = RelocAt(n))
  <2>1. Len(relocs) + 1 - n \in 1..Len(relocs) /\ (n # m => Len(relocs) + 1 - n # i)
    BY <1>0, <1>1
  <2> QED
    BY <1>3, <1>4, <2>1 DEF RelocAt
<1> QED
  <2>1. Moved(i, m, a)
    BY <1>2, <1>3, <1>4, <1>5, <1>6, <1>7, <1>8 DEF Moved
  <2> QED
    BY <2>1

(* What is written of it: the part in use. *)
LEMMA UsedPartIs ==
    ASSUME NEW b \in RelocSet, ram[b.loc] \in Seq(Int), Len(ram[b.loc]) = RelocCells
    PROVE  /\ UsedPart(b) \in Seq(Int) /\ Len(UsedPart(b)) = RelocCells - b.left
           /\ RelocCells - b.left \in 0..RelocCells
           /\ \A j \in 1..(RelocCells - b.left) : UsedPart(b)[j] = ram[b.loc][j]
<1> SUFFICES ASSUME NEW s \in Seq(Int), s = ram[b.loc], NEW m \in Int, NEW n \in Int, m = 1, n = RelocCells - b.left
             PROVE  /\ UsedPart(b) \in Seq(Int) /\ Len(UsedPart(b)) = n
                    /\ n \in 0..RelocCells /\ \A j \in 1..n : UsedPart(b)[j] = s[j]
  BY Constants DEF RelocSet
<1>1. n \in 0..RelocCells
  BY Constants DEF RelocSet
<1>2. UsedPart(b) = SubSeq(s, m, n)
  BY DEF UsedPart
<1>3. /\ SubSeq(s, m, n) \in Seq(Int)
      /\ Len(SubSeq(s, m, n)) = n
      /\ \A j \in 1..n : SubSeq(s, m, n)[j] = s[j]
  BY <1>1, SubSeqProperties
<1> QED
  BY <1>1, <1>2, <1>3

LEMMA BlockLeft ==
    ASSUME IInv, Active("SpillRelocList"), TempFile, NEW i, i = Top.block,
           spill' = Written(Spilled(RelocCells), SpillBase, 0, UsedPart(relocs[i])),
           SpilledAt(i, SpillBase),
           ram' = Without(ram, relocs[i].loc), room' = room + Len(ram[relocs[i].loc]), Pop,
           UNCHANGED <<pages, cache, other, TempFile, ret, status>>
    PROVE  IInv' /\ CellsKept
<1>1. /\ TypeOK /\ Kinds /\ Storage /\ Calls /\ HugePages /\ SwapList
      /\ Accounted /\ Data
  BY IInvIs DEF Control
<1> SUFFICES ASSUME NEW n, n = Depth PROVE IInv' /\ CellsKept
  OBVIOUS
<1>2. /\ stack # <<>> /\ stack \in Seq(Frames) /\ status = "run" /\ stack' = Tail(stack)
      /\ n \in Nat \ {0} /\ n \in 1..n /\ Frame(n) = Top /\ Top.fn = "SpillRelocList" /\ InPlace(n)
  BY ActiveAt DEF Pop
<1>3. i \in 1..Len(relocs) /\ ~relocs[i].spilled
  BY <1>2 DEF InPlace, SpillingReloc
<1>4. /\ relocs[i] \in RelocSet /\ Len(relocs) \in Nat /\ relocs[i].loc \in Nat
      /\ relocs[i].left \in 0..RelocCells
  BY <1>1, <1>3, TypesAre
<1>5. SpillBase \in Nat
  <2>1. spill \in Seq(Int) /\ RelocCells \in Nat \ {0}
    BY <1>1, Constants DEF TypeOK
  <2> QED
    BY <2>1, SpilledIs
<1>6. PICK m \in Nat :
      /\ relocs' \in Seq(RelocSet) /\ Len(relocs') = Len(relocs) /\ RelocLeft' = RelocLeft
      /\ m \in 1..Len(relocs) /\ RelocAt(m) = relocs[i] /\ RelocAt(m)' = relocs'[i]
      /\ relocs'[i].spilled = TRUE /\ relocs'[i].loc = SpillBase
      /\ \A j \in 1..Len(relocs) : relocs'[j].left = relocs[j].left
      /\ \A q \in 1..Len(relocs) : /\ RelocAt(q)'.left = RelocAt(q).left
                                   /\ q # m => RelocAt(q)' = RelocAt(q)
  BY <1>1, <1>3, <1>5, BlockMoved, ZenonT(40) DEF Moved
<1> SUFFICES ASSUME NEW o, o = RelocNo(m) PROVE IInv' /\ CellsKept
  OBVIOUS
<1>7. /\ stack' \in Seq(Frames) /\ Calls' /\ ret = 0 /\ Depth' = n - 1
      /\ \A d \in 1..(n - 1) : Frame(d)' = Frame(d) /\ Frame(d).fn \notin Movers
      /\ \A p, s : Unplaced(p, s)' <=> Unplaced(p, s)
      /\ \A j : j \notin Leaving'
  <2>1. "SpillRelocList" \in Movers
    BY DEF Movers
  <2>2. SegTab' = SegTab /\ HugeTab' = HugeTab /\ owned' = owned
    BY DEF pages
  <2> QED
    BY <1>2, <1>6, <2>1, <2>2, MoverReturns
<1>8. \A j : j \notin Leaving
  <2> SUFFICES ASSUME NEW j, j \in Leaving PROVE FALSE
    OBVIOUS
  <2>1. PICK d \in 1..n : Frame(d).fn = "SwapOutVirt"
    BY <1>2, LeavingIs
  <2>2. d = n
    BY <1>2, <1>7, <2>1 DEF Movers
  <2> QED
    BY <1>2, <2>1, <2>2
<1> SUFFICES ASSUME NEW b, b = relocs[i].loc PROVE IInv' /\ CellsKept
  OBVIOUS
<1>9. m \in Nat /\ o \in Owners /\ HasPlace(o) /\ PlaceOf(o) = InRam(b, RelocCells)
  <2>1. m \in Nat
    BY <1>4, <1>6
  <2> QED
    BY <1>3, <1>6, <2>1, RelocPlace, TheyAreOwners
<1>10. HasPlace(o)' /\ PlaceOf(o)' = InFile(SpillBase, RelocCells)
  <2>1. o.kind = "reloc" /\ o.no = m /\ o.sub = 0
    BY DEF RelocNo
  <2>2. m \in 1..Len(relocs') /\ RelocAt(m)'.spilled = TRUE /\ RelocAt(m)'.loc = SpillBase
    BY <1>6
  <2> QED
    BY <2>1, <2>2 DEF HasPlace, PlaceOf
<1>11. \A q \in Owners \ {o} : SamePlace(q)
  <2> SUFFICES ASSUME NEW q \in Owners, q # o PROVE SamePlace(q)
    OBVIOUS
  <2>0. SegTab' = SegTab /\ HugeTab' = HugeTab
    BY DEF pages
  <2>1. CASE q.kind = "node"
    BY <1>7, <1>8, <2>0, <2>1, NodeSame
  <2>2. CASE q.kind = "huge"
    BY <2>0, <2>2, HugeSame
  <2>3. CASE q.kind = "reloc" /\ q.sub # 0
    BY <2>3 DEF SamePlace, HasPlace
  <2>4. CASE q.kind = "reloc" /\ q.sub = 0
    <3>1. q.no # m
      BY <2>4, OwnersAre DEF RelocNo
    <3>2. q.no \in 1..Len(relocs) => RelocAt(q.no)' = RelocAt(q.no)
      BY <1>6, <3>1
    <3> QED
      BY <1>6, <2>4, <3>2, RelocSame
  <2>5. CASE q.kind = "new"
    BY <1>7, <2>5, NewSame
  <2> QED
    BY <2>1, <2>2, <2>3, <2>4, <2>5, OwnersAre
<1>12. o \in DOMAIN Places /\ Places[o] = InRam(b, RelocCells)
  <2>1. o \in DOMAIN Places /\ Places[o] = PlaceOf(o)
    BY <1>9, <1>10, <1>11, PlaceMoved
  <2> QED
    BY <1>9, <2>1
<1>13. Places' = [Places EXCEPT ![o] = InFile(SpillBase, RelocCells)]
  <2>1. Places' = [Places EXCEPT ![o] = PlaceOf(o)']
    BY <1>9, <1>10, <1>11, PlaceMoved
  <2> QED
    BY <1>10, <2>1
<1>14. Places[o].where = "ram" /\ Places[o].loc = b /\ Places[o].size = RelocCells
  BY <1>12 DEF InRam
<1>15. /\ Memory(Places, ram, spill) /\ b \in DOMAIN ram /\ Len(ram[b]) = RelocCells
       /\ ram[b] \in Seq(Int)
  BY <1>1, <1>12, <1>14 DEF Data, Memory, Housed, Typed
<1>16. PICK d \in Seq(Int) : /\ d = UsedPart(relocs[i]) /\ Len(d) = RelocCells - relocs[i].left
                             /\ RelocCells - relocs[i].left \in 0..RelocCells
                             /\ \A j \in 1..(RelocCells - relocs[i].left) : d[j] = ram[b][j]
  <2>1. ram[relocs[i].loc] \in Seq(Int) /\ Len(ram[relocs[i].loc]) = RelocCells
    BY <1>15
  <2> QED
    BY <1>4, <2>1, UsedPartIs
<1>17. /\ Memory(Places', ram', spill') /\ DOMAIN Places' = DOMAIN Places
       /\ SameValues(DOMAIN Places \ {o}, Places, ram, spill, Places', ram', spill')
       /\ FirstCells(Places', ram', spill', o, d)
  <2>1. MovesTo(Places, ram, o, d, Places', ram', spill')
    BY <1>13, <1>14, <1>16 DEF MovesTo, Places
  <2>2. Len(d) <= Places[o].size
    BY <1>14, <1>16, Constants
  <2> QED
    BY <1>12, <1>14, <1>15, <1>16, <2>1, <2>2, MovedToFile
<1>18. \A j \in 1..(RelocCells - relocs[i].left) :
          Value(Places', ram', spill', o, j) = Item((m - 1) * RelocCells + j - 1)
  <2> SUFFICES ASSUME NEW j \in 1..(RelocCells - relocs[i].left)
               PROVE  Value(Places', ram', spill', o, j) = Item((m - 1) * RelocCells + j - 1)
    OBVIOUS
  <2>1. Value(Places', ram', spill', o, j) = d[j]
    BY <1>16, <1>17 DEF FirstCells
  <2>2. d[j] = ram[b][j]
    BY <1>16
  <2>3. Value(Places, ram, spill, o, j) = ram[b][j]
    BY <1>14 DEF Value
  <2>4. Value(Places, ram, spill, o, j) = Item((m - 1) * RelocCells + j - 1)
    BY <1>1, <1>6 DEF Data, RelocValues
  <2> QED
    BY <2>1, <2>2, <2>3, <2>4
<1>19. RelocValues'
  <2>1. \A q \in 1..Len(relocs') : \A j \in 1..(RelocCells - RelocAt(q)'.left) :
           Value(Places', ram', spill', RelocNo(q), j) = Item((q - 1) * RelocCells + j - 1)
    <3>0. Len(relocs') = Len(relocs) /\ \A q \in 1..Len(relocs) : RelocAt(q)'.left = RelocAt(q).left
      BY <1>6
    <3> SUFFICES ASSUME NEW q \in 1..Len(relocs), NEW j \in 1..(RelocCells - RelocAt(q).left)
                 PROVE  Value(Places', ram', spill', RelocNo(q), j) = Item((q - 1) * RelocCells + j - 1)
      BY <3>0
    <3>1. CASE q = m
      BY <1>6, <1>18, <3>1
    <3>2. CASE q # m
      <4>1. q \in Nat /\ RelocNo(q) \in DOMAIN Places /\ RelocNo(q) # o
        <5>1. q \in Nat
          BY <1>4
        <5>2. RelocNo(q) \in DOMAIN Places
          BY <5>1, RelocPlace
        <5>3. RelocNo(q).no = q /\ o.no = m
          BY DEF RelocNo
        <5> QED
          BY <3>2, <5>1, <5>2, <5>3
      <4>2. Places[RelocNo(q)].size = RelocCells
        <5>1. Places[RelocNo(q)] = PlaceOf(RelocNo(q))
          BY <4>1, PlacesAre
        <5> QED
          BY <4>1, <5>1, RelocPlace, SMTT(30) DEF InFile, InRam
      <4>3. j \in 1..RelocCells
        <5>1. RelocAt(q).left \in 0..RelocCells
          <6>1. Len(relocs) + 1 - q \in 1..Len(relocs)
            BY <1>4
          <6> QED
            BY <1>1, <6>1, TypesAre DEF RelocAt
        <5> QED
          BY <5>1, Constants
      <4>4. Value(Places', ram', spill', RelocNo(q), j) = Value(Places, ram, spill, RelocNo(q), j)
        BY <1>17, <4>1, <4>2, <4>3 DEF SameValues
      <4>5. Value(Places, ram, spill, RelocNo(q), j) = Item((q - 1) * RelocCells + j - 1)
        BY <1>1 DEF Data, RelocValues
      <4> QED
        BY <4>4, <4>5
    <3> QED
      BY <3>1, <3>2
  <2> QED
    BY <2>1 DEF RelocValues
<1>20. CellsKept
  <2>1. PagesPlaced \subseteq DOMAIN Places \ {o}
    BY DEF PagesPlaced, RelocNo
  <2>2. SameValues(PagesPlaced, Places, ram, spill, Places', ram', spill')
    BY <1>17, <2>1 DEF SameValues
  <2> QED
    BY <1>17, <2>1, <2>2 DEF CellsKept
<1>21. /\ Accounted' /\ room' \in 0..HeapCells
       /\ ram' = [c \in DOMAIN ram' |-> ram'[c]] /\ DOMAIN ram' \subseteq Nat \ {0}
       /\ IsFiniteSet(DOMAIN ram') /\ IsFiniteSet(CellsIn(ram'))
       /\ \A c \in DOMAIN ram' : ram'[c] \in Seq(Int)
  BY <1>1, <1>15, BlockFreed
<1>22. Len(stack') <= MaxDepth
  <2>1. Len(stack) <= MaxDepth /\ MaxDepth \in Nat
    BY <1>1, <1>2, Constants DEF TypeOK
  <2>2. Len(stack') = n - 1 /\ Len(stack) = n
    BY <1>7 DEF Depth
  <2> QED
    BY <1>2, <2>1, <2>2
<1>23. spill' \in Seq(Int)
  BY <1>17 DEF Memory, Typed
<1>24. TypeOK'
  BY <1>1, <1>6, <1>21, <1>22, <1>23 DEF TypeOK, pages, RelocSet
<1>25. Kinds' /\ Storage'
  <2>1. Kinds'
    BY <1>1, <1>6, <1>7, <1>21 DEF Kinds, pages
  <2>2. Storage'
    BY <1>1 DEF Storage, Covered, SubSize, pages
  <2> QED
    BY <2>1, <2>2
<1>26. HugePages' /\ SwapList'
  <2>1. HugeTab' = HugeTab
    BY DEF pages
  <2>2. HugePages'
    BY <1>1, <1>7, <2>1, HugePagesKept
  <2>3. SwapList'
    BY <1>1 DEF SwapList, SwapListExact, pages
  <2> QED
    BY <2>2, <2>3
<1>27. NewIsFresh'
  BY <1>7 DEF NewIsFresh
<1> QED
  BY <1>7, <1>17, <1>19, <1>20, <1>21, <1>24, <1>25, <1>26, <1>27 DEF IInv, Control

LEMMA SpillRelocStep ==
    ASSUME IInv, SpillReloc
    PROVE  IInv' /\ CellsKept
<1>1. Active("SpillRelocList") /\ "SpillRelocList" \in Movers
  BY DEF SpillReloc, Movers
<1>2. CASE OpenFirst
  <2>1. stack # <<>> /\ Top.fn \in Movers /\ ret = 0
    BY <1>1, TopAt DEF Active, Movers, Askers
  <2> QED
    BY <1>2, <2>1, OpenFirstStep
<1>3. CASE ~OpenFirst
  BY <1>1, <1>3, BlockLeft DEF SpillReloc, SpilledAt
<1> QED
  BY <1>2, <1>3

----------------------------------------------------------------------------
(***************************************************************************)
(* The first place of a page.                                               *)
(***************************************************************************)
(* All but the block that was handed over keep their cells, and the page    *)
(* that got its place has cells that nobody has written.                    *)
LEMMA DataGained ==
    ASSUME TypeOK, Data, Memory(Places', ram', spill'), NEW o \in Owners,
           SameValues(DOMAIN Places \ {NewBlock}, Places, ram, spill, Places', ram', spill'),
           DOMAIN Places' = (DOMAIN Places \ {NewBlock}) \union {o},
           \A j \in 1..Places'[o].size : Value(Places', ram', spill', o, j) \in {Fresh, Hole},
           relocs' = relocs, ret' = 0
    PROVE  Data' /\ CellsKept
<1>1. RelocValues'
  <2>1. \A n \in 1..Len(relocs) : RelocNo(n) \in DOMAIN Places \ {NewBlock}
    BY RelocsPlaced DEF RelocNo, NewBlock
  <2>2. Len(relocs') = Len(relocs) /\ \A n \in 1..Len(relocs) : RelocAt(n)'.left = RelocAt(n).left
    BY DEF RelocAt
  <2> QED
    BY <2>1, <2>2, RelocValuesKept DEF Data
<1>2. NewIsFresh'
  BY DEF NewIsFresh
<1>3. PagesPlaced \subseteq DOMAIN Places \ {NewBlock}
  BY DEF PagesPlaced, NewBlock
<1>4. SameValues(PagesPlaced, Places, ram, spill, Places', ram', spill')
  BY <1>3 DEF SameValues
<1>5. \A q \in DOMAIN Places' \ DOMAIN Places : q = o
  OBVIOUS
<1>6. CellsKept
  BY <1>3, <1>4, <1>5 DEF CellsKept
<1> QED
  BY <1>1, <1>2, <1>6 DEF Data

(* The place of o is the block that LAlloc returned. *)
LEMMA BlockGiven ==
    ASSUME TypeOK, Data, ret # 0, ret' = 0, NEW o \in Owners, o # NewBlock,
           ~HasPlace(o), HasPlace(o)', PlaceOf(o)' = InRam(ret, Len(ram[ret])),
           \A q \in Owners \ {NewBlock, o} : SamePlace(q),
           UNCHANGED <<ram, spill, relocs>>
    PROVE  Data' /\ CellsKept
<1> SUFFICES ASSUME NEW P, P = With(Without(Places, NewBlock), o, Places[NewBlock])
             PROVE  Data' /\ CellsKept
  OBVIOUS
<1>1. /\ NewBlock \in Owners /\ HasPlace(NewBlock) /\ ~HasPlace(NewBlock)'
      /\ PlaceOf(NewBlock) = InRam(ret, Len(ram[ret]))
  BY TheyAreOwners, NewPlace, NewPlaceThen
<1>2. PlaceOf(o)' = PlaceOf(NewBlock)
  BY <1>1
<1>3. /\ NewBlock \in DOMAIN Places /\ o \notin DOMAIN Places
      /\ Places[NewBlock] = PlaceOf(NewBlock) /\ Places' = P
  BY <1>1, <1>2, PlacePassed
<1>4. Places[NewBlock] = InRam(ret, Len(ram[ret]))
  BY <1>1, <1>3
<1>5. Memory(Places, ram, spill)
  BY DEF Data
<1>6. /\ Memory(P, ram, spill) /\ P[o].size = Places[NewBlock].size
      /\ SameValues(DOMAIN Places \ {NewBlock}, Places, ram, spill, P, ram, spill)
      /\ SameCells(Places, NewBlock, P, o, ram, spill)
  BY <1>3, <1>5, PlaceRenamed
<1>7. DOMAIN P = (DOMAIN Places \ {NewBlock}) \union {o}
  <2>1. DOMAIN Without(Places, NewBlock) = DOMAIN Places \ {NewBlock}
    BY WithoutIs
  <2>2. DOMAIN P = DOMAIN Without(Places, NewBlock) \union {o}
    BY DEF With
  <2> QED
    BY <2>1, <2>2
<1>8. \A j \in 1..P[o].size : Value(P, ram, spill, o, j) \in {Fresh, Hole}
  <2> SUFFICES ASSUME NEW j \in 1..P[o].size PROVE Value(P, ram, spill, o, j) = Fresh
    OBVIOUS
  <2>1. Value(P, ram, spill, o, j) = Value(Places, ram, spill, NewBlock, j)
    BY <1>6 DEF SameCells
  <2>2. /\ Places[NewBlock].where = "ram" /\ Places[NewBlock].loc = ret
        /\ Places[NewBlock].size = Len(ram[ret])
    BY <1>4 DEF InRam
  <2>3. Value(Places, ram, spill, NewBlock, j) = ram[ret][j]
    BY <2>2 DEF Value
  <2>4. j \in 1..Len(ram[ret])
    BY <1>6, <2>2
  <2>5. ram[ret][j] = Fresh
    BY <2>4 DEF Data, NewIsFresh
  <2> QED
    BY <2>1, <2>3, <2>5
<1>9. /\ Memory(Places', ram', spill')
      /\ SameValues(DOMAIN Places \ {NewBlock}, Places, ram, spill, Places', ram', spill')
      /\ DOMAIN Places' = (DOMAIN Places \ {NewBlock}) \union {o}
      /\ \A j \in 1..Places'[o].size : Value(Places', ram', spill', o, j) \in {Fresh, Hole}
  BY <1>3, <1>6, <1>7, <1>8
<1> QED
  BY <1>9, DataGained

(* The place of o is at the end of the file. *)
LEMMA AreaGiven ==
    ASSUME TypeOK, Data, ret = 0, ret' = 0, NEW o \in Owners, o # NewBlock, NEW z \in Nat \ {0},
           ~HasPlace(o), HasPlace(o)', PlaceOf(o)' = InFile(SpillBase, z),
           \A q \in Owners \ {NewBlock, o} : SamePlace(q),
           spill' = Spilled(z), UNCHANGED <<ram, relocs>>
    PROVE  Data' /\ CellsKept
<1> SUFFICES ASSUME NEW P, P = With(Places, o, InFile(SpillBase, z)), NEW g, g = Spilled(z)
             PROVE  Data' /\ CellsKept
  OBVIOUS
<1>1. SamePlace(NewBlock) /\ NewBlock \notin DOMAIN Places
  BY NewPlace, NewPlaceThen DEF SamePlace
<1>2. o \notin DOMAIN Places /\ Places' = P
  <2>1. \A q \in Owners \ {o} : SamePlace(q)
    BY <1>1
  <2> QED
    BY <2>1, PlaceGained
<1>3. Memory(Places, ram, spill)
  BY DEF Data
<1>4. /\ Memory(P, ram, g) /\ SameValues(DOMAIN Places, Places, ram, spill, P, ram, g)
      /\ CellsAll(P, ram, g, o, Hole)
  BY <1>2, <1>3, PlaceInFile
<1>5. DOMAIN P = (DOMAIN Places \ {NewBlock}) \union {o}
  <2>1. DOMAIN P = DOMAIN Places \union {o}
    BY DEF With
  <2> QED
    BY <1>1, <2>1
<1>6. \A j \in 1..P[o].size : Value(P, ram, g, o, j) \in {Fresh, Hole}
  BY <1>4 DEF CellsAll
<1>7. SameValues(DOMAIN Places \ {NewBlock}, Places, ram, spill, P, ram, g)
  BY <1>4 DEF SameValues
<1>8. /\ Memory(Places', ram', spill')
      /\ SameValues(DOMAIN Places \ {NewBlock}, Places, ram, spill, Places', ram', spill')
      /\ DOMAIN Places' = (DOMAIN Places \ {NewBlock}) \union {o}
      /\ \A j \in 1..Places'[o].size : Value(Places', ram', spill', o, j) \in {Fresh, Hole}
  BY <1>2, <1>4, <1>5, <1>6, <1>7
<1> QED
  BY <1>8, DataGained

LEMMA AddingNodeAt ==
    ASSUME IInv, Active("AllocNode"), NEW k, k = Top.node
    PROVE  /\ Depth = 2 /\ Frame(2) = Top /\ Frame(1).fn = "ScanNodes" /\ Top.fn = "AllocNode"
           /\ stack \in Seq(Frames) /\ stack # <<>> /\ status = "run"
           /\ InPlace(1) /\ Leaving = {} /\ \A p, s : ~Unplaced(p, s)
           /\ k \in 1..Len(SegTab) /\ k \in Nat /\ SegTab[k].loc = 0 /\ ~SegTab[k].inmem
           /\ \A i \in 1..Len(NextSwap) : NextSwap[i] # k
           /\ ret # 0 => ret \in DOMAIN ram /\ Len(ram[ret]) = SegTab[k].size
<1>1. TypeOK /\ Kinds /\ Calls /\ SwapList
  BY IInvIs DEF Control
<1> SUFFICES ASSUME NEW n, n = Depth
             PROVE  /\ n = 2 /\ Frame(2) = Top /\ Frame(1).fn = "ScanNodes" /\ Top.fn = "AllocNode"
                    /\ stack \in Seq(Frames) /\ stack # <<>> /\ status = "run"
                    /\ InPlace(1) /\ Leaving = {} /\ \A p, s : ~Unplaced(p, s)
                    /\ k \in 1..Len(SegTab) /\ k \in Nat /\ SegTab[k].loc = 0 /\ ~SegTab[k].inmem
                    /\ \A i \in 1..Len(NextSwap) : NextSwap[i] # k
                    /\ ret # 0 => ret \in DOMAIN ram /\ Len(ram[ret]) = SegTab[k].size
  OBVIOUS
<1>2. /\ stack # <<>> /\ stack \in Seq(Frames) /\ status = "run"
      /\ n \in Nat \ {0} /\ Frame(n) = Top /\ Top.fn = "AllocNode" /\ InPlace(n)
  BY ActiveAt
<1>3. n = 2 /\ Frame(1).fn = "ScanNodes" /\ k \in 1..Len(SegTab) /\ SegTab[k].loc = 0
  BY <1>2 DEF InPlace, AddingNode
<1>4. \A d \in 1..Depth : Frame(d).fn \notin {"SwapOutVirt", "AllocHugeNode"}
  <2>1. \A d \in 1..Depth : d = 1 \/ d = 2
    BY <1>3
  <2> QED
    BY <1>2, <1>3, <2>1
<1>5. InPlace(1)
  BY <1>1, <1>3 DEF Calls
<1>6. Leaving = {}
  BY <1>2, <1>4, LeavingIs
<1>7. \A p, s : ~Unplaced(p, s)
  BY <1>4 DEF Unplaced
<1>8. k \in Nat /\ ~SegTab[k].inmem /\ \A i \in 1..Len(NextSwap) : NextSwap[i] # k
  BY <1>1, <1>3, TypesAre DEF SwapList
<1>9. ret # 0 => ret \in DOMAIN ram /\ Len(ram[ret]) = SegTab[k].size
  BY <1>1, <1>2, <1>3 DEF Calls, InHand, NeededBy
<1> QED
  BY <1>2, <1>3, <1>5, <1>6, <1>7, <1>8, <1>9

(* Back in ScanNodes. *)
LEMMA BackInScan ==
    ASSUME Depth = 2, Frame(1).fn = "ScanNodes", stack \in Seq(Frames), stack # <<>>, InPlace(1),
           stack' = Tail(stack), ret' = 0, owned' = owned
    PROVE  /\ stack' \in Seq(Frames) /\ Depth' = 1 /\ Frame(1)' = Frame(1) /\ Calls'
           /\ Leaving' = {} /\ \A p, s : ~Unplaced(p, s)'
<1>1. /\ stack' \in Seq(Frames) /\ Depth' = 1 /\ Frame(1)' = Frame(1)
  <2>1. PICK n : n = Depth
    OBVIOUS
  <2>2. stack' \in Seq(Frames) /\ Depth' = n - 1 /\ \A d \in 1..(n - 1) : Frame(d)' = Frame(d)
    BY <2>1, Returned
  <2>3. n - 1 = 1 /\ 1 \in 1..1
    BY <2>1
  <2> QED
    BY <2>2, <2>3
<1>2. Frame(1)'.fn = "ScanNodes" /\ Scanning(1)'
  BY <1>1 DEF InPlace, Scanning
<1>3. InPlace(1)'
  BY <1>2, ThenInPlace
<1>4. \A d \in 1..Depth' : d = 1
  BY <1>1
<1>5. Calls'
  <2>1. \A d \in 1..Depth' : InPlace(d)'
    BY <1>3, <1>4
  <2>2. Distinct'
    BY <1>4 DEF Distinct
  <2>3. InHand'
    BY DEF InHand
  <2> QED
    BY <2>1, <2>2, <2>3 DEF Calls
<1>6. Leaving' = {}
  BY <1>1, <1>2, <1>4, LeavingThenIs
<1>7. \A p, s : ~Unplaced(p, s)'
  BY <1>2, <1>4 DEF Unplaced
<1> QED
  BY <1>1, <1>5, <1>6, <1>7

(* The node that got its memory joins the list. *)
LEMMA JoinsList ==
    ASSUME SwapList, NextSwap \in Seq(1..Len(SegTab)), NEW k \in 1..Len(SegTab),
           \A i \in 1..Len(NextSwap) : NextSwap[i] # k,
           NextSwap' = Append(NextSwap, k), Len(SegTab') = Len(SegTab), SegTab'[k].loc # 0,
           \A j \in 1..Len(SegTab) : j # k => SegTab'[j] = SegTab[j]
    PROVE  SwapList' /\ NextSwap' \in Seq(1..Len(SegTab))
<1> SUFFICES ASSUME NEW m, m = Len(NextSwap) PROVE SwapList' /\ NextSwap' \in Seq(1..Len(SegTab))
  OBVIOUS
<1>1. /\ NextSwap' \in Seq(1..Len(SegTab)) /\ m \in Nat /\ Len(NextSwap') = m + 1
      /\ NextSwap'[m + 1] = k
      /\ \A i \in 1..m : NextSwap'[i] = NextSwap[i] /\ NextSwap[i] \in 1..Len(SegTab)
  OBVIOUS
<1>2. \A i \in 1..(m + 1) : i \in 1..m \/ i = m + 1
  BY <1>1
<1>3. (\A i \in 1..m : i \in 1..(m + 1)) /\ m + 1 \in 1..(m + 1)
  BY <1>1
<1>4. \A i \in 1..(m + 1) : SegTab'[NextSwap'[i]].loc # 0
  <2>1. \A i \in 1..m : SegTab'[NextSwap'[i]].loc # 0
    BY <1>1 DEF SwapList
  <2> QED
    BY <1>1, <1>2, <2>1
<1>5. \A j \in 1..Len(SegTab) : SegTab'[j].inmem => SegTab'[j].loc # 0
  BY DEF SwapList
<1>6. \A j \in 1..Len(SegTab) : SegTab'[j].inmem => \E i \in 1..(m + 1) : NextSwap'[i] = j
  <2> SUFFICES ASSUME NEW j \in 1..Len(SegTab), SegTab'[j].inmem
               PROVE  \E i \in 1..(m + 1) : NextSwap'[i] = j
    OBVIOUS
  <2>1. CASE j = k
    BY <1>1, <1>3, <2>1
  <2>2. CASE j # k
    <3>1. PICK i \in 1..m : NextSwap[i] = j
      BY <2>2 DEF SwapList, SwapListExact
    <3> QED
      BY <1>1, <1>3, <3>1
  <2> QED
    BY <2>1, <2>2
<1>7. \A i, j \in 1..(m + 1) : NextSwap'[i] = NextSwap'[j] => i = j
  <2> SUFFICES ASSUME NEW i \in 1..(m + 1), NEW j \in 1..(m + 1), NextSwap'[i] = NextSwap'[j]
               PROVE  i = j
    OBVIOUS
  <2>1. CASE i \in 1..m /\ j \in 1..m
    <3>1. NextSwap[i] = NextSwap[j]
      BY <1>1, <2>1
    <3> QED
      BY <2>1, <3>1 DEF SwapList, SwapListExact
  <2>2. CASE i = m + 1 /\ j \in 1..m
    BY <1>1, <2>2
  <2>3. CASE i \in 1..m /\ j = m + 1
    BY <1>1, <2>3
  <2> QED
    BY <1>2, <2>1, <2>2, <2>3
<1> QED
  BY <1>1, <1>4, <1>5, <1>6, <1>7 DEF SwapList, SwapListExact

LEMMA NodeGiven ==
    ASSUME IInv, Active("AllocNode"), NEW k, k = Top.node, NEW h \in NodeSet,
           h.size = SegTab[k].size, h.loc # 0, SegTab' = [SegTab EXCEPT ![k] = h],
           NextSwap' = Append(NextSwap, k), Pop, ret' = 0, spill' \in Seq(Int),
           UNCHANGED <<HugeTab, tiny, owned, relocs, heap, TempFile, status>>,
           NEW o, o = NodeNo(k)
    PROVE  /\ Control' /\ Accounted' /\ o \in Owners /\ o # NewBlock
           /\ ~HasPlace(o) /\ HasPlace(o)'
           /\ PlaceOf(o)' = IF h.inmem THEN InRam(h.loc, h.size) ELSE InFile(h.loc, h.size)
           /\ \A q \in Owners \ {NewBlock, o} : SamePlace(q)
<1>1. /\ TypeOK /\ Kinds /\ Storage /\ Calls /\ HugePages /\ SwapList /\ Accounted
  BY IInvIs DEF Control
<1>2. /\ Depth = 2 /\ Frame(2) = Top /\ Frame(1).fn = "ScanNodes" /\ Top.fn = "AllocNode"
      /\ stack \in Seq(Frames) /\ stack # <<>> /\ status = "run"
      /\ InPlace(1) /\ Leaving = {} /\ \A p, s : ~Unplaced(p, s)
      /\ k \in 1..Len(SegTab) /\ k \in Nat /\ SegTab[k].loc = 0 /\ ~SegTab[k].inmem
      /\ \A i \in 1..Len(NextSwap) : NextSwap[i] # k
  BY AddingNodeAt
<1>3. stack' = Tail(stack) /\ owned' = owned /\ HugeTab' = HugeTab /\ relocs' = relocs
      /\ ram' = ram /\ room' = room /\ cache' = cache /\ other' = other
  BY DEF Pop, heap
<1>4. /\ stack' \in Seq(Frames) /\ Depth' = 1 /\ Frame(1)' = Frame(1) /\ Calls'
      /\ Leaving' = {} /\ \A p, s : ~Unplaced(p, s)'
  BY <1>2, <1>3, BackInScan
<1>5. /\ Len(SegTab') = Len(SegTab) /\ SegTab'[k] = h
      /\ \A j \in 1..Len(SegTab) : j # k => SegTab'[j] = SegTab[j]
  <2>1. SegTab \in Seq(NodeSet)
    BY <1>1, TypesAre
  <2> QED
    BY <1>2, <2>1, ItemSet
<1>6. SwapList' /\ NextSwap' \in Seq(1..Len(SegTab))
  <2>1. NextSwap \in Seq(1..Len(SegTab))
    BY <1>1, TypesAre
  <2> QED
    BY <1>1, <1>2, <1>5, <2>1, JoinsList
<1>7. TypeOK' /\ Storage'
  <2>1. status' # "overflow" => Len(stack') <= MaxDepth
    <3>1. Len(stack) <= MaxDepth /\ MaxDepth \in Nat
      BY <1>1, <1>2, Constants DEF TypeOK
    <3>2. Len(stack') = 1 /\ Len(stack) = 2
      BY <1>2, <1>4 DEF Depth
    <3> QED
      BY <3>1, <3>2
  <2>2. /\ \A b \in DOMAIN ram' : ram'[b] \in Seq(Int)
        /\ room' \in 0..HeapCells /\ cache' \in 0..CacheBlocks /\ other' \in 0..MaxOther
        /\ TempFile' \in BOOLEAN /\ ret' \in Nat /\ status' \in {"run", "fatal", "overflow"}
    BY <1>1, <1>3 DEF TypeOK
  <2>3. UNCHANGED <<HugeTab, tiny, owned, relocs>>
    OBVIOUS
  <2> QED
    BY <1>1, <1>2, <1>6, <2>1, <2>2, <2>3, NodeTabStep
<1>8. Kinds'
  BY <1>1, <1>3, <1>4, <1>5 DEF Kinds
<1>9. HugePages'
  <2>1. \A p, s : Unplaced(p, s)' <=> Unplaced(p, s)
    BY <1>2, <1>4
  <2> QED
    BY <1>1, <1>3, <2>1, HugePagesKept
<1>10. Accounted'
  BY <1>1, <1>3 DEF Accounted, CellsIn
<1>11. o \in Owners /\ o # NewBlock /\ ~HasPlace(o)
  <2>1. o \in Owners /\ ~HasPlace(o)
    BY <1>2, NodePlace, TheyAreOwners
  <2> QED
    BY <2>1 DEF NodeNo, NewBlock
<1>12. /\ HasPlace(o)'
       /\ PlaceOf(o)' = IF h.inmem THEN InRam(h.loc, h.size) ELSE InFile(h.loc, h.size)
  <2>1. o.kind = "node" /\ o.no = k /\ o.sub = 0
    BY DEF NodeNo
  <2>2. k \in 1..Len(SegTab') /\ k \notin Leaving'
    BY <1>2, <1>4, <1>5
  <2>3. HasPlace(o)'
    BY <1>5, <2>1, <2>2 DEF HasPlace
  <2> QED
    BY <1>5, <2>1, <2>2, <2>3 DEF PlaceOf
<1>13. \A q \in Owners \ {NewBlock, o} : SamePlace(q)
  <2> SUFFICES ASSUME NEW q \in Owners, q # o, q # NewBlock PROVE SamePlace(q)
    OBVIOUS
  <2>1. CASE q.kind = "node" /\ q.sub # 0
    BY <2>1 DEF SamePlace, HasPlace
  <2>2. CASE q.kind = "node" /\ q.sub = 0
    <3>1. q.no # k
      BY <2>2, OwnersAre DEF NodeNo
    <3> QED
      BY <1>2, <1>4, <1>5, <2>2, <3>1, NodeSame
  <2>3. CASE q.kind = "huge"
    BY <1>3, <2>3, HugeSame
  <2>4. CASE q.kind = "reloc"
    BY <1>3, <2>4, RelocSame DEF RelocAt
  <2>5. CASE q.kind = "new"
    BY <2>5, OneNew
  <2> QED
    BY <2>1, <2>2, <2>3, <2>4, <2>5, OwnersAre
<1> QED
  BY <1>4, <1>6, <1>7, <1>8, <1>9, <1>10, <1>11, <1>12, <1>13 DEF Control

LEMMA NodeInRam ==
    ASSUME IInv, Active("AllocNode"), NEW k, k = Top.node, ret # 0,
           SegTab' = [SegTab EXCEPT ![k].loc = ret, ![k].inmem = TRUE],
           NextSwap' = Append(NextSwap, k), Pop, ret' = 0,
           UNCHANGED <<HugeTab, tiny, owned, relocs, heap, file, status>>
    PROVE  IInv' /\ CellsKept
<1>1. TypeOK /\ Data /\ ret \in Nat /\ spill \in Seq(Int)
  BY IInvIs DEF Control, TypeOK
<1>2. /\ k \in 1..Len(SegTab) /\ ret \in DOMAIN ram /\ Len(ram[ret]) = SegTab[k].size
      /\ SegTab[k] \in NodeSet
  <2>1. k \in 1..Len(SegTab) /\ ret \in DOMAIN ram /\ Len(ram[ret]) = SegTab[k].size
    BY AddingNodeAt
  <2> QED
    BY <1>1, <2>1, TypesAre
<1>3. PICK h \in NodeSet : /\ h.size = SegTab[k].size /\ h.loc = ret /\ h.inmem = TRUE
                           /\ SegTab' = [SegTab EXCEPT ![k] = h]
  <2>1. /\ [SegTab[k] EXCEPT !.loc = ret, !.inmem = TRUE] \in NodeSet
        /\ [SegTab[k] EXCEPT !.loc = ret, !.inmem = TRUE].size = SegTab[k].size
        /\ [SegTab[k] EXCEPT !.loc = ret, !.inmem = TRUE].inmem = TRUE
        /\ [SegTab[k] EXCEPT !.loc = ret, !.inmem = TRUE].loc = ret
    BY <1>1, <1>2 DEF NodeSet
  <2>2. SegTab' = [SegTab EXCEPT ![k] = [SegTab[k] EXCEPT !.loc = ret, !.inmem = TRUE]]
    BY <1>2
  <2> QED
    BY <2>1, <2>2
<1> SUFFICES ASSUME NEW o, o = NodeNo(k) PROVE IInv' /\ CellsKept
  OBVIOUS
<1>4. /\ TempFile' = TempFile /\ spill' = spill /\ spill' \in Seq(Int) /\ h.loc # 0
      /\ UNCHANGED <<HugeTab, tiny, owned, relocs, heap, TempFile, status>>
  BY <1>1, <1>3 DEF file
<1>5. /\ Control' /\ Accounted' /\ o \in Owners /\ o # NewBlock
      /\ ~HasPlace(o) /\ HasPlace(o)'
      /\ PlaceOf(o)' = IF h.inmem THEN InRam(h.loc, h.size) ELSE InFile(h.loc, h.size)
      /\ \A q \in Owners \ {NewBlock, o} : SamePlace(q)
  BY <1>3, <1>4, NodeGiven
<1>6. PlaceOf(o)' = InRam(ret, Len(ram[ret]))
  BY <1>2, <1>3, <1>5
<1>7. UNCHANGED <<ram, spill, relocs>>
  BY <1>4 DEF heap
<1>8. Data' /\ CellsKept
  BY <1>1, <1>5, <1>6, <1>7, BlockGiven
<1> QED
  BY <1>5, <1>8 DEF IInv, Data

LEMMA NodeInFile ==
    ASSUME IInv, Active("AllocNode"), NEW k, k = Top.node, ret = 0,
           SegTab' = [SegTab EXCEPT ![k].loc = SpillBase, ![k].inmem = FALSE],
           spill' = Spilled(SegTab[k].size), NextSwap' = Append(NextSwap, k), Pop,
           UNCHANGED <<HugeTab, tiny, owned, relocs, heap, TempFile, ret, status>>
    PROVE  IInv' /\ CellsKept
<1>1. TypeOK /\ Data /\ spill \in Seq(Int) /\ Len(spill) \in Nat
  <2>1. TypeOK /\ Data
    BY IInvIs DEF Control
  <2>2. spill \in Seq(Int)
    BY <2>1 DEF TypeOK
  <2> QED
    BY <2>1, <2>2
<1>2. k \in 1..Len(SegTab) /\ SegTab[k] \in NodeSet /\ SegTab[k].size \in Nat \ {0}
  <2>1. k \in 1..Len(SegTab)
    BY AddingNodeAt
  <2>2. SegTab[k] \in NodeSet /\ SegTab[k].size \in 1..NodeCells
    BY <1>1, <2>1, TypesAre
  <2> QED
    BY <2>1, <2>2, SizeNumbers
<1>3. SpillBase \in Nat /\ SpillBase > Len(spill) /\ Spilled(SegTab[k].size) \in Seq(Int)
  BY <1>1, <1>2, SpilledIs
<1>4. PICK h \in NodeSet : /\ h.size = SegTab[k].size /\ h.loc = SpillBase /\ h.inmem = FALSE
                           /\ SegTab' = [SegTab EXCEPT ![k] = h]
  <2>1. /\ [SegTab[k] EXCEPT !.loc = SpillBase, !.inmem = FALSE] \in NodeSet
        /\ [SegTab[k] EXCEPT !.loc = SpillBase, !.inmem = FALSE].size = SegTab[k].size
        /\ [SegTab[k] EXCEPT !.loc = SpillBase, !.inmem = FALSE].inmem = FALSE
        /\ [SegTab[k] EXCEPT !.loc = SpillBase, !.inmem = FALSE].loc = SpillBase
    BY <1>2, <1>3 DEF NodeSet
  <2>2. SegTab' = [SegTab EXCEPT ![k] = [SegTab[k] EXCEPT !.loc = SpillBase, !.inmem = FALSE]]
    BY <1>2
  <2> QED
    BY <2>1, <2>2
<1> SUFFICES ASSUME NEW o, o = NodeNo(k) PROVE IInv' /\ CellsKept
  OBVIOUS
<1>5. h.loc # 0 /\ spill' \in Seq(Int) /\ ret' = 0
  BY <1>1, <1>3, <1>4
<1>6. UNCHANGED <<HugeTab, tiny, owned, relocs, heap, TempFile, status>>
  OBVIOUS
<1>7. /\ Control' /\ Accounted' /\ o \in Owners /\ o # NewBlock
      /\ ~HasPlace(o) /\ HasPlace(o)'
      /\ PlaceOf(o)' = IF h.inmem THEN InRam(h.loc, h.size) ELSE InFile(h.loc, h.size)
      /\ \A q \in Owners \ {NewBlock, o} : SamePlace(q)
  BY <1>4, <1>5, <1>6, NodeGiven
<1>8. PICK z \in Nat \ {0} : z = SegTab[k].size
  BY <1>2
<1>9. PlaceOf(o)' = InFile(SpillBase, z) /\ spill' = Spilled(z)
  BY <1>4, <1>7, <1>8
<1>10. UNCHANGED <<ram, relocs>>
  BY DEF heap
<1>11. Data' /\ CellsKept
  BY <1>1, <1>5, <1>7, <1>9, <1>10, AreaGiven
<1> QED
  BY <1>7, <1>11 DEF IInv, Data

LEMMA AllocNodeStep ==
    ASSUME IInv, AllocNode
    PROVE  IInv' /\ CellsKept
<1>1. Active("AllocNode") /\ "AllocNode" \in Askers /\ stack # <<>> /\ Top.fn = "AllocNode"
  BY DEF AllocNode, Askers, Active
<1> SUFFICES ASSUME NEW k, k = Top.node PROVE IInv' /\ CellsKept
  OBVIOUS
<1>2. CASE /\ ret # 0 /\ SegTab' = [SegTab EXCEPT ![k].loc = ret, ![k].inmem = TRUE]
           /\ NextSwap' = Linked(k) /\ Pop /\ ret' = 0
           /\ UNCHANGED <<HugeTab, tiny, owned, relocs, heap, file, status>>
  BY <1>1, <1>2, NodeInRam DEF Linked
<1>3. CASE ret = 0 /\ OpenFirst
  BY <1>1, <1>3, OpenFirstStep
<1>4. CASE /\ ret = 0 /\ SegTab' = [SegTab EXCEPT ![k].loc = SpillBase, ![k].inmem = FALSE]
           /\ spill' = Spilled(SegTab[k].size) /\ NextSwap' = Linked(k) /\ Pop
           /\ UNCHANGED <<HugeTab, tiny, owned, relocs, heap, TempFile, ret, status>>
  BY <1>1, <1>4, NodeInFile DEF Linked
<1> QED
  BY <1>2, <1>3, <1>4 DEF AllocNode

LEMMA AddingHugeAt ==
    ASSUME IInv, Active("AllocHugeNode"), NEW p, p = Top.page, NEW s, s = Top.index
    PROVE  /\ Depth = 2 /\ Frame(2) = Top /\ Frame(1).fn = "ScanNodes" /\ Top.fn = "AllocHugeNode"
           /\ stack \in Seq(Frames) /\ stack # <<>> /\ status = "run" /\ Top \in Frames
           /\ InPlace(1) /\ Leaving = {}
           /\ \A q : \A t \in Nat : Unplaced(q, t) <=> q = p /\ t <= s
           /\ p \in 1..Len(HugeTab) /\ p \in Nat /\ HugeTab[p].page # <<>>
           /\ s \in 1..HugeTab[p].numthere /\ s \in Nat \ {0}
           /\ Top.nomem => TempFile /\ ret = 0 /\ HugeTab[p].numswapped > s
           /\ ~Top.nomem => HugeTab[p].numswapped = 0
           /\ ret # 0 => ret \in DOMAIN ram /\ Len(ram[ret]) = SubSize(p, s)
<1>1. TypeOK /\ Kinds /\ Calls
  BY IInvIs DEF Control
<1>2. PICK n : n = Depth
  OBVIOUS
<1>3. /\ stack # <<>> /\ stack \in Seq(Frames) /\ status = "run" /\ Top \in Frames
      /\ n \in Nat \ {0} /\ Frame(n) = Top /\ Top.fn = "AllocHugeNode" /\ InPlace(n)
  BY <1>2, ActiveAt
<1>4. /\ n = 2 /\ Frame(1).fn = "ScanNodes" /\ p \in 1..Len(HugeTab) /\ HugeTab[p].page # <<>>
      /\ s \in 1..HugeTab[p].numthere
      /\ Top.nomem => TempFile /\ ret = 0 /\ HugeTab[p].numswapped > s
      /\ ~Top.nomem => HugeTab[p].numswapped = 0
  BY <1>3 DEF InPlace, AddingHuge
<1>5. Depth = 2 /\ Frame(2) = Top
  BY <1>2, <1>3, <1>4
<1>6. \A d \in 1..Depth : d = 1 \/ d = 2
  BY <1>5
<1>7. InPlace(1)
  BY <1>1, <1>5 DEF Calls
<1>8. Leaving = {}
  BY <1>3, <1>4, <1>5, <1>6, LeavingIs
<1>9. \A q : \A t \in Nat : Unplaced(q, t) <=> q = p /\ t <= s
  <2> SUFFICES ASSUME NEW q, NEW t \in Nat PROVE Unplaced(q, t) <=> q = p /\ t <= s
    OBVIOUS
  <2>1. Unplaced(q, t) => q = p /\ t <= s
    BY <1>3, <1>4, <1>5, <1>6 DEF Unplaced
  <2>2. q = p /\ t <= s => Unplaced(q, t)
    <3>1. 2 \in 1..Depth
      BY <1>5
    <3> QED
      BY <1>3, <1>5, <3>1 DEF Unplaced
  <2> QED
    BY <2>1, <2>2
<1>10. p \in Nat /\ s \in Nat \ {0}
  <2>1. p \in Nat /\ HugeTab[p].numthere \in 1..Subpages
    BY <1>1, <1>4, TypesAre
  <2> QED
    BY <1>4, <2>1, SubpageNumbers
<1>11. ret # 0 => ret \in DOMAIN ram /\ Len(ram[ret]) = SubSize(p, s)
  <2>1. NeededBy(Top) = SubSize(p, s)
    BY <1>3 DEF NeededBy
  <2> QED
    BY <1>1, <1>5, <2>1 DEF Calls, InHand
<1> QED
  BY <1>3, <1>4, <1>5, <1>7, <1>8, <1>9, <1>10, <1>11

(* The calls after the step for subpage s of page p. *)
OnTo(p, s) ==
    /\ stack' \in Seq(Frames) /\ Depth' \in Nat /\ Calls' /\ Leaving' = {}
    /\ status' \in {"run", "fatal", "overflow"} /\ (status' # "overflow" => Len(stack') <= MaxDepth)
    /\ \A q : \A t \in Nat \ {0} : Unplaced(q, t)' <=> q = p /\ t <= s - 1

LEMMA LastSubpage ==
    ASSUME Depth = 2, Frame(1).fn = "ScanNodes", stack \in Seq(Frames), stack # <<>>, InPlace(1),
           status = "run", Len(stack) <= MaxDepth, stack' = Tail(stack), UNCHANGED status,
           ret' = 0, owned' = owned, NEW p, NEW s, s = 1
    PROVE  OnTo(p, s)
<1>1. /\ stack' \in Seq(Frames) /\ Depth' = 1 /\ Calls' /\ Leaving' = {}
      /\ \A q, t : ~Unplaced(q, t)'
  BY BackInScan
<1>2. Len(stack') <= MaxDepth
  <2>1. Len(stack') = 1 /\ Len(stack) = 2 /\ MaxDepth \in Nat
    BY <1>1, Constants DEF Depth
  <2> QED
    BY <2>1
<1>3. \A t \in Nat \ {0} : ~(t <= s - 1)
  OBVIOUS
<1> QED
  BY <1>1, <1>2, <1>3 DEF OnTo

(* The next subpage: with the request for its memory on top, or without. *)
LEMMA NextSubpage ==
    ASSUME NEW s \in Nat \ {0}, s # 1, NEW p \in 1..Len(HugeTab), p \in Nat,
           NEW g \in Frames, g.fn = "AllocHugeNode", g.page = p, g.index = s - 1,
           InPlace(1), Frame(1).fn = "ScanNodes", Frame(1)' = Frame(1), Frame(2)' = g,
           stack' \in Seq(Frames), NEW l \in {2, 3}, Depth' = l,
           status' \in {"run", "fatal", "overflow"}, status' # "overflow" => Len(stack') <= MaxDepth,
           ret' = 0, owned' = owned, Len(HugeTab') = Len(HugeTab),
           HugeTab'[p].page # <<>>, s \in 1..HugeTab'[p].numthere, HugeTab'[p].numthere \in Nat,
           IF g.nomem THEN TempFile' /\ HugeTab'[p].numswapped > s - 1 /\ l = 2
                      ELSE HugeTab'[p].numswapped = 0 /\ l = 3,
           NEW f \in Frames, f = LAllocFrame(SubCells, "page"), l = 3 => Frame(3)' = f
    PROVE  OnTo(p, s)
<1>1. \A d \in 1..l : d = 1 \/ d = 2 \/ (l = 3 /\ d = 3)
  OBVIOUS
<1>2. f.fn = "LAlloc" /\ f.use = "page" /\ f.size = SubCells
  BY DEF LAllocFrame
<1>3. Frame(1)'.fn = "ScanNodes" /\ InPlace(1)'
  <2>1. Scanning(1)'
    BY DEF InPlace, Scanning
  <2> QED
    BY <2>1, ThenInPlace
<1>4. InPlace(2)'
  <2>1. s - 1 \in 1..HugeTab'[p].numthere
    OBVIOUS
  <2>2. AddingHuge(2)'
    BY <1>3, <2>1 DEF AddingHuge
  <2> QED
    BY <2>2, ThenInPlace
<1>5. l = 3 => InPlace(3)'
  <2> SUFFICES ASSUME l = 3, NEW e \in Nat \ {0}, e = 2 PROVE InPlace(3)'
    OBVIOUS
  <2>1. Frame(e + 1)' = f /\ Frame(e)' = g /\ e + 1 = 3
    OBVIOUS
  <2>2. g.fn \in Askers /\ f.size = NeededBy(g)' /\ ret' = 0
    <3>1. s - 1 # HugeTab'[p].numthere
      OBVIOUS
    <3>2. SubSize(p, s - 1)' = SubCells
      BY <3>1 DEF SubSize
    <3> QED
      BY <1>2, <3>2 DEF Askers, NeededBy
  <2>3. InPlace(e + 1)'
    BY <1>2, <2>1, <2>2, AskingPage
  <2> QED
    BY <2>1, <2>3
<1>6. \A d \in 1..l : InPlace(d)' /\ Frame(d)'.fn # "SwapOutVirt"
  BY <1>1, <1>2, <1>3, <1>4, <1>5
<1>7. Calls'
  BY <1>6 DEF Calls, Distinct, InHand
<1>8. Leaving' = {}
  BY <1>6, LeavingThenIs
<1>9. \A q : \A t \in Nat \ {0} : Unplaced(q, t)' <=> q = p /\ t <= s - 1
  <2> SUFFICES ASSUME NEW q, NEW t \in Nat \ {0} PROVE Unplaced(q, t)' <=> q = p /\ t <= s - 1
    OBVIOUS
  <2>1. Unplaced(q, t)' => q = p /\ t <= s - 1
    BY <1>1, <1>2, <1>3 DEF Unplaced
  <2>2. q = p /\ t <= s - 1 => Unplaced(q, t)'
    <3>1. 2 \in 1..Depth'
      OBVIOUS
    <3> QED
      BY <3>1 DEF Unplaced
  <2> QED
    BY <2>1, <2>2
<1> QED
  BY <1>7, <1>8, <1>9 DEF OnTo

HugeFrames == [fn : {"AllocHugeNode"}, page : Nat, index : Nat, nomem : BOOLEAN]

LEMMA HugeFramesAre ==
    /\ HugeFrames \subseteq Frames
    /\ \A f \in Frames : f.fn = "AllocHugeNode" => f \in HugeFrames
<1>1. HugeFrames \subseteq Frames
  BY DEF HugeFrames, Frames
<1>2. \A f \in Frames : f.fn = "AllocHugeNode" => f \in HugeFrames
  BY DEF HugeFrames, Frames
<1> QED
  BY <1>1, <1>2

NextFrame(f, nomem) == [f EXCEPT !.index = @ - 1, !.nomem = nomem]

LEMMA NextFrameIs ==
    ASSUME NEW f \in HugeFrames, f.index > 1, NEW nomem \in BOOLEAN, NEW g, g = NextFrame(f, nomem)
    PROVE  /\ g \in HugeFrames /\ g.fn = "AllocHugeNode" /\ g.page = f.page
           /\ g.index = f.index - 1 /\ g.nomem = nomem
<1>1. g.fn = "AllocHugeNode" /\ g.page = f.page /\ g.index = f.index - 1
  BY DEF HugeFrames, NextFrame
<1>2. g.nomem = nomem
  BY DEF HugeFrames, NextFrame
<1>3. g = [fn |-> "AllocHugeNode", page |-> f.page, index |-> f.index - 1, nomem |-> g.nomem]
  BY DEF HugeFrames, NextFrame
<1>4. f.page \in Nat /\ f.index - 1 \in Nat
  BY DEF HugeFrames
<1>5. CASE nomem
  BY <1>1, <1>2, <1>3, <1>4, <1>5 DEF HugeFrames, NextFrame
<1>6. CASE ~nomem
  BY <1>1, <1>2, <1>3, <1>4, <1>6 DEF HugeFrames, NextFrame
<1> QED
  BY <1>5, <1>6

LEMMA HugeCalls ==
    ASSUME IInv, Active("AllocHugeNode"), NEW p, p = Top.page, NEW s, s = Top.index,
           NEW nomem \in BOOLEAN, HugeNext(Top, nomem, Tail(stack)), ret' = 0, owned' = owned,
           Len(HugeTab') = Len(HugeTab), HugeTab'[p].page # <<>>,
           HugeTab'[p].numthere = HugeTab[p].numthere,
           IF nomem THEN TempFile' /\ HugeTab'[p].numswapped > s - 1
                    ELSE HugeTab'[p].numswapped = 0
    PROVE  OnTo(p, s)
<1>1. /\ Depth = 2 /\ Frame(2) = Top /\ Frame(1).fn = "ScanNodes" /\ Top.fn = "AllocHugeNode"
      /\ stack \in Seq(Frames) /\ stack # <<>> /\ status = "run" /\ Top \in Frames
      /\ InPlace(1) /\ p \in 1..Len(HugeTab) /\ p \in Nat
      /\ s \in 1..HugeTab[p].numthere /\ s \in Nat \ {0}
  BY AddingHugeAt
<1>2. TypeOK
  BY DEF IInv, Control
<1>3. HugeTab'[p].numthere \in Nat /\ s \in 1..HugeTab'[p].numthere
  <2>1. HugeTab[p].numthere \in 1..Subpages
    BY <1>1, <1>2, TypesAre
  <2> QED
    BY <1>1, <2>1, SubpageNumbers
<1>4. Len(stack) <= MaxDepth /\ MaxDepth \in Nat
  BY <1>1, <1>2, Constants DEF TypeOK
<1>5. CASE s = 1
  <2>1. stack' = Tail(stack) /\ UNCHANGED status
    BY <1>5 DEF HugeNext, NextFrame
  <2> QED
    BY <1>1, <1>4, <1>5, <2>1, LastSubpage
<1>6. CASE s # 1
  <2>1. PICK g \in Frames :
           /\ g.fn = "AllocHugeNode" /\ g.page = p /\ g.index = s - 1 /\ g.nomem = nomem
           /\ g = NextFrame(Top, nomem)
    <3>1. Top \in HugeFrames /\ Top.index > 1
      BY <1>1, <1>6, HugeFramesAre
    <3>2. PICK g : g = NextFrame(Top, nomem)
      OBVIOUS
    <3>3. /\ g \in HugeFrames /\ g.fn = "AllocHugeNode" /\ g.page = Top.page
          /\ g.index = Top.index - 1 /\ g.nomem = nomem
      BY <3>1, <3>2, NextFrameIs
    <3>4. g \in Frames
      BY <3>3, HugeFramesAre
    <3> QED
      BY <3>2, <3>3, <3>4
  <2>2. PICK f \in Frames : f = LAllocFrame(SubCells, "page")
    <3>1. SubCells \in Nat \ {0}
      BY Constants
    <3>2. LAllocFrame(SubCells, "page") = [fn |-> "LAlloc", size |-> SubCells, use |-> "page"]
      BY DEF LAllocFrame
    <3>3. [fn |-> "LAlloc", size |-> SubCells, use |-> "page"] \in Frames
      BY <3>1 DEF Frames
    <3> QED
      BY <3>2, <3>3
  <2>3. CASE nomem
    <3>1. stack' = <<g>> \o Tail(stack) /\ UNCHANGED status
      BY <1>6, <2>1, <2>3 DEF HugeNext, NextFrame
    <3>2. stack' \in Seq(Frames) /\ Depth' = 2 /\ Frame(2)' = g /\ Frame(1)' = Frame(1)
      <4>1. PICK n : n = Depth
        OBVIOUS
      <4>2. /\ stack' \in Seq(Frames) /\ Depth' = n /\ Frame(n)' = g
            /\ \A d \in 1..(n - 1) : Frame(d)' = Frame(d)
        BY <1>1, <3>1, <4>1, Replaced
      <4>3. n = 2 /\ 1 \in 1..(n - 1)
        BY <1>1, <4>1
      <4> QED
        BY <4>2, <4>3
    <3>3. Len(stack') <= MaxDepth
      BY <1>1, <1>4, <3>2 DEF Depth
    <3>4. PICK l \in {2, 3} : l = 2
      OBVIOUS
    <3>5. IF g.nomem THEN TempFile' /\ HugeTab'[p].numswapped > s - 1 /\ l = 2
                     ELSE HugeTab'[p].numswapped = 0 /\ l = 3
      BY <2>1, <2>3, <3>4
    <3>6. Depth' = l /\ (l = 3 => Frame(3)' = f)
      BY <3>2, <3>4
    <3>7. status' \in {"run", "fatal", "overflow"} /\ (status' # "overflow" => Len(stack') <= MaxDepth)
      BY <1>1, <3>1, <3>3
    <3> QED
      BY <1>1, <1>3, <1>6, <2>1, <2>2, <3>2, <3>5, <3>6, <3>7, NextSubpage
  <2>4. CASE ~nomem
    <3>1. /\ stack' = <<f, g>> \o Tail(stack)
          /\ status' = IF Len(stack') > MaxDepth THEN "overflow" ELSE status
      BY <1>6, <2>1, <2>2, <2>4 DEF HugeNext, NextFrame, Call
    <3>2. /\ stack' \in Seq(Frames) /\ Depth' = 3 /\ Frame(3)' = f /\ Frame(2)' = g
          /\ Frame(1)' = Frame(1)
      <4>1. PICK n : n = Depth
        OBVIOUS
      <4>2. /\ stack' \in Seq(Frames) /\ Depth' = n + 1 /\ Frame(n + 1)' = f /\ Frame(n)' = g
            /\ \A d \in 1..(n - 1) : Frame(d)' = Frame(d)
        BY <1>1, <3>1, <4>1, ReplacedAndCalled
      <4>3. n = 2 /\ 1 \in 1..(n - 1) /\ n + 1 = 3
        BY <1>1, <4>1
      <4> QED
        BY <4>2, <4>3
    <3>3. status' \in {"run", "fatal", "overflow"} /\ (status' # "overflow" => Len(stack') <= MaxDepth)
      <4>1. Len(stack') \in Nat
        BY <3>2
      <4> QED
        BY <1>1, <1>4, <3>1, <4>1
    <3>4. PICK l \in {2, 3} : l = 3
      OBVIOUS
    <3>5. IF g.nomem THEN TempFile' /\ HugeTab'[p].numswapped > s - 1 /\ l = 2
                     ELSE HugeTab'[p].numswapped = 0 /\ l = 3
      BY <2>1, <2>4, <3>4
    <3>6. Depth' = l /\ (l = 3 => Frame(3)' = f)
      BY <3>2, <3>4
    <3> QED
      BY <1>1, <1>3, <1>6, <2>1, <2>2, <3>2, <3>3, <3>5, <3>6, NextSubpage
  <2> QED
    BY <2>3, <2>4
<1> QED
  BY <1>5, <1>6

(* What a subpage gets: the place loc, and numswapped becomes w. *)
Placed(p, s, a, w) ==
    HugeTab' = [HugeTab EXCEPT ![p].page[s] = a, ![p].numswapped = w]

NowPlaced(h, p, s, a, w) ==
    /\ h.numthere = HugeTab[p].numthere /\ h.sizelast = HugeTab[p].sizelast
    /\ h.numswapped = w /\ Len(h.page) = h.numthere /\ h.page[s] = a
    /\ Len(HugeTab[p].page) = h.numthere /\ h.numthere \in Nat
    /\ \A t \in 1..h.numthere : t # s => h.page[t] = HugeTab[p].page[t]
    /\ HugeTab' = [HugeTab EXCEPT ![p] = h]

LEMMA PlacedIs ==
    ASSUME TypeOK, NEW p \in 1..Len(HugeTab), HugeTab[p].page # <<>>,
           NEW s \in 1..HugeTab[p].numthere, NEW a \in Nat, NEW w \in 0..Subpages,
           Placed(p, s, a, w)
    PROVE  \E h \in HugeSet : NowPlaced(h, p, s, a, w)
<1>1. HugeTab \in Seq(HugeSet) /\ HugeTab[p] \in HugeSet
  BY TypesAre
<1>2. PICK g \in Seq(Nat) : g = HugeTab[p].page
  BY <1>1 DEF HugeSet
<1>3. Len(g) = HugeTab[p].numthere /\ HugeTab[p].numthere \in Nat
  <2>1. Len(g) \in {0, HugeTab[p].numthere} /\ HugeTab[p].numthere \in 1..Subpages
    BY <1>2, TypesAre
  <2>2. Len(g) # 0
    BY <1>2
  <2> QED
    BY <2>1, <2>2, SubpageNumbers
<1>4. PICK e : e = [g EXCEPT ![s] = a]
  OBVIOUS
<1>5. e \in Seq(Nat) /\ Len(e) = Len(g) /\ e[s] = a /\ \A t \in 1..Len(g) : t # s => e[t] = g[t]
  <2>1. s \in 1..Len(g)
    BY <1>3
  <2> QED
    BY <1>4, <2>1, ItemSet
<1>6. PICK h : h = [HugeTab[p] EXCEPT !.page = e, !.numswapped = w]
  OBVIOUS
<1>7. /\ h \in HugeSet /\ h.numthere = HugeTab[p].numthere /\ h.sizelast = HugeTab[p].sizelast
      /\ h.numswapped = w /\ h.page = e
  BY <1>1, <1>5, <1>6 DEF HugeSet
<1>8. HugeTab' = [HugeTab EXCEPT ![p] = h]
  <2>1. HugeTab' = [HugeTab EXCEPT ![p] =
                      [HugeTab[p] EXCEPT !.page = [HugeTab[p].page EXCEPT ![s] = a], !.numswapped = w]]
    BY <1>1 DEF Placed, HugeSet
  <2> QED
    BY <1>2, <1>4, <1>6, <2>1
<1> QED
  BY <1>2, <1>3, <1>5, <1>7, <1>8 DEF NowPlaced

LEMMA HugeGiven ==
    ASSUME IInv, Active("AllocHugeNode"), NEW p, p = Top.page, NEW s, s = Top.index,
           NEW a \in Nat \ {0}, NEW w \in 0..Subpages, Placed(p, s, a, w),
           NEW nomem \in BOOLEAN, HugeNext(Top, nomem, Tail(stack)), ret' = 0, spill' \in Seq(Int),
           IF nomem THEN TempFile /\ w >= s ELSE w = 0,
           w = HugeTab[p].numswapped \/ (w = s /\ HugeTab[p].numswapped = 0),
           UNCHANGED <<SegTab, NextSwap, tiny, owned, relocs, heap, TempFile>>,
           NEW o, o = HugeNo(p, s)
    PROVE  /\ Control' /\ Accounted' /\ o \in Owners /\ o # NewBlock
           /\ ~HasPlace(o) /\ HasPlace(o)'
           /\ PlaceOf(o)' = IF nomem THEN InFile(a, SubSize(p, s)) ELSE InRam(a, SubSize(p, s))
           /\ \A q \in Owners \ {NewBlock, o} : SamePlace(q)
<1>1. /\ TypeOK /\ Kinds /\ Storage /\ Calls /\ HugePages /\ SwapList /\ Accounted
  BY IInvIs DEF Control
<1>2. /\ Leaving = {} /\ \A q : \A t \in Nat : Unplaced(q, t) <=> q = p /\ t <= s
      /\ p \in 1..Len(HugeTab) /\ p \in Nat /\ HugeTab[p].page # <<>>
      /\ s \in 1..HugeTab[p].numthere /\ s \in Nat \ {0}
  BY AddingHugeAt
<1>3. PICK h \in HugeSet :
             /\ h.numthere = HugeTab[p].numthere /\ h.sizelast = HugeTab[p].sizelast
             /\ h.numswapped = w /\ Len(h.page) = h.numthere /\ h.page[s] = a
             /\ Len(HugeTab[p].page) = h.numthere /\ h.numthere \in Nat
             /\ \A t \in 1..h.numthere : t # s => h.page[t] = HugeTab[p].page[t]
             /\ HugeTab' = [HugeTab EXCEPT ![p] = h]
  <2>1. PICK h \in HugeSet : NowPlaced(h, p, s, a, w)
    BY <1>1, <1>2, PlacedIs
  <2> QED
    BY <2>1 DEF NowPlaced
<1>4. /\ ram' = ram /\ room' = room /\ cache' = cache /\ other' = other
      /\ SegTab' = SegTab /\ NextSwap' = NextSwap /\ owned' = owned /\ relocs' = relocs
  BY DEF heap
<1>5. /\ Len(HugeTab') = Len(HugeTab) /\ HugeTab'[p] = h
      /\ \A q \in 1..Len(HugeTab) : q # p => HugeTab'[q] = HugeTab[q]
  <2>1. HugeTab \in Seq(HugeSet) /\ HugeTab' = [HugeTab EXCEPT ![p] = h]
    BY <1>1, <1>3, TypesAre
  <2> QED
    BY <1>2, <2>1, ItemSet
<1>6. OnTo(p, s)
  <2>1. h.page # <<>>
    BY <1>2, <1>3
  <2>2. IF nomem THEN TempFile' /\ HugeTab'[p].numswapped > s - 1
                 ELSE HugeTab'[p].numswapped = 0
    BY <1>2, <1>3, <1>5
  <2>3. HugeTab'[p].page # <<>> /\ HugeTab'[p].numthere = HugeTab[p].numthere
    BY <1>3, <1>5, <2>1
  <2> QED
    BY <1>4, <1>5, <2>2, <2>3, HugeCalls
<1>7. /\ stack' \in Seq(Frames) /\ Calls' /\ Leaving' = {}
      /\ status' \in {"run", "fatal", "overflow"} /\ (status' # "overflow" => Len(stack') <= MaxDepth)
      /\ \A q : \A t \in Nat \ {0} : Unplaced(q, t)' <=> q = p /\ t <= s - 1
  BY <1>6 DEF OnTo
<1>8. TypeOK' /\ Storage'
  <2>1. h.numswapped <= h.numthere
    <3>1. HugeTab[p].numswapped <= HugeTab[p].numthere
      BY <1>1, <1>2 DEF TypeOK
    <3> QED
      BY <1>2, <1>3, <3>1
  <2>2. ret' \in Nat /\ Len(h.page) \in {0, h.numthere} /\ HugeTab' = [HugeTab EXCEPT ![p] = h]
        /\ h.numthere = HugeTab[p].numthere /\ h.sizelast = HugeTab[p].sizelast
    BY <1>3
  <2>3. UNCHANGED <<SegTab, NextSwap, tiny, owned, relocs, ram, room, cache, other, TempFile>>
    BY <1>4
  <2> QED
    BY <1>1, <1>2, <1>7, <2>1, <2>2, <2>3, HugeTabStep
<1>9. Kinds'
  BY <1>1, <1>4, <1>5, <1>7 DEF Kinds
<1>10. HugePages'
  <2>1. ASSUME NEW q \in 1..Len(HugeTab'), NEW t \in 1..Len(HugeTab'[q].page)
        PROVE  HugeTab'[q].page[t] = 0 <=> Unplaced(q, t)'
    <3>1. CASE q = p
      <4>1. t \in 1..h.numthere /\ t \in Nat \ {0} /\ HugeTab'[q].page[t] = h.page[t]
        BY <1>3, <1>5, <3>1
      <4>2. Unplaced(q, t)' <=> t <= s - 1
        BY <1>7, <3>1, <4>1
      <4>3. CASE t = s
        BY <1>2, <1>3, <4>1, <4>2, <4>3
      <4>4. CASE t # s
        <5>1. HugeTab[p].page[t] = 0 <=> t <= s
          <6>1. HugeTab[p].page[t] = 0 <=> Unplaced(p, t)
            BY <1>1, <1>2, <1>3, <4>1, SMTT(30) DEF HugePages
          <6> QED
            BY <1>2, <4>1, <6>1
        <5>2. h.page[t] = HugeTab[p].page[t]
          BY <1>3, <4>1, <4>4
        <5>3. t <= s <=> t <= s - 1
          BY <1>2, <4>1, <4>4
        <5> QED
          BY <4>1, <4>2, <5>1, <5>2, <5>3
      <4> QED
        BY <4>3, <4>4
    <3>2. CASE q # p
      <4>1. HugeTab'[q] = HugeTab[q] /\ q \in 1..Len(HugeTab)
        BY <1>5, <3>2
      <4>2. t \in Nat \ {0}
        <5>1. HugeTab[q].page \in Seq(Nat)
          BY <1>1, <4>1, TypesAre
        <5> QED
          BY <4>1, <5>1
      <4>3. ~Unplaced(q, t) /\ ~Unplaced(q, t)'
        BY <1>2, <1>7, <3>2, <4>2
      <4> QED
        BY <1>1, <4>1, <4>3 DEF HugePages
    <3> QED
      BY <3>1, <3>2
  <2>2. ASSUME NEW q \in 1..Len(HugeTab'), HugeTab'[q].page = <<>>
        PROVE  HugeTab'[q].numswapped = 0
    <3>1. q # p
      BY <1>2, <1>3, <1>5, <2>2
    <3> QED
      BY <1>1, <1>5, <2>2, <3>1 DEF HugePages
  <2> QED
    BY <2>1, <2>2 DEF HugePages
<1>11. SwapList' /\ Accounted'
  BY <1>1, <1>4 DEF SwapList, SwapListExact, Accounted, CellsIn
<1>12. o \in Owners /\ o # NewBlock /\ ~HasPlace(o)
  <2>1. HugeTab[p].page[s] = 0
    <3>1. HugeTab[p].page[s] = 0 <=> Unplaced(p, s)
      BY <1>1, <1>2, <1>3 DEF HugePages
    <3> QED
      BY <1>2, <3>1
  <2>2. o \in Owners /\ ~HasPlace(o)
    BY <1>2, <2>1, HugePlace, TheyAreOwners
  <2> QED
    BY <2>2 DEF HugeNo, NewBlock
<1>13. /\ HasPlace(o)'
       /\ PlaceOf(o)' = IF nomem THEN InFile(a, SubSize(p, s)) ELSE InRam(a, SubSize(p, s))
  <2>1. o.kind = "huge" /\ o.no = p /\ o.sub = s
    BY DEF HugeNo
  <2>2. p \in 1..Len(HugeTab') /\ s \in 1..Len(HugeTab'[p].page) /\ HugeTab'[p].page[s] = a
    BY <1>2, <1>3, <1>5
  <2>3. HasPlace(o)'
    BY <2>1, <2>2 DEF HasPlace
  <2>4. SubSize(p, s)' = SubSize(p, s)
    BY <1>3, <1>5 DEF SubSize
  <2>5. s > HugeTab'[p].numswapped <=> ~nomem
    BY <1>2, <1>3, <1>5
  <2> QED
    BY <2>1, <2>2, <2>3, <2>4, <2>5 DEF PlaceOf
<1>14. \A q \in Owners \ {NewBlock, o} : SamePlace(q)
  <2> SUFFICES ASSUME NEW q \in Owners, q # o, q # NewBlock PROVE SamePlace(q)
    OBVIOUS
  <2>1. CASE q.kind = "node"
    BY <1>2, <1>4, <1>7, <2>1, NodeSame
  <2>2. CASE q.kind = "huge" /\ q.no # p
    BY <1>5, <2>2, HugeSame
  <2>3. CASE q.kind = "huge" /\ q.no = p
    <3>1. q.sub # s
      BY <2>3, OwnersAre DEF HugeNo
    <3>2. q.kind # "node" /\ q.kind # "reloc" /\ q.kind # "new"
      BY <2>3
    <3>3. PICK t \in Nat : t = q.sub
      BY OwnersAre
    <3>4. t \in 1..Len(HugeTab'[p].page) <=> t \in 1..Len(HugeTab[p].page)
      BY <1>3, <1>5
    <3>5. t \in 1..Len(HugeTab[p].page) => HugeTab'[p].page[t] = HugeTab[p].page[t]
      BY <1>3, <1>5, <3>1, <3>3
    <3>6. HasPlace(q)' <=> HasPlace(q)
      BY <1>5, <2>3, <3>2, <3>3, <3>4, <3>5 DEF HasPlace
    <3>7. ASSUME HasPlace(q) PROVE PlaceOf(q)' = PlaceOf(q)
      <4>1. t \in 1..Len(HugeTab[p].page) /\ HugeTab[p].page[t] # 0
        BY <2>3, <3>2, <3>3, <3>7 DEF HasPlace
      <4>2. t > s
        <5>1. ~Unplaced(p, t)
          BY <1>1, <1>2, <4>1 DEF HugePages
        <5> QED
          BY <1>2, <5>1
      <4>3. t > HugeTab'[p].numswapped <=> t > HugeTab[p].numswapped
        BY <1>2, <1>3, <1>5, <4>2
      <4>4. SubSize(p, t)' = SubSize(p, t)
        BY <1>3, <1>5 DEF SubSize
      <4> QED
        BY <2>3, <3>2, <3>3, <3>5, <4>1, <4>3, <4>4 DEF PlaceOf
    <3> QED
      BY <3>6, <3>7 DEF SamePlace
  <2>4. CASE q.kind = "reloc"
    BY <1>4, <2>4, RelocSame DEF RelocAt
  <2>5. CASE q.kind = "new"
    BY <2>5, OneNew
  <2> QED
    BY <2>1, <2>2, <2>3, <2>4, <2>5, OwnersAre
<1> QED
  BY <1>7, <1>8, <1>9, <1>10, <1>11, <1>12, <1>13, <1>14 DEF Control

LEMMA HugeInRam ==
    ASSUME IInv, Active("AllocHugeNode"), NEW p, p = Top.page, NEW s, s = Top.index, ret # 0,
           HugeTab' = [HugeTab EXCEPT ![p].page[s] = ret],
           HugeNext(Top, FALSE, Tail(stack)), ret' = 0,
           UNCHANGED <<SegTab, NextSwap, tiny, owned, relocs, heap, file>>
    PROVE  IInv' /\ CellsKept
<1>1. TypeOK /\ Data /\ ret \in Nat \ {0} /\ spill \in Seq(Int)
  BY IInvIs DEF Control, TypeOK
<1>2. /\ ret \in DOMAIN ram /\ Len(ram[ret]) = SubSize(p, s) /\ HugeTab[p].numswapped = 0
      /\ p \in 1..Len(HugeTab) /\ s \in 1..HugeTab[p].numthere /\ HugeTab[p] \in HugeSet
      /\ HugeTab \in Seq(HugeSet)
  <2>1. /\ p \in 1..Len(HugeTab) /\ s \in 1..HugeTab[p].numthere
        /\ Top.nomem => TempFile /\ ret = 0 /\ HugeTab[p].numswapped > s
        /\ ~Top.nomem => HugeTab[p].numswapped = 0
        /\ ret # 0 => ret \in DOMAIN ram /\ Len(ram[ret]) = SubSize(p, s)
    BY AddingHugeAt
  <2> QED
    BY <1>1, <2>1, TypesAre
<1>3. PICK w \in 0..Subpages : w = 0
  BY Constants
<1>4. Placed(p, s, ret, w)
  <2>1. [HugeTab EXCEPT ![p].page[s] = ret, ![p].numswapped = w] = [HugeTab EXCEPT ![p].page[s] = ret]
    BY <1>2, <1>3 DEF HugeSet
  <2> QED
    BY <2>1 DEF Placed
<1> SUFFICES ASSUME NEW o, o = HugeNo(p, s) PROVE IInv' /\ CellsKept
  OBVIOUS
<1>5. PICK nomem \in BOOLEAN : nomem = FALSE
  OBVIOUS
<1>6. /\ IF nomem THEN TempFile /\ w >= s ELSE w = 0
      /\ w = HugeTab[p].numswapped \/ (w = s /\ HugeTab[p].numswapped = 0)
      /\ HugeNext(Top, nomem, Tail(stack))
  BY <1>2, <1>3, <1>5
<1>7. /\ spill' = spill /\ spill' \in Seq(Int)
      /\ UNCHANGED <<SegTab, NextSwap, tiny, owned, relocs, heap, TempFile>>
  BY <1>1 DEF file
<1>8. PICK a \in Nat \ {0} : a = ret
  BY <1>1
<1>9. Placed(p, s, a, w)
  BY <1>4, <1>8
<1>10. /\ Control' /\ Accounted' /\ o \in Owners /\ o # NewBlock
       /\ ~HasPlace(o) /\ HasPlace(o)'
       /\ PlaceOf(o)' = IF nomem THEN InFile(a, SubSize(p, s)) ELSE InRam(a, SubSize(p, s))
       /\ \A q \in Owners \ {NewBlock, o} : SamePlace(q)
  BY <1>6, <1>7, <1>9, HugeGiven
<1>11. PlaceOf(o)' = InRam(ret, Len(ram[ret]))
  BY <1>2, <1>5, <1>8, <1>10
<1>12. UNCHANGED <<ram, spill, relocs>>
  BY <1>7 DEF heap
<1>13. Data' /\ CellsKept
  BY <1>1, <1>10, <1>11, <1>12, BlockGiven
<1> QED
  BY <1>10, <1>13 DEF IInv, Data

LEMMA HugeInFile ==
    ASSUME IInv, Active("AllocHugeNode"), NEW p, p = Top.page, NEW s, s = Top.index,
           ret = 0, TempFile,
           HugeTab' = [HugeTab EXCEPT ![p].page[s] = SpillBase,
                                      ![p].numswapped = IF Top.nomem THEN @ ELSE s],
           spill' = Spilled(SubSize(p, s)),
           HugeNext(Top, TRUE, Tail(stack)),
           UNCHANGED <<SegTab, NextSwap, tiny, owned, relocs, heap, TempFile, ret>>
    PROVE  IInv' /\ CellsKept
<1>1. TypeOK /\ Data /\ spill \in Seq(Int) /\ Len(spill) \in Nat
  BY IInvIs DEF Control, TypeOK
<1>2. /\ p \in 1..Len(HugeTab) /\ s \in 1..HugeTab[p].numthere /\ s \in Nat \ {0}
      /\ Top.nomem => HugeTab[p].numswapped > s
      /\ ~Top.nomem => HugeTab[p].numswapped = 0
  BY AddingHugeAt, SMTT(30)
<1>3. HugeTab[p].numthere \in 1..Subpages /\ HugeTab[p].numswapped \in 0..Subpages
      /\ HugeTab[p] \in HugeSet /\ HugeTab \in Seq(HugeSet) /\ HugeTab[p].sizelast \in 1..SubCells
  BY <1>1, <1>2, TypesAre
<1>4. SubSize(p, s) \in Nat \ {0}
  <2>1. SubSize(p, s) \in 1..SubCells
    <3>1. SubCells \in Nat \ {0}
      BY Constants
    <3> QED
      BY <1>3, <3>1 DEF SubSize
  <2> QED
    BY <2>1, SizeNumbers
<1>5. PICK z \in Nat \ {0} : z = SubSize(p, s)
  BY <1>4
<1>6. SpillBase \in Nat /\ SpillBase > Len(spill) /\ Spilled(z) \in Seq(Int)
  BY <1>1, <1>5, SpilledIs
<1>7. PICK w \in 0..Subpages : w = IF Top.nomem THEN HugeTab[p].numswapped ELSE s
  BY <1>2, <1>3, SubpageNumbers
<1>8. Placed(p, s, SpillBase, w)
  <2>1. [HugeTab EXCEPT ![p].page[s] = SpillBase, ![p].numswapped = w]
          = [HugeTab EXCEPT ![p].page[s] = SpillBase,
                            ![p].numswapped = IF Top.nomem THEN @ ELSE s]
    BY <1>2, <1>3, <1>7 DEF HugeSet
  <2> QED
    BY <2>1 DEF Placed
<1> SUFFICES ASSUME NEW o, o = HugeNo(p, s) PROVE IInv' /\ CellsKept
  OBVIOUS
<1>9. PICK nomem \in BOOLEAN : nomem = TRUE
  OBVIOUS
<1>10. /\ IF nomem THEN TempFile /\ w >= s ELSE w = 0
       /\ w = HugeTab[p].numswapped \/ (w = s /\ HugeTab[p].numswapped = 0)
       /\ HugeNext(Top, nomem, Tail(stack))
  <2>1. HugeNext(Top, nomem, Tail(stack))
    BY <1>9
  <2>2. PICK v \in 0..Subpages : v = HugeTab[p].numswapped
    BY <1>3
  <2>3. Subpages \in Nat
    BY Constants
  <2>4. CASE Top.nomem
    <3>1. w = v /\ v > s
      BY <1>2, <1>7, <2>2, <2>4
    <3>2. w >= s
      BY <1>2, <2>3, <3>1
    <3> QED
      BY <1>9, <2>1, <2>2, <3>1, <3>2
  <2>5. CASE ~Top.nomem
    <3>1. w = s /\ HugeTab[p].numswapped = 0
      BY <1>2, <1>7, <2>5
    <3>2. w >= s
      BY <2>3, <3>1
    <3> QED
      BY <1>9, <2>1, <3>1, <3>2
  <2> QED
    BY <2>4, <2>5
<1>11. PICK a \in Nat \ {0} : a = SpillBase
  BY <1>1, <1>6
<1>12. Placed(p, s, a, w)
  BY <1>8, <1>11
<1>13. /\ ret' = 0 /\ spill' \in Seq(Int)
       /\ UNCHANGED <<SegTab, NextSwap, tiny, owned, relocs, heap, TempFile>>
  BY <1>5, <1>6
<1>14. /\ Control' /\ Accounted' /\ o \in Owners /\ o # NewBlock
       /\ ~HasPlace(o) /\ HasPlace(o)'
       /\ PlaceOf(o)' = IF nomem THEN InFile(a, SubSize(p, s)) ELSE InRam(a, SubSize(p, s))
       /\ \A q \in Owners \ {NewBlock, o} : SamePlace(q)
  BY <1>10, <1>12, <1>13, HugeGiven
<1>15. PlaceOf(o)' = InFile(SpillBase, z) /\ spill' = Spilled(z)
  BY <1>5, <1>9, <1>11, <1>14
<1>16. UNCHANGED <<ram, relocs>>
  BY DEF heap
<1>17. Data' /\ CellsKept
  BY <1>1, <1>13, <1>14, <1>15, <1>16, AreaGiven
<1> QED
  BY <1>14, <1>17 DEF IInv, Data

LEMMA AllocHugeNodeStep ==
    ASSUME IInv, AllocHugeNode
    PROVE  IInv' /\ CellsKept
<1>1. Active("AllocHugeNode") /\ "AllocHugeNode" \in Askers /\ stack # <<>> /\ Top.fn = "AllocHugeNode"
  BY DEF AllocHugeNode, Askers, Active
<1> SUFFICES ASSUME NEW p, p = Top.page, NEW s, s = Top.index PROVE IInv' /\ CellsKept
  OBVIOUS
<1>2. CASE /\ ret # 0 /\ HugeTab' = [HugeTab EXCEPT ![p].page[s] = ret]
           /\ HugeNext(Top, FALSE, Tail(stack)) /\ ret' = 0
           /\ UNCHANGED <<SegTab, NextSwap, tiny, owned, relocs, heap, file>>
  BY <1>1, <1>2, HugeInRam
<1>3. CASE ret = 0 /\ OpenFirst
  BY <1>1, <1>3, OpenFirstStep
<1>4. CASE /\ ret = 0 /\ TempFile
           /\ HugeTab' = [HugeTab EXCEPT ![p].page[s] = SpillBase,
                                         ![p].numswapped = IF Top.nomem THEN @ ELSE s]
           /\ spill' = Spilled(SubSize(p, s)) /\ HugeNext(Top, TRUE, Tail(stack))
           /\ UNCHANGED <<SegTab, NextSwap, tiny, owned, relocs, heap, TempFile, ret>>
  BY <1>1, <1>4, HugeInFile
<1> QED
  BY <1>2, <1>3, <1>4 DEF AllocHugeNode

============================================================================
