--------------------------- MODULE ThreadDataProofs ----------------------------
(***************************************************************************)
(* What ThreadData guarantees for any number of threads, registrations and *)
(* entries: structures and calls are of their kind, each thread finds its  *)
(* own data, nothing is used after it was freed, and the data fits every   *)
(* library.                                                                *)
(*                                                                         *)
(* The invariant follows a thread's data through the list: which locks a   *)
(* thread has at a statement (Semaphores), what a statement finds in the   *)
(* thread's slot (Control), that no two entries, and no entry and thread   *)
(* that adds, share data (Ownership), that the first entry of a thread's   *)
(* id has the thread's data, stale entries of that id only after it        *)
(* (Found), that exit has freed what lies before tdl and only that, and    *)
(* that threads which start meanwhile have their entries there too         *)
(* (Leaving), and that no registration overtakes the data that a thread is *)
(* about to add (NewFits).                                                 *)
(***************************************************************************)
EXTENDS ThreadData, FiniteSetTheorems, SequenceTheorems, TLAPS

\* The statements at which a thread has the semaphore of the list ...
InList == {"link", "added", "failed", "resize", "resized", "grow", "mark",
           "registered", "find", "unlink", "removed"}

\* ... and those at which it is in the entry point of a DLL.
InLoader(t) ==
    /\ Is_DLL
    /\ \/ pc[t] \in {"attached", "register", "grow", "mark", "registered", "detach",
                     "remove", "find", "unlink", "removed"}
       \/ pc[t] \in {"alloc", "add", "link", "added", "failed"} /\ t \notin foreign

Semaphores ==
    /\ \A t \in Threads : held[t]["TDList"] = IF pc[t] = "mark" THEN 2
                                              ELSE IF pc[t] \in InList THEN 1 ELSE 0
    /\ \A t \in Threads : held[t]["Loader"] = IF InLoader(t) THEN 1 ELSE 0
    /\ \A t, u \in Threads : t # u =>
          /\ ~(pc[t] \in InList /\ pc[u] \in InList)
          /\ ~(InLoader(t) /\ InLoader(u))

\* What a statement of t finds in its slot, and what a program never does.
Control ==
    \A t \in Threads :
        /\ Is_DLL => pc[t] # "fini"
        /\ ~Is_DLL => pc[t] \notin {"attached", "realloc", "resize", "resized", "register",
                                    "grow", "mark", "registered", "detach"}
        /\ pc[t] \in {"none", "alloc", "add", "link", "added", "failed"} => tls[t] = NULL
        /\ pc[t] \in {"idle", "attached", "register", "grow", "mark", "registered"}
              => tls[t] # NULL \/ t \in foreign
        /\ pc[t] \in {"realloc", "resize", "resized", "remove", "find", "unlink", "removed"}
              => tls[t] # NULL
        /\ ~Is_DLL /\ pc[t] = "alloc" => t \in foreign

\* TypeOK in three parts, each with what its preservation needs. No structure has
\* the address NULL.
ThreadsOK ==
    /\ Is_DLL \in BOOLEAN
    /\ tls \in [Threads -> Nat] /\ mine \in [Threads -> Nat]
    /\ pc \in [Threads -> Labels] /\ foreign \subseteq Threads
    /\ tdl \in [Threads -> Nat] /\ wild \in BOOLEAN /\ over \in BOOLEAN
    /\ held \in [Threads -> [Objects -> 0..2]]

ListOK ==
    /\ list \in Seq(Nat) /\ IsInjective(list) /\ NULL \notin ToSet(list)
    /\ DOMAIN entry \subseteq ToSet(list)
    /\ ~Exiting => ToSet(list) = DOMAIN entry
    /\ IsFiniteSet(DOMAIN entry)
    /\ \A e \in DOMAIN entry :
          entry[e] \in [tid : Threads, data : Nat \ {NULL}, allocated : BOOLEAN]

\* A program has the size it starts with and marks nothing; a DLL has no data on
\* a stack.
DataOK ==
    /\ ThreadDataSize \in 1..MaxSize /\ (~Is_DLL => ThreadDataSize = 1)
    /\ \A t \in Threads : pc[t] \in {"register", "grow"} => ThreadDataSize < MaxSize
    /\ IsFiniteSet(DOMAIN data) /\ DOMAIN data \subseteq Nat \ {NULL}
    /\ \A d \in DOMAIN data :
          /\ data[d] \in [size : 1..MaxSize, resize : BOOLEAN,
                          stack : Threads \cup {NoThread}]
          /\ data[d].size <= ThreadDataSize
          /\ Is_DLL => data[d].stack = NoThread
          /\ ~Is_DLL => ~data[d].resize

\* The data that the first entry of t's id has, once the thread is listed.
Owning(t) == pc[t] = "added" \/ (tls[t] # NULL /\ pc[t] \notin {"removed", "fini"})
Own(t) == IF pc[t] = "added" THEN mine[t] ELSE tls[t]

First(t, i) ==
    /\ i \in 1..Len(list)
    /\ list[i] \in DOMAIN entry /\ entry[list[i]].tid = t
    /\ \A j \in 1..(i - 1) : list[j] \in DOMAIN entry /\ entry[list[j]].tid # t

Found ==
    \A t \in Threads : Owning(t) =>
        \E i \in 1..Len(list) : First(t, i) /\ entry[list[i]].data = Own(t)

\* Where an entry's data is: on the heap, or on the stack of its thread; a thread
\* at "unlink" has freed its own.
InPlace(e) ==
    LET t == entry[e].tid
        d == entry[e].data
    IN  IF entry[e].allocated
        THEN IF pc[t] = "unlink" /\ tls[t] = d
             THEN d \notin DOMAIN data
             ELSE d \in DOMAIN data /\ data[d].stack = NoThread
        ELSE d \in DOMAIN data /\ data[d].stack = t /\ d = Own(t) /\ t \notin foreign

Ownership ==
    /\ \A e, f \in DOMAIN entry : e # f => entry[e].data # entry[f].data
    /\ \A e \in DOMAIN entry : InPlace(e)
    /\ \A t \in Adding :
          /\ mine[t] \in DOMAIN data
          /\ data[mine[t]].stack \in {NoThread, t}
          /\ t \in foreign => data[mine[t]].stack = NoThread
          /\ \A e \in DOMAIN entry : entry[e].data # mine[t]
    /\ \A t, u \in Adding : t # u => mine[t] # mine[u]
    /\ \A d \in DOMAIN data : data[d].stack = NoThread =>
          \/ \E e \in DOMAIN entry : entry[e].allocated /\ entry[e].data = d
          \/ \E t \in Adding : mine[t] = d
    /\ \A t \in Threads : pc[t] = "removed" =>
          \A e \in DOMAIN entry : entry[e].data # tls[t]

\* tdl is at place p of the list, or past its end.
Leaving ==
    \A t \in Threads : pc[t] = "fini" =>
        /\ \A u \in Threads \ {t} : pc[u] # "fini"
        /\ \E p \in 1..(Len(list) + 1) :
              /\ tdl[t] = IF p = Len(list) + 1 THEN NULL ELSE list[p]
              /\ \A i \in p..Len(list) : list[i] \in DOMAIN entry
              /\ \A u \in Threads, i \in p..Len(list) : ~(Owning(u) /\ First(u, i))

\* What a thread adds fits as it will when it is the thread's.
NewFits ==
    \A t \in Threads \ foreign :
        pc[t] \in {"add", "link", "added"} => data[mine[t]].size = ThreadDataSize

IInv == /\ ThreadsOK /\ ListOK /\ DataOK /\ Semaphores /\ Control
        /\ Found /\ Ownership /\ Leaving /\ NewFits /\ DataFits /\ FreedIsLeft

-------------------------------------------------------------------------------
(***************************************************************************)
(* Numbers of structures, functions with one more value, and places.       *)
(***************************************************************************)
\* A set of naturals has a least number: what SelectInSeq returns.
LEMMA MinOfNaturals ==
    ASSUME NEW S \in SUBSET Nat, S # {}
    PROVE  /\ Min(S) \in S
           /\ \A i \in S : Min(S) <= i
<1> DEFINE R == {ss \in Nat \X Nat : ss[1] < ss[2]}
<1>1. IsWellFoundedOn(R, Nat)
  BY NatLessThanWellFounded DEF OpToRel
<1>2. PICK x \in S : \A y \in S : ~(<<y, x>> \in R)
  BY <1>1, WFMin
<1>3. \A y \in S : ~(y < x)
  BY <1>2
<1>4. \A y \in S : x <= y
  BY <1>3
<1> QED
  BY <1>4 DEF Min

\* A finite set leaves one of the first numbers out.
LEMMA UnusedIsNew ==
    ASSUME NEW used, IsFiniteSet(used)
    PROVE  Unused(used) \in Nat \ {0} /\ Unused(used) \notin used
<1> DEFINE c == Cardinality(used)
<1>1. c \in Nat
  BY FS_CardinalityType
<1>2. IsFiniteSet(1..(c + 1)) /\ Cardinality(1..(c + 1)) = c + 1
  BY <1>1, FS_Interval
<1>3. ASSUME 1..(c + 1) \subseteq used PROVE FALSE
  BY <1>1, <1>2, <1>3, FS_Subset
<1>4. PICK n \in 1..(c + 1) : n \notin used
  BY <1>3
<1>5. Unused(used) \in 1..(c + 1) /\ Unused(used) \notin used
  BY <1>4 DEF Unused
<1> QED
  BY <1>1, <1>5

\* A function of a finite set has finitely many values.
LEMMA FiniteRange ==
    ASSUME NEW S, NEW f, f = [x \in S |-> f[x]], IsFiniteSet(S)
    PROVE  IsFiniteSet({f[x] : x \in S})
<1>1. f \in Surjection(S, {f[x] : x \in S})
  BY DEF Surjection
<1> QED
  BY <1>1, FS_Surjection

\* What the heap gives for data, nothing points to ...
LEMMA NewDataIsNew ==
    ASSUME ThreadsOK, ListOK, DataOK
    PROVE  /\ NewData \in Nat \ {NULL} /\ NewData \notin DOMAIN data
           /\ \A t \in Threads : NewData # tls[t] /\ NewData # mine[t]
           /\ \A e \in DOMAIN entry : NewData # entry[e].data
<1> DEFINE D == {entry[e].data : e \in DOMAIN entry}
<1>1. IsFiniteSet(Range(tls)) /\ IsFiniteSet(Range(mine))
  <2>1. tls = [x \in Threads |-> tls[x]] /\ mine = [x \in Threads |-> mine[x]]
    BY DEF ThreadsOK
  <2> QED
    BY <2>1, FiniteRange, ThreadDataAssumption DEF Range
<1>2. IsFiniteSet(D)
  <2> DEFINE g == [e \in DOMAIN entry |-> entry[e].data]
  <2>1. IsFiniteSet(DOMAIN entry)
    BY DEF ListOK
  <2>2. IsFiniteSet({g[x] : x \in DOMAIN entry})
    BY <2>1, FiniteRange
  <2> QED
    BY <2>2
<1>3. IsFiniteSet(DOMAIN data \cup Range(tls) \cup Range(mine) \cup D)
  BY <1>1, <1>2, FS_Union DEF ListOK, DataOK
<1>4. /\ NewData \in Nat \ {0}
      /\ NewData \notin DOMAIN data \cup Range(tls) \cup Range(mine) \cup D
  BY <1>3, UnusedIsNew DEF NewData
<1> QED
  BY <1>4 DEF ThreadsOK, Range, NULL

\* ... nor to what it gives for an entry.
LEMMA NewEntryIsNew ==
    ASSUME ThreadsOK, ListOK, DataOK
    PROVE  /\ NewEntry \in Nat \ {NULL} /\ NewEntry \notin DOMAIN entry
           /\ NewEntry \notin ToSet(list)
           /\ \A t \in Threads : NewEntry # tdl[t]
<1>1. IsFiniteSet(Range(tdl))
  <2>1. tdl = [x \in Threads |-> tdl[x]]
    BY DEF ThreadsOK
  <2> QED
    BY <2>1, FiniteRange, ThreadDataAssumption DEF Range
<1>2. IsFiniteSet(ToSet(list))
  <2>1. DOMAIN list = 1..Len(list) /\ Len(list) \in Nat
    BY DEF ListOK
  <2>2. list = [x \in DOMAIN list |-> list[x]]
    BY DEF ListOK
  <2>3. IsFiniteSet(DOMAIN list)
    BY <2>1, FS_Interval
  <2> QED
    BY <2>2, <2>3, FiniteRange DEF ToSet
<1>3. IsFiniteSet(DOMAIN entry \cup ToSet(list) \cup Range(tdl))
  BY <1>1, <1>2, FS_Union DEF ListOK, DataOK
<1>4. NewEntry \in Nat \ {0} /\ NewEntry \notin DOMAIN entry \cup ToSet(list) \cup Range(tdl)
  BY <1>3, UnusedIsNew DEF NewEntry
<1> QED
  BY <1>4 DEF ThreadsOK, Range, NULL

\* What Without leaves of a function.
LEMMA OneLess ==
    ASSUME NEW f, NEW k
    PROVE  /\ DOMAIN Without(f, k) = DOMAIN f \ {k}
           /\ \A x \in DOMAIN f \ {k} : Without(f, k)[x] = f[x]
BY DEF Without

\* The search for an entry of t's id stops at the first.
LEMMA FirstPlace ==
    ASSUME NEW t, NEW i, list \in Seq(Nat), First(t, i)
    PROVE  Place(t) = i /\ Entry(t) = list[i]
<1> DEFINE I == {j \in 1..Len(list) : list[j] \in DOMAIN entry /\ entry[list[j]].tid = t}
<1>1. I \in SUBSET Nat /\ i \in I /\ i \in 1..Len(list)
  BY DEF First
<1>2. Place(t) = Min(I)
  BY <1>1 DEF Place, SelectInSeq
<1>3. Min(I) = i
  <2>1. Min(I) \in I /\ Min(I) <= i
    BY <1>1, MinOfNaturals
  <2> QED
    BY <2>1 DEF First
<1> QED
  BY <1>1, <1>2, <1>3 DEF Entry

\* tdl->next is the next of the list, as no entry is linked twice.
LEMMA PlaceOf ==
    ASSUME NEW p \in 1..Len(list), ListOK
    PROVE  Following(list[p]) = IF p = Len(list) THEN NULL ELSE list[p + 1]
<1> DEFINE I == {j \in 1..Len(list) : list[j] = list[p]}
<1>1. I = {p}
  BY DEF ListOK, IsInjective
<1>2. Min(I) = p
  BY <1>1 DEF Min
<1>3. SelectInSeq(list, LAMBDA x : x = list[p]) = p
  BY <1>1, <1>2 DEF SelectInSeq
<1> QED
  BY <1>3 DEF Following, ListOK

\* A thread that has data finds it under its id ...
LEMMA OwnEntry ==
    ASSUME IInv, NEW t \in Threads, Owning(t)
    PROVE  /\ First(t, Place(t)) /\ Place(t) \in 1..Len(list)
           /\ Entry(t) = list[Place(t)] /\ Entry(t) # NULL
           /\ Entry(t) \in DOMAIN entry /\ entry[Entry(t)].tid = t
           /\ entry[Entry(t)].data = Own(t)
<1>1. PICK i \in 1..Len(list) : First(t, i) /\ entry[list[i]].data = Own(t)
  BY DEF IInv, Found
<1>2. Place(t) = i /\ Entry(t) = list[i]
  BY <1>1, FirstPlace DEF IInv, ListOK
<1>3. list[i] # NULL
  BY <1>1 DEF IInv, ListOK, ToSet
<1> QED
  BY <1>1, <1>2, <1>3 DEF First

\* ... and it is there, until the thread has freed it.
LEMMA OwnDataIsThere ==
    ASSUME IInv, NEW t \in Threads, Owning(t)
    PROVE  /\ Own(t) \in Nat \ {NULL}
           /\ pc[t] # "unlink" \/ ~entry[Entry(t)].allocated => Own(t) \in DOMAIN data
<1>1. Entry(t) \in DOMAIN entry /\ entry[Entry(t)].tid = t /\ entry[Entry(t)].data = Own(t)
  BY OwnEntry
<1>2. InPlace(Entry(t))
  BY <1>1 DEF IInv, Ownership
<1> QED
  BY <1>1, <1>2 DEF IInv, ListOK, InPlace

\* Linking an entry at the head of the list moves the others by one.
LEMMA PutFirst ==
    ASSUME NEW s \in Seq(Nat), IsInjective(s), NEW n \in Nat, n \notin ToSet(s)
    PROVE  LET r == <<n>> \o s
           IN  /\ r \in Seq(Nat) /\ Len(r) = Len(s) + 1 /\ IsInjective(r)
               /\ r[1] = n /\ \A i \in 1..Len(s) : r[i + 1] = s[i]
               /\ ToSet(r) = ToSet(s) \cup {n}
<1> DEFINE r == <<n>> \o s
<1>1. /\ <<n>> \in Seq(Nat) /\ Len(<<n>>) = 1 /\ <<n>>[1] = n
      /\ r \in Seq(Nat) /\ Len(r) = Len(s) + 1 /\ Len(s) \in Nat
      /\ DOMAIN s = 1..Len(s) /\ DOMAIN r = 1..(Len(s) + 1)
  BY ConcatProperties
<1>2. /\ r[1] = n /\ \A i \in 1..Len(s) : r[i + 1] = s[i]
      /\ \A k \in 2..(Len(s) + 1) : k - 1 \in 1..Len(s) /\ r[k] = s[k - 1]
  BY <1>1, ConcatProperties
<1> HIDE DEF r
<1>3. ToSet(r) = ToSet(s) \cup {n}
  <2>1. ASSUME NEW x \in ToSet(r) PROVE x \in ToSet(s) \cup {n}
    <3>1. PICK k \in 1..(Len(s) + 1) : x = r[k]
      BY <1>1 DEF ToSet
    <3>2. k = 1 \/ k \in 2..(Len(s) + 1)
      BY <1>1
    <3> QED
      BY <1>1, <1>2, <3>1, <3>2 DEF ToSet
  <2>2. ASSUME NEW x \in ToSet(s) \cup {n} PROVE x \in ToSet(r)
    <3>1. CASE x = n
      BY <1>1, <1>2, <3>1 DEF ToSet
    <3>2. CASE x \in ToSet(s)
      <4>1. PICK i \in 1..Len(s) : x = s[i]
        BY <1>1, <3>2 DEF ToSet
      <4>2. i + 1 \in 1..(Len(s) + 1) /\ r[i + 1] = x
        BY <1>1, <1>2, <4>1
      <4> QED
        BY <1>1, <4>2 DEF ToSet
    <3> QED
      BY <2>2, <3>1, <3>2
  <2> QED
    BY <2>1, <2>2
<1>4. IsInjective(r)
  <2> SUFFICES ASSUME NEW a \in 1..(Len(s) + 1), NEW b \in 1..(Len(s) + 1), r[a] = r[b]
               PROVE  a = b
    BY <1>1 DEF IsInjective
  <2>1. CASE a = 1 /\ b = 1
    BY <2>1
  <2>2. CASE a = 1 /\ b \in 2..(Len(s) + 1)
    BY <1>1, <1>2, <2>2 DEF ToSet
  <2>3. CASE b = 1 /\ a \in 2..(Len(s) + 1)
    BY <1>1, <1>2, <2>3 DEF ToSet
  <2>4. CASE a \in 2..(Len(s) + 1) /\ b \in 2..(Len(s) + 1)
    <3>1. /\ r[a] = s[a - 1] /\ a - 1 \in 1..Len(s)
          /\ r[b] = s[b - 1] /\ b - 1 \in 1..Len(s)
      BY <1>2, <2>4
    <3>2. a - 1 = b - 1
      BY <1>1, <3>1 DEF IsInjective
    <3> QED
      BY <1>1, <3>2
  <2> QED
    BY <1>1, <2>1, <2>2, <2>3, <2>4
<1> QED
  BY <1>1, <1>2, <1>3, <1>4 DEF r

\* Unlinking an entry closes the gap, and the rest keeps its order.
LEMMA TakeOut ==
    ASSUME NEW s \in Seq(Nat), IsInjective(s), NEW i \in 1..Len(s)
    PROVE  LET r == RemoveAt(s, i)
           IN  /\ r \in Seq(Nat) /\ Len(r) = Len(s) - 1 /\ IsInjective(r)
               /\ \A k \in 1..(Len(s) - 1) : r[k] = IF k < i THEN s[k] ELSE s[k + 1]
               /\ ToSet(r) = ToSet(s) \ {s[i]}
<1> DEFINE a == SubSeq(s, 1, i - 1)
           b == SubSeq(s, i + 1, Len(s))
           r == RemoveAt(s, i)
<1>0. Len(s) \in Nat /\ DOMAIN s = 1..Len(s) /\ \A k \in 1..Len(s) : s[k] \in Nat
  OBVIOUS
<1>8. i \in Nat /\ Len(s) \in Nat /\ 1 <= i /\ i <= Len(s)
  OBVIOUS
<1>1. a \in Seq(Nat) /\ Len(a) = i - 1 /\ \A k \in 1..(i - 1) : a[k] = s[k]
  <2>1. \A k \in 1..(i - 1) : s[k] \in Nat
    BY <1>0
  <2>2. /\ a \in Seq(Nat) /\ Len(a) = IF 1 <= i - 1 THEN (i - 1) - 1 + 1 ELSE 0
        /\ \A k \in 1..((i - 1) - 1 + 1) : a[k] = s[1 + k - 1]
    BY <1>0, <2>1, SubSeqProperties
  <2> QED
    BY <1>0, <2>2
<1>2. b \in Seq(Nat) /\ Len(b) = Len(s) - i /\ \A k \in 1..(Len(s) - i) : b[k] = s[i + k]
  <2>1. \A k \in (i + 1)..Len(s) : s[k] \in Nat
    BY <1>0
  <2>2. PICK m \in Nat : m = i + 1
    BY <1>0
  <2>3. /\ SubSeq(s, m, Len(s)) \in Seq(Nat)
        /\ Len(SubSeq(s, m, Len(s))) = IF m <= Len(s) THEN Len(s) - m + 1 ELSE 0
        /\ \A k \in 1..(Len(s) - m + 1) : SubSeq(s, m, Len(s))[k] = s[m + k - 1]
    BY <1>0, <2>1, <2>2, SubSeqProperties
  <2>4. b = SubSeq(s, m, Len(s))
    BY <2>2
  <2> HIDE DEF b
  <2>5. b \in Seq(Nat) /\ Len(b) = Len(s) - i
    <3>1. CASE m <= Len(s)
      BY <1>8, <2>2, <2>3, <2>4, <3>1
    <3>2. CASE ~(m <= Len(s))
      BY <1>8, <2>2, <2>3, <2>4, <3>2
    <3> QED
      BY <3>1, <3>2
  <2>6. ASSUME NEW k \in 1..(Len(s) - i) PROVE b[k] = s[i + k]
    <3>1. k \in 1..(Len(s) - m + 1) /\ m + k - 1 = i + k
      BY <1>0, <2>2
    <3>2. b[k] = s[m + k - 1]
      BY <2>3, <2>4, <3>1
    <3> QED
      BY <3>1, <3>2
  <2> QED
    BY <2>5, <2>6
<1>3. r = a \o b
  BY DEF RemoveAt
<1> HIDE DEF a, b, r
<1>4. /\ r \in Seq(Nat) /\ Len(r) = Len(s) - 1 /\ DOMAIN r = 1..(Len(s) - 1)
      /\ \A k \in 1..(Len(s) - 1) : r[k] = IF k <= i - 1 THEN a[k] ELSE b[k - (i - 1)]
  <2>1. /\ a \o b \in Seq(Nat) /\ Len(a \o b) = Len(a) + Len(b)
        /\ \A k \in 1..(Len(a) + Len(b)) :
              (a \o b)[k] = IF k <= Len(a) THEN a[k] ELSE b[k - Len(a)]
    BY <1>1, <1>2, ConcatProperties
  <2>2. Len(a) + Len(b) = Len(s) - 1 /\ Len(s) - 1 \in Nat
    BY <1>0, <1>1, <1>2
  <2>3. DOMAIN (a \o b) = 1..(Len(s) - 1)
    BY <2>1, <2>2
  <2> QED
    BY <1>1, <1>3, <2>1, <2>2, <2>3
<1>5. \A k \in 1..(Len(s) - 1) : r[k] = IF k < i THEN s[k] ELSE s[k + 1]
  <2> TAKE k \in 1..(Len(s) - 1)
  <2>1. r[k] = IF k <= i - 1 THEN a[k] ELSE b[k - (i - 1)]
    BY <1>4
  <2>2. CASE k < i
    BY <1>0, <1>1, <2>1, <2>2
  <2>3. CASE ~(k < i)
    <3>1. k - (i - 1) \in 1..(Len(s) - i) /\ i + (k - (i - 1)) = k + 1
      BY <1>0, <2>3
    <3>2. b[k - (i - 1)] = s[k + 1]
      BY <1>2, <3>1
    <3> QED
      BY <1>0, <1>1, <2>1, <2>3, <3>2
  <2> QED
    BY <2>2, <2>3
<1> DEFINE old(k) == IF k < i THEN k ELSE k + 1
<1>6. IsInjective(r)
  <2> SUFFICES ASSUME NEW j \in 1..(Len(s) - 1), NEW k \in 1..(Len(s) - 1), r[j] = r[k]
               PROVE  j = k
    BY <1>4 DEF IsInjective
  <2>1. old(j) \in 1..Len(s) /\ old(k) \in 1..Len(s)
    BY <1>0
  <2>2. r[j] = s[old(j)] /\ r[k] = s[old(k)]
    BY <1>5
  <2>3. old(j) = old(k)
    BY <1>0, <2>1, <2>2 DEF IsInjective
  <2> QED
    BY <1>0, <2>3
<1>7. ToSet(r) = ToSet(s) \ {s[i]}
  <2>1. ASSUME NEW x \in ToSet(r) PROVE x \in ToSet(s) \ {s[i]}
    <3>1. PICK k \in 1..(Len(s) - 1) : x = r[k]
      BY <1>4 DEF ToSet
    <3>2. old(k) \in 1..Len(s) /\ old(k) # i /\ x = s[old(k)]
      BY <1>0, <1>5, <3>1
    <3> HIDE DEF old
    <3> QED
      BY <1>0, <3>2 DEF ToSet, IsInjective
  <2>2. ASSUME NEW x \in ToSet(s) \ {s[i]} PROVE x \in ToSet(r)
    <3>1. PICK k \in 1..Len(s) : x = s[k] /\ k # i
      BY <1>0 DEF ToSet
    <3>2. CASE k < i
      <4>1. k \in 1..(Len(s) - 1) /\ r[k] = x
        BY <1>0, <1>5, <3>1, <3>2
      <4> QED
        BY <1>4, <4>1 DEF ToSet
    <3>3. CASE k > i
      <4>1. k - 1 \in 1..(Len(s) - 1) /\ r[k - 1] = x
        BY <1>0, <1>5, <3>1, <3>3
      <4> QED
        BY <1>4, <4>1 DEF ToSet
    <3> QED
      BY <1>0, <3>1, <3>2, <3>3
  <2> QED
    BY <2>1, <2>2
<1> QED
  BY <1>4, <1>5, <1>6, <1>7 DEF r

\* Each statement has the semaphores that its function has taken.
LEMMA SemaphoresNext ==
    ASSUME IInv, NEW t \in Threads, Step(t)
    PROVE  Semaphores'
<1>1. CASE Begin(t)
  BY <1>1 DEF Begin, At, Goto, shared, IInv, ThreadsOK, Semaphores, Control, InList,
     InLoader, Locks!Lock, Locks!Unlock, Labels, Objects
<1>2. CASE Create(t)
  BY <1>2 DEF Create, At, Goto, shared, IInv, ThreadsOK, Semaphores, Control,
     InList, InLoader, Locks!Lock, Locks!Unlock, Labels, Objects
<1>3. CASE Attach(t)
  BY <1>3 DEF Attach, At, Goto, shared, IInv, ThreadsOK, Semaphores, Control,
     InList, InLoader, Locks!Lock, Locks!Unlock, Labels, Objects
<1>4. CASE Attached(t)
  BY <1>4 DEF Attached, At, Goto, shared, IInv, ThreadsOK, Semaphores, Control,
     InList, InLoader, Locks!Lock, Locks!Unlock, Labels, Objects
<1>5. CASE MultipleThread(t)
  <2>1. CASE tls[t] = NULL /\ Goto(t, "alloc")
    BY <2>1, <1>5 DEF MultipleThread, At, Goto, shared, IInv, ThreadsOK, Semaphores,
       Control, InList, InLoader, Locks!Lock, Locks!Unlock, Labels, Objects
  <2>2. CASE Goto(t, "realloc")
    BY <2>2, <1>5 DEF MultipleThread, At, Goto, shared, IInv, ThreadsOK, Semaphores,
       Control, InList, InLoader, Locks!Lock, Locks!Unlock, Labels, Objects
  <2>3. CASE UNCHANGED pc
    BY <2>3, <1>5 DEF MultipleThread, At, Goto, shared, IInv, ThreadsOK, Semaphores,
       Control, InList, InLoader, Locks!Lock, Locks!Unlock, Labels, Objects
  <2> QED
    BY <2>1, <2>2, <2>3, <1>5 DEF MultipleThread, At, Goto, shared, IInv, ThreadsOK,
       Semaphores, Control, InList, InLoader, Locks!Lock, Locks!Unlock, Labels,
       Objects
<1>6. CASE Alloc(t)
  <2>1. CASE Goto(t, "add") /\ UNCHANGED foreign
    BY <2>1, <1>6 DEF Alloc, AddFails, Fatal, At, Goto, shared, IInv, ThreadsOK,
       Semaphores, Control, InList, InLoader, Locks!Lock, Locks!Unlock, Labels,
       Objects
  <2>2. CASE t \notin foreign /\ foreign' = foreign \cup {t} /\ Goto(t, "attached")
    BY <2>2, <1>6 DEF Alloc, AddFails, Fatal, At, Goto, shared, IInv, ThreadsOK,
       Semaphores, Control, InList, InLoader, Locks!Lock, Locks!Unlock, Labels,
       Objects
  <2>3. CASE UNCHANGED <<pc, foreign>>
    BY <2>3, <1>6 DEF Alloc, AddFails, Fatal, At, Goto, shared, IInv, ThreadsOK,
       Semaphores, Control, InList, InLoader, Locks!Lock, Locks!Unlock, Labels,
       Objects
  <2> QED
    BY <2>1, <2>2, <2>3, <1>6 DEF Alloc, AddFails, Fatal, At, Goto, shared, IInv,
       ThreadsOK, Semaphores, Control, InList, InLoader, Locks!Lock, Locks!Unlock,
       Labels, Objects
<1>7. CASE Add(t)
  BY <1>7 DEF Add, At, Goto, shared, IInv, ThreadsOK, Semaphores, Control, InList,
     InLoader, Locks!Lock, Locks!Unlock, Labels, Objects
<1>8. CASE Link(t)
  <2>1. /\ At(t, "link") /\ UNCHANGED <<held, foreign, Is_DLL>>
        /\ Goto(t, "added") \/ Goto(t, "failed")
    BY <1>8 DEF Link
  <2> QED
    BY <2>1 DEF At, Goto, IInv, ThreadsOK, Semaphores, InList, InLoader, Labels,
       Objects
<1>9. CASE Added(t)
  BY <1>9 DEF Added, Runs, At, Goto, shared, IInv, ThreadsOK, Semaphores, Control,
     InList, InLoader, Locks!Lock, Locks!Unlock, Labels, Objects
<1>10. CASE Failed(t)
  BY <1>10 DEF Failed, Runs, At, Goto, shared, IInv, ThreadsOK, Semaphores, Control,
     InList, InLoader, Locks!Lock, Locks!Unlock, Labels, Objects
<1>11. CASE Realloc(t)
  BY <1>11 DEF Realloc, At, Goto, shared, IInv, ThreadsOK, Semaphores, Control,
     InList, InLoader, Locks!Lock, Locks!Unlock, Labels, Objects
<1>12. CASE Resize(t)
  BY <1>12 DEF Resize, At, Goto, shared, IInv, ThreadsOK, Semaphores, Control,
     InList, InLoader, Locks!Lock, Locks!Unlock, Labels, Objects
<1>13. CASE ResizeFails(t)
  BY <1>13 DEF ResizeFails, Fatal, At, Goto, shared, IInv, ThreadsOK, Semaphores,
     Control, InList, InLoader, Locks!Lock, Locks!Unlock, Labels, Objects
<1>14. CASE Resized(t)
  BY <1>14 DEF Resized, At, Goto, shared, IInv, ThreadsOK, Semaphores, Control,
     InList, InLoader, Locks!Lock, Locks!Unlock, Labels, Objects
<1>15. CASE LoadLibrary(t)
  BY <1>15 DEF LoadLibrary, At, Goto, shared, IInv, ThreadsOK, Semaphores, Control,
     InList, InLoader, Locks!Lock, Locks!Unlock, Labels, Objects
<1>16. CASE Register(t)
  BY <1>16 DEF Register, At, Goto, shared, IInv, ThreadsOK, Semaphores, Control,
     InList, InLoader, Locks!Lock, Locks!Unlock, Labels, Objects
<1>17. CASE Grow(t)
  BY <1>17 DEF Grow, At, Goto, shared, IInv, ThreadsOK, Semaphores, Control, InList,
     InLoader, Locks!Lock, Locks!Unlock, Labels, Objects
<1>18. CASE Mark(t)
  BY <1>18 DEF Mark, At, Goto, shared, IInv, ThreadsOK, Semaphores, Control, InList,
     InLoader, Locks!Lock, Locks!Unlock, Labels, Objects
<1>19. CASE Registered(t)
  BY <1>19 DEF Registered, At, Goto, shared, IInv, ThreadsOK, Semaphores, Control,
     InList, InLoader, Locks!Lock, Locks!Unlock, Labels, Objects
<1>20. CASE EndThread(t)
  BY <1>20 DEF EndThread, At, Goto, shared, IInv, ThreadsOK, Semaphores, Control,
     InList, InLoader, Locks!Lock, Locks!Unlock, Labels, Objects
<1>21. CASE Leave(t)
  BY <1>21 DEF Leave, At, Goto, shared, IInv, ThreadsOK, Semaphores, Control,
     InList, InLoader, Locks!Lock, Locks!Unlock, Labels, Objects
<1>22. CASE Detach(t)
  BY <1>22 DEF Detach, At, Goto, shared, IInv, ThreadsOK, Semaphores, Control,
     InList, InLoader, Locks!Lock, Locks!Unlock, Labels, Objects
<1>23. CASE Detached(t)
  <2>1. CASE tls[t] # NULL
    <3>1. At(t, "detach") /\ Goto(t, "remove") /\ UNCHANGED <<held, foreign, Is_DLL>>
      BY <2>1, <1>23 DEF Detached, At, Goto, shared
    <3> QED
      BY <2>1, <3>1 DEF At, Goto, IInv, ThreadsOK, Semaphores, Control, InList,
         InLoader, Locks!Lock, Locks!Unlock, Labels, Objects
  <2>2. CASE tls[t] = NULL
    <3>1. /\ At(t, "detach")
          /\ Goto(t, "none")
          /\ Locks!Unlock(t, "Loader")
          /\ UNCHANGED <<foreign, Is_DLL>>
      BY <2>2, <1>23 DEF Detached, At, Goto, shared
    <3> QED
      BY <2>2, <3>1 DEF At, Goto, IInv, ThreadsOK, Semaphores, Control, InList,
         InLoader, Locks!Lock, Locks!Unlock, Labels, Objects
  <2> QED
    BY <2>1, <2>2, <1>23 DEF Detached, At, Goto, shared
<1>24. CASE RemoveThread(t)
  BY <1>24 DEF RemoveThread, At, Goto, shared, IInv, ThreadsOK, Semaphores, Control,
     InList, InLoader, Locks!Lock, Locks!Unlock, Labels, Objects
<1>25. CASE Find(t)
  BY <1>25 DEF Find, At, Goto, shared, IInv, ThreadsOK, Semaphores, Control, InList,
     InLoader, Locks!Lock, Locks!Unlock, Labels, Objects
<1>26. CASE Unlink(t)
  BY <1>26 DEF Unlink, At, Goto, shared, IInv, ThreadsOK, Semaphores, Control,
     InList, InLoader, Locks!Lock, Locks!Unlock, Labels, Objects
<1>27. CASE Removed(t)
  <2>1. CASE Is_DLL
    <3>1. /\ At(t, "removed")
          /\ Goto(t, "detach")
          /\ Locks!Unlock(t, "TDList")
          /\ UNCHANGED <<foreign, Is_DLL>>
      BY <2>1, <1>27 DEF Removed, At, Goto, shared
    <3> QED
      BY <2>1, <3>1 DEF At, Goto, IInv, ThreadsOK, Semaphores, Control, InList,
         InLoader, Locks!Lock, Locks!Unlock, Labels, Objects
  <2>2. CASE ~Is_DLL
    <3>1. /\ At(t, "removed")
          /\ Goto(t, "none")
          /\ Locks!Unlock(t, "TDList")
          /\ UNCHANGED <<foreign, Is_DLL>>
      BY <2>2, <1>27 DEF Removed, At, Goto, shared
    <3> QED
      BY <2>2, <3>1 DEF At, Goto, IInv, ThreadsOK, Semaphores, Control, InList,
         InLoader, Locks!Lock, Locks!Unlock, Labels, Objects
  <2> QED
    BY <2>1, <2>2, <1>27 DEF Removed, At, Goto, shared
<1>28. CASE Exit(t)
  BY <1>28 DEF Exit, At, Goto, shared, IInv, ThreadsOK, Semaphores, Control, InList,
     InLoader, Locks!Lock, Locks!Unlock, Labels, Objects
<1>29. CASE FreeEntry(t)
  BY <1>29 DEF FreeEntry, At, Goto, shared, IInv, ThreadsOK, Semaphores, Control,
     InList, InLoader, Locks!Lock, Locks!Unlock, Labels, Objects
<1>30. CASE ExitProcess(t)
  BY <1>30 DEF ExitProcess, At, Goto, shared, IInv, ThreadsOK, Semaphores, Control,
     InList, InLoader, Locks!Lock, Locks!Unlock, Labels, Objects
<1> QED
  BY <1>1, <1>2, <1>3, <1>4, <1>5, <1>6, <1>7, <1>8, <1>9, <1>10, <1>11, <1>12,
     <1>13, <1>14, <1>15, <1>16, <1>17, <1>18, <1>19, <1>20, <1>21, <1>22, <1>23,
     <1>24, <1>25, <1>26, <1>27, <1>28, <1>29, <1>30 DEF Step

\* Each statement finds in its slot what the one before left.
LEMMA ControlNext ==
    ASSUME IInv, NEW t \in Threads, Step(t)
    PROVE  Control'
<1>1. CASE Begin(t)
  BY <1>1 DEF Begin, At, Goto, shared, IInv, ThreadsOK, Control, Labels, Objects,
     Exiting
<1>2. CASE Create(t)
  BY <1>2 DEF Create, At, Goto, shared, IInv, ThreadsOK, Control, Labels, Objects,
     Exiting
<1>3. CASE Attach(t)
  BY <1>3 DEF Attach, At, Goto, shared, IInv, ThreadsOK, Control, Labels, Objects,
     Exiting
<1>4. CASE Attached(t)
  BY <1>4 DEF Attached, At, Goto, shared, IInv, ThreadsOK, Control, Labels, Objects,
     Exiting
<1>5. CASE MultipleThread(t)
  <2>1. CASE tls[t] = NULL /\ Goto(t, "alloc")
    BY <2>1, <1>5 DEF MultipleThread, At, Goto, shared, IInv, ThreadsOK, Control,
       Labels, Objects, Exiting, DataOK
  <2>2. CASE tls[t] \in DOMAIN data /\ data[tls[t]].resize /\ Goto(t, "realloc")
    BY <2>2, <1>5 DEF MultipleThread, At, Goto, shared, IInv, ThreadsOK, Control,
       Labels, Objects, Exiting, DataOK
  <2>3. CASE UNCHANGED pc
    BY <2>3, <1>5 DEF MultipleThread, At, Goto, shared, IInv, ThreadsOK, Control,
       Labels, Objects, Exiting, DataOK
  <2> QED
    BY <2>1, <2>2, <2>3, <1>5 DEF MultipleThread, At, Goto, shared, IInv, ThreadsOK,
       Control, Labels, Objects, Exiting, DataOK
<1>6. CASE Alloc(t)
  <2>1. CASE Goto(t, "add") /\ UNCHANGED foreign
    BY <2>1, <1>6 DEF Alloc, AddFails, Fatal, At, Goto, shared, IInv, ThreadsOK,
       Control, Labels, Objects, Exiting
  <2>2. CASE t \notin foreign /\ foreign' = foreign \cup {t} /\ Goto(t, "attached")
    BY <2>2, <1>6 DEF Alloc, AddFails, Fatal, At, Goto, shared, IInv, ThreadsOK,
       Control, Labels, Objects, Exiting
  <2>3. CASE UNCHANGED <<pc, foreign>>
    BY <2>3, <1>6 DEF Alloc, AddFails, Fatal, At, Goto, shared, IInv, ThreadsOK,
       Control, Labels, Objects, Exiting
  <2> QED
    BY <2>1, <2>2, <2>3, <1>6 DEF Alloc, AddFails, Fatal, At, Goto, shared, IInv,
       ThreadsOK, Control, Labels, Objects, Exiting
<1>7. CASE Add(t)
  BY <1>7 DEF Add, At, Goto, shared, IInv, ThreadsOK, Control, Labels, Objects,
     Exiting
<1>8. CASE Link(t)
  BY <1>8 DEF Link, At, Goto, shared, IInv, ThreadsOK, Control, Labels, Objects,
     Exiting
<1>9. CASE Added(t)
  <2>1. mine[t] # NULL
    BY <1>9, OwnDataIsThere DEF Added, At, Owning, Own
  <2> QED
    BY <2>1, <1>9 DEF Added, Runs, At, Goto, shared, IInv, ThreadsOK, Control,
       Labels, Objects, Exiting
<1>10. CASE Failed(t)
  BY <1>10 DEF Failed, Runs, At, Goto, shared, IInv, ThreadsOK, Control, Labels,
     Objects, Exiting
<1>11. CASE Realloc(t)
  BY <1>11 DEF Realloc, At, Goto, shared, IInv, ThreadsOK, Control, Labels, Objects,
     Exiting
<1>12. CASE Resize(t)
  <2>1. NewData # NULL
    BY NewDataIsNew DEF IInv
  <2>2. /\ tls' = [tls EXCEPT ![t] = NewData]
        /\ Goto(t, "resized")
        /\ At(t, "resize")
        /\ UNCHANGED <<Is_DLL, foreign>>
    BY <1>12 DEF Resize
  <2> QED
    BY <2>1, <2>2 DEF At, Goto, IInv, ThreadsOK, Control
<1>13. CASE ResizeFails(t)
  BY <1>13 DEF ResizeFails, Fatal, At, Goto, shared, IInv, ThreadsOK, Control,
     Labels, Objects, Exiting
<1>14. CASE Resized(t)
  BY <1>14 DEF Resized, At, Goto, shared, IInv, ThreadsOK, Control, Labels, Objects,
     Exiting
<1>15. CASE LoadLibrary(t)
  BY <1>15 DEF LoadLibrary, At, Goto, shared, IInv, ThreadsOK, Control, Labels,
     Objects, Exiting
<1>16. CASE Register(t)
  BY <1>16 DEF Register, At, Goto, shared, IInv, ThreadsOK, Control, Labels,
     Objects, Exiting
<1>17. CASE Grow(t)
  BY <1>17 DEF Grow, At, Goto, shared, IInv, ThreadsOK, Control, Labels, Objects,
     Exiting
<1>18. CASE Mark(t)
  BY <1>18 DEF Mark, At, Goto, shared, IInv, ThreadsOK, Control, Labels, Objects,
     Exiting
<1>19. CASE Registered(t)
  BY <1>19 DEF Registered, At, Goto, shared, IInv, ThreadsOK, Control, Labels,
     Objects, Exiting
<1>20. CASE EndThread(t)
  BY <1>20 DEF EndThread, At, Goto, shared, IInv, ThreadsOK, Control, Labels,
     Objects, Exiting
<1>21. CASE Leave(t)
  BY <1>21 DEF Leave, At, Goto, shared, IInv, ThreadsOK, Control, Labels, Objects,
     Exiting
<1>22. CASE Detach(t)
  BY <1>22 DEF Detach, At, Goto, shared, IInv, ThreadsOK, Control, Labels, Objects,
     Exiting
<1>23. CASE Detached(t)
  <2>1. CASE tls[t] # NULL
    <3>1. At(t, "detach") /\ Goto(t, "remove") /\ UNCHANGED <<tls, foreign, Is_DLL>>
      BY <2>1, <1>23 DEF Detached, At, Goto, shared
    <3> QED
      BY <2>1, <3>1 DEF At, Goto, IInv, ThreadsOK, Control, Labels, Objects, Exiting
  <2>2. CASE tls[t] = NULL
    <3>1. At(t, "detach") /\ Goto(t, "none") /\ UNCHANGED <<tls, foreign, Is_DLL>>
      BY <2>2, <1>23 DEF Detached, At, Goto, shared
    <3> QED
      BY <2>2, <3>1 DEF At, Goto, IInv, ThreadsOK, Control, Labels, Objects, Exiting
  <2> QED
    BY <2>1, <2>2, <1>23 DEF Detached, At, Goto, shared
<1>24. CASE RemoveThread(t)
  BY <1>24 DEF RemoveThread, At, Goto, shared, IInv, ThreadsOK, Control, Labels,
     Objects, Exiting
<1>25. CASE Find(t)
  BY <1>25 DEF Find, At, Goto, shared, IInv, ThreadsOK, Control, Labels, Objects,
     Exiting
<1>26. CASE Unlink(t)
  BY <1>26 DEF Unlink, At, Goto, shared, IInv, ThreadsOK, Control, Labels, Objects,
     Exiting
<1>27. CASE Removed(t)
  <2>1. CASE Is_DLL
    <3>1. /\ At(t, "removed")
          /\ Goto(t, "detach")
          /\ tls' = [tls EXCEPT ![t] = NULL]
          /\ UNCHANGED <<foreign, Is_DLL>>
      BY <2>1, <1>27 DEF Removed, At, Goto, shared
    <3> QED
      BY <2>1, <3>1 DEF At, Goto, IInv, ThreadsOK, Control, Labels, Objects, Exiting
  <2>2. CASE ~Is_DLL
    <3>1. /\ At(t, "removed")
          /\ Goto(t, "none")
          /\ tls' = [tls EXCEPT ![t] = NULL]
          /\ UNCHANGED <<foreign, Is_DLL>>
      BY <2>2, <1>27 DEF Removed, At, Goto, shared
    <3> QED
      BY <2>2, <3>1 DEF At, Goto, IInv, ThreadsOK, Control, Labels, Objects, Exiting
  <2> QED
    BY <2>1, <2>2, <1>27 DEF Removed, At, Goto, shared
<1>28. CASE Exit(t)
  BY <1>28 DEF Exit, At, Goto, shared, IInv, ThreadsOK, Control, Labels, Objects,
     Exiting
<1>29. CASE FreeEntry(t)
  BY <1>29 DEF FreeEntry, At, Goto, shared, IInv, ThreadsOK, Control, Labels,
     Objects, Exiting
<1>30. CASE ExitProcess(t)
  BY <1>30 DEF ExitProcess, At, Goto, shared, IInv, ThreadsOK, Control, Labels,
     Objects, Exiting
<1> QED
  BY <1>1, <1>2, <1>3, <1>4, <1>5, <1>6, <1>7, <1>8, <1>9, <1>10, <1>11, <1>12,
     <1>13, <1>14, <1>15, <1>16, <1>17, <1>18, <1>19, <1>20, <1>21, <1>22, <1>23,
     <1>24, <1>25, <1>26, <1>27, <1>28, <1>29, <1>30 DEF Step

\* Taking a semaphore keeps the counts in their range ...
LEMMA TakeType ==
    ASSUME ThreadsOK, NEW t \in Threads, NEW o \in Objects, held[t][o] < 2, Locks!Lock(t, o)
    PROVE  held' \in [Threads -> [Objects -> 0..2]]
BY DEF ThreadsOK, Locks!Lock

\* ... and so does releasing it.
LEMMA GiveType ==
    ASSUME ThreadsOK, NEW t \in Threads, NEW o \in Objects, Locks!Unlock(t, o)
    PROVE  held' \in [Threads -> [Objects -> 0..2]]
BY DEF ThreadsOK, Locks!Unlock

\* The variables of the threads keep their kinds.
LEMMA ThreadsNext ==
    ASSUME IInv, NEW t \in Threads, Step(t)
    PROVE  ThreadsOK'
<1>1. CASE Begin(t)
  <2>1. NewData \in Nat
    BY NewDataIsNew DEF IInv
  <2> QED
    BY <2>1, <1>1 DEF Begin, At, Goto, shared, IInv, ThreadsOK, Labels, NULL
<1>2. CASE Create(t)
  BY <1>2 DEF Create, At, Goto, shared, IInv, ThreadsOK, Labels, NULL
<1>3. CASE Attach(t)
  <2>1. /\ Is_DLL' \in BOOLEAN /\ tls' \in [Threads -> Nat] /\ mine' \in [Threads -> Nat]
        /\ pc' \in [Threads -> Labels] /\ foreign' \subseteq Threads
        /\ tdl' \in [Threads -> Nat] /\ wild' \in BOOLEAN /\ over' \in BOOLEAN
    BY <1>3 DEF Attach, At, Goto, shared, IInv, ThreadsOK, Labels, NULL
  <2>2. held' \in [Threads -> [Objects -> 0..2]]
    <3>1. held[t]["Loader"] < 2 /\ Locks!Lock(t, "Loader") /\ "Loader" \in Objects
      BY <1>3 DEF Attach, At, IInv, Semaphores, InList, InLoader, Objects
    <3> QED
      BY <3>1, TakeType DEF IInv
  <2> QED
    BY <2>1, <2>2 DEF ThreadsOK
<1>4. CASE Attached(t)
  <2>1. /\ Is_DLL' \in BOOLEAN /\ tls' \in [Threads -> Nat] /\ mine' \in [Threads -> Nat]
        /\ pc' \in [Threads -> Labels] /\ foreign' \subseteq Threads
        /\ tdl' \in [Threads -> Nat] /\ wild' \in BOOLEAN /\ over' \in BOOLEAN
    BY <1>4 DEF Attached, At, Goto, shared, IInv, ThreadsOK, Labels, NULL
  <2>2. held' \in [Threads -> [Objects -> 0..2]]
    BY <1>4, GiveType DEF Attached, Objects, IInv
  <2> QED
    BY <2>1, <2>2 DEF ThreadsOK
<1>5. CASE MultipleThread(t)
  BY <1>5 DEF MultipleThread, At, Goto, shared, IInv, ThreadsOK, Labels, NULL
<1>6. CASE Alloc(t)
  <2>1. NewData \in Nat
    BY NewDataIsNew DEF IInv
  <2>2. CASE Fatal
    BY <1>6, <2>2 DEF Fatal, shared, IInv, ThreadsOK
  <2>3. CASE ~Fatal
    <3>1. /\ mine' = [mine EXCEPT ![t] = NewData] \/ mine' = mine
          /\ pc' = [pc EXCEPT ![t] = "add"] \/ pc' = [pc EXCEPT ![t] = "attached"]
          /\ foreign' = foreign \/ foreign' = foreign \cup {t}
          /\ UNCHANGED <<Is_DLL, tls, tdl, held, wild, over>>
      BY <1>6, <2>3 DEF Alloc, AddFails, Goto, shared
    <3> QED
      BY <2>1, <3>1 DEF IInv, ThreadsOK, Labels
  <2> QED
    BY <2>2, <2>3
<1>7. CASE Add(t)
  <2>1. /\ Is_DLL' \in BOOLEAN /\ tls' \in [Threads -> Nat] /\ mine' \in [Threads -> Nat]
        /\ pc' \in [Threads -> Labels] /\ foreign' \subseteq Threads
        /\ tdl' \in [Threads -> Nat] /\ wild' \in BOOLEAN /\ over' \in BOOLEAN
    BY <1>7 DEF Add, At, Goto, shared, IInv, ThreadsOK, Labels, NULL
  <2>2. held' \in [Threads -> [Objects -> 0..2]]
    <3>1. held[t]["TDList"] < 2 /\ Locks!Lock(t, "TDList") /\ "TDList" \in Objects
      BY <1>7 DEF Add, At, IInv, Semaphores, InList, InLoader, Objects
    <3> QED
      BY <3>1, TakeType DEF IInv
  <2> QED
    BY <2>1, <2>2 DEF ThreadsOK
<1>8. CASE Link(t)
  BY <1>8 DEF Link, At, Goto, shared, IInv, ThreadsOK, Labels, NULL
<1>9. CASE Added(t)
  <2>1. /\ Is_DLL' \in BOOLEAN /\ tls' \in [Threads -> Nat] /\ mine' \in [Threads -> Nat]
        /\ pc' \in [Threads -> Labels] /\ foreign' \subseteq Threads
        /\ tdl' \in [Threads -> Nat] /\ wild' \in BOOLEAN /\ over' \in BOOLEAN
    BY <1>9 DEF Added, Runs, At, Goto, shared, IInv, ThreadsOK, Labels, NULL
  <2>2. held' \in [Threads -> [Objects -> 0..2]]
    BY <1>9, GiveType DEF Added, Objects, IInv
  <2> QED
    BY <2>1, <2>2 DEF ThreadsOK
<1>10. CASE Failed(t)
  <2>1. /\ Is_DLL' \in BOOLEAN /\ tls' \in [Threads -> Nat] /\ mine' \in [Threads -> Nat]
        /\ pc' \in [Threads -> Labels] /\ foreign' \subseteq Threads
        /\ tdl' \in [Threads -> Nat] /\ wild' \in BOOLEAN /\ over' \in BOOLEAN
    BY <1>10 DEF Failed, Runs, At, Goto, shared, IInv, ThreadsOK, Labels, NULL
  <2>2. held' \in [Threads -> [Objects -> 0..2]]
    BY <1>10, GiveType DEF Failed, Objects, IInv
  <2> QED
    BY <2>1, <2>2 DEF ThreadsOK
<1>11. CASE Realloc(t)
  <2>1. /\ Is_DLL' \in BOOLEAN /\ tls' \in [Threads -> Nat] /\ mine' \in [Threads -> Nat]
        /\ pc' \in [Threads -> Labels] /\ foreign' \subseteq Threads
        /\ tdl' \in [Threads -> Nat] /\ wild' \in BOOLEAN /\ over' \in BOOLEAN
    BY <1>11 DEF Realloc, At, Goto, shared, IInv, ThreadsOK, Labels, NULL
  <2>2. held' \in [Threads -> [Objects -> 0..2]]
    <3>1. held[t]["TDList"] < 2 /\ Locks!Lock(t, "TDList") /\ "TDList" \in Objects
      BY <1>11 DEF Realloc, At, IInv, Semaphores, InList, InLoader, Objects
    <3> QED
      BY <3>1, TakeType DEF IInv
  <2> QED
    BY <2>1, <2>2 DEF ThreadsOK
<1>12. CASE Resize(t)
  <2>1. NewData \in Nat
    BY NewDataIsNew DEF IInv
  <2>2. /\ tls' = [tls EXCEPT ![t] = NewData] /\ wild' \in BOOLEAN /\ Goto(t, "resized")
        /\ UNCHANGED <<Is_DLL, mine, foreign, tdl, held, over>>
    BY <1>12 DEF Resize
  <2> QED
    BY <2>1, <2>2 DEF Goto, IInv, ThreadsOK, Labels
<1>13. CASE ResizeFails(t)
  BY <1>13 DEF ResizeFails, Fatal, At, Goto, shared, IInv, ThreadsOK, Labels, NULL
<1>14. CASE Resized(t)
  <2>1. /\ Is_DLL' \in BOOLEAN /\ tls' \in [Threads -> Nat] /\ mine' \in [Threads -> Nat]
        /\ pc' \in [Threads -> Labels] /\ foreign' \subseteq Threads
        /\ tdl' \in [Threads -> Nat] /\ wild' \in BOOLEAN /\ over' \in BOOLEAN
    BY <1>14 DEF Resized, At, Goto, shared, IInv, ThreadsOK, Labels, NULL
  <2>2. held' \in [Threads -> [Objects -> 0..2]]
    BY <1>14, GiveType DEF Resized, Objects, IInv
  <2> QED
    BY <2>1, <2>2 DEF ThreadsOK
<1>15. CASE LoadLibrary(t)
  <2>1. /\ Is_DLL' \in BOOLEAN /\ tls' \in [Threads -> Nat] /\ mine' \in [Threads -> Nat]
        /\ pc' \in [Threads -> Labels] /\ foreign' \subseteq Threads
        /\ tdl' \in [Threads -> Nat] /\ wild' \in BOOLEAN /\ over' \in BOOLEAN
    BY <1>15 DEF LoadLibrary, At, Goto, shared, IInv, ThreadsOK, Labels, NULL
  <2>2. held' \in [Threads -> [Objects -> 0..2]]
    <3>1. held[t]["Loader"] < 2 /\ Locks!Lock(t, "Loader") /\ "Loader" \in Objects
      BY <1>15 DEF LoadLibrary, At, IInv, Semaphores, InList, InLoader, Objects
    <3> QED
      BY <3>1, TakeType DEF IInv
  <2> QED
    BY <2>1, <2>2 DEF ThreadsOK
<1>16. CASE Register(t)
  <2>1. /\ Is_DLL' \in BOOLEAN /\ tls' \in [Threads -> Nat] /\ mine' \in [Threads -> Nat]
        /\ pc' \in [Threads -> Labels] /\ foreign' \subseteq Threads
        /\ tdl' \in [Threads -> Nat] /\ wild' \in BOOLEAN /\ over' \in BOOLEAN
    BY <1>16 DEF Register, At, Goto, shared, IInv, ThreadsOK, Labels, NULL
  <2>2. held' \in [Threads -> [Objects -> 0..2]]
    <3>1. held[t]["TDList"] < 2 /\ Locks!Lock(t, "TDList") /\ "TDList" \in Objects
      BY <1>16 DEF Register, At, IInv, Semaphores, InList, InLoader, Objects
    <3> QED
      BY <3>1, TakeType DEF IInv
  <2> QED
    BY <2>1, <2>2 DEF ThreadsOK
<1>17. CASE Grow(t)
  <2>1. /\ Is_DLL' \in BOOLEAN /\ tls' \in [Threads -> Nat] /\ mine' \in [Threads -> Nat]
        /\ pc' \in [Threads -> Labels] /\ foreign' \subseteq Threads
        /\ tdl' \in [Threads -> Nat] /\ wild' \in BOOLEAN /\ over' \in BOOLEAN
    BY <1>17 DEF Grow, At, Goto, shared, IInv, ThreadsOK, Labels, NULL
  <2>2. held' \in [Threads -> [Objects -> 0..2]]
    <3>1. held[t]["TDList"] < 2 /\ Locks!Lock(t, "TDList") /\ "TDList" \in Objects
      BY <1>17 DEF Grow, At, IInv, Semaphores, InList, InLoader, Objects
    <3> QED
      BY <3>1, TakeType DEF IInv
  <2> QED
    BY <2>1, <2>2 DEF ThreadsOK
<1>18. CASE Mark(t)
  <2>1. /\ Is_DLL' \in BOOLEAN /\ tls' \in [Threads -> Nat] /\ mine' \in [Threads -> Nat]
        /\ pc' \in [Threads -> Labels] /\ foreign' \subseteq Threads
        /\ tdl' \in [Threads -> Nat] /\ wild' \in BOOLEAN /\ over' \in BOOLEAN
    BY <1>18 DEF Mark, At, Goto, shared, IInv, ThreadsOK, Labels, NULL
  <2>2. held' \in [Threads -> [Objects -> 0..2]]
    BY <1>18, GiveType DEF Mark, Objects, IInv
  <2> QED
    BY <2>1, <2>2 DEF ThreadsOK
<1>19. CASE Registered(t)
  <2>1. /\ Is_DLL' \in BOOLEAN /\ tls' \in [Threads -> Nat] /\ mine' \in [Threads -> Nat]
        /\ pc' \in [Threads -> Labels] /\ foreign' \subseteq Threads
        /\ tdl' \in [Threads -> Nat] /\ wild' \in BOOLEAN /\ over' \in BOOLEAN
    BY <1>19 DEF Registered, At, Goto, shared, IInv, ThreadsOK, Labels, NULL
  <2>2. held' \in [Threads -> [Objects -> 0..2]]
    BY <1>19, GiveType DEF Registered, Objects, IInv
  <2> QED
    BY <2>1, <2>2 DEF ThreadsOK
<1>20. CASE EndThread(t)
  BY <1>20 DEF EndThread, At, Goto, shared, IInv, ThreadsOK, Labels, NULL
<1>21. CASE Leave(t)
  BY <1>21 DEF Leave, At, Goto, shared, IInv, ThreadsOK, Labels, NULL
<1>22. CASE Detach(t)
  <2>1. /\ Is_DLL' \in BOOLEAN /\ tls' \in [Threads -> Nat] /\ mine' \in [Threads -> Nat]
        /\ pc' \in [Threads -> Labels] /\ foreign' \subseteq Threads
        /\ tdl' \in [Threads -> Nat] /\ wild' \in BOOLEAN /\ over' \in BOOLEAN
    BY <1>22 DEF Detach, At, Goto, shared, IInv, ThreadsOK, Labels, NULL
  <2>2. held' \in [Threads -> [Objects -> 0..2]]
    <3>1. held[t]["Loader"] < 2 /\ Locks!Lock(t, "Loader") /\ "Loader" \in Objects
      BY <1>22 DEF Detach, At, IInv, Semaphores, InList, InLoader, Objects
    <3> QED
      BY <3>1, TakeType DEF IInv
  <2> QED
    BY <2>1, <2>2 DEF ThreadsOK
<1>23. CASE Detached(t)
  <2>1. /\ Is_DLL' \in BOOLEAN /\ tls' \in [Threads -> Nat] /\ mine' \in [Threads -> Nat]
        /\ pc' \in [Threads -> Labels] /\ foreign' \subseteq Threads
        /\ tdl' \in [Threads -> Nat] /\ wild' \in BOOLEAN /\ over' \in BOOLEAN
    BY <1>23 DEF Detached, At, Goto, shared, IInv, ThreadsOK, Labels, NULL
  <2>2. held' \in [Threads -> [Objects -> 0..2]]
    <3>1. CASE tls[t] # NULL
      BY <1>23, <3>1 DEF Detached, IInv, ThreadsOK
    <3>2. CASE tls[t] = NULL
      BY <1>23, <3>2, GiveType DEF Detached, Objects, IInv
    <3> QED
      BY <3>1, <3>2
  <2> QED
    BY <2>1, <2>2 DEF ThreadsOK
<1>24. CASE RemoveThread(t)
  <2>1. /\ Is_DLL' \in BOOLEAN /\ tls' \in [Threads -> Nat] /\ mine' \in [Threads -> Nat]
        /\ pc' \in [Threads -> Labels] /\ foreign' \subseteq Threads
        /\ tdl' \in [Threads -> Nat] /\ wild' \in BOOLEAN /\ over' \in BOOLEAN
    BY <1>24 DEF RemoveThread, At, Goto, shared, IInv, ThreadsOK, Labels, NULL
  <2>2. held' \in [Threads -> [Objects -> 0..2]]
    <3>1. held[t]["TDList"] < 2 /\ Locks!Lock(t, "TDList") /\ "TDList" \in Objects
      BY <1>24 DEF RemoveThread, At, IInv, Semaphores, InList, InLoader, Objects
    <3> QED
      BY <3>1, TakeType DEF IInv
  <2> QED
    BY <2>1, <2>2 DEF ThreadsOK
<1>25. CASE Find(t)
  BY <1>25 DEF Find, At, Goto, shared, IInv, ThreadsOK, Labels, NULL
<1>26. CASE Unlink(t)
  BY <1>26 DEF Unlink, At, Goto, shared, IInv, ThreadsOK, Labels, NULL
<1>27. CASE Removed(t)
  <2>0. pc' = [pc EXCEPT ![t] = "detach"] \/ pc' = [pc EXCEPT ![t] = "none"]
    BY <1>27 DEF Removed, Goto
  <2>1. /\ Is_DLL' \in BOOLEAN /\ tls' \in [Threads -> Nat] /\ mine' \in [Threads -> Nat]
        /\ pc' \in [Threads -> Labels] /\ foreign' \subseteq Threads
        /\ tdl' \in [Threads -> Nat] /\ wild' \in BOOLEAN /\ over' \in BOOLEAN
    BY <1>27, <2>0 DEF Removed, At, Goto, shared, IInv, ThreadsOK, Labels, NULL
  <2>2. held' \in [Threads -> [Objects -> 0..2]]
    BY <1>27, GiveType DEF Removed, Objects, IInv
  <2> QED
    BY <2>1, <2>2 DEF ThreadsOK
<1>28. CASE Exit(t)
  <2>1. (IF list = <<>> THEN NULL ELSE Head(list)) \in Nat
    BY DEF IInv, ListOK, NULL
  <2> QED
    BY <2>1, <1>28 DEF Exit, At, Goto, shared, IInv, ThreadsOK, Labels, NULL
<1>29. CASE FreeEntry(t)
  <2>1. PICK p \in 1..Len(list) : tdl[t] = list[p]
    <3>1. PICK p \in 1..(Len(list) + 1) :
              tdl[t] = IF p = Len(list) + 1 THEN NULL ELSE list[p]
      BY <1>29 DEF FreeEntry, At, IInv, Leaving
    <3>2. p # Len(list) + 1
      BY <1>29, <3>1 DEF FreeEntry
    <3> QED
      BY <3>1, <3>2 DEF IInv, ListOK
  <2>2. Following(tdl[t]) \in Nat
    BY <2>1, PlaceOf DEF IInv, ListOK, NULL
  <2>3. /\ tdl' = tdl \/ tdl' = [tdl EXCEPT ![t] = Following(tdl[t])]
        /\ wild' \in BOOLEAN
        /\ UNCHANGED <<Is_DLL, tls, pc, mine, foreign, held, over>>
    BY <1>29 DEF FreeEntry, IInv, ThreadsOK
  <2> QED
    BY <2>2, <2>3 DEF IInv, ThreadsOK
<1>30. CASE ExitProcess(t)
  BY <1>30 DEF ExitProcess, At, Goto, shared, IInv, ThreadsOK, Labels, NULL
<1> QED
  BY <1>1, <1>2, <1>3, <1>4, <1>5, <1>6, <1>7, <1>8, <1>9, <1>10, <1>11, <1>12,
     <1>13, <1>14, <1>15, <1>16, <1>17, <1>18, <1>19, <1>20, <1>21, <1>22, <1>23,
     <1>24, <1>25, <1>26, <1>27, <1>28, <1>29, <1>30 DEF Step

\* exit does not come back to the program.
LEMMA FiniStays ==
    ASSUME IInv, NEW t \in Threads, Step(t)
    PROVE  \A u \in Threads : pc[u] = "fini" => pc'[u] = "fini"
<1>1. CASE Begin(t)
  BY <1>1 DEF Begin, At, Goto, shared, IInv, ThreadsOK
<1>2. CASE Create(t)
  BY <1>2 DEF Create, At, Goto, shared, IInv, ThreadsOK
<1>3. CASE Attach(t)
  BY <1>3 DEF Attach, At, Goto, shared, IInv, ThreadsOK
<1>4. CASE Attached(t)
  BY <1>4 DEF Attached, At, Goto, shared, IInv, ThreadsOK
<1>5. CASE MultipleThread(t)
  BY <1>5 DEF MultipleThread, At, Goto, shared, IInv, ThreadsOK
<1>6. CASE Alloc(t)
  BY <1>6 DEF Alloc, AddFails, Fatal, At, Goto, shared, IInv, ThreadsOK
<1>7. CASE Add(t)
  BY <1>7 DEF Add, At, Goto, shared, IInv, ThreadsOK
<1>8. CASE Link(t)
  BY <1>8 DEF Link, At, Goto, shared, IInv, ThreadsOK
<1>9. CASE Added(t)
  BY <1>9 DEF Added, Runs, At, Goto, shared, IInv, ThreadsOK
<1>10. CASE Failed(t)
  BY <1>10 DEF Failed, Runs, At, Goto, shared, IInv, ThreadsOK
<1>11. CASE Realloc(t)
  BY <1>11 DEF Realloc, At, Goto, shared, IInv, ThreadsOK
<1>12. CASE Resize(t)
  BY <1>12 DEF Resize, At, Goto, shared, IInv, ThreadsOK
<1>13. CASE ResizeFails(t)
  BY <1>13 DEF ResizeFails, Fatal, At, Goto, shared, IInv, ThreadsOK
<1>14. CASE Resized(t)
  BY <1>14 DEF Resized, At, Goto, shared, IInv, ThreadsOK
<1>15. CASE LoadLibrary(t)
  BY <1>15 DEF LoadLibrary, At, Goto, shared, IInv, ThreadsOK
<1>16. CASE Register(t)
  BY <1>16 DEF Register, At, Goto, shared, IInv, ThreadsOK
<1>17. CASE Grow(t)
  BY <1>17 DEF Grow, At, Goto, shared, IInv, ThreadsOK
<1>18. CASE Mark(t)
  BY <1>18 DEF Mark, At, Goto, shared, IInv, ThreadsOK
<1>19. CASE Registered(t)
  BY <1>19 DEF Registered, At, Goto, shared, IInv, ThreadsOK
<1>20. CASE EndThread(t)
  BY <1>20 DEF EndThread, At, Goto, shared, IInv, ThreadsOK
<1>21. CASE Leave(t)
  BY <1>21 DEF Leave, At, Goto, shared, IInv, ThreadsOK
<1>22. CASE Detach(t)
  BY <1>22 DEF Detach, At, Goto, shared, IInv, ThreadsOK
<1>23. CASE Detached(t)
  <2>1. pc' = [pc EXCEPT ![t] = "remove"] \/ pc' = [pc EXCEPT ![t] = "none"]
    BY <1>23 DEF Detached, Goto
  <2> QED
    BY <2>1, <1>23 DEF Detached, At, IInv, ThreadsOK
<1>24. CASE RemoveThread(t)
  BY <1>24 DEF RemoveThread, At, Goto, shared, IInv, ThreadsOK
<1>25. CASE Find(t)
  BY <1>25 DEF Find, At, Goto, shared, IInv, ThreadsOK
<1>26. CASE Unlink(t)
  BY <1>26 DEF Unlink, At, Goto, shared, IInv, ThreadsOK
<1>27. CASE Removed(t)
  <2>1. pc' = [pc EXCEPT ![t] = "detach"] \/ pc' = [pc EXCEPT ![t] = "none"]
    BY <1>27 DEF Removed, Goto
  <2> QED
    BY <2>1, <1>27 DEF Removed, At, IInv, ThreadsOK
<1>28. CASE Exit(t)
  BY <1>28 DEF Exit, At, Goto, shared, IInv, ThreadsOK
<1>29. CASE FreeEntry(t)
  <2>1. pc' = pc
    BY <1>29 DEF FreeEntry
  <2> QED
    BY <2>1
<1>30. CASE ExitProcess(t)
  <2>1. pc' = pc
    BY <1>30 DEF ExitProcess
  <2> QED
    BY <2>1
<1> QED
  BY <1>1, <1>2, <1>3, <1>4, <1>5, <1>6, <1>7, <1>8, <1>9, <1>10, <1>11, <1>12,
     <1>13, <1>14, <1>15, <1>16, <1>17, <1>18, <1>19, <1>20, <1>21, <1>22, <1>23,
     <1>24, <1>25, <1>26, <1>27, <1>28, <1>29, <1>30 DEF Step

\* The operations that change the list ...
LEMMA EntriesFrame ==
    ASSUME NEW t \in Threads, Step(t)
    PROVE  \/ UNCHANGED <<list, entry>>
           \/ Link(t) \/ Resize(t) \/ Unlink(t) \/ FreeEntry(t)
BY DEF Step, shared, Begin, Create, Attach, Attached, MultipleThread, Alloc,
   AddFails, Fatal, Add, Added, Runs, Failed, Realloc, ResizeFails, Resized,
   LoadLibrary, Register, Grow, Mark, Registered, EndThread, Leave, Detach,
   Detached, RemoveThread, Find, Removed, Exit, ExitProcess

\* ... and those that change thread data.
LEMMA DataFrame ==
    ASSUME NEW t \in Threads, Step(t)
    PROVE  \/ UNCHANGED <<data, ThreadDataSize>>
           \/ Begin(t) \/ Alloc(t) \/ Failed(t) \/ Resize(t) \/ Grow(t)
           \/ Mark(t) \/ Find(t) \/ Removed(t) \/ FreeEntry(t)
BY DEF Step, shared, Create, Attach, Attached, MultipleThread, Add, Link, Added,
   Runs, Realloc, ResizeFails, Fatal, Resized, LoadLibrary, Register, Registered,
   EndThread, Leave, Detach, Detached, RemoveThread, Unlink, Exit, ExitProcess

\* A new entry goes before the others.
LEMMA LinkEffect ==
    ASSUME IInv, NEW t \in Threads, Link(t), entry' # entry
    PROVE  \E n \in Nat \ {NULL} :
              /\ n \notin ToSet(list) /\ n \notin DOMAIN entry
              /\ list' \in Seq(Nat) /\ IsInjective(list') /\ Len(list') = Len(list) + 1
              /\ list'[1] = n /\ \A i \in 1..Len(list) : list'[i + 1] = list[i]
              /\ ToSet(list') = ToSet(list) \cup {n}
              /\ DOMAIN entry' = DOMAIN entry \cup {n}
              /\ \A e \in DOMAIN entry : entry'[e] = entry[e]
              /\ entry'[n] = [tid |-> t, data |-> mine[t],
                              allocated |-> data[mine[t]].stack = NoThread]
              /\ pc' = [pc EXCEPT ![t] = "added"]
<1> DEFINE n == NewEntry
           new == [tid |-> t, data |-> mine[t], allocated |-> data[mine[t]].stack = NoThread]
<1>1. n \in Nat \ {NULL} /\ n \notin DOMAIN entry /\ n \notin ToSet(list)
  BY NewEntryIsNew DEF IInv
<1>2. /\ list' = <<n>> \o list /\ pc' = [pc EXCEPT ![t] = "added"]
      /\ entry' = With(entry, n, new)
  BY DEF Link, Goto
<1> HIDE DEF n, new
<1>3. /\ list' \in Seq(Nat) /\ IsInjective(list') /\ Len(list') = Len(list) + 1
      /\ list'[1] = n /\ \A i \in 1..Len(list) : list'[i + 1] = list[i]
      /\ ToSet(list') = ToSet(list) \cup {n}
  BY <1>1, <1>2, PutFirst DEF IInv, ListOK
<1>4. /\ DOMAIN entry' = DOMAIN entry \cup {n}
      /\ \A e \in DOMAIN entry : entry'[e] = entry[e]
      /\ entry'[n] = new
  <2>1. /\ DOMAIN With(entry, n, new) = DOMAIN entry \cup {n}
        /\ With(entry, n, new)[n] = new
        /\ \A e \in DOMAIN entry \ {n} : With(entry, n, new)[e] = entry[e]
    BY DEF With
  <2> QED
    BY <1>1, <1>2, <2>1
<1> QED
  BY <1>1, <1>2, <1>3, <1>4 DEF new

\* The thread's own entry is taken out of the list.
LEMMA UnlinkEffect ==
    ASSUME IInv, NEW t \in Threads, Unlink(t)
    PROVE  \E i \in 1..Len(list) :
              /\ First(t, i) /\ entry[list[i]].data = tls[t]
              /\ list' \in Seq(Nat) /\ IsInjective(list') /\ Len(list') = Len(list) - 1
              /\ \A k \in 1..(Len(list) - 1) :
                    list'[k] = IF k < i THEN list[k] ELSE list[k + 1]
              /\ ToSet(list') = ToSet(list) \ {list[i]}
              /\ DOMAIN entry' = DOMAIN entry \ {list[i]}
              /\ \A e \in DOMAIN entry \ {list[i]} : entry'[e] = entry[e]
              /\ list[i] # NULL
<1> DEFINE i == Place(t)
<1>1. Owning(t) /\ Own(t) = tls[t]
  BY DEF Unlink, At, Owning, Own, IInv, Control
<1>2. /\ First(t, i) /\ i \in 1..Len(list) /\ Entry(t) = list[i] /\ Entry(t) # NULL
      /\ entry[Entry(t)].data = tls[t]
  BY <1>1, OwnEntry
<1>3. list' = RemoveAt(list, i) /\ entry' = Without(entry, list[i])
  BY <1>2 DEF Unlink
<1> HIDE DEF i
<1>4. /\ list' \in Seq(Nat) /\ IsInjective(list') /\ Len(list') = Len(list) - 1
      /\ \A k \in 1..(Len(list) - 1) : list'[k] = IF k < i THEN list[k] ELSE list[k + 1]
      /\ ToSet(list') = ToSet(list) \ {list[i]}
  BY <1>2, <1>3, TakeOut DEF IInv, ListOK
<1>5. /\ DOMAIN entry' = DOMAIN entry \ {list[i]}
      /\ \A e \in DOMAIN entry \ {list[i]} : entry'[e] = entry[e]
  BY <1>3, OneLess
<1> QED
  BY <1>2, <1>4, <1>5

\* exit frees the entry that tdl is at, which is nobody's any more, and goes on.
LEMMA FreeEffect ==
    ASSUME IInv, NEW t \in Threads, FreeEntry(t)
    PROVE  \E p \in 1..Len(list) :
              /\ list[p] \in DOMAIN entry /\ tdl[t] = list[p]
              /\ \A i \in p..Len(list) : list[i] \in DOMAIN entry
              /\ \A u \in Threads, i \in p..Len(list) : ~(Owning(u) /\ First(u, i))
              /\ entry[list[p]].allocated => entry[list[p]].data \in DOMAIN data
              /\ data' = IF entry[list[p]].allocated
                         THEN Without(data, entry[list[p]].data) ELSE data
              /\ wild' = wild
              /\ DOMAIN entry' = DOMAIN entry \ {list[p]}
              /\ \A e \in DOMAIN entry \ {list[p]} : entry'[e] = entry[e]
              /\ tdl' = [tdl EXCEPT ![t] = IF p = Len(list) THEN NULL ELSE list[p + 1]]
              /\ UNCHANGED <<Is_DLL, ThreadDataSize, list, tls, pc, mine, foreign, held, over>>
<1>0. pc[t] = "fini" /\ tdl[t] # NULL
  BY DEF FreeEntry, At
<1>1. PICK p \in 1..(Len(list) + 1) :
         /\ tdl[t] = IF p = Len(list) + 1 THEN NULL ELSE list[p]
         /\ \A i \in p..Len(list) : list[i] \in DOMAIN entry
         /\ \A u \in Threads, i \in p..Len(list) : ~(Owning(u) /\ First(u, i))
  BY <1>0 DEF IInv, Leaving
<1>2. p \in 1..Len(list) /\ tdl[t] = list[p] /\ list[p] \in DOMAIN entry
  BY <1>0, <1>1 DEF IInv, ListOK
<1>3. ASSUME entry[list[p]].allocated PROVE entry[list[p]].data \in DOMAIN data
  <2> DEFINE u == entry[list[p]].tid
  <2>1. SUFFICES ASSUME pc[u] = "unlink", tls[u] = entry[list[p]].data PROVE FALSE
    BY <1>2, <1>3 DEF IInv, Ownership, InPlace
  <2>2. u \in Threads /\ tls[u] # NULL
    BY <1>2, <2>1 DEF IInv, ListOK
  <2>3. Owning(u) /\ Own(u) = tls[u]
    BY <2>1, <2>2 DEF Owning, Own
  <2>4. First(u, Place(u)) /\ Place(u) \in 1..Len(list) /\ Entry(u) = list[Place(u)]
        /\ Entry(u) \in DOMAIN entry /\ entry[Entry(u)].data = tls[u]
    BY <2>2, <2>3, OwnEntry
  <2>5. list[Place(u)] = list[p]
    BY <1>2, <2>1, <2>4 DEF IInv, Ownership
  <2>6. Place(u) = p
    BY <1>2, <2>4, <2>5 DEF IInv, ListOK, IsInjective
  <2> QED
    BY <1>1, <1>2, <2>2, <2>3, <2>4, <2>6
<1>4. Following(list[p]) = IF p = Len(list) THEN NULL ELSE list[p + 1]
  BY <1>2, PlaceOf DEF IInv
<1>5. /\ data' = IF entry[list[p]].allocated
                 THEN Without(data, entry[list[p]].data) ELSE data
      /\ wild' = (wild \/ (entry[list[p]].allocated /\ entry[list[p]].data \notin DOMAIN data))
      /\ entry' = Without(entry, list[p])
      /\ tdl' = [tdl EXCEPT ![t] = Following(list[p])]
      /\ UNCHANGED <<Is_DLL, ThreadDataSize, list, tls, pc, mine, foreign, held, over>>
  BY <1>2 DEF FreeEntry
<1>6. /\ DOMAIN entry' = DOMAIN entry \ {list[p]}
      /\ \A e \in DOMAIN entry \ {list[p]} : entry'[e] = entry[e]
  BY <1>5, OneLess
<1>7. wild' = wild
  BY <1>3, <1>5 DEF IInv, ThreadsOK
<1> QED
  BY <1>1, <1>2, <1>3, <1>4, <1>5, <1>6, <1>7

\* The list and the entries keep theirs.
LEMMA ListNext ==
    ASSUME IInv, NEW t \in Threads, Step(t)
    PROVE  ListOK'
<1>0. Exiting => Exiting'
  BY FiniStays DEF Exiting
<1>1. CASE Link(t)
  <2>1. CASE entry' = entry
    <3>1. list' = list
      BY <1>1, <2>1, NewEntryIsNew DEF Link, With, IInv
    <3> QED
      BY <1>0, <2>1, <3>1 DEF IInv, ListOK
  <2>2. CASE entry' # entry
    <3>1. PICK n \in Nat \ {NULL} :
             /\ list' \in Seq(Nat) /\ IsInjective(list')
             /\ ToSet(list') = ToSet(list) \cup {n}
             /\ DOMAIN entry' = DOMAIN entry \cup {n}
             /\ \A e \in DOMAIN entry : entry'[e] = entry[e]
             /\ entry'[n] = [tid |-> t, data |-> mine[t],
                             allocated |-> data[mine[t]].stack = NoThread]
      BY <1>1, <2>2, LinkEffect
    <3>2. IsFiniteSet(DOMAIN entry')
      <4>1. IsFiniteSet(DOMAIN entry)
        BY DEF IInv, ListOK
      <4> QED
        BY <3>1, <4>1, FS_AddElement
    <3>3. mine[t] \in Nat \ {NULL}
      BY <1>1 DEF Link, At, Adding, IInv, Ownership, DataOK
    <3>4. entry'[n] \in [tid : Threads, data : Nat \ {NULL}, allocated : BOOLEAN]
      BY <3>1, <3>3
    <3> QED
      BY <1>0, <3>1, <3>2, <3>4 DEF IInv, ListOK
  <2> QED
    BY <2>1, <2>2
<1>2. CASE Resize(t)
  <2>1. Owning(t)
    BY <1>2 DEF Resize, At, Owning, IInv, Control
  <2>2. Entry(t) \in DOMAIN entry
    BY <2>1, OwnEntry
  <2>3. /\ list' = list
        /\ entry' = [entry EXCEPT ![Entry(t)].data = NewData, ![Entry(t)].allocated = TRUE]
    BY <1>2 DEF Resize
  <2>4. NewData \in Nat \ {NULL}
    BY NewDataIsNew DEF IInv
  <2>5. /\ DOMAIN entry' = DOMAIN entry
        /\ \A e \in DOMAIN entry :
              entry'[e] \in [tid : Threads, data : Nat \ {NULL}, allocated : BOOLEAN]
    BY <2>2, <2>3, <2>4 DEF IInv, ListOK
  <2> QED
    BY <1>0, <2>3, <2>5 DEF IInv, ListOK
<1>3. CASE Unlink(t)
  <2>1. PICK i \in 1..Len(list) :
           /\ list' \in Seq(Nat) /\ IsInjective(list')
           /\ ToSet(list') = ToSet(list) \ {list[i]}
           /\ DOMAIN entry' = DOMAIN entry \ {list[i]}
           /\ \A e \in DOMAIN entry \ {list[i]} : entry'[e] = entry[e]
    BY <1>3, UnlinkEffect
  <2>2. IsFiniteSet(DOMAIN entry')
    <3>1. IsFiniteSet(DOMAIN entry)
      BY DEF IInv, ListOK
    <3>2. IsFiniteSet(DOMAIN entry \ {list[i]})
      BY <3>1, FS_RemoveElement
    <3> QED
      BY <2>1, <3>2
  <2> QED
    BY <1>0, <2>1, <2>2 DEF IInv, ListOK
<1>4. CASE FreeEntry(t)
  <2>1. PICK p \in 1..Len(list) :
           /\ DOMAIN entry' = DOMAIN entry \ {list[p]}
           /\ \A e \in DOMAIN entry \ {list[p]} : entry'[e] = entry[e]
           /\ list' = list /\ pc' = pc
    BY <1>4, FreeEffect
  <2>2. IsFiniteSet(DOMAIN entry')
    <3>1. IsFiniteSet(DOMAIN entry)
      BY DEF IInv, ListOK
    <3>2. IsFiniteSet(DOMAIN entry \ {list[p]})
      BY <3>1, FS_RemoveElement
    <3> QED
      BY <2>1, <3>2
  <2>3. Exiting'
    BY <1>4, <2>1 DEF FreeEntry, At, Exiting
  <2> QED
    BY <1>0, <2>1, <2>2, <2>3 DEF IInv, ListOK
<1>5. CASE UNCHANGED <<list, entry>>
  BY <1>0, <1>5 DEF IInv, ListOK
<1> QED
  BY <1>1, <1>2, <1>3, <1>4, <1>5, EntriesFrame

\* A library stays what it was built as.
LEMMA KindStays ==
    ASSUME NEW t \in Threads, Step(t)
    PROVE  Is_DLL' = Is_DLL
BY DEF Step, Begin, Create, Attach, Attached, MultipleThread, Alloc, AddFails,
   Fatal, Add, Link, Added, Runs, Failed, Realloc, Resize, ResizeFails, Resized,
   LoadLibrary, Register, Grow, Mark, Registered, EndThread, Leave, Detach,
   Detached, RemoveThread, Find, Unlink, Removed, Exit, FreeEntry, ExitProcess

\* There is room for a registration as long as it has not counted itself.
LEMMA RoomNext ==
    ASSUME IInv, NEW t \in Threads, Step(t)
    PROVE  \A u \in Threads : pc'[u] \in {"register", "grow"} => ThreadDataSize' < MaxSize
<1>1. CASE Begin(t)
  BY <1>1 DEF Begin, At, Goto, shared, IInv, ThreadsOK, DataOK
<1>2. CASE Create(t)
  BY <1>2 DEF Create, At, Goto, shared, IInv, ThreadsOK, DataOK
<1>3. CASE Attach(t)
  BY <1>3 DEF Attach, At, Goto, shared, IInv, ThreadsOK, DataOK
<1>4. CASE Attached(t)
  BY <1>4 DEF Attached, At, Goto, shared, IInv, ThreadsOK, DataOK
<1>5. CASE MultipleThread(t)
  BY <1>5 DEF MultipleThread, At, Goto, shared, IInv, ThreadsOK, DataOK
<1>6. CASE Alloc(t)
  BY <1>6 DEF Alloc, AddFails, Fatal, At, Goto, shared, IInv, ThreadsOK, DataOK
<1>7. CASE Add(t)
  BY <1>7 DEF Add, At, Goto, shared, IInv, ThreadsOK, DataOK
<1>8. CASE Link(t)
  BY <1>8 DEF Link, At, Goto, shared, IInv, ThreadsOK, DataOK
<1>9. CASE Added(t)
  BY <1>9 DEF Added, Runs, At, Goto, shared, IInv, ThreadsOK, DataOK
<1>10. CASE Failed(t)
  BY <1>10 DEF Failed, Runs, At, Goto, shared, IInv, ThreadsOK, DataOK
<1>11. CASE Realloc(t)
  BY <1>11 DEF Realloc, At, Goto, shared, IInv, ThreadsOK, DataOK
<1>12. CASE Resize(t)
  BY <1>12 DEF Resize, At, Goto, shared, IInv, ThreadsOK, DataOK
<1>13. CASE ResizeFails(t)
  BY <1>13 DEF ResizeFails, Fatal, At, Goto, shared, IInv, ThreadsOK, DataOK
<1>14. CASE Resized(t)
  BY <1>14 DEF Resized, At, Goto, shared, IInv, ThreadsOK, DataOK
<1>15. CASE LoadLibrary(t)
  BY <1>15 DEF LoadLibrary, At, Goto, shared, IInv, ThreadsOK, DataOK
<1>16. CASE Register(t)
  BY <1>16 DEF Register, At, Goto, shared, IInv, ThreadsOK, DataOK
<1>17. CASE Grow(t)
  BY <1>17 DEF Grow, At, Goto, shared, IInv, ThreadsOK, DataOK, Semaphores,
     InLoader, Control, InList
<1>18. CASE Mark(t)
  BY <1>18 DEF Mark, At, Goto, shared, IInv, ThreadsOK, DataOK
<1>19. CASE Registered(t)
  BY <1>19 DEF Registered, At, Goto, shared, IInv, ThreadsOK, DataOK
<1>20. CASE EndThread(t)
  BY <1>20 DEF EndThread, At, Goto, shared, IInv, ThreadsOK, DataOK
<1>21. CASE Leave(t)
  BY <1>21 DEF Leave, At, Goto, shared, IInv, ThreadsOK, DataOK
<1>22. CASE Detach(t)
  BY <1>22 DEF Detach, At, Goto, shared, IInv, ThreadsOK, DataOK
<1>23. CASE Detached(t)
  <2>1. pc' = [pc EXCEPT ![t] = "remove"] \/ pc' = [pc EXCEPT ![t] = "none"]
    BY <1>23 DEF Detached, Goto
  <2>2. ThreadDataSize' = ThreadDataSize
    BY <1>23 DEF Detached, shared
  <2> QED
    BY <2>1, <2>2 DEF IInv, ThreadsOK, DataOK
<1>24. CASE RemoveThread(t)
  BY <1>24 DEF RemoveThread, At, Goto, shared, IInv, ThreadsOK, DataOK
<1>25. CASE Find(t)
  BY <1>25 DEF Find, At, Goto, shared, IInv, ThreadsOK, DataOK
<1>26. CASE Unlink(t)
  BY <1>26 DEF Unlink, At, Goto, shared, IInv, ThreadsOK, DataOK
<1>27. CASE Removed(t)
  <2>1. pc' = [pc EXCEPT ![t] = "detach"] \/ pc' = [pc EXCEPT ![t] = "none"]
    BY <1>27 DEF Removed, Goto
  <2>2. ThreadDataSize' = ThreadDataSize
    BY <1>27 DEF Removed, shared
  <2> QED
    BY <2>1, <2>2 DEF IInv, ThreadsOK, DataOK
<1>28. CASE Exit(t)
  BY <1>28 DEF Exit, At, Goto, shared, IInv, ThreadsOK, DataOK
<1>29. CASE FreeEntry(t)
  <2>1. pc' = pc /\ ThreadDataSize' = ThreadDataSize
    BY <1>29 DEF FreeEntry, shared
  <2> QED
    BY <2>1 DEF IInv, DataOK
<1>30. CASE ExitProcess(t)
  BY <1>30 DEF ExitProcess, At, Goto, shared, IInv, ThreadsOK, DataOK
<1> QED
  BY <1>1, <1>2, <1>3, <1>4, <1>5, <1>6, <1>7, <1>8, <1>9, <1>10, <1>11, <1>12,
     <1>13, <1>14, <1>15, <1>16, <1>17, <1>18, <1>19, <1>20, <1>21, <1>22, <1>23,
     <1>24, <1>25, <1>26, <1>27, <1>28, <1>29, <1>30 DEF Step

\* And the data.
LEMMA DataNext ==
    ASSUME IInv, NEW t \in Threads, Step(t)
    PROVE  DataOK'
<1>0. \A u \in Threads : pc'[u] \in {"register", "grow"} => ThreadDataSize' < MaxSize
  BY RoomNext
<1>1. CASE Begin(t)
  <2>1. NewData \in Nat \ {NULL}
    BY NewDataIsNew DEF IInv
  <2>2. data' = With(data, NewData, Zeroed(t)) /\ Is_DLL' = Is_DLL
    BY <1>1 DEF Begin
  <2>3. IsFiniteSet(DOMAIN data')
    <3>1. DOMAIN data' = DOMAIN data \cup {NewData} /\ IsFiniteSet(DOMAIN data)
      BY <2>2 DEF With, IInv, DataOK
    <3> QED
      BY <3>1, FS_AddElement
  <2>4. \A d \in DOMAIN data' :
           data'[d] = Zeroed(t) \/ (d \in DOMAIN data /\ data'[d] = data[d])
    BY <2>2 DEF With
  <2>5. ThreadDataSize' = ThreadDataSize
    BY <1>1 DEF Begin, shared
  <2>6. DOMAIN data' \subseteq Nat \ {NULL}
    BY <2>1, <2>2 DEF With, IInv, DataOK
  <2>7. ~Is_DLL /\ t \in Threads
    BY <1>1 DEF Begin, IInv, DataOK, ThreadsOK
  <2>8. ASSUME NEW d \in DOMAIN data'
        PROVE  /\ data'[d] \in [size : 1..MaxSize, resize : BOOLEAN,
                              stack : Threads \cup {NoThread}]
               /\ data'[d].size <= ThreadDataSize
               /\ Is_DLL => data'[d].stack = NoThread
               /\ ~Is_DLL => ~data'[d].resize
    <3>1. CASE d \in DOMAIN data /\ data'[d] = data[d]
      BY <3>1 DEF IInv, DataOK
    <3>2. CASE data'[d] = Zeroed(t)
      BY <3>2, <2>7 DEF Zeroed, IInv, DataOK
    <3> QED
      BY <2>4, <3>1, <3>2
  <2> QED
    BY <1>0, <2>2, <2>3, <2>5, <2>6, <2>8 DEF DataOK, IInv
<1>2. CASE Alloc(t)
  <2>1. CASE UNCHANGED <<data, ThreadDataSize, Is_DLL>>
    BY <1>0, <2>1 DEF IInv, DataOK
  <2>2. CASE data' = With(data, NewData, Zeroed(NoThread))
    <3>1. NewData \in Nat \ {NULL}
      BY NewDataIsNew DEF IInv
    <3>2. ThreadDataSize' = ThreadDataSize /\ Is_DLL' = Is_DLL
      BY <1>2 DEF Alloc, AddFails, Fatal, shared
    <3>3. DOMAIN data' = DOMAIN data \cup {NewData} /\ IsFiniteSet(DOMAIN data)
      BY <2>2 DEF With, IInv, DataOK
    <3>4. IsFiniteSet(DOMAIN data')
      BY <3>3, FS_AddElement
    <3>5. \A d \in DOMAIN data' :
             data'[d] = Zeroed(NoThread) \/ (d \in DOMAIN data /\ data'[d] = data[d])
      BY <2>2 DEF With
    <3>6. DOMAIN data' \subseteq Nat \ {NULL}
      BY <3>1, <3>3 DEF IInv, DataOK
    <3>7. ASSUME NEW d \in DOMAIN data'
          PROVE  /\ data'[d] \in [size : 1..MaxSize, resize : BOOLEAN,
                                stack : Threads \cup {NoThread}]
                 /\ data'[d].size <= ThreadDataSize
                 /\ Is_DLL => data'[d].stack = NoThread
                 /\ ~Is_DLL => ~data'[d].resize
      <4>1. CASE d \in DOMAIN data /\ data'[d] = data[d]
        BY <4>1 DEF IInv, DataOK
      <4>2. CASE data'[d] = Zeroed(NoThread)
        BY <4>2 DEF Zeroed, IInv, DataOK
      <4> QED
        BY <3>5, <4>1, <4>2
    <3> QED
      BY <1>0, <3>2, <3>4, <3>6, <3>7 DEF DataOK, IInv
  <2> QED
    BY <2>1, <2>2, <1>2 DEF Alloc, AddFails, Fatal, shared
<1>3. CASE Failed(t)
  <2>1. /\ IsFiniteSet(DOMAIN data') /\ DOMAIN data' \subseteq DOMAIN data
        /\ \A d \in DOMAIN data' : data'[d] = data[d]
        /\ ThreadDataSize' = ThreadDataSize /\ Is_DLL' = Is_DLL
    <3>1. /\ data' = Without(data, mine[t])
          /\ ThreadDataSize' = ThreadDataSize
          /\ Is_DLL' = Is_DLL
      BY <1>3 DEF Failed
    <3>2. IsFiniteSet(DOMAIN data)
      BY DEF IInv, DataOK
    <3>3. IsFiniteSet(DOMAIN data \ {mine[t]})
      BY <3>2, FS_RemoveElement
    <3> QED
      BY <3>1, <3>3 DEF Without
  <2> QED
    BY <1>0, <2>1 DEF DataOK, IInv
<1>4. CASE Resize(t)
  <2>1. NewData \in Nat \ {NULL}
    BY NewDataIsNew DEF IInv
  <2>2. /\ \E kept \in {data, Without(data, entry[Entry(t)].data)} :
              data' = With(kept, NewData, Zeroed(NoThread))
        /\ ThreadDataSize' = ThreadDataSize /\ Is_DLL' = Is_DLL
    BY <1>4 DEF Resize
  <2>3. PICK kept \in {data, Without(data, entry[Entry(t)].data)} :
           data' = With(kept, NewData, Zeroed(NoThread))
    BY <2>2
  <2>4. /\ DOMAIN kept \subseteq DOMAIN data /\ \A d \in DOMAIN kept : kept[d] = data[d]
    BY DEF Without
  <2>5. IsFiniteSet(DOMAIN data')
    <3>1. DOMAIN data' = DOMAIN kept \cup {NewData} /\ IsFiniteSet(DOMAIN data)
      BY <2>3 DEF With, IInv, DataOK
    <3>2. IsFiniteSet(DOMAIN kept)
      BY <2>4, <3>1, FS_Subset
    <3> QED
      BY <3>1, <3>2, FS_AddElement
  <2>6. \A d \in DOMAIN data' :
           data'[d] = Zeroed(NoThread) \/ (d \in DOMAIN data /\ data'[d] = data[d])
    BY <2>3, <2>4 DEF With
  <2>7. DOMAIN data' \subseteq Nat \ {NULL}
    BY <2>1, <2>3, <2>4 DEF With, IInv, DataOK
  <2>8. ASSUME NEW d \in DOMAIN data'
        PROVE  /\ data'[d] \in [size : 1..MaxSize, resize : BOOLEAN,
                              stack : Threads \cup {NoThread}]
               /\ data'[d].size <= ThreadDataSize
               /\ Is_DLL => data'[d].stack = NoThread
               /\ ~Is_DLL => ~data'[d].resize
    <3>1. CASE d \in DOMAIN data /\ data'[d] = data[d]
      BY <3>1 DEF IInv, DataOK
    <3>2. CASE data'[d] = Zeroed(NoThread)
      BY <3>2 DEF Zeroed, IInv, DataOK
    <3> QED
      BY <2>6, <3>1, <3>2
  <2> QED
    BY <1>0, <2>2, <2>5, <2>7, <2>8 DEF DataOK, IInv
<1>5. CASE Grow(t)
  <2>1. /\ data' = data /\ ThreadDataSize' = ThreadDataSize + 1 /\ Is_DLL' = Is_DLL
        /\ ThreadDataSize < MaxSize
    BY <1>5 DEF Grow, At, IInv, DataOK
  <2>2. Is_DLL
    BY <1>5 DEF Grow, At, IInv, Control, ThreadsOK
  <2> QED
    BY <1>0, <2>1, <2>2, ThreadDataAssumption DEF DataOK, IInv
<1>6. CASE Mark(t)
  <2>1. /\ DOMAIN data' = DOMAIN data /\ ThreadDataSize' = ThreadDataSize /\ Is_DLL' = Is_DLL
        /\ \A d \in DOMAIN data : \/ data'[d] = data[d]
                                \/ data'[d] = [data[d] EXCEPT !.resize = TRUE]
    BY <1>6 DEF Mark
  <2>2. Is_DLL
    BY <1>6 DEF Mark, At, IInv, Control, ThreadsOK
  <2>3. ASSUME NEW d \in DOMAIN data'
        PROVE  /\ data'[d] \in [size : 1..MaxSize, resize : BOOLEAN,
                              stack : Threads \cup {NoThread}]
               /\ data'[d].size <= ThreadDataSize
               /\ Is_DLL => data'[d].stack = NoThread
               /\ ~Is_DLL => ~data'[d].resize
    <3>1. CASE d \in DOMAIN data /\ data'[d] = data[d]
      BY <3>1 DEF IInv, DataOK
    <3>2. CASE d \in DOMAIN data /\ data'[d] = [data[d] EXCEPT !.resize = TRUE]
      BY <3>2, <2>2 DEF Zeroed, IInv, DataOK
    <3> QED
      BY <2>1, <3>1, <3>2
  <2> QED
    BY <1>0, <2>1, <2>3 DEF DataOK, IInv
<1>7. CASE Find(t)
  <2>1. /\ IsFiniteSet(DOMAIN data') /\ DOMAIN data' \subseteq DOMAIN data
        /\ \A d \in DOMAIN data' : data'[d] = data[d]
        /\ ThreadDataSize' = ThreadDataSize /\ Is_DLL' = Is_DLL
    <3>1. /\ data' = data \/ data' = Without(data, entry[Entry(t)].data)
          /\ ThreadDataSize' = ThreadDataSize /\ Is_DLL' = Is_DLL
      BY <1>7 DEF Find
    <3>2. IsFiniteSet(DOMAIN data)
      BY DEF IInv, DataOK
    <3>3. IsFiniteSet(DOMAIN data \ {entry[Entry(t)].data})
      BY <3>2, FS_RemoveElement
    <3> QED
      BY <3>1, <3>2, <3>3 DEF Without
  <2> QED
    BY <1>0, <2>1 DEF DataOK, IInv
<1>8. CASE Removed(t)
  <2>1. /\ IsFiniteSet(DOMAIN data') /\ DOMAIN data' \subseteq DOMAIN data
        /\ \A d \in DOMAIN data' : data'[d] = data[d]
        /\ ThreadDataSize' = ThreadDataSize /\ Is_DLL' = Is_DLL
    <3>1. /\ \/ data' = data
             \/ data' = [d \in {d \in DOMAIN data : data[d].stack # t} |-> data[d]]
          /\ ThreadDataSize' = ThreadDataSize /\ Is_DLL' = Is_DLL
      BY <1>8 DEF Removed
    <3>2. IsFiniteSet(DOMAIN data)
      BY DEF IInv, DataOK
    <3>3. IsFiniteSet({d \in DOMAIN data : data[d].stack # t})
      BY <3>2, FS_Subset
    <3> QED
      BY <3>1, <3>2, <3>3
  <2> QED
    BY <1>0, <2>1 DEF DataOK, IInv
<1>9. CASE FreeEntry(t)
  <2>1. /\ IsFiniteSet(DOMAIN data') /\ DOMAIN data' \subseteq DOMAIN data
        /\ \A d \in DOMAIN data' : data'[d] = data[d]
        /\ ThreadDataSize' = ThreadDataSize /\ Is_DLL' = Is_DLL
    <3>1. PICK p \in 1..Len(list) :
             /\ data' = IF entry[list[p]].allocated
                        THEN Without(data, entry[list[p]].data) ELSE data
             /\ ThreadDataSize' = ThreadDataSize /\ Is_DLL' = Is_DLL
      BY <1>9, FreeEffect
    <3>2. IsFiniteSet(DOMAIN data)
      BY DEF IInv, DataOK
    <3>3. IsFiniteSet(DOMAIN data \ {entry[list[p]].data})
      BY <3>2, FS_RemoveElement
    <3> QED
      BY <3>1, <3>2, <3>3 DEF Without
  <2> QED
    BY <1>0, <2>1 DEF DataOK, IInv
<1>10. CASE UNCHANGED <<data, ThreadDataSize>>
  <2>1. Is_DLL' = Is_DLL
    BY KindStays
  <2> QED
    BY <1>0, <1>10, <2>1 DEF IInv, DataOK
<1> QED
  BY <1>1, <1>2, <1>3, <1>4, <1>5, <1>6, <1>7, <1>8, <1>9, <1>10, DataFrame

\* A step of t leaves the other threads where they are.
LEMMA OthersFrame ==
    ASSUME IInv, NEW t \in Threads, Step(t)
    PROVE  \A u \in Threads \ {t} :
              /\ pc'[u] = pc[u] /\ tls'[u] = tls[u] /\ mine'[u] = mine[u]
              /\ tdl'[u] = tdl[u] /\ (u \in foreign' <=> u \in foreign)
<1>1. CASE Begin(t)
  BY <1>1 DEF Begin, At, Goto, shared, IInv, ThreadsOK
<1>2. CASE Create(t)
  BY <1>2 DEF Create, At, Goto, shared, IInv, ThreadsOK
<1>3. CASE Attach(t)
  BY <1>3 DEF Attach, At, Goto, shared, IInv, ThreadsOK
<1>4. CASE Attached(t)
  BY <1>4 DEF Attached, At, Goto, shared, IInv, ThreadsOK
<1>5. CASE MultipleThread(t)
  BY <1>5 DEF MultipleThread, At, Goto, shared, IInv, ThreadsOK
<1>6. CASE Alloc(t)
  <2>1. /\ pc' = pc \/ pc' = [pc EXCEPT ![t] = "add"] \/ pc' = [pc EXCEPT ![t] = "attached"]
        /\ mine' = mine \/ mine' = [mine EXCEPT ![t] = NewData]
        /\ foreign' = foreign \/ foreign' = foreign \cup {t}
        /\ UNCHANGED <<tls, tdl>>
    BY <1>6 DEF Alloc, AddFails, Fatal, Goto
  <2> QED
    BY <2>1 DEF IInv, ThreadsOK
<1>7. CASE Add(t)
  BY <1>7 DEF Add, At, Goto, shared, IInv, ThreadsOK
<1>8. CASE Link(t)
  BY <1>8 DEF Link, At, Goto, shared, IInv, ThreadsOK
<1>9. CASE Added(t)
  BY <1>9 DEF Added, Runs, At, Goto, shared, IInv, ThreadsOK
<1>10. CASE Failed(t)
  BY <1>10 DEF Failed, Runs, At, Goto, shared, IInv, ThreadsOK
<1>11. CASE Realloc(t)
  BY <1>11 DEF Realloc, At, Goto, shared, IInv, ThreadsOK
<1>12. CASE Resize(t)
  <2>1. /\ tls' = [tls EXCEPT ![t] = NewData] /\ pc' = [pc EXCEPT ![t] = "resized"]
        /\ UNCHANGED <<mine, foreign, tdl>>
    BY <1>12 DEF Resize, Goto
  <2> QED
    BY <2>1 DEF IInv, ThreadsOK
<1>13. CASE ResizeFails(t)
  BY <1>13 DEF ResizeFails, Fatal, At, Goto, shared, IInv, ThreadsOK
<1>14. CASE Resized(t)
  BY <1>14 DEF Resized, At, Goto, shared, IInv, ThreadsOK
<1>15. CASE LoadLibrary(t)
  BY <1>15 DEF LoadLibrary, At, Goto, shared, IInv, ThreadsOK
<1>16. CASE Register(t)
  BY <1>16 DEF Register, At, Goto, shared, IInv, ThreadsOK
<1>17. CASE Grow(t)
  BY <1>17 DEF Grow, At, Goto, shared, IInv, ThreadsOK
<1>18. CASE Mark(t)
  BY <1>18 DEF Mark, At, Goto, shared, IInv, ThreadsOK
<1>19. CASE Registered(t)
  BY <1>19 DEF Registered, At, Goto, shared, IInv, ThreadsOK
<1>20. CASE EndThread(t)
  BY <1>20 DEF EndThread, At, Goto, shared, IInv, ThreadsOK
<1>21. CASE Leave(t)
  BY <1>21 DEF Leave, At, Goto, shared, IInv, ThreadsOK
<1>22. CASE Detach(t)
  BY <1>22 DEF Detach, At, Goto, shared, IInv, ThreadsOK
<1>23. CASE Detached(t)
  <2>1. pc' = [pc EXCEPT ![t] = "remove"] \/ pc' = [pc EXCEPT ![t] = "none"]
    BY <1>23 DEF Detached, Goto
  <2> QED
    BY <2>1, <1>23 DEF Detached, IInv, ThreadsOK
<1>24. CASE RemoveThread(t)
  BY <1>24 DEF RemoveThread, At, Goto, shared, IInv, ThreadsOK
<1>25. CASE Find(t)
  BY <1>25 DEF Find, At, Goto, shared, IInv, ThreadsOK
<1>26. CASE Unlink(t)
  BY <1>26 DEF Unlink, At, Goto, shared, IInv, ThreadsOK
<1>27. CASE Removed(t)
  <2>1. pc' = [pc EXCEPT ![t] = "detach"] \/ pc' = [pc EXCEPT ![t] = "none"]
    BY <1>27 DEF Removed, Goto
  <2> QED
    BY <2>1, <1>27 DEF Removed, IInv, ThreadsOK
<1>28. CASE Exit(t)
  BY <1>28 DEF Exit, At, Goto, shared, IInv, ThreadsOK
<1>29. CASE FreeEntry(t)
  <2>1. /\ UNCHANGED <<pc, tls, mine, foreign>>
        /\ \E e : tdl' = [tdl EXCEPT ![t] = e]
    BY <1>29, FreeEffect
  <2> QED
    BY <2>1 DEF IInv, ThreadsOK
<1>30. CASE ExitProcess(t)
  BY <1>30 DEF ExitProcess, At, Goto, shared, IInv, ThreadsOK
<1> QED
  BY <1>1, <1>2, <1>3, <1>4, <1>5, <1>6, <1>7, <1>8, <1>9, <1>10, <1>11, <1>12,
     <1>13, <1>14, <1>15, <1>16, <1>17, <1>18, <1>19, <1>20, <1>21, <1>22, <1>23,
     <1>24, <1>25, <1>26, <1>27, <1>28, <1>29, <1>30 DEF Step

\* What t owns is still what it owned, unless it got or moved its data.
LEMMA OwnFrame ==
    ASSUME IInv, NEW t \in Threads, Step(t), ~Link(t), ~Resize(t)
    PROVE  Owning(t)' => Owning(t) /\ Own(t)' = Own(t)
<1>1. CASE Begin(t)
  BY <1>1 DEF Begin, At, Goto, shared, IInv, ThreadsOK, Control, Owning, Own
<1>2. CASE Create(t)
  BY <1>2 DEF Create, At, Goto, shared, IInv, ThreadsOK, Control, Owning, Own
<1>3. CASE Attach(t)
  BY <1>3 DEF Attach, At, Goto, shared, IInv, ThreadsOK, Control, Owning, Own
<1>4. CASE Attached(t)
  BY <1>4 DEF Attached, At, Goto, shared, IInv, ThreadsOK, Control, Owning, Own
<1>5. CASE MultipleThread(t)
  BY <1>5 DEF MultipleThread, At, Goto, shared, IInv, ThreadsOK, Control, Owning,
     Own
<1>6. CASE Alloc(t)
  <2>1. /\ pc' = pc \/ pc' = [pc EXCEPT ![t] = "add"] \/ pc' = [pc EXCEPT ![t] = "attached"]
        /\ pc[t] = "alloc" /\ tls' = tls
    BY <1>6 DEF Alloc, AddFails, Fatal, Goto, At
  <2> QED
    BY <2>1 DEF IInv, ThreadsOK, Control, Owning, Own
<1>7. CASE Add(t)
  BY <1>7 DEF Add, At, Goto, shared, IInv, ThreadsOK, Control, Owning, Own
<1>8. CASE Added(t)
  <2>1. /\ tls' = [tls EXCEPT ![t] = mine[t]] /\ pc[t] = "added"
        /\ (pc' = [pc EXCEPT ![t] = "attached"] \/ pc' = [pc EXCEPT ![t] = "idle"])
    BY <1>8 DEF Added, Goto, At, Runs
  <2> QED
    BY <2>1 DEF IInv, ThreadsOK, Owning, Own
<1>9. CASE Failed(t)
  BY <1>9 DEF Failed, Runs, At, Goto, shared, IInv, ThreadsOK, Control, Owning, Own
<1>10. CASE Realloc(t)
  BY <1>10 DEF Realloc, At, Goto, shared, IInv, ThreadsOK, Control, Owning, Own
<1>11. CASE ResizeFails(t)
  BY <1>11 DEF ResizeFails, Fatal, At, Goto, shared, IInv, ThreadsOK, Control,
     Owning, Own
<1>12. CASE Resized(t)
  BY <1>12 DEF Resized, At, Goto, shared, IInv, ThreadsOK, Control, Owning, Own
<1>13. CASE LoadLibrary(t)
  BY <1>13 DEF LoadLibrary, At, Goto, shared, IInv, ThreadsOK, Control, Owning, Own
<1>14. CASE Register(t)
  BY <1>14 DEF Register, At, Goto, shared, IInv, ThreadsOK, Control, Owning, Own
<1>15. CASE Grow(t)
  BY <1>15 DEF Grow, At, Goto, shared, IInv, ThreadsOK, Control, Owning, Own
<1>16. CASE Mark(t)
  BY <1>16 DEF Mark, At, Goto, shared, IInv, ThreadsOK, Control, Owning, Own
<1>17. CASE Registered(t)
  BY <1>17 DEF Registered, At, Goto, shared, IInv, ThreadsOK, Control, Owning, Own
<1>18. CASE EndThread(t)
  BY <1>18 DEF EndThread, At, Goto, shared, IInv, ThreadsOK, Control, Owning, Own
<1>19. CASE Leave(t)
  BY <1>19 DEF Leave, At, Goto, shared, IInv, ThreadsOK, Control, Owning, Own
<1>20. CASE Detach(t)
  BY <1>20 DEF Detach, At, Goto, shared, IInv, ThreadsOK, Control, Owning, Own
<1>21. CASE Detached(t)
  <2>1. /\ pc' = [pc EXCEPT ![t] = "remove"] \/ pc' = [pc EXCEPT ![t] = "none"]
        /\ UNCHANGED <<tls, mine>> /\ pc[t] = "detach"
    BY <1>21 DEF Detached, Goto, At
  <2> QED
    BY <2>1 DEF IInv, ThreadsOK, Owning, Own
<1>22. CASE RemoveThread(t)
  BY <1>22 DEF RemoveThread, At, Goto, shared, IInv, ThreadsOK, Control, Owning, Own
<1>23. CASE Find(t)
  BY <1>23 DEF Find, At, Goto, shared, IInv, ThreadsOK, Control, Owning, Own
<1>24. CASE Unlink(t)
  BY <1>24 DEF Unlink, At, Goto, shared, IInv, ThreadsOK, Control, Owning, Own
<1>25. CASE Removed(t)
  <2>1. tls' = [tls EXCEPT ![t] = NULL]
        /\ (pc' = [pc EXCEPT ![t] = "detach"] \/ pc' = [pc EXCEPT ![t] = "none"])
    BY <1>25 DEF Removed, Goto
  <2> QED
    BY <2>1 DEF IInv, ThreadsOK, Owning, Own
<1>26. CASE Exit(t)
  BY <1>26 DEF Exit, At, Goto, shared, IInv, ThreadsOK, Control, Owning, Own
<1>27. CASE FreeEntry(t)
  <2>1. UNCHANGED <<pc, tls, mine>>
    BY <1>27, FreeEffect
  <2> QED
    BY <2>1 DEF Owning, Own
<1>28. CASE ExitProcess(t)
  BY <1>28 DEF ExitProcess, At, Goto, shared, IInv, ThreadsOK, Control, Owning, Own
<1> QED
  BY <1>1, <1>2, <1>3, <1>4, <1>5, <1>6, <1>7, <1>8, <1>9, <1>10, <1>11, <1>12,
     <1>13, <1>14, <1>15, <1>16, <1>17, <1>18, <1>19, <1>20, <1>21, <1>22, <1>23,
     <1>24, <1>25, <1>26, <1>27, <1>28 DEF Step

\* Each thread that has data still finds it first.
LEMMA FoundNext ==
    ASSUME IInv, NEW t \in Threads, Step(t)
    PROVE  Found'
<1> SUFFICES ASSUME NEW u \in Threads, Owning(u)'
             PROVE  \E i \in 1..Len(list') :
                       First(u, i)' /\ entry'[list'[i]].data = Own(u)'
  BY DEF Found
<1>1. u # t => Owning(u) /\ Own(u)' = Own(u)
  BY OthersFrame DEF Owning, Own
<1>2. ASSUME Owning(u)
      PROVE  \E i \in 1..Len(list) : First(u, i) /\ entry[list[i]].data = Own(u)
  BY <1>2 DEF IInv, Found
<1>3. CASE Link(t)
  <2>1. pc[t] = "link" /\ tls[t] = NULL /\ tls' = tls /\ mine' = mine
    BY <1>3 DEF Link, At, IInv, Control
  <2>2. CASE entry' = entry
    <3>1. list' = list /\ pc' = [pc EXCEPT ![t] = "failed"]
      BY <1>3, <2>2, NewEntryIsNew DEF Link, With, Goto, IInv
    <3>2. u # t
      BY <2>1, <3>1 DEF Owning, IInv, ThreadsOK
    <3> QED
      BY <1>1, <1>2, <2>2, <3>1, <3>2 DEF First
  <2>3. CASE entry' # entry
    <3>1. PICK n \in Nat \ {NULL} :
             /\ n \notin DOMAIN entry /\ Len(list') = Len(list) + 1
             /\ list'[1] = n /\ \A i \in 1..Len(list) : list'[i + 1] = list[i]
             /\ DOMAIN entry' = DOMAIN entry \cup {n}
             /\ \A e \in DOMAIN entry : entry'[e] = entry[e]
             /\ entry'[n] = [tid |-> t, data |-> mine[t],
                             allocated |-> data[mine[t]].stack = NoThread]
             /\ pc' = [pc EXCEPT ![t] = "added"]
      BY <1>3, <2>3, LinkEffect
    <3>2. Len(list) \in Nat
      BY DEF IInv, ListOK
    <3>3. CASE u = t
      <4>1. Own(u)' = mine[t]
        BY <2>1, <3>1, <3>3 DEF Own, IInv, ThreadsOK
      <4>2. 1 \in 1..Len(list') /\ First(u, 1)'
        BY <3>1, <3>2, <3>3 DEF First
      <4> QED
        BY <3>1, <4>1, <4>2
    <3>4. CASE u # t
      <4>1. PICK i \in 1..Len(list) : First(u, i) /\ entry[list[i]].data = Own(u)
        BY <1>1, <1>2, <3>4
      <4>2. i + 1 \in 1..Len(list') /\ list'[i + 1] = list[i]
        BY <3>1, <3>2
      <4>3. ASSUME NEW j \in 1..i
            PROVE  list'[j] \in DOMAIN entry' /\ entry'[list'[j]].tid # u
        <5>1. CASE j = 1
          BY <3>1, <3>4, <5>1
        <5>2. CASE j # 1
          <6>1. j - 1 \in 1..(i - 1) /\ j - 1 \in 1..Len(list) /\ (j - 1) + 1 = j
            BY <3>2, <5>2
          <6>2. list'[j] = list[j - 1]
            BY <3>1, <6>1
          <6>3. list[j - 1] \in DOMAIN entry /\ entry[list[j - 1]].tid # u
            BY <4>1, <6>1 DEF First
          <6> QED
            BY <3>1, <6>2, <6>3
        <5> QED
          BY <5>1, <5>2
      <4>4. First(u, i + 1)'
        <5>1. \A j \in 1..((i + 1) - 1) :
                 list'[j] \in DOMAIN entry' /\ entry'[list'[j]].tid # u
          BY <4>3
        <5> QED
          BY <3>1, <4>1, <4>2, <5>1 DEF First
      <4> QED
        BY <1>1, <3>1, <3>4, <4>1, <4>2, <4>4 DEF First
    <3> QED
      BY <3>3, <3>4
  <2> QED
    BY <2>2, <2>3
<1>4. CASE Resize(t)
  <2>1. pc[t] = "resize" /\ Owning(t) /\ Own(t) = tls[t]
    BY <1>4 DEF Resize, At, Owning, Own, IInv, Control
  <2>2. /\ list' = list /\ tls' = [tls EXCEPT ![t] = NewData]
        /\ pc' = [pc EXCEPT ![t] = "resized"]
        /\ entry' = [entry EXCEPT ![Entry(t)].data = NewData, ![Entry(t)].allocated = TRUE]
    BY <1>4 DEF Resize, Goto
  <2>3. Entry(t) \in DOMAIN entry /\ entry[Entry(t)].tid = t /\ entry[Entry(t)].data = tls[t]
    BY <2>1, OwnEntry
  <2>4. /\ DOMAIN entry' = DOMAIN entry
        /\ \A e \in DOMAIN entry : entry'[e].tid = entry[e].tid
        /\ \A e \in DOMAIN entry \ {Entry(t)} : entry'[e] = entry[e]
        /\ entry'[Entry(t)].data = NewData
    BY <2>2, <2>3 DEF IInv, ListOK
  <2>5. \A i : First(u, i) => First(u, i)'
    BY <2>2, <2>4 DEF First
  <2>6. CASE u = t
    <3>1. Own(u)' = NewData
      BY <2>2, <2>6 DEF Own, IInv, ThreadsOK
    <3>2. First(t, Place(t)) /\ Place(t) \in 1..Len(list) /\ Entry(t) = list[Place(t)]
      BY <2>1, OwnEntry
    <3> QED
      BY <2>2, <2>4, <2>5, <2>6, <3>1, <3>2
  <2>7. CASE u # t
    <3>1. PICK i \in 1..Len(list) : First(u, i) /\ entry[list[i]].data = Own(u)
      BY <1>1, <1>2, <2>7
    <3>2. list[i] # Entry(t)
      BY <2>3, <2>7, <3>1 DEF First
    <3> QED
      BY <1>1, <2>2, <2>4, <2>5, <2>7, <3>1, <3>2 DEF First
  <2> QED
    BY <2>6, <2>7
<1>5. CASE Unlink(t)
  <2>1. PICK p \in 1..Len(list) :
           /\ First(t, p) /\ Len(list') = Len(list) - 1
           /\ \A k \in 1..(Len(list) - 1) :
                 list'[k] = IF k < p THEN list[k] ELSE list[k + 1]
           /\ DOMAIN entry' = DOMAIN entry \ {list[p]}
           /\ \A e \in DOMAIN entry \ {list[p]} : entry'[e] = entry[e]
    BY <1>5, UnlinkEffect
  <2>2. u # t
    <3>1. pc' = [pc EXCEPT ![t] = "removed"]
      BY <1>5 DEF Unlink, Goto
    <3> QED
      BY <3>1 DEF Owning, IInv, ThreadsOK
  <2>3. PICK i \in 1..Len(list) : First(u, i) /\ entry[list[i]].data = Own(u)
    BY <1>1, <1>2, <2>2
  <2>4. i # p /\ Len(list) \in Nat
    BY <2>1, <2>2, <2>3 DEF First, IInv, ListOK
  <2>5. \A k \in 1..Len(list) : k # p => list[k] # list[p]
    BY <2>1 DEF IInv, ListOK, IsInjective
  <2>6. PICK m \in 1..(Len(list) - 1) : IF i < p THEN m = i ELSE m = i - 1
    BY <2>4
  <2>7. list'[m] = list[i] /\ list[i] # list[p]
    BY <2>1, <2>4, <2>5, <2>6
  <2>8. ASSUME NEW j \in 1..(m - 1)
        PROVE  list'[j] \in DOMAIN entry' /\ entry'[list'[j]].tid # u
    <3>1. PICK k \in 1..(i - 1) : k # p /\ list'[j] = list[k]
      <4>1. CASE j < p
        <5>1. j \in 1..(i - 1) /\ j # p /\ j \in 1..(Len(list) - 1)
          BY <2>4, <2>6, <4>1
        <5>2. list'[j] = list[j]
          BY <2>1, <4>1, <5>1
        <5> QED
          BY <5>1, <5>2
      <4>2. CASE ~(j < p)
        <5>1. j + 1 \in 1..(i - 1) /\ j + 1 # p /\ list'[j] = list[j + 1]
          BY <2>1, <2>4, <2>6, <4>2
        <5> QED
          BY <5>1
      <4> QED
        BY <4>1, <4>2
    <3>2. list[k] \in DOMAIN entry /\ entry[list[k]].tid # u /\ k \in 1..Len(list)
      BY <2>3, <2>4, <3>1 DEF First
    <3> QED
      BY <2>1, <2>5, <3>1, <3>2
  <2>9. First(u, m)'
    BY <2>1, <2>3, <2>4, <2>6, <2>7, <2>8 DEF First
  <2> QED
    BY <1>1, <2>1, <2>2, <2>3, <2>4, <2>6, <2>7, <2>9 DEF First
<1>6. CASE FreeEntry(t)
  <2>1. PICK p \in 1..Len(list) :
           /\ \A v \in Threads, i \in p..Len(list) : ~(Owning(v) /\ First(v, i))
           /\ DOMAIN entry' = DOMAIN entry \ {list[p]}
           /\ \A e \in DOMAIN entry \ {list[p]} : entry'[e] = entry[e]
           /\ UNCHANGED <<list, pc, tls, mine>>
    BY <1>6, FreeEffect
  <2>2. Owning(u) /\ Own(u)' = Own(u)
    BY <2>1 DEF Owning, Own
  <2>3. PICK i \in 1..Len(list) : First(u, i) /\ entry[list[i]].data = Own(u)
    BY <1>2, <2>2
  <2>4. i < p /\ Len(list) \in Nat
    BY <2>1, <2>2, <2>3 DEF IInv, ListOK
  <2>5. \A k \in 1..i : list[k] # list[p]
    BY <2>4 DEF IInv, ListOK, IsInjective
  <2>6. First(u, i)'
    BY <2>1, <2>3, <2>4, <2>5 DEF First
  <2> QED
    BY <2>1, <2>2, <2>3, <2>4, <2>5, <2>6 DEF First
<1>7. CASE UNCHANGED <<list, entry>> /\ ~Link(t) /\ ~Resize(t)
  <2>1. Owning(u) /\ Own(u)' = Own(u)
    BY <1>1, <1>7, OwnFrame
  <2> QED
    BY <1>2, <1>7, <2>1 DEF First
<1> QED
  BY <1>3, <1>4, <1>5, <1>6, <1>7, EntriesFrame

-------------------------------------------------------------------------------
(***************************************************************************)
(* What a step does with entries and data.                                 *)
(***************************************************************************)
KeepsData(t, d) ==
    d \in DOMAIN data' /\ data'[d].stack = data[d].stack /\ (data'[d] = data[d] \/ Mark(t))

FreesData(t, d) ==
    /\ d \notin DOMAIN data'
    /\ \/ Failed(t) /\ d = mine[t]
       \/ Removed(t) /\ data[d].stack = t /\ pc[t] = "removed"
       \/ (Resize(t) \/ Find(t)) /\ entry[Entry(t)].allocated /\ d = entry[Entry(t)].data
       \/ /\ FreeEntry(t) /\ tdl[t] \in DOMAIN entry /\ tdl[t] \notin DOMAIN entry'
          /\ entry[tdl[t]].allocated /\ d = entry[tdl[t]].data

NewHolds(t, d) ==
    /\ d = NewData
    /\ \/ Begin(t) /\ data'[d] = Zeroed(t)
       \/ (Alloc(t) \/ Resize(t)) /\ data'[d] = Zeroed(NoThread)

\* Data is kept, or freed by one of five operations, or new.
LEMMA DataEffect ==
    ASSUME IInv, NEW t \in Threads, Step(t)
    PROVE  /\ \A d \in DOMAIN data : KeepsData(t, d) \/ FreesData(t, d)
           /\ \A d \in DOMAIN data' : d \in DOMAIN data \/ NewHolds(t, d)
<1>0. NewData \notin DOMAIN data
  BY NewDataIsNew DEF IInv
<1>1. CASE data' = data \/ Grow(t)
  BY <1>1 DEF KeepsData, Grow
<1>2. CASE Begin(t)
  <2>1. data' = With(data, NewData, Zeroed(t))
    BY <1>2 DEF Begin
  <2> QED
    BY <1>0, <1>2, <2>1 DEF With, KeepsData, NewHolds
<1>3. CASE Alloc(t) /\ data' # data
  <2>1. data' = With(data, NewData, Zeroed(NoThread))
    BY <1>3 DEF Alloc, AddFails, Fatal, shared
  <2> QED
    BY <1>0, <1>3, <2>1 DEF With, KeepsData, NewHolds
<1>4. CASE Failed(t)
  <2>1. data' = Without(data, mine[t])
    BY <1>4 DEF Failed
  <2> QED
    BY <1>4, <2>1 DEF Without, KeepsData, FreesData
<1>5. CASE Resize(t)
  <2>1. data' = With(IF entry[Entry(t)].allocated THEN Without(data, entry[Entry(t)].data)
                     ELSE data, NewData, Zeroed(NoThread))
    BY <1>5 DEF Resize
  <2>2. CASE entry[Entry(t)].allocated
    BY <1>0, <1>5, <2>1, <2>2 DEF With, Without, KeepsData, FreesData, NewHolds
  <2>3. CASE ~entry[Entry(t)].allocated
    BY <1>0, <1>5, <2>1, <2>3 DEF With, KeepsData, NewHolds
  <2> QED
    BY <2>2, <2>3
<1>6. CASE Mark(t)
  <2>1. /\ DOMAIN data' = DOMAIN data
        /\ \A d \in DOMAIN data :
              data'[d] = data[d] \/ data'[d] = [data[d] EXCEPT !.resize = TRUE]
    BY <1>6 DEF Mark
  <2>2. \A d \in DOMAIN data : data[d] \in [size : 1..MaxSize, resize : BOOLEAN,
                                            stack : Threads \cup {NoThread}]
    BY DEF IInv, DataOK
  <2>3. \A d \in DOMAIN data : data'[d].stack = data[d].stack
    BY <2>1, <2>2
  <2> QED
    BY <1>6, <2>1, <2>3 DEF KeepsData
<1>7. CASE Find(t) /\ data' # data
  <2>1. data' = Without(data, entry[Entry(t)].data) /\ entry[Entry(t)].allocated
    BY <1>7 DEF Find
  <2> QED
    BY <1>7, <2>1 DEF Without, KeepsData, FreesData
<1>8. CASE Removed(t) /\ data' # data
  <2>1. /\ data' = [d \in {d \in DOMAIN data : data[d].stack # t} |-> data[d]]
        /\ pc[t] = "removed"
    BY <1>8 DEF Removed, At
  <2> QED
    BY <1>8, <2>1 DEF KeepsData, FreesData
<1>9. CASE FreeEntry(t)
  <2>1. PICK p \in 1..Len(list) :
           /\ list[p] \in DOMAIN entry /\ tdl[t] = list[p]
           /\ data' = IF entry[list[p]].allocated
                      THEN Without(data, entry[list[p]].data) ELSE data
           /\ DOMAIN entry' = DOMAIN entry \ {list[p]}
    BY <1>9, FreeEffect
  <2>2. CASE entry[tdl[t]].allocated
    BY <1>9, <2>1, <2>2 DEF Without, KeepsData, FreesData
  <2>3. CASE ~entry[tdl[t]].allocated
    BY <2>1, <2>3 DEF KeepsData
  <2> QED
    BY <2>2, <2>3
<1> QED
  BY <1>1, <1>2, <1>3, <1>4, <1>5, <1>6, <1>7, <1>8, <1>9, DataFrame

\* A thread at "resize" or "find" finds its own entry.
LEMMA OwnAtEntry ==
    ASSUME IInv, NEW t \in Threads, Resize(t) \/ Find(t) \/ Unlink(t)
    PROVE  /\ Owning(t) /\ Own(t) = tls[t] /\ Entry(t) # NULL
           /\ Entry(t) \in DOMAIN entry /\ entry[Entry(t)].tid = t
           /\ entry[Entry(t)].data = tls[t]
<1>1. pc[t] \in {"resize", "find", "unlink"} /\ tls[t] # NULL
  BY DEF Resize, Find, Unlink, At, IInv, Control
<1>2. Owning(t) /\ Own(t) = tls[t]
  BY <1>1 DEF Owning, Own
<1> QED
  BY <1>2, OwnEntry

\* Entries are kept, or are the thread's new one, or have the moved data.
LEMMA EntryEffect ==
    ASSUME IInv, NEW t \in Threads, Step(t)
    PROVE  /\ \A e \in DOMAIN entry' :
                 \/ e \in DOMAIN entry /\ entry'[e] = entry[e] /\ ~(Resize(t) /\ e = Entry(t))
                 \/ /\ Resize(t) /\ e \in DOMAIN entry /\ e = Entry(t)
                    /\ entry'[e] = [tid |-> t, data |-> NewData, allocated |-> TRUE]
                 \/ /\ Link(t) /\ e \notin DOMAIN entry
                    /\ entry'[e] = [tid |-> t, data |-> mine[t],
                                    allocated |-> data[mine[t]].stack = NoThread]
                    /\ pc' = [pc EXCEPT ![t] = "added"]
           /\ \A e \in DOMAIN entry :
                 \/ e \in DOMAIN entry'
                 \/ Unlink(t) /\ e = Entry(t)
                 \/ FreeEntry(t) /\ e = tdl[t]
<1>1. CASE Link(t)
  <2>1. CASE entry' = entry
    BY <1>1, <2>1 DEF Link, Resize, At
  <2>2. CASE entry' # entry
    <3>1. PICK n \in Nat \ {NULL} :
             /\ n \notin DOMAIN entry /\ DOMAIN entry' = DOMAIN entry \cup {n}
             /\ \A e \in DOMAIN entry : entry'[e] = entry[e]
             /\ entry'[n] = [tid |-> t, data |-> mine[t],
                             allocated |-> data[mine[t]].stack = NoThread]
             /\ pc' = [pc EXCEPT ![t] = "added"]
      BY <1>1, <2>2, LinkEffect
    <3>2. ~Resize(t)
      BY <1>1 DEF Link, Resize, At
    <3> QED
      BY <1>1, <3>1, <3>2
  <2> QED
    BY <2>1, <2>2
<1>2. CASE Resize(t)
  <2>1. Entry(t) \in DOMAIN entry /\ entry[Entry(t)].tid = t
    BY <1>2, OwnAtEntry
  <2>2. entry' = [entry EXCEPT ![Entry(t)].data = NewData, ![Entry(t)].allocated = TRUE]
    BY <1>2 DEF Resize
  <2>3. entry[Entry(t)] \in [tid : Threads, data : Nat \ {NULL}, allocated : BOOLEAN]
    BY <2>1 DEF IInv, ListOK
  <2>4. /\ DOMAIN entry' = DOMAIN entry
        /\ \A e \in DOMAIN entry \ {Entry(t)} : entry'[e] = entry[e]
        /\ entry'[Entry(t)] =
              [[entry[Entry(t)] EXCEPT !.data = NewData] EXCEPT !.allocated = TRUE]
    BY <2>1, <2>2
  <2>5. entry'[Entry(t)] = [tid |-> t, data |-> NewData, allocated |-> TRUE]
    BY <2>1, <2>3, <2>4
  <2> QED
    BY <1>2, <2>1, <2>4, <2>5
<1>3. CASE Unlink(t)
  <2>1. PICK i \in 1..Len(list) :
           /\ First(t, i) /\ DOMAIN entry' = DOMAIN entry \ {list[i]}
           /\ \A e \in DOMAIN entry \ {list[i]} : entry'[e] = entry[e]
    BY <1>3, UnlinkEffect
  <2>2. list[i] = Entry(t)
    BY <2>1, FirstPlace DEF IInv, ListOK
  <2>3. ~Resize(t)
    BY <1>3 DEF Unlink, Resize, At
  <2> QED
    BY <1>3, <2>1, <2>2, <2>3
<1>4. CASE FreeEntry(t)
  <2>1. PICK p \in 1..Len(list) :
           /\ tdl[t] = list[p] /\ DOMAIN entry' = DOMAIN entry \ {list[p]}
           /\ \A e \in DOMAIN entry \ {list[p]} : entry'[e] = entry[e]
    BY <1>4, FreeEffect
  <2>2. ~Resize(t)
    BY <1>4 DEF FreeEntry, Resize, At
  <2> QED
    BY <1>4, <2>1, <2>2
<1>5. CASE UNCHANGED <<list, entry>> /\ ~Resize(t)
  BY <1>5
<1> QED
  BY <1>1, <1>2, <1>3, <1>4, <1>5, EntriesFrame

\* The data of an entry is not freed under it.
LEMMA EntryDataKept ==
    ASSUME IInv, NEW t \in Threads, Step(t), NEW e \in DOMAIN entry, e \in DOMAIN entry',
           entry[e].data \in DOMAIN data, Resize(t) \/ Find(t) => e # Entry(t)
    PROVE  KeepsData(t, entry[e].data)
<1> DEFINE d == entry[e].data
<1>1. KeepsData(t, d) \/ FreesData(t, d)
  BY DataEffect
<1>2. CASE Failed(t) /\ d = mine[t]
  BY <1>2 DEF Failed, At, Adding, IInv, Ownership
<1>3. CASE Removed(t) /\ data[d].stack = t /\ pc[t] = "removed"
  <2>1. d # tls[t] /\ t # NoThread
    BY <1>3, ThreadDataAssumption DEF IInv, Ownership
  <2>2. InPlace(e)
    BY DEF IInv, Ownership
  <2>3. entry[e].tid = t /\ d = Own(t)
    BY <1>3, <2>1, <2>2 DEF InPlace
  <2> QED
    BY <1>3, <2>1, <2>3 DEF Own
<1>4. CASE (Resize(t) \/ Find(t)) /\ d = entry[Entry(t)].data
  <2>1. Entry(t) \in DOMAIN entry
    BY <1>4, OwnAtEntry
  <2> QED
    BY <1>4, <2>1 DEF IInv, Ownership
<1>5. CASE tdl[t] \in DOMAIN entry /\ tdl[t] \notin DOMAIN entry' /\ d = entry[tdl[t]].data
  BY <1>5 DEF IInv, Ownership
<1> QED
  BY <1>1, <1>2, <1>3, <1>4, <1>5 DEF FreesData

\* ... nor the data of a thread that adds it, unless it fails.
LEMMA NewDataKept ==
    ASSUME IInv, NEW t \in Threads, Step(t), NEW u \in Adding, Failed(t) => u # t
    PROVE  KeepsData(t, mine[u])
<1>1. /\ u \in Threads /\ mine[u] \in DOMAIN data /\ data[mine[u]].stack \in {NoThread, u}
      /\ \A e \in DOMAIN entry : entry[e].data # mine[u]
  BY DEF Adding, IInv, Ownership
<1>2. KeepsData(t, mine[u]) \/ FreesData(t, mine[u])
  BY <1>1, DataEffect
<1>3. CASE Failed(t) /\ mine[u] = mine[t]
  BY <1>3 DEF Failed, At, Adding, IInv, Ownership
<1>4. CASE Removed(t) /\ data[mine[u]].stack = t /\ pc[t] = "removed"
  BY <1>1, <1>4, ThreadDataAssumption DEF Adding
<1>5. CASE (Resize(t) \/ Find(t)) /\ mine[u] = entry[Entry(t)].data
  BY <1>1, <1>5, OwnAtEntry
<1>6. CASE tdl[t] \in DOMAIN entry /\ mine[u] = entry[tdl[t]].data
  BY <1>1, <1>6
<1> QED
  BY <1>2, <1>3, <1>4, <1>5, <1>6 DEF FreesData

-------------------------------------------------------------------------------
(***************************************************************************)
(* Every entry has its own data, and all data on the heap has an owner.    *)
(***************************************************************************)
\* No two entries come to share data.
LEMMA DistinctNext ==
    ASSUME IInv, NEW t \in Threads, Step(t), NEW e \in DOMAIN entry', NEW f \in DOMAIN entry',
           e # f
    PROVE  entry'[e].data # entry'[f].data
<1>1. \A g, h \in DOMAIN entry : g # h => entry[g].data # entry[h].data
  BY DEF IInv, Ownership
<1>2. \A g \in DOMAIN entry : NewData # entry[g].data
  BY NewDataIsNew DEF IInv
<1>3. Link(t) => \A g \in DOMAIN entry : mine[t] # entry[g].data
  BY DEF Link, At, Adding, IInv, Ownership
<1>4. CASE Resize(t)
  <2>1. ~Link(t)
    BY <1>4 DEF Link, Resize, At
  <2> QED
    BY <1>1, <1>2, <1>4, <2>1, EntryEffect
<1>5. CASE Link(t)
  <2>1. ~Resize(t)
    BY <1>5 DEF Link, Resize, At
  <2>2. PICK n : DOMAIN entry' \subseteq DOMAIN entry \cup {n}
    <3>1. CASE entry' = entry
      BY <3>1
    <3>2. CASE entry' # entry
      BY <1>5, <3>2, LinkEffect
    <3> QED
      BY <3>1, <3>2
  <2>3. \A g \in DOMAIN entry' :
           \/ g \in DOMAIN entry /\ entry'[g] = entry[g]
           \/ g \notin DOMAIN entry /\ g = n /\ entry'[g].data = mine[t]
    BY <2>1, <2>2, EntryEffect
  <2> QED
    BY <1>1, <1>3, <1>5, <2>3
<1>6. CASE ~Resize(t) /\ ~Link(t)
  BY <1>1, <1>6, EntryEffect
<1> QED
  BY <1>4, <1>5, <1>6

\* What has data on its stack keeps it there, until its entry is gone.
LEMMA StackStays ==
    ASSUME IInv, NEW t \in Threads, Step(t), NEW e \in DOMAIN entry, e \in DOMAIN entry',
           ~entry[e].allocated, entry[e].tid = t, ~Resize(t)
    PROVE  Own(t)' = Own(t) /\ t \notin foreign'
<1>1. /\ entry[e].data = Own(t) /\ t \notin foreign /\ entry[e].data # NULL
  BY DEF IInv, Ownership, InPlace, ListOK
<1>2. tls[t] # NULL \/ pc[t] = "added"
  BY <1>1 DEF Own
<1>3. pc[t] \notin {"none", "alloc", "add", "link", "failed", "removed"}
  BY <1>1, <1>2 DEF Own, IInv, Control, Ownership
<1>4. CASE Begin(t)
  BY <1>4, <1>1, <1>3 DEF Begin, At, Goto, shared, IInv, ThreadsOK, Own
<1>5. CASE Create(t)
  BY <1>5, <1>1, <1>3 DEF Create, At, Goto, shared, IInv, ThreadsOK, Own
<1>6. CASE Attach(t)
  BY <1>6, <1>1, <1>3 DEF Attach, At, Goto, shared, IInv, ThreadsOK, Own
<1>7. CASE Attached(t)
  BY <1>7, <1>1, <1>3 DEF Attached, At, Goto, shared, IInv, ThreadsOK, Own
<1>8. CASE MultipleThread(t)
  BY <1>8, <1>1, <1>3 DEF MultipleThread, At, Goto, shared, IInv, ThreadsOK, Own
<1>9. CASE Alloc(t)
  BY <1>9, <1>1, <1>3 DEF Alloc, AddFails, Fatal, At, Goto, shared, IInv, ThreadsOK, Own
<1>10. CASE Add(t)
  BY <1>10, <1>1, <1>3 DEF Add, At, Goto, shared, IInv, ThreadsOK, Own
<1>11. CASE Link(t)
  BY <1>11, <1>1, <1>3 DEF Link, At, Goto, shared, IInv, ThreadsOK, Own
<1>12. CASE Added(t)
  <2>1. /\ tls' = [tls EXCEPT ![t] = mine[t]] /\ pc[t] = "added" /\ foreign' = foreign
        /\ (pc' = [pc EXCEPT ![t] = "attached"] \/ pc' = [pc EXCEPT ![t] = "idle"])
    BY <1>12 DEF Added, Goto, At, Runs, shared
  <2> QED
    BY <1>1, <2>1 DEF IInv, ThreadsOK, Own
<1>13. CASE Failed(t)
  BY <1>13, <1>1, <1>3 DEF Failed, Runs, At, Goto, shared, IInv, ThreadsOK, Own
<1>14. CASE Realloc(t)
  BY <1>14, <1>1, <1>3 DEF Realloc, At, Goto, shared, IInv, ThreadsOK, Own
<1>15. CASE ResizeFails(t)
  BY <1>15, <1>1, <1>3 DEF ResizeFails, Fatal, At, Goto, shared, IInv, ThreadsOK, Own
<1>16. CASE Resized(t)
  BY <1>16, <1>1, <1>3 DEF Resized, At, Goto, shared, IInv, ThreadsOK, Own
<1>17. CASE LoadLibrary(t)
  BY <1>17, <1>1, <1>3 DEF LoadLibrary, At, Goto, shared, IInv, ThreadsOK, Own
<1>18. CASE Register(t)
  BY <1>18, <1>1, <1>3 DEF Register, At, Goto, shared, IInv, ThreadsOK, Own
<1>19. CASE Grow(t)
  BY <1>19, <1>1, <1>3 DEF Grow, At, Goto, shared, IInv, ThreadsOK, Own
<1>20. CASE Mark(t)
  BY <1>20, <1>1, <1>3 DEF Mark, At, Goto, shared, IInv, ThreadsOK, Own
<1>21. CASE Registered(t)
  BY <1>21, <1>1, <1>3 DEF Registered, At, Goto, shared, IInv, ThreadsOK, Own
<1>22. CASE EndThread(t)
  BY <1>22, <1>1, <1>3 DEF EndThread, At, Goto, shared, IInv, ThreadsOK, Own
<1>23. CASE Leave(t)
  BY <1>23, <1>1, <1>3 DEF Leave, At, Goto, shared, IInv, ThreadsOK, Own
<1>24. CASE Detach(t)
  BY <1>24, <1>1, <1>3 DEF Detach, At, Goto, shared, IInv, ThreadsOK, Own
<1>25. CASE Detached(t)
  <2>1. /\ pc' = [pc EXCEPT ![t] = "remove"] \/ pc' = [pc EXCEPT ![t] = "none"]
        /\ UNCHANGED <<tls, mine, foreign>> /\ pc[t] = "detach"
    BY <1>25 DEF Detached, Goto, At
  <2> QED
    BY <1>1, <2>1 DEF IInv, ThreadsOK, Own
<1>26. CASE RemoveThread(t)
  BY <1>26, <1>1, <1>3 DEF RemoveThread, At, Goto, shared, IInv, ThreadsOK, Own
<1>27. CASE Find(t)
  <2>1. /\ pc' = [pc EXCEPT ![t] = "removed"] \/ pc' = [pc EXCEPT ![t] = "unlink"]
        /\ UNCHANGED <<tls, mine, foreign>> /\ pc[t] = "find"
    BY <1>27 DEF Find, Goto, At
  <2> QED
    BY <1>1, <2>1 DEF IInv, ThreadsOK, Own
<1>28. CASE Unlink(t)
  BY <1>28, <1>1, <1>3 DEF Unlink, At, Goto, shared, IInv, ThreadsOK, Own
<1>29. CASE Removed(t)
  BY <1>29, <1>1, <1>3 DEF Removed, At, Goto, shared, IInv, ThreadsOK, Own
<1>30. CASE Exit(t)
  BY <1>30, <1>1, <1>3 DEF Exit, At, Goto, shared, IInv, ThreadsOK, Own
<1>31. CASE FreeEntry(t)
  <2>1. UNCHANGED <<pc, tls, mine, foreign>>
    BY <1>31, FreeEffect
  <2> QED
    BY <1>1, <2>1 DEF Own
<1>32. CASE ExitProcess(t)
  BY <1>32, <1>1, <1>3 DEF ExitProcess, At, Goto, shared, IInv, ThreadsOK, Own
<1> QED
  BY <1>4, <1>5, <1>6, <1>7, <1>8, <1>9, <1>10, <1>11, <1>12, <1>13, <1>14, <1>15,
     <1>16, <1>17, <1>18, <1>19, <1>20, <1>21, <1>22, <1>23, <1>24, <1>25, <1>26,
     <1>27, <1>28, <1>29, <1>30, <1>31, <1>32 DEF Step

\* How a thread gets to these statements.
LEMMA ReachedBy ==
    ASSUME IInv, NEW t \in Threads, Step(t)
    PROVE  /\ pc'[t] = "unlink" => Find(t)
           /\ pc'[t] = "removed" => Unlink(t)
           /\ pc'[t] = "added" => Link(t)
           /\ pc'[t] = "fini" => Exit(t) \/ pc[t] = "fini"
           /\ pc'[t] = "mark" => Grow(t)
<1>1. CASE Begin(t)
  BY <1>1 DEF Begin, At, Goto, shared, IInv, ThreadsOK
<1>2. CASE Create(t)
  BY <1>2 DEF Create, At, Goto, shared, IInv, ThreadsOK
<1>3. CASE Attach(t)
  BY <1>3 DEF Attach, At, Goto, shared, IInv, ThreadsOK
<1>4. CASE Attached(t)
  BY <1>4 DEF Attached, At, Goto, shared, IInv, ThreadsOK
<1>5. CASE MultipleThread(t)
  BY <1>5 DEF MultipleThread, At, Goto, shared, IInv, ThreadsOK
<1>6. CASE Alloc(t)
  BY <1>6 DEF Alloc, AddFails, Fatal, At, Goto, shared, IInv, ThreadsOK
<1>7. CASE Add(t)
  BY <1>7 DEF Add, At, Goto, shared, IInv, ThreadsOK
<1>8. CASE Link(t)
  BY <1>8 DEF Link, At, Goto, shared, IInv, ThreadsOK
<1>9. CASE Added(t)
  BY <1>9 DEF Added, Runs, At, Goto, shared, IInv, ThreadsOK
<1>10. CASE Failed(t)
  BY <1>10 DEF Failed, Runs, At, Goto, shared, IInv, ThreadsOK
<1>11. CASE Realloc(t)
  BY <1>11 DEF Realloc, At, Goto, shared, IInv, ThreadsOK
<1>12. CASE Resize(t)
  BY <1>12 DEF Resize, At, Goto, shared, IInv, ThreadsOK
<1>13. CASE ResizeFails(t)
  BY <1>13 DEF ResizeFails, Fatal, At, Goto, shared, IInv, ThreadsOK
<1>14. CASE Resized(t)
  BY <1>14 DEF Resized, At, Goto, shared, IInv, ThreadsOK
<1>15. CASE LoadLibrary(t)
  BY <1>15 DEF LoadLibrary, At, Goto, shared, IInv, ThreadsOK
<1>16. CASE Register(t)
  BY <1>16 DEF Register, At, Goto, shared, IInv, ThreadsOK
<1>17. CASE Grow(t)
  BY <1>17 DEF Grow, At, Goto, shared, IInv, ThreadsOK
<1>18. CASE Mark(t)
  BY <1>18 DEF Mark, At, Goto, shared, IInv, ThreadsOK
<1>19. CASE Registered(t)
  BY <1>19 DEF Registered, At, Goto, shared, IInv, ThreadsOK
<1>20. CASE EndThread(t)
  BY <1>20 DEF EndThread, At, Goto, shared, IInv, ThreadsOK
<1>21. CASE Leave(t)
  BY <1>21 DEF Leave, At, Goto, shared, IInv, ThreadsOK
<1>22. CASE Detach(t)
  BY <1>22 DEF Detach, At, Goto, shared, IInv, ThreadsOK
<1>23. CASE Detached(t)
  <2>1. pc' = [pc EXCEPT ![t] = "remove"] \/ pc' = [pc EXCEPT ![t] = "none"]
    BY <1>23 DEF Detached, Goto
  <2> QED
    BY <2>1 DEF IInv, ThreadsOK
<1>24. CASE RemoveThread(t)
  BY <1>24 DEF RemoveThread, At, Goto, shared, IInv, ThreadsOK
<1>25. CASE Find(t)
  <2>1. pc' = [pc EXCEPT ![t] = "unlink"]
    BY <1>25, OwnAtEntry DEF Find, Goto
  <2> QED
    BY <2>1, <1>25 DEF IInv, ThreadsOK
<1>26. CASE Unlink(t)
  BY <1>26 DEF Unlink, At, Goto, shared, IInv, ThreadsOK
<1>27. CASE Removed(t)
  <2>1. pc' = [pc EXCEPT ![t] = "detach"] \/ pc' = [pc EXCEPT ![t] = "none"]
    BY <1>27 DEF Removed, Goto
  <2> QED
    BY <2>1 DEF IInv, ThreadsOK
<1>28. CASE Exit(t)
  BY <1>28 DEF Exit, At, Goto, shared, IInv, ThreadsOK
<1>29. CASE FreeEntry(t)
  <2>1. pc' = pc /\ pc[t] = "fini"
    BY <1>29 DEF FreeEntry, At
  <2> QED
    BY <2>1
<1>30. CASE ExitProcess(t)
  <2>1. pc' = pc /\ pc[t] = "fini"
    BY <1>30 DEF ExitProcess, At
  <2> QED
    BY <2>1
<1> QED
  BY <1>1, <1>2, <1>3, <1>4, <1>5, <1>6, <1>7, <1>8, <1>9, <1>10, <1>11, <1>12,
     <1>13, <1>14, <1>15, <1>16, <1>17, <1>18, <1>19, <1>20, <1>21, <1>22, <1>23,
     <1>24, <1>25, <1>26, <1>27, <1>28, <1>29, <1>30 DEF Step

\* The data of an entry is where its allocated flag says.
LEMMA PlacesNext ==
    ASSUME IInv, NEW t \in Threads, Step(t), NEW e \in DOMAIN entry'
    PROVE  InPlace(e)'
<1>1. CASE Resize(t) /\ e = Entry(t)
  <2>1. entry'[e] = [tid |-> t, data |-> NewData, allocated |-> TRUE]
    BY <1>1, EntryEffect DEF Resize, Link, At
  <2>2. \E kept : data' = With(kept, NewData, Zeroed(NoThread))
    BY <1>1 DEF Resize
  <2>3. NewData \in DOMAIN data' /\ data'[NewData].stack = NoThread
    BY <2>2 DEF With, Zeroed
  <2>4. pc' = [pc EXCEPT ![t] = "resized"]
    BY <1>1 DEF Resize, Goto
  <2> QED
    BY <2>1, <2>3, <2>4 DEF InPlace, IInv, ThreadsOK
<1>2. CASE Link(t) /\ e \notin DOMAIN entry
  <2>1. /\ entry'[e] = [tid |-> t, data |-> mine[t],
                        allocated |-> data[mine[t]].stack = NoThread]
        /\ pc' = [pc EXCEPT ![t] = "added"]
    BY <1>2, EntryEffect
  <2>2. data' = data /\ mine' = mine /\ foreign' = foreign /\ t \in Adding
    BY <1>2 DEF Link, At, Adding
  <2>3. /\ mine[t] \in DOMAIN data /\ data[mine[t]].stack \in {NoThread, t}
        /\ t \in foreign => data[mine[t]].stack = NoThread
    BY <2>2 DEF IInv, Ownership
  <2>4. pc'[t] = "added"
    BY <2>1 DEF IInv, ThreadsOK
  <2>5. entry'[e].tid = t /\ entry'[e].data = mine[t]
    BY <2>1
  <2>6. entry'[e].allocated = (data[mine[t]].stack = NoThread)
    BY <2>1
  <2>7. CASE data[mine[t]].stack = NoThread
    BY <2>2, <2>3, <2>4, <2>5, <2>6, <2>7 DEF InPlace
  <2>8. CASE data[mine[t]].stack # NoThread
    BY <2>2, <2>3, <2>4, <2>5, <2>6, <2>8 DEF InPlace, Own
  <2> QED
    BY <2>7, <2>8
<1>3. CASE /\ e \in DOMAIN entry /\ entry'[e] = entry[e] /\ ~(Resize(t) /\ e = Entry(t))
  <2> DEFINE u == entry[e].tid
             d == entry[e].data
  <2>1. InPlace(e) /\ u \in Threads /\ d # NULL
    BY <1>3 DEF IInv, Ownership, ListOK
  <2>2. ASSUME d \in DOMAIN data, ~(Find(t) /\ e = Entry(t))
        PROVE  d \in DOMAIN data' /\ data'[d].stack = data[d].stack
    BY <1>3, <2>2, EntryDataKept DEF KeepsData
  <2>3. CASE u # t
    <3>1. /\ pc'[u] = pc[u] /\ tls'[u] = tls[u] /\ mine'[u] = mine[u]
          /\ (u \in foreign' <=> u \in foreign)
      BY <2>1, <2>3, OthersFrame
    <3>2. ~(Find(t) /\ e = Entry(t))
      BY <2>3, OwnAtEntry
    <3>3. d \notin DOMAIN data => d \notin DOMAIN data' \/ d = NewData
      BY DataEffect DEF NewHolds
    <3>4. d # NewData
      BY <1>3, NewDataIsNew DEF IInv
    <3> QED
      BY <1>3, <2>1, <2>2, <3>1, <3>2, <3>3, <3>4 DEF InPlace, Own
  <2>4. CASE u = t /\ Find(t) /\ e = Entry(t)
    <3>1. d = tls[t] /\ Entry(t) # NULL
      BY <2>4, OwnAtEntry
    <3>2. pc' = [pc EXCEPT ![t] = "unlink"] /\ tls' = tls /\ mine' = mine /\ foreign' = foreign
      BY <2>4, <3>1 DEF Find, Goto
    <3>3. pc'[t] = "unlink" /\ pc[t] = "find"
      BY <2>4, <3>2 DEF Find, At, IInv, ThreadsOK
    <3>4. CASE entry[e].allocated
      <4>1. data' = Without(data, d)
        BY <2>4, <3>1, <3>4 DEF Find
      <4>2. d \notin DOMAIN data'
        BY <4>1 DEF Without
      <4> QED
        BY <1>3, <2>4, <3>1, <3>2, <3>3, <3>4, <4>2 DEF InPlace
    <3>5. CASE ~entry[e].allocated
      <4>1. data' = data
        BY <2>4, <3>5 DEF Find
      <4>2. Own(t)' = Own(t)
        BY <3>2, <3>3 DEF Own
      <4> QED
        BY <1>3, <2>1, <2>4, <3>2, <3>5, <4>1, <4>2 DEF InPlace
    <3> QED
      BY <3>4, <3>5
  <2>5. CASE u = t /\ ~(Find(t) /\ e = Entry(t))
    <3>1. CASE entry[e].allocated
      <4>1. ASSUME pc[t] = "unlink", tls[t] = d PROVE FALSE
        <5>1. Unlink(t) \/ ExitProcess(t) \/ FreeEntry(t) \/ Exit(t)
          BY <4>1 DEF Step, Begin, Create, Attach, Attached, MultipleThread, Alloc, Add, Link,
             Added, Failed, Realloc, Resize, ResizeFails, Resized, LoadLibrary, Register, Grow,
             Mark, Registered, EndThread, Leave, Detach, Detached, RemoveThread, Find,
             Removed, At
        <5>2. Unlink(t)
          BY <4>1, <5>1 DEF ExitProcess, FreeEntry, Exit, At
        <5>3. PICK i \in 1..Len(list) :
                 /\ First(t, i) /\ entry[list[i]].data = tls[t]
                 /\ DOMAIN entry' = DOMAIN entry \ {list[i]}
          BY <5>2, UnlinkEffect
        <5>4. list[i] = e
          BY <1>3, <4>1, <5>3 DEF First, IInv, Ownership
        <5> QED
          BY <5>3, <5>4
      <4>2. d \in DOMAIN data /\ data[d].stack = NoThread
        BY <2>1, <2>5, <3>1, <4>1 DEF InPlace
      <4>3. d \in DOMAIN data' /\ data'[d].stack = NoThread
        BY <2>2, <2>5, <4>2
      <4>4. ~(pc'[t] = "unlink" /\ tls'[t] = d)
        <5> SUFFICES ASSUME pc'[t] = "unlink", tls'[t] = d PROVE FALSE
          OBVIOUS
        <5>1. Find(t)
          BY ReachedBy
        <5>2. Find(t) /\ tls' = tls
          BY <5>1 DEF Find
        <5>3. e = Entry(t)
          BY <1>3, <5>2, OwnAtEntry DEF IInv, Ownership
        <5> QED
          BY <2>5, <5>2, <5>3
      <4> QED
        BY <1>3, <2>5, <3>1, <4>3, <4>4 DEF InPlace
    <3>2. CASE ~entry[e].allocated
      <4>1. d \in DOMAIN data /\ data[d].stack = t /\ d = Own(t) /\ t \notin foreign
        BY <2>1, <2>5, <3>2 DEF InPlace
      <4>2. ~Resize(t)
        <5> SUFFICES ASSUME Resize(t) PROVE FALSE
          OBVIOUS
        <5>1. Own(t) = tls[t] /\ Entry(t) \in DOMAIN entry /\ entry[Entry(t)].data = tls[t]
          BY OwnAtEntry
        <5> QED
          BY <1>3, <4>1, <5>1 DEF IInv, Ownership
      <4>3. Own(t)' = Own(t) /\ t \notin foreign'
        BY <1>3, <2>5, <3>2, <4>2, StackStays
      <4>4. d \in DOMAIN data' /\ data'[d].stack = t
        BY <2>2, <2>5, <4>1
      <4> QED
        BY <1>3, <2>5, <3>2, <4>1, <4>3, <4>4 DEF InPlace
    <3> QED
      BY <3>1, <3>2
  <2> QED
    BY <2>3, <2>4, <2>5
<1> QED
  BY <1>1, <1>2, <1>3, EntryEffect

\* t has allocated data that it will add.
NewOwner(t) ==
    /\ mine'[t] = NewData /\ NewData \in DOMAIN data' /\ (Begin(t) \/ Alloc(t))
    /\ data'[NewData].stack \in {NoThread, t}
    /\ t \in foreign' => data'[NewData].stack = NoThread

\* How a thread comes to add data, goes on and stops.
LEMMA AddingSteps ==
    ASSUME IInv, NEW t \in Threads, Step(t)
    PROVE  /\ t \in Adding' =>
                 \/ /\ t \in Adding /\ mine'[t] = mine[t] /\ foreign' = foreign
                    /\ ~Failed(t)
                 \/ NewOwner(t)
           /\ t \in Adding /\ t \notin Adding' => Link(t) \/ Failed(t)
<1>0. NewData \notin DOMAIN data
  BY NewDataIsNew DEF IInv
<1>1. CASE Begin(t)
  <2>1. /\ data' = With(data, NewData, Zeroed(t)) /\ mine' = [mine EXCEPT ![t] = NewData]
        /\ t \notin foreign' /\ pc' = [pc EXCEPT ![t] = "add"] /\ pc[t] = "none"
    BY <1>1 DEF Begin, Goto, At
  <2> QED
    BY <2>1, <1>1 DEF With, Zeroed, NewOwner, Adding, IInv, ThreadsOK
<1>2. CASE Create(t)
  BY <1>2 DEF Create, At, Goto, shared, IInv, ThreadsOK, Adding
<1>3. CASE Attach(t)
  BY <1>3 DEF Attach, At, Goto, shared, IInv, ThreadsOK, Adding
<1>4. CASE Attached(t)
  BY <1>4 DEF Attached, At, Goto, shared, IInv, ThreadsOK, Adding
<1>5. CASE MultipleThread(t)
  BY <1>5 DEF MultipleThread, At, Goto, shared, IInv, ThreadsOK, Adding
<1>6. CASE Alloc(t)
  <2>1. CASE data' = data
    <3>1. pc[t] = "alloc" /\ (pc' = pc \/ pc' = [pc EXCEPT ![t] = "attached"])
      BY <1>6, <2>1, <1>0 DEF Alloc, AddFails, Fatal, Goto, At, With
    <3> QED
      BY <3>1 DEF Adding, IInv, ThreadsOK
  <2>2. CASE data' # data
    <3>1. /\ /\ data' = With(data, NewData, Zeroed(NoThread))
          /\ mine' = [mine EXCEPT ![t] = NewData]
          /\ pc' = [pc EXCEPT ![t] = "add"] /\ pc[t] = "alloc"
      BY <1>6, <2>2 DEF Alloc, AddFails, Fatal, shared, Goto, At
    <3> QED
      BY <3>1, <1>6 DEF With, Zeroed, NewOwner, Adding, IInv, ThreadsOK
  <2> QED
    BY <2>1, <2>2
<1>7. CASE Add(t)
  <2>1. pc' = [pc EXCEPT ![t] = "link"] /\ pc[t] = "add" /\ mine' = mine /\ foreign' = foreign
    BY <1>7 DEF Add, Goto, At
  <2>2. ~Failed(t)
    BY <2>1 DEF Failed, At
  <2> QED
    BY <2>1, <2>2, <1>7 DEF Adding, IInv, ThreadsOK
<1>8. CASE Link(t)
  <2>1. /\ (pc' = [pc EXCEPT ![t] = "added"] \/ pc' = [pc EXCEPT ![t] = "failed"])
        /\ pc[t] = "link" /\ mine' = mine /\ foreign' = foreign
    BY <1>8 DEF Link, Goto, At
  <2>2. ~Failed(t)
    BY <2>1 DEF Failed, At
  <2> QED
    BY <2>1, <2>2, <1>8 DEF Adding, IInv, ThreadsOK
<1>9. CASE Added(t)
  BY <1>9 DEF Added, Runs, At, Goto, shared, IInv, ThreadsOK, Adding
<1>10. CASE Failed(t)
  BY <1>10 DEF Failed, Runs, At, Goto, shared, IInv, ThreadsOK, Adding
<1>11. CASE Realloc(t)
  BY <1>11 DEF Realloc, At, Goto, shared, IInv, ThreadsOK, Adding
<1>12. CASE Resize(t)
  BY <1>12 DEF Resize, At, Goto, shared, IInv, ThreadsOK, Adding
<1>13. CASE ResizeFails(t)
  BY <1>13 DEF ResizeFails, Fatal, At, Goto, shared, IInv, ThreadsOK, Adding
<1>14. CASE Resized(t)
  BY <1>14 DEF Resized, At, Goto, shared, IInv, ThreadsOK, Adding
<1>15. CASE LoadLibrary(t)
  BY <1>15 DEF LoadLibrary, At, Goto, shared, IInv, ThreadsOK, Adding
<1>16. CASE Register(t)
  BY <1>16 DEF Register, At, Goto, shared, IInv, ThreadsOK, Adding
<1>17. CASE Grow(t)
  BY <1>17 DEF Grow, At, Goto, shared, IInv, ThreadsOK, Adding
<1>18. CASE Mark(t)
  BY <1>18 DEF Mark, At, Goto, shared, IInv, ThreadsOK, Adding
<1>19. CASE Registered(t)
  BY <1>19 DEF Registered, At, Goto, shared, IInv, ThreadsOK, Adding
<1>20. CASE EndThread(t)
  BY <1>20 DEF EndThread, At, Goto, shared, IInv, ThreadsOK, Adding
<1>21. CASE Leave(t)
  BY <1>21 DEF Leave, At, Goto, shared, IInv, ThreadsOK, Adding
<1>22. CASE Detach(t)
  BY <1>22 DEF Detach, At, Goto, shared, IInv, ThreadsOK, Adding
<1>23. CASE Detached(t)
  <2>1. pc' = [pc EXCEPT ![t] = "remove"] \/ pc' = [pc EXCEPT ![t] = "none"]
    BY <1>23 DEF Detached, Goto
  <2> QED
    BY <2>1, <1>23 DEF Adding, Detached, At, IInv, ThreadsOK
<1>24. CASE RemoveThread(t)
  BY <1>24 DEF RemoveThread, At, Goto, shared, IInv, ThreadsOK, Adding
<1>25. CASE Find(t)
  BY <1>25 DEF Find, At, Goto, shared, IInv, ThreadsOK, Adding
<1>26. CASE Unlink(t)
  BY <1>26 DEF Unlink, At, Goto, shared, IInv, ThreadsOK, Adding
<1>27. CASE Removed(t)
  <2>1. pc' = [pc EXCEPT ![t] = "detach"] \/ pc' = [pc EXCEPT ![t] = "none"]
    BY <1>27 DEF Removed, Goto
  <2> QED
    BY <2>1, <1>27 DEF Adding, Removed, At, IInv, ThreadsOK
<1>28. CASE Exit(t)
  BY <1>28 DEF Exit, At, Goto, shared, IInv, ThreadsOK, Adding
<1>29. CASE FreeEntry(t)
  <2>1. pc' = pc /\ pc[t] = "fini"
    BY <1>29 DEF FreeEntry, At
  <2> QED
    BY <2>1, <1>29 DEF Adding
<1>30. CASE ExitProcess(t)
  <2>1. pc' = pc /\ pc[t] = "fini"
    BY <1>30 DEF ExitProcess, At
  <2> QED
    BY <2>1, <1>30 DEF Adding
<1> QED
  BY <1>1, <1>2, <1>3, <1>4, <1>5, <1>6, <1>7, <1>8, <1>9, <1>10, <1>11, <1>12,
     <1>13, <1>14, <1>15, <1>16, <1>17, <1>18, <1>19, <1>20, <1>21, <1>22, <1>23,
     <1>24, <1>25, <1>26, <1>27, <1>28, <1>29, <1>30 DEF Step

\* What a thread adds is its own and nobody else's.
LEMMA AddingNext ==
    ASSUME IInv, NEW t \in Threads, Step(t), NEW u \in Adding'
    PROVE  /\ mine'[u] \in DOMAIN data'
           /\ data'[mine'[u]].stack \in {NoThread, u}
           /\ u \in foreign' => data'[mine'[u]].stack = NoThread
           /\ \A e \in DOMAIN entry' : entry'[e].data # mine'[u]
           /\ \A v \in Adding' : u # v => mine'[u] # mine'[v]
<1>1. ASSUME NEW v \in Threads, v \in Adding'
      PROVE  \/ /\ v \in Adding /\ mine'[v] = mine[v] /\ (v \in foreign' => v \in foreign)
                /\ (Failed(t) => v # t)
             \/ v = t /\ NewOwner(t)
  <2>1. CASE v = t
    BY <1>1, <2>1, AddingSteps
  <2>2. CASE v # t
    BY <1>1, <2>2, OthersFrame DEF Adding
  <2> QED
    BY <2>1, <2>2
<1>2. u \in Threads
  BY DEF Adding
<1>3. /\ NewData \notin DOMAIN data /\ \A e \in DOMAIN entry : NewData # entry[e].data
      /\ \A v \in Threads : NewData # mine[v]
  BY NewDataIsNew DEF IInv
<1>4. CASE NewOwner(t) /\ u = t
  <2>1. entry' = entry
    BY <1>4 DEF NewOwner, Begin, Alloc, AddFails, Fatal, shared
  <2>2. \A v \in Adding' : u # v => mine'[v] = mine[v] /\ v \in Threads
    BY <1>1, <1>4 DEF Adding
  <2> QED
    BY <1>3, <1>4, <2>1, <2>2 DEF NewOwner
<1>5. CASE /\ u \in Adding /\ mine'[u] = mine[u] /\ (u \in foreign' => u \in foreign)
           /\ (Failed(t) => u # t)
  <2>1. /\ mine[u] \in DOMAIN data /\ data[mine[u]].stack \in {NoThread, u}
        /\ u \in foreign => data[mine[u]].stack = NoThread
        /\ \A e \in DOMAIN entry : entry[e].data # mine[u]
        /\ \A v \in Adding : u # v => mine[u] # mine[v]
    BY <1>5 DEF IInv, Ownership
  <2>2. mine[u] \in DOMAIN data' /\ data'[mine[u]].stack = data[mine[u]].stack
    BY <1>5, NewDataKept DEF KeepsData
  <2>3. ASSUME NEW e \in DOMAIN entry' PROVE entry'[e].data # mine[u]
    <3>1. CASE Link(t) /\ e \notin DOMAIN entry
      <4>1. entry'[e].data = mine[t] /\ pc' = [pc EXCEPT ![t] = "added"] /\ t \in Adding
        BY <3>1, EntryEffect DEF Link, At, Adding
      <4>2. t # u
        BY <4>1 DEF Adding, IInv, ThreadsOK
      <4> QED
        BY <2>1, <4>1, <4>2
    <3> QED
      BY <1>2, <1>3, <2>1, <3>1, EntryEffect
  <2>4. ASSUME NEW v \in Adding', u # v PROVE mine[u] # mine'[v]
    <3>1. v \in Threads
      BY DEF Adding
    <3> QED
      BY <1>1, <1>2, <1>3, <2>1, <2>4, <3>1 DEF NewOwner
  <2> QED
    BY <1>5, <2>1, <2>2, <2>3, <2>4
<1> QED
  BY <1>1, <1>2, <1>4, <1>5

\* No data on the heap is lost.
LEMMA OwnersNext ==
    ASSUME IInv, NEW t \in Threads, Step(t), NEW d \in DOMAIN data', data'[d].stack = NoThread
    PROVE  \/ \E e \in DOMAIN entry' : entry'[e].allocated /\ entry'[e].data = d
           \/ \E u \in Adding' : mine'[u] = d
<1>0. t # NoThread
  BY ThreadDataAssumption
<1>1. CASE d \notin DOMAIN data
  <2>1. NewHolds(t, d)
    BY <1>1, DataEffect
  <2>2. CASE Begin(t)
    <3>1. data'[d] = Zeroed(t)
      BY <2>1, <2>2 DEF NewHolds, Begin, Alloc, Resize, At
    <3> QED
      BY <1>0, <3>1 DEF Zeroed
  <2>3. CASE Alloc(t)
    <3>1. data' # data
      BY <1>1
    <3>2. mine' = [mine EXCEPT ![t] = NewData] /\ pc' = [pc EXCEPT ![t] = "add"]
      BY <2>3, <3>1 DEF Alloc, AddFails, Fatal, shared, Goto
    <3> QED
      BY <2>1, <3>2 DEF NewHolds, Adding, IInv, ThreadsOK
  <2>4. CASE Resize(t)
    <3>1. Entry(t) \in DOMAIN entry
      BY <2>4, OwnAtEntry
    <3>2. Entry(t) \in DOMAIN entry'
      BY <2>4, <3>1, EntryEffect DEF Resize, Unlink, FreeEntry, At
    <3>3. entry'[Entry(t)] = [tid |-> t, data |-> NewData, allocated |-> TRUE]
      BY <2>4, <3>2, EntryEffect DEF Resize, Link, At
    <3> QED
      BY <2>1, <3>2, <3>3 DEF NewHolds
  <2> QED
    BY <2>1, <2>2, <2>3, <2>4 DEF NewHolds
<1>2. CASE d \in DOMAIN data
  <2>1. KeepsData(t, d)
    BY <1>2, DataEffect DEF FreesData
  <2>2. \/ \E e \in DOMAIN entry : entry[e].allocated /\ entry[e].data = d
        \/ \E u \in Adding : mine[u] = d
    BY <1>2, <2>1 DEF KeepsData, IInv, Ownership
  <2>3. ASSUME NEW e \in DOMAIN entry, entry[e].allocated, entry[e].data = d
        PROVE  \E f \in DOMAIN entry' : entry'[f].allocated /\ entry'[f].data = d
    <3>1. ~(Unlink(t) /\ e = Entry(t))
      <4> SUFFICES ASSUME Unlink(t), e = Entry(t) PROVE FALSE
        OBVIOUS
      <4>1. entry[e].tid = t /\ entry[e].data = tls[t] /\ pc[t] = "unlink"
        BY OwnAtEntry DEF Unlink, At
      <4>2. InPlace(e)
        BY DEF IInv, Ownership
      <4> QED
        BY <1>2, <2>3, <4>1, <4>2 DEF InPlace
    <3>2. ~(FreeEntry(t) /\ e = tdl[t])
      <4> SUFFICES ASSUME FreeEntry(t), e = tdl[t] PROVE FALSE
        OBVIOUS
      <4>1. data' = Without(data, d)
        BY <2>3, FreeEffect
      <4> QED
        BY <4>1 DEF Without
    <3>3. ~(Resize(t) /\ e = Entry(t))
      <4> SUFFICES ASSUME Resize(t), e = Entry(t) PROVE FALSE
        OBVIOUS
      <4>1. data' = With(Without(data, d), NewData, Zeroed(NoThread))
        BY <2>3 DEF Resize
      <4>2. d # NewData
        BY <1>2, NewDataIsNew DEF IInv
      <4> QED
        BY <4>1, <4>2 DEF With, Without
    <3>4. e \in DOMAIN entry'
      BY <3>1, <3>2, EntryEffect
    <3>5. entry'[e] = entry[e]
      BY <3>3, <3>4, EntryEffect
    <3> QED
      BY <2>3, <3>4, <3>5
  <2>4. ASSUME NEW u \in Adding, mine[u] = d
        PROVE  \/ \E e \in DOMAIN entry' : entry'[e].allocated /\ entry'[e].data = d
               \/ \E v \in Adding' : mine'[v] = d
    <3>1. CASE u # t
      <4>1. u \in Adding' /\ mine'[u] = mine[u]
        BY <3>1, OthersFrame DEF Adding
      <4> QED
        BY <2>4, <4>1
    <3>2. CASE u = t /\ t \in Adding'
      <4>1. mine'[t] = mine[t]
        <5>1. pc[t] \in {"add", "link", "failed"}
          BY <3>2 DEF Adding
        <5>2. ~NewOwner(t)
          BY <5>1 DEF NewOwner, Begin, Alloc, At
        <5> QED
          BY <3>2, <5>2, AddingSteps
      <4> QED
        BY <2>4, <3>2, <4>1
    <3>3. CASE u = t /\ Failed(t)
      <4>1. data' = Without(data, d)
        BY <2>4, <3>3 DEF Failed
      <4> QED
        BY <4>1 DEF Without
    <3>4. CASE u = t /\ Link(t) /\ t \notin Adding'
      <4>1. entry' # entry
        <5> SUFFICES ASSUME entry' = entry PROVE FALSE
          OBVIOUS
        <5>1. pc' = [pc EXCEPT ![t] = "failed"]
          BY <3>4, NewEntryIsNew DEF Link, With, Goto, IInv
        <5> QED
          BY <3>4, <5>1 DEF Adding, IInv, ThreadsOK
      <4>2. PICK n : /\ n \in DOMAIN entry'
                     /\ entry'[n] = [tid |-> t, data |-> mine[t],
                                     allocated |-> data[mine[t]].stack = NoThread]
        BY <3>4, <4>1, LinkEffect
      <4>3. data[mine[t]].stack = NoThread
        BY <2>1, <2>4, <3>4 DEF KeepsData
      <4>4. entry'[n].data = d
        BY <2>4, <3>4, <4>2
      <4>5. entry'[n].allocated = (data[mine[t]].stack = NoThread)
        BY <4>2
      <4> QED
        BY <4>2, <4>3, <4>4, <4>5
    <3> QED
      BY <3>1, <3>2, <3>3, <3>4, AddingSteps
  <2> QED
    BY <2>2, <2>3, <2>4
<1> QED
  BY <1>1, <1>2

\* The data of a thread that was removed is nobody's.
LEMMA RemovedNext ==
    ASSUME IInv, NEW t \in Threads, Step(t), NEW u \in Threads, pc'[u] = "removed",
           NEW e \in DOMAIN entry'
    PROVE  entry'[e].data # tls'[u]
<1>1. CASE u = t
  <2>1. Unlink(t)
    BY <1>1, ReachedBy
  <2>2. PICK i \in 1..Len(list) :
           /\ First(t, i) /\ entry[list[i]].data = tls[t]
           /\ DOMAIN entry' = DOMAIN entry \ {list[i]}
           /\ \A f \in DOMAIN entry \ {list[i]} : entry'[f] = entry[f]
    BY <2>1, UnlinkEffect
  <2>3. tls' = tls
    BY <2>1 DEF Unlink
  <2> QED
    BY <1>1, <2>2, <2>3 DEF First, IInv, Ownership
<1>2. CASE u # t
  <2>1. pc[u] = "removed" /\ tls'[u] = tls[u]
    BY <1>2, OthersFrame
  <2>2. \A f \in DOMAIN entry : entry[f].data # tls[u]
    BY <2>1 DEF IInv, Ownership
  <2>3. ~Link(t)
    BY <1>2, <2>1 DEF Link, At, IInv, Semaphores, InList
  <2>4. tls[u] # NewData
    BY NewDataIsNew DEF IInv
  <2> QED
    BY <2>1, <2>2, <2>3, <2>4, EntryEffect
<1> QED
  BY <1>1, <1>2

\* The five facts above are the next state's Ownership.
LEMMA OwnershipNext ==
    ASSUME IInv, NEW t \in Threads, Step(t)
    PROVE  Ownership'
<1>1. \A e, f \in DOMAIN entry' : e # f => entry'[e].data # entry'[f].data
  BY DistinctNext
<1>2. \A e \in DOMAIN entry' : InPlace(e)'
  BY PlacesNext
<1>3. \A u \in Adding' :
         /\ mine'[u] \in DOMAIN data' /\ data'[mine'[u]].stack \in {NoThread, u}
         /\ u \in foreign' => data'[mine'[u]].stack = NoThread
         /\ \A e \in DOMAIN entry' : entry'[e].data # mine'[u]
         /\ \A v \in Adding' : u # v => mine'[u] # mine'[v]
  BY AddingNext
<1>4. \A d \in DOMAIN data' : data'[d].stack = NoThread =>
         \/ \E e \in DOMAIN entry' : entry'[e].allocated /\ entry'[e].data = d
         \/ \E u \in Adding' : mine'[u] = d
  BY OwnersNext
<1>5. \A u \in Threads : pc'[u] = "removed" =>
         \A e \in DOMAIN entry' : entry'[e].data # tls'[u]
  BY RemovedNext
<1> QED
  BY <1>1, <1>2, <1>3, <1>4, <1>5 DEF Ownership

-------------------------------------------------------------------------------
(***************************************************************************)
(* exit frees what lies before tdl, and only that.                         *)
(***************************************************************************)

\* A thread at exit only frees the list, and ends the program.
LEMMA AtFini ==
    ASSUME IInv, NEW t \in Threads, Step(t), pc[t] = "fini"
    PROVE  FreeEntry(t) \/ ExitProcess(t)
BY DEF Step, Begin, Create, Attach, Attached, MultipleThread, Alloc, Add, Link,
   Added, Failed, Realloc, Resize, ResizeFails, Resized, LoadLibrary, Register, Grow,
   Mark, Registered, EndThread, Leave, Detach, Detached, RemoveThread, Find, Unlink,
   Removed, Exit, At

\* exit begins when no other thread is left, with all of the list to free.
LEMMA ExitBegins ==
    ASSUME ExitAlone, IInv, NEW t \in Threads, Exit(t)
    PROVE  Leaving'
<1>1. /\ pc[t] = "idle" /\ \A u \in Threads \ {t} : pc[u] = "none"
      /\ tdl' = [tdl EXCEPT ![t] = IF list = <<>> THEN NULL ELSE Head(list)]
      /\ pc' = [pc EXCEPT ![t] = "fini"] /\ UNCHANGED <<list, entry, tls, mine>>
  BY DEF Exit, At, Goto, shared
<1>2. ~Exiting
  BY <1>1 DEF Exiting
<1>3. \A i \in 1..Len(list) : list[i] \in DOMAIN entry
  BY <1>2 DEF IInv, ListOK, ToSet
<1>4. \A u \in Threads : ~Owning(u)'
  BY <1>1 DEF Owning, IInv, Control, ThreadsOK
<1>5. tdl'[t] = IF 1 = Len(list) + 1 THEN NULL ELSE list[1]
  <2>1. CASE list = <<>>
    BY <1>1, <2>1 DEF IInv, ThreadsOK
  <2>2. CASE list # <<>>
    <3>1. Len(list) \in Nat /\ Len(list) # 0 /\ Head(list) = list[1]
      BY <2>2 DEF IInv, ListOK
    <3> QED
      BY <1>1, <2>2, <3>1 DEF IInv, ThreadsOK
  <2> QED
    BY <2>1, <2>2
<1>6. 1 \in 1..(Len(list) + 1)
  BY DEF IInv, ListOK
<1>7. \A u \in Threads : pc'[u] = "fini" => u = t
  BY <1>1 DEF IInv, ThreadsOK
<1>8. \E p \in 1..(Len(list') + 1) :
         /\ tdl'[t] = IF p = Len(list') + 1 THEN NULL ELSE list'[p]
         /\ \A i \in p..Len(list') : list'[i] \in DOMAIN entry'
         /\ \A u \in Threads, i \in p..Len(list') : ~(Owning(u)' /\ First(u, i)')
  BY <1>1, <1>3, <1>4, <1>5, <1>6
<1> QED
  BY <1>7, <1>8 DEF Leaving

\* Entries come and go before the place where exit is, which moves with them.
LEMMA LeavingNext ==
    ASSUME ExitAlone, IInv, NEW t \in Threads, Step(t)
    PROVE  Leaving'
<1>1. CASE Exit(t)
  BY <1>1, ExitBegins
<1>2. CASE ~Exit(t)
  <2> SUFFICES ASSUME NEW u \in Threads, pc'[u] = "fini"
               PROVE  /\ \A v \in Threads \ {u} : pc'[v] # "fini"
                      /\ \E p \in 1..(Len(list') + 1) :
                            /\ tdl'[u] = IF p = Len(list') + 1 THEN NULL ELSE list'[p]
                            /\ \A i \in p..Len(list') : list'[i] \in DOMAIN entry'
                            /\ \A v \in Threads, i \in p..Len(list') :
                                  ~(Owning(v)' /\ First(v, i)')
    BY DEF Leaving
  <2>1. \A v \in Threads : pc'[v] = "fini" => pc[v] = "fini"
    BY <1>2, ReachedBy, OthersFrame
  <2>2. pc[u] = "fini" /\ \A v \in Threads \ {u} : pc[v] # "fini"
    BY <2>1 DEF IInv, Leaving
  <2>3. \A v \in Threads \ {u} : pc'[v] # "fini"
    BY <2>1, <2>2
  <2>4. PICK p \in 1..(Len(list) + 1) :
           /\ tdl[u] = IF p = Len(list) + 1 THEN NULL ELSE list[p]
           /\ \A i \in p..Len(list) : list[i] \in DOMAIN entry
           /\ \A v \in Threads, i \in p..Len(list) : ~(Owning(v) /\ First(v, i))
    BY <2>2 DEF IInv, Leaving
  <2>5. Len(list) \in Nat /\ \A i, j \in 1..Len(list) : list[i] = list[j] => i = j
    BY DEF IInv, ListOK, IsInjective
  <2>6. t # u => tdl'[u] = tdl[u]
    BY OthersFrame
  <2>7. ~Link(t) /\ ~Resize(t) => \A v \in Threads : Owning(v)' => Owning(v)
    <3> SUFFICES ASSUME ~Link(t), ~Resize(t), NEW v \in Threads, Owning(v)' PROVE Owning(v)
      OBVIOUS
    <3>1. CASE v = t
      BY <3>1, OwnFrame
    <3>2. CASE v # t
      BY <3>2, OthersFrame DEF Owning
    <3> QED
      BY <3>1, <3>2
  <2>8. CASE FreeEntry(t)
    <3>1. t = u /\ pc[t] = "fini"
      BY <2>2, <2>8 DEF FreeEntry, At
    <3>2. PICK q \in 1..Len(list) :
             /\ tdl[t] = list[q] /\ DOMAIN entry' = DOMAIN entry \ {list[q]}
             /\ \A i \in q..Len(list) : list[i] \in DOMAIN entry
             /\ tdl' = [tdl EXCEPT ![t] = IF q = Len(list) THEN NULL ELSE list[q + 1]]
             /\ UNCHANGED <<list, tls, pc, mine>>
      BY <2>8, FreeEffect
    <3>3. q \in Nat /\ 1 <= q /\ q <= Len(list)
      BY <2>5
    <3>4. tdl'[t] = IF q + 1 = Len(list) + 1 THEN NULL ELSE list[q + 1]
      BY <2>5, <3>2, <3>3 DEF IInv, ThreadsOK
    <3>5. ASSUME NEW i \in (q + 1)..Len(list)
          PROVE  /\ list[i] \in DOMAIN entry'
                 /\ \A v \in Threads : ~First(v, i)'
      <4>1. i \in q..Len(list) /\ i # q /\ i \in 1..Len(list) /\ q \in 1..(i - 1)
        BY <2>5, <3>3
      <4>2. list[i] \in DOMAIN entry /\ list[i] # list[q]
        BY <2>5, <3>2, <4>1
      <4>3. list[q] \notin DOMAIN entry' /\ list' = list
        BY <3>2
      <4> QED
        BY <3>2, <4>1, <4>2, <4>3 DEF First
    <3>6. q + 1 \in 1..(Len(list) + 1)
      BY <2>5, <3>3
    <3> QED
      BY <2>3, <3>1, <3>2, <3>4, <3>5, <3>6
  <2>9. CASE Link(t) /\ entry' # entry
    <3>1. t # u /\ pc[t] = "link" /\ UNCHANGED <<tls, mine>>
      BY <2>2, <2>9 DEF Link, At
    <3>2. PICK n \in Nat \ {NULL} :
             /\ n \notin DOMAIN entry /\ Len(list') = Len(list) + 1 /\ n \notin ToSet(list)
             /\ list'[1] = n /\ \A i \in 1..Len(list) : list'[i + 1] = list[i]
             /\ DOMAIN entry' = DOMAIN entry \cup {n}
             /\ \A e \in DOMAIN entry : entry'[e] = entry[e]
             /\ entry'[n] = [tid |-> t, data |-> mine[t],
                             allocated |-> data[mine[t]].stack = NoThread]
      BY <2>9, LinkEffect
    <3>3. entry'[n].tid = t
      BY <3>2
    <3>4. p + 1 \in 1..(Len(list') + 1)
      BY <2>5, <3>2
    <3>5. tdl'[u] = IF p + 1 = Len(list') + 1 THEN NULL ELSE list'[p + 1]
      <4>1. CASE p = Len(list) + 1
        BY <2>4, <2>6, <3>1, <3>2, <4>1
      <4>2. CASE p # Len(list) + 1
        <5>1. p \in 1..Len(list) /\ p + 1 # Len(list') + 1
          BY <2>5, <3>2, <4>2
        <5> QED
          BY <2>4, <2>6, <3>1, <3>2, <4>2, <5>1
      <4> QED
        BY <4>1, <4>2
    <3>6. ASSUME NEW i \in (p + 1)..Len(list')
          PROVE  /\ list'[i] \in DOMAIN entry'
                 /\ \A v \in Threads : ~(Owning(v)' /\ First(v, i)')
      <4>1. /\ i - 1 \in p..Len(list)
            /\ i - 1 \in 1..Len(list)
            /\ (i - 1) + 1 = i
            /\ 1 \in 1..(i - 1)
        BY <2>5, <3>2
      <4>2. list'[i] = list[i - 1] /\ list[i - 1] \in DOMAIN entry
        BY <2>4, <3>2, <4>1
      <4>3. ASSUME NEW v \in Threads, Owning(v)', First(v, i)' PROVE FALSE
        <5>1. v # t
          BY <3>2, <3>3, <4>1, <4>3 DEF First
        <5>2. Owning(v)
          BY <4>3, <5>1, OthersFrame DEF Owning
        <5>3. ASSUME NEW j \in 1..((i - 1) - 1)
              PROVE  list[j] \in DOMAIN entry /\ entry[list[j]].tid # v
          <6>1. j \in 1..Len(list) /\ j + 1 \in 1..(i - 1)
            BY <2>5, <4>1
          <6>2. list'[j + 1] = list[j] /\ list[j] # n
            BY <3>2, <6>1 DEF ToSet, IInv, ListOK
          <6>3. list'[j + 1] \in DOMAIN entry' /\ entry'[list'[j + 1]].tid # v
            BY <4>3, <6>1 DEF First
          <6> QED
            BY <3>2, <6>2, <6>3
        <5>4. entry[list[i - 1]].tid = v
          BY <3>2, <4>2, <4>3 DEF First
        <5>5. First(v, i - 1)
          BY <4>1, <4>2, <5>3, <5>4 DEF First
        <5> QED
          BY <2>4, <4>1, <5>2, <5>5
      <4> QED
        BY <3>2, <4>2, <4>3
    <3> QED
      BY <2>3, <3>4, <3>5, <3>6
  <2>10. CASE Unlink(t)
    <3>1. PICK q \in 1..Len(list) :
             /\ First(t, q) /\ Len(list') = Len(list) - 1
             /\ \A k \in 1..(Len(list) - 1) :
                   list'[k] = IF k < q THEN list[k] ELSE list[k + 1]
             /\ DOMAIN entry' = DOMAIN entry \ {list[q]}
             /\ \A e \in DOMAIN entry \ {list[q]} : entry'[e] = entry[e]
      BY <2>10, UnlinkEffect
    <3>2. Owning(t) /\ ~Link(t) /\ ~Resize(t) /\ t # u
      BY <2>2, <2>10, OwnAtEntry DEF Unlink, Link, Resize, At
    <3>3. q < p /\ q \in Nat /\ p \in Nat /\ 1 <= q /\ p <= Len(list) + 1
      BY <2>4, <2>5, <3>1, <3>2
    <3>4. p - 1 \in 1..(Len(list') + 1)
      BY <2>5, <3>1, <3>3
    <3>5. tdl'[u] = IF p - 1 = Len(list') + 1 THEN NULL ELSE list'[p - 1]
      <4>1. CASE p = Len(list) + 1
        BY <2>4, <2>5, <2>6, <3>1, <3>2, <4>1
      <4>2. CASE p # Len(list) + 1
        <5>1. p - 1 \in 1..(Len(list) - 1) /\ ~(p - 1 < q) /\ (p - 1) + 1 = p
          BY <2>5, <3>3, <4>2
        <5>2. list'[p - 1] = list[p] /\ p - 1 # Len(list') + 1
          BY <2>5, <3>1, <3>3, <4>2, <5>1
        <5> QED
          BY <2>4, <2>6, <3>2, <4>2, <5>2
      <4> QED
        BY <4>1, <4>2
    <3>6. \A k \in 1..Len(list) : k # q => list[k] # list[q]
      BY <2>5, <3>1
    <3>7. ASSUME NEW i \in (p - 1)..Len(list')
          PROVE  /\ list'[i] \in DOMAIN entry'
                 /\ \A v \in Threads : ~(Owning(v)' /\ First(v, i)')
      <4>1. /\ i + 1 \in p..Len(list) /\ i + 1 \in 1..Len(list) /\ i + 1 # q
            /\ i \in 1..(Len(list) - 1) /\ ~(i < q)
        BY <2>5, <3>1, <3>3
      <4>2. list'[i] = list[i + 1] /\ list[i + 1] \in DOMAIN entry /\ list[i + 1] # list[q]
        BY <2>4, <3>1, <3>6, <4>1
      <4>3. ASSUME NEW v \in Threads, Owning(v)', First(v, i)' PROVE FALSE
        <5>1. pc' = [pc EXCEPT ![t] = "removed"]
          BY <2>10 DEF Unlink, Goto
        <5>2. v # t
          BY <4>3, <5>1 DEF Owning, IInv, ThreadsOK
        <5>3. Owning(v)
          BY <2>7, <3>2, <4>3
        <5>4. ASSUME NEW j \in 1..((i + 1) - 1)
              PROVE  list[j] \in DOMAIN entry /\ entry[list[j]].tid # v
          <6>1. CASE j < q
            <7>1. j \in 1..(i - 1) /\ j \in 1..(Len(list) - 1) /\ j \in 1..Len(list) /\ j # q
              BY <2>5, <3>3, <4>1, <6>1
            <7>2. list'[j] = list[j] /\ list[j] # list[q]
              BY <3>1, <3>6, <6>1, <7>1
            <7>3. list'[j] \in DOMAIN entry' /\ entry'[list'[j]].tid # v
              BY <4>3, <7>1 DEF First
            <7> QED
              BY <3>1, <7>2, <7>3
          <6>2. CASE j = q
            BY <3>1, <5>2, <6>2 DEF First
          <6>3. CASE j > q
            <7>1. /\ j - 1 \in 1..(i - 1) /\ j - 1 \in 1..(Len(list) - 1) /\ j \in 1..Len(list)
                  /\ ~(j - 1 < q) /\ (j - 1) + 1 = j
              BY <2>5, <3>3, <4>1, <6>3
            <7>2. list'[j - 1] = list[j] /\ list[j] # list[q]
              BY <3>1, <3>3, <3>6, <6>3, <7>1
            <7>3. list'[j - 1] \in DOMAIN entry' /\ entry'[list'[j - 1]].tid # v
              BY <4>3, <7>1 DEF First
            <7> QED
              BY <3>1, <7>2, <7>3
          <6> QED
            BY <3>3, <6>1, <6>2, <6>3
        <5>5. entry[list[i + 1]].tid = v
          BY <3>1, <4>2, <4>3 DEF First
        <5>6. First(v, i + 1)
          BY <4>1, <4>2, <5>4, <5>5 DEF First
        <5> QED
          BY <2>4, <4>1, <5>3, <5>6
      <4> QED
        BY <3>1, <4>2, <4>3
    <3> QED
      BY <2>3, <3>4, <3>5, <3>7
  <2>11. CASE Resize(t)
    BY <2>2, <2>11 DEF Resize, At, IInv, Control, ThreadsOK
  <2>12. CASE UNCHANGED <<list, entry>> /\ ~FreeEntry(t) /\ ~Resize(t)
    <3>1. t # u \/ ExitProcess(t)
      BY <2>2, <2>12, AtFini
    <3>2. tdl'[u] = tdl[u]
      BY <2>6, <3>1 DEF ExitProcess
    <3>3. ASSUME NEW v \in Threads, Owning(v)'
          PROVE  Owning(v) \/ \A i : ~First(v, i)'
      <4>1. CASE ~Link(t)
        BY <2>7, <2>12, <3>3, <4>1
      <4>2. CASE Link(t)
        <5>1. pc' = [pc EXCEPT ![t] = "failed"] /\ tls' = tls /\ tls[t] = NULL
          BY <2>12, <4>2, NewEntryIsNew DEF Link, With, Goto, At, IInv, Control
        <5>2. v # t
          BY <3>3, <5>1 DEF Owning, IInv, ThreadsOK
        <5> QED
          BY <3>3, <5>2, OthersFrame DEF Owning
      <4> QED
        BY <4>1, <4>2
    <3>4. \A v \in Threads, i \in p..Len(list) : ~(Owning(v)' /\ First(v, i)')
      BY <2>4, <2>12, <3>3 DEF First
    <3> QED
      BY <2>3, <2>4, <2>12, <3>2, <3>4
  <2>13. Link(t) /\ entry' = entry => list' = list
    BY NewEntryIsNew DEF Link, With, IInv
  <2>14. ~(Link(t) /\ (FreeEntry(t) \/ Resize(t)))
    BY DEF Link, FreeEntry, Resize, At
  <2> QED
    BY <2>8, <2>9, <2>10, <2>11, <2>12, <2>13, <2>14, EntriesFrame
<1> QED
  BY <1>1, <1>2

-------------------------------------------------------------------------------
(***************************************************************************)
(* The data of a thread has room for every library.                        *)
(***************************************************************************)
\* Only a registration changes the size.
LEMMA SizeFrame ==
    ASSUME NEW t \in Threads, Step(t)
    PROVE  \/ UNCHANGED <<ThreadDataSize>>
           \/ Grow(t)
BY DEF Step, shared, Begin, Create, Attach, Attached, MultipleThread, Alloc,
   AddFails, Fatal, Add, Link, Added, Runs, Failed, Realloc, Resize, ResizeFails,
   Resized, LoadLibrary, Register, Mark, Registered, EndThread, Leave, Detach,
   Detached, RemoveThread, Find, Unlink, Removed, Exit, FreeEntry, ExitProcess

\* The operations that change a thread's slot.
LEMMA SlotFrame ==
    ASSUME NEW t \in Threads, Step(t)
    PROVE  \/ UNCHANGED <<tls>>
           \/ Added(t) \/ Resize(t) \/ Leave(t) \/ Removed(t)
BY DEF Step, shared, Begin, Create, Attach, Attached, MultipleThread, Alloc,
   AddFails, Fatal, Add, Link, Failed, Runs, Realloc, ResizeFails, Resized,
   LoadLibrary, Register, Grow, Mark, Registered, EndThread, Detach, Detached,
   RemoveThread, Find, Unlink, Exit, FreeEntry, ExitProcess

\* Who owns data finds it in its entry until it takes the entry out.
LEMMA OwnEntryStays ==
    ASSUME IInv, NEW t \in Threads, Step(t), NEW u \in Threads, Owning(u),
           ~(Unlink(t) /\ u = t)
    PROVE  Entry(u) \in DOMAIN entry'
<1>1. /\ First(u, Place(u)) /\ Place(u) \in 1..Len(list) /\ Entry(u) = list[Place(u)]
      /\ Entry(u) \in DOMAIN entry /\ entry[Entry(u)].tid = u
  BY OwnEntry
<1>2. CASE Unlink(t) /\ Entry(u) = Entry(t)
  BY <1>1, <1>2, OwnAtEntry
<1>3. CASE FreeEntry(t) /\ Entry(u) = tdl[t]
  <2>1. PICK p \in 1..Len(list) :
           /\ tdl[t] = list[p]
           /\ \A v \in Threads, i \in p..Len(list) : ~(Owning(v) /\ First(v, i))
    BY <1>3, FreeEffect
  <2>2. p = Place(u)
    <3>1. \A i, j \in 1..Len(list) : list[i] = list[j] => i = j
      BY DEF IInv, ListOK, IsInjective
    <3> QED
      BY <1>1, <1>3, <2>1, <3>1
  <2>3. p \in p..Len(list)
    BY <2>1 DEF IInv, ListOK
  <2> QED
    BY <1>1, <2>1, <2>2, <2>3
<1> QED
  BY <1>1, <1>2, <1>3, EntryEffect

\* No registration comes between taking the size and the end of the adding of a thread
\* that Windows calls the DLL for: both are done under the lock of Windows.
LEMMA NewFitsNext ==
    ASSUME IInv, NEW t \in Threads, Step(t)
    PROVE  NewFits'
<1> SUFFICES ASSUME NEW u \in Threads, u \notin foreign', pc'[u] \in {"add", "link", "added"}
             PROVE  data'[mine'[u]].size = ThreadDataSize'
  BY DEF NewFits
<1>1. CASE u = t /\ NewOwner(t)
  <2>1. \/ Begin(t) /\ data' = With(data, NewData, Zeroed(t))
        \/ Alloc(t) /\ data' = With(data, NewData, Zeroed(NoThread))
        \/ Alloc(t) /\ data' = data
    BY <1>1 DEF NewOwner, Begin, Alloc, AddFails, Fatal, shared
  <2>2. data' # data
    BY <1>1, NewDataIsNew DEF NewOwner, IInv
  <2>3. data'[NewData].size = ThreadDataSize
    BY <2>1, <2>2 DEF With, Zeroed
  <2>4. ThreadDataSize' = ThreadDataSize
    BY <2>1, SizeFrame DEF Begin, Alloc, Grow, At
  <2> QED
    BY <1>1, <2>3, <2>4 DEF NewOwner
<1>2. CASE ~(u = t /\ NewOwner(t))
  <2>1. /\ pc[u] \in {"add", "link", "added"} /\ mine'[u] = mine[u] /\ u \notin foreign
        /\ (Failed(t) => u # t)
    <3>1. CASE u # t
      BY <3>1, OthersFrame
    <3>2. CASE u = t /\ pc'[t] \in {"add", "link"}
      <4>1. t \in Adding'
        BY <3>2 DEF Adding
      <4>2. t \in Adding /\ mine'[t] = mine[t] /\ foreign' = foreign /\ ~Failed(t)
        BY <1>2, <3>2, <4>1, AddingSteps
      <4>3. pc[t] # "failed"
        BY <4>2, <3>2 DEF Adding, Step, Begin, Create, Attach, Attached, MultipleThread, Alloc,
           Add, Link, Added, Realloc, Resize, ResizeFails, Resized, LoadLibrary, Register,
           Grow, Mark, Registered, EndThread, Leave, Detach, Detached, RemoveThread, Find,
           Unlink, Removed, Exit, FreeEntry, ExitProcess, At
      <4> QED
        BY <3>2, <4>2, <4>3 DEF Adding
    <3>3. CASE u = t /\ pc'[t] = "added"
      <4>1. Link(t)
        BY <3>3, ReachedBy
      <4> QED
        BY <3>3, <4>1 DEF Link, Failed, At
    <3> QED
      BY <3>1, <3>2, <3>3
  <2>2. data[mine[u]].size = ThreadDataSize
    BY <2>1 DEF IInv, NewFits
  <2>3. ~Grow(t)
    <3> SUFFICES ASSUME Grow(t) PROVE FALSE
      OBVIOUS
    <3>1. pc[t] = "grow" /\ Is_DLL /\ t # u
      BY <2>1 DEF Grow, At, IInv, Control, ThreadsOK
    <3>2. InLoader(t) /\ InLoader(u)
      BY <2>1, <3>1 DEF InLoader
    <3> QED
      BY <3>1, <3>2 DEF IInv, Semaphores
  <2>4. KeepsData(t, mine[u])
    <3>1. CASE u \in Adding
      BY <2>1, <3>1, NewDataKept
    <3>2. CASE u \notin Adding
      <4>1. pc[u] = "added" /\ Owning(u) /\ Own(u) = mine[u]
        BY <2>1, <3>2 DEF Adding, Owning, Own
      <4>2. /\ Entry(u) \in DOMAIN entry /\ entry[Entry(u)].tid = u
            /\ entry[Entry(u)].data = mine[u] /\ mine[u] \in DOMAIN data
        BY <4>1, OwnEntry, OwnDataIsThere
      <4>3. ~(Unlink(t) /\ u = t) /\ ~((Resize(t) \/ Find(t)) /\ u = t)
        BY <4>1 DEF Unlink, Resize, Find, At
      <4>4. Entry(u) \in DOMAIN entry'
        BY <4>1, <4>3, OwnEntryStays
      <4>5. Resize(t) \/ Find(t) => Entry(u) # Entry(t)
        BY <4>2, <4>3, OwnAtEntry
      <4> QED
        BY <4>2, <4>4, <4>5, EntryDataKept
    <3> QED
      BY <3>1, <3>2
  <2>5. data'[mine[u]].size = data[mine[u]].size
    <3>1. CASE data'[mine[u]] = data[mine[u]]
      BY <3>1
    <3>2. CASE Mark(t)
      BY <2>4, <3>2 DEF Mark, KeepsData
    <3> QED
      BY <2>4, <3>1, <3>2 DEF KeepsData
  <2> QED
    BY <2>1, <2>2, <2>3, <2>5, SizeFrame
<1> QED
  BY <1>1, <1>2

\* A registration ends when its call has marked the data of every thread that has an
\* entry; nobody is added meanwhile, with the size from before.
LEMMA DataFitsNext ==
    ASSUME IInv, NEW t \in Threads, Step(t)
    PROVE  DataFits'
<1> SUFFICES ASSUME NEW u \in Threads, u \notin foreign', tls'[u] \in DOMAIN data',
                    \A v \in Threads : pc'[v] # "mark"
             PROVE  data'[tls'[u]].resize \/ data'[tls'[u]].size = ThreadDataSize'
  BY DEF DataFits
<1>1. ~Grow(t)
  <2>1. Grow(t) => pc' = [pc EXCEPT ![t] = "mark"]
    BY DEF Grow, Goto
  <2> QED
    BY <2>1 DEF IInv, ThreadsOK
<1>2. ThreadDataSize' = ThreadDataSize
  BY <1>1, SizeFrame
<1>3. CASE Mark(t)
  <2>1. /\ pc[t] = "mark" /\ tls' = tls
        /\ data' = [d \in DOMAIN data |->
                       IF d \in Marked THEN [data[d] EXCEPT !.resize = TRUE] ELSE data[d]]
    BY <1>3 DEF Mark, At
  <2>2. tls[u] \in DOMAIN data /\ tls[u] # NULL
    BY <2>1 DEF IInv, DataOK
  <2>3. pc[u] \notin {"removed", "fini", "added"}
    BY <2>1 DEF IInv, Semaphores, InList, Control, ThreadsOK
  <2>4. Owning(u) /\ Own(u) = tls[u]
    BY <2>2, <2>3 DEF Owning, Own
  <2>5. Entry(u) \in DOMAIN entry /\ Entry(u) \in ToSet(list) /\ entry[Entry(u)].data = tls[u]
    BY <2>4, OwnEntry DEF IInv, ListOK
  <2>6. tls[u] \in Marked
    BY <2>5 DEF Marked
  <2>7. data[tls[u]] \in [size : 1..MaxSize, resize : BOOLEAN, stack : Threads \cup {NoThread}]
    BY <2>2 DEF IInv, DataOK
  <2>8. data'[tls[u]].resize = TRUE
    BY <2>1, <2>2, <2>6, <2>7
  <2> QED
    BY <2>1, <2>8
<1>4. CASE ~Mark(t)
  <2>1. \A v \in Threads : pc[v] # "mark"
    <3> SUFFICES ASSUME NEW v \in Threads, pc[v] = "mark" PROVE FALSE
      OBVIOUS
    <3>1. v = t
      BY OthersFrame
    <3> QED
      BY <1>4, <3>1 DEF Step, Begin, Create, Attach, Attached, MultipleThread, Alloc, Add,
         Link, Added, Failed, Realloc, Resize, ResizeFails, Resized, LoadLibrary, Register,
         Grow, Registered, EndThread, Leave, Detach, Detached, RemoveThread, Find,
         Unlink, Removed, Exit, FreeEntry, ExitProcess, At
  <2>2. \A d \in DOMAIN data : d \in DOMAIN data' => data'[d] = data[d]
    BY <1>4, DataEffect DEF KeepsData, FreesData
  <2>3. tls'[u] # NULL /\ NewData # tls[u]
    BY DataNext, NewDataIsNew DEF IInv, DataOK
  <2>4. CASE tls'[u] = tls[u]
    <3>1. u \notin foreign
      <4> SUFFICES ASSUME u \in foreign PROVE FALSE
        OBVIOUS
      <4>1. u = t
        BY OthersFrame
      <4>2. Begin(t) \/ Attach(t)
        BY <4>1 DEF Step, Begin, Create, Attach, Attached, MultipleThread, Alloc, AddFails,
           Fatal, Add, Link, Added, Failed, Realloc, Resize, ResizeFails, Resized,
           LoadLibrary, Register, Grow, Mark, Registered, EndThread, Leave, Detach, Detached,
           RemoveThread, Find, Unlink, Removed, Exit, FreeEntry, ExitProcess
      <4>3. tls[t] = NULL
        BY <4>2 DEF Begin, Attach, At, IInv, Control
      <4> QED
        BY <2>3, <2>4, <4>1, <4>3
    <3>2. tls[u] \in DOMAIN data
      BY <2>3, <2>4, DataEffect DEF NewHolds
    <3>3. data[tls[u]].resize \/ data[tls[u]].size = ThreadDataSize
      BY <2>1, <3>1, <3>2 DEF IInv, DataFits
    <3> QED
      BY <1>2, <2>2, <2>4, <3>2, <3>3
  <2>5. CASE tls'[u] # tls[u]
    <3>1. u = t
      BY <2>5, OthersFrame
    <3>2. CASE Added(t)
      <4>1. /\ tls' = [tls EXCEPT ![t] = mine[t]] /\ pc[t] = "added" /\ data' = data
            /\ foreign' = foreign
        BY <3>2 DEF Added, At, shared
      <4>2. data[mine[t]].size = ThreadDataSize
        BY <3>1, <4>1 DEF IInv, NewFits
      <4> QED
        BY <1>2, <3>1, <4>1, <4>2 DEF IInv, ThreadsOK
    <3>3. CASE Resize(t)
      <4>1. tls' = [tls EXCEPT ![t] = NewData]
        BY <3>3 DEF Resize
      <4>2. \E kept : data' = With(kept, NewData, Zeroed(NoThread))
        BY <3>3 DEF Resize
      <4>3. data'[NewData].size = ThreadDataSize
        BY <4>2 DEF With, Zeroed
      <4> QED
        BY <1>2, <3>1, <4>1, <4>3 DEF IInv, ThreadsOK
    <3>4. CASE Leave(t) \/ Removed(t)
      <4>1. tls' = [tls EXCEPT ![t] = NULL]
        BY <3>4 DEF Leave, Removed
      <4> QED
        BY <2>3, <3>1, <4>1 DEF IInv, ThreadsOK
    <3> QED
      BY <2>5, <3>2, <3>3, <3>4, SlotFrame
  <2> QED
    BY <2>4, <2>5
<1> QED
  BY <1>3, <1>4

-------------------------------------------------------------------------------
(***************************************************************************)
(* Nothing is used after it was freed.                                     *)
(***************************************************************************)
\* The operations that use what may be freed.
LEMMA WildFrame ==
    ASSUME NEW t \in Threads, Step(t)
    PROVE  \/ UNCHANGED <<wild>>
           \/ MultipleThread(t) \/ Resize(t) \/ Mark(t) \/ RemoveThread(t)
           \/ Find(t) \/ Unlink(t) \/ FreeEntry(t)
BY DEF Step, shared, Begin, Create, Attach, Attached, Alloc, AddFails, Fatal, Add,
   Link, Added, Runs, Failed, Realloc, ResizeFails, Resized, LoadLibrary, Register,
   Grow, Registered, EndThread, Leave, Detach, Detached, Removed, Exit, ExitProcess

\* The search for a thread's own entry passes only entries that are there.
LEMMA NoWildWalk ==
    ASSUME IInv, NEW t \in Threads, Owning(t)
    PROVE  ~WildWalk(Entry(t))
<1> SUFFICES ASSUME NEW i \in DOMAIN list, list[i] \notin DOMAIN entry,
                    \A j \in 1..i : list[j] # Entry(t)
             PROVE  FALSE
  BY OwnEntry DEF WildWalk
<1>1. /\ First(t, Place(t)) /\ Place(t) \in 1..Len(list) /\ Entry(t) = list[Place(t)]
  BY OwnEntry
<1>2. i \in 1..Len(list) /\ Len(list) \in Nat
  BY DEF IInv, ListOK
<1>3. ~(Place(t) \in 1..i)
  BY <1>1
<1>4. i \in 1..(Place(t) - 1)
  BY <1>1, <1>2, <1>3
<1> QED
  BY <1>1, <1>4 DEF First

\* What a step uses is there.
LEMMA FreedNext ==
    ASSUME IInv, NEW t \in Threads, Step(t)
    PROVE  FreedIsLeft'
<1>0. ~wild
  BY DEF IInv, FreedIsLeft
<1>1. CASE MultipleThread(t)
  <2>1. tls[t] # NULL => tls[t] \in DOMAIN data
    <3> SUFFICES ASSUME tls[t] # NULL PROVE tls[t] \in DOMAIN data
      OBVIOUS
    <3>1. pc[t] = "idle" /\ Owning(t) /\ Own(t) = tls[t]
      BY <1>1 DEF MultipleThread, At, Owning, Own
    <3> QED
      BY <3>1, OwnDataIsThere
  <2> QED
    BY <1>0, <1>1, <2>1 DEF MultipleThread, FreedIsLeft
<1>2. CASE Resize(t)
  <2>1. ~WildWalk(Entry(t)) /\ entry[Entry(t)].data \in DOMAIN data
    BY <1>2, OwnAtEntry, OwnDataIsThere, NoWildWalk DEF Resize, At
  <2> QED
    BY <1>0, <1>2, <2>1 DEF Resize, FreedIsLeft
<1>3. CASE Mark(t)
  <2>1. pc[t] = "mark" /\ wild' = (wild \/ WildWalk(NULL) \/ ~(Marked \subseteq DOMAIN data))
    BY <1>3 DEF Mark, At
  <2>2. ~Exiting
    BY <2>1 DEF Exiting, IInv, Control, ThreadsOK
  <2>3. ~WildWalk(NULL)
    BY <2>2 DEF WildWalk, IInv, ListOK, ToSet
  <2>4. ASSUME NEW e \in DOMAIN entry PROVE entry[e].data \in DOMAIN data
    <3>1. entry[e].tid \in Threads /\ InPlace(e)
      BY DEF IInv, ListOK, Ownership
    <3>2. pc[entry[e].tid] # "unlink"
      BY <2>1, <3>1 DEF IInv, Semaphores, InList
    <3> QED
      BY <3>1, <3>2 DEF InPlace
  <2>5. Marked \subseteq DOMAIN data
    BY <2>4 DEF Marked
  <2> QED
    BY <1>0, <2>1, <2>3, <2>5 DEF FreedIsLeft
<1>4. CASE RemoveThread(t)
  <2>1. pc[t] = "remove" /\ tls[t] # NULL
    BY <1>4 DEF RemoveThread, At, IInv, Control
  <2>2. tls[t] \in DOMAIN data
    BY <2>1, OwnDataIsThere DEF Owning, Own
  <2> QED
    BY <1>0, <1>4, <2>2 DEF RemoveThread, FreedIsLeft
<1>5. CASE Find(t)
  <2>1. ~WildWalk(Entry(t)) /\ entry[Entry(t)].data \in DOMAIN data
    BY <1>5, OwnAtEntry, OwnDataIsThere, NoWildWalk DEF Find, At
  <2> QED
    BY <1>0, <1>5, <2>1 DEF Find, FreedIsLeft
<1>6. CASE Unlink(t)
  BY <1>0, <1>6, OwnAtEntry DEF Unlink, FreedIsLeft
<1>7. CASE FreeEntry(t)
  BY <1>0, <1>7, FreeEffect DEF FreedIsLeft
<1>8. CASE wild' = wild
  BY <1>0, <1>8 DEF FreedIsLeft
<1> QED
  BY <1>1, <1>2, <1>3, <1>4, <1>5, <1>6, <1>7, <1>8, WildFrame

-------------------------------------------------------------------------------
(***************************************************************************)
(* The invariant, and what it says of the data of threads.                 *)
(***************************************************************************)
\* The invariant holds when the list has been made.
LEMMA InitInv == Init => IInv
<1> SUFFICES ASSUME Init PROVE IInv
  OBVIOUS
<1>1. /\ list = <<1>> /\ Len(list) = 1 /\ list[1] = 1 /\ list \in Seq(Nat)
      /\ DOMAIN list = 1..1
  BY DEF Init
<1>2. ToSet(list) = {1}
  BY <1>1 DEF ToSet
<1>3. /\ data = [d \in {1} |-> [size |-> 1, resize |-> FALSE,
                                stack |-> IF Is_DLL THEN NoThread ELSE Main]]
      /\ entry = [e \in {1} |-> [tid |-> Main, data |-> 1, allocated |-> Is_DLL]]
      /\ Is_DLL \in BOOLEAN /\ ThreadDataSize = 1 /\ wild = FALSE /\ over = FALSE
      /\ tls = [t \in Threads |-> IF t = Main THEN 1 ELSE NULL]
      /\ foreign = IF Is_DLL THEN Earlier ELSE {}
      /\ pc = [t \in Threads |-> IF t \in {Main} \cup foreign THEN "idle" ELSE "none"]
      /\ mine = [t \in Threads |-> NULL] /\ tdl = [t \in Threads |-> NULL]
      /\ held = [t \in Threads |-> [o \in Objects |-> 0]]
  BY DEF Init
<1>4. /\ DOMAIN data = {1} /\ DOMAIN entry = {1} /\ entry[1].tid = Main
      /\ entry[1].data = 1 /\ entry[1].allocated = Is_DLL
      /\ data[1].size = 1 /\ data[1].resize = FALSE
      /\ data[1].stack = IF Is_DLL THEN NoThread ELSE Main
  BY <1>3
<1>5. \A t \in Threads : pc[t] \in {"idle", "none"} /\ tls[t] \in {1, NULL}
  BY <1>3
<1>6. ThreadsOK
  <2>1. tls \in [Threads -> Nat] /\ mine \in [Threads -> Nat] /\ tdl \in [Threads -> Nat]
    BY <1>3 DEF NULL
  <2>2. pc \in [Threads -> Labels]
    BY <1>3 DEF Labels
  <2>3. held \in [Threads -> [Objects -> 0..2]]
    BY <1>3
  <2>4. foreign \subseteq Threads
    BY <1>3, ThreadDataAssumption
  <2> QED
    BY <1>3, <2>1, <2>2, <2>3, <2>4 DEF ThreadsOK
<1>7. ListOK
  <2>1. IsInjective(list)
    BY <1>1 DEF IsInjective
  <2>2. IsFiniteSet(DOMAIN entry)
    BY <1>4, FS_Singleton
  <2>3. entry[1] \in [tid : Threads, data : Nat \ {NULL}, allocated : BOOLEAN]
    BY <1>3, ThreadDataAssumption DEF NULL
  <2> QED
    BY <1>1, <1>2, <1>4, <2>1, <2>2, <2>3 DEF ListOK, NULL
<1>8. DataOK
  <2>1. IsFiniteSet(DOMAIN data)
    BY <1>4, FS_Singleton
  <2>2. data[1] \in [size : 1..MaxSize, resize : BOOLEAN, stack : Threads \cup {NoThread}]
    BY <1>3, ThreadDataAssumption
  <2> QED
    BY <1>3, <1>4, <1>5, <2>1, <2>2, ThreadDataAssumption DEF DataOK, NULL
<1>9. Semaphores
  <2>1. \A t \in Threads : held[t]["TDList"] = 0 /\ held[t]["Loader"] = 0 /\ ~InLoader(t)
    BY <1>3, <1>5 DEF InLoader, Objects
  <2> QED
    BY <1>5, <2>1 DEF Semaphores, InList
<1>10. Control
  BY <1>3, ThreadDataAssumption DEF Control, NULL
<1>11. Found
  <2>1. \A t \in Threads : Owning(t) => t = Main
    BY <1>3 DEF Owning
  <2>2. First(Main, 1)
    BY <1>1, <1>4 DEF First
  <2>3. Own(Main) = 1
    BY <1>3, ThreadDataAssumption DEF Own
  <2> QED
    BY <1>1, <1>4, <2>1, <2>2, <2>3 DEF Found
<1>12. Ownership
  <2>1. Adding = {}
    BY <1>5 DEF Adding
  <2>2. InPlace(1)
    <3>1. Own(Main) = 1 /\ Main \notin foreign /\ pc[Main] # "unlink"
      BY <1>3, ThreadDataAssumption DEF Own
    <3> QED
      BY <1>3, <1>4, <3>1 DEF InPlace
  <2>3. \A d \in DOMAIN data : data[d].stack = NoThread =>
           \E e \in DOMAIN entry : entry[e].allocated /\ entry[e].data = d
    <3>1. CASE Is_DLL
      BY <1>4, <3>1
    <3>2. CASE ~Is_DLL
      BY <1>4, <3>2, ThreadDataAssumption
    <3> QED
      BY <3>1, <3>2
  <2> QED
    BY <1>4, <1>5, <2>1, <2>2, <2>3 DEF Ownership
<1>13. Leaving /\ NewFits
  BY <1>5 DEF Leaving, NewFits
<1>14. DataFits
  BY <1>3, <1>4 DEF DataFits
<1> QED
  BY <1>3, <1>6, <1>7, <1>8, <1>9, <1>10, <1>11, <1>12, <1>13, <1>14 DEF IInv, FreedIsLeft

\* The invariant is about these variables only.
LEMMA StutterInv ==
    ASSUME IInv, UNCHANGED vars
    PROVE  IInv'
<1>1. /\ Is_DLL' = Is_DLL /\ ThreadDataSize' = ThreadDataSize /\ list' = list /\ entry' = entry
      /\ data' = data /\ tls' = tls /\ pc' = pc /\ mine' = mine /\ foreign' = foreign
      /\ tdl' = tdl /\ held' = held /\ wild' = wild /\ over' = over
  BY DEF vars, shared
<1>2. ThreadsOK' /\ Control' /\ Semaphores'
  BY <1>1 DEF IInv, ThreadsOK, Control, Semaphores, InLoader
<1>3. ListOK' /\ DataOK'
  BY <1>1 DEF IInv, ListOK, DataOK, Exiting
<1>4. Found' /\ Leaving'
  BY <1>1 DEF IInv, Found, Leaving, Owning, Own, First
<1>5. Ownership'
  BY <1>1 DEF IInv, Ownership, InPlace, Own, Adding
<1>6. NewFits' /\ DataFits' /\ FreedIsLeft'
  BY <1>1 DEF IInv, NewFits, DataFits, FreedIsLeft
<1> QED
  BY <1>2, <1>3, <1>4, <1>5, <1>6 DEF IInv

\* Every step keeps the invariant.
LEMMA NextInv ==
    ASSUME ExitAlone, IInv, [Next]_vars
    PROVE  IInv'
<1>1. ASSUME NEW t \in Threads, Step(t) PROVE IInv'
  <2>1. ThreadsOK' /\ ListOK' /\ DataOK' /\ Semaphores' /\ Control'
    BY <1>1, ThreadsNext, ListNext, DataNext, SemaphoresNext, ControlNext
  <2>2. Found' /\ Ownership' /\ Leaving'
    BY <1>1, FoundNext, OwnershipNext, LeavingNext
  <2>3. NewFits' /\ DataFits' /\ FreedIsLeft'
    BY <1>1, NewFitsNext, DataFitsNext, FreedNext
  <2> QED
    BY <2>1, <2>2, <2>3 DEF IInv
<1>2. CASE UNCHANGED vars
  BY <1>2, StutterInv
<1> QED
  BY <1>1, <1>2 DEF Next, Over

\* The inductive invariant holds, when exit is called with no other thread left.
THEOREM Invariance ==
    ASSUME ExitAlone
    PROVE  Spec => []IInv
<1>1. Init => IInv
  BY InitInv
<1>2. IInv /\ [Next]_vars => IInv'
  BY NextInv
<1> QED
  BY <1>1, <1>2, PTL DEF Spec

\* Threads, entries, data and calls of thread data are of their kinds, and until exit
\* the entries that there are are those of the list, each listed once (trdlist.c).
THEOREM TypeCorrect ==
    ASSUME ExitAlone
    PROVE  Spec => []TypeOK
<1>1. IInv => TypeOK
  BY DEF IInv, ThreadsOK, ListOK, DataOK, TypeOK
<1> QED
  BY <1>1, Invariance, PTL

\* Each thread finds its own data under its id, and data on the heap has one owner that
\* will free it: an entry, or the thread that is adding it (__AddThreadData,
\* __ReallocThreadData, __RemoveThreadData).
THEOREM OwnDataKept ==
    ASSUME ExitAlone
    PROVE  Spec => []OwnData
<1>1. ASSUME IInv PROVE OwnData
  <2>1. ASSUME NEW t \in Threads, tls[t] # NULL, pc[t] \notin {"unlink", "removed"}, ~Exiting
        PROVE  /\ Entry(t) # NULL /\ entry[Entry(t)].data = tls[t]
               /\ tls[t] \in DOMAIN data
    <3>1. Owning(t) /\ Own(t) = tls[t]
      BY <1>1, <2>1 DEF Owning, Own, Exiting, IInv, Control
    <3> QED
      BY <1>1, <2>1, <3>1, OwnEntry, OwnDataIsThere
  <2>2. ASSUME NEW d \in DOMAIN data, data[d].stack = NoThread
        PROVE  Cardinality(Owners(d)) + Cardinality({t \in Adding : mine[t] = d}) = 1
    <3> DEFINE A == {t \in Adding : mine[t] = d}
    <3>1. CASE \E e \in DOMAIN entry : entry[e].allocated /\ entry[e].data = d
      <4>1. PICK e \in DOMAIN entry : entry[e].allocated /\ entry[e].data = d
        BY <3>1
      <4>2. Owners(d) = {e}
        BY <1>1, <4>1 DEF Owners, IInv, Ownership
      <4>3. A = {}
        BY <1>1, <4>1 DEF IInv, Ownership
      <4>4. Cardinality({e}) = 1 /\ Cardinality({}) = 0
        BY FS_Singleton, FS_EmptySet
      <4> QED
        BY <4>2, <4>3, <4>4
    <3>2. CASE \E t \in Adding : mine[t] = d
      <4>1. PICK t \in Adding : mine[t] = d
        BY <3>2
      <4>2. A = {t}
        BY <1>1, <4>1 DEF IInv, Ownership
      <4>3. Owners(d) = {}
        BY <1>1, <4>1 DEF Owners, IInv, Ownership
      <4>4. Cardinality({t}) = 1 /\ Cardinality({}) = 0
        BY FS_Singleton, FS_EmptySet
      <4> QED
        BY <4>2, <4>3, <4>4
    <3> QED
      BY <1>1, <2>2, <3>1, <3>2 DEF IInv, Ownership
  <2> QED
    BY <2>1, <2>2 DEF OwnData
<1>2. IInv => OwnData
  BY <1>1
<1> QED
  BY <1>2, Invariance, PTL

\* No walk of the list and no thread uses what was freed, threads that start while exit
\* frees the list included (__FreeThreadDataList, __RemoveThreadData, __MultipleThread).
THEOREM FreedIsLeftAlone ==
    ASSUME ExitAlone
    PROVE  Spec => []FreedIsLeft
<1>1. IInv => FreedIsLeft
  BY DEF IInv
<1> QED
  BY <1>1, Invariance, PTL

\* Every thread's data has room for every library that has registered, or is marked
\* for its thread to reallocate (__RegisterThreadDataSize, __ResizeThreadDataList).
THEOREM DataHasRoom ==
    ASSUME ExitAlone
    PROVE  Spec => []DataFits
<1>1. IInv => DataFits
  BY DEF IInv
<1> QED
  BY <1>1, Invariance, PTL

===============================================================================
