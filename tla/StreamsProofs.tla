---------------------------- MODULE StreamsProofs ----------------------------
(***************************************************************************)
(* Streams proved for every number of threads, streams and handles: a      *)
(* stream and its handle stay their owner's, what was written reaches the  *)
(* file before the handle goes, and flushall leaves nothing behind.        *)
(*                                                                         *)
(* The argument is about ownership.  A stream on the open list belongs to  *)
(* one thread: it is the thread's to use (mine), or ahead of its walk in   *)
(* fcloseall (Rest), or what its call is about (Work).  A stream that a    *)
(* call has not closed yet, or has opened again, has an open handle of its *)
(* own; only such a stream has characters in its buffer.  A step of one    *)
(* thread is then a matter of its own streams, and the lemmas say of each  *)
(* step that it leaves those of the others alone: either the lists and the *)
(* handles stay as they are (Quiet), or the handle of one stream changes   *)
(* (FilesKeep), or one stream that no other thread has moves from list to  *)
(* list (Moves).                                                           *)
(*                                                                         *)
(* All of it is under OneOpener: __doopen clears the flags of a stream on  *)
(* the open list for an instant (fopen.c:185), and a second opener can     *)
(* take it then, as the run streams_slot_race shows.                       *)
(***************************************************************************)
EXTENDS Streams, FiniteSetTheorems, SequenceTheorems, TLAPS

OthersOpen(t) == \E u \in Threads \ {t} : "fopen" \in program.may[u]

\* The streams on a list from s on.
FromOn(list, s) ==
    {r \in Streams : \E i, j \in 1..Len(list) : i <= j /\ list[i] = s /\ list[j] = r}
From(s) == FromOn(ostream, s)

\* The stream that the call of t is about.
Work(t) == IF op[t] # "flushall" /\ pc[t] \notin {"idle", "alloc", "walk"} /\ fp[t] # None
           THEN {fp[t]} ELSE {}

\* It is open.
Ready(t) == \/ pc[t] \in {"lookup", "doclose", "flush", "close", "unlock"}
            \/ pc[t] \in {"lockfile", "closefile"} /\ Contains(ostream, fp[t])

\* Where a walk over the open list goes on, and what it has not come to.
Walks(t)  == op[t] = "fcloseall" /\ pc[t] # "idle"
Cursor(t) == IF pc[t] = "walk" THEN fp[t] ELSE next[t]
Rest(t)   == IF Walks(t) THEN From(Cursor(t)) ELSE {}

\* The streams that are t's to use, and those of them that are open.
Has(t)  == mine[t] \cup Rest(t) \cup Work(t)
Open(t) == mine[t] \cup Rest(t) \cup (IF Ready(t) THEN Work(t) ELSE {})

-------------------------------------------------------------------------------
\* Which statement is of which function.
Placed(t) ==
    /\ pc[t] # "idle" => op[t] \in program.may[t]
    /\ pc[t] = "alloc" => op[t] = "fopen"
    /\ pc[t] \in {"mark", "setflags", "sopen"} => op[t] \in {"fopen", "freopen"}
    /\ pc[t] = "freefp" => op[t] \in {"fopen", "freopen", "fclose", "fcloseall"}
    /\ pc[t] = "lookup" => op[t] = "fclose"
    /\ pc[t] \in {"doclose", "close"} => op[t] \in {"fclose", "fcloseall", "freopen"}
    /\ pc[t] = "flush" => op[t] \in {"fclose", "fcloseall", "freopen", "flushall"}
    /\ pc[t] \in {"lockiob", "visit"} => op[t] = "flushall"
    /\ pc[t] = "walk" => op[t] = "fcloseall"
    /\ pc[t] \in {"lockfile", "closefile", "unlockiob", "resetflags", "unlock"} => op[t] = "freopen"
    /\ pc[t] \notin {"idle", "alloc", "lockiob", "visit", "walk", "unlock"} => fp[t] # None

HasIOB(t) == \/ op[t] = "flushall" /\ pc[t] \in {"visit", "flush"}
             \/ op[t] = "freopen" /\ pc[t] \in {"doclose", "flush", "close", "unlockiob"}
HasFile(t) == op[t] = "freopen" /\ pc[t] \notin {"idle", "lockfile"}
Held(t, o) == IF (o = IOB /\ HasIOB(t)) \/ (o = hdl[t] /\ HasFile(t)) THEN 1 ELSE 0

\* A semaphore is held where the statements say, by one thread.
Locking ==
    /\ \A t \in Threads : \A o \in Objects : held[t][o] = Held(t, o)
    /\ \A t, u \in Threads : t # u => \A o \in Objects : held[t][o] = 0 \/ held[u][o] = 0

Distinct(list) == \A i, j \in 1..Len(list) : list[i] = list[j] => i = j
Lists == /\ Distinct(ostream) /\ Distinct(cstream)
         /\ \A s \in Streams : ~(Contains(ostream, s) /\ Contains(cstream, s))

\* What a thread has is on the list of open streams, and no other thread's.
Parted(t) == mine[t] \cap Rest(t) = {} /\ mine[t] \cap Work(t) = {} /\ Rest(t) \cap Work(t) = {}
Listed(t) ==
    /\ \A s \in mine[t] : Contains(ostream, s)
    /\ \A s \in Work(t) :
          \/ Contains(ostream, s)
          \/ Contains(cstream, s) /\ pc[t] \in {"lockfile", "closefile"} /\ ~OthersOpen(t)
Owned ==
    /\ \A t, u \in Threads : t # u => Has(t) \cap Has(u) = {}
    /\ \A t \in Threads : Parted(t) /\ Listed(t)
    /\ \A s \in Streams : Contains(ostream, s) => \E t \in Threads : s \in Has(t)

\* An open stream has an open handle of its own.
Usable ==
    /\ \A t \in Threads : \A s \in Open(t) : "RW" \in flag[s] /\ handle[s] \in opened \ {0}
    /\ \A t, u \in Threads : \A s \in Open(t), r \in Open(u) : handle[s] = handle[r] => s = r

\* Only an open stream has characters in its buffer.
Closing(t) == IF pc[t] = "close" THEN Work(t) ELSE {}
Clean == \A s \in Streams : "DIRTY" \in flag[s] => \E t \in Threads : s \in Open(t) \ Closing(t)

\* A stream on a list is marked as taken, or is being opened.
Marking(t) == IF pc[t] \in {"mark", "setflags"} THEN Work(t) ELSE {}
Marked == \A s \in Streams : Contains(ostream, s) \/ Contains(cstream, s) =>
             "RW" \in flag[s] \/ \E t \in Threads : s \in Marking(t)

\* Walks over the list are on it; what flushall has passed is flushed.
Visits(t) == op[t] = "flushall" /\ pc[t] \in {"visit", "flush"}
Passing(t) ==
    /\ Walks(t) => Cursor(t) = None \/ Contains(ostream, Cursor(t))
    /\ Visits(t) => /\ fp[t] = None \/ Contains(ostream, fp[t])
                    /\ \A s \in mine[t] : "DIRTY" \in flag[s] => s \in From(fp[t])

Reopens(t) == "freopen" \in program.may[t] /\ OthersOpen(t) => Has(t) \cap Static = {}

IInv == /\ \A t \in Threads : Placed(t) /\ Passing(t) /\ Reopens(t)
        /\ Locking /\ Lists /\ Owned /\ Usable /\ Clean /\ Marked

-------------------------------------------------------------------------------
LEMMA Pushed ==
    ASSUME NEW q \in Seq(Streams), NEW s \in Streams
    PROVE  LET n == <<s>> \o q
           IN  /\ n \in Seq(Streams) /\ Len(n) = Len(q) + 1 /\ n[1] = s
               /\ \A i \in 1..Len(q) : n[i + 1] = q[i]
               /\ \A i \in 1..Len(n) : i = 1 \/ (i - 1 \in 1..Len(q) /\ n[i] = q[i - 1])
               /\ \A r : Contains(n, r) <=> r = s \/ Contains(q, r)
<1> DEFINE n == <<s>> \o q
<1>0. Len(q) \in Nat
  OBVIOUS
<1>1. n \in Seq(Streams) /\ Len(n) = Len(q) + 1 /\ n[1] = s
  OBVIOUS
<1>2. \A i \in 1..Len(q) : n[i + 1] = q[i]
  OBVIOUS
<1> HIDE DEF n
<1>3. \A i \in 1..Len(n) : i = 1 \/ (i - 1 \in 1..Len(q) /\ n[i] = q[i - 1])
  <2> SUFFICES ASSUME NEW i \in 1..Len(n), i # 1
               PROVE  i - 1 \in 1..Len(q) /\ n[i] = q[i - 1]
    OBVIOUS
  <2>1. i - 1 \in 1..Len(q) /\ (i - 1) + 1 = i
    BY <1>0, <1>1
  <2> QED
    BY <2>1, <1>2
<1>4. ASSUME NEW r PROVE Contains(n, r) <=> r = s \/ Contains(q, r)
  <2>1. ASSUME Contains(n, r) PROVE r = s \/ Contains(q, r)
    BY <2>1, <1>1, <1>3 DEF Contains
  <2>2. ASSUME r = s PROVE Contains(n, r)
    BY <2>2, <1>0, <1>1 DEF Contains
  <2>3. ASSUME Contains(q, r) PROVE Contains(n, r)
    <3>1. PICK i \in 1..Len(q) : q[i] = r
      BY <2>3 DEF Contains
    <3>2. i + 1 \in 1..Len(n)
      BY <1>0, <1>1
    <3> QED
      BY <3>1, <3>2, <1>2 DEF Contains
  <2> QED
    BY <2>1, <2>2, <2>3
<1> QED
  BY <1>1, <1>2, <1>3, <1>4 DEF n

\* A stream put at the front is behind no other.
LEMMA PushedOnce ==
    ASSUME NEW q \in Seq(Streams), Distinct(q), NEW s \in Streams, ~Contains(q, s)
    PROVE  /\ Distinct(<<s>> \o q)
           /\ \A x : x # s => FromOn(<<s>> \o q, x) = FromOn(q, x)
<1> DEFINE n == <<s>> \o q
<1>1. /\ n \in Seq(Streams) /\ Len(n) = Len(q) + 1 /\ n[1] = s
      /\ \A i \in 1..Len(q) : n[i + 1] = q[i]
      /\ \A i \in 1..Len(n) : i = 1 \/ (i - 1 \in 1..Len(q) /\ n[i] = q[i - 1])
  BY Pushed
<1>0. Len(q) \in Nat
  OBVIOUS
<1> HIDE DEF n
<1>2. \A i \in 1..Len(q) : q[i] # s
  BY DEF Contains
<1>3. Distinct(n)
  <2> SUFFICES ASSUME NEW i \in 1..Len(n), NEW j \in 1..Len(n), n[i] = n[j]
               PROVE  i = j
    BY DEF Distinct
  <2>1. CASE i = 1 \/ j = 1
    BY <1>1, <1>2, <2>1
  <2>2. CASE i # 1 /\ j # 1
    <3>1. i - 1 \in 1..Len(q) /\ j - 1 \in 1..Len(q) /\ q[i - 1] = q[j - 1]
      BY <1>1, <2>2
    <3>2. i - 1 = j - 1
      BY <3>1 DEF Distinct
    <3> QED
      BY <3>2, <1>1, <1>0
  <2> QED
    BY <2>1, <2>2
<1>4. ASSUME NEW x, x # s PROVE FromOn(n, x) = FromOn(q, x)
  <2>1. ASSUME NEW r \in FromOn(n, x) PROVE r \in FromOn(q, x)
    <3>1. PICK i, j \in 1..Len(n) : i <= j /\ n[i] = x /\ n[j] = r
      BY <2>1 DEF FromOn
    <3>2. i # 1 /\ j # 1
      BY <3>1, <1>1, <1>0, <1>4
    <3>3. i - 1 \in 1..Len(q) /\ j - 1 \in 1..Len(q) /\ i - 1 <= j - 1 /\ q[i - 1] = x /\ q[j - 1] = r
      BY <3>1, <3>2, <1>1, <1>0
    <3> QED
      BY <3>3, <2>1 DEF FromOn
  <2>2. ASSUME NEW r \in FromOn(q, x) PROVE r \in FromOn(n, x)
    <3>1. PICK i, j \in 1..Len(q) : i <= j /\ q[i] = x /\ q[j] = r
      BY <2>2 DEF FromOn
    <3>2. i + 1 \in 1..Len(n) /\ j + 1 \in 1..Len(n) /\ i + 1 <= j + 1 /\ n[i + 1] = x /\ n[j + 1] = r
      BY <3>1, <1>1, <1>0
    <3> QED
      BY <3>2, <2>2 DEF FromOn
  <2> QED
    BY <2>1, <2>2
<1> QED
  BY <1>3, <1>4 DEF n

\* Unlinking a stream closes the gap, and the rest keeps its order.
LEMMA TakenOut ==
    ASSUME NEW q \in Seq(Streams), NEW i \in 1..Len(q)
    PROVE  LET r == RemoveAt(q, i)
           IN  /\ r \in Seq(Streams) /\ Len(r) = Len(q) - 1
               /\ \A k \in 1..(Len(q) - 1) : r[k] = IF k < i THEN q[k] ELSE q[k + 1]
<1> DEFINE a == SubSeq(q, 1, i - 1)
           b == SubSeq(q, i + 1, Len(q))
<1>0. Len(q) \in Nat /\ i \in Nat /\ 1 <= i /\ i <= Len(q) /\ \A k \in 1..Len(q) : q[k] \in Streams
  OBVIOUS
<1>1. a \in Seq(Streams) /\ Len(a) = i - 1 /\ \A k \in 1..(i - 1) : a[k] = q[k]
  BY <1>0
<1>2. b \in Seq(Streams) /\ Len(b) = Len(q) - i /\ \A k \in 1..(Len(q) - i) : b[k] = q[i + k]
  BY <1>0
<1>3. RemoveAt(q, i) = a \o b
  BY DEF RemoveAt
<1> HIDE DEF a, b
<1>4. a \o b \in Seq(Streams) /\ Len(a \o b) = Len(q) - 1
  <2>1. a \o b \in Seq(Streams) /\ Len(a \o b) = Len(a) + Len(b)
    BY <1>1, <1>2, ConcatProperties
  <2> QED
    BY <1>0, <1>1, <1>2, <2>1
<1>5. ASSUME NEW k \in 1..(Len(q) - 1) PROVE (a \o b)[k] = IF k < i THEN q[k] ELSE q[k + 1]
  <2>1. k \in 1..(Len(a) + Len(b))
    BY <1>0, <1>1, <1>2
  <2>2. (a \o b)[k] = IF k <= Len(a) THEN a[k] ELSE b[k - Len(a)]
    BY <1>1, <1>2, <2>1
  <2>3. CASE k < i
    BY <1>0, <1>1, <2>2, <2>3
  <2>4. CASE ~(k < i)
    <3>1. k - (i - 1) \in 1..(Len(q) - i) /\ i + (k - (i - 1)) = k + 1 /\ ~(k <= i - 1)
      BY <1>0, <2>4
    <3> QED
      BY <1>1, <1>2, <2>2, <2>4, <3>1
  <2> QED
    BY <2>3, <2>4
<1> QED
  BY <1>3, <1>4, <1>5

LEMMA PlaceIs ==
    ASSUME NEW q \in Seq(Streams), Distinct(q), NEW i \in 1..Len(q)
    PROVE  Place(q, q[i]) = i
<1>1. Place(q, q[i]) \in 1..Len(q) /\ q[Place(q, q[i])] = q[i]
  BY DEF Place
<1> QED
  BY <1>1 DEF Distinct

LEMMA Gone ==
    ASSUME NEW q \in Seq(Streams), Distinct(q), NEW s, Contains(q, s)
    PROVE  /\ Unlinked(q, s) \in Seq(Streams) /\ Distinct(Unlinked(q, s))
           /\ \A r : Contains(Unlinked(q, s), r) <=> Contains(q, r) /\ r # s
           /\ \A x : x # s => FromOn(Unlinked(q, s), x) = FromOn(q, x) \ {s}
<1>1. PICK i \in 1..Len(q) : q[i] = s
  BY DEF Contains
<1> DEFINE n == Unlinked(q, s)
           old(k) == IF k < i THEN k ELSE k + 1
           new(k) == IF k < i THEN k ELSE k - 1
<1>2. n = RemoveAt(q, i)
  BY <1>1, PlaceIs DEF Unlinked
<1>3. /\ n \in Seq(Streams) /\ Len(n) = Len(q) - 1
      /\ \A k \in 1..(Len(q) - 1) : n[k] = IF k < i THEN q[k] ELSE q[k + 1]
  BY <1>2, TakenOut
<1> HIDE DEF n
<1>0. Len(q) \in Nat /\ i \in Nat
  OBVIOUS
<1>4. \A k \in 1..Len(n) : old(k) \in 1..Len(q) /\ old(k) # i /\ n[k] = q[old(k)]
  BY <1>0, <1>3
<1>5. \A k \in 1..Len(q) : k # i => new(k) \in 1..Len(n) /\ old(new(k)) = k
  BY <1>0, <1>3
<1>6. \A k, l \in 1..Len(n) : k <= l <=> old(k) <= old(l)
  BY <1>0, <1>3
<1>7. \A k, l \in 1..Len(n) : old(k) = old(l) => k = l
  BY <1>0, <1>3
<1>8. \A k, l \in 1..Len(q) : k # i /\ l # i => (k <= l => new(k) <= new(l))
  BY <1>0
<1>9. \A k \in 1..Len(q) : k # i => new(k) \in 1..Len(n) /\ n[new(k)] = q[k]
  BY <1>4, <1>5
<1>10. \A k \in 1..Len(q) : q[k] = s <=> k = i
  BY <1>1 DEF Distinct
<1> HIDE DEF old, new
<1>11. Distinct(n)
  <2> SUFFICES ASSUME NEW k \in 1..Len(n), NEW l \in 1..Len(n), n[k] = n[l] PROVE k = l
    BY DEF Distinct
  <2>1. old(k) \in 1..Len(q) /\ old(l) \in 1..Len(q) /\ q[old(k)] = q[old(l)]
    BY <1>4
  <2>2. old(k) = old(l)
    BY <2>1 DEF Distinct
  <2> QED
    BY <1>7, <2>2
<1>12. ASSUME NEW r PROVE Contains(n, r) <=> Contains(q, r) /\ r # s
  <2>1. ASSUME NEW k \in 1..Len(n), n[k] = r PROVE Contains(q, r) /\ r # s
    <3>1. old(k) \in 1..Len(q) /\ old(k) # i /\ q[old(k)] = r
      BY <1>4, <2>1
    <3> QED
      BY <1>10, <3>1 DEF Contains
  <2>2. ASSUME NEW k \in 1..Len(q), q[k] = r, r # s PROVE Contains(n, r)
    <3>1. new(k) \in 1..Len(n) /\ n[new(k)] = r
      BY <1>9, <1>10, <2>2
    <3> QED
      BY <3>1 DEF Contains
  <2> QED
    BY <2>1, <2>2 DEF Contains
<1>13. ASSUME NEW x, x # s PROVE FromOn(n, x) = FromOn(q, x) \ {s}
  <2>1. ASSUME NEW r \in FromOn(n, x) PROVE r \in FromOn(q, x) \ {s}
    <3>1. PICK k, l \in 1..Len(n) : k <= l /\ n[k] = x /\ n[l] = r
      BY <2>1 DEF FromOn
    <3>2. /\ old(k) \in 1..Len(q) /\ old(l) \in 1..Len(q) /\ old(k) <= old(l)
          /\ q[old(k)] = x /\ q[old(l)] = r /\ r # s
      BY <3>1, <1>4, <1>6, <1>10
    <3> QED
      BY <3>2, <2>1 DEF FromOn
  <2>2. ASSUME NEW r \in FromOn(q, x) \ {s} PROVE r \in FromOn(n, x)
    <3>1. PICK k, l \in 1..Len(q) : k <= l /\ q[k] = x /\ q[l] = r
      BY <2>2 DEF FromOn
    <3>2. k # i /\ l # i
      BY <3>1, <1>10, <1>13, <2>2
    <3>3. /\ new(k) \in 1..Len(n) /\ new(l) \in 1..Len(n) /\ new(k) <= new(l)
          /\ n[new(k)] = x /\ n[new(l)] = r
      BY <3>1, <3>2, <1>8, <1>9
    <3> QED
      BY <3>3, <2>2 DEF FromOn
  <2> QED
    BY <2>1, <2>2
<1> QED
  BY <1>3, <1>11, <1>12, <1>13 DEF n

LEMMA Behead ==
    ASSUME NEW q \in Seq(Streams), Distinct(q), q # << >>
    PROVE  /\ Head(q) \in Streams /\ Contains(q, Head(q))
           /\ Tail(q) \in Seq(Streams) /\ Distinct(Tail(q))
           /\ \A r : Contains(Tail(q), r) <=> Contains(q, r) /\ r # Head(q)
<1>1. /\ Len(q) \in Nat /\ Len(q) > 0 /\ Head(q) = q[1] /\ Head(q) \in Streams
      /\ Tail(q) \in Seq(Streams) /\ Len(Tail(q)) = Len(q) - 1
      /\ \A i \in 1..(Len(q) - 1) : Tail(q)[i] = q[i + 1]
  OBVIOUS
<1>2. \A i \in 1..Len(Tail(q)) : i + 1 \in 1..Len(q) /\ Tail(q)[i] = q[i + 1] /\ i + 1 # 1
  BY <1>1
<1>3. \A i \in 1..Len(q) : i = 1 \/ (i - 1 \in 1..Len(Tail(q)) /\ (i - 1) + 1 = i)
  BY <1>1
<1>4. \A i \in 1..Len(q) : q[i] = q[1] <=> i = 1
  BY <1>1 DEF Distinct
<1>5. Distinct(Tail(q))
  <2> SUFFICES ASSUME NEW i \in 1..Len(Tail(q)), NEW j \in 1..Len(Tail(q)), Tail(q)[i] = Tail(q)[j]
               PROVE  i = j
    BY DEF Distinct
  <2>1. i + 1 = j + 1
    BY <1>2 DEF Distinct
  <2> QED
    BY <2>1, <1>1
<1>6. ASSUME NEW r PROVE Contains(Tail(q), r) <=> Contains(q, r) /\ r # Head(q)
  <2>1. ASSUME Contains(Tail(q), r) PROVE Contains(q, r) /\ r # Head(q)
    BY <2>1, <1>1, <1>2, <1>4 DEF Contains
  <2>2. ASSUME Contains(q, r), r # Head(q) PROVE Contains(Tail(q), r)
    <3>1. PICK i \in 1..Len(q) : q[i] = r
      BY <2>2 DEF Contains
    <3>2. i - 1 \in 1..Len(Tail(q)) /\ Tail(q)[i - 1] = r
      BY <3>1, <2>2, <1>1, <1>2, <1>3
    <3> QED
      BY <3>2 DEF Contains
  <2> QED
    BY <2>1, <2>2
<1>7. Contains(q, Head(q))
  BY <1>1 DEF Contains
<1> QED
  BY <1>1, <1>5, <1>6, <1>7

\* What a walk over the list sees.
LEMMA FirstIs ==
    ASSUME NEW q \in Seq(Streams)
    PROVE  /\ First(q) \in Streams \cup {None}
           /\ First(q) = None \/ Contains(q, First(q))
           /\ FromOn(q, First(q)) = {r \in Streams : Contains(q, r)}
<1>1. CASE q = << >>
  <2>1. First(q) = None /\ Len(q) = 0
    BY <1>1 DEF First
  <2> QED
    BY <2>1 DEF FromOn, Contains
<1>2. CASE q # << >>
  <2>1. First(q) = q[1] /\ q[1] \in Streams /\ Len(q) \in Nat /\ 1 \in 1..Len(q)
    BY <1>2 DEF First
  <2>2. \A j \in 1..Len(q) : 1 <= j
    BY <2>1
  <2> QED
    BY <2>1, <2>2 DEF FromOn, Contains
<1> QED
  BY <1>1, <1>2

LEMMA NoneIsLast ==
    ASSUME NEW q \in Seq(Streams)
    PROVE  FromOn(q, None) = {} /\ ~Contains(q, None)
<1>1. \A i \in 1..Len(q) : q[i] \in Streams /\ q[i] # None
  BY StreamsAssumption
<1> QED
  BY <1>1 DEF FromOn, Contains

LEMMA OffList ==
    ASSUME NEW q \in Seq(Streams), NEW s, ~Contains(q, s)
    PROVE  FromOn(q, s) = {}
BY DEF FromOn, Contains

LEMMA FromListed ==
    ASSUME NEW q \in Seq(Streams), NEW s
    PROVE  \A r \in FromOn(q, s) : r \in Streams /\ Contains(q, r) /\ Contains(q, s)
BY DEF FromOn, Contains

LEMMA OnItsRest ==
    ASSUME NEW q \in Seq(Streams), NEW s, Contains(q, s)
    PROVE  s \in FromOn(q, s)
<1>1. PICK i \in 1..Len(q) : q[i] = s
  BY DEF Contains
<1> QED
  BY <1>1 DEF FromOn

LEMMA AfterIs ==
    ASSUME ostream \in Seq(Streams), Distinct(ostream), NEW s, Contains(ostream, s)
    PROVE  /\ s \in Streams /\ After(s) \in Streams \cup {None}
           /\ After(s) = None \/ Contains(ostream, After(s))
           /\ From(s) = {s} \cup From(After(s)) /\ s \notin From(After(s))
<1>1. PICK i \in 1..Len(ostream) : ostream[i] = s
  BY DEF Contains
<1>2. Place(ostream, s) = i
  BY <1>1, PlaceIs
<1>3. After(s) = IF i = Len(ostream) THEN None ELSE ostream[i + 1]
  BY <1>2 DEF After
<1>4. Len(ostream) \in Nat /\ \A k \in 1..Len(ostream) : ostream[k] \in Streams
  OBVIOUS
<1>5. \A k, l \in 1..Len(ostream) : ostream[k] = ostream[l] => k = l
  BY DEF Distinct
<1>6. From(s) = {r \in Streams : \E j \in 1..Len(ostream) : i <= j /\ ostream[j] = r}
  BY <1>1, <1>5 DEF From, FromOn
<1>7. CASE i = Len(ostream)
  <2>1. After(s) = None /\ From(After(s)) = {}
    BY <1>3, <1>7, NoneIsLast DEF From
  <2>2. \A j \in 1..Len(ostream) : i <= j => j = i
    BY <1>4, <1>7
  <2>3. From(s) = {s}
    BY <1>1, <1>4, <1>6, <2>2
  <2> QED
    BY <1>1, <1>4, <2>1, <2>3
<1>8. CASE i # Len(ostream)
  <2>1. i + 1 \in 1..Len(ostream) /\ After(s) = ostream[i + 1]
    BY <1>3, <1>4, <1>8
  <2>2. From(After(s)) = {r \in Streams : \E j \in 1..Len(ostream) : i + 1 <= j /\ ostream[j] = r}
    BY <2>1, <1>5 DEF From, FromOn
  <2>3. \A j \in 1..Len(ostream) : i <= j <=> i = j \/ i + 1 <= j
    BY <1>4
  <2>4. ~(i + 1 <= i)
    BY <1>4
  <2>5. From(s) = {s} \cup From(After(s))
    BY <1>1, <1>4, <1>6, <2>2, <2>3
  <2>6. s \notin From(After(s))
    BY <1>1, <1>5, <2>2, <2>4
  <2> QED
    BY <1>1, <1>4, <2>1, <2>5, <2>6 DEF Contains
<1> QED
  BY <1>7, <1>8

-------------------------------------------------------------------------------
Flags   == SUBSET {"RW", "DIRTY", "DYNAMIC"}
Values  == Handles \cup {0, NoHandle}
Maybe   == Streams \cup {None}
Holding == [Objects -> 0..2]
Kinds   == Functions \cup {"none"}

LEMMA TypesAre ==
    TypeOK <=> /\ program \in Programs
               /\ ostream \in Seq(Streams) /\ cstream \in Seq(Streams)
               /\ flag \in [Streams -> Flags] /\ handle \in [Streams -> Values]
               /\ opened \subseteq Handles \cup {0}
               /\ held \in [Threads -> Holding]
               /\ pc \in [Threads -> Labels] /\ op \in [Threads -> Kinds]
               /\ fp \in [Threads -> Maybe] /\ next \in [Threads -> Maybe]
               /\ hdl \in [Threads -> Values]
               /\ mine \in [Threads -> SUBSET Streams]
               /\ calls \in [Threads -> 0..MaxCalls]
BY DEF TypeOK, Flags, Values, Maybe, Holding, Kinds

LEMMA TypesAfter ==
    TypeOK' <=> /\ program' \in Programs
                /\ ostream' \in Seq(Streams) /\ cstream' \in Seq(Streams)
                /\ flag' \in [Streams -> Flags] /\ handle' \in [Streams -> Values]
                /\ opened' \subseteq Handles \cup {0}
                /\ held' \in [Threads -> Holding]
                /\ pc' \in [Threads -> Labels] /\ op' \in [Threads -> Kinds]
                /\ fp' \in [Threads -> Maybe] /\ next' \in [Threads -> Maybe]
                /\ hdl' \in [Threads -> Values]
                /\ mine' \in [Threads -> SUBSET Streams]
                /\ calls' \in [Threads -> 0..MaxCalls]
BY DEF TypeOK, Flags, Values, Maybe, Holding, Kinds

\* A step of t leaves the calls of the others alone.
OthersStay(t) ==
    /\ program' = program
    /\ \A u \in Threads \ {t} : /\ pc'[u] = pc[u] /\ op'[u] = op[u] /\ fp'[u] = fp[u]
                                /\ hdl'[u] = hdl[u] /\ next'[u] = next[u] /\ mine'[u] = mine[u]

OthersHad(t) ==
    \A u \in Threads \ {t} :
        /\ mine'[u] = mine[u] /\ Rest(u)' = Rest(u) /\ Work(u)' = Work(u)
        /\ Has(u)' = Has(u) /\ Open(u)' = Open(u)
        /\ Marking(u)' = Marking(u) /\ Closing(u)' = Closing(u)

LEMMA OthersHave ==
    ASSUME NEW t \in Threads, OthersStay(t),
           \A u \in Threads \ {t} : Walks(u) => FromOn(ostream', Cursor(u)) = From(Cursor(u)),
           \A u \in Threads \ {t} : pc[u] \in {"lockfile", "closefile"} =>
              (Contains(ostream', fp[u]) <=> Contains(ostream, fp[u]))
    PROVE  OthersHad(t)
<1> SUFFICES ASSUME NEW u \in Threads \ {t}
             PROVE  /\ mine'[u] = mine[u] /\ Rest(u)' = Rest(u) /\ Work(u)' = Work(u)
                    /\ Has(u)' = Has(u) /\ Open(u)' = Open(u)
                    /\ Marking(u)' = Marking(u) /\ Closing(u)' = Closing(u)
  BY DEF OthersHad
<1>1. /\ pc'[u] = pc[u] /\ op'[u] = op[u] /\ fp'[u] = fp[u]
      /\ hdl'[u] = hdl[u] /\ next'[u] = next[u] /\ mine'[u] = mine[u]
  BY DEF OthersStay
<1>2. Work(u)' = Work(u)
  BY <1>1 DEF Work
<1>3. Walks(u)' = Walks(u) /\ Cursor(u)' = Cursor(u)
  BY <1>1 DEF Walks, Cursor
<1>4. Rest(u)' = Rest(u)
  BY <1>3 DEF Rest, From
<1>5. Ready(u)' = Ready(u)
  BY <1>1 DEF Ready
<1>6. Has(u)' = Has(u) /\ Open(u)' = Open(u)
  BY <1>1, <1>2, <1>4, <1>5 DEF Has, Open
<1>7. Marking(u)' = Marking(u) /\ Closing(u)' = Closing(u)
  BY <1>1, <1>2 DEF Marking, Closing
<1> QED
  BY <1>1, <1>2, <1>4, <1>6, <1>7

Core == /\ \A t \in Threads : Placed(t) /\ Passing(t) /\ Reopens(t)
        /\ Lists /\ Owned /\ Usable /\ Clean /\ Marked

LEMMA HasWhat ==
    ASSUME NEW t, Parted(t)
    PROVE  /\ Open(t) \subseteq Has(t) /\ Work(t) \subseteq Has(t)
           /\ Marking(t) \subseteq Work(t) /\ Closing(t) \subseteq Work(t)
           /\ mine[t] \subseteq Open(t) /\ Rest(t) \subseteq Open(t)
           /\ Open(t) = IF Ready(t) THEN Has(t) ELSE Has(t) \ Work(t)
BY DEF Has, Open, Marking, Closing, Parted

-------------------------------------------------------------------------------
\* What a step of t has to be like to keep each part of the invariant.
LEMMA OwnedKeeps ==
    ASSUME NEW t \in Threads, Owned, OthersHad(t), Parted(t)', Listed(t)',
           \A u \in Threads \ {t} : Listed(u)',
           \A s \in Has(t)' : s \in Has(t) \/ \A u \in Threads \ {t} : s \notin Has(u),
           \A s \in Streams : Contains(ostream', s) =>
              s \in Has(t)' \/ (Contains(ostream, s) /\ s \notin Has(t))
    PROVE  Owned'
<1>1. \A u, v \in Threads : u # v => Has(u)' \cap Has(v)' = {}
  <2> SUFFICES ASSUME NEW u \in Threads, NEW v \in Threads, u # v PROVE Has(u)' \cap Has(v)' = {}
    OBVIOUS
  <2>1. \A w \in Threads \ {t} : Has(w)' = Has(w)
    BY DEF OthersHad
  <2>2. \A w \in Threads \ {t} : Has(t)' \cap Has(w) = {}
    BY DEF Owned
  <2> QED
    BY <2>1, <2>2 DEF Owned
<1>2. \A u \in Threads : Parted(u)' /\ Listed(u)'
  <2> SUFFICES ASSUME NEW u \in Threads \ {t} PROVE Parted(u)'
    OBVIOUS
  <2>1. Parted(u)
    BY DEF Owned
  <2> QED
    BY <2>1 DEF Parted, OthersHad
<1>3. ASSUME NEW s \in Streams, Contains(ostream', s) PROVE \E u \in Threads : s \in Has(u)'
  <2>1. CASE s \in Has(t)'
    BY <2>1
  <2>2. CASE Contains(ostream, s) /\ s \notin Has(t)
    <3>1. PICK u \in Threads : s \in Has(u)
      BY <2>2 DEF Owned
    <3> QED
      BY <3>1, <2>2 DEF OthersHad
  <2> QED
    BY <1>3, <2>1, <2>2
<1> QED
  BY <1>1, <1>2, <1>3 DEF Owned

LEMMA UsableKeeps ==
    ASSUME NEW t \in Threads, Usable, OthersHad(t),
           \A u \in Threads \ {t} : \A s \in Open(u) :
              "RW" \in flag'[s] /\ handle'[s] = handle[s] /\ handle[s] \in opened',
           \A s \in Open(t)' : "RW" \in flag'[s] /\ handle'[s] \in opened' \ {0},
           \A s, r \in Open(t)' : handle'[s] = handle'[r] => s = r,
           \A s \in Open(t)' : \A u \in Threads \ {t} : \A r \in Open(u) : handle'[s] # handle[r]
    PROVE  Usable'
<1>1. \A u \in Threads \ {t} : Open(u)' = Open(u)
  BY DEF OthersHad
<1>2. \A u \in Threads : \A s \in Open(u)' : "RW" \in flag'[s] /\ handle'[s] \in opened' \ {0}
  BY <1>1 DEF Usable
<1>3. ASSUME NEW u \in Threads, NEW v \in Threads, NEW s \in Open(u)', NEW r \in Open(v)',
             handle'[s] = handle'[r]
      PROVE  s = r
  <2>1. CASE u = t /\ v = t
    BY <1>3, <2>1
  <2>2. CASE u # t /\ v # t
    <3>1. s \in Open(u) /\ r \in Open(v) /\ handle[s] = handle[r]
      <4>1. s \in Open(u) /\ r \in Open(v)
        BY <1>1, <2>2
      <4>2. handle'[s] = handle[s] /\ handle'[r] = handle[r]
        BY <2>2, <4>1
      <4> QED
        BY <1>3, <4>1, <4>2
    <3>2. \A w \in Open(v) : handle[s] = handle[w] => s = w
      BY <3>1 DEF Usable
    <3> QED
      BY <3>1, <3>2
  <2>3. CASE u = t /\ v # t
    <3>1. r \in Open(v) /\ handle'[r] = handle[r]
      BY <1>1, <2>3
    <3> QED
      BY <1>3, <2>3, <3>1
  <2>4. CASE u # t /\ v = t
    <3>1. s \in Open(u) /\ handle'[s] = handle[s]
      BY <1>1, <2>4
    <3> QED
      BY <1>3, <2>4, <3>1
  <2> QED
    BY <2>1, <2>2, <2>3, <2>4
<1> QED
  BY <1>2, <1>3 DEF Usable

LEMMA CleanKeeps ==
    ASSUME NEW t \in Threads, Clean, OthersHad(t),
           \A s \in Streams : "DIRTY" \in flag'[s] =>
              \/ s \in Open(t)' \ Closing(t)'
              \/ "DIRTY" \in flag[s] /\ s \notin Open(t) \ Closing(t)
    PROVE  Clean'
<1> SUFFICES ASSUME NEW s \in Streams, "DIRTY" \in flag'[s]
             PROVE  \E u \in Threads : s \in Open(u)' \ Closing(u)'
  BY DEF Clean
<1>1. CASE s \in Open(t)' \ Closing(t)'
  BY <1>1
<1>2. CASE "DIRTY" \in flag[s] /\ s \notin Open(t) \ Closing(t)
  <2>1. PICK u \in Threads : s \in Open(u) \ Closing(u)
    BY <1>2 DEF Clean
  <2> QED
    BY <1>2, <2>1 DEF OthersHad
<1> QED
  BY <1>1, <1>2

LEMMA MarkedKeeps ==
    ASSUME NEW t \in Threads, Marked, OthersHad(t),
           \A s \in Streams : Contains(ostream', s) \/ Contains(cstream', s) =>
              \/ "RW" \in flag'[s] \/ s \in Marking(t)'
              \/ /\ Contains(ostream, s) \/ Contains(cstream, s)
                 /\ "RW" \notin flag[s] /\ s \notin Marking(t)
    PROVE  Marked'
<1> SUFFICES ASSUME NEW s \in Streams, Contains(ostream', s) \/ Contains(cstream', s), "RW" \notin flag'[s]
             PROVE  \E u \in Threads : s \in Marking(u)'
  BY DEF Marked
<1>1. CASE s \in Marking(t)'
  BY <1>1
<1>2. CASE (Contains(ostream, s) \/ Contains(cstream, s)) /\ "RW" \notin flag[s] /\ s \notin Marking(t)
  <2>1. PICK u \in Threads : s \in Marking(u)
    BY <1>2 DEF Marked
  <2> QED
    BY <1>2, <2>1 DEF OthersHad
<1> QED
  BY <1>1, <1>2

LEMMA OthersPass ==
    ASSUME NEW t \in Threads, OthersStay(t), \A u \in Threads : Passing(u),
           \A u \in Threads \ {t} :
              /\ Walks(u) => (Contains(ostream, Cursor(u)) => Contains(ostream', Cursor(u)))
              /\ Visits(u) => /\ Contains(ostream, fp[u]) => Contains(ostream', fp[u])
                              /\ FromOn(ostream', fp[u]) = From(fp[u])
              /\ \A s \in mine[u] : "DIRTY" \in flag'[s] => "DIRTY" \in flag[s]
    PROVE  \A u \in Threads \ {t} : Passing(u)'
<1> SUFFICES ASSUME NEW u \in Threads \ {t} PROVE Passing(u)'
  OBVIOUS
<1>1. /\ pc'[u] = pc[u] /\ op'[u] = op[u] /\ fp'[u] = fp[u] /\ next'[u] = next[u] /\ mine'[u] = mine[u]
  BY DEF OthersStay
<1>2. Walks(u)' = Walks(u) /\ Cursor(u)' = Cursor(u) /\ Visits(u)' = Visits(u)
  BY <1>1 DEF Walks, Cursor, Visits
<1>3. Walks(u)' => Cursor(u)' = None \/ Contains(ostream', Cursor(u)')
  BY <1>2 DEF Passing
<1>4. ASSUME Visits(u)'
      PROVE  /\ fp'[u] = None \/ Contains(ostream', fp'[u])
             /\ \A s \in mine'[u] : "DIRTY" \in flag'[s] => s \in From(fp[u])'
  BY <1>1, <1>2, <1>4 DEF Passing, From
<1> QED
  BY <1>3, <1>4, <1>1 DEF Passing

LEMMA OthersPlaced ==
    ASSUME NEW t \in Threads, OthersStay(t), \A u \in Threads : Placed(u)
    PROVE  \A u \in Threads \ {t} : Placed(u)'
BY DEF OthersStay, Placed

LEMMA OthersOpenStays ==
    ASSUME program' = program
    PROVE  \A u : OthersOpen(u)' = OthersOpen(u)
BY DEF OthersOpen

LEMMA OthersReopen ==
    ASSUME NEW t \in Threads, OthersStay(t), OthersHad(t), \A u \in Threads : Reopens(u)
    PROVE  \A u \in Threads \ {t} : Reopens(u)'
BY OthersOpenStays DEF OthersStay, OthersHad, Reopens

LEMMA OthersListed ==
    ASSUME NEW t \in Threads, OthersStay(t), OthersHad(t), Owned,
           \A u \in Threads \ {t} : \A s \in Has(u) :
              /\ Contains(ostream, s) => Contains(ostream', s)
              /\ Contains(cstream, s) => Contains(cstream', s)
    PROVE  \A u \in Threads \ {t} : Listed(u)'
<1> SUFFICES ASSUME NEW u \in Threads \ {t} PROVE Listed(u)'
  OBVIOUS
<1>1. mine'[u] = mine[u] /\ Work(u)' = Work(u) /\ pc'[u] = pc[u] /\ OthersOpen(u)' = OthersOpen(u)
  BY OthersOpenStays DEF OthersStay, OthersHad
<1>2. Listed(u) /\ mine[u] \subseteq Has(u) /\ Work(u) \subseteq Has(u)
  BY DEF Owned, Has
<1> QED
  BY <1>1, <1>2 DEF Listed

-------------------------------------------------------------------------------
\* A step that leaves the lists and the handles alone, and what t has as open as it was.
Quiet(t) ==
    /\ OthersStay(t) /\ ostream' = ostream /\ cstream' = cstream
    /\ handle' = handle /\ opened' = opened
    /\ Has(t)' = Has(t) /\ Open(t)' = Open(t) /\ pc[t] # "close"
    /\ \A s \in Streams :
          /\ "RW" \in flag[s] => "RW" \in flag'[s] \/ s \in Marking(t)' \ Open(t)
          /\ s \in Marking(t) => "RW" \in flag'[s] \/ s \in Marking(t)'
          /\ "DIRTY" \in flag'[s] => /\ s \notin Closing(t)'
                                     /\ "DIRTY" \in flag[s] \/ s \in mine[t]
    /\ Placed(t)' /\ Parted(t)' /\ Listed(t)' /\ Passing(t)'

LEMMA Disjoint ==
    ASSUME Owned, NEW t \in Threads, NEW u \in Threads \ {t}
    PROVE  /\ Has(t) \cap Has(u) = {} /\ Open(u) \subseteq Has(u) /\ Open(t) \subseteq Has(t)
           /\ mine[t] \subseteq Has(t) /\ mine[u] \subseteq Has(u)
           /\ Work(t) \subseteq Has(t) /\ Work(u) \subseteq Has(u)
           /\ Marking(t) \subseteq Work(t) /\ Marking(u) \subseteq Work(u)
           /\ Rest(t) \subseteq Has(t) /\ Rest(u) \subseteq Has(u)
BY HasWhat DEF Owned, Has

LEMMA HadAreStreams ==
    ASSUME TypeOK, NEW t \in Threads
    PROVE  Has(t) \subseteq Streams
<1>1. mine[t] \subseteq Streams /\ fp[t] \in Maybe
  BY TypesAre
<1>2. Rest(t) \subseteq Streams
  BY DEF Rest, From, FromOn
<1>3. Work(t) \subseteq Streams
  BY <1>1 DEF Work, Maybe
<1> QED
  BY <1>1, <1>2, <1>3 DEF Has

LEMMA QuietKeeps ==
    ASSUME TypeOK, TypeOK', Core, NEW t \in Threads, Quiet(t)
    PROVE  Core'
<1>1. OthersHad(t)
  BY OthersHave DEF Quiet, From
<1>2. \A u \in Threads \ {t} :
         /\ Has(t) \cap Has(u) = {} /\ Open(u) \subseteq Has(u) /\ Open(t) \subseteq Has(t)
         /\ mine[t] \subseteq Has(t) /\ mine[u] \subseteq Has(u)
         /\ Work(t) \subseteq Has(t) /\ Work(u) \subseteq Has(u)
         /\ Marking(t) \subseteq Work(t) /\ Marking(u) \subseteq Work(u)
  BY Disjoint DEF Core
<1>3. \A u \in Threads : Placed(u)'
  BY OthersPlaced DEF Quiet, Core
<1>4. \A u \in Threads : Passing(u)'
  <2>1. \A u \in Threads \ {t} : \A s \in mine[u] : "DIRTY" \in flag'[s] => "DIRTY" \in flag[s]
    <3> SUFFICES ASSUME NEW u \in Threads \ {t}, NEW s \in mine[u], "DIRTY" \in flag'[s]
                 PROVE  "DIRTY" \in flag[s]
      OBVIOUS
    <3>1. s \in Streams
      BY <1>2, HadAreStreams
    <3>2. s \notin mine[t]
      BY <1>2
    <3> QED
      BY <3>1, <3>2 DEF Quiet
  <2> QED
    BY <2>1, OthersPass DEF Quiet, Core, From
<1>5. \A u \in Threads : Reopens(u)'
  <2>1. Reopens(t)'
    BY OthersOpenStays DEF Quiet, OthersStay, Core, Reopens
  <2> QED
    BY <1>1, <2>1, OthersReopen DEF Quiet, Core
<1>6. Lists'
  BY DEF Core, Lists, Quiet, Distinct, Contains
<1>7. Owned'
  <2>1. \A u \in Threads \ {t} : Listed(u)'
    BY <1>1, OthersListed DEF Quiet, Core
  <2> QED
    BY <1>1, <2>1, OwnedKeeps DEF Quiet, Core
<1>8. Usable'
  <2>1. \A u \in Threads : \A s \in Open(u) : s \in Streams
    <3> SUFFICES ASSUME NEW u \in Threads PROVE Open(u) \subseteq Has(u) /\ Has(u) \subseteq Streams
      OBVIOUS
    <3> QED
      BY HasWhat, HadAreStreams DEF Core, Owned
  <2>2. \A u \in Threads : \A s \in Open(u) : "RW" \in flag'[s] /\ handle[s] \in opened \ {0}
    <3> SUFFICES ASSUME NEW u \in Threads, NEW s \in Open(u)
                 PROVE  "RW" \in flag'[s] /\ handle[s] \in opened \ {0}
      OBVIOUS
    <3>1. "RW" \in flag[s] /\ handle[s] \in opened \ {0} /\ s \in Streams
      BY <2>1 DEF Core, Usable
    <3>2. s \notin Marking(t)' \ Open(t)
      <4>1. CASE u = t
        BY <4>1
      <4>2. CASE u # t
        <5>1. Marking(t)' \subseteq Has(t)'
          BY DEF Marking, Has
        <5> QED
          BY <4>2, <5>1, <1>2 DEF Quiet
      <4> QED
        BY <4>1, <4>2
    <3> QED
      BY <3>1, <3>2 DEF Quiet
  <2>3. \A u \in Threads \ {t} : \A s \in Open(u) :
           "RW" \in flag'[s] /\ handle'[s] = handle[s] /\ handle[s] \in opened'
    BY <2>2 DEF Quiet
  <2>4. \A s \in Open(t)' : "RW" \in flag'[s] /\ handle'[s] \in opened' \ {0}
    BY <2>2 DEF Quiet
  <2>5. \A s, r \in Open(t)' : handle'[s] = handle'[r] => s = r
    BY DEF Quiet, Core, Usable
  <2>6. \A s \in Open(t)' : \A u \in Threads \ {t} : \A r \in Open(u) : handle'[s] # handle[r]
    <3> SUFFICES ASSUME NEW s \in Open(t), NEW u \in Threads \ {t}, NEW r \in Open(u), handle[s] = handle[r]
                 PROVE  FALSE
      BY DEF Quiet
    <3>1. s = r
      BY DEF Core, Usable
    <3> QED
      BY <3>1, <1>2
  <2> QED
    BY <1>1, <2>3, <2>4, <2>5, <2>6, UsableKeeps DEF Core
<1>9. Clean'
  <2> SUFFICES ASSUME NEW s \in Streams, "DIRTY" \in flag'[s]
               PROVE  \/ s \in Open(t)' \ Closing(t)'
                      \/ "DIRTY" \in flag[s] /\ s \notin Open(t) \ Closing(t)
    BY <1>1, CleanKeeps DEF Core
  <2>1. Closing(t) = {} /\ mine[t] \subseteq Open(t)
    BY DEF Closing, Quiet, Open
  <2> QED
    BY <2>1 DEF Quiet
<1>10. Marked'
  <2> SUFFICES ASSUME NEW s \in Streams, Contains(ostream', s) \/ Contains(cstream', s)
               PROVE  \/ "RW" \in flag'[s] \/ s \in Marking(t)'
                      \/ /\ Contains(ostream, s) \/ Contains(cstream, s)
                         /\ "RW" \notin flag[s] /\ s \notin Marking(t)
    BY <1>1, MarkedKeeps DEF Core
  <2> QED
    BY DEF Quiet
<1> QED
  BY <1>3, <1>4, <1>5, <1>6, <1>7, <1>8, <1>9, <1>10 DEF Core

-------------------------------------------------------------------------------
LEMMA HeldIs ==
    ASSUME TypeOK, Locking
    PROVE  /\ held \in [Threads -> Holding]
           /\ \A t \in Threads : \A o \in Objects : held[t][o] = Held(t, o) /\ held[t][o] \in {0, 1}
BY TypesAre DEF Locking, Held

LEMMA OthersHold ==
    ASSUME NEW t \in Threads, OthersStay(t)
    PROVE  \A u \in Threads \ {t} : \A o \in Objects : Held(u, o)' = Held(u, o)
BY DEF OthersStay, Held, HasIOB, HasFile

LEMMA LockingStays ==
    ASSUME TypeOK, Locking, NEW t \in Threads, OthersStay(t), held' = held,
           HasIOB(t)' <=> HasIOB(t), HasFile(t)' <=> HasFile(t), HasFile(t) => hdl'[t] = hdl[t]
    PROVE  Locking' /\ held' \in [Threads -> Holding]
<1>1. \A o \in Objects : Held(t, o)' = Held(t, o)
  BY DEF Held
<1>2. \A u \in Threads : \A o \in Objects : Held(u, o)' = Held(u, o)
  BY <1>1, OthersHold
<1> QED
  BY <1>2, HeldIs DEF Locking

LEMMA Locked ==
    ASSUME TypeOK, Locking, NEW t \in Threads, OthersStay(t), NEW o \in Objects, Locks!Lock(t, o),
           Held(t, o) = 0, Held(t, o)' = 1,
           \A x \in Objects : x # o => Held(t, x)' = Held(t, x)
    PROVE  Locking' /\ held' \in [Threads -> Holding]
<1>1. /\ \A u \in Threads \ {t} : held[u][o] = 0
      /\ held' = [held EXCEPT ![t][o] = @ + 1]
  BY DEF Locks!Lock
<1>2. /\ held \in [Threads -> [Objects -> 0..2]]
      /\ \A u \in Threads : \A x \in Objects : held[u][x] = Held(u, x) /\ held[u][x] \in {0, 1}
  BY HeldIs DEF Holding
<1>3. held[t][o] + 1 = 1
  BY <1>2
<1>4. held' = [held EXCEPT ![t] = [held[t] EXCEPT ![o] = 1]]
  BY <1>1, <1>2, <1>3
<1>5. held' \in [Threads -> [Objects -> 0..2]]
  <2>1. [held[t] EXCEPT ![o] = 1] \in [Objects -> 0..2]
    BY <1>2
  <2> QED
    BY <1>2, <1>4, <2>1
<1>6. /\ held'[t][o] = 1 /\ \A x \in Objects : x # o => held'[t][x] = held[t][x]
      /\ \A u \in Threads \ {t} : \A x \in Objects : held'[u][x] = held[u][x]
  BY <1>2, <1>4
<1>7. \A u \in Threads : \A x \in Objects : held'[u][x] = Held(u, x)'
  BY <1>2, <1>6, OthersHold
<1>8. \A u, v \in Threads : u # v => \A x \in Objects : held'[u][x] = 0 \/ held'[v][x] = 0
  BY <1>1, <1>6 DEF Locking
<1> QED
  BY <1>5, <1>7, <1>8 DEF Locking, Holding

LEMMA Unlocked ==
    ASSUME TypeOK, Locking, NEW t \in Threads, OthersStay(t), NEW o \in Objects, Locks!Unlock(t, o),
           Held(t, o)' = 0,
           \A x \in Objects : x # o => Held(t, x)' = Held(t, x)
    PROVE  Locking' /\ held' \in [Threads -> Holding]
<1>1. held[t][o] > 0 /\ held' = [held EXCEPT ![t][o] = @ - 1]
  BY DEF Locks!Unlock
<1>2. /\ held \in [Threads -> [Objects -> 0..2]]
      /\ \A u \in Threads : \A x \in Objects : held[u][x] = Held(u, x) /\ held[u][x] \in {0, 1}
  BY HeldIs DEF Holding
<1>3. held[t][o] - 1 = 0
  BY <1>1, <1>2
<1>4. held' = [held EXCEPT ![t] = [held[t] EXCEPT ![o] = 0]]
  BY <1>1, <1>2, <1>3
<1>5. held' \in [Threads -> [Objects -> 0..2]]
  <2>1. [held[t] EXCEPT ![o] = 0] \in [Objects -> 0..2]
    BY <1>2
  <2> QED
    BY <1>2, <1>4, <2>1
<1>6. /\ held'[t][o] = 0 /\ \A x \in Objects : x # o => held'[t][x] = held[t][x]
      /\ \A u \in Threads \ {t} : \A x \in Objects : held'[u][x] = held[u][x]
  BY <1>2, <1>4
<1>7. \A u \in Threads : \A x \in Objects : held'[u][x] = Held(u, x)'
  BY <1>2, <1>6, OthersHold
<1>8. \A u, v \in Threads : u # v => \A x \in Objects : held'[u][x] = 0 \/ held'[v][x] = 0
  BY <1>6 DEF Locking
<1> QED
  BY <1>5, <1>7, <1>8 DEF Locking, Holding

-------------------------------------------------------------------------------
\* Handles are no semaphore of the lists.
LEMMA HandlesAre ==
    /\ NoHandle \in Values /\ 0 \in Values /\ Handles \subseteq Values
    /\ Values \subseteq Objects /\ IOB \in Objects /\ IOB \notin Values
    /\ Handles \subseteq Nat \ {0} /\ NoHandle \notin Handles
    /\ None \notin Streams /\ Static \subseteq Streams
BY StreamsAssumption DEF Values, Objects, NoHandle, IOB

\* What holds of a thread by itself, and of the stream it works on.
LEMMA Its ==
    ASSUME TypeOK, Core, NEW t \in Threads
    PROVE  /\ Placed(t) /\ Passing(t) /\ Reopens(t) /\ Parted(t) /\ Listed(t)
           /\ mine[t] \subseteq Streams /\ fp[t] \in Maybe /\ next[t] \in Maybe
           /\ hdl[t] \in Values /\ pc[t] \in Labels /\ op[t] \in Kinds
           /\ \A s \in Work(t) : s \in Streams /\ s # None
           /\ ostream \in Seq(Streams) /\ cstream \in Seq(Streams)
<1>1. /\ mine[t] \subseteq Streams /\ fp[t] \in Maybe /\ next[t] \in Maybe
      /\ hdl[t] \in Values /\ pc[t] \in Labels /\ op[t] \in Kinds
  BY TypesAre
<1>2. \A s \in Work(t) : s \in Streams /\ s # None
  BY <1>1 DEF Work, Maybe
<1> QED
  BY <1>1, <1>2, TypesAre DEF Core, Owned

LEMMA SameIsQuiet ==
    ASSUME TypeOK, Core, NEW t \in Threads,
           OthersStay(t), ostream' = ostream, cstream' = cstream, handle' = handle, opened' = opened,
           mine'[t] = mine[t], Work(t)' = Work(t), Rest(t)' = Rest(t),
           Work(t) = {} \/ (Ready(t)' <=> Ready(t)),
           pc[t] # "close",
           pc'[t] \in {"lockfile", "closefile"} \/ \A s \in Work(t) : Contains(ostream, s),
           \A s \in Streams :
              /\ "RW" \in flag[s] => "RW" \in flag'[s] \/ s \in Marking(t)' \ Open(t)
              /\ s \in Marking(t) => "RW" \in flag'[s] \/ s \in Marking(t)'
              /\ "DIRTY" \in flag'[s] => /\ s \notin Closing(t)'
                                         /\ "DIRTY" \in flag[s] \/ s \in mine[t],
           Placed(t)', Passing(t)'
    PROVE  Quiet(t)
<1>1. Has(t)' = Has(t) /\ Open(t)' = Open(t)
  BY DEF Has, Open
<1>2. Parted(t) /\ Listed(t)
  BY DEF Core, Owned
<1>3. Parted(t)'
  BY <1>2 DEF Parted
<1>4. OthersOpen(t)' = OthersOpen(t)
  BY OthersOpenStays DEF OthersStay
<1>5. Listed(t)'
  BY <1>2, <1>4 DEF Listed
<1> QED
  BY <1>1, <1>3, <1>5 DEF Quiet

\* A call that neither walks nor visits the list, or goes on with a stream of its walk.
LEMMA StillPassing ==
    ASSUME NEW t \in Threads, Passing(t), ostream' = ostream,
           \/ op'[t] \notin {"fcloseall", "flushall"}
           \/ pc'[t] = "idle" \/ (pc'[t] = "lockiob" /\ op'[t] = "flushall")
           \/ /\ op'[t] = "fcloseall" /\ op[t] = "fcloseall" /\ next'[t] = next[t]
              /\ pc[t] \notin {"idle", "walk"} /\ pc'[t] \notin {"idle", "walk"}
    PROVE  Passing(t)'
<1>1. ~Visits(t)'
  BY DEF Visits
<1>2. Walks(t)' => Walks(t) /\ Cursor(t)' = Cursor(t)
  BY DEF Walks, Cursor
<1> QED
  BY <1>1, <1>2 DEF Passing

\* What a quiet step has to show.
Tame(t) == TypeOK' /\ Quiet(t) /\ Locking'

-------------------------------------------------------------------------------
\* The step from one statement to another about the stream of the call.
OwnStep(t, to, F) ==
    /\ pc' = [pc EXCEPT ![t] = to] /\ flag' = [flag EXCEPT ![fp[t]] = F]
    /\ UNCHANGED <<program, ostream, cstream, handle, opened, op, fp, hdl, next, mine, calls>>

Elsewhere == {"idle", "alloc", "walk", "lockiob", "visit"}

LEMMA OwnStays ==
    ASSUME TypeOK, NEW t \in Threads, NEW to, NEW F, OwnStep(t, to, F)
    PROVE  pc'[t] = to /\ OthersStay(t)
BY TypesAre DEF OwnStep, OthersStay

LEMMA OwnStepQuiet ==
    ASSUME TypeOK, Core, NEW t \in Threads, NEW to \in Labels \ Elsewhere, NEW F \in Flags,
           OwnStep(t, to, F), held' \in [Threads -> Holding],
           pc[t] \notin Elsewhere \cup {"close"}, op[t] # "flushall", fp[t] # None,
           Contains(ostream, fp[t]) \/ to = "closefile",
           Ready(t)' <=> Ready(t),
           \/ "RW" \in F
           \/ to \in {"mark", "setflags"} /\ ~Ready(t)
           \/ F = flag[fp[t]] /\ pc[t] \notin {"mark", "setflags"},
           "DIRTY" \in F => "DIRTY" \in flag[fp[t]] /\ to # "close",
           Placed(t)'
    PROVE  TypeOK' /\ Quiet(t)
<1>1. /\ pc' = [pc EXCEPT ![t] = to] /\ flag' = [flag EXCEPT ![fp[t]] = F]
      /\ UNCHANGED <<program, ostream, cstream, handle, opened, op, fp, hdl, next, mine, calls>>
  BY DEF OwnStep
<1>2. pc'[t] = to /\ OthersStay(t)
  BY OwnStays
<1>3. fp[t] \in Streams /\ Work(t) = {fp[t]}
  BY Its DEF Work, Maybe, Elsewhere
<1>4. TypeOK'
  <2>1. flag' \in [Streams -> Flags] /\ pc' \in [Threads -> Labels]
    BY <1>1, <1>3, TypesAre
  <2> QED
    BY <1>1, <2>1, TypesAre, TypesAfter
<1>5. Work(t)' = Work(t) /\ Rest(t)' = Rest(t)
  <2>1. Work(t)' = Work(t)
    BY <1>1, <1>2, <1>3 DEF Work, Elsewhere
  <2>2. (Walks(t)' <=> Walks(t)) /\ Cursor(t)' = next[t] /\ Cursor(t) = next[t]
    BY <1>1, <1>2 DEF Walks, Cursor, Elsewhere
  <2> QED
    BY <1>1, <2>1, <2>2 DEF Rest, From
<1>6. /\ Marking(t)' = IF to \in {"mark", "setflags"} THEN {fp[t]} ELSE {}
      /\ Closing(t)' = IF to = "close" THEN {fp[t]} ELSE {}
      /\ Marking(t) = IF pc[t] \in {"mark", "setflags"} THEN {fp[t]} ELSE {}
  BY <1>2, <1>3, <1>5 DEF Marking, Closing
<1>7. ~Ready(t) => fp[t] \notin Open(t)
  BY <1>3, Its DEF Open, Parted
<1>8. Passing(t)'
  BY <1>1, <1>2, Its, StillPassing DEF Elsewhere
<1>9. \A s \in Streams :
         /\ "RW" \in flag[s] => "RW" \in flag'[s] \/ s \in Marking(t)' \ Open(t)
         /\ s \in Marking(t) => "RW" \in flag'[s] \/ s \in Marking(t)'
         /\ "DIRTY" \in flag'[s] => s \notin Closing(t)' /\ ("DIRTY" \in flag[s] \/ s \in mine[t])
  <2> SUFFICES ASSUME NEW s \in Streams
               PROVE  /\ "RW" \in flag[s] => "RW" \in flag'[s] \/ s \in Marking(t)' \ Open(t)
                      /\ s \in Marking(t) => "RW" \in flag'[s] \/ s \in Marking(t)'
                      /\ "DIRTY" \in flag'[s] => s \notin Closing(t)' /\ ("DIRTY" \in flag[s] \/ s \in mine[t])
    OBVIOUS
  <2>1. CASE s = fp[t]
    <3>1. flag'[s] = F
      BY <1>1, <2>1, TypesAre
    <3> QED
      BY <3>1, <2>1, <1>6, <1>7
  <2>2. CASE s # fp[t]
    <3>1. flag'[s] = flag[s]
      BY <1>1, <2>2, TypesAre
    <3> QED
      BY <3>1, <2>2, <1>6
  <2> QED
    BY <2>1, <2>2
<1>10. pc'[t] \in {"lockfile", "closefile"} \/ \A s \in Work(t) : Contains(ostream, s)
  BY <1>2, <1>3
<1> QED
  BY <1>1, <1>2, <1>4, <1>5, <1>8, <1>9, <1>10, SameIsQuiet

\* The stream of a call that has opened it, or is about to, is marked and listed.
LEMMA OnIt ==
    ASSUME TypeOK, Core, NEW t \in Threads, pc[t] \notin Elsewhere, op[t] # "flushall", fp[t] # None
    PROVE  /\ fp[t] \in Streams /\ Work(t) = {fp[t]} /\ flag[fp[t]] \in Flags
           /\ pc[t] \notin {"lockfile", "closefile"} => Contains(ostream, fp[t])
           /\ pc[t] \notin {"mark", "setflags"} => "RW" \in flag[fp[t]]
<1>1. fp[t] \in Streams /\ Work(t) = {fp[t]}
  BY Its DEF Work, Maybe, Elsewhere
<1>2. flag[fp[t]] \in Flags
  BY <1>1, TypesAre
<1>3. /\ pc[t] \notin {"lockfile", "closefile"} => Contains(ostream, fp[t])
      /\ Contains(ostream, fp[t]) \/ Contains(cstream, fp[t])
  BY <1>1, Its DEF Listed
<1>4. ASSUME pc[t] \notin {"mark", "setflags"}, "RW" \notin flag[fp[t]] PROVE FALSE
  <2>1. PICK u \in Threads : fp[t] \in Marking(u)
    BY <1>1, <1>3, <1>4 DEF Core, Marked
  <2>2. u # t
    BY <1>4, <2>1 DEF Marking
  <2>3. fp[t] \in Has(u) /\ fp[t] \in Has(t)
    BY <1>1, <2>1 DEF Marking, Has
  <2> QED
    BY <2>2, <2>3 DEF Core, Owned
<1> QED
  BY <1>1, <1>2, <1>3, <1>4

LEMMA Unflagged ==
    ASSUME TypeOK, NEW s \in Streams
    PROVE  flag = [flag EXCEPT ![s] = flag[s]]
BY TypesAre

LEMMA MarkTame ==
    ASSUME TypeOK, Core, Locking, NEW t \in Threads, program' = program, Mark(t)
    PROVE  Tame(t)
<1>1. pc[t] = "mark" /\ held' = held /\ OwnStep(t, "setflags", flag[fp[t]] \ {"RW"})
  BY DEF Mark, At, Goto, SetFlag, lists, locals, OwnStep
<1>2. pc'[t] = "setflags" /\ OthersStay(t) /\ UNCHANGED <<program, op, fp, hdl>>
  BY <1>1, OwnStays DEF OwnStep
<1>3. op[t] \in {"fopen", "freopen"} /\ fp[t] # None
  BY <1>1, Its DEF Placed
<1>4. Contains(ostream, fp[t]) /\ flag[fp[t]] \in Flags
  BY <1>1, <1>3, OnIt DEF Elsewhere
<1>5. ~Ready(t) /\ ~Ready(t)'
  BY <1>1, <1>2 DEF Ready
<1>6. Placed(t)'
  BY <1>1, <1>2, <1>3, Its DEF Placed
<1>7. Locking' /\ held' \in [Threads -> Holding]
  BY <1>1, <1>2, LockingStays DEF HasIOB, HasFile
<1>8. flag[fp[t]] \ {"RW"} \in Flags
  BY <1>4 DEF Flags
<1>9. TypeOK' /\ Quiet(t)
  BY <1>1, <1>2, <1>3, <1>4, <1>5, <1>6, <1>7, <1>8, OwnStepQuiet DEF Labels, Elsewhere
<1> QED
  BY <1>7, <1>9 DEF Tame

LEMMA SetFlagsTame ==
    ASSUME TypeOK, Core, Locking, NEW t \in Threads, program' = program, SetFlags(t)
    PROVE  Tame(t)
<1>1. pc[t] = "setflags" /\ held' = held /\ OwnStep(t, "sopen", flag[fp[t]] \cup {"RW"})
  BY DEF SetFlags, At, Goto, SetFlag, lists, locals, OwnStep
<1>2. pc'[t] = "sopen" /\ OthersStay(t) /\ UNCHANGED <<program, op, fp, hdl>>
  BY <1>1, OwnStays DEF OwnStep
<1>3. op[t] \in {"fopen", "freopen"} /\ fp[t] # None
  BY <1>1, Its DEF Placed
<1>4. Contains(ostream, fp[t]) /\ flag[fp[t]] \in Flags
  BY <1>1, <1>3, OnIt DEF Elsewhere
<1>5. ~Ready(t) /\ ~Ready(t)'
  BY <1>1, <1>2 DEF Ready
<1>6. Placed(t)'
  BY <1>1, <1>2, <1>3, Its DEF Placed
<1>7. Locking' /\ held' \in [Threads -> Holding]
  BY <1>1, <1>2, LockingStays DEF HasIOB, HasFile
<1>8. flag[fp[t]] \cup {"RW"} \in Flags
  BY <1>4 DEF Flags
<1>9. TypeOK' /\ Quiet(t)
  BY <1>1, <1>2, <1>3, <1>4, <1>5, <1>6, <1>7, <1>8, OwnStepQuiet DEF Labels, Elsewhere
<1> QED
  BY <1>7, <1>9 DEF Tame

LEMMA LookupTame ==
    ASSUME TypeOK, Core, Locking, NEW t \in Threads, program' = program, Lookup(t)
    PROVE  Tame(t)
<1>1. pc[t] = "lookup"
  BY DEF Lookup, At
<1>2. op[t] = "fclose" /\ fp[t] # None
  BY <1>1, Its DEF Placed
<1>3. Contains(ostream, fp[t]) /\ flag[fp[t]] \in Flags /\ "RW" \in flag[fp[t]] /\ fp[t] \in Streams
  BY <1>1, <1>2, OnIt DEF Elsewhere
<1>4. held' = held /\ OwnStep(t, "doclose", flag[fp[t]])
  BY <1>3, Unflagged DEF Lookup, At, Goto, lists, files, locals, OwnStep
<1>5. pc'[t] = "doclose" /\ OthersStay(t) /\ UNCHANGED <<program, op, fp, hdl>>
  BY <1>4, OwnStays DEF OwnStep
<1>6. Ready(t) /\ Ready(t)'
  BY <1>1, <1>5 DEF Ready
<1>7. Placed(t)'
  BY <1>1, <1>2, <1>5, Its DEF Placed
<1>8. Locking' /\ held' \in [Threads -> Holding]
  BY <1>1, <1>2, <1>4, <1>5, LockingStays DEF HasIOB, HasFile
<1>9. TypeOK' /\ Quiet(t)
  BY <1>1, <1>2, <1>3, <1>4, <1>5, <1>6, <1>7, <1>8, OwnStepQuiet DEF Labels, Elsewhere
<1> QED
  BY <1>8, <1>9 DEF Tame

LEMMA DoCloseTame ==
    ASSUME TypeOK, Core, Locking, NEW t \in Threads, program' = program, DoClose(t)
    PROVE  Tame(t)
<1>1. pc[t] = "doclose"
  BY DEF DoClose, At
<1>2. op[t] \in {"fclose", "fcloseall", "freopen"} /\ fp[t] # None
  BY <1>1, Its DEF Placed
<1>3. Contains(ostream, fp[t]) /\ flag[fp[t]] \in Flags /\ "RW" \in flag[fp[t]] /\ fp[t] \in Streams
  BY <1>1, <1>2, OnIt DEF Elsewhere
<1> DEFINE to == IF "DIRTY" \in flag[fp[t]] THEN "flush" ELSE "close"
<1>4. held' = held /\ OwnStep(t, to, flag[fp[t]])
  <2>1. pc' = [pc EXCEPT ![t] = to]
    BY <1>3 DEF DoClose, Goto, Dirty
  <2> QED
    BY <1>3, <2>1, Unflagged DEF DoClose, lists, files, locals, OwnStep
<1>5. pc'[t] = to /\ OthersStay(t) /\ UNCHANGED <<program, op, fp, hdl>>
  BY <1>4, OwnStays DEF OwnStep
<1>6. Ready(t) /\ Ready(t)'
  BY <1>1, <1>5 DEF Ready
<1>7. Placed(t)'
  BY <1>1, <1>2, <1>5, Its DEF Placed
<1>8. Locking' /\ held' \in [Threads -> Holding]
  BY <1>1, <1>2, <1>4, <1>5, LockingStays DEF HasIOB, HasFile
<1>9. TypeOK' /\ Quiet(t)
  BY <1>1, <1>2, <1>3, <1>4, <1>5, <1>6, <1>7, <1>8, OwnStepQuiet DEF Labels, Elsewhere
<1> QED
  BY <1>8, <1>9 DEF Tame

LEMMA FlushTame ==
    ASSUME TypeOK, Core, Locking, NEW t \in Threads, program' = program, Flush(t), op[t] # "flushall"
    PROVE  Tame(t)
<1>1. pc[t] = "flush"
  BY DEF Flush, At
<1>2. op[t] \in {"fclose", "fcloseall", "freopen"} /\ fp[t] # None
  BY <1>1, Its DEF Placed
<1>3. Contains(ostream, fp[t]) /\ flag[fp[t]] \in Flags /\ "RW" \in flag[fp[t]] /\ fp[t] \in Streams
  BY <1>1, <1>2, OnIt DEF Elsewhere
<1>4. held' = held /\ OwnStep(t, "close", flag[fp[t]] \ {"DIRTY"})
  BY DEF Flush, Goto, SetFlag, lists, OwnStep
<1>5. pc'[t] = "close" /\ OthersStay(t) /\ UNCHANGED <<program, op, fp, hdl>>
  BY <1>4, OwnStays DEF OwnStep
<1>6. Ready(t) /\ Ready(t)'
  BY <1>1, <1>5 DEF Ready
<1>7. Placed(t)'
  BY <1>1, <1>2, <1>5, Its DEF Placed
<1>8. Locking' /\ held' \in [Threads -> Holding]
  BY <1>1, <1>2, <1>4, <1>5, LockingStays DEF HasIOB, HasFile
<1>9. flag[fp[t]] \ {"DIRTY"} \in Flags
  BY <1>3 DEF Flags
<1>10. TypeOK' /\ Quiet(t)
  BY <1>1, <1>2, <1>3, <1>4, <1>5, <1>6, <1>7, <1>8, <1>9, OwnStepQuiet DEF Labels, Elsewhere
<1> QED
  BY <1>8, <1>10 DEF Tame

LEMMA LockFileTame ==
    ASSUME TypeOK, Core, Locking, NEW t \in Threads, program' = program, LockFile(t)
    PROVE  Tame(t)
<1>1. pc[t] = "lockfile" /\ Locks!Lock(t, hdl[t])
  BY DEF LockFile, At
<1>2. op[t] = "freopen" /\ fp[t] # None
  BY <1>1, Its DEF Placed
<1>3. flag[fp[t]] \in Flags /\ "RW" \in flag[fp[t]] /\ fp[t] \in Streams
  BY <1>1, <1>2, OnIt DEF Elsewhere
<1>4. OwnStep(t, "closefile", flag[fp[t]])
  BY <1>3, Unflagged DEF LockFile, Goto, lists, files, locals, OwnStep
<1>5. pc'[t] = "closefile" /\ OthersStay(t) /\ UNCHANGED <<program, op, fp, hdl, ostream>>
  BY <1>4, OwnStays DEF OwnStep
<1>6. Ready(t)' <=> Ready(t)
  BY <1>1, <1>5 DEF Ready
<1>7. Placed(t)'
  BY <1>1, <1>2, <1>5, Its DEF Placed
<1>8. hdl[t] \in Objects /\ hdl[t] # IOB
  BY Its, HandlesAre
<1>9. Locking' /\ held' \in [Threads -> Holding]
  <2>1. ~HasIOB(t) /\ ~HasIOB(t)' /\ ~HasFile(t) /\ HasFile(t)'
    BY <1>1, <1>2, <1>5 DEF HasIOB, HasFile
  <2>2. /\ Held(t, hdl[t]) = 0 /\ Held(t, hdl[t])' = 1
        /\ \A x \in Objects : x # hdl[t] => Held(t, x)' = Held(t, x)
    BY <1>5, <2>1 DEF Held
  <2> QED
    BY <1>1, <1>5, <1>8, <2>2, Locked
<1>10. TypeOK' /\ Quiet(t)
  BY <1>1, <1>2, <1>3, <1>4, <1>5, <1>6, <1>7, <1>9, OwnStepQuiet DEF Labels, Elsewhere
<1> QED
  BY <1>9, <1>10 DEF Tame

\* close_file finds a stream that is open.
LEMMA CloseFileTame ==
    ASSUME TypeOK, Core, Locking, NEW t \in Threads, program' = program, CloseFile(t),
           Contains(ostream, fp[t])
    PROVE  Tame(t)
<1>1. pc[t] = "closefile" /\ Locks!Lock(t, IOB)
  BY DEF CloseFile, At
<1>2. op[t] = "freopen" /\ fp[t] # None
  BY <1>1, Its DEF Placed
<1>3. flag[fp[t]] \in Flags /\ "RW" \in flag[fp[t]] /\ fp[t] \in Streams
  BY <1>1, <1>2, OnIt DEF Elsewhere
<1>4. OwnStep(t, "doclose", flag[fp[t]])
  <2>1. pc' = [pc EXCEPT ![t] = "doclose"] /\ UNCHANGED <<ostream, cstream, fp>>
    BY <1>3 DEF CloseFile, Goto, lists
  <2> QED
    BY <1>3, <2>1, Unflagged DEF CloseFile, files, OwnStep
<1>5. pc'[t] = "doclose" /\ OthersStay(t) /\ UNCHANGED <<program, op, fp, hdl, ostream>>
  BY <1>4, OwnStays DEF OwnStep
<1>6. Ready(t)' /\ Ready(t)
  BY <1>1, <1>5 DEF Ready
<1>7. Placed(t)'
  BY <1>1, <1>2, <1>5, Its DEF Placed
<1>8. hdl[t] # IOB /\ IOB \in Objects
  BY Its, HandlesAre
<1>9. Locking' /\ held' \in [Threads -> Holding]
  <2>1. ~HasIOB(t) /\ HasIOB(t)' /\ HasFile(t) /\ HasFile(t)'
    BY <1>1, <1>2, <1>5 DEF HasIOB, HasFile
  <2>2. /\ Held(t, IOB) = 0 /\ Held(t, IOB)' = 1
        /\ \A x \in Objects : x # IOB => Held(t, x)' = Held(t, x)
    BY <1>5, <1>8, <2>1 DEF Held
  <2> QED
    BY <1>1, <1>5, <1>8, <2>2, Locked
<1>10. TypeOK' /\ Quiet(t)
  BY <1>1, <1>2, <1>3, <1>4, <1>5, <1>6, <1>7, <1>9, OwnStepQuiet DEF Labels, Elsewhere
<1> QED
  BY <1>9, <1>10 DEF Tame

LEMMA UnlockIOBTame ==
    ASSUME TypeOK, Core, Locking, NEW t \in Threads, program' = program, UnlockIOB(t)
    PROVE  Tame(t)
<1>1. pc[t] = "unlockiob" /\ Locks!Unlock(t, IOB)
  BY DEF UnlockIOB, At
<1>2. op[t] = "freopen" /\ fp[t] # None
  BY <1>1, Its DEF Placed
<1>3. Contains(ostream, fp[t]) /\ flag[fp[t]] \in Flags /\ "RW" \in flag[fp[t]] /\ fp[t] \in Streams
  BY <1>1, <1>2, OnIt DEF Elsewhere
<1>4. OwnStep(t, "resetflags", flag[fp[t]])
  BY <1>2, <1>3, Unflagged DEF UnlockIOB, Goto, lists, files, locals, OwnStep
<1>5. pc'[t] = "resetflags" /\ OthersStay(t) /\ UNCHANGED <<program, op, fp, hdl, ostream>>
  BY <1>4, OwnStays DEF OwnStep
<1>6. ~Ready(t)' /\ ~Ready(t)
  BY <1>1, <1>5 DEF Ready
<1>7. Placed(t)'
  BY <1>1, <1>2, <1>5, Its DEF Placed
<1>8. hdl[t] # IOB /\ IOB \in Objects
  BY Its, HandlesAre
<1>9. Locking' /\ held' \in [Threads -> Holding]
  <2>1. HasIOB(t) /\ ~HasIOB(t)' /\ HasFile(t) /\ HasFile(t)'
    BY <1>1, <1>2, <1>5 DEF HasIOB, HasFile
  <2>2. /\ Held(t, IOB)' = 0
        /\ \A x \in Objects : x # IOB => Held(t, x)' = Held(t, x)
    BY <1>5, <1>8, <2>1 DEF Held
  <2> QED
    BY <1>1, <1>5, <1>8, <2>2, Unlocked
<1>10. TypeOK' /\ Quiet(t)
  BY <1>1, <1>2, <1>3, <1>4, <1>5, <1>6, <1>7, <1>9, OwnStepQuiet DEF Labels, Elsewhere
<1> QED
  BY <1>9, <1>10 DEF Tame

LEMMA ResetFlagsTame ==
    ASSUME TypeOK, Core, Locking, NEW t \in Threads, program' = program, ResetFlags(t)
    PROVE  Tame(t)
<1>1. pc[t] = "resetflags" /\ held' = held /\ OwnStep(t, "mark", flag[fp[t]] \cap {"DYNAMIC"})
  BY DEF ResetFlags, At, Goto, SetFlag, lists, locals, OwnStep
<1>2. pc'[t] = "mark" /\ OthersStay(t) /\ UNCHANGED <<program, op, fp, hdl>>
  BY <1>1, OwnStays DEF OwnStep
<1>3. op[t] = "freopen" /\ fp[t] # None
  BY <1>1, Its DEF Placed
<1>4. Contains(ostream, fp[t]) /\ flag[fp[t]] \in Flags
  BY <1>1, <1>3, OnIt DEF Elsewhere
<1>5. ~Ready(t) /\ ~Ready(t)'
  BY <1>1, <1>2 DEF Ready
<1>6. Placed(t)'
  BY <1>1, <1>2, <1>3, Its DEF Placed
<1>7. Locking' /\ held' \in [Threads -> Holding]
  BY <1>1, <1>2, LockingStays DEF HasIOB, HasFile
<1>8. flag[fp[t]] \cap {"DYNAMIC"} \in Flags
  BY DEF Flags
<1>9. TypeOK' /\ Quiet(t)
  BY <1>1, <1>2, <1>3, <1>4, <1>5, <1>6, <1>7, <1>8, OwnStepQuiet DEF Labels, Elsewhere
<1> QED
  BY <1>7, <1>9 DEF Tame

-------------------------------------------------------------------------------
\* A call begins.
LEMMA Begun ==
    ASSUME TypeOK, NEW t \in Threads, NEW call \in Functions, NEW s \in Maybe, NEW label \in Labels,
           Begin(t, call, s, label)
    PROVE  /\ pc[t] = "idle" /\ call \in program.may[t]
           /\ pc'[t] = label /\ op'[t] = call /\ fp'[t] = s
           /\ \A u \in Threads \ {t} : pc'[u] = pc[u] /\ op'[u] = op[u] /\ fp'[u] = fp[u]
           /\ pc' \in [Threads -> Labels] /\ op' \in [Threads -> Kinds]
           /\ fp' \in [Threads -> Maybe] /\ calls' \in [Threads -> 0..MaxCalls]
<1>1. /\ pc[t] = "idle" /\ call \in program.may[t] /\ calls[t] < MaxCalls
      /\ calls' = [calls EXCEPT ![t] = @ + 1]
      /\ op' = [op EXCEPT ![t] = call] /\ fp' = [fp EXCEPT ![t] = s] /\ pc' = [pc EXCEPT ![t] = label]
  BY DEF Begin, At, Goto
<1>2. call \in Kinds
  BY DEF Kinds
<1>3. calls' \in [Threads -> 0..MaxCalls]
  <2>1. calls[t] + 1 \in 0..MaxCalls
    BY <1>1, TypesAre, StreamsAssumption
  <2> QED
    BY <1>1, <2>1, TypesAre
<1> QED
  BY <1>1, <1>2, <1>3, TypesAre

LEMMA Idle ==
    ASSUME NEW t, pc[t] = "idle"
    PROVE  /\ Work(t) = {} /\ Rest(t) = {} /\ Has(t) = mine[t] /\ Open(t) = mine[t]
           /\ Marking(t) = {} /\ Closing(t) = {} /\ ~HasIOB(t) /\ ~HasFile(t)
BY DEF Work, Rest, Walks, Has, Open, Marking, Closing, HasIOB, HasFile

LEMMA IdleThen ==
    ASSUME NEW t, pc'[t] = "idle"
    PROVE  /\ Work(t)' = {} /\ Rest(t)' = {} /\ Has(t)' = mine'[t] /\ Open(t)' = mine'[t]
           /\ Marking(t)' = {} /\ Closing(t)' = {} /\ ~HasIOB(t)' /\ ~HasFile(t)' /\ Placed(t)'
BY DEF Work, Rest, Walks, Has, Open, Marking, Closing, HasIOB, HasFile, Placed

LEMMA FOpenTame ==
    ASSUME TypeOK, Core, Locking, NEW t \in Threads, program' = program, FOpen(t)
    PROVE  Tame(t)
<1>1. /\ Begin(t, "fopen", None, "alloc")
      /\ UNCHANGED <<program, ostream, cstream, flag, handle, opened, held, hdl, next, mine>>
  BY DEF FOpen, lists, files
<1>2. "fopen" \in Functions /\ None \in Maybe /\ "alloc" \in Labels
  BY DEF Functions, Maybe, Labels
<1>3. /\ pc[t] = "idle" /\ "fopen" \in program.may[t]
      /\ pc'[t] = "alloc" /\ op'[t] = "fopen" /\ fp'[t] = None
      /\ \A u \in Threads \ {t} : pc'[u] = pc[u] /\ op'[u] = op[u] /\ fp'[u] = fp[u]
      /\ pc' \in [Threads -> Labels] /\ op' \in [Threads -> Kinds]
      /\ fp' \in [Threads -> Maybe] /\ calls' \in [Threads -> 0..MaxCalls]
  BY <1>1, <1>2, Begun
<1>4. OthersStay(t)
  BY <1>1, <1>3 DEF OthersStay
<1>5. Placed(t)' /\ Passing(t)'
  BY <1>1, <1>3, Its, StillPassing DEF Placed
<1>6. /\ Work(t) = {} /\ Rest(t) = {} /\ Work(t)' = {} /\ Rest(t)' = {}
      /\ Marking(t) = {} /\ Closing(t)' = {}
  BY <1>3, Idle DEF Work, Rest, Walks, Closing
<1>7. Quiet(t)
  BY <1>1, <1>3, <1>4, <1>5, <1>6, SameIsQuiet
<1>8. Locking' /\ held' \in [Threads -> Holding]
  BY <1>1, <1>3, <1>4, LockingStays DEF HasIOB, HasFile
<1>9. TypeOK'
  BY <1>1, <1>3, <1>8, TypesAre, TypesAfter
<1> QED
  BY <1>7, <1>8, <1>9 DEF Tame

LEMMA NoMemTame ==
    ASSUME TypeOK, Core, Locking, NEW t \in Threads, program' = program, NoMem(t)
    PROVE  Tame(t)
<1>1. /\ pc[t] = "alloc" /\ pc' = [pc EXCEPT ![t] = "idle"]
      /\ mine' = [mine EXCEPT ![t] = @ \cup ({None} \ {None})]
      /\ UNCHANGED <<program, ostream, cstream, flag, handle, opened, held, op, fp, hdl, next, calls>>
  BY DEF NoMem, At, Finish, Goto, lists, files, locals
<1>2. mine' = mine
  BY <1>1, TypesAre
<1>3. pc'[t] = "idle" /\ OthersStay(t)
  BY <1>1, <1>2, TypesAre DEF OthersStay
<1>4. op[t] = "fopen"
  BY <1>1, Its DEF Placed
<1>5. Placed(t)' /\ Passing(t)'
  BY <1>1, <1>3, Its, StillPassing, IdleThen
<1>6. /\ Work(t) = {} /\ Rest(t) = {} /\ Work(t)' = {} /\ Rest(t)' = {}
      /\ Marking(t) = {} /\ Closing(t)' = {}
  BY <1>1, <1>3, <1>4, IdleThen DEF Work, Rest, Walks, Marking
<1>7. Quiet(t)
  BY <1>1, <1>2, <1>3, <1>5, <1>6, SameIsQuiet
<1>8. Locking' /\ held' \in [Threads -> Holding]
  BY <1>1, <1>3, <1>4, LockingStays DEF HasIOB, HasFile
<1>9. TypeOK'
  <2>1. pc' \in [Threads -> Labels]
    BY <1>1, TypesAre DEF Labels
  <2> QED
    BY <1>1, <1>2, <1>8, <2>1, TypesAre, TypesAfter
<1> QED
  BY <1>7, <1>8, <1>9 DEF Tame

\* A call takes a stream over from its caller.
LEMMA Taking ==
    ASSUME TypeOK, Core, NEW t \in Threads, NEW s \in mine[t],
           pc[t] = "idle", mine' = [mine EXCEPT ![t] = @ \ {s}]
    PROVE  /\ s \in Streams /\ s # None /\ Contains(ostream, s)
           /\ mine'[t] = mine[t] \ {s} /\ mine' \in [Threads -> SUBSET Streams]
           /\ \A u \in Threads \ {t} : mine'[u] = mine[u]
           /\ \A r \in mine'[t] : Contains(ostream, r)
<1>1. s \in Streams /\ s # None /\ Contains(ostream, s) /\ \A r \in mine[t] : Contains(ostream, r)
  BY Its, HandlesAre DEF Listed
<1>2. mine[t] \ {s} \in SUBSET Streams
  BY Its
<1> QED
  BY <1>1, <1>2, TypesAre

LEMMA FCloseTame ==
    ASSUME TypeOK, Core, Locking, NEW t \in Threads, program' = program,
           NEW s \in Streams, FClose(t, s)
    PROVE  Tame(t)
<1>1. /\ s \in mine[t] /\ Begin(t, "fclose", s, "lookup")
      /\ mine' = [mine EXCEPT ![t] = @ \ {s}]
      /\ UNCHANGED <<program, ostream, cstream, flag, handle, opened, held, hdl, next>>
  BY DEF FClose, lists, files
<1>2. "fclose" \in Functions /\ s \in Maybe /\ "lookup" \in Labels
  BY DEF Functions, Maybe, Labels
<1>3. /\ pc[t] = "idle" /\ "fclose" \in program.may[t]
      /\ pc'[t] = "lookup" /\ op'[t] = "fclose" /\ fp'[t] = s
      /\ \A u \in Threads \ {t} : pc'[u] = pc[u] /\ op'[u] = op[u] /\ fp'[u] = fp[u]
      /\ pc' \in [Threads -> Labels] /\ op' \in [Threads -> Kinds]
      /\ fp' \in [Threads -> Maybe] /\ calls' \in [Threads -> 0..MaxCalls]
  BY <1>1, <1>2, Begun
<1>4. /\ s # None /\ Contains(ostream, s)
      /\ mine'[t] = mine[t] \ {s} /\ mine' \in [Threads -> SUBSET Streams]
      /\ \A u \in Threads \ {t} : mine'[u] = mine[u]
      /\ \A r \in mine'[t] : Contains(ostream, r)
  BY <1>1, <1>3, Taking
<1>5. OthersStay(t)
  BY <1>1, <1>3, <1>4 DEF OthersStay
<1>6. Placed(t)' /\ Passing(t)'
  BY <1>1, <1>3, <1>4, Its, StillPassing DEF Placed
<1>7. /\ Has(t) = mine[t] /\ Open(t) = mine[t] /\ Marking(t) = {}
      /\ Work(t)' = {s} /\ Rest(t)' = {} /\ Ready(t)' /\ Closing(t)' = {}
  BY <1>3, <1>4, Idle DEF Work, Rest, Walks, Ready, Closing
<1>8. Has(t)' = Has(t) /\ Open(t)' = Open(t) /\ Parted(t)' /\ Listed(t)'
  BY <1>1, <1>4, <1>7 DEF Has, Open, Parted, Listed
<1>9. Quiet(t)
  BY <1>1, <1>3, <1>5, <1>6, <1>7, <1>8 DEF Quiet
<1>10. Locking' /\ held' \in [Threads -> Holding]
  BY <1>1, <1>3, <1>5, LockingStays DEF HasIOB, HasFile
<1>11. TypeOK'
  BY <1>1, <1>3, <1>4, <1>10, TypesAre, TypesAfter
<1> QED
  BY <1>9, <1>10, <1>11 DEF Tame

\* freopen of a stream that the thread has.
LEMMA FReopenTame ==
    ASSUME TypeOK, Core, Locking, NEW t \in Threads, program' = program,
           NEW s \in mine[t], FReopen(t, s)
    PROVE  Tame(t)
<1>1. /\ Begin(t, "freopen", s, "lockfile")
      /\ mine' = [mine EXCEPT ![t] = @ \ {s}] /\ hdl' = [hdl EXCEPT ![t] = handle[s]]
      /\ UNCHANGED <<program, ostream, cstream, flag, handle, opened, held, next>>
  BY DEF FReopen, lists, files
<1>2. "freopen" \in Functions /\ s \in Maybe /\ "lockfile" \in Labels /\ s \in Streams
  BY Its DEF Functions, Maybe, Labels
<1>3. /\ pc[t] = "idle" /\ "freopen" \in program.may[t]
      /\ pc'[t] = "lockfile" /\ op'[t] = "freopen" /\ fp'[t] = s
      /\ \A u \in Threads \ {t} : pc'[u] = pc[u] /\ op'[u] = op[u] /\ fp'[u] = fp[u]
      /\ pc' \in [Threads -> Labels] /\ op' \in [Threads -> Kinds]
      /\ fp' \in [Threads -> Maybe] /\ calls' \in [Threads -> 0..MaxCalls]
  BY <1>1, <1>2, Begun
<1>4. /\ s # None /\ Contains(ostream, s)
      /\ mine'[t] = mine[t] \ {s} /\ mine' \in [Threads -> SUBSET Streams]
      /\ \A u \in Threads \ {t} : mine'[u] = mine[u]
      /\ \A r \in mine'[t] : Contains(ostream, r)
  BY <1>1, <1>3, Taking
<1>5. OthersStay(t) /\ hdl' \in [Threads -> Values]
  BY <1>1, <1>2, <1>3, <1>4, TypesAre DEF OthersStay
<1>6. Placed(t)' /\ Passing(t)'
  BY <1>1, <1>3, <1>4, Its, StillPassing DEF Placed
<1>7. /\ Has(t) = mine[t] /\ Open(t) = mine[t] /\ Marking(t) = {}
      /\ Work(t)' = {s} /\ Rest(t)' = {} /\ Ready(t)' /\ Closing(t)' = {}
  BY <1>1, <1>3, <1>4, Idle DEF Work, Rest, Walks, Ready, Closing
<1>8. Has(t)' = Has(t) /\ Open(t)' = Open(t) /\ Parted(t)' /\ Listed(t)'
  BY <1>1, <1>4, <1>7 DEF Has, Open, Parted, Listed
<1>9. Quiet(t)
  BY <1>1, <1>3, <1>5, <1>6, <1>7, <1>8 DEF Quiet
<1>10. Locking' /\ held' \in [Threads -> Holding]
  BY <1>1, <1>3, <1>5, LockingStays DEF HasIOB, HasFile
<1>11. TypeOK'
  BY <1>1, <1>3, <1>4, <1>5, <1>10, TypesAre, TypesAfter
<1> QED
  BY <1>9, <1>10, <1>11 DEF Tame

LEMMA UnlockFileTame ==
    ASSUME TypeOK, Core, Locking, NEW t \in Threads, program' = program, UnlockFile(t)
    PROVE  Tame(t)
<1>1. /\ pc[t] = "unlock" /\ pc' = [pc EXCEPT ![t] = "idle"] /\ Locks!Unlock(t, hdl[t])
      /\ mine' = [mine EXCEPT ![t] = @ \cup ({fp[t]} \ {None})]
      /\ UNCHANGED <<program, ostream, cstream, flag, handle, opened, op, fp, hdl, next, calls>>
  BY DEF UnlockFile, At, Finish, Goto, lists, files, locals
<1>2. op[t] = "freopen"
  BY <1>1, Its DEF Placed
<1>3. Work(t) = {fp[t]} \ {None} /\ Rest(t) = {} /\ Ready(t) /\ Marking(t) = {}
  BY <1>1, <1>2 DEF Work, Rest, Walks, Ready, Marking
<1>4. /\ mine'[t] = mine[t] \cup Work(t) /\ mine' \in [Threads -> SUBSET Streams]
      /\ pc'[t] = "idle" /\ pc' \in [Threads -> Labels]
  <2>1. mine[t] \cup Work(t) \in SUBSET Streams
    BY Its
  <2> QED
    BY <1>1, <1>3, <2>1, TypesAre DEF Labels
<1>5. OthersStay(t)
  BY <1>1, TypesAre DEF OthersStay
<1>6. Placed(t)' /\ Passing(t)'
  BY <1>1, <1>4, Its, StillPassing, IdleThen
<1>7. Has(t)' = Has(t) /\ Open(t)' = Open(t) /\ Closing(t)' = {}
  BY <1>3, <1>4, IdleThen DEF Has, Open
<1>8. Parted(t)' /\ Listed(t)'
  BY <1>1, <1>3, <1>4, Its, IdleThen DEF Parted, Listed
<1>9. Quiet(t)
  BY <1>1, <1>3, <1>5, <1>6, <1>7, <1>8 DEF Quiet
<1>10. hdl[t] \in Objects /\ hdl[t] # IOB
  BY Its, HandlesAre
<1>11. Locking' /\ held' \in [Threads -> Holding]
  <2>1. ~HasIOB(t) /\ ~HasIOB(t)' /\ HasFile(t) /\ ~HasFile(t)'
    BY <1>1, <1>2, <1>4, IdleThen DEF HasIOB, HasFile
  <2>2. /\ Held(t, hdl[t])' = 0
        /\ \A x \in Objects : x # hdl[t] => Held(t, x)' = Held(t, x)
    BY <2>1 DEF Held
  <2> QED
    BY <1>1, <1>5, <1>10, <2>2, Unlocked
<1>12. TypeOK'
  BY <1>1, <1>4, <1>11, TypesAre, TypesAfter
<1> QED
  BY <1>9, <1>11, <1>12 DEF Tame

LEMMA FPutcTame ==
    ASSUME TypeOK, Core, Locking, NEW t \in Threads, program' = program,
           NEW s \in Streams, FPutc(t, s)
    PROVE  Tame(t)
<1>1. /\ s \in mine[t] /\ Begin(t, "fputc", s, "idle")
      /\ flag' = flag \/ flag' = [flag EXCEPT ![s] = flag[s] \cup {"DIRTY"}]
      /\ UNCHANGED <<program, ostream, cstream, handle, opened, held, hdl, next, mine>>
  BY DEF FPutc, SetFlag, lists
<1>2. "fputc" \in Functions /\ s \in Maybe /\ "idle" \in Labels
  BY DEF Functions, Maybe, Labels
<1>3. /\ pc[t] = "idle" /\ pc'[t] = "idle" /\ op'[t] = "fputc"
      /\ \A u \in Threads \ {t} : pc'[u] = pc[u] /\ op'[u] = op[u] /\ fp'[u] = fp[u]
      /\ pc' \in [Threads -> Labels] /\ op' \in [Threads -> Kinds]
      /\ fp' \in [Threads -> Maybe] /\ calls' \in [Threads -> 0..MaxCalls]
  BY <1>1, <1>2, Begun
<1>4. OthersStay(t)
  BY <1>1, <1>3 DEF OthersStay
<1>5. flag[s] \cup {"DIRTY"} \in Flags
  BY TypesAre DEF Flags
<1>6. /\ flag' \in [Streams -> Flags]
      /\ \A r \in Streams : /\ "RW" \in flag[r] => "RW" \in flag'[r]
                            /\ "DIRTY" \in flag'[r] => "DIRTY" \in flag[r] \/ r \in mine[t]
  BY <1>1, <1>5, TypesAre
<1>7. /\ Work(t) = {} /\ Rest(t) = {} /\ Work(t)' = {} /\ Rest(t)' = {} /\ Placed(t)'
      /\ Marking(t) = {} /\ Closing(t)' = {}
  BY <1>3, Idle, IdleThen
<1>8. Passing(t)'
  BY <1>1, <1>3, Its, StillPassing
<1>9. Quiet(t)
  BY <1>1, <1>3, <1>4, <1>6, <1>7, <1>8, SameIsQuiet
<1>10. Locking' /\ held' \in [Threads -> Holding]
  BY <1>1, <1>3, <1>4, LockingStays, Idle, IdleThen
<1>11. TypeOK'
  BY <1>1, <1>3, <1>6, <1>10, TypesAre, TypesAfter
<1> QED
  BY <1>9, <1>10, <1>11 DEF Tame

-------------------------------------------------------------------------------
LEMMA FlushAllTame ==
    ASSUME TypeOK, Core, Locking, NEW t \in Threads, program' = program, FlushAll(t)
    PROVE  Tame(t)
<1>1. /\ Begin(t, "flushall", None, "lockiob")
      /\ UNCHANGED <<program, ostream, cstream, flag, handle, opened, held, hdl, next, mine>>
  BY DEF FlushAll, lists, files
<1>2. "flushall" \in Functions /\ None \in Maybe /\ "lockiob" \in Labels
  BY DEF Functions, Maybe, Labels
<1>3. /\ pc[t] = "idle" /\ "flushall" \in program.may[t]
      /\ pc'[t] = "lockiob" /\ op'[t] = "flushall" /\ fp'[t] = None
      /\ \A u \in Threads \ {t} : pc'[u] = pc[u] /\ op'[u] = op[u] /\ fp'[u] = fp[u]
      /\ pc' \in [Threads -> Labels] /\ op' \in [Threads -> Kinds]
      /\ fp' \in [Threads -> Maybe] /\ calls' \in [Threads -> 0..MaxCalls]
  BY <1>1, <1>2, Begun
<1>4. OthersStay(t)
  BY <1>1, <1>3 DEF OthersStay
<1>5. Placed(t)' /\ Passing(t)'
  BY <1>1, <1>3, Its, StillPassing DEF Placed
<1>6. /\ Work(t) = {} /\ Rest(t) = {} /\ Work(t)' = {} /\ Rest(t)' = {}
      /\ Marking(t) = {} /\ Closing(t)' = {}
  BY <1>3, Idle DEF Work, Rest, Walks, Closing
<1>7. Quiet(t)
  BY <1>1, <1>3, <1>4, <1>5, <1>6, SameIsQuiet
<1>8. Locking' /\ held' \in [Threads -> Holding]
  BY <1>1, <1>3, <1>4, LockingStays DEF HasIOB, HasFile
<1>9. TypeOK'
  BY <1>1, <1>3, <1>8, TypesAre, TypesAfter
<1> QED
  BY <1>7, <1>8, <1>9 DEF Tame

\* A statement of flushall, which has no stream of its own.
LEMMA FlushingHas ==
    ASSUME NEW t, op[t] = "flushall", op'[t] = "flushall"
    PROVE  /\ Work(t) = {} /\ Rest(t) = {} /\ Marking(t) = {} /\ Closing(t) = {} /\ ~HasFile(t)
           /\ Work(t)' = {} /\ Rest(t)' = {} /\ Marking(t)' = {} /\ Closing(t)' = {} /\ ~HasFile(t)'
BY DEF Work, Rest, Walks, Marking, Closing, HasFile

LEMMA LockIOBTame ==
    ASSUME TypeOK, Core, Locking, NEW t \in Threads, program' = program, LockIOB(t)
    PROVE  Tame(t)
<1>1. /\ pc[t] = "lockiob" /\ pc' = [pc EXCEPT ![t] = "visit"] /\ Locks!Lock(t, IOB)
      /\ fp' = [fp EXCEPT ![t] = First(ostream)]
      /\ UNCHANGED <<program, ostream, cstream, flag, handle, opened, op, hdl, next, mine, calls>>
  BY DEF LockIOB, At, Goto, lists, files
<1>2. op[t] = "flushall" /\ op'[t] = "flushall"
  BY <1>1, Its DEF Placed
<1>3. /\ First(ostream) \in Maybe /\ (First(ostream) = None \/ Contains(ostream, First(ostream)))
      /\ From(First(ostream)) = {r \in Streams : Contains(ostream, r)}
  BY FirstIs, Its DEF Maybe, From
<1>4. /\ pc'[t] = "visit" /\ fp'[t] = First(ostream)
      /\ pc' \in [Threads -> Labels] /\ fp' \in [Threads -> Maybe] /\ OthersStay(t)
  BY <1>1, <1>3, TypesAre DEF Labels, OthersStay
<1>5. Placed(t)'
  BY <1>1, <1>2, <1>4, Its DEF Placed
<1>6. Passing(t)'
  <2>1. \A s \in mine[t] : s \in From(First(ostream))
    BY <1>3, Its DEF Listed
  <2>2. ~Walks(t)' /\ From(fp[t])' = From(First(ostream))
    BY <1>1, <1>2, <1>4 DEF Walks, From
  <2> QED
    BY <1>1, <1>3, <1>4, <2>1, <2>2 DEF Passing
<1>7. Quiet(t)
  BY <1>1, <1>2, <1>4, <1>5, <1>6, FlushingHas, SameIsQuiet
<1>8. Locking' /\ held' \in [Threads -> Holding]
  <2>1. ~HasIOB(t) /\ HasIOB(t)' /\ ~HasFile(t) /\ ~HasFile(t)'
    BY <1>1, <1>2, <1>4, FlushingHas DEF HasIOB
  <2>2. /\ Held(t, IOB) = 0 /\ Held(t, IOB)' = 1
        /\ \A x \in Objects : x # IOB => Held(t, x)' = Held(t, x)
    BY <2>1 DEF Held
  <2> QED
    BY <1>1, <1>4, <2>2, HandlesAre, Locked
<1>9. TypeOK'
  BY <1>1, <1>4, <1>8, TypesAre, TypesAfter
<1> QED
  BY <1>7, <1>8, <1>9 DEF Tame

\* The stream that flushall is at, and the one it comes to.
LEMMA VisitedOne ==
    ASSUME TypeOK, Core, NEW t \in Threads, Visits(t), fp[t] # None
    PROVE  /\ Contains(ostream, fp[t]) /\ fp[t] \in Streams /\ After(fp[t]) \in Maybe
           /\ After(fp[t]) = None \/ Contains(ostream, After(fp[t]))
           /\ From(fp[t]) = {fp[t]} \cup From(After(fp[t])) /\ fp[t] \notin From(After(fp[t]))
           /\ \A s \in mine[t] : "DIRTY" \in flag[s] => s \in From(fp[t])
<1>1. Contains(ostream, fp[t]) /\ \A s \in mine[t] : "DIRTY" \in flag[s] => s \in From(fp[t])
  BY Its DEF Passing
<1>2. Distinct(ostream) /\ ostream \in Seq(Streams)
  BY TypesAre DEF Core, Lists
<1> QED
  BY <1>1, <1>2, AfterIs DEF Maybe

LEMMA VisitTame ==
    ASSUME TypeOK, Core, Locking, NEW t \in Threads, program' = program, Visit(t)
    PROVE  Tame(t)
<1> DEFINE dirty == "DIRTY" \in flag[fp[t]]
           to == IF dirty THEN "flush" ELSE "visit"
           nxt == IF dirty THEN fp[t] ELSE After(fp[t])
<1>1. pc[t] = "visit" /\ fp[t] # None
  BY DEF Visit, At
<1>2. op[t] = "flushall" /\ Visits(t)
  BY <1>1, Its DEF Placed, Visits
<1>3. /\ Contains(ostream, fp[t]) /\ fp[t] \in Streams /\ After(fp[t]) \in Maybe
      /\ After(fp[t]) = None \/ Contains(ostream, After(fp[t]))
      /\ From(fp[t]) = {fp[t]} \cup From(After(fp[t])) /\ fp[t] \notin From(After(fp[t]))
      /\ \A s \in mine[t] : "DIRTY" \in flag[s] => s \in From(fp[t])
  BY <1>1, <1>2, VisitedOne
<1>4. /\ pc' = [pc EXCEPT ![t] = to] /\ fp' = [fp EXCEPT ![t] = nxt]
      /\ UNCHANGED <<program, ostream, cstream, flag, handle, opened, held, op, hdl, next, mine, calls>>
  BY <1>3, TypesAre DEF Visit, Goto, Dirty, lists, files
<1>5. /\ pc'[t] = to /\ fp'[t] = nxt /\ pc' \in [Threads -> Labels] /\ fp' \in [Threads -> Maybe]
      /\ OthersStay(t)
  <2>1. nxt \in Maybe /\ to \in Labels
    BY <1>3 DEF Maybe, Labels
  <2> HIDE DEF nxt, to
  <2> QED
    BY <1>4, <2>1, TypesAre DEF OthersStay
<1>6. Placed(t)'
  BY <1>1, <1>2, <1>4, <1>5, Its DEF Placed
<1>7. Passing(t)'
  <2>1. \A s \in mine[t] : "DIRTY" \in flag[s] => s \in From(nxt)
    BY <1>3
  <2>2. nxt = None \/ Contains(ostream, nxt)
    BY <1>3
  <2>3. ~Walks(t)' /\ From(fp[t])' = From(nxt)
    BY <1>2, <1>4, <1>5 DEF Walks, From
  <2> HIDE DEF nxt
  <2> QED
    BY <1>4, <1>5, <2>1, <2>2, <2>3 DEF Passing
<1>8. Quiet(t)
  BY <1>1, <1>2, <1>4, <1>5, <1>6, <1>7, FlushingHas, SameIsQuiet
<1>9. Locking' /\ held' \in [Threads -> Holding]
  BY <1>1, <1>2, <1>4, <1>5, LockingStays DEF HasIOB, HasFile
<1>10. TypeOK'
  BY <1>4, <1>5, <1>9, TypesAre, TypesAfter
<1> QED
  BY <1>8, <1>9, <1>10 DEF Tame

\* __flushall calls __flush.
LEMMA FlushOneTame ==
    ASSUME TypeOK, Core, Locking, NEW t \in Threads, program' = program, Flush(t), op[t] = "flushall"
    PROVE  Tame(t)
<1>1. pc[t] = "flush" /\ Visits(t)
  BY DEF Flush, At, Visits
<1>2. fp[t] # None
  BY <1>1, Its DEF Placed
<1>3. /\ Contains(ostream, fp[t]) /\ fp[t] \in Streams /\ After(fp[t]) \in Maybe
      /\ After(fp[t]) = None \/ Contains(ostream, After(fp[t]))
      /\ From(fp[t]) = {fp[t]} \cup From(After(fp[t])) /\ fp[t] \notin From(After(fp[t]))
      /\ \A s \in mine[t] : "DIRTY" \in flag[s] => s \in From(fp[t])
  BY <1>1, <1>2, VisitedOne
<1>4. /\ pc' = [pc EXCEPT ![t] = "visit"] /\ fp' = [fp EXCEPT ![t] = After(fp[t])]
      /\ flag' = [flag EXCEPT ![fp[t]] = flag[fp[t]] \ {"DIRTY"}]
      /\ UNCHANGED <<program, ostream, cstream, handle, opened, held, op, hdl, next, mine, calls>>
  BY DEF Flush, Goto, SetFlag, lists
<1>5. /\ pc'[t] = "visit" /\ fp'[t] = After(fp[t])
      /\ pc' \in [Threads -> Labels] /\ fp' \in [Threads -> Maybe]
      /\ OthersStay(t)
  BY <1>3, <1>4, TypesAre DEF OthersStay, Labels
<1>6. /\ flag' \in [Streams -> Flags]
      /\ \A s \in Streams : /\ "RW" \in flag[s] => "RW" \in flag'[s]
                            /\ "DIRTY" \in flag'[s] => "DIRTY" \in flag[s] /\ s # fp[t]
  <2>1. flag[fp[t]] \ {"DIRTY"} \in Flags
    BY <1>3, TypesAre DEF Flags
  <2> QED
    BY <1>3, <1>4, <2>1, TypesAre
<1>7. Placed(t)'
  BY <1>1, <1>4, <1>5, Its DEF Placed
<1>8. Passing(t)'
  <2>1. \A s \in mine[t] : "DIRTY" \in flag'[s] => s \in From(After(fp[t]))
    BY <1>3, <1>6, Its
  <2>2. ~Walks(t)' /\ From(fp[t])' = From(After(fp[t]))
    BY <1>4, <1>5 DEF Walks, From
  <2> QED
    BY <1>3, <1>4, <1>5, <2>1, <2>2 DEF Passing
<1>9. Quiet(t)
  <2>1. /\ Work(t) = {} /\ Rest(t) = {} /\ Marking(t) = {}
        /\ Work(t)' = {} /\ Rest(t)' = {} /\ Closing(t)' = {}
    BY <1>4, FlushingHas
  <2>2. pc[t] # "close" /\ mine'[t] = mine[t] /\ UNCHANGED <<ostream, cstream, handle, opened>>
    BY <1>1, <1>4
  <2> QED
    BY <1>5, <1>6, <1>7, <1>8, <2>1, <2>2, SameIsQuiet
<1>10. Locking' /\ held' \in [Threads -> Holding]
  BY <1>1, <1>4, <1>5, LockingStays DEF HasIOB, HasFile
<1>11. TypeOK'
  BY <1>4, <1>5, <1>6, <1>10, TypesAre, TypesAfter
<1> QED
  BY <1>9, <1>10, <1>11 DEF Tame

LEMMA VisitedTame ==
    ASSUME TypeOK, Core, Locking, NEW t \in Threads, program' = program, Visited(t)
    PROVE  Tame(t)
<1>1. /\ pc[t] = "visit" /\ pc' = [pc EXCEPT ![t] = "idle"] /\ Locks!Unlock(t, IOB)
      /\ UNCHANGED <<program, ostream, cstream, flag, handle, opened, op, fp, hdl, next, mine, calls>>
  BY DEF Visited, GiveBackIOB, At, Goto, lists, files, locals
<1>2. op[t] = "flushall" /\ op'[t] = "flushall"
  BY <1>1, Its DEF Placed
<1>3. pc'[t] = "idle" /\ pc' \in [Threads -> Labels] /\ OthersStay(t)
  BY <1>1, TypesAre DEF Labels, OthersStay
<1>4. Placed(t)' /\ Passing(t)'
  BY <1>1, <1>3, Its, IdleThen, StillPassing
<1>5. Quiet(t)
  BY <1>1, <1>2, <1>3, <1>4, FlushingHas, SameIsQuiet
<1>6. Locking' /\ held' \in [Threads -> Holding]
  <2>1. HasIOB(t) /\ ~HasIOB(t)' /\ ~HasFile(t) /\ ~HasFile(t)'
    BY <1>1, <1>2, <1>3, FlushingHas DEF HasIOB
  <2>2. /\ Held(t, IOB)' = 0 /\ \A x \in Objects : x # IOB => Held(t, x)' = Held(t, x)
    <3>1. hdl[t] # IOB
      BY Its, HandlesAre
    <3> QED
      BY <2>1, <3>1 DEF Held
  <2> QED
    BY <1>1, <1>3, <2>2, HandlesAre, Unlocked
<1>7. TypeOK'
  BY <1>1, <1>3, <1>6, TypesAre, TypesAfter
<1> QED
  BY <1>5, <1>6, <1>7 DEF Tame

-------------------------------------------------------------------------------
\* When fcloseall begins, its thread has every stream.
LEMMA FCloseAllTame ==
    ASSUME TypeOK, Core, Locking, NEW t \in Threads, program' = program, FCloseAll(t)
    PROVE  Tame(t)
<1>1. /\ \A u \in Threads \ {t} : pc[u] = "idle" /\ mine[u] = {}
      /\ Begin(t, "fcloseall", First(ostream), "walk")
      /\ mine' = [mine EXCEPT ![t] = {}]
      /\ UNCHANGED <<program, ostream, cstream, flag, handle, opened, held, hdl, next>>
  BY DEF FCloseAll, At, lists, files
<1>2. /\ First(ostream) \in Maybe /\ (First(ostream) = None \/ Contains(ostream, First(ostream)))
      /\ From(First(ostream)) = {r \in Streams : Contains(ostream, r)}
  BY FirstIs, Its DEF Maybe, From
<1>3. "fcloseall" \in Functions /\ "walk" \in Labels
  BY DEF Functions, Labels
<1>4. /\ pc[t] = "idle" /\ "fcloseall" \in program.may[t]
      /\ pc'[t] = "walk" /\ op'[t] = "fcloseall" /\ fp'[t] = First(ostream)
      /\ \A u \in Threads \ {t} : pc'[u] = pc[u] /\ op'[u] = op[u] /\ fp'[u] = fp[u]
      /\ pc' \in [Threads -> Labels] /\ op' \in [Threads -> Kinds]
      /\ fp' \in [Threads -> Maybe] /\ calls' \in [Threads -> 0..MaxCalls]
  BY <1>1, <1>2, <1>3, Begun
<1>5. OthersStay(t) /\ mine'[t] = {} /\ mine' \in [Threads -> SUBSET Streams]
  BY <1>1, <1>4, TypesAre DEF OthersStay
<1>6. mine[t] = From(First(ostream))
  <2>1. \A r \in mine[t] : r \in Streams /\ Contains(ostream, r)
    BY Its DEF Listed
  <2>2. ASSUME NEW r \in Streams, Contains(ostream, r) PROVE r \in mine[t]
    <3>1. PICK u \in Threads : r \in Has(u)
      BY <2>2 DEF Core, Owned
    <3>2. Has(u) = mine[u]
      BY <1>1, <1>4, Idle
    <3> QED
      BY <1>1, <3>1, <3>2
  <2> QED
    BY <1>2, <2>1, <2>2
<1>7. /\ Has(t) = mine[t] /\ Open(t) = mine[t] /\ Marking(t) = {} /\ Closing(t)' = {}
      /\ Work(t)' = {} /\ Walks(t)' /\ Cursor(t)' = First(ostream)
  BY <1>4, Idle DEF Work, Walks, Cursor, Closing
<1>8. Rest(t)' = mine[t]
  BY <1>1, <1>6, <1>7 DEF Rest, From
<1>9. Has(t)' = Has(t) /\ Open(t)' = Open(t) /\ Parted(t)' /\ Listed(t)'
  BY <1>5, <1>7, <1>8 DEF Has, Open, Parted, Listed
<1>10. Placed(t)'
  BY <1>1, <1>4 DEF Placed
<1>11. Passing(t)'
  BY <1>1, <1>2, <1>4, <1>7 DEF Passing, Visits
<1>12. Quiet(t)
  BY <1>1, <1>4, <1>5, <1>7, <1>9, <1>10, <1>11 DEF Quiet
<1>13. Locking' /\ held' \in [Threads -> Holding]
  BY <1>1, <1>4, <1>5, LockingStays DEF HasIOB, HasFile
<1>14. TypeOK'
  BY <1>1, <1>4, <1>5, <1>13, TypesAre, TypesAfter
<1> QED
  BY <1>12, <1>13, <1>14 DEF Tame

LEMMA WalkTame ==
    ASSUME TypeOK, Core, Locking, NEW t \in Threads, program' = program, Walk(t)
    PROVE  Tame(t)
<1>1. pc[t] = "walk" /\ UNCHANGED <<program, ostream, cstream, flag, handle, opened, held, op, fp, hdl, mine, calls>>
  BY DEF Walk, At, lists, files
<1>2. op[t] = "fcloseall" /\ Walks(t) /\ Cursor(t) = fp[t] /\ (fp[t] = None \/ Contains(ostream, fp[t]))
  BY <1>1, Its DEF Placed, Walks, Cursor, Passing
<1>3. /\ Rest(t) = From(fp[t]) /\ Work(t) = {} /\ Marking(t) = {}
      /\ Has(t) = mine[t] \cup From(fp[t]) /\ Open(t) = mine[t] \cup From(fp[t])
  BY <1>1, <1>2 DEF Rest, Work, Marking, Has, Open
<1>4. CASE fp[t] = None
  <2>1. pc' = [pc EXCEPT ![t] = "idle"] /\ next' = next
    BY <1>4 DEF Walk, Goto
  <2>2. pc'[t] = "idle" /\ pc' \in [Threads -> Labels] /\ OthersStay(t)
    BY <1>1, <2>1, TypesAre DEF Labels, OthersStay
  <2>3. Placed(t)' /\ Passing(t)'
    BY <1>1, <2>2, Its, IdleThen, StillPassing
  <2>4. Rest(t) = {}
    BY <1>3, <1>4, NoneIsLast, Its DEF From
  <2>5. Quiet(t)
    BY <1>1, <1>3, <2>2, <2>3, <2>4, IdleThen, SameIsQuiet
  <2>6. Locking' /\ held' \in [Threads -> Holding]
    BY <1>1, <1>2, <2>2, LockingStays DEF HasIOB, HasFile
  <2>7. TypeOK'
    BY <1>1, <2>1, <2>2, <2>6, TypesAre, TypesAfter
  <2> QED
    BY <2>5, <2>6, <2>7 DEF Tame
<1>5. CASE fp[t] # None
  <2>1. pc' = [pc EXCEPT ![t] = "doclose"] /\ next' = [next EXCEPT ![t] = After(fp[t])]
    BY <1>5 DEF Walk, Goto
  <2>2. /\ Contains(ostream, fp[t]) /\ fp[t] \in Streams /\ After(fp[t]) \in Maybe
        /\ After(fp[t]) = None \/ Contains(ostream, After(fp[t]))
        /\ From(fp[t]) = {fp[t]} \cup From(After(fp[t])) /\ fp[t] \notin From(After(fp[t]))
    <3>1. Distinct(ostream) /\ ostream \in Seq(Streams)
      BY TypesAre DEF Core, Lists
    <3> QED
      BY <1>2, <1>5, <3>1, AfterIs DEF Maybe
  <2>3. /\ pc'[t] = "doclose" /\ next'[t] = After(fp[t]) /\ OthersStay(t)
        /\ pc' \in [Threads -> Labels] /\ next' \in [Threads -> Maybe]
    BY <1>1, <2>1, <2>2, TypesAre DEF Labels, OthersStay
  <2>4. /\ Work(t)' = {fp[t]} /\ Walks(t)' /\ Cursor(t)' = After(fp[t]) /\ Ready(t)'
        /\ Closing(t)' = {} /\ ~Visits(t)'
    BY <1>1, <1>2, <1>5, <2>3 DEF Work, Walks, Cursor, Ready, Closing, Visits
  <2>5. Rest(t)' = From(After(fp[t]))
    BY <1>1, <2>4 DEF Rest, From
  <2>6. Has(t)' = Has(t) /\ Open(t)' = Open(t)
    BY <1>1, <1>3, <2>2, <2>4, <2>5 DEF Has, Open
  <2>7. Parted(t)' /\ Listed(t)'
    <3>1. Parted(t) /\ Listed(t)
      BY Its
    <3>2. mine[t] \cap From(fp[t]) = {}
      BY <1>3, <3>1 DEF Parted
    <3> QED
      BY <1>1, <2>2, <2>4, <2>5, <3>1, <3>2 DEF Parted, Listed
  <2>8. Placed(t)'
    BY <1>1, <1>2, <1>5, <2>3, Its DEF Placed
  <2>9. Passing(t)'
    BY <1>1, <2>2, <2>4 DEF Passing
  <2>10. Quiet(t)
    BY <1>1, <1>3, <2>3, <2>4, <2>6, <2>7, <2>8, <2>9 DEF Quiet
  <2>11. Locking' /\ held' \in [Threads -> Holding]
    BY <1>1, <1>2, <2>3, LockingStays DEF HasIOB, HasFile
  <2>12. TypeOK'
    BY <1>1, <2>3, <2>11, TypesAre, TypesAfter
  <2> QED
    BY <2>10, <2>11, <2>12 DEF Tame
<1> QED
  BY <1>4, <1>5

-------------------------------------------------------------------------------
\* A step of t that opens or closes the handle of its stream.
LEMMA FilesKeep ==
    ASSUME TypeOK, TypeOK', Core, NEW t \in Threads, OthersStay(t),
           ostream' = ostream, cstream' = cstream, flag' = flag,
           Has(t)' = Has(t), Marking(t)' = Marking(t),
           Open(t) \ Closing(t) \subseteq Open(t)' \ Closing(t)',
           Placed(t)', Parted(t)', Listed(t)', Passing(t)',
           \A s \in Streams : s \notin Has(t) => handle'[s] = handle[s],
           \A u \in Threads \ {t} : \A s \in Open(u) : handle[s] \in opened',
           \A s \in Open(t)' : "RW" \in flag[s] /\ handle'[s] \in opened' \ {0},
           \A s, r \in Open(t)' : handle'[s] = handle'[r] => s = r,
           \A s \in Open(t)' : \A u \in Threads \ {t} : \A r \in Open(u) : handle'[s] # handle[r]
    PROVE  Core'
<1>1. OthersHad(t)
  BY OthersHave DEF From
<1>2. \A u \in Threads : Placed(u)' /\ Passing(u)'
  BY OthersPlaced, OthersPass DEF Core, From
<1>3. \A u \in Threads : Reopens(u)'
  <2>1. Reopens(t)'
    BY OthersOpenStays DEF OthersStay, Core, Reopens
  <2> QED
    BY <1>1, <2>1, OthersReopen DEF Core
<1>4. Lists'
  BY DEF Core, Lists, Distinct, Contains
<1>5. Owned'
  <2>1. \A u \in Threads \ {t} : Listed(u)'
    BY <1>1, OthersListed DEF Core
  <2> QED
    BY <1>1, <2>1, OwnedKeeps DEF Core
<1>6. Usable'
  <2>1. \A u \in Threads \ {t} : \A s \in Open(u) : "RW" \in flag'[s] /\ handle'[s] = handle[s]
    <3> SUFFICES ASSUME NEW u \in Threads \ {t}, NEW s \in Open(u)
                 PROVE  "RW" \in flag[s] /\ handle'[s] = handle[s]
      OBVIOUS
    <3>1. s \in Streams /\ s \notin Has(t)
      BY Disjoint, HadAreStreams DEF Core
    <3> QED
      BY <3>1 DEF Core, Usable
  <2> QED
    BY <1>1, <2>1, UsableKeeps DEF Core
<1>7. Clean'
  <2> SUFFICES ASSUME NEW s \in Streams, "DIRTY" \in flag'[s]
               PROVE  \/ s \in Open(t)' \ Closing(t)'
                      \/ "DIRTY" \in flag[s] /\ s \notin Open(t) \ Closing(t)
    BY <1>1, CleanKeeps DEF Core
  <2> QED
    OBVIOUS
<1>8. Marked'
  <2> SUFFICES ASSUME NEW s \in Streams, Contains(ostream', s) \/ Contains(cstream', s)
               PROVE  \/ "RW" \in flag'[s] \/ s \in Marking(t)'
                      \/ /\ Contains(ostream, s) \/ Contains(cstream, s)
                         /\ "RW" \notin flag[s] /\ s \notin Marking(t)
    BY <1>1, MarkedKeeps DEF Core
  <2> QED
    OBVIOUS
<1> QED
  BY <1>2, <1>3, <1>4, <1>5, <1>6, <1>7, <1>8 DEF Core

\* Kept by a step that is not quiet.
Kept == TypeOK' /\ Core' /\ Locking'

LEMMA CloseKeeps ==
    ASSUME TypeOK, Core, Locking, NEW t \in Threads, program' = program, Close(t)
    PROVE  Kept
<1> DEFINE to == IF op[t] = "freopen" THEN "unlockiob" ELSE "freefp"
           x == fp[t]
<1>1. /\ pc[t] = "close" /\ pc' = [pc EXCEPT ![t] = to] /\ opened' = opened \ {handle[x]}
      /\ UNCHANGED <<program, ostream, cstream, flag, handle, held, op, fp, hdl, next, mine, calls>>
  BY DEF Close, At, Goto, lists, locals
<1>2. op[t] \in {"fclose", "fcloseall", "freopen"} /\ x # None
  BY <1>1, Its DEF Placed
<1>3. Contains(ostream, x) /\ "RW" \in flag[x] /\ x \in Streams /\ Work(t) = {x}
  BY <1>1, <1>2, OnIt DEF Elsewhere
<1>4. pc'[t] = to /\ to \in Labels /\ pc' \in [Threads -> Labels] /\ OthersStay(t)
  BY <1>1, TypesAre DEF Labels, OthersStay
<1>5. TypeOK'
  <2>1. opened' \subseteq Handles \cup {0}
    BY <1>1, TypesAre
  <2> QED
    BY <1>1, <1>4, <2>1, TypesAre, TypesAfter
<1>6. Work(t)' = {x} /\ Closing(t) = {x} /\ Closing(t)' = {} /\ Marking(t) = {} /\ Marking(t)' = {}
  BY <1>1, <1>2, <1>3, <1>4 DEF Work, Closing, Marking
<1>7. Rest(t)' = Rest(t)
  <2>1. (Walks(t)' <=> Walks(t)) /\ Cursor(t)' = Cursor(t)
    BY <1>1, <1>4 DEF Walks, Cursor
  <2> QED
    BY <1>1, <2>1 DEF Rest, From
<1>8. Ready(t) /\ ~Ready(t)'
  BY <1>1, <1>4 DEF Ready
<1>9. /\ Has(t)' = Has(t) /\ Open(t) = mine[t] \cup Rest(t) \cup {x}
      /\ Open(t)' = mine[t] \cup Rest(t) /\ x \notin Open(t)'
  BY <1>1, <1>3, <1>6, <1>7, <1>8, Its DEF Has, Open, Parted
<1>10. Placed(t)'
  BY <1>1, <1>2, <1>4, Its DEF Placed
<1>11. Parted(t)' /\ Listed(t)'
  BY <1>1, <1>3, <1>6, <1>7, Its DEF Parted, Listed
<1>12. Passing(t)'
  BY <1>1, <1>2, <1>4, Its, StillPassing
<1>13. \A u \in Threads \ {t} : \A s \in Open(u) : handle[s] \in opened'
  <2> SUFFICES ASSUME NEW u \in Threads \ {t}, NEW s \in Open(u) PROVE handle[s] # handle[x]
    BY <1>1 DEF Core, Usable
  <2>1. s # x
    BY <1>9, Disjoint DEF Core
  <2> QED
    BY <1>9, <2>1 DEF Core, Usable
<1>14. \A s \in Open(t)' : "RW" \in flag[s] /\ handle'[s] \in opened' \ {0}
  <2> SUFFICES ASSUME NEW s \in Open(t), s # x PROVE "RW" \in flag[s] /\ handle[s] \in opened' \ {0}
    BY <1>1, <1>9
  <2> QED
    BY <1>1, <1>9 DEF Core, Usable
<1>15. \A s, r \in Open(t)' : handle'[s] = handle'[r] => s = r
  BY <1>1, <1>9 DEF Core, Usable
<1>16. \A s \in Open(t)' : \A u \in Threads \ {t} : \A r \in Open(u) : handle'[s] # handle[r]
  <2> SUFFICES ASSUME NEW s \in Open(t), NEW u \in Threads \ {t}, NEW r \in Open(u)
               PROVE  handle[s] # handle[r]
    BY <1>1, <1>9
  <2>1. s # r
    BY Disjoint DEF Core
  <2> QED
    BY <2>1 DEF Core, Usable
<1>17. Core'
  BY <1>1, <1>4, <1>5, <1>6, <1>9, <1>10, <1>11, <1>12, <1>13, <1>14, <1>15, <1>16, FilesKeep
<1>18. Locking'
  BY <1>1, <1>2, <1>4, LockingStays DEF HasIOB, HasFile
<1> QED
  BY <1>5, <1>17, <1>18 DEF Kept

LEMMA SopenFailsKeeps ==
    ASSUME TypeOK, Core, Locking, NEW t \in Threads, program' = program, SopenFails(t)
    PROVE  Kept
<1> DEFINE x == fp[t]
<1>1. /\ pc[t] = "sopen" /\ pc' = [pc EXCEPT ![t] = "freefp"] /\ handle' = [handle EXCEPT ![x] = NoHandle]
      /\ UNCHANGED <<program, ostream, cstream, flag, opened, held, op, fp, hdl, next, mine, calls>>
  BY DEF SopenFails, At, Goto, lists, locals
<1>2. op[t] \in {"fopen", "freopen"} /\ x # None
  BY <1>1, Its DEF Placed
<1>3. Contains(ostream, x) /\ "RW" \in flag[x] /\ x \in Streams /\ Work(t) = {x}
  BY <1>1, <1>2, OnIt DEF Elsewhere
<1>4. pc'[t] = "freefp" /\ pc' \in [Threads -> Labels] /\ OthersStay(t)
  BY <1>1, TypesAre DEF Labels, OthersStay
<1>5. /\ handle' \in [Streams -> Values] /\ \A s \in Streams : s # x => handle'[s] = handle[s]
  BY <1>1, <1>3, TypesAre, HandlesAre
<1>6. TypeOK'
  BY <1>1, <1>4, <1>5, TypesAre, TypesAfter
<1>7. /\ Work(t)' = {x} /\ Closing(t) = {} /\ Closing(t)' = {} /\ Marking(t) = {} /\ Marking(t)' = {}
      /\ Rest(t) = {} /\ Rest(t)' = {} /\ ~Ready(t) /\ ~Ready(t)'
  BY <1>1, <1>2, <1>3, <1>4 DEF Work, Closing, Marking, Rest, Walks, Ready
<1>8. Has(t) = mine[t] \cup {x} /\ Has(t)' = Has(t) /\ Open(t) = mine[t] /\ Open(t)' = mine[t] /\ x \notin mine[t]
  BY <1>1, <1>3, <1>7, Its DEF Has, Open, Parted
<1>9. Placed(t)'
  BY <1>1, <1>2, <1>4, Its DEF Placed
<1>10. Parted(t)' /\ Listed(t)'
  BY <1>1, <1>3, <1>7, Its DEF Parted, Listed
<1>11. Passing(t)'
  BY <1>1, <1>2, <1>4, Its, StillPassing
<1>12. \A s \in Streams : s \notin Has(t) => handle'[s] = handle[s]
  BY <1>5, <1>8
<1>13. \A s \in Open(t)' : s \in Streams /\ handle'[s] = handle[s] /\ s \in Open(t)
  BY <1>5, <1>8, Its
<1>14. \A s \in Open(t)' : "RW" \in flag[s] /\ handle'[s] \in opened' \ {0}
  BY <1>1, <1>13 DEF Core, Usable
<1>15. \A s, r \in Open(t)' : handle'[s] = handle'[r] => s = r
  BY <1>13 DEF Core, Usable
<1>16. \A s \in Open(t)' : \A u \in Threads \ {t} : \A r \in Open(u) : handle'[s] # handle[r]
  <2> SUFFICES ASSUME NEW s \in Open(t), NEW u \in Threads \ {t}, NEW r \in Open(u)
               PROVE  handle[s] # handle[r]
    BY <1>13
  <2>1. s # r
    BY Disjoint DEF Core
  <2> QED
    BY <2>1 DEF Core, Usable
<1>17. \A u \in Threads \ {t} : \A s \in Open(u) : handle[s] \in opened'
  BY <1>1 DEF Core, Usable
<1>18. Core'
  <2>1. Open(t) \ Closing(t) \subseteq Open(t)' \ Closing(t)' /\ Marking(t)' = Marking(t)
    BY <1>7, <1>8
  <2> QED
    BY <1>1, <1>4, <1>6, <1>8, <1>9, <1>10, <1>11, <1>12, <1>14, <1>15, <1>16, <1>17, <2>1, FilesKeep
<1>19. Locking'
  BY <1>1, <1>2, <1>4, LockingStays DEF HasIOB, HasFile
<1> QED
  BY <1>6, <1>18, <1>19 DEF Kept

LEMMA SopenedKeeps ==
    ASSUME TypeOK, Core, Locking, NEW t \in Threads, program' = program, Sopened(t)
    PROVE  Kept
<1> DEFINE x == fp[t]
           to == IF op[t] = "fopen" THEN "idle" ELSE "unlock"
           my == IF op[t] = "fopen" THEN mine[t] \cup {x} ELSE mine[t]
<1>1. PICK h \in Handles \ opened : opened' = opened \cup {h} /\ handle' = [handle EXCEPT ![x] = h]
  BY DEF Sopened
<1>2. /\ pc[t] = "sopen"
      /\ UNCHANGED <<program, ostream, cstream, flag, held, op, fp, hdl, next, calls>>
  BY DEF Sopened, At, lists, locals
<1>3. op[t] \in {"fopen", "freopen"} /\ x # None
  BY <1>2, Its DEF Placed
<1>4. Contains(ostream, x) /\ "RW" \in flag[x] /\ x \in Streams /\ Work(t) = {x}
  BY <1>2, <1>3, OnIt DEF Elsewhere
<1>5. /\ pc' = [pc EXCEPT ![t] = to] /\ mine' = [mine EXCEPT ![t] = my]
  <2>1. CASE op[t] = "fopen"
    BY <1>3, <2>1, TypesAre DEF Sopened, Finish, Goto
  <2>2. CASE op[t] # "fopen"
    BY <2>2, TypesAre DEF Sopened, Goto
  <2> QED
    BY <2>1, <2>2
<1>6. /\ pc'[t] = to /\ pc' \in [Threads -> Labels] /\ OthersStay(t)
      /\ mine'[t] = my /\ mine' \in [Threads -> SUBSET Streams]
  <2>1. my \in SUBSET Streams /\ to \in Labels
    BY <1>4, Its DEF Labels
  <2> HIDE DEF my, to
  <2> QED
    BY <1>2, <1>5, <2>1, TypesAre DEF OthersStay
<1>7. /\ handle' \in [Streams -> Values] /\ handle'[x] = h
      /\ \A s \in Streams : s # x => handle'[s] = handle[s]
  BY <1>1, <1>4, TypesAre, HandlesAre
<1>8. TypeOK'
  <2>1. opened' \subseteq Handles \cup {0}
    BY <1>1, TypesAre
  <2> QED
    BY <1>2, <1>6, <1>7, <2>1, TypesAre, TypesAfter
<1>9. /\ Closing(t) = {} /\ Closing(t)' = {} /\ Marking(t) = {} /\ Marking(t)' = {}
      /\ Rest(t) = {} /\ Rest(t)' = {} /\ ~Ready(t)
  BY <1>2, <1>3, <1>6 DEF Closing, Marking, Rest, Walks, Ready
<1>10. Work(t)' = IF op[t] = "fopen" THEN {} ELSE {x}
  BY <1>2, <1>3, <1>6 DEF Work
<1>11. /\ Has(t) = mine[t] \cup {x} /\ Has(t)' = Has(t) /\ Open(t) = mine[t]
       /\ Open(t)' = mine[t] \cup {x} /\ x \notin mine[t] /\ Parted(t)'
  <2>1. op[t] = "freopen" => Ready(t)'
    BY <1>6 DEF Ready
  <2> QED
    BY <1>3, <1>4, <1>6, <1>9, <1>10, <2>1, Its DEF Has, Open, Parted
<1>12. Listed(t)'
  BY <1>2, <1>4, <1>6, <1>10, Its DEF Listed
<1>13. Placed(t)'
  BY <1>2, <1>3, <1>6, Its DEF Placed
<1>14. Passing(t)'
  BY <1>2, <1>3, <1>6, Its, StillPassing
<1>15. \A s \in Streams : s \notin Has(t) => handle'[s] = handle[s]
  BY <1>7, <1>11
<1>16. \A u \in Threads : \A s \in Open(u) : handle[s] \in opened \ {0} /\ handle[s] # h
  BY <1>1 DEF Core, Usable
<1>17. \A s \in Open(t)' : s = x \/ (s \in Open(t) /\ handle'[s] = handle[s])
  BY <1>7, <1>11, Its
<1>18. h \in opened' \ {0}
  BY <1>1, HandlesAre
<1>19. \A s \in Open(t)' : "RW" \in flag[s] /\ handle'[s] \in opened' \ {0}
  BY <1>1, <1>4, <1>7, <1>16, <1>17, <1>18 DEF Core, Usable
<1>20. \A s, r \in Open(t)' : handle'[s] = handle'[r] => s = r
  <2> SUFFICES ASSUME NEW s \in Open(t)', NEW r \in Open(t)', handle'[s] = handle'[r] PROVE s = r
    OBVIOUS
  <2>1. CASE s = x \/ r = x
    BY <1>7, <1>16, <1>17, <2>1
  <2>2. CASE s # x /\ r # x
    BY <1>17, <2>2 DEF Core, Usable
  <2> QED
    BY <2>1, <2>2
<1>21. \A s \in Open(t)' : \A u \in Threads \ {t} : \A r \in Open(u) : handle'[s] # handle[r]
  <2> SUFFICES ASSUME NEW s \in Open(t)', NEW u \in Threads \ {t}, NEW r \in Open(u)
               PROVE  handle'[s] # handle[r]
    OBVIOUS
  <2>1. CASE s = x
    BY <1>7, <1>16, <2>1
  <2>2. CASE s # x
    <3>1. s \in Open(t) /\ handle'[s] = handle[s]
      BY <1>17, <2>2
    <3>2. s # r
      BY <3>1, Disjoint DEF Core
    <3> QED
      BY <3>1, <3>2 DEF Core, Usable
  <2> QED
    BY <2>1, <2>2
<1>22. \A u \in Threads \ {t} : \A s \in Open(u) : handle[s] \in opened'
  BY <1>1, <1>16
<1>23. Core'
  <2>1. Open(t) \ Closing(t) \subseteq Open(t)' \ Closing(t)' /\ Marking(t)' = Marking(t)
    BY <1>9, <1>11
  <2> HIDE DEF my, to
  <2> QED
    BY <1>2, <1>6, <1>8, <1>11, <1>12, <1>13, <1>14, <1>15, <1>19, <1>20, <1>21, <1>22, <2>1, FilesKeep
<1>24. Locking'
  BY <1>2, <1>3, <1>6, LockingStays DEF HasIOB, HasFile
<1> QED
  BY <1>8, <1>23, <1>24 DEF Kept
-------------------------------------------------------------------------------
\* A step of t that moves the stream x, no other thread's, between the lists.
Moves(t, x) ==
    /\ OthersStay(t) /\ opened' = opened /\ Lists'
    /\ \A u \in Threads \ {t} : x \notin Has(u) /\ ~Visits(u)
    /\ \A y : y # x => /\ Contains(ostream', y) <=> Contains(ostream, y)
                       /\ Contains(cstream, y) => Contains(cstream', y)
                       /\ Contains(cstream', y) => Contains(cstream, y)
                       /\ x \notin From(y) => FromOn(ostream', y) = From(y)
    /\ \A s \in Streams : s # x => flag'[s] = flag[s] /\ handle'[s] = handle[s]
    /\ "RW" \in flag'[x] /\ ("DIRTY" \in flag'[x] => "DIRTY" \in flag[x])
    /\ Open(t)' = Open(t) /\ x \notin Open(t) /\ Closing(t)' = {} /\ Marking(t) = {}
    /\ Has(t)' \subseteq Has(t) \cup {x} /\ Has(t) \subseteq Has(t)' \cup {x}
    /\ Contains(ostream', x) => x \in Has(t)'
    /\ Placed(t)' /\ Parted(t)' /\ Listed(t)' /\ Passing(t)' /\ Reopens(t)'

LEMMA MovesKeep ==
    ASSUME TypeOK, TypeOK', Core, NEW t \in Threads, NEW x \in Streams, Moves(t, x)
    PROVE  Core'
<1> USE DEF Moves
<1>1. ASSUME NEW u \in Threads \ {t}
      PROVE  /\ Walks(u) => /\ FromOn(ostream', Cursor(u)) = From(Cursor(u))
                            /\ Contains(ostream, Cursor(u)) => Contains(ostream', Cursor(u))
             /\ pc[u] \in {"lockfile", "closefile"} =>
                   (Contains(ostream', fp[u]) <=> Contains(ostream, fp[u]))
  <2>1. ASSUME Walks(u) PROVE Cursor(u) # x /\ x \notin From(Cursor(u))
    <3>1. From(Cursor(u)) \subseteq Has(u)
      BY <2>1 DEF Has, Rest
    <3>2. CASE Cursor(u) = None
      BY <3>1, <3>2, HandlesAre
    <3>3. CASE Contains(ostream, Cursor(u))
      <4>1. Cursor(u) \in From(Cursor(u))
        BY <3>3, Its, OnItsRest DEF From
      <4> QED
        BY <3>1, <4>1
    <3> QED
      BY <2>1, <3>2, <3>3, Its DEF Passing
  <2>2. ASSUME pc[u] \in {"lockfile", "closefile"} PROVE fp[u] # x
    <3>1. op[u] = "freopen" /\ fp[u] # None
      BY <2>2, Its DEF Placed
    <3>2. fp[u] \in Has(u)
      BY <2>2, <3>1 DEF Has, Work
    <3> QED
      BY <3>2
  <2> QED
    BY <2>1, <2>2
<1>2. OthersHad(t)
  BY <1>1, OthersHave
<1>3. ASSUME NEW u \in Threads \ {t}, NEW s \in Has(u) PROVE s # x /\ s \in Streams /\ s \notin Has(t)
  BY Disjoint, HadAreStreams DEF Core
<1>4. \A u \in Threads : Placed(u)'
  BY OthersPlaced DEF Core
<1>5. \A u \in Threads : Passing(u)'
  <2>1. \A u \in Threads \ {t} : \A s \in mine[u] : "DIRTY" \in flag'[s] => "DIRTY" \in flag[s]
    BY <1>3 DEF Has
  <2> QED
    BY <1>1, <2>1, OthersPass DEF Core
<1>6. \A u \in Threads : Reopens(u)'
  BY <1>2, OthersReopen DEF Core
<1>7. Owned'
  <2>1. \A u \in Threads \ {t} : Listed(u)'
    BY <1>2, <1>3, OthersListed DEF Core
  <2>2. \A s \in Has(t)' : s \in Has(t) \/ \A u \in Threads \ {t} : s \notin Has(u)
    OBVIOUS
  <2>3. \A s \in Streams : Contains(ostream', s) =>
           s \in Has(t)' \/ (Contains(ostream, s) /\ s \notin Has(t))
    OBVIOUS
  <2> QED
    BY <1>2, <2>1, <2>2, <2>3, OwnedKeeps DEF Core
<1>8. Usable'
  <2>1. \A u \in Threads : \A s \in Open(u) :
           s \in Streams /\ s # x /\ flag'[s] = flag[s] /\ handle'[s] = handle[s]
    <3> SUFFICES ASSUME NEW u \in Threads, NEW s \in Open(u) PROVE s \in Streams /\ s # x
      OBVIOUS
    <3>1. Open(u) \subseteq Has(u)
      BY HasWhat DEF Core, Owned
    <3> QED
      BY <3>1, <1>3, HadAreStreams
  <2>2. \A u \in Threads : \A s \in Open(u) : "RW" \in flag'[s] /\ handle'[s] \in opened' \ {0}
    BY <2>1 DEF Core, Usable
  <2>3. \A u \in Threads \ {t} : \A s \in Open(u) :
           "RW" \in flag'[s] /\ handle'[s] = handle[s] /\ handle[s] \in opened'
    BY <2>1, <2>2
  <2>4. \A s, r \in Open(t)' : handle'[s] = handle'[r] => s = r
    BY <2>1 DEF Core, Usable
  <2>5. \A s \in Open(t)' : \A u \in Threads \ {t} : \A r \in Open(u) : handle'[s] # handle[r]
    <3> SUFFICES ASSUME NEW s \in Open(t), NEW u \in Threads \ {t}, NEW r \in Open(u)
                 PROVE  handle[s] # handle[r]
      BY <2>1
    <3>1. s # r
      BY Disjoint DEF Core
    <3> QED
      BY <3>1 DEF Core, Usable
  <2> QED
    BY <1>2, <2>2, <2>3, <2>4, <2>5, UsableKeeps DEF Core
<1>9. Clean'
  <2> SUFFICES ASSUME NEW s \in Streams, "DIRTY" \in flag'[s]
               PROVE  \/ s \in Open(t)' \ Closing(t)'
                      \/ "DIRTY" \in flag[s] /\ s \notin Open(t) \ Closing(t)
    BY <1>2, CleanKeeps DEF Core
  <2> QED
    BY DEF Core
<1>10. Marked'
  <2> SUFFICES ASSUME NEW s \in Streams, Contains(ostream', s) \/ Contains(cstream', s)
               PROVE  \/ "RW" \in flag'[s] \/ s \in Marking(t)'
                      \/ /\ Contains(ostream, s) \/ Contains(cstream, s)
                         /\ "RW" \notin flag[s] /\ s \notin Marking(t)
    BY <1>2, MarkedKeeps DEF Core
  <2> QED
    OBVIOUS
<1> QED
  BY <1>4, <1>5, <1>6, <1>7, <1>8, <1>9, <1>10 DEF Core

\* What a thread has, but for the stream it is about to reopen, is on the open list.
LEMMA HadAreOpen ==
    ASSUME TypeOK, Core, NEW t \in Threads, NEW s \in Has(t)
    PROVE  \/ Contains(ostream, s)
           \/ /\ Contains(cstream, s) /\ s \in Work(t) /\ ~OthersOpen(t)
              /\ op[t] = "freopen" /\ "freopen" \in program.may[t]
<1>1. CASE s \in mine[t]
  BY <1>1, Its DEF Listed
<1>2. CASE s \in Rest(t)
  BY <1>2, Its, FromListed DEF Rest, From
<1>3. CASE s \in Work(t)
  BY <1>3, Its DEF Listed, Placed
<1> QED
  BY <1>1, <1>2, <1>3 DEF Has

\* Nobody is in flushall when the semaphore of the lists can be taken.
LEMMA NobodyVisits ==
    ASSUME TypeOK, Locking, NEW t \in Threads, \A u \in Threads \ {t} : held[u][IOB] = 0
    PROVE  \A u \in Threads \ {t} : ~Visits(u)
<1>1. \A u \in Threads : held[u][IOB] = Held(u, IOB)
  BY HandlesAre DEF Locking
<1> QED
  BY <1>1 DEF Held, HasIOB, Visits
-------------------------------------------------------------------------------
LEMMA Opener ==
    ASSUME OneOpener, TypeOK, NEW t \in Threads, "fopen" \in program.may[t]
    PROVE  ~OthersOpen(t)
<1>1. program \in Programs
  BY TypesAre
<1>2. PICK o \in Threads : \A u \in Threads \ {o} : "fopen" \notin program.may[u]
  BY <1>1 DEF OneOpener, OpensAlone
<1> QED
  BY <1>2 DEF OthersOpen

\* __allocfp has found a structure that is on no list.
LEMMA GotOneKeeps ==
    ASSUME OneOpener, TypeOK, Core, Locking, NEW t \in Threads, program' = program,
           NEW s \in Streams, NEW flags \in Flags, pc[t] = "alloc",
           \A u \in Threads \ {t} : held[u][IOB] = 0, GotOne(t, s, flags),
           "RW" \in flags, "DIRTY" \notin flags, ~Contains(ostream, s),
           cstream' \in Seq(Streams), Distinct(cstream'),
           \A y : Contains(cstream', y) <=> Contains(cstream, y) /\ y # s
    PROVE  Kept
<1>1. /\ flag' = [flag EXCEPT ![s] = flags] /\ handle' = [handle EXCEPT ![s] = 0]
      /\ ostream' = <<s>> \o ostream /\ fp' = [fp EXCEPT ![t] = s] /\ pc' = [pc EXCEPT ![t] = "mark"]
      /\ UNCHANGED <<program, opened, held, op, hdl, next, mine, calls>>
  BY DEF GotOne, SetFlag, Goto
<1>2. op[t] = "fopen" /\ "fopen" \in program.may[t]
  BY Its DEF Placed
<1>3. ~OthersOpen(t)
  BY <1>2, Opener
<1>4. s # None /\ s \in Maybe
  BY HandlesAre DEF Maybe
<1>5. /\ pc'[t] = "mark" /\ fp'[t] = s /\ pc' \in [Threads -> Labels] /\ fp' \in [Threads -> Maybe]
      /\ OthersStay(t)
  BY <1>1, <1>4, TypesAre DEF Labels, OthersStay
<1>6. /\ flag' \in [Streams -> Flags] /\ handle' \in [Streams -> Values] /\ flag'[s] = flags
      /\ \A r \in Streams : r # s => flag'[r] = flag[r] /\ handle'[r] = handle[r]
  BY <1>1, TypesAre, HandlesAre
<1>7. /\ ostream' \in Seq(Streams) /\ Distinct(ostream')
      /\ \A y : Contains(ostream', y) <=> y = s \/ Contains(ostream, y)
      /\ \A y : y # s => FromOn(ostream', y) = From(y)
  <2>1. ostream \in Seq(Streams) /\ Distinct(ostream)
    BY Its DEF Core, Lists
  <2> QED
    BY <1>1, <2>1, Pushed, PushedOnce DEF From
<1>8. TypeOK'
  BY <1>1, <1>5, <1>6, <1>7, TypesAre, TypesAfter
<1>9. \A u \in Threads \ {t} : s \notin Has(u) /\ ~Visits(u)
  <2> SUFFICES ASSUME NEW u \in Threads \ {t}, s \in Has(u) PROVE FALSE
    BY NobodyVisits
  <2>1. ~OthersOpen(u)
    BY HadAreOpen
  <2> QED
    BY <1>2, <2>1 DEF OthersOpen
<1>10. /\ Work(t) = {} /\ Rest(t) = {} /\ Marking(t) = {} /\ ~Ready(t)
       /\ Work(t)' = {s} /\ Rest(t)' = {} /\ Closing(t)' = {} /\ ~Ready(t)'
  BY <1>1, <1>2, <1>4, <1>5 DEF Work, Rest, Walks, Marking, Closing, Ready
<1>11. /\ Has(t) = mine[t] /\ Open(t) = mine[t] /\ Has(t)' = mine[t] \cup {s} /\ Open(t)' = mine[t]
       /\ s \notin mine[t]
  BY <1>1, <1>10, Its DEF Has, Open, Listed
<1>12. Parted(t)'
  BY <1>1, <1>10, <1>11 DEF Parted
<1>13. Listed(t)'
  BY <1>1, <1>7, <1>10, Its DEF Listed
<1>14. Placed(t)' /\ Passing(t)'
  <2>1. Placed(t)'
    BY <1>1, <1>2, <1>4, <1>5 DEF Placed
  <2>2. ~Walks(t)' /\ ~Visits(t)'
    BY <1>1, <1>2 DEF Walks, Visits
  <2> QED
    BY <2>1, <2>2 DEF Passing
<1>15. Reopens(t)'
  BY <1>3, OthersOpenStays DEF Reopens
<1>16. Lists'
  <2>1. \A r \in Streams : ~(Contains(ostream, r) /\ Contains(cstream, r))
    BY DEF Core, Lists
  <2> QED
    BY <1>7, <2>1 DEF Lists
<1>17. Core'
  <2>1. Moves(t, s)
    BY <1>1, <1>5, <1>6, <1>7, <1>9, <1>10, <1>11, <1>12, <1>13, <1>14, <1>15, <1>16 DEF Moves
  <2> QED
    BY <1>8, <2>1, MovesKeep
<1>18. Locking'
  BY <1>1, <1>2, <1>5, LockingStays DEF HasIOB, HasFile
<1> QED
  BY <1>8, <1>17, <1>18 DEF Kept

LEMMA IOBIsFree ==
    ASSUME NEW t, Free(t, IOB)
    PROVE  \A u \in Threads \ {t} : held[u][IOB] = 0
BY DEF Free

LEMMA TakeClosedKeeps ==
    ASSUME OneOpener, TypeOK, Core, Locking, NEW t \in Threads, program' = program, TakeClosed(t)
    PROVE  Kept
<1> DEFINE s == Head(cstream)
           flags == (flag[s] \ {"DIRTY"}) \cup {"RW"}
<1>1. /\ pc[t] = "alloc" /\ Free(t, IOB) /\ cstream # << >> /\ cstream' = Tail(cstream)
      /\ GotOne(t, s, flags)
  BY DEF TakeClosed, At, NoLongerClosed
<1>2. cstream \in Seq(Streams) /\ Distinct(cstream)
  BY Its DEF Core, Lists
<1>3. /\ s \in Streams /\ Contains(cstream, s)
      /\ cstream' \in Seq(Streams) /\ Distinct(cstream')
      /\ \A y : Contains(cstream', y) <=> Contains(cstream, y) /\ y # s
  BY <1>1, <1>2, Behead
<1>4. ~Contains(ostream, s)
  BY <1>3 DEF Core, Lists
<1>5. flags \in Flags /\ "RW" \in flags /\ "DIRTY" \notin flags
  <2>1. flag[s] \in Flags
    BY <1>3, TypesAre
  <2> QED
    BY <2>1 DEF Flags
<1> HIDE DEF s, flags
<1> QED
  BY <1>1, <1>3, <1>4, <1>5, IOBIsFree, GotOneKeeps

\* No structure on the open list is "available": one thread at a time marks them.
LEMMA TakeStaticKeeps ==
    ASSUME OneOpener, TypeOK, Core, Locking, NEW t \in Threads, program' = program, TakeStatic(t)
    PROVE  Kept
<1>1. PICK s \in Available : GotOne(t, s, {"RW"})
  BY DEF TakeStatic
<1>2. pc[t] = "alloc" /\ Free(t, IOB) /\ cstream = << >> /\ cstream' = cstream
  BY DEF TakeStatic, At
<1>3. s \in Streams /\ s \in Static /\ "RW" \notin flag[s]
  BY <1>1, HandlesAre DEF Available
<1>4. ASSUME Contains(ostream, s) PROVE FALSE
  <2>1. PICK u \in Threads : s \in Marking(u)
    BY <1>3, <1>4 DEF Core, Marked
  <2>2. pc[u] \in {"mark", "setflags"} /\ s \in Has(u)
    BY <2>1 DEF Marking, Has
  <2>3. "fopen" \in program.may[t]
    BY <1>2, Its DEF Placed
  <2>4. u # t
    BY <1>2, <2>2
  <2>5. OthersOpen(u) /\ ~OthersOpen(t)
    BY <2>3, <2>4, Opener DEF OthersOpen
  <2>6. "fopen" \notin program.may[u]
    BY <2>4, <2>5 DEF OthersOpen
  <2>7. "freopen" \in program.may[u]
    BY <2>2, <2>6, Its DEF Placed
  <2> QED
    BY <1>3, <2>2, <2>5, <2>7, Its DEF Reopens
<1>5. cstream' \in Seq(Streams) /\ Distinct(cstream')
  BY <1>2, Its DEF Core, Lists
<1>6. \A y : Contains(cstream', y) <=> Contains(cstream, y) /\ y # s
  BY <1>2 DEF Contains
<1>7. {"RW"} \in Flags /\ "RW" \in {"RW"} /\ "DIRTY" \notin {"RW"}
  BY DEF Flags
<1> QED
  BY <1>1, <1>2, <1>3, <1>4, <1>5, <1>6, <1>7, IOBIsFree, GotOneKeeps

LEMMA TakeDynamicKeeps ==
    ASSUME OneOpener, TypeOK, Core, Locking, NEW t \in Threads, program' = program, TakeDynamic(t)
    PROVE  Kept
<1>1. PICK s \in Streams \ Static : ~Contains(ostream, s) /\ GotOne(t, s, {"RW", "DYNAMIC"})
  BY DEF TakeDynamic
<1>2. pc[t] = "alloc" /\ Free(t, IOB) /\ cstream = << >> /\ cstream' = cstream
  BY DEF TakeDynamic, At
<1>3. cstream' \in Seq(Streams) /\ Distinct(cstream')
  BY <1>2, Its DEF Core, Lists
<1>4. \A y : Contains(cstream', y) <=> Contains(cstream, y) /\ y # s
  BY <1>2 DEF Contains
<1>5. {"RW", "DYNAMIC"} \in Flags /\ "RW" \in {"RW", "DYNAMIC"} /\ "DIRTY" \notin {"RW", "DYNAMIC"}
  BY DEF Flags
<1> QED
  BY <1>1, <1>2, <1>3, <1>4, <1>5, IOBIsFree, GotOneKeeps

-------------------------------------------------------------------------------
LEMMA FreeFpKeeps ==
    ASSUME TypeOK, Core, Locking, NEW t \in Threads, program' = program, FreeFp(t)
    PROVE  Kept
<1> DEFINE x == fp[t]
           to == CASE op[t] = "freopen" -> "unlock" [] op[t] = "fcloseall" -> "walk" [] OTHER -> "idle"
           nxt == IF op[t] = "fcloseall" THEN next[t] ELSE None
<1>1. pc[t] = "freefp"
  BY DEF FreeFp, At
<1>2. op[t] \in {"fopen", "freopen", "fclose", "fcloseall"} /\ x # None
  BY <1>1, Its DEF Placed
<1>3. Contains(ostream, x) /\ "RW" \in flag[x] /\ x \in Streams /\ Work(t) = {x}
  BY <1>1, <1>2, OnIt DEF Elsewhere
<1>4. flag[x] \cup {"RW"} = flag[x]
  BY <1>3
<1>5. /\ Free(t, IOB) /\ held' = held /\ flag' = flag
      /\ ostream' = Unlinked(ostream, x) /\ cstream' = <<x>> \o cstream
      /\ pc' = [pc EXCEPT ![t] = to] /\ fp' = [fp EXCEPT ![t] = nxt]
      /\ UNCHANGED <<program, handle, opened, op, hdl, next, mine, calls>>
  <2>1. flag' = [flag EXCEPT ![x] = flag[x]]
    BY <1>3, <1>4 DEF FreeFp, SetFlag
  <2>2. flag' = flag
    BY <1>3, <2>1, Unflagged
  <2>3. pc' = [pc EXCEPT ![t] = to] /\ fp' = [fp EXCEPT ![t] = nxt]
    BY DEF FreeFp, AfterFree, Goto
  <2> QED
    BY <1>3, <2>2, <2>3 DEF FreeFp, AfterFree
<1>6. /\ pc'[t] = to /\ fp'[t] = nxt /\ pc' \in [Threads -> Labels] /\ fp' \in [Threads -> Maybe]
      /\ OthersStay(t)
  <2>1. to \in Labels /\ nxt \in Maybe
    BY Its DEF Labels, Maybe
  <2> HIDE DEF to, nxt
  <2> QED
    BY <1>5, <2>1, TypesAre DEF OthersStay
<1>7. ostream \in Seq(Streams) /\ cstream \in Seq(Streams) /\ Lists /\ ~Contains(cstream, x)
  BY <1>3, Its DEF Core, Lists
<1>8. /\ ostream' \in Seq(Streams) /\ Distinct(ostream')
      /\ \A y : Contains(ostream', y) <=> Contains(ostream, y) /\ y # x
      /\ \A y : y # x => FromOn(ostream', y) = From(y) \ {x}
  BY <1>3, <1>5, <1>7, Gone DEF Lists, From
<1>9. /\ cstream' \in Seq(Streams) /\ Distinct(cstream')
      /\ \A y : Contains(cstream', y) <=> y = x \/ Contains(cstream, y)
  BY <1>3, <1>5, <1>7, Pushed, PushedOnce DEF Lists
<1>10. TypeOK'
  BY <1>5, <1>6, <1>8, <1>9, TypesAre, TypesAfter
<1>11. Lists'
  BY <1>7, <1>8, <1>9 DEF Lists
<1>12. Work(t)' = {} /\ Closing(t)' = {} /\ Marking(t) = {} /\ ~Ready(t)
  <2>1. Work(t)' = {}
    BY <1>5, <1>6 DEF Work
  <2> QED
    BY <1>1, <2>1 DEF Closing, Marking, Ready
<1>13. Rest(t)' = Rest(t) /\ (Walks(t)' => nxt = None \/ Contains(ostream', nxt))
  <2>1. CASE op[t] = "fcloseall"
    <3>1. Walks(t) /\ Cursor(t) = next[t] /\ Walks(t)' /\ Cursor(t)' = next[t] /\ nxt = next[t]
      BY <1>1, <1>5, <1>6, <2>1 DEF Walks, Cursor
    <3>2. x \notin From(next[t])
      BY <1>3, <3>1, Its DEF Rest, Parted
    <3>3. next[t] = None \/ Contains(ostream, next[t])
      BY <3>1, Its DEF Passing
    <3>4. next[t] # x
      BY <1>2, <1>7, <3>2, <3>3, OnItsRest DEF From
    <3>5. FromOn(ostream', next[t]) = From(next[t])
      BY <1>8, <3>2, <3>4
    <3>6. Rest(t)' = FromOn(ostream', next[t]) /\ Rest(t) = From(next[t])
      BY <3>1 DEF Rest, From
    <3> QED
      BY <1>8, <3>1, <3>3, <3>4, <3>5, <3>6
  <2>2. CASE op[t] # "fcloseall"
    BY <1>5, <2>2 DEF Rest, Walks
  <2> QED
    BY <2>1, <2>2
<1>14. /\ Has(t) = mine[t] \cup Rest(t) \cup {x} /\ Open(t) = mine[t] \cup Rest(t) /\ x \notin Open(t)
       /\ Has(t)' = mine[t] \cup Rest(t) /\ Open(t)' = mine[t] \cup Rest(t)
  BY <1>3, <1>5, <1>12, <1>13, Its DEF Has, Open, Parted
<1>15. Parted(t)'
  BY <1>5, <1>12, <1>13, Its DEF Parted
<1>16. Listed(t)'
  BY <1>5, <1>8, <1>12, <1>14, Its DEF Listed
<1>17. Placed(t)'
  BY <1>1, <1>2, <1>5, <1>6, Its DEF Placed
<1>18. Passing(t)'
  <2>1. ~Visits(t)'
    BY <1>2, <1>5 DEF Visits
  <2>2. Walks(t)' => Cursor(t)' = nxt
    BY <1>5, <1>6 DEF Walks, Cursor
  <2> QED
    BY <1>13, <2>1, <2>2 DEF Passing
<1>19. Reopens(t)'
  BY <1>5, <1>14, OthersOpenStays, Its DEF Reopens
<1>20. \A u \in Threads \ {t} : x \notin Has(u) /\ ~Visits(u)
  BY <1>5, <1>14, IOBIsFree, NobodyVisits, Disjoint DEF Core
<1>21. Core'
  <2>1. \A y : y # x => /\ Contains(ostream', y) <=> Contains(ostream, y)
                        /\ Contains(cstream', y) => Contains(cstream, y)
                        /\ Contains(cstream, y) => Contains(cstream', y)
                        /\ x \notin From(y) => FromOn(ostream', y) = From(y)
    BY <1>8, <1>9
  <2>2. Moves(t, x)
    BY <1>3, <1>5, <1>6, <1>8, <1>11, <1>12, <1>14, <1>15, <1>16, <1>17, <1>18, <1>19, <1>20, <2>1 DEF Moves
  <2> HIDE DEF x
  <2> QED
    BY <1>3, <1>10, <2>2, MovesKeep
<1>22. Locking'
  <2>1. (HasIOB(t)' <=> HasIOB(t)) /\ (HasFile(t)' <=> HasFile(t))
    BY <1>1, <1>2, <1>5, <1>6 DEF HasIOB, HasFile
  <2> QED
    BY <1>5, <1>6, <2>1, LockingStays
<1> QED
  BY <1>10, <1>21, <1>22 DEF Kept
-------------------------------------------------------------------------------
\* Only one thread reopens streams that were closed.
LEMMA OneReopener ==
    ASSUME OneOpener, TypeOK, NEW t \in Threads, NEW u \in Threads \ {t},
           "freopen" \in program.may[t], ~OthersOpen(t), "freopen" \in program.may[u], ~OthersOpen(u)
    PROVE  FALSE
<1>1. program \in Programs
  BY TypesAre
<1>2. PICK o \in Threads : \A v \in Threads \ {o} : "freopen" \in program.may[v] => "fopen" \in program.may[o]
  BY <1>1 DEF OneOpener, OpensAlone
<1>3. CASE o = t
  BY <1>2, <1>3 DEF OthersOpen
<1>4. CASE o # t
  BY <1>2, <1>4 DEF OthersOpen
<1> QED
  BY <1>3, <1>4

LEMMA FReopenKeeps ==
    ASSUME OneOpener, TypeOK, Core, Locking, NEW t \in Threads, program' = program,
           NEW s \in Streams, FReopen(t, s), s \notin mine[t]
    PROVE  Kept
<1>1. /\ Begin(t, "freopen", s, "lockfile")
      /\ mine' = [mine EXCEPT ![t] = @ \ {s}] /\ hdl' = [hdl EXCEPT ![t] = handle[s]]
      /\ UNCHANGED <<program, ostream, cstream, flag, handle, opened, held, next>>
      /\ Contains(cstream, s) /\ ~OthersOpen(t)
  BY DEF FReopen, OthersOpen, lists, files
<1>2. "freopen" \in Functions /\ s \in Maybe /\ "lockfile" \in Labels /\ s # None
  BY HandlesAre DEF Functions, Maybe, Labels
<1>3. /\ pc[t] = "idle" /\ "freopen" \in program.may[t]
      /\ pc'[t] = "lockfile" /\ op'[t] = "freopen" /\ fp'[t] = s
      /\ \A u \in Threads \ {t} : pc'[u] = pc[u] /\ op'[u] = op[u] /\ fp'[u] = fp[u]
      /\ pc' \in [Threads -> Labels] /\ op' \in [Threads -> Kinds]
      /\ fp' \in [Threads -> Maybe] /\ calls' \in [Threads -> 0..MaxCalls]
  BY <1>1, <1>2, Begun
<1>4. mine' = mine
  <2>1. mine[t] \ {s} = mine[t]
    OBVIOUS
  <2> QED
    BY <1>1, <2>1, TypesAre
<1>5. OthersStay(t) /\ hdl' \in [Threads -> Values]
  BY <1>1, <1>2, <1>3, <1>4, TypesAre DEF OthersStay
<1>6. TypeOK'
  BY <1>1, <1>3, <1>4, <1>5, TypesAre, TypesAfter
<1>7. Lists /\ ~Contains(ostream, s)
  BY <1>1 DEF Core, Lists
<1>8. \A u \in Threads \ {t} : s \notin Has(u)
  <2> SUFFICES ASSUME NEW u \in Threads \ {t}, s \in Has(u) PROVE FALSE
    OBVIOUS
  <2>1. ~OthersOpen(u) /\ "freopen" \in program.may[u]
    BY <1>7, HadAreOpen
  <2> QED
    BY <1>1, <1>3, <2>1, OneReopener
<1>9. "RW" \in flag[s]
  <2> SUFFICES ASSUME "RW" \notin flag[s] PROVE FALSE
    OBVIOUS
  <2>1. PICK u \in Threads : s \in Marking(u)
    BY <1>1 DEF Core, Marked
  <2>2. s \in Has(u) /\ pc[u] # "idle"
    BY <2>1 DEF Marking, Has
  <2> QED
    BY <1>3, <1>8, <2>2
<1>10. /\ Work(t)' = {s} /\ Rest(t)' = {} /\ Closing(t)' = {} /\ ~Ready(t)'
  BY <1>1, <1>2, <1>3, <1>7 DEF Work, Rest, Walks, Closing, Ready
<1>11. /\ Has(t) = mine[t] /\ Open(t) = mine[t] /\ Marking(t) = {}
       /\ Has(t)' = mine[t] \cup {s} /\ Open(t)' = mine[t]
  BY <1>3, <1>4, <1>10, Idle DEF Has, Open
<1>12. Parted(t)' /\ Listed(t)'
  <2>1. Parted(t)'
    BY <1>4, <1>10 DEF Parted
  <2>2. OthersOpen(t)' <=> OthersOpen(t)
    BY <1>1, OthersOpenStays
  <2>3. Listed(t)'
    BY <1>1, <1>3, <1>4, <1>10, <2>2, Its DEF Listed
  <2> QED
    BY <2>1, <2>3
<1>13. Placed(t)' /\ Passing(t)'
  BY <1>1, <1>2, <1>3, Its, StillPassing DEF Placed
<1>14. Reopens(t)'
  BY <1>1, OthersOpenStays DEF Reopens
<1>15. Core'
  <2>1. OthersHad(t)
    BY <1>1, <1>5, OthersHave DEF From
  <2>2. \A u \in Threads : Placed(u)' /\ Passing(u)'
    BY <1>1, <1>5, <1>13, OthersPlaced, OthersPass DEF Core, From
  <2>3. \A u \in Threads : Reopens(u)'
    BY <1>5, <1>14, <2>1, OthersReopen DEF Core
  <2>4. Lists'
    BY <1>1, <1>7 DEF Lists, Distinct, Contains
  <2>5. Owned'
    <3>1. \A u \in Threads \ {t} : Listed(u)'
      BY <1>1, <1>5, <2>1, OthersListed DEF Core
    <3> QED
      BY <1>1, <1>8, <1>11, <1>12, <2>1, <3>1, OwnedKeeps DEF Core
  <2>6. Usable'
    <3>1. \A u \in Threads : \A r \in Open(u) : "RW" \in flag'[r] /\ handle'[r] \in opened' \ {0}
      BY <1>1 DEF Core, Usable
    <3>2. \A q, r \in Open(t)' : handle'[q] = handle'[r] => q = r
      BY <1>1, <1>11 DEF Core, Usable
    <3>3. \A q \in Open(t)' : \A u \in Threads \ {t} : \A r \in Open(u) : handle'[q] # handle[r]
      <4> SUFFICES ASSUME NEW q \in Open(t), NEW u \in Threads \ {t}, NEW r \in Open(u)
                   PROVE  handle[q] # handle[r]
        BY <1>1, <1>11
      <4>1. q # r
        BY Disjoint DEF Core
      <4> QED
        BY <4>1 DEF Core, Usable
    <3> QED
      BY <1>1, <1>11, <2>1, <3>1, <3>2, <3>3, UsableKeeps DEF Core
  <2>7. Clean'
    <3>1. Closing(t) = {}
      BY <1>3, Idle
    <3> QED
      BY <1>1, <1>10, <1>11, <2>1, <3>1, CleanKeeps DEF Core
  <2>8. Marked'
    BY <1>1, <1>11, <2>1, MarkedKeeps DEF Core
  <2> QED
    BY <2>2, <2>3, <2>4, <2>5, <2>6, <2>7, <2>8 DEF Core
<1>16. Locking'
  BY <1>1, <1>3, <1>5, LockingStays DEF HasIOB, HasFile
<1> QED
  BY <1>6, <1>15, <1>16 DEF Kept

\* close_file puts a stream that was closed back on the open list.
LEMMA CloseFileKeeps ==
    ASSUME TypeOK, Core, Locking, NEW t \in Threads, program' = program, CloseFile(t),
           ~Contains(ostream, fp[t])
    PROVE  Kept
<1> DEFINE x == fp[t]
<1>1. pc[t] = "closefile" /\ Locks!Lock(t, IOB)
  BY DEF CloseFile, At
<1>2. op[t] = "freopen" /\ x # None
  BY <1>1, Its DEF Placed
<1>3. "RW" \in flag[x] /\ x \in Streams /\ Work(t) = {x}
  BY <1>1, <1>2, OnIt DEF Elsewhere
<1>4. Contains(cstream, x) /\ ~OthersOpen(t)
  BY <1>3, Its DEF Listed
<1>5. /\ cstream' = Unlinked(cstream, x) /\ ostream' = <<x>> \o ostream
      /\ pc' = [pc EXCEPT ![t] = "unlockiob"]
      /\ UNCHANGED <<program, flag, handle, opened, op, fp, hdl, next, mine, calls>>
  BY <1>4 DEF CloseFile, Goto, files
<1>6. pc'[t] = "unlockiob" /\ pc' \in [Threads -> Labels] /\ OthersStay(t)
  BY <1>5, TypesAre DEF Labels, OthersStay
<1>7. ostream \in Seq(Streams) /\ cstream \in Seq(Streams) /\ Lists
  BY Its DEF Core
<1>8. /\ ostream' \in Seq(Streams) /\ Distinct(ostream')
      /\ \A y : Contains(ostream', y) <=> y = x \/ Contains(ostream, y)
      /\ \A y : y # x => FromOn(ostream', y) = From(y)
  BY <1>3, <1>5, <1>7, Pushed, PushedOnce DEF Lists, From
<1>9. /\ cstream' \in Seq(Streams) /\ Distinct(cstream')
      /\ \A y : Contains(cstream', y) <=> Contains(cstream, y) /\ y # x
  BY <1>4, <1>5, <1>7, Gone DEF Lists
<1>10. Lists'
  BY <1>7, <1>8, <1>9 DEF Lists
<1>11. /\ Work(t)' = {x} /\ Rest(t) = {} /\ Rest(t)' = {} /\ Closing(t)' = {} /\ Marking(t) = {}
       /\ ~Ready(t) /\ ~Ready(t)'
  BY <1>1, <1>2, <1>5, <1>6 DEF Work, Rest, Walks, Closing, Marking, Ready
<1>12. /\ Has(t) = mine[t] \cup {x} /\ Has(t)' = mine[t] \cup {x} /\ Open(t) = mine[t] /\ Open(t)' = mine[t]
       /\ x \notin mine[t]
  BY <1>3, <1>5, <1>11, Its DEF Has, Open, Parted
<1>13. Parted(t)' /\ Listed(t)'
  BY <1>5, <1>8, <1>11, <1>12, Its DEF Parted, Listed
<1>14. Placed(t)' /\ Passing(t)'
  <2>1. Placed(t)'
    BY <1>1, <1>2, <1>5, <1>6, Its DEF Placed
  <2>2. ~Walks(t)' /\ ~Visits(t)'
    BY <1>2, <1>5 DEF Walks, Visits
  <2> QED
    BY <2>1, <2>2 DEF Passing
<1>15. Reopens(t)'
  BY <1>4, <1>5, OthersOpenStays DEF Reopens
<1>16. \A u \in Threads \ {t} : x \notin Has(u) /\ ~Visits(u)
  <2>1. \A u \in Threads \ {t} : held[u][IOB] = 0
    BY <1>1 DEF Locks!Lock
  <2> QED
    BY <1>12, <2>1, NobodyVisits, Disjoint DEF Core
<1>17. Locking' /\ held' \in [Threads -> Holding]
  <2>1. ~HasIOB(t) /\ HasIOB(t)' /\ HasFile(t) /\ HasFile(t)'
    BY <1>1, <1>2, <1>5, <1>6 DEF HasIOB, HasFile
  <2>2. hdl[t] # IOB
    BY Its, HandlesAre
  <2>3. /\ Held(t, IOB) = 0 /\ Held(t, IOB)' = 1
        /\ \A y \in Objects : y # IOB => Held(t, y)' = Held(t, y)
    BY <1>5, <2>1, <2>2 DEF Held
  <2> QED
    BY <1>1, <1>6, <2>3, HandlesAre, Locked
<1>18. TypeOK'
  BY <1>5, <1>6, <1>8, <1>9, <1>17, TypesAre, TypesAfter
<1>19. Core'
  <2>1. \A y : y # x => /\ Contains(ostream', y) <=> Contains(ostream, y)
                        /\ Contains(cstream', y) => Contains(cstream, y)
                        /\ Contains(cstream, y) => Contains(cstream', y)
                        /\ x \notin From(y) => FromOn(ostream', y) = From(y)
    BY <1>8, <1>9
  <2>2. Moves(t, x)
    BY <1>3, <1>5, <1>6, <1>10, <1>11, <1>12, <1>13, <1>14, <1>15, <1>16, <2>1 DEF Moves
  <2> HIDE DEF x
  <2> QED
    BY <1>3, <1>18, <2>2, MovesKeep
<1> QED
  BY <1>17, <1>18, <1>19 DEF Kept
-------------------------------------------------------------------------------
\* A list of all the elements of a finite set, each of them once.
LEMMA AllOnce ==
    ASSUME NEW S \in SUBSET Streams, NEW q \in SetToSeqs(S)
    PROVE  /\ q \in Seq(Streams) /\ Distinct(q)
           /\ \A s : Contains(q, s) <=> s \in S
<1> DEFINE n == Cardinality(S)
<1>1. IsFiniteSet(S) /\ n \in Nat
  BY StreamsAssumption, FS_Subset, FS_CardinalityType
<1>2. q \in [1..n -> S] /\ \A i, j \in 1..n : q[i] = q[j] => i = j
  BY DEF SetToSeqs
<1>3. IsFiniteSet(1..n) /\ Cardinality(1..n) = n
  BY <1>1, FS_Interval
<1>4. q \in Injection(1..n, S)
  BY <1>2 DEF Injection, IsInjective
<1>5. q \in Surjection(1..n, S)
  BY <1>1, <1>3, <1>4, FS_Injection
<1>6. \A s \in S : \E i \in 1..n : q[i] = s
  BY <1>5 DEF Surjection
<1> HIDE DEF n
<1>7. q \in Seq(Streams) /\ Len(q) = n
  BY <1>1, <1>2
<1> QED
  BY <1>2, <1>6, <1>7 DEF Distinct, Contains

LEMMA InitHolds ==
    ASSUME OneOpener, Init
    PROVE  TypeOK /\ Core /\ Locking
<1>1. program \in Programs /\ mine = program.given
  BY DEF Init
<1>2. /\ mine \in [Threads -> SUBSET Streams]
      /\ \A t, u \in Threads : t # u => mine[t] \cap mine[u] = {}
  BY <1>1, StreamsAssumption
<1>3. UNION {mine[t] : t \in Threads} \in SUBSET Streams
  BY <1>2
<1>4. /\ ostream \in Seq(Streams) /\ Distinct(ostream)
      /\ \A s : Contains(ostream, s) <=> s \in UNION {mine[t] : t \in Threads}
  BY <1>3, AllOnce DEF Init
<1>5. cstream = << >> /\ cstream \in Seq(Streams) /\ Distinct(cstream) /\ \A s : ~Contains(cstream, s)
  BY DEF Init, Distinct, Contains
<1>6. /\ flag \in [Streams -> Flags]
      /\ \A s \in Streams : "DIRTY" \notin flag[s] /\ (Contains(ostream, s) => "RW" \in flag[s])
  BY DEF Init, Flags
<1>7. PICK hs \in Injection(ToSet(ostream), Handles) :
         /\ handle = [s \in Streams |-> IF Contains(ostream, s) THEN hs[s] ELSE 0]
         /\ opened = {0} \cup Range(hs)
  BY DEF Init
<1>8. /\ hs \in [ToSet(ostream) -> Handles] /\ \A a, b \in ToSet(ostream) : hs[a] = hs[b] => a = b
  BY <1>7 DEF Injection, IsInjective
<1>9. \A s : Contains(ostream, s) <=> s \in ToSet(ostream)
  BY <1>4 DEF Contains, ToSet
<1>10. /\ handle \in [Streams -> Values] /\ opened \subseteq Handles \cup {0}
       /\ \A s \in Streams : Contains(ostream, s) => handle[s] \in opened \ {0}
       /\ \A s, r \in Streams : Contains(ostream, s) /\ Contains(ostream, r) /\ handle[s] = handle[r] => s = r
  <2>1. \A s \in Streams : Contains(ostream, s) => handle[s] = hs[s] /\ hs[s] \in Handles /\ hs[s] \in Range(hs)
    BY <1>7, <1>8, <1>9 DEF Range
  <2>2. handle \in [Streams -> Values]
    BY <1>7, <1>8, <1>9, HandlesAre
  <2>3. opened \subseteq Handles \cup {0}
    BY <1>7, <1>8 DEF Range
  <2>4. \A s \in Streams : Contains(ostream, s) => handle[s] \in opened \ {0}
    BY <1>7, <2>1, HandlesAre
  <2>5. \A s, r \in Streams : Contains(ostream, s) /\ Contains(ostream, r) /\ handle[s] = handle[r] => s = r
    BY <1>8, <1>9, <2>1
  <2> QED
    BY <2>2, <2>3, <2>4, <2>5
<1>11. /\ held \in [Threads -> Holding] /\ \A t \in Threads : \A o \in Objects : held[t][o] = 0
       /\ pc \in [Threads -> Labels] /\ op \in [Threads -> Kinds]
       /\ fp \in [Threads -> Maybe] /\ next \in [Threads -> Maybe] /\ hdl \in [Threads -> Values]
       /\ calls \in [Threads -> 0..MaxCalls]
  BY StreamsAssumption, HandlesAre DEF Init, Holding, Labels, Kinds, Maybe
<1>12. \A t \in Threads : pc[t] = "idle"
  BY DEF Init
<1>13. TypeOK
  BY <1>1, <1>2, <1>4, <1>5, <1>6, <1>10, <1>11, TypesAre
<1>14. \A t \in Threads : /\ Work(t) = {} /\ Rest(t) = {} /\ Has(t) = mine[t] /\ Open(t) = mine[t]
                          /\ Marking(t) = {} /\ Closing(t) = {} /\ ~HasIOB(t) /\ ~HasFile(t)
  BY <1>12, Idle
<1>15. \A t \in Threads : Placed(t)
  BY <1>12 DEF Placed
<1>16. \A t \in Threads : Passing(t)
  BY <1>12 DEF Passing, Walks, Visits
<1>17. Lists /\ Clean /\ Marked
  BY <1>4, <1>5, <1>6 DEF Lists, Clean, Marked
<1>18. Owned
  <2>1. \A t \in Threads : Parted(t)
    BY <1>14 DEF Parted
  <2>2. \A t \in Threads : Listed(t)
    BY <1>4, <1>14 DEF Listed
  <2>3. \A s \in Streams : Contains(ostream, s) => \E t \in Threads : s \in Has(t)
    BY <1>4, <1>14
  <2> QED
    BY <1>2, <1>14, <2>1, <2>2, <2>3 DEF Owned
<1>19. Usable
  <2>1. \A t \in Threads : \A s \in Open(t) : s \in Streams /\ Contains(ostream, s)
    BY <1>2, <1>4, <1>14
  <2> QED
    BY <1>6, <1>10, <2>1 DEF Usable
<1>20. Locking
  BY <1>11, <1>14 DEF Locking, Held
<1>21. \A t \in Threads : Reopens(t)
  <2> SUFFICES ASSUME NEW t \in Threads, "freopen" \in program.may[t], OthersOpen(t)
               PROVE  mine[t] \cap Static = {}
    BY <1>14 DEF Reopens
  <2>1. PICK o \in Threads : \A u \in Threads \ {o} :
                /\ "fopen" \notin program.may[u]
                /\ "freopen" \in program.may[u] => program.given[u] \cap Static = {}
    BY <1>1 DEF OneOpener, OpensAlone
  <2>2. t # o
    BY <2>1 DEF OthersOpen
  <2> QED
    BY <1>1, <2>1, <2>2
<1> QED
  BY <1>13, <1>21, <1>15, <1>16, <1>17, <1>18, <1>19, <1>20 DEF Core

-------------------------------------------------------------------------------
LEMMA TameKeeps ==
    ASSUME TypeOK, Core, NEW t \in Threads, Tame(t)
    PROVE  Kept
BY QuietKeeps DEF Tame, Kept

LEMMA StepKeeps ==
    ASSUME OneOpener, TypeOK, Core, Locking, NEW t \in Threads, program' = program, Step(t)
    PROVE  Kept
<1>1. CASE TakeClosed(t) \/ TakeStatic(t) \/ TakeDynamic(t)
  BY <1>1, TakeClosedKeeps, TakeStaticKeeps, TakeDynamicKeeps
<1>2. CASE NoMem(t)
  BY <1>2, NoMemTame, TameKeeps
<1>3. CASE Mark(t) \/ SetFlags(t)
  BY <1>3, MarkTame, SetFlagsTame, TameKeeps
<1>4. CASE Sopened(t) \/ SopenFails(t)
  BY <1>4, SopenedKeeps, SopenFailsKeeps
<1>5. CASE FreeFp(t)
  BY <1>5, FreeFpKeeps
<1>6. CASE Lookup(t) \/ DoClose(t)
  BY <1>6, LookupTame, DoCloseTame, TameKeeps
<1>7. CASE Flush(t)
  BY <1>7, FlushTame, FlushOneTame, TameKeeps
<1>8. CASE Close(t)
  BY <1>8, CloseKeeps
<1>9. CASE LockIOB(t) \/ Visit(t) \/ Visited(t)
  BY <1>9, LockIOBTame, VisitTame, VisitedTame, TameKeeps
<1>10. CASE Walk(t)
  BY <1>10, WalkTame, TameKeeps
<1>11. CASE LockFile(t)
  BY <1>11, LockFileTame, TameKeeps
<1>12. CASE CloseFile(t)
  BY <1>12, CloseFileTame, CloseFileKeeps, TameKeeps
<1>13. CASE UnlockIOB(t) \/ ResetFlags(t)
  BY <1>13, UnlockIOBTame, ResetFlagsTame, TameKeeps
<1>14. CASE UnlockFile(t)
  BY <1>14, UnlockFileTame, TameKeeps
<1> QED
  BY <1>1, <1>2, <1>3, <1>4, <1>5, <1>6, <1>7, <1>8, <1>9, <1>10, <1>11, <1>12, <1>13, <1>14 DEF Step

LEMMA CallsKeep ==
    ASSUME OneOpener, TypeOK, Core, Locking, NEW t \in Threads, program' = program, Calls(t)
    PROVE  Kept
<1>1. CASE FOpen(t)
  BY <1>1, FOpenTame, TameKeeps
<1>2. CASE FlushAll(t)
  BY <1>2, FlushAllTame, TameKeeps
<1>3. CASE FCloseAll(t)
  BY <1>3, FCloseAllTame, TameKeeps
<1>4. ASSUME NEW s \in Streams, FClose(t, s) PROVE Kept
  BY <1>4, FCloseTame, TameKeeps
<1>5. ASSUME NEW s \in Streams, FReopen(t, s) PROVE Kept
  <2>1. CASE s \in mine[t]
    BY <1>5, <2>1, FReopenTame, TameKeeps
  <2>2. CASE s \notin mine[t]
    BY <1>5, <2>2, FReopenKeeps
  <2> QED
    BY <2>1, <2>2
<1>6. ASSUME NEW s \in Streams, FPutc(t, s) PROVE Kept
  BY <1>6, FPutcTame, TameKeeps
<1> QED
  BY <1>1, <1>2, <1>3, <1>4, <1>5, <1>6 DEF Calls

LEMMA NothingHappens ==
    ASSUME TypeOK, Core, Locking, UNCHANGED vars
    PROVE  Kept
<1>1. /\ UNCHANGED <<program, ostream, cstream, flag, handle, opened, held, pc, op, fp, hdl, next, mine, calls>>
  BY DEF vars, lists, files, locals
<1>2. \A t \in Threads : OthersStay(t) /\ (HasIOB(t)' <=> HasIOB(t)) /\ (HasFile(t)' <=> HasFile(t))
  BY <1>1 DEF OthersStay, HasIOB, HasFile
<1>3. TypeOK'
  BY <1>1 DEF TypeOK
<1>4. Locking'
  BY <1>1 DEF Locking, Held, HasIOB, HasFile
<1>5. \A t : /\ Rest(t)' = Rest(t) /\ Work(t)' = Work(t) /\ Has(t)' = Has(t) /\ Open(t)' = Open(t)
             /\ Marking(t)' = Marking(t) /\ Closing(t)' = Closing(t)
             /\ OthersOpen(t)' = OthersOpen(t)
  <2> SUFFICES ASSUME NEW t
               PROVE  /\ Rest(t)' = Rest(t) /\ Work(t)' = Work(t) /\ Has(t)' = Has(t) /\ Open(t)' = Open(t)
                      /\ Marking(t)' = Marking(t) /\ Closing(t)' = Closing(t)
                      /\ OthersOpen(t)' = OthersOpen(t)
    OBVIOUS
  <2>1. Rest(t)' = Rest(t) /\ Work(t)' = Work(t)
    BY <1>1 DEF Rest, From, Walks, Cursor, Work
  <2>2. Ready(t)' <=> Ready(t)
    BY <1>1 DEF Ready
  <2> QED
    BY <1>1, <2>1, <2>2, OthersOpenStays DEF Has, Open, Marking, Closing
<1>6. \A t \in Threads : Placed(t)' /\ Passing(t)' /\ Reopens(t)'
  <2> SUFFICES ASSUME NEW t \in Threads PROVE Placed(t)' /\ Passing(t)' /\ Reopens(t)'
    OBVIOUS
  <2>1. Placed(t)'
    BY <1>1 DEF Core, Placed
  <2>2. Passing(t)'
    <3>1. Passing(t)
      BY DEF Core
    <3> QED
      BY <1>1, <3>1 DEF Passing, Walks, Cursor, Visits, From
  <2>3. Reopens(t)'
    BY <1>1, <1>5 DEF Core, Reopens
  <2> QED
    BY <2>1, <2>2, <2>3
<1>7. Lists'
  BY <1>1 DEF Core, Lists, Distinct, Contains
<1>8. Owned'
  <2>1. \A t \in Threads : Parted(t)' /\ Listed(t)'
    BY <1>1, <1>5 DEF Core, Owned, Parted, Listed
  <2> QED
    BY <1>1, <1>5, <2>1 DEF Core, Owned
<1>9. Usable' /\ Clean' /\ Marked'
  BY <1>1, <1>5 DEF Core, Usable, Clean, Marked
<1> QED
  BY <1>3, <1>4, <1>6, <1>7, <1>8, <1>9 DEF Kept, Core

\* All of it is one inductive invariant.
LEMMA InvIs == IInv <=> Core /\ Locking
BY DEF IInv, Core

LEMMA NextKeeps ==
    ASSUME OneOpener
    PROVE  TypeOK /\ IInv /\ [Next]_vars => TypeOK' /\ IInv'
<1> SUFFICES ASSUME TypeOK, Core, Locking, [Next]_vars PROVE Kept
  BY InvIs DEF Kept, IInv, Core
<1>1. CASE Next
  <2>1. PICK t \in Threads : Step(t) \/ Calls(t)
    BY <1>1 DEF Next
  <2>2. program' = program
    BY <1>1 DEF Next
  <2> QED
    BY <2>1, <2>2, StepKeeps, CallsKeep
<1>2. CASE UNCHANGED vars
  BY <1>2, NothingHappens
<1> QED
  BY <1>1, <1>2

LEMMA BothHold ==
    ASSUME OneOpener
    PROVE  Spec => [](TypeOK /\ IInv)
<1>1. Init => TypeOK /\ IInv
  BY InitHolds, InvIs
<1>2. TypeOK /\ IInv /\ [Next]_vars => TypeOK' /\ IInv'
  BY NextKeeps
<1> QED
  BY <1>1, <1>2, PTL DEF Spec

-------------------------------------------------------------------------------
(***************************************************************************)
(* The theorems.                                                           *)
(***************************************************************************)

\* The lists, flags, handles and the variables of each call are of their kinds,
\* and no thread takes a semaphore more and more often: what a call takes it has
\* given back when it returns.
THEOREM TypeCorrect ==
    ASSUME OneOpener
    PROVE  Spec => []TypeOK
BY BothHold, PTL

LEMMA IntactNow ==
    ASSUME TypeOK, IInv
    PROVE  StreamIntact
<1>1. Core
  BY InvIs
<1> SUFFICES ASSUME NEW t \in Threads, NEW s \in mine[t]
             PROVE  /\ Contains(ostream, s) /\ "RW" \in flag[s] /\ handle[s] \in opened \ {0}
                    /\ \A u \in Threads : \A r \in mine[u] :
                          r # s \/ u # t => r # s /\ handle[r] # handle[s]
  BY DEF StreamIntact
<1>2. \A u \in Threads : mine[u] \subseteq Open(u) /\ mine[u] \subseteq Has(u)
  BY DEF Open, Has
<1>3. Contains(ostream, s)
  BY <1>1, Its DEF Listed
<1>4. "RW" \in flag[s] /\ handle[s] \in opened \ {0}
  BY <1>1, <1>2 DEF Core, Usable
<1>5. ASSUME NEW u \in Threads, NEW r \in mine[u], r # s \/ u # t
      PROVE  r # s /\ handle[r] # handle[s]
  <2>1. r # s
    BY <1>1, <1>2, <1>5 DEF Core, Owned
  <2>2. s \in Open(t) /\ r \in Open(u)
    BY <1>2
  <2> QED
    BY <1>1, <2>1, <2>2 DEF Core, Usable
<1> QED
  BY <1>3, <1>4, <1>5

\* fopen gives a thread a stream and a handle that are no other thread's, and
\* nothing the others open, close, reopen or flush takes them from it.
THEOREM StreamsIntact ==
    ASSUME OneOpener
    PROVE  Spec => []StreamIntact
<1>1. TypeOK /\ IInv => StreamIntact
  BY IntactNow
<1> QED
  BY <1>1, BothHold, PTL

-------------------------------------------------------------------------------
LEMMA OpenIsListed ==
    ASSUME TypeOK, Core, NEW t \in Threads, NEW s \in Open(t)
    PROVE  Contains(ostream, s)
<1>1. s \in Has(t)
  BY Its, HasWhat
<1>2. CASE s \in mine[t] \cup Rest(t)
  BY <1>2, Its, FromListed DEF Listed, Rest, From
<1>3. CASE s \in Work(t) /\ Ready(t)
  <2>1. Contains(ostream, s) \/ pc[t] \in {"lockfile", "closefile"}
    BY <1>3, Its DEF Listed
  <2>2. s = fp[t]
    BY <1>3 DEF Work
  <2> QED
    BY <1>3, <2>1, <2>2 DEF Ready
<1> QED
  BY <1>2, <1>3 DEF Open

\* A step that opens or closes a handle is not about a stream with characters
\* in its buffer.
LEMMA HandleStays ==
    ASSUME TypeOK, Core, Locking, NEW t \in Threads, program' = program, Step(t) \/ Calls(t),
           NEW s \in Streams, "DIRTY" \in flag[s]
    PROVE  handle'[s] = handle[s] /\ (handle[s] \in opened => handle[s] \in opened')
<1> DEFINE Stays == handle'[s] = handle[s] /\ (handle[s] \in opened => handle[s] \in opened')
<1>1. PICK v \in Threads : s \in Open(v) \ Closing(v)
  BY DEF Core, Clean
<1>2. Contains(ostream, s) /\ "RW" \in flag[s]
  BY <1>1, OpenIsListed DEF Core, Usable
<1>3. ASSUME handle' = handle, opened' = opened PROVE Stays
  BY <1>3
<1>4. ASSUME Quiet(t) PROVE Stays
  BY <1>3, <1>4 DEF Quiet
<1>5. ASSUME NEW x \in Streams, NEW flags, GotOne(t, x, flags), x # s PROVE Stays
  BY <1>5, TypesAre DEF GotOne
<1>6. CASE TakeClosed(t)
  <2>1. cstream # << >> /\ Head(cstream) \in Streams /\ Contains(cstream, Head(cstream))
    BY <1>6, Its, Behead DEF TakeClosed, Core, Lists
  <2>2. Head(cstream) # s
    BY <1>2, <2>1 DEF Core, Lists
  <2> QED
    BY <1>5, <1>6, <2>1, <2>2 DEF TakeClosed
<1>7. CASE TakeStatic(t)
  <2>1. PICK x \in Available : GotOne(t, x, {"RW"})
    BY <1>7 DEF TakeStatic
  <2>2. x \in Streams /\ x # s
    BY <1>2, HandlesAre DEF Available
  <2> QED
    BY <1>5, <2>1, <2>2
<1>8. CASE TakeDynamic(t)
  <2>1. PICK x \in Streams \ Static : ~Contains(ostream, x) /\ GotOne(t, x, {"RW", "DYNAMIC"})
    BY <1>8 DEF TakeDynamic
  <2>2. x # s
    BY <1>2, <2>1
  <2> QED
    BY <1>5, <2>1, <2>2
<1>9. ASSUME pc[t] = "sopen" PROVE fp[t] \in Streams /\ fp[t] # s
  <2>1. op[t] \in {"fopen", "freopen"} /\ fp[t] # None
    BY <1>9, Its DEF Placed
  <2>2. fp[t] \in Streams /\ Work(t) = {fp[t]}
    BY <1>9, <2>1, OnIt DEF Elsewhere
  <2>3. fp[t] \in Has(t) /\ fp[t] \notin Open(t)
    BY <1>9, <2>2, Its DEF Has, Open, Parted, Ready
  <2> QED
    BY <1>1, <2>2, <2>3, Disjoint DEF Core
<1>10. CASE Sopened(t)
  <2>1. PICK h \in Handles : opened' = opened \cup {h} /\ handle' = [handle EXCEPT ![fp[t]] = h]
    BY <1>10 DEF Sopened
  <2> QED
    BY <1>9, <1>10, <2>1, TypesAre DEF Sopened, At
<1>11. CASE SopenFails(t)
  BY <1>9, <1>11, TypesAre DEF SopenFails, At
<1>12. CASE Close(t)
  <2>1. pc[t] = "close" /\ handle' = handle /\ opened' = opened \ {handle[fp[t]]}
    BY <1>12 DEF Close, At
  <2>2. op[t] \in {"fclose", "fcloseall", "freopen"} /\ fp[t] # None
    BY <2>1, Its DEF Placed
  <2>3. Work(t) = {fp[t]}
    BY <2>1, <2>2, OnIt DEF Elsewhere
  <2>4. fp[t] \in Open(t) /\ fp[t] \in Closing(t)
    BY <2>1, <2>3 DEF Open, Closing, Ready
  <2>5. s # fp[t]
    BY <1>1, <2>4, Disjoint DEF Core
  <2>6. handle[s] # handle[fp[t]]
    BY <1>1, <2>4, <2>5 DEF Core, Usable
  <2> QED
    BY <2>1, <2>6
<1>13. CASE FreeFp(t)
  BY <1>3, <1>13 DEF FreeFp, AfterFree
<1>14. CASE CloseFile(t)
  BY <1>3, <1>14 DEF CloseFile, files
<1>15. CASE NoMem(t) \/ Mark(t) \/ SetFlags(t) \/ Lookup(t) \/ DoClose(t) \/ Flush(t)
  BY <1>4, <1>15, NoMemTame, MarkTame, SetFlagsTame, LookupTame, DoCloseTame, FlushTame, FlushOneTame DEF Tame
<1>16. CASE LockIOB(t) \/ Visit(t) \/ Visited(t) \/ Walk(t)
  BY <1>4, <1>16, LockIOBTame, VisitTame, VisitedTame, WalkTame DEF Tame
<1>17. CASE LockFile(t) \/ UnlockIOB(t) \/ ResetFlags(t) \/ UnlockFile(t)
  BY <1>4, <1>17, LockFileTame, UnlockIOBTame, ResetFlagsTame, UnlockFileTame DEF Tame
<1>18. CASE Step(t)
  BY <1>6, <1>7, <1>8, <1>10, <1>11, <1>12, <1>13, <1>14, <1>15, <1>16, <1>17, <1>18 DEF Step
<1>19. CASE Calls(t)
  <2>1. CASE FOpen(t) \/ FlushAll(t) \/ FCloseAll(t)
    BY <1>3, <2>1 DEF FOpen, FlushAll, FCloseAll, files
  <2>2. CASE \E r \in Streams : FClose(t, r) \/ FReopen(t, r) \/ FPutc(t, r)
    BY <1>3, <2>2 DEF FClose, FReopen, FPutc, files
  <2> QED
    BY <1>19, <2>1, <2>2 DEF Calls
<1> QED
  BY <1>18, <1>19

\* The handle of a stream with characters in its buffer is neither closed nor
\* replaced before they are written, whoever closes and reopens streams.
THEOREM DataIsKept ==
    ASSUME OneOpener
    PROVE  Spec => DataKept
<1>1. TypeOK /\ IInv /\ [Next]_vars =>
         [\A s \in Streams : "DIRTY" \in flag[s] /\ handle[s] \in opened =>
             handle'[s] = handle[s] /\ handle[s] \in opened']_vars
  <2> SUFFICES ASSUME TypeOK, Core, Locking, Next, NEW s \in Streams, "DIRTY" \in flag[s], handle[s] \in opened
               PROVE  handle'[s] = handle[s] /\ handle[s] \in opened'
    BY InvIs
  <2>1. PICK t \in Threads : Step(t) \/ Calls(t)
    BY DEF Next
  <2> QED
    BY <2>1, HandleStays DEF Next
<1> QED
  BY <1>1, BothHold, PTL DEF Spec, DataKept

LEMMA FlushedNow ==
    ASSUME TypeOK, IInv, NEW t \in Threads, Visited(t), NEW s \in mine[t]
    PROVE  "DIRTY" \notin flag[s]
<1>1. Core
  BY InvIs
<1>2. pc[t] = "visit" /\ fp[t] = None
  BY DEF Visited, At
<1>3. op[t] = "flushall"
  BY <1>1, <1>2, Its DEF Placed
<1>4. "DIRTY" \in flag[s] => s \in From(None)
  BY <1>1, <1>2, <1>3, Its DEF Passing, Visits
<1> QED
  BY <1>1, <1>4, Its, NoneIsLast DEF From

\* When flushall returns it has written what its thread had in buffers, also when
\* others open and close streams while it waits for the semaphore of a handle.
THEOREM AllIsFlushed ==
    ASSUME OneOpener
    PROVE  Spec => AllFlushed
<1>1. TypeOK /\ IInv =>
         [\A t \in Threads : Visited(t) => \A s \in mine[t] : "DIRTY" \notin flag[s]]_vars
  BY FlushedNow
<1> QED
  BY <1>1, BothHold, PTL DEF Spec, AllFlushed
=============================================================================
