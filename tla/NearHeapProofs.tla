---------------------------- MODULE NearHeapProofs ----------------------------
(***************************************************************************)
(* The theorems about the near heap, from what a split or a merge does to  *)
(* a list of tags up to what each action does to the heap.                 *)
(***************************************************************************)
EXTENDS NearHeapInv, FiniteSetTheorems, SequenceTheorems, WellFoundedInduction, TLAPS

-------------------------------------------------------------------------------
\* Numbers, and lists that rise.

\* A set of naturals that is not empty has a least number.
LEMMA Least ==
    ASSUME NEW S \in SUBSET Nat, S # {}
    PROVE  Min(S) \in S /\ \A i \in S : Min(S) <= i
<1> DEFINE R == {ss \in Nat \X Nat : ss[1] < ss[2]}
<1>1. IsWellFoundedOn(R, Nat)  BY NatLessThanWellFounded DEF OpToRel
<1>2. PICK x \in S : \A y \in S : ~(<<y, x>> \in R)  BY <1>1, WFMin
<1>3. \A y \in S : ~(y < x)  BY <1>2
<1>4. \A y \in S : x <= y  BY <1>3
<1> QED  BY <1>4 DEF Min

\* One that is bounded has a greatest number.
LEMMA Greatest ==
    ASSUME NEW B \in Nat, NEW S \in SUBSET (0..B), S # {}
    PROVE  Max(S) \in S /\ \A i \in S : i <= Max(S)
<1> DEFINE D == {B - i : i \in S}
<1>1. \A i \in S : i \in Int /\ B - i \in Nat  OBVIOUS
<1>6. D \in SUBSET Nat /\ D # {}  BY <1>1
<1>2. Min(D) \in D /\ \A d \in D : Min(D) <= d  BY <1>6, Least
<1>3. PICK x \in S : Min(D) = B - x  BY <1>2
<1>4. \A y \in S : B - x <= B - y  BY <1>2, <1>3
<1>5. \A y \in S : x >= y  BY <1>1, <1>4
<1> QED  BY <1>5 DEF Max

LEMMA MaxOfTwo ==
    ASSUME NEW a \in Int, NEW b \in Int
    PROVE  Max({a, b}) = IF a >= b THEN a ELSE b
  BY DEF Max

\* The index of an element of a list that rises.
LEMMA IndexIs ==
    ASSUME NEW q \in Seq(Nat), Rising(q), NEW i \in 1..Len(q)
    PROVE  IndexIn(q, q[i]) = i
<1>1. IndexIn(q, q[i]) \in 1..Len(q) /\ q[IndexIn(q, q[i])] = q[i]  BY DEF IndexIn
<1>2. \A j \in 1..Len(q) : j < i \/ j = i \/ i < j  OBVIOUS
<1>3. \A j \in 1..Len(q) : q[j] \in Nat  OBVIOUS
<1> QED  BY <1>1, <1>2, <1>3 DEF Rising

LEMMA IndexOf ==
    ASSUME NEW q \in Seq(Nat), Rising(q), NEW x, Contains(q, x)
    PROVE  IndexIn(q, x) \in 1..Len(q) /\ q[IndexIn(q, x)] = x /\ x \in Nat
  BY IndexIs DEF Contains

\* The order of the elements is that of their indices.
LEMMA Order ==
    ASSUME NEW q \in Seq(Nat), Rising(q), NEW i \in 1..Len(q), NEW j \in 1..Len(q)
    PROVE  /\ q[i] < q[j] <=> i < j
           /\ q[i] = q[j] <=> i = j
<1>1. q[i] \in Nat /\ q[j] \in Nat  OBVIOUS
<1> QED  BY <1>1 DEF Rising

\* The last element is the greatest, the first the least.
LEMMA FirstAndLast ==
    ASSUME NEW q \in Seq(Nat), Rising(q), Len(q) > 0
    PROVE  /\ Contains(q, Last(q)) /\ Contains(q, q[1])
           /\ \A x : Contains(q, x) => x \in Nat /\ x <= Last(q) /\ q[1] <= x
<1>1. Len(q) \in 1..Len(q) /\ 1 \in 1..Len(q)  OBVIOUS
<1>2. ASSUME NEW i \in 1..Len(q) PROVE q[i] \in Nat /\ q[i] <= q[Len(q)] /\ q[1] <= q[i]
  <2>1. q[i] \in Nat /\ q[1] \in Nat /\ q[Len(q)] \in Nat  BY <1>1
  <2>2. i < Len(q) \/ i = Len(q)  OBVIOUS
  <2>3. 1 < i \/ i = 1  OBVIOUS
  <2> QED  BY <1>1, <2>1, <2>2, <2>3 DEF Rising
<1> QED  BY <1>1, <1>2 DEF Contains, Last

\* An element put in between.
LEMMA Inserted ==
    ASSUME NEW q \in Seq(Nat), Rising(q), NEW i \in 1..(Len(q) + 1), NEW x \in Nat,
           i = 1 \/ q[i - 1] < x, i = Len(q) + 1 \/ x < q[i]
    PROVE  LET r == InsertAt(q, i, x)
           IN  /\ r \in Seq(Nat) /\ Rising(r) /\ Len(r) = Len(q) + 1
               /\ r[1] = IF i = 1 THEN x ELSE q[1]
               /\ \A y : Contains(r, y) <=> Contains(q, y) \/ y = x
<1> DEFINE a == SubSeq(q, 1, i - 1)
           b == SubSeq(q, i, Len(q))
           r == InsertAt(q, i, x)
           old(k) == IF k < i THEN k ELSE k - 1
           new(k) == IF k < i THEN k ELSE k + 1
<1>0. Len(q) \in Nat /\ i \in Nat /\ 1 <= i /\ i <= Len(q) + 1 /\ \A k \in 1..Len(q) : q[k] \in Nat
  OBVIOUS
<1>1. a \in Seq(Nat) /\ Len(a) = i - 1 /\ \A k \in 1..(i - 1) : a[k] = q[k]  BY <1>0
<1>2. b \in Seq(Nat) /\ Len(b) = Len(q) - i + 1 /\ \A k \in 1..(Len(q) - i + 1) : b[k] = q[i + k - 1]
  BY <1>0
<1>3. r = (a \o <<x>>) \o b  BY DEF InsertAt
<1> DEFINE c == a \o <<x>>
<1>4. c \in Seq(Nat) /\ Len(c) = i /\ c[i] = x /\ \A k \in 1..(i - 1) : c[k] = q[k]
  BY <1>0, <1>1
<1> HIDE DEF a, b, c, r
<1>5. r \in Seq(Nat) /\ Len(r) = Len(q) + 1
      /\ \A k \in 1..(Len(q) + 1) : r[k] = IF k <= i THEN c[k] ELSE b[k - i]
  BY <1>0, <1>2, <1>3, <1>4, ConcatProperties, SMTT(30) DEF c
<1>6. ASSUME NEW k \in 1..(Len(q) + 1)
      PROVE  r[k] = IF k = i THEN x ELSE q[old(k)]
  <2>1. CASE k <= i  BY <1>0, <1>4, <1>5, <2>1, SMTT(30)
  <2>2. CASE ~(k <= i)
    <3>1. k - i \in 1..(Len(q) - i + 1) /\ i + (k - i) - 1 = k - 1  BY <1>0, <2>2
    <3>2. b[k - i] = q[k - 1]  BY <1>2, <3>1
    <3>3. r[k] = b[k - i] /\ old(k) = k - 1 /\ k # i  BY <1>0, <1>5, <2>2
    <3> QED  BY <3>2, <3>3
  <2> QED  BY <2>1, <2>2
<1>7. \A k \in 1..(Len(q) + 1) : k # i => old(k) \in 1..Len(q) /\ new(old(k)) = k
  BY <1>0
<1>8. \A k \in 1..Len(q) : new(k) \in 1..(Len(q) + 1) /\ new(k) # i /\ old(new(k)) = k
  BY <1>0
<1>9. \A k, l \in 1..(Len(q) + 1) : k # i /\ l # i /\ k < l => old(k) < old(l)  BY <1>0
<1>10. \A k \in 1..Len(q) : (k < i => q[k] < x) /\ (i <= k => x < q[k])
  <2> SUFFICES ASSUME NEW k \in 1..Len(q) PROVE (k < i => q[k] < x) /\ (i <= k => x < q[k])
    OBVIOUS
  <2>1. k < i => k = i - 1 \/ (k < i - 1 /\ i - 1 \in 1..Len(q) /\ q[k] < q[i - 1])
    BY <1>0 DEF Rising
  <2>2. i <= k => k = i \/ (i < k /\ i \in 1..Len(q) /\ q[i] < q[k])  BY <1>0 DEF Rising
  <2>3. k < i => i - 1 \in 1..Len(q) /\ i # 1  BY <1>0
  <2>4. i <= k => i \in 1..Len(q) /\ i # Len(q) + 1  BY <1>0
  <2> QED  BY <1>0, <2>1, <2>2, <2>3, <2>4, SMTT(30)
<1>11. \A k \in 1..(Len(q) + 1) : k # i => /\ (k < i => q[old(k)] < x)
                                            /\ (i < k => x < q[old(k)])
  <2> SUFFICES ASSUME NEW k \in 1..(Len(q) + 1), k # i
               PROVE  (k < i => q[old(k)] < x) /\ (i < k => x < q[old(k)])
    OBVIOUS
  <2>1. old(k) \in 1..Len(q) /\ (k < i => old(k) < i) /\ (i < k => i <= old(k))  BY <1>0
  <2> QED  BY <1>10, <2>1
<1> HIDE DEF old, new
<1>12. ASSUME NEW k \in 1..Len(r), NEW l \in 1..Len(r), k < l PROVE r[k] < r[l]
  <2>1. CASE k # i /\ l # i  BY <1>5, <1>6, <1>7, <1>9, <1>12, <2>1 DEF Rising
  <2>2. CASE k = i
    <3>1. l # i /\ i < l /\ l \in 1..(Len(q) + 1) /\ r[k] = x /\ r[l] = q[old(l)]
      BY <1>5, <1>6, <1>12, <2>2
    <3> QED  BY <1>11, <3>1
  <2>3. CASE l = i
    <3>1. k # i /\ k < i /\ k \in 1..(Len(q) + 1) /\ r[l] = x /\ r[k] = q[old(k)]
      BY <1>5, <1>6, <1>12, <2>3
    <3> QED  BY <1>11, <3>1
  <2> QED  BY <2>1, <2>2, <2>3
<1>13. ASSUME NEW y PROVE Contains(r, y) <=> Contains(q, y) \/ y = x
  <2>1. ASSUME NEW k \in 1..Len(r), r[k] = y PROVE Contains(q, y) \/ y = x
    BY <1>5, <1>6, <1>7, <2>1 DEF Contains
  <2>2. ASSUME y = x PROVE Contains(r, y)  BY <1>0, <1>5, <1>6, <2>2 DEF Contains
  <2>3. ASSUME NEW k \in 1..Len(q), q[k] = y PROVE Contains(r, y)
    <3>1. new(k) \in 1..Len(r) /\ r[new(k)] = y  BY <1>5, <1>6, <1>8, <2>3
    <3> QED  BY <3>1 DEF Contains
  <2> QED  BY <2>1, <2>2, <2>3 DEF Contains
<1>14. r[1] = IF i = 1 THEN x ELSE q[1]
  <2>1. 1 \in 1..(Len(q) + 1)  BY <1>0
  <2> QED  BY <1>0, <1>6, <2>1 DEF old
<1> QED  BY <1>5, <1>12, <1>13, <1>14 DEF Rising, r

\* An element taken out.
LEMMA TakenOut ==
    ASSUME NEW q \in Seq(Nat), Rising(q), NEW x, Contains(q, x)
    PROVE  LET r == Unlink(q, x)
           IN  /\ r \in Seq(Nat) /\ Rising(r) /\ Len(r) = Len(q) - 1
               /\ x # q[1] => r[1] = q[1] /\ Len(r) > 0
               /\ \A y : Contains(r, y) <=> Contains(q, y) /\ y # x
<1> DEFINE i == IndexIn(q, x)
           a == SubSeq(q, 1, i - 1)
           b == SubSeq(q, i + 1, Len(q))
           r == Unlink(q, x)
           old(k) == IF k < i THEN k ELSE k + 1
           new(k) == IF k < i THEN k ELSE k - 1
<1>0. Len(q) \in Nat /\ i \in Nat /\ i \in 1..Len(q) /\ 1 <= i /\ i <= Len(q) /\ q[i] = x
      /\ \A k \in 1..Len(q) : q[k] \in Nat
  BY IndexOf
<1> HIDE DEF i
<1>1. a \in Seq(Nat) /\ Len(a) = i - 1 /\ \A k \in 1..(i - 1) : a[k] = q[k]  BY <1>0
<1>2. b \in Seq(Nat) /\ Len(b) = Len(q) - i /\ \A k \in 1..(Len(q) - i) : b[k] = q[i + k]
  BY <1>0
<1>3. r = a \o b  BY DEF Unlink, RemoveAt, i
<1> HIDE DEF a, b, r
<1>14. /\ r \in Seq(Nat) /\ Len(r) = Len(a) + Len(b)
       /\ \A k \in 1..(Len(a) + Len(b)) : r[k] = IF k <= Len(a) THEN a[k] ELSE b[k - Len(a)]
  BY <1>1, <1>2, <1>3, ConcatProperties
<1>15. Len(a) + Len(b) = Len(q) - 1 /\ Len(a) = i - 1  BY <1>0, <1>1, <1>2
<1>4. r \in Seq(Nat) /\ Len(r) = Len(q) - 1
      /\ \A k \in 1..(Len(q) - 1) : r[k] = IF k <= i - 1 THEN a[k] ELSE b[k - (i - 1)]
  BY <1>14, <1>15
<1>5. ASSUME NEW k \in 1..(Len(q) - 1) PROVE r[k] = q[old(k)]
  <2>1. CASE k < i  BY <1>0, <1>1, <1>4, <2>1
  <2>2. CASE ~(k < i)
    <3>1. k - (i - 1) \in 1..(Len(q) - i) /\ i + (k - (i - 1)) = k + 1 /\ ~(k <= i - 1)
      BY <1>0, <2>2
    <3> QED  BY <1>2, <1>4, <2>2, <3>1
  <2> QED  BY <2>1, <2>2
<1>6. \A k \in 1..(Len(q) - 1) : old(k) \in 1..Len(q) /\ old(k) # i  BY <1>0
<1>7. \A k \in 1..Len(q) : k # i => new(k) \in 1..(Len(q) - 1) /\ old(new(k)) = k
  BY <1>0
<1>8. \A k, l \in 1..(Len(q) - 1) : k < l => old(k) < old(l)  BY <1>0
<1>9. \A k \in 1..Len(q) : q[k] = x <=> k = i  BY <1>0, Order
<1>10. x # q[1] => old(1) = 1 /\ 1 \in 1..(Len(q) - 1) /\ Len(q) - 1 > 0  BY <1>0
<1> HIDE DEF old, new
<1>11. Rising(r)  BY <1>4, <1>5, <1>6, <1>8 DEF Rising
<1>12. ASSUME NEW y PROVE Contains(r, y) <=> Contains(q, y) /\ y # x
  <2>1. ASSUME NEW k \in 1..Len(r), r[k] = y PROVE Contains(q, y) /\ y # x
    BY <1>4, <1>5, <1>6, <1>9, <2>1 DEF Contains
  <2>2. ASSUME NEW k \in 1..Len(q), q[k] = y, y # x PROVE Contains(r, y)
    <3>1. new(k) \in 1..Len(r) /\ r[new(k)] = y  BY <1>4, <1>5, <1>7, <1>9, <2>2
    <3> QED  BY <3>1 DEF Contains
  <2> QED  BY <2>1, <2>2 DEF Contains
<1>13. x # q[1] => r[1] = q[1] /\ Len(r) > 0  BY <1>0, <1>4, <1>5, <1>10
<1> QED  BY <1>4, <1>11, <1>12, <1>13 DEF r

\* An element moved, not past another one.
MayMove(q, i, x) ==
    /\ q \in Seq(Nat) /\ Rising(q) /\ i \in 1..Len(q) /\ i # 1 /\ x \in Nat
    /\ q[i] < x /\ (i = Len(q) \/ x < q[i + 1])

IsMoved(r, q, i, x) ==
    /\ r \in Seq(Nat) /\ Rising(r) /\ Len(r) = Len(q) /\ r[1] = q[1]
    /\ \A y : Contains(r, y) <=> (Contains(q, y) /\ y # q[i]) \/ y = x

LEMMA Moved ==
    ASSUME NEW q, NEW i, NEW x, MayMove(q, i, x)
    PROVE  IsMoved([q EXCEPT ![i] = x], q, i, x)
<1>9. /\ q \in Seq(Nat) /\ Rising(q) /\ i \in 1..Len(q) /\ i # 1 /\ x \in Nat
      /\ q[i] < x /\ (i = Len(q) \/ x < q[i + 1])
  BY DEF MayMove
<1> USE <1>9
<1> DEFINE r == [q EXCEPT ![i] = x]
<1>0. Len(q) \in Nat /\ \A k \in 1..Len(q) : q[k] \in Nat  OBVIOUS
<1>1. r \in Seq(Nat) /\ Len(r) = Len(q) /\ \A k \in 1..Len(q) : r[k] = IF k = i THEN x ELSE q[k]
  OBVIOUS
<1> HIDE DEF r
<1>2. \A k \in 1..Len(q) : (k < i => q[k] < x) /\ (i < k => x < q[k])
  <2> SUFFICES ASSUME NEW k \in 1..Len(q) PROVE (k < i => q[k] < x) /\ (i < k => x < q[k])
    OBVIOUS
  <2>1. k < i => q[k] < q[i]  BY DEF Rising
  <2>2. i < k => k = i + 1 \/ (i + 1 \in 1..Len(q) /\ i + 1 < k)  BY <1>0
  <2>3. i < k => k = i + 1 \/ q[i + 1] < q[k]  BY <2>2 DEF Rising
  <2>4. i < k => i + 1 \in 1..Len(q) /\ i # Len(q)  BY <1>0
  <2> QED  BY <1>0, <2>1, <2>3, <2>4, SMTT(30)
<1>3. ASSUME NEW k \in 1..Len(r), NEW l \in 1..Len(r), k < l PROVE r[k] < r[l]
  <2>1. k \in 1..Len(q) /\ l \in 1..Len(q) /\ q[k] < q[l]  BY <1>1, <1>3 DEF Rising
  <2> QED  BY <1>1, <1>2, <1>3, <2>1, SMTT(30)
<1>4. \A k \in 1..Len(q) : q[k] = q[i] <=> k = i  BY Order
<1>5. ASSUME NEW y PROVE Contains(r, y) <=> (Contains(q, y) /\ y # q[i]) \/ y = x
  <2>1. ASSUME NEW k \in 1..Len(r), r[k] = y PROVE (Contains(q, y) /\ y # q[i]) \/ y = x
    BY <1>1, <1>4, <2>1 DEF Contains
  <2>2. ASSUME NEW k \in 1..Len(q), q[k] = y, y # q[i] PROVE Contains(r, y)
    <3>1. k # i /\ k \in 1..Len(r) /\ r[k] = y  BY <1>1, <2>2
    <3> QED  BY <3>1 DEF Contains
  <2>3. ASSUME y = x PROVE Contains(r, y)
    <3>1. i \in 1..Len(r) /\ r[i] = y  BY <1>1, <2>3
    <3> QED  BY <3>1 DEF Contains
  <2> QED  BY <2>1, <2>2, <2>3 DEF Contains
<1>6. 1 \in 1..Len(q)  BY <1>0
<1>7. Rising(r)  BY <1>3 DEF Rising
<1>8. r[1] = q[1]  BY <1>1, <1>6
<1>10. IsMoved(r, q, i, x)  BY <1>1, <1>5, <1>7, <1>8 DEF IsMoved
<1> QED  BY <1>10 DEF r

\* The next element, round to the first.
LEMMA AfterIs ==
    ASSUME NEW q \in Seq(Nat), Rising(q), NEW x, Contains(q, x)
    PROVE  /\ Contains(q, After(q, x))
           /\ x = Last(q) => After(q, x) = q[1]
           /\ x # Last(q) => /\ x < After(q, x)
                             /\ \A y : Contains(q, y) => y <= x \/ After(q, x) <= y
<1> DEFINE i == IndexIn(q, x)
<1>0. Len(q) \in Nat /\ i \in Nat /\ i \in 1..Len(q) /\ q[i] = x /\ \A k \in 1..Len(q) : q[k] \in Nat
  BY IndexOf
<1>1. CASE x = Last(q)  BY <1>0, <1>1 DEF After, Contains
<1>2. CASE x # Last(q)
  <2>1. i + 1 \in 1..Len(q) /\ After(q, x) = q[i + 1]  BY <1>0, <1>2 DEF After, Last
  <2>2. \A k \in 1..Len(q) : k <= i \/ i + 1 <= k  BY <1>0
  <2>3. \A k \in 1..Len(q) : q[k] <= q[i] \/ q[i + 1] <= q[k]
    BY <1>0, <2>1, <2>2, SMTT(30) DEF Rising
  <2>4. q[i] < q[i + 1]  BY <1>0, <2>1 DEF Rising
  <2> QED  BY <1>0, <1>2, <2>1, <2>3, <2>4 DEF Contains
<1> QED  BY <1>1, <1>2

\* The one before it, round to the last.
LEMMA BeforeIs ==
    ASSUME NEW q \in Seq(Nat), Rising(q), NEW x, Contains(q, x)
    PROVE  /\ Contains(q, Before(q, x))
           /\ x = q[1] => Before(q, x) = Last(q)
           /\ x # q[1] => /\ Before(q, x) < x
                          /\ \A y : Contains(q, y) => x <= y \/ y <= Before(q, x)
<1> DEFINE i == IndexIn(q, x)
<1>0. Len(q) \in Nat /\ i \in Nat /\ i \in 1..Len(q) /\ q[i] = x /\ \A k \in 1..Len(q) : q[k] \in Nat
  BY IndexOf
<1>1. CASE x = q[1]  BY <1>0, <1>1, FirstAndLast DEF Before
<1>2. CASE x # q[1]
  <2>1. i - 1 \in 1..Len(q) /\ Before(q, x) = q[i - 1]  BY <1>0, <1>2 DEF Before
  <2>2. \A k \in 1..Len(q) : k <= i - 1 \/ i <= k  BY <1>0
  <2>3. \A k \in 1..Len(q) : q[k] <= q[i - 1] \/ q[i] <= q[k]
    BY <1>0, <2>1, <2>2 DEF Rising
  <2>4. q[i - 1] < q[i]  BY <1>0, <2>1 DEF Rising
  <2> QED  BY <1>0, <1>2, <2>1, <2>3, <2>4 DEF Contains
<1> QED  BY <1>1, <1>2
-------------------------------------------------------------------------------
\* What the operations do to the tags.

LEMMA SizesAre ==
    /\ FRL_SIZE = 4 /\ FRL = 3 /\ TAG_SIZE = 1 /\ DESCRIPTOR = 11 /\ END_TAG = -1 /\ NULL = 0
    /\ Largest = 10000 /\ Top \in Nat \ {0} /\ Start \in Nat \ {0} /\ Start <= Top /\ Top <= Largest
  BY HeapAssumption DEF FRL_SIZE, FRL, TAG_SIZE, DESCRIPTOR, END_TAG, NULL, Largest

LEMMA LensAre ==
    ASSUME NEW len, LenOK(len), NEW b \in DOMAIN len
    PROVE  /\ b \in Nat /\ 1 <= b /\ b <= Top /\ len[b] \in Int
           /\ len[b] # END_TAG => len[b] \in Nat /\ FRL_SIZE <= len[b] /\ len[b] <= Top
  BY SizesAre DEF LenOK, Addr

LEMMA WithIs ==
    ASSUME NEW f, NEW x, NEW v
    PROVE  /\ DOMAIN With(f, x, v) = DOMAIN f \cup {x}
           /\ With(f, x, v)[x] = v
           /\ \A y \in DOMAIN f : y # x => With(f, x, v)[y] = f[y]
  BY DEF With

LEMMA WithoutIs ==
    ASSUME NEW f, NEW x
    PROVE  /\ DOMAIN Without(f, x) = DOMAIN f \ {x}
           /\ \A y \in DOMAIN f \ {x} : Without(f, x)[y] = f[y]
  BY DEF Without, Restrict

\* A block is in one miniheap.
LEMMA OneHome ==
    ASSUME NEW H \in SUBSET Addr, NEW e \in [H -> Nat], Apart(H, e),
           NEW g \in H, NEW h \in H, NEW b \in Nat, g < b, b <= e[g], h < b, b <= e[h]
    PROVE  g = h
<1>1. g \in Nat /\ h \in Nat /\ e[g] \in Nat /\ e[h] \in Nat  BY DEF Addr
<1>2. ~(g < h) /\ ~(h < g)  BY <1>1 DEF Apart
<1> QED  BY <1>1, <1>2

\* What is known of a block in the miniheap h.
LEMMA BlockIs ==
    ASSUME NEW len, LenOK(len), NEW H \in SUBSET Addr, NEW e \in [H -> Nat], TilesOf(len, H, e),
           NEW h \in H, NEW b \in DOMAIN len, h < b, b < e[h]
    PROVE  /\ len[b] # END_TAG /\ h + DESCRIPTOR <= b
           /\ b + len[b] \in DOMAIN len /\ b + len[b] <= e[h]
           /\ \A c \in DOMAIN len : c <= b \/ b + len[b] <= c
<1>1. PICK g \in H : g + DESCRIPTOR <= b /\ b <= e[g] /\ (len[b] = END_TAG <=> b = e[g])
  BY DEF TilesOf, Homes
<1>2. b \in Nat /\ g \in Nat /\ h \in Nat /\ e[g] \in Nat /\ e[h] \in Nat /\ g < b /\ b <= e[h]
  BY <1>1, LensAre, SizesAre DEF Addr
<1>3. g = h  BY <1>1, <1>2, OneHome DEF TilesOf
<1>4. len[b] # END_TAG /\ h + DESCRIPTOR <= b  BY <1>1, <1>2, <1>3
<1>5. e[h] \in DOMAIN len  BY DEF TilesOf, Closed
<1>6. b + len[b] \in DOMAIN len /\ \A c \in DOMAIN len : c <= b \/ b + len[b] <= c
  BY <1>4 DEF TilesOf, Adjacent
<1>7. b + len[b] <= e[h]  BY <1>5, <1>6, <1>2
<1> QED  BY <1>4, <1>6, <1>7

\* A block that is not an END_TAG is in some miniheap, before its end.
LEMMA HomeIs ==
    ASSUME NEW len, LenOK(len), NEW H \in SUBSET Addr, NEW e \in [H -> Nat], TilesOf(len, H, e),
           NEW b \in DOMAIN len, len[b] # END_TAG
    PROVE  \E h \in H : h < b /\ b < e[h] /\ h + DESCRIPTOR <= b
<1>1. PICK g \in H : g + DESCRIPTOR <= b /\ b <= e[g] /\ (len[b] = END_TAG <=> b = e[g])
  BY DEF TilesOf, Homes
<1>2. b \in Nat /\ g \in Nat /\ e[g] \in Nat  BY LensAre DEF Addr
<1> QED  BY <1>1, <1>2, SizesAre

\* The block a is split in two.
LEMMA SplitTiles ==
    ASSUME NEW len, LenOK(len), NEW H \in SUBSET Addr, NEW e \in [H -> Nat], TilesOf(len, H, e),
           NEW a \in DOMAIN len, len[a] # END_TAG, NEW size \in Nat,
           FRL_SIZE <= size, FRL_SIZE <= len[a] - size,
           NEW new \in [DOMAIN len \cup {a + size} -> Int],
           new[a] = size, new[a + size] = len[a] - size,
           \A b \in DOMAIN len : b # a => new[b] = len[b]
    PROVE  LenOK(new) /\ TilesOf(new, H, e) /\ a + size \notin DOMAIN len
<1> USE SizesAre
<1>1. /\ a \in Nat /\ 1 <= a /\ a <= Top /\ len[a] \in Nat /\ len[a] <= Top
      /\ a + len[a] \in DOMAIN len /\ \A c \in DOMAIN len : c <= a \/ a + len[a] <= c
  BY LensAre DEF TilesOf, Adjacent
<1>2. \A b \in DOMAIN len : b \in Nat /\ len[b] \in Int /\ b <= Top /\ (len[b] # END_TAG => len[b] \in Nat /\ len[b] > 0)
  BY LensAre
<1>3. a + size \notin DOMAIN len /\ a + size # a  BY <1>1
<1>4. DOMAIN new = DOMAIN len \cup {a + size}  OBVIOUS
<1>5. new[a] = size /\ new[a + size] = len[a] - size /\ \A b \in DOMAIN len : b # a => new[b] = len[b]
  OBVIOUS
<1>7. a + size \in Addr  BY <1>1, <1>2 DEF Addr
<1>8. \A b \in DOMAIN new : b = a \/ b = a + size \/ (b \in DOMAIN len /\ b # a /\ b # a + size /\ new[b] = len[b])
  BY <1>3, <1>4, <1>5
<1>9. LenOK(new)
  <2>1. \A b \in DOMAIN new : new[b] \in (FRL_SIZE..Top) \cup {END_TAG}
    BY <1>1, <1>5, <1>8 DEF LenOK
  <2>2. DOMAIN new \subseteq Addr  BY <1>4, <1>7 DEF LenOK
  <2> QED  BY <1>4, <2>1, <2>2 DEF LenOK
<1>10. Adjacent(new)
  <2> SUFFICES ASSUME NEW b \in DOMAIN new, new[b] # END_TAG
               PROVE  b + new[b] \in DOMAIN new /\ \A c \in DOMAIN new : c <= b \/ b + new[b] <= c
    BY DEF Adjacent
  <2>1. CASE b = a  BY <1>1, <1>2, <1>4, <1>5, <2>1
  <2>2. CASE b = a + size  BY <1>1, <1>2, <1>4, <1>5, <2>2
  <2>3. CASE b \in DOMAIN len /\ b # a /\ b # a + size
    <3>1. b + len[b] \in DOMAIN len /\ new[b] = len[b] /\ \A c \in DOMAIN len : c <= b \/ b + len[b] <= c
      BY <1>5, <2>3 DEF TilesOf, Adjacent
    <3>2. b <= a \/ a + len[a] <= b  BY <1>1, <2>3
    <3>3. a <= b \/ b + len[b] <= a  BY <1>1, <3>1
    <3> QED  BY <1>1, <1>2, <1>4, <2>3, <3>1, <3>2, <3>3
  <2> QED  BY <1>8, <2>1, <2>2, <2>3
<1>11. Reached(new, H)
  <2> SUFFICES ASSUME NEW c \in DOMAIN new
               PROVE  \/ \E h \in H : c = h + DESCRIPTOR
                      \/ \E b \in DOMAIN new : new[b] # END_TAG /\ b + new[b] = c
    BY DEF Reached
  <2>1. CASE c = a + size  BY <1>1, <1>4, <1>5, <2>1
  <2>2. CASE c \in DOMAIN len
    <3>1. CASE \E h \in H : c = h + DESCRIPTOR  BY <3>1
    <3>2. CASE \E b \in DOMAIN len : len[b] # END_TAG /\ b + len[b] = c
      <4>1. PICK b \in DOMAIN len : len[b] # END_TAG /\ b + len[b] = c  BY <3>2
      <4>2. CASE b = a
        <5>1. a + size \in DOMAIN new /\ new[a + size] # END_TAG /\ (a + size) + new[a + size] = c
          BY <1>1, <1>4, <1>5, <4>1, <4>2
        <5> QED  BY <5>1
      <4>3. CASE b # a  BY <1>4, <1>5, <4>1, <4>3
      <4> QED  BY <4>2, <4>3
    <3> QED  BY <2>2, <3>1, <3>2 DEF TilesOf, Reached
  <2> QED  BY <1>4, <2>1, <2>2
<1>12. Closed(new, H, e)  BY <1>4 DEF TilesOf, Closed
<1>13. Homes(new, H, e)
  <2> SUFFICES ASSUME NEW b \in DOMAIN new
               PROVE  \E h \in H : h + DESCRIPTOR <= b /\ b <= e[h] /\ (new[b] = END_TAG <=> b = e[h])
    BY DEF Homes
  <2>0. PICK h \in H : h < a /\ a < e[h] /\ h + DESCRIPTOR <= a  BY HomeIs
  <2>1. h \in Nat /\ e[h] \in Nat /\ a + len[a] <= e[h]  BY <2>0, BlockIs DEF Addr
  <2>2. CASE b = a  BY <1>1, <1>5, <2>0, <2>1, <2>2
  <2>3. CASE b = a + size  BY <1>1, <1>5, <2>0, <2>1, <2>3
  <2>4. CASE b \in DOMAIN len /\ new[b] = len[b]  BY <2>4 DEF TilesOf, Homes
  <2> QED  BY <1>8, <2>2, <2>3, <2>4
<1> QED  BY <1>3, <1>4, <1>5, <1>9, <1>10, <1>11, <1>12, <1>13 DEF TilesOf

\* The block n that follows the block a becomes part of it.
LEMMA MergeTiles ==
    ASSUME NEW len, LenOK(len), NEW H \in SUBSET Addr, NEW e \in [H -> Nat], TilesOf(len, H, e),
           NEW a \in DOMAIN len, len[a] # END_TAG,
           NEW n \in DOMAIN len, n = a + len[a], len[n] # END_TAG,
           NEW new \in [DOMAIN len \ {n} -> Int], new[a] = len[a] + len[n],
           \A b \in DOMAIN new : b # a => new[b] = len[b]
    PROVE  LenOK(new) /\ TilesOf(new, H, e) /\ a # n
<1> USE SizesAre
<1>1. /\ a \in Nat /\ 1 <= a /\ len[a] \in Nat /\ len[a] >= 4
      /\ n \in Nat /\ len[n] \in Nat /\ len[n] >= 4
  BY LensAre
<1>2. \A b \in DOMAIN len : b \in Nat /\ len[b] \in Int /\ b <= Top /\ (len[b] # END_TAG => len[b] \in Nat /\ len[b] > 0)
  BY LensAre
<1>3. /\ n + len[n] \in DOMAIN len /\ \A c \in DOMAIN len : c <= n \/ n + len[n] <= c
      /\ \A c \in DOMAIN len : c <= a \/ n <= c
  BY DEF TilesOf, Adjacent
<1>8. a # n  BY <1>1
<1>4. DOMAIN new = DOMAIN len \ {n} /\ a # n  BY <1>8
<1>5. new[a] = len[a] + len[n] /\ \A b \in DOMAIN new : b # a => new[b] = len[b]
  OBVIOUS
<1>7. len[a] + len[n] <= Top /\ a + (len[a] + len[n]) = n + len[n]  BY <1>1, <1>2, <1>3
<1>9. LenOK(new)
  <2>1. \A b \in DOMAIN new : new[b] \in (FRL_SIZE..Top) \cup {END_TAG}
    BY <1>1, <1>4, <1>5, <1>7 DEF LenOK
  <2> QED  BY <1>4, <2>1 DEF LenOK
<1>10. Adjacent(new)
  <2> SUFFICES ASSUME NEW b \in DOMAIN new, new[b] # END_TAG
               PROVE  b + new[b] \in DOMAIN new /\ \A c \in DOMAIN new : c <= b \/ b + new[b] <= c
    BY DEF Adjacent
  <2>1. CASE b = a
    <3>1. b + new[b] = n + len[n] /\ n + len[n] # n  BY <1>1, <1>5, <1>7, <2>1
    <3> QED  BY <1>1, <1>2, <1>3, <1>4, <2>1, <3>1
  <2>2. CASE b # a
    <3>1. b \in DOMAIN len /\ b # n /\ b + len[b] \in DOMAIN len /\ new[b] = len[b]
          /\ \A c \in DOMAIN len : c <= b \/ b + len[b] <= c
      BY <1>4, <1>5, <2>2 DEF TilesOf, Adjacent
    <3>2. b + len[b] # n  BY <1>1, <1>2, <1>3, <2>2, <3>1
    <3> QED  BY <1>4, <3>1, <3>2
  <2> QED  BY <2>1, <2>2
<1>11. Reached(new, H)
  <2> SUFFICES ASSUME NEW c \in DOMAIN new
               PROVE  \/ \E h \in H : c = h + DESCRIPTOR
                      \/ \E b \in DOMAIN new : new[b] # END_TAG /\ b + new[b] = c
    BY DEF Reached
  <2>1. c \in DOMAIN len /\ c # n  BY <1>4
  <2>2. CASE \E h \in H : c = h + DESCRIPTOR  BY <2>2
  <2>3. CASE \E b \in DOMAIN len : len[b] # END_TAG /\ b + len[b] = c
    <3>1. PICK b \in DOMAIN len : len[b] # END_TAG /\ b + len[b] = c  BY <2>3
    <3>2. b # a  BY <2>1, <3>1
    <3>3. CASE b = n
      <4>1. a \in DOMAIN new /\ new[a] # END_TAG /\ a + new[a] = c
        BY <1>1, <1>4, <1>5, <1>7, <3>1, <3>3
      <4> QED  BY <4>1
    <3>4. CASE b # n  BY <1>4, <1>5, <3>1, <3>2, <3>4
    <3> QED  BY <3>3, <3>4
  <2> QED  BY <2>1, <2>2, <2>3 DEF TilesOf, Reached
<1>0. PICK g \in H : g < a /\ a < e[g] /\ g + DESCRIPTOR <= a  BY HomeIs
<1>12. g \in Nat /\ e[g] \in Nat /\ n <= e[g]  BY <1>0, BlockIs DEF Addr
<1>13. n # e[g]
  <2>1. PICK h \in H : h + DESCRIPTOR <= n /\ n <= e[h] /\ n # e[h]
    BY DEF TilesOf, Homes
  <2>2. h \in Nat /\ h < n /\ g < n  BY <1>0, <1>1, <1>12, <2>1 DEF Addr
  <2>3. h = g  BY <1>1, <1>12, <2>1, <2>2, OneHome DEF TilesOf
  <2> QED  BY <2>1, <2>3
<1>14. n + len[n] <= e[g]
  <2>1. g < n /\ n < e[g]  BY <1>0, <1>1, <1>12, <1>13
  <2> QED  BY <2>1, BlockIs
<1>15. Closed(new, H, e)
  <2> SUFFICES ASSUME NEW h \in H
               PROVE  h + DESCRIPTOR # n /\ e[h] # n
    BY <1>4 DEF TilesOf, Closed
  <2>1. h \in Nat /\ e[h] \in Nat /\ h + DESCRIPTOR < e[h]  BY DEF TilesOf, Closed, Addr
  <2>2. ASSUME h + DESCRIPTOR = n \/ e[h] = n PROVE FALSE
    <3>1. h < n /\ n <= e[h] /\ g < n  BY <1>0, <1>1, <1>12, <2>1, <2>2
    <3>2. h = g  BY <1>1, <1>12, <3>1, OneHome DEF TilesOf
    <3> QED  BY <1>0, <1>1, <1>12, <1>13, <2>1, <2>2, <3>2
  <2> QED  BY <2>2
<1>16. Homes(new, H, e)
  <2> SUFFICES ASSUME NEW b \in DOMAIN new
               PROVE  \E h \in H : h + DESCRIPTOR <= b /\ b <= e[h] /\ (new[b] = END_TAG <=> b = e[h])
    BY DEF Homes
  <2>2. CASE b = a  BY <1>0, <1>1, <1>5, <1>12, <2>2
  <2>3. CASE b # a
    <3>1. b \in DOMAIN len /\ new[b] = len[b]  BY <1>4, <1>5, <2>3
    <3> QED  BY <3>1 DEF TilesOf, Homes
  <2> QED  BY <2>2, <2>3
<1> QED  BY <1>4, <1>5, <1>9, <1>10, <1>11, <1>15, <1>16 DEF TilesOf

\* The boundary between the block a and the block n that follows it moves up.
LEMMA ShiftTiles ==
    ASSUME NEW len, LenOK(len), NEW H \in SUBSET Addr, NEW e \in [H -> Nat], TilesOf(len, H, e),
           NEW a \in DOMAIN len, len[a] # END_TAG,
           NEW n \in DOMAIN len, n = a + len[a], len[n] # END_TAG,
           NEW k \in Nat, k > 0, FRL_SIZE <= len[n] - k,
           NEW new \in [(DOMAIN len \ {n}) \cup {n + k} -> Int],
           new[a] = len[a] + k, new[n + k] = len[n] - k,
           \A b \in DOMAIN len \ {n} : b # a => new[b] = len[b]
    PROVE  LenOK(new) /\ TilesOf(new, H, e) /\ a # n /\ n + k \notin DOMAIN len
<1> DEFINE mid == [b \in DOMAIN len \ {n} |-> IF b = a THEN len[a] + len[n] ELSE len[b]]
<1>1. \A b \in DOMAIN len : len[b] \in Int  BY LensAre
<1>2. /\ len[a] \in Nat /\ len[n] \in Nat /\ FRL_SIZE <= len[a] /\ FRL_SIZE <= len[n] /\ a \in Nat /\ n \in Nat
      /\ a # n
  BY LensAre, SizesAre
<1>3. mid \in [DOMAIN len \ {n} -> Int] /\ DOMAIN mid = DOMAIN len \ {n} /\ mid[a] = len[a] + len[n]
      /\ \A b \in DOMAIN mid : b # a => mid[b] = len[b]
  <2>1. DOMAIN mid = DOMAIN len \ {n} /\ a \in DOMAIN len \ {n}  BY <1>2
  <2>2. \A b \in DOMAIN len \ {n} : mid[b] = IF b = a THEN len[a] + len[n] ELSE len[b]
    OBVIOUS
  <2>3. \A b \in DOMAIN len \ {n} : mid[b] \in Int  BY <1>1, <1>2, <2>2
  <2>4. mid \in [DOMAIN len \ {n} -> Int]  BY <2>3
  <2> HIDE DEF mid
  <2>5. mid[a] = len[a] + len[n]  BY <2>1, <2>2
  <2>6. \A b \in DOMAIN mid : b # a => mid[b] = len[b]  BY <2>1, <2>2
  <2> QED  BY <2>1, <2>4, <2>5, <2>6
<1> HIDE DEF mid
<1>4. LenOK(mid) /\ TilesOf(mid, H, e)
  <2>1. \A b \in DOMAIN mid : b # a => mid[b] = len[b]  BY <1>3
  <2>2. mid \in [DOMAIN len \ {n} -> Int] /\ mid[a] = len[a] + len[n]  BY <1>3
  <2> QED  BY <2>1, <2>2, MergeTiles
<1>5. /\ a \in DOMAIN mid /\ mid[a] # END_TAG /\ len[a] + k \in Nat
      /\ FRL_SIZE <= len[a] + k /\ FRL_SIZE <= mid[a] - (len[a] + k) /\ a + (len[a] + k) = n + k
      /\ new[n + k] = mid[a] - (len[a] + k)
  BY <1>2, <1>3, SizesAre
<1>6. new \in [DOMAIN mid \cup {a + (len[a] + k)} -> Int]  BY <1>3, <1>5
<1>7. LenOK(new) /\ TilesOf(new, H, e) /\ n + k \notin DOMAIN mid
  BY <1>3, <1>4, <1>5, <1>6, SplitTiles, SMTT(30)
<1> QED  BY <1>2, <1>3, <1>7

LEMMA ExtendTiles ==
    ASSUME NEW len, NEW new, NEW H, NEW e, NEW h, NEW k, Extends(len, new, H, e, h, k)
    PROVE  LenOK(new) /\ TilesOf(new, H, [e EXCEPT ![h] = e[h] + k]) /\ e[h] + k \notin DOMAIN len
<1>0. /\ LenOK(len) /\ H \in SUBSET Addr /\ e \in [H -> Nat] /\ TilesOf(len, H, e)
      /\ h \in H /\ k \in Nat /\ FRL_SIZE <= k /\ e[h] + k <= Top /\ \A g \in H : h < g => e[h] + k < g
      /\ new \in [DOMAIN len \cup {e[h] + k} -> Int]
      /\ new[e[h]] = k /\ new[e[h] + k] = END_TAG
      /\ \A b \in DOMAIN len : b # e[h] => new[b] = len[b]
  BY DEF Extends
<1> USE <1>0
<1> DEFINE n == e[h]
           m == e[h] + k
           f == [e EXCEPT ![h] = m]
<1> USE SizesAre
<1>1. \A b \in DOMAIN len : b \in Nat /\ len[b] \in Int /\ b <= Top /\ (len[b] # END_TAG => len[b] \in Nat /\ len[b] > 0)
  BY LensAre
<1>2. \A g \in H : g \in Nat /\ e[g] \in Nat /\ g < e[g] /\ g + DESCRIPTOR \in DOMAIN len /\ e[g] \in DOMAIN len /\ g + DESCRIPTOR < e[g]
  BY DEF TilesOf, Closed, Addr
<1>3. m \in Nat /\ n \in Nat /\ n < m /\ n \in DOMAIN len /\ h < n /\ m <= Top  BY <1>2
<1>4. \A g \in H : g # h => e[g] < h \/ m < g  BY <1>2 DEF TilesOf, Apart
<1>5. len[n] = END_TAG
  <2>1. PICK g \in H : g + DESCRIPTOR <= n /\ n <= e[g] /\ (len[n] = END_TAG <=> n = e[g])
    BY <1>3 DEF TilesOf, Homes
  <2>2. g = h
    <3>1. CASE e[g] < h  BY <1>2, <1>3, <2>1, <3>1
    <3>2. CASE m < g  BY <1>2, <1>3, <2>1, <3>2, SizesAre
    <3> QED  BY <1>4, <3>1, <3>2
  <2> QED  BY <2>1, <2>2
<1>6. \A c \in DOMAIN len : c <= n \/ m < c
  <2> SUFFICES ASSUME NEW c \in DOMAIN len PROVE c <= n \/ m < c  OBVIOUS
  <2>1. PICK g \in H : g + DESCRIPTOR <= c /\ c <= e[g]  BY DEF TilesOf, Homes
  <2> QED  BY <1>1, <1>2, <1>3, <1>4, <2>1
<1>7. f \in [H -> Nat] /\ f[h] = m /\ \A g \in H : g # h => f[g] = e[g]  BY <1>3
<1>8. DOMAIN new = DOMAIN len \cup {m} /\ m \notin DOMAIN len /\ new[n] = k /\ new[m] = END_TAG
      /\ \A b \in DOMAIN len : b # n => new[b] = len[b]
  BY <1>3, <1>6
<1> HIDE DEF n, m, f
<1>9. n + k = m  BY DEF n, m
<1>10. LenOK(new)
  <2>1. m \in Addr  BY <1>3 DEF Addr
  <2>2. \A b \in DOMAIN new : new[b] \in (FRL_SIZE..Top) \cup {END_TAG}
    BY <1>3, <1>8, <1>9 DEF LenOK
  <2> QED  BY <1>8, <2>1, <2>2 DEF LenOK
<1>11. Adjacent(new)
  <2> SUFFICES ASSUME NEW b \in DOMAIN new, new[b] # END_TAG
               PROVE  b + new[b] \in DOMAIN new /\ \A c \in DOMAIN new : c <= b \/ b + new[b] <= c
    BY DEF Adjacent
  <2>1. CASE b = n  BY <1>1, <1>3, <1>6, <1>8, <1>9, <2>1
  <2>2. CASE b # n
    <3>1. b \in DOMAIN len /\ new[b] = len[b] /\ b + len[b] \in DOMAIN len
          /\ \A c \in DOMAIN len : c <= b \/ b + len[b] <= c
      BY <1>8, <2>2 DEF TilesOf, Adjacent
    <3>2. m <= b \/ b + len[b] <= m  BY <1>1, <1>3, <1>6, <2>2, <3>1
    <3> QED  BY <1>1, <1>3, <1>8, <3>1, <3>2
  <2> QED  BY <2>1, <2>2
<1>12. Reached(new, H)
  <2> SUFFICES ASSUME NEW c \in DOMAIN new
               PROVE  \/ \E g \in H : c = g + DESCRIPTOR
                      \/ \E b \in DOMAIN new : new[b] # END_TAG /\ b + new[b] = c
    BY DEF Reached
  <2>1. CASE c = m  BY <1>3, <1>8, <1>9, <2>1
  <2>2. CASE c \in DOMAIN len
    <3>1. CASE \E g \in H : c = g + DESCRIPTOR  BY <3>1
    <3>2. CASE \E b \in DOMAIN len : len[b] # END_TAG /\ b + len[b] = c
      BY <1>5, <1>8, <3>2
    <3> QED  BY <2>2, <3>1, <3>2 DEF TilesOf, Reached
  <2> QED  BY <1>8, <2>1, <2>2
<1>13. Closed(new, H, f)  BY <1>2, <1>3, <1>7, <1>8 DEF Closed
<1>14. Homes(new, H, f)
  <2> SUFFICES ASSUME NEW b \in DOMAIN new
               PROVE  \E g \in H : g + DESCRIPTOR <= b /\ b <= f[g] /\ (new[b] = END_TAG <=> b = f[g])
    BY DEF Homes
  <2>1. h + DESCRIPTOR < n  BY <1>2 DEF n
  <2>2. CASE b = m \/ b = n  BY <1>3, <1>7, <1>8, <2>1, <2>2, <1>2
  <2>3. CASE b \in DOMAIN len /\ b # n
    <3>1. PICK g \in H : g + DESCRIPTOR <= b /\ b <= e[g] /\ (len[b] = END_TAG <=> b = e[g])
      BY <2>3 DEF TilesOf, Homes
    <3>2. CASE g = h
      <4>1. b < n /\ b < m /\ len[b] # END_TAG  BY <1>1, <1>3, <2>3, <3>1, <3>2 DEF n
      <4> QED  BY <1>1, <1>3, <1>7, <1>8, <2>3, <3>1, <3>2, <4>1
    <3>3. CASE g # h  BY <1>7, <1>8, <2>3, <3>1, <3>3
    <3> QED  BY <3>2, <3>3
  <2> QED  BY <1>8, <2>2, <2>3
<1>15. Apart(H, f)
  <2> SUFFICES ASSUME NEW x \in H, NEW y \in H, x < y PROVE f[x] < y  BY DEF Apart
  <2>1. CASE x = h  BY <1>2, <1>4, <1>7, <2>1, <1>3
  <2>2. CASE x # h  BY <1>7, <2>2 DEF TilesOf, Apart
  <2> QED  BY <2>1, <2>2
<1> QED  BY <1>8, <1>10, <1>11, <1>12, <1>13, <1>14, <1>15 DEF TilesOf, f, m

LEMMA CutTiles ==
    ASSUME NEW len, NEW new, NEW H, NEW e, NEW h, NEW b, Cuts(len, new, H, e, h, b)
    PROVE  LenOK(new) /\ TilesOf(new, H, [e EXCEPT ![h] = b])
<1>0. /\ LenOK(len) /\ H \in SUBSET Addr /\ e \in [H -> Nat] /\ TilesOf(len, H, e)
      /\ h \in H /\ b \in DOMAIN len /\ h + DESCRIPTOR < b /\ len[b] # END_TAG /\ b + len[b] = e[h]
      /\ new \in [DOMAIN len \ {e[h]} -> Int]
      /\ new[b] = END_TAG /\ \A c \in DOMAIN new : c # b => new[c] = len[c]
  BY DEF Cuts
<1> USE <1>0
<1> DEFINE n == e[h]
           f == [e EXCEPT ![h] = b]
<1> USE SizesAre
<1>1. \A c \in DOMAIN len : c \in Nat /\ len[c] \in Int /\ c <= Top /\ (len[c] # END_TAG => len[c] \in Nat /\ len[c] > 0)
  BY LensAre
<1>2. \A g \in H : g \in Nat /\ e[g] \in Nat /\ g < e[g] /\ g + DESCRIPTOR \in DOMAIN len /\ e[g] \in DOMAIN len /\ g + DESCRIPTOR < e[g]
  BY DEF TilesOf, Closed, Addr
<1>3. n \in Nat /\ b \in Nat /\ b < n /\ n \in DOMAIN len /\ h < b /\ b + len[b] = n
  BY <1>1, <1>2
<1>4. \A g \in H : g # h => e[g] < h \/ n < g  BY <1>2 DEF TilesOf, Apart
<1>5. len[n] = END_TAG
  <2>1. PICK g \in H : g + DESCRIPTOR <= n /\ n <= e[g] /\ (len[n] = END_TAG <=> n = e[g])
    BY <1>3 DEF TilesOf, Homes
  <2>2. g = h
    <3>1. CASE e[g] < h  BY <1>2, <1>3, <2>1, <3>1
    <3>2. CASE n < g  BY <1>2, <1>3, <2>1, <3>2, SizesAre
    <3> QED  BY <1>4, <3>1, <3>2
  <2> QED  BY <2>1, <2>2
<1>6. \A c \in DOMAIN len : c <= b \/ n <= c  BY <1>3 DEF TilesOf, Adjacent
<1>7. f \in [H -> Nat] /\ f[h] = b /\ \A g \in H : g # h => f[g] = e[g]  BY <1>3
<1>8. DOMAIN new = DOMAIN len \ {n} /\ b # n /\ new[b] = END_TAG
      /\ \A c \in DOMAIN new : c # b => new[c] = len[c]
  BY <1>3
<1> HIDE DEF n, f
<1>10. LenOK(new)
  <2>2. \A c \in DOMAIN new : new[c] \in (FRL_SIZE..Top) \cup {END_TAG}
    BY <1>8 DEF LenOK
  <2> QED  BY <1>8, <2>2 DEF LenOK
<1>11. Adjacent(new)
  <2> SUFFICES ASSUME NEW x \in DOMAIN new, new[x] # END_TAG
               PROVE  x + new[x] \in DOMAIN new /\ \A c \in DOMAIN new : c <= x \/ x + new[x] <= c
    BY DEF Adjacent
  <2>1. x \in DOMAIN len /\ x # b /\ new[x] = len[x] /\ x + len[x] \in DOMAIN len
        /\ \A c \in DOMAIN len : c <= x \/ x + len[x] <= c
    BY <1>8 DEF TilesOf, Adjacent
  <2>2. x + len[x] # n  BY <1>1, <1>3, <1>6, <2>1
  <2> QED  BY <1>8, <2>1, <2>2
<1>12. Reached(new, H)
  <2> SUFFICES ASSUME NEW c \in DOMAIN new
               PROVE  \/ \E g \in H : c = g + DESCRIPTOR
                      \/ \E x \in DOMAIN new : new[x] # END_TAG /\ x + new[x] = c
    BY DEF Reached
  <2>1. c \in DOMAIN len /\ c # n  BY <1>8
  <2>2. CASE \E g \in H : c = g + DESCRIPTOR  BY <2>2
  <2>3. CASE \E x \in DOMAIN len : len[x] # END_TAG /\ x + len[x] = c
    BY <1>3, <1>5, <1>8, <2>1, <2>3
  <2> QED  BY <2>1, <2>2, <2>3 DEF TilesOf, Reached
<1>13. Closed(new, H, f)
  <2> SUFFICES ASSUME NEW g \in H PROVE g + DESCRIPTOR \in DOMAIN new /\ f[g] \in DOMAIN new /\ g + DESCRIPTOR < f[g]
    BY DEF Closed
  <2>1. CASE g = h  BY <1>2, <1>3, <1>7, <1>8, <2>1
  <2>2. CASE g # h  BY <1>2, <1>3, <1>4, <1>7, <1>8, <2>2
  <2> QED  BY <2>1, <2>2
<1>14. Homes(new, H, f)
  <2> SUFFICES ASSUME NEW c \in DOMAIN new
               PROVE  \E g \in H : g + DESCRIPTOR <= c /\ c <= f[g] /\ (new[c] = END_TAG <=> c = f[g])
    BY DEF Homes
  <2>2. CASE c = b  BY <1>2, <1>3, <1>7, <1>8, <2>2
  <2>3. CASE c \in DOMAIN len /\ c # n /\ c # b
    <3>1. PICK g \in H : g + DESCRIPTOR <= c /\ c <= e[g] /\ (len[c] = END_TAG <=> c = e[g])
      BY <2>3 DEF TilesOf, Homes
    <3>2. CASE g = h
      <4>1. c < b /\ len[c] # END_TAG  BY <1>1, <1>3, <1>6, <2>3, <3>1, <3>2 DEF n
      <4> QED  BY <1>1, <1>3, <1>7, <1>8, <2>3, <3>1, <3>2, <4>1
    <3>3. CASE g # h  BY <1>7, <1>8, <2>3, <3>1, <3>3
    <3> QED  BY <3>2, <3>3
  <2> QED  BY <1>8, <2>2, <2>3
<1>15. Apart(H, f)
  <2> SUFFICES ASSUME NEW x \in H, NEW y \in H, x < y PROVE f[x] < y  BY DEF Apart
  <2>1. CASE x = h  BY <1>2, <1>4, <1>7, <2>1, <1>3
  <2>2. CASE x # h  BY <1>7, <2>2 DEF TilesOf, Apart
  <2> QED  BY <2>1, <2>2
<1> QED  BY <1>10, <1>11, <1>12, <1>13, <1>14, <1>15 DEF TilesOf, f

LEMMA NewTiles ==
    ASSUME NEW len, NEW new, NEW H, NEW e, NEW h, NEW n, NEW b, NEW f, Adds(len, new, H, e, h, n, b, f)
    PROVE  LenOK(new) /\ TilesOf(new, H \cup {h}, f) /\ b \notin DOMAIN len /\ n \notin DOMAIN len /\ h \notin H
<1>0. /\ LenOK(len) /\ H \in SUBSET Addr /\ e \in [H -> Nat] /\ TilesOf(len, H, e)
      /\ h \in Addr /\ n \in Nat /\ n <= Top /\ b \in Nat /\ b = h + DESCRIPTOR
      /\ FRL_SIZE <= n - b /\ \A g \in H : e[g] < h \/ n < g
      /\ new \in [DOMAIN len \cup {b, n} -> Int] /\ new[b] = n - b /\ new[n] = END_TAG
      /\ \A c \in DOMAIN len : new[c] = len[c]
      /\ f \in [H \cup {h} -> Nat] /\ f[h] = n /\ \A g \in H : f[g] = e[g]
  BY DEF Adds
<1> USE <1>0
<1> USE SizesAre
<1>1. \A c \in DOMAIN len : c \in Nat /\ len[c] \in Int /\ c <= Top /\ (len[c] # END_TAG => len[c] \in Nat /\ len[c] > 0)
  BY LensAre
<1>2. \A g \in H : g \in Nat /\ e[g] \in Nat /\ g < e[g] /\ g + DESCRIPTOR \in DOMAIN len /\ e[g] \in DOMAIN len /\ g + DESCRIPTOR < e[g]
  BY DEF TilesOf, Closed, Addr
<1>3. h \in Nat /\ h < b /\ b < n /\ b + (n - b) = n /\ h >= 1  BY DEF Addr
<1>4. \A c \in DOMAIN len : c < h \/ n < c
  <2> SUFFICES ASSUME NEW c \in DOMAIN len PROVE c < h \/ n < c  OBVIOUS
  <2>1. PICK g \in H : g + DESCRIPTOR <= c /\ c <= e[g]  BY DEF TilesOf, Homes
  <2> QED  BY <1>1, <1>2, <1>3, <2>1
<1>5. b \notin DOMAIN len /\ n \notin DOMAIN len /\ h \notin H /\ h \notin DOMAIN len
  BY <1>2, <1>3, <1>4
<1>8. DOMAIN new = DOMAIN len \cup {b, n}  OBVIOUS
<1>10. LenOK(new)
  <2>1. b \in Addr /\ n \in Addr  BY <1>3 DEF Addr
  <2>2. \A c \in DOMAIN new : new[c] \in (FRL_SIZE..Top) \cup {END_TAG}
    BY <1>3, <1>8 DEF LenOK
  <2> QED  BY <1>8, <2>1, <2>2 DEF LenOK
<1>11. Adjacent(new)
  <2> SUFFICES ASSUME NEW x \in DOMAIN new, new[x] # END_TAG
               PROVE  x + new[x] \in DOMAIN new /\ \A c \in DOMAIN new : c <= x \/ x + new[x] <= c
    BY DEF Adjacent
  <2>1. CASE x = b  BY <1>1, <1>3, <1>4, <1>8, <2>1
  <2>2. CASE x \in DOMAIN len
    <3>1. x + len[x] \in DOMAIN len /\ new[x] = len[x] /\ \A c \in DOMAIN len : c <= x \/ x + len[x] <= c
      BY <2>2 DEF TilesOf, Adjacent
    <3>2. PICK g \in H : g < x /\ x < e[g] /\ x + len[x] <= e[g]
      <4>1. PICK g \in H : g < x /\ x < e[g]  BY <2>2, <3>1, HomeIs
      <4> QED  BY <2>2, <4>1, BlockIs
    <3> QED  BY <1>1, <1>2, <1>3, <1>8, <2>2, <3>1, <3>2
  <2> QED  BY <1>8, <2>1, <2>2
<1>12. Reached(new, H \cup {h})
  <2> SUFFICES ASSUME NEW c \in DOMAIN new
               PROVE  \/ \E g \in H \cup {h} : c = g + DESCRIPTOR
                      \/ \E x \in DOMAIN new : new[x] # END_TAG /\ x + new[x] = c
    BY DEF Reached
  <2>1. CASE c = b  BY <2>1
  <2>2. CASE c = n  BY <1>3, <1>8, <2>2
  <2>3. CASE c \in DOMAIN len  BY <1>8, <2>3 DEF TilesOf, Reached
  <2> QED  BY <1>8, <2>1, <2>2, <2>3
<1>13. Closed(new, H \cup {h}, f)  BY <1>2, <1>3, <1>8 DEF Closed
<1>14. Homes(new, H \cup {h}, f)
  <2> SUFFICES ASSUME NEW c \in DOMAIN new
               PROVE  \E g \in H \cup {h} : g + DESCRIPTOR <= c /\ c <= f[g] /\ (new[c] = END_TAG <=> c = f[g])
    BY DEF Homes
  <2>1. CASE c = b \/ c = n  BY <1>3, <2>1
  <2>2. CASE c \in DOMAIN len
    <3>1. PICK g \in H : g + DESCRIPTOR <= c /\ c <= e[g] /\ (len[c] = END_TAG <=> c = e[g])
      BY <2>2 DEF TilesOf, Homes
    <3> QED  BY <2>2, <3>1
  <2> QED  BY <1>8, <2>1, <2>2
<1>15. Apart(H \cup {h}, f)  BY <1>2, <1>3 DEF TilesOf, Apart
<1> QED  BY <1>5, <1>10, <1>11, <1>12, <1>13, <1>14, <1>15 DEF TilesOf

LEMMA ReleaseTiles ==
    ASSUME NEW len, NEW new, NEW H, NEW e, NEW h, NEW f, Drops(len, new, H, e, h, f)
    PROVE  LenOK(new) /\ TilesOf(new, H \ {h}, f)
<1>0. /\ LenOK(len) /\ H \in SUBSET Addr /\ e \in [H -> Nat] /\ TilesOf(len, H, e)
      /\ h \in H
      /\ new \in [{c \in DOMAIN len : c < h \/ e[h] < c} -> Int] /\ \A c \in DOMAIN new : new[c] = len[c]
      /\ f \in [H \ {h} -> Nat] /\ \A g \in H \ {h} : f[g] = e[g]
  BY DEF Drops
<1> USE <1>0
<1> USE SizesAre
<1>1. \A c \in DOMAIN len : c \in Nat /\ len[c] \in Int /\ c <= Top /\ (len[c] # END_TAG => len[c] \in Nat /\ len[c] > 0)
  BY LensAre
<1>2. \A g \in H : g \in Nat /\ e[g] \in Nat /\ g < e[g] /\ g + DESCRIPTOR \in DOMAIN len /\ e[g] \in DOMAIN len /\ g + DESCRIPTOR < e[g]
  BY DEF TilesOf, Closed, Addr
<1>3. \A g \in H \ {h} : e[g] < h \/ e[h] < g  BY <1>2 DEF TilesOf, Apart
<1>4. \A c : c \in DOMAIN new <=> c \in DOMAIN len /\ (c < h \/ e[h] < c)  OBVIOUS
<1>10. LenOK(new)
  <2>2. \A c \in DOMAIN new : new[c] \in (FRL_SIZE..Top) \cup {END_TAG}
    BY <1>4 DEF LenOK
  <2> QED  BY <1>4, <2>2 DEF LenOK
<1>5. \A x \in DOMAIN new : \E g \in H \ {h} : g + DESCRIPTOR <= x /\ x <= e[g] /\ (len[x] = END_TAG <=> x = e[g])
  <2> SUFFICES ASSUME NEW x \in DOMAIN new
               PROVE  \E g \in H \ {h} : g + DESCRIPTOR <= x /\ x <= e[g] /\ (len[x] = END_TAG <=> x = e[g])
    OBVIOUS
  <2>1. PICK g \in H : g + DESCRIPTOR <= x /\ x <= e[g] /\ (len[x] = END_TAG <=> x = e[g])
    BY <1>4 DEF TilesOf, Homes
  <2>2. g # h  BY <1>1, <1>2, <1>4, <2>1
  <2> QED  BY <2>1, <2>2
<1>6. ASSUME NEW x \in DOMAIN len, len[x] # END_TAG, NEW g \in H, g < x, x < e[g]
      PROVE  x + len[x] <= e[g] /\ x < x + len[x]
  BY <1>1, <1>2, <1>6, BlockIs
<1>11. Adjacent(new)
  <2> SUFFICES ASSUME NEW x \in DOMAIN new, new[x] # END_TAG
               PROVE  x + new[x] \in DOMAIN new /\ \A c \in DOMAIN new : c <= x \/ x + new[x] <= c
    BY DEF Adjacent
  <2>1. x \in DOMAIN len /\ new[x] = len[x] /\ x + len[x] \in DOMAIN len
        /\ \A c \in DOMAIN len : c <= x \/ x + len[x] <= c
    BY <1>4 DEF TilesOf, Adjacent
  <2>2. PICK g \in H \ {h} : g + DESCRIPTOR <= x /\ x <= e[g] /\ (len[x] = END_TAG <=> x = e[g])
    BY <1>5
  <2>3. g < x /\ x < e[g]  BY <1>1, <1>2, <2>1, <2>2
  <2>4. x + len[x] <= e[g] /\ x < x + len[x]  BY <1>6, <2>1, <2>3
  <2>5. x + len[x] < h \/ e[h] < x + len[x]  BY <1>1, <1>2, <1>3, <2>1, <2>3, <2>4
  <2> QED  BY <1>4, <2>1, <2>5
<1>12. Reached(new, H \ {h})
  <2> SUFFICES ASSUME NEW c \in DOMAIN new
               PROVE  \/ \E g \in H \ {h} : c = g + DESCRIPTOR
                      \/ \E x \in DOMAIN new : new[x] # END_TAG /\ x + new[x] = c
    BY DEF Reached
  <2>1. CASE \E g \in H : c = g + DESCRIPTOR
    <3>1. PICK g \in H : c = g + DESCRIPTOR  BY <2>1
    <3>2. g # h  BY <1>1, <1>2, <1>4, <3>1
    <3> QED  BY <3>1, <3>2
  <2>2. CASE \E x \in DOMAIN len : len[x] # END_TAG /\ x + len[x] = c
    <3>1. PICK x \in DOMAIN len : len[x] # END_TAG /\ x + len[x] = c  BY <2>2
    <3>2. PICK g \in H : g < x /\ x < e[g]  BY <3>1, HomeIs
    <3>3. c <= e[g] /\ x < c /\ c \in Nat /\ x \in Nat  BY <1>1, <1>6, <3>1, <3>2
    <3>4. g # h  BY <1>2, <1>4, <3>2, <3>3
    <3>5. x < h \/ e[h] < x  BY <1>2, <1>3, <3>2, <3>3, <3>4
    <3> QED  BY <1>4, <3>1, <3>5
  <2> QED  BY <1>4, <2>1, <2>2 DEF TilesOf, Reached
<1>13. Closed(new, H \ {h}, f)
  <2> SUFFICES ASSUME NEW g \in H \ {h} PROVE g + DESCRIPTOR \in DOMAIN new /\ e[g] \in DOMAIN new /\ g + DESCRIPTOR < e[g]
    BY DEF Closed
  <2> QED  BY <1>2, <1>3, <1>4
<1>14. Homes(new, H \ {h}, f)  BY <1>4, <1>5 DEF Homes
<1>15. Apart(H \ {h}, f)  BY DEF TilesOf, Apart
<1> QED  BY <1>10, <1>11, <1>12, <1>13, <1>14, <1>15 DEF TilesOf
-------------------------------------------------------------------------------
\* The same, each operation as a relation of the tags before and after it.

LEMMA BlocksAre ==
    ASSUME NEW len, NEW H, NEW e, Tiling(len, H, e)
    PROVE  /\ \A b \in DOMAIN len : b \in Nat /\ 1 <= b /\ b <= Top /\ len[b] \in Int
           /\ \A b \in Blocks(len) : /\ b \in DOMAIN len /\ len[b] \in Nat
                                     /\ FRL_SIZE <= len[b] /\ len[b] <= Top
                                     /\ b + len[b] \in DOMAIN len
                                     /\ \A c \in DOMAIN len : c <= b \/ b + len[b] <= c
<1>1. \A b \in DOMAIN len : b \in Nat /\ 1 <= b /\ b <= Top /\ len[b] \in Int
  BY LensAre DEF Tiling
<1>2. \A b \in Blocks(len) : b \in DOMAIN len /\ len[b] \in Nat /\ FRL_SIZE <= len[b] /\ len[b] <= Top
  BY LensAre DEF Tiling, Blocks
<1>3. \A b \in Blocks(len) : b + len[b] \in DOMAIN len /\ \A c \in DOMAIN len : c <= b \/ b + len[b] <= c
  BY DEF Tiling, TilesOf, Adjacent, Blocks
<1> QED  BY <1>1, <1>2, <1>3

LEMMA HeapsAre ==
    ASSUME NEW len, NEW H, NEW e, Tiling(len, H, e), NEW h \in H
    PROVE  /\ h \in Nat /\ 1 <= h /\ h <= Top /\ e[h] \in Nat /\ e[h] \in DOMAIN len /\ e[h] <= Top
           /\ h + DESCRIPTOR \in Blocks(len) /\ h + DESCRIPTOR < e[h] /\ e[h] \notin Blocks(len)
           /\ len[e[h]] = END_TAG
           /\ \A g \in H : g < h => e[g] < h
           /\ \A g \in H : g = h \/ e[g] < h \/ e[h] < g
<1>1. /\ h \in Nat /\ 1 <= h /\ h <= Top /\ e[h] \in Nat /\ e[h] \in DOMAIN len
      /\ h + DESCRIPTOR \in DOMAIN len /\ h + DESCRIPTOR < e[h]
  BY SizesAre DEF Tiling, Addr, TilesOf, Closed
<1>2. e[h] <= Top  BY <1>1, LensAre DEF Tiling
<1>3. len[e[h]] = END_TAG
  <2>1. PICK g \in H : g + DESCRIPTOR <= e[h] /\ e[h] <= e[g] /\ (len[e[h]] = END_TAG <=> e[h] = e[g])
    BY <1>1 DEF Tiling, TilesOf, Homes
  <2>2. g \in Nat /\ g < e[h] /\ h < e[h] /\ e[h] <= e[h]
    BY <1>1, <2>1, SizesAre DEF Tiling, Addr
  <2>3. Apart(H, e) /\ H \in SUBSET Addr /\ e \in [H -> Nat]  BY DEF Tiling, TilesOf
  <2>4. g = h  BY <1>1, <2>1, <2>2, <2>3, OneHome
  <2> QED  BY <2>1, <2>4
<1>4. h + DESCRIPTOR \in Blocks(len)
  <2>1. H \in SUBSET Addr /\ e \in [H -> Nat] /\ LenOK(len) /\ TilesOf(len, H, e)
    BY DEF Tiling
  <2>2. h < h + DESCRIPTOR  BY <1>1, SizesAre
  <2> QED  BY <1>1, <2>1, <2>2, BlockIs DEF Blocks
<1>5. \A g \in H : g \in Nat  BY DEF Tiling, Addr
<1> QED  BY <1>1, <1>2, <1>3, <1>4, <1>5 DEF Tiling, TilesOf, Apart, Blocks

\* A tag inside of a miniheap.
LEMMA TagInside ==
    ASSUME NEW len, NEW H, NEW e, Tiling(len, H, e), NEW h \in H, NEW b \in DOMAIN len, h < b, b < e[h]
    PROVE  b \in Blocks(len) /\ h + DESCRIPTOR <= b /\ b + len[b] <= e[h]
<1>1. H \in SUBSET Addr /\ e \in [H -> Nat] /\ LenOK(len) /\ TilesOf(len, H, e)
  BY DEF Tiling
<1> QED  BY <1>1, BlockIs DEF Blocks

LEMMA HomeOf ==
    ASSUME NEW len, NEW H, NEW e, Tiling(len, H, e), NEW b \in Blocks(len)
    PROVE  \E h \in H : h < b /\ b < e[h] /\ h + DESCRIPTOR <= b /\ b + len[b] <= e[h]
<1>1. H \in SUBSET Addr /\ e \in [H -> Nat] /\ LenOK(len) /\ TilesOf(len, H, e)
  BY DEF Tiling
<1>2. b \in DOMAIN len /\ len[b] # END_TAG  BY DEF Blocks
<1>3. PICK h \in H : h < b /\ b < e[h] /\ h + DESCRIPTOR <= b  BY <1>1, <1>2, HomeIs
<1> QED  BY <1>2, <1>3, TagInside

LEMMA Split ==
    ASSUME NEW len, NEW H, NEW e, Tiling(len, H, e), NEW new, NEW a, NEW size, Splits(len, new, a, size)
    PROVE  Tiling(new, H, e) /\ a + size \notin DOMAIN len
<1>1. H \in SUBSET Addr /\ e \in [H -> Nat] /\ LenOK(len) /\ TilesOf(len, H, e)
  BY DEF Tiling
<1>2. /\ a \in DOMAIN len /\ len[a] # END_TAG /\ size \in Nat /\ FRL_SIZE <= size /\ FRL_SIZE <= len[a] - size
      /\ new \in [DOMAIN len \cup {a + size} -> Int]
      /\ new[a] = size /\ new[a + size] = len[a] - size
      /\ \A b \in DOMAIN len : b # a => new[b] = len[b]
  BY DEF Splits, Blocks
<1>3. LenOK(new) /\ TilesOf(new, H, e) /\ a + size \notin DOMAIN len
  BY <1>1, <1>2, SplitTiles
<1> QED  BY <1>1, <1>3 DEF Tiling

LEMMA Merge ==
    ASSUME NEW len, NEW H, NEW e, Tiling(len, H, e), NEW new, NEW a, NEW n, Merges(len, new, a, n)
    PROVE  Tiling(new, H, e) /\ a # n
<1>1. H \in SUBSET Addr /\ e \in [H -> Nat] /\ LenOK(len) /\ TilesOf(len, H, e)
  BY DEF Tiling
<1>2. /\ a \in DOMAIN len /\ len[a] # END_TAG /\ n \in DOMAIN len /\ len[n] # END_TAG /\ n = a + len[a]
      /\ new \in [DOMAIN len \ {n} -> Int] /\ new[a] = len[a] + len[n]
      /\ \A b \in DOMAIN new : b # a => new[b] = len[b]
  BY DEF Merges, Blocks
<1>3. LenOK(new) /\ TilesOf(new, H, e) /\ a # n  BY <1>1, <1>2, MergeTiles
<1> QED  BY <1>1, <1>3 DEF Tiling

LEMMA Shift ==
    ASSUME NEW len, NEW H, NEW e, Tiling(len, H, e), NEW new, NEW a, NEW n, NEW k, Shifts(len, new, a, n, k)
    PROVE  Tiling(new, H, e) /\ a # n /\ n + k \notin DOMAIN len
<1>1. H \in SUBSET Addr /\ e \in [H -> Nat] /\ LenOK(len) /\ TilesOf(len, H, e)
  BY DEF Tiling
<1>2. /\ a \in DOMAIN len /\ len[a] # END_TAG /\ n \in DOMAIN len /\ len[n] # END_TAG /\ n = a + len[a]
      /\ k \in Nat /\ k > 0 /\ FRL_SIZE <= len[n] - k
      /\ new \in [(DOMAIN len \ {n}) \cup {n + k} -> Int]
      /\ new[a] = len[a] + k /\ new[n + k] = len[n] - k
      /\ \A b \in DOMAIN len \ {n} : b # a => new[b] = len[b]
  BY DEF Shifts, Blocks
<1>3. LenOK(new) /\ TilesOf(new, H, e) /\ a # n /\ n + k \notin DOMAIN len
  BY <1>1, <1>2, ShiftTiles
<1> QED  BY <1>1, <1>3 DEF Tiling
-------------------------------------------------------------------------------
\* What the operations do to a ring.

LEMMA InRing ==
    ASSUME NEW free, NEW h, NEW e, NEW D, NEW U, RingOf(free, h, e, D, U), h \in Nat
    PROVE  /\ free \in Seq(Nat) /\ Rising(free) /\ Len(free) > 0 /\ Len(free) \in Nat
           /\ Contains(free, h) /\ h = free[1]
           /\ \A b : Contains(free, b) /\ b # h => b \in Nat /\ h < b /\ b < e /\ b \in D /\ b \notin U
           /\ \A b : b \in D /\ b \notin U /\ h < b /\ b < e => Contains(free, b)
           /\ \A b : b \in U /\ b # h => ~Contains(free, b)
           /\ \A b : Contains(free, b) => b \in Nat /\ h <= b
<1>1. free \in Seq(Nat) /\ Rising(free) /\ Len(free) > 0 /\ free[1] = h  BY DEF RingOf
<1>2. \A b : Contains(free, b) => b \in Nat  BY <1>1 DEF Contains
<1>3. \A b : Contains(free, b) <=> b = h \/ (h < b /\ b < e /\ b \in D \ U)
  BY DEF RingOf
<1> QED  BY <1>1, <1>2, <1>3

\* x is the entry of the ring that comes after a.
Follows(free, h, a, x) ==
    /\ Contains(free, x) /\ (x = h \/ a < x)
    /\ \A y : Contains(free, y) => y < a \/ (x # h /\ x <= y)

\* The one before it is the last below a.
LEMMA BeforeFollows ==
    ASSUME NEW free, NEW h \in Nat, NEW e, NEW D, NEW U, RingOf(free, h, e, D, U),
           NEW a \in Nat, h < a, NEW x, Follows(free, h, a, x)
    PROVE  LET p == Before(free, x)
           IN  /\ Contains(free, p) /\ p < a /\ p \in Nat /\ h <= p
               /\ \A y : Contains(free, y) => y <= p \/ (a < x /\ x <= y)
<1>1. /\ free \in Seq(Nat) /\ h = free[1] /\ Rising(free) /\ Len(free) > 0
      /\ \A b : Contains(free, b) => b \in Nat /\ h <= b
  BY InRing
<1>4. Contains(free, x) /\ x \in Nat  BY <1>1 DEF Follows
<1>2. CASE x = h  BY <1>1, <1>2, <1>4, BeforeIs, FirstAndLast DEF Follows
<1>3. CASE x # h
  <2>1. /\ Before(free, x) < x /\ Contains(free, Before(free, x))
        /\ \A y : Contains(free, y) => x <= y \/ y <= Before(free, x)
    BY <1>1, <1>3, <1>4, BeforeIs
  <2> QED  BY <1>1, <1>3, <1>4, <2>1 DEF Follows
<1> QED  BY <1>2, <1>3

\* After the block n comes what comes after a block that n follows, n gone.
LEMMA AfterFollows ==
    ASSUME NEW free, NEW h \in Nat, NEW e, NEW D, NEW U, RingOf(free, h, e, D, U),
           NEW a \in Nat, h < a, ~Contains(free, a), NEW n \in Nat, Contains(free, n), a < n,
           \A c : Contains(free, c) => c <= a \/ n <= c
    PROVE  Follows(Unlink(free, n), h, a, After(free, n))
<1>1. /\ free \in Seq(Nat) /\ Contains(free, h) /\ h = free[1] /\ Rising(free) /\ Len(free) > 0 /\ h # n
      /\ \A b : Contains(free, b) => b \in Nat /\ h <= b
  BY InRing
<1>2. \A y : Contains(Unlink(free, n), y) <=> Contains(free, y) /\ y # n
  BY <1>1, TakenOut
<1>3. CASE n = Last(free)
  <2>1. After(free, n) = h /\ \A y : Contains(free, y) => y <= n
    BY <1>1, <1>3, AfterIs, FirstAndLast
  <2> QED  BY <1>1, <1>2, <2>1 DEF Follows
<1>4. CASE n # Last(free)
  <2>1. /\ Contains(free, After(free, n)) /\ n < After(free, n)
        /\ \A y : Contains(free, y) => y <= n \/ After(free, n) <= y
    BY <1>1, <1>4, AfterIs
  <2> QED  BY <1>1, <1>2, <2>1 DEF Follows
<1> QED  BY <1>3, <1>4

\* A free block n that follows the allocated block a becomes part of it.
LEMMA JoinFacts ==
    ASSUME NEW len, NEW H, NEW e, Tiling(len, H, e), NEW U, AloneOf(len, U),
           NEW h \in H, NEW free, RingOf(free, h, e[h], DOMAIN len, U),
           NEW a \in U, h < a, a < e[h], NEW n, n \notin U,
           NEW new, Merges(len, new, a, n)
    PROVE  /\ Tiling(new, H, e) /\ AloneOf(new, U) /\ RingOf(Unlink(free, n), h, e[h], DOMAIN new, U)
           /\ Contains(free, n) /\ n # h /\ h < n /\ n < e[h] /\ a < n /\ n \in Nat
           /\ Len(Unlink(free, n)) = Len(free) - 1
           /\ \A y : Contains(Unlink(free, n), y) <=> Contains(free, y) /\ y # n
           /\ a + new[a] \in U \/ a + new[a] \notin Blocks(new)
           /\ \A c : Contains(free, c) => c <= a \/ n <= c
<1> USE SizesAre
<1>1. /\ \A b \in DOMAIN len : b \in Nat /\ len[b] \in Int
      /\ \A b \in Blocks(len) : /\ b \in DOMAIN len /\ len[b] \in Nat /\ 4 <= len[b] /\ b + len[b] \in DOMAIN len
                                /\ \A c \in DOMAIN len : c <= b \/ b + len[b] <= c
  BY BlocksAre
<1>2. /\ a \in Blocks(len) /\ n \in Blocks(len) /\ n = a + len[a] /\ new[a] = len[a] + len[n]
      /\ DOMAIN new = DOMAIN len \ {n} /\ \A b \in DOMAIN len \ {n} : b # a => new[b] = len[b]
  BY DEF Merges
<1>3. h \in Nat /\ e[h] \in Nat /\ e[h] \notin Blocks(len)  BY HeapsAre
<1>4. a < n /\ h < n /\ n < e[h]
  <2>1. n <= e[h]  BY <1>1, <1>2, TagInside
  <2> QED  BY <1>1, <1>2, <1>3, <2>1
<1>5. /\ free \in Seq(Nat) /\ Rising(free) /\ free[1] = h
      /\ \A b : Contains(free, b) => b \in Nat /\ (b = h \/ b \in DOMAIN len)
  BY <1>3, InRing
<1>6. Contains(free, n)  BY <1>1, <1>2, <1>3, <1>4, InRing
<1>7. Tiling(new, H, e)  BY Merge
<1>8. \A b : b \in Blocks(new) <=> b \in Blocks(len) /\ b # n
  BY <1>1, <1>2, <1>4 DEF Blocks
<1>9. n + len[n] \in DOMAIN len /\ a + new[a] = n + len[n] /\ n + len[n] # n
  BY <1>1, <1>2
<1>10. a + new[a] \in U \/ a + new[a] \notin Blocks(new)
  BY <1>2, <1>8, <1>9 DEF AloneOf
<1>11. AloneOf(new, U)
  <2>1. U \subseteq Blocks(new)  BY <1>8 DEF AloneOf
  <2>2. ASSUME NEW b \in Blocks(new), b \notin U
        PROVE  b + new[b] \in U \/ b + new[b] \notin Blocks(new)
    <3>1. b \in Blocks(len) /\ b # n /\ b # a /\ new[b] = len[b]
      BY <1>1, <1>2, <1>8, <2>2
    <3> QED  BY <1>8, <2>2, <3>1 DEF AloneOf
  <2> QED  BY <2>1, <2>2 DEF AloneOf
<1>12. /\ Unlink(free, n) \in Seq(Nat) /\ Rising(Unlink(free, n)) /\ Len(Unlink(free, n)) = Len(free) - 1
       /\ Unlink(free, n)[1] = h /\ Len(Unlink(free, n)) > 0
       /\ \A y : Contains(Unlink(free, n), y) <=> Contains(free, y) /\ y # n
  <2>1. n # h  BY <1>3, <1>4
  <2> QED  BY <1>5, <1>6, <2>1, TakenOut
<1>13. RingOf(Unlink(free, n), h, e[h], DOMAIN new, U)
  <2>1. \A b : Contains(free, b) <=> b = h \/ (h < b /\ b < e[h] /\ b \in DOMAIN len \ U)
    BY DEF RingOf
  <2>2. h # n  BY <1>3, <1>4
  <2>3. \A b : Contains(Unlink(free, n), b) <=> b = h \/ (h < b /\ b < e[h] /\ b \in DOMAIN new \ U)
    BY <1>2, <1>12, <2>1, <2>2
  <2> QED  BY <1>12, <2>3 DEF RingOf
<1>14. \A c : Contains(free, c) => c <= a \/ n <= c  BY <1>1, <1>2, <1>3, <1>5
<1> QED  BY <1>1, <1>2, <1>3, <1>4, <1>6, <1>7, <1>10, <1>11, <1>12, <1>13, <1>14

\* No free block follows a, and one ends where it begins: that one gets longer.
LEMMA LinkJoins ==
    ASSUME NEW len, NEW H, NEW e, NEW U, NEW h, NEW free, NEW a, Frees(len, H, e, U, h, free, a),
           NEW p, Contains(free, p), p # h, NEW new, Merges(len, new, p, a)
    PROVE  /\ Tiling(new, H, e) /\ AloneOf(new, U \ {a})
           /\ RingOf(free, h, e[h], DOMAIN new, U \ {a})
           /\ p < a /\ h < p /\ p < e[h] /\ p \in Nat
<1> USE SizesAre
<1>0. /\ Tiling(len, H, e) /\ AloneOf(len, U) /\ h \in H /\ RingOf(free, h, e[h], DOMAIN len, U)
      /\ a \in U /\ h < a /\ a < e[h]
      /\ a + len[a] \in U \/ a + len[a] \notin Blocks(len)
  BY DEF Frees
<1>1. /\ \A b \in DOMAIN len : b \in Nat /\ len[b] \in Int
      /\ \A b \in Blocks(len) : /\ b \in DOMAIN len /\ len[b] \in Nat /\ 4 <= len[b] /\ b + len[b] \in DOMAIN len
                                /\ \A c \in DOMAIN len : c <= b \/ b + len[b] <= c
  BY <1>0, BlocksAre
<1>2. /\ p \in Blocks(len) /\ a \in Blocks(len) /\ a = p + len[p] /\ new[p] = len[p] + len[a]
      /\ DOMAIN new = DOMAIN len \ {a} /\ \A b \in DOMAIN len \ {a} : b # p => new[b] = len[b]
  BY DEF Merges
<1>3. h \in Nat /\ e[h] \in Nat /\ e[h] \notin Blocks(len)  BY <1>0, HeapsAre
<1>4. p \in Nat /\ h < p /\ p < e[h] /\ p \notin U /\ p < a
  <2>1. p \in Nat /\ h < p /\ p < e[h] /\ p \notin U  BY <1>0, <1>3, InRing
  <2> QED  BY <1>0, <1>1, <1>2, <2>1
<1>5. Tiling(new, H, e)  BY <1>0, Merge
<1>8. \A b : b \in Blocks(new) <=> b \in Blocks(len) /\ b # a
  BY <1>0, <1>1, <1>2, <1>4 DEF Blocks
<1>6. AloneOf(new, U \ {a})
  <2>1. U \ {a} \subseteq Blocks(new)  BY <1>0, <1>8 DEF AloneOf
  <2>2. ASSUME NEW b \in Blocks(new), b \notin U \ {a}
        PROVE  b + new[b] \in U \ {a} \/ b + new[b] \notin Blocks(new)
    <3>0. b \in Blocks(len) /\ b # a /\ b \notin U  BY <1>0, <1>8, <2>2
    <3>1. CASE b = p
      <4>1. b + new[b] = a + len[a]  BY <1>0, <1>1, <1>2, <3>1
      <4> QED  BY <1>0, <1>1, <1>2, <1>8, <4>1
    <3>2. CASE b # p
      <4>1. new[b] = len[b]  BY <1>0, <1>1, <1>2, <3>0, <3>2
      <4>2. b + len[b] # a  BY <1>0, <1>1, <1>2, <1>4, <3>0, <3>2
      <4> QED  BY <1>0, <1>8, <3>0, <4>1, <4>2 DEF AloneOf
    <3> QED  BY <1>0, <3>1, <3>2
  <2> QED  BY <1>0, <2>1, <2>2 DEF AloneOf
<1>7. RingOf(free, h, e[h], DOMAIN new, U \ {a})
  <2>1. \A b : b \in (DOMAIN new) \ (U \ {a}) <=> b \in DOMAIN len \ U  BY <1>0, <1>2
  <2> QED  BY <1>0, <2>1 DEF RingOf
<1> QED  BY <1>0, <1>4, <1>5, <1>6, <1>7

\* Where it goes before x.
Spot(free, h, x) == IF x = h THEN Len(free) + 1 ELSE IndexIn(free, x)

\* The block p ends where a begins.
Touches(len, h, p, a) == p # h /\ p + len[p] = a

\* The ring r is the ring free and a.
IsAdded(r, free, a) ==
    Len(r) = Len(free) + 1 /\ \A y : Contains(r, y) <=> Contains(free, y) \/ y = a

\* No free block follows a, and none ends where it begins: it goes into the ring.
LEMMA LinkInserts ==
    ASSUME NEW len, NEW H, NEW e, NEW U, NEW h, NEW free, NEW a, Frees(len, H, e, U, h, free, a),
           NEW x, Follows(free, h, a, x), ~Touches(len, h, Before(free, x), a)
    PROVE  LET r == InsertAt(free, Spot(free, h, x), a) IN
           /\ AloneOf(len, U \ {a}) /\ RingOf(r, h, e[h], DOMAIN len, U \ {a})
           /\ IsAdded(r, free, a)
<1>10. Before(free, x) = h \/ Before(free, x) + len[Before(free, x)] # a  BY DEF Touches
<1> DEFINE at == IF x = h THEN Len(free) + 1 ELSE IndexIn(free, x)
           p == Before(free, x)
<1> USE SizesAre
<1>0. /\ Tiling(len, H, e) /\ AloneOf(len, U) /\ h \in H /\ RingOf(free, h, e[h], DOMAIN len, U)
      /\ a \in U /\ h < a /\ a < e[h]
      /\ a + len[a] \in U \/ a + len[a] \notin Blocks(len)
  BY DEF Frees
<1>1. /\ \A b \in DOMAIN len : b \in Nat /\ len[b] \in Int
      /\ \A b \in Blocks(len) : /\ b \in DOMAIN len /\ len[b] \in Nat /\ 4 <= len[b] /\ b + len[b] \in DOMAIN len
                                /\ \A c \in DOMAIN len : c <= b \/ b + len[b] <= c
  BY <1>0, BlocksAre
<1>2. /\ a \in Blocks(len) /\ h \in Nat /\ e[h] \in Nat /\ a \in Nat
  BY <1>0, <1>1, HeapsAre DEF AloneOf
<1>3. /\ free \in Seq(Nat) /\ Rising(free) /\ Len(free) > 0 /\ Len(free) \in Nat /\ free[1] = h
      /\ \A b : Contains(free, b) => b \in Nat /\ h <= b
  BY <1>0, <1>2, InRing
<1>9. /\ Contains(free, p) /\ p < a /\ p \in Nat /\ h <= p /\ x \in Nat
      /\ \A y : Contains(free, y) => y <= p \/ (a < x /\ x <= y)
  <2>1. x \in Nat  BY <1>0, <1>3 DEF Follows
  <2> QED  BY <1>0, <1>2, <2>1, BeforeFollows
<1>4. AloneOf(len, U \ {a})
  <2>1. U \ {a} \subseteq Blocks(len)  BY <1>0 DEF AloneOf
  <2>2. ASSUME NEW b \in Blocks(len), b \notin U \ {a}
        PROVE  b + len[b] \in U \ {a} \/ b + len[b] \notin Blocks(len)
    <3>1. CASE b = a  BY <1>0, <1>1, <1>2, <3>1
    <3>2. CASE b # a
      <4>1. b + len[b] \in U \/ b + len[b] \notin Blocks(len)
        BY <1>0, <2>2, <3>2 DEF AloneOf
      <4>2. ASSUME b + len[b] = a PROVE FALSE
        <5>10. Tiling(len, H, e) /\ b \in Blocks(len)  BY <1>0
        <5>1. PICK g \in H : g < b /\ b < e[g] /\ b + len[b] <= e[g]  BY <5>10, HomeOf
        <5>11. g \in Nat /\ e[g] \in Nat  BY <5>10, HeapsAre
        <5>2. g < a /\ a <= e[g]  BY <1>1, <1>2, <4>2, <5>1, <5>11
        <5>9. h < a /\ a <= e[h] /\ a \in Int /\ h \in H /\ Tiling(len, H, e)
          BY <1>0, <1>2
        <5>12. \A f \in H : f = h \/ e[f] < h \/ e[h] < f  BY <5>9, HeapsAre
        <5>3. g = h  BY <1>2, <5>2, <5>9, <5>11, <5>12
        <5>13. RingOf(free, h, e[h], DOMAIN len, U) /\ h \in Nat /\ b \in Nat
          BY <1>0, <1>1, <1>2
        <5>14. h < b /\ b < e[h] /\ b \in DOMAIN len /\ b \notin U
          BY <1>1, <2>2, <3>2, <5>1, <5>3
        <5>4. Contains(free, b) /\ b # h  BY <5>13, <5>14, InRing
        <5>5. b <= p
          <6>1. b \in Nat /\ b < a  BY <1>0, <1>1, <1>2, <4>2
          <6>2. b <= p \/ (a < x /\ x <= b)  BY <1>0, <1>9, <5>4
          <6> QED  BY <1>0, <1>2, <1>9, <6>1, <6>2
        <5>6. p # h  BY <1>0, <1>1, <1>2, <1>9, <5>1, <5>3, <5>5
        <5>7. p \in DOMAIN len  BY <1>0, <1>2, <1>9, <5>6, InRing
        <5>8. b = p  BY <1>0, <1>1, <1>9, <4>2, <5>5, <5>7
        <5> QED  BY <1>10, <4>2, <5>6, <5>8
      <4> QED  BY <4>1, <4>2
    <3> QED  BY <1>0, <3>1, <3>2
  <2> QED  BY <1>0, <2>1, <2>2 DEF AloneOf
<1>5. at \in 1..(Len(free) + 1) /\ at # 1 /\ free[at - 1] = p /\ (at = Len(free) + 1 \/ a < free[at])
  <2>1. CASE x = h
    <3>1. p = Last(free) /\ at = Len(free) + 1
      BY <1>0, <1>3, <2>1, BeforeIs DEF Follows
    <3> HIDE DEF p, at
    <3> QED  BY <1>0, <1>3, <3>1 DEF Last
  <2>2. CASE x # h
    <3>1. Contains(free, x) /\ a < x  BY <1>0, <2>2 DEF Follows
    <3>2. at = IndexIn(free, x) /\ at \in 1..Len(free) /\ free[at] = x
      BY <1>0, <1>3, <2>2, <3>1, IndexOf
    <3>3. at # 1  BY <1>0, <1>3, <2>2, <3>2
    <3>4. p = free[at - 1]  BY <1>0, <1>3, <2>2, <3>2 DEF Before
    <3> HIDE DEF at, p
    <3> QED  BY <1>0, <1>3, <3>1, <3>2, <3>3, <3>4
  <2> QED  BY <1>0, <2>1, <2>2
<1> DEFINE ring == InsertAt(free, at, a)
<1> HIDE DEF at, p
<1>6. /\ ring \in Seq(Nat) /\ Rising(ring) /\ Len(ring) = Len(free) + 1 /\ ring[1] = h
      /\ \A y : Contains(ring, y) <=> Contains(free, y) \/ y = a
  <2>1. at = 1 \/ free[at - 1] < a  BY <1>0, <1>5, <1>9
  <2>2. at \in 1..(Len(free) + 1) /\ at # 1 /\ (at = Len(free) + 1 \/ a < free[at])
    BY <1>0, <1>5
  <2>3. a \in Nat /\ free \in Seq(Nat) /\ Rising(free) /\ free[1] = h
    BY <1>0, <1>2, <1>3
  <2> QED  BY <1>0, <2>1, <2>2, <2>3, Inserted, SMTT(30)
<1> HIDE DEF ring
<1>7. RingOf(ring, h, e[h], DOMAIN len, U \ {a})
  <2>1. \A b : Contains(free, b) <=> b = h \/ (h < b /\ b < e[h] /\ b \in DOMAIN len \ U)
    BY <1>0 DEF RingOf
  <2>2. \A b : b \in DOMAIN len \ (U \ {a}) <=> b \in DOMAIN len \ U \/ b = a
    BY <1>0, <1>1, <1>2
  <2>3. \A b : Contains(ring, b) <=> b = h \/ (h < b /\ b < e[h] /\ b \in DOMAIN len \ (U \ {a}))
    BY <1>0, <1>6, <2>1, <2>2
  <2> QED  BY <1>0, <1>3, <1>6, <2>3 DEF RingOf
<1> QED  BY <1>0, <1>4, <1>6, <1>7 DEF ring, at, Spot, IsAdded
-------------------------------------------------------------------------------
\* States of the heap that differ in one miniheap.

LEMMA OnlyEnds ==
    ASSUME NEW s, NEW t, NEW h \in Heaps(s), Typed(s), Only(s, t, h)
    PROVE  /\ Heaps(t) = Heaps(s) /\ Ends(t) = Ends(s)
           /\ \A g \in Heaps(s) : End(t, g) = End(s, g) /\ Ends(s)[g] = End(s, g)
<1>1. Heaps(t) = Heaps(s)  BY DEF Only, Heaps
<1>2. \A g \in Heaps(s) : t.mh[g].len = s.mh[g].len  BY DEF Only
<1>3. \A g \in Heaps(s) : End(t, g) = End(s, g) /\ Ends(s)[g] = End(s, g)
  BY <1>2 DEF End, Ends
<1>4. Ends(t) = Ends(s)  BY <1>1, <1>3 DEF Ends
<1> QED  BY <1>1, <1>3, <1>4

LEMMA KeptHeap ==
    ASSUME NEW s, NEW t, NEW g, SameIn(s, t, g)
    PROVE  /\ Ring(s, g) => Ring(t, g)
           /\ Counted(s, g) => Counted(t, g)
           /\ Ring(s, g) /\ Bounded(s, g) /\ g \in Nat => Bounded(t, g)
           /\ End(t, g) = End(s, g)
<1>1. t.mh[g] = s.mh[g] /\ End(t, g) = End(s, g)  BY DEF SameIn, End
<1>2. \A b : Inside(s, g, b) => /\ b \in DOMAIN t.len <=> b \in DOMAIN s.len
                                /\ b \in DOMAIN s.len => t.len[b] = s.len[b]
                                /\ b \in t.used <=> b \in s.used
  BY DEF SameIn
<1>3. ASSUME Ring(s, g) PROVE Ring(t, g)  BY <1>1, <1>2, <1>3 DEF Ring, RingOf, Inside
<1>4. ASSUME Counted(s, g) PROVE Counted(t, g)
  <2>1. {b \in t.used : Inside(t, g, b)} = {b \in s.used : Inside(s, g, b)}
    BY <1>1, <1>2 DEF Inside
  <2> QED  BY <1>1, <1>4, <2>1 DEF Counted
<1>5. ASSUME Ring(s, g), Bounded(s, g), g \in Nat PROVE Bounded(t, g)
  <2>1. \A b : Contains(s.mh[g].free, b) /\ b # g => t.len[b] = s.len[b]
    <3>1. RingOf(s.mh[g].free, g, End(s, g), DOMAIN s.len, s.used)  BY <1>5 DEF Ring
    <3>2. \A b : Contains(s.mh[g].free, b) /\ b # g => Inside(s, g, b) /\ b \in DOMAIN s.len
      BY <1>5, <3>1, InRing DEF Inside
    <3> QED  BY <1>2, <3>2
  <2> QED  BY <1>1, <1>5, <2>1 DEF Bounded
<1> QED  BY <1>1, <1>3, <1>4, <1>5

LEMMA ChangedIs ==
    ASSUME NEW s, Typed(s), NEW h \in Heaps(s), NEW d \in Descriptor, d.len = s.mh[h].len,
           NEW len, NEW used
    PROVE  LET t == Changed(s, h, len, used, d)
           IN  Only(s, t, h) /\ t.len = len /\ t.used = used /\ t.mh[h] = d
<1> DEFINE t == Changed(s, h, len, used, d)
<1>1. s.mh \in [Heaps(s) -> Descriptor]  BY DEF Typed
<1>2. t.mh = [s.mh EXCEPT ![h] = d] /\ t.len = len /\ t.used = used
  BY DEF Changed, Typed
<1>3. /\ t.list = s.list /\ t.MiniHeapRover = s.MiniHeapRover
      /\ t.LargestSizeB4 = s.LargestSizeB4 /\ t.MiniHeapFreeRover = s.MiniHeapFreeRover
      /\ t.curbrk = s.curbrk /\ t.wild = s.wild /\ DOMAIN t = DOMAIN s
  BY DEF Changed, Typed
<1> HIDE DEF t
<1>4. t.mh[h] = d /\ t.mh \in [Heaps(s) -> Descriptor] /\ \A g \in Heaps(s) : g # h => t.mh[g] = s.mh[g]
  BY <1>1, <1>2
<1>5. Typed(t)  BY <1>3, <1>4 DEF Typed, Heaps
<1>6. Only(s, t, h)  BY <1>3, <1>4, <1>5 DEF Only
<1> QED  BY <1>2, <1>4, <1>6 DEF t

LEMMA JoinNextIs ==
    ASSUME NEW s, Typed(s), NEW h \in Heaps(s), NEW a, NEW n, a \in Nat,
           Unlink(s.mh[h].free, n) \in Seq(Nat)
    PROVE  LET t == JoinNext(s, h, a, n)
               m == s.mh[h]
           IN  /\ Only(s, t, h) /\ t.used = s.used
               /\ t.len = With(Without(s.len, n), a, s.len[a] + s.len[n])
               /\ Desc(t.mh[h], m.len, Unlink(m.free, n), IF m.rover = n THEN a ELSE m.rover,
                       m.b4rover, m.largest_blk, m.numalloc, m.numfree - 1)
<1> DEFINE t == JoinNext(s, h, a, n)
           m == s.mh[h]
           f == Unlink(m.free, n)
           k == m.numfree - 1
           r == IF m.rover = n THEN a ELSE m.rover
           d == [m EXCEPT !.free = Unlink(@, n), !.numfree = @ - 1, !.rover = IF @ = n THEN a ELSE @]
<1>1. m \in Descriptor /\ f \in Seq(Nat) /\ k \in Int /\ r \in Nat
  BY DEF Typed, Descriptor
<1>2. d = [m EXCEPT !.free = f, !.numfree = k, !.rover = r]  OBVIOUS
<1>3. Desc(d, m.len, f, r, m.b4rover, m.largest_blk, m.numalloc, k)
  <2> HIDE DEF m, f, k, r, d
  <2> QED  BY <1>1, <1>2 DEF Desc, Descriptor
<1>4. t = Changed(s, h, With(Without(s.len, n), a, s.len[a] + s.len[n]), s.used, d)
  BY DEF JoinNext
<1> HIDE DEF t, d, f, k, r
<1> QED  BY <1>3, <1>4, ChangedIs DEF Desc, t, f, k, r
-------------------------------------------------------------------------------
\* __MemFree.

LEMMA MergedIs ==
    ASSUME NEW len, NEW H, NEW e, Tiling(len, H, e), NEW a \in Blocks(len), NEW n \in Blocks(len), n = a + len[a]
    PROVE  Merges(len, With(Without(len, n), a, len[a] + len[n]), a, n)
<1> DEFINE new == With(Without(len, n), a, len[a] + len[n])
<1>1. /\ \A b \in DOMAIN len : b \in Nat /\ len[b] \in Int
      /\ a \in DOMAIN len /\ n \in DOMAIN len /\ len[a] \in Nat /\ len[a] > 0
  BY BlocksAre, SizesAre
<1>2. a # n  BY <1>1
<1>3. DOMAIN Without(len, n) = DOMAIN len \ {n} /\ \A b \in DOMAIN len \ {n} : Without(len, n)[b] = len[b]
  BY WithoutIs
<1>4. DOMAIN new = DOMAIN len \ {n} /\ \A b \in DOMAIN len \ {n} : new[b] = IF b = a THEN len[a] + len[n] ELSE len[b]
  BY <1>1, <1>2, <1>3 DEF With
<1>5. new = [b \in DOMAIN new |-> new[b]]  BY DEF With
<1> HIDE DEF new
<1>6. \A b \in DOMAIN new : new[b] \in Int  BY <1>1, <1>4
<1>7. new \in [DOMAIN len \ {n} -> Int]  BY <1>4, <1>5, <1>6
<1>8. new[a] = len[a] + len[n] /\ \A b \in DOMAIN len \ {n} : b # a => new[b] = len[b]
  BY <1>1, <1>2, <1>4
<1> QED  BY <1>7, <1>8 DEF Merges, new

LEMMA UsedFinite ==
    ASSUME NEW len, NEW H, NEW e, Tiling(len, H, e), NEW U, AloneOf(len, U)
    PROVE  IsFiniteSet(U) /\ IsFiniteSet(DOMAIN len)
<1>1. U \subseteq DOMAIN len /\ DOMAIN len \subseteq 1..Top
  BY BlocksAre, SizesAre DEF AloneOf
<1>2. IsFiniteSet(1..Top)  BY SizesAre, FS_Interval
<1> QED  BY <1>1, <1>2, FS_Subset

LEMMA LinkFreeJoins ==
    ASSUME NEW s, Typed(s), NEW h \in Heaps(s), NEW a, NEW x, NEW p, p = Before(s.mh[h].free, x),
           p \in Nat, p # h, p + s.len[p] = a
    PROVE  LET r == LinkFree(s, h, a, x)
               t == r.heap
               m == s.mh[h]
           IN  /\ r.block = p /\ Only(s, t, h) /\ t.used = s.used
               /\ t.len = With(Without(s.len, a), p, s.len[p] + s.len[a])
               /\ Desc(t.mh[h], m.len, m.free, IF m.rover = a THEN p ELSE m.rover,
                       m.b4rover, m.largest_blk, m.numalloc, m.numfree)
<1> DEFINE m == s.mh[h]
           r == IF m.rover = a THEN p ELSE m.rover
           d == [m EXCEPT !.rover = IF @ = a THEN p ELSE @]
           t == Changed(s, h, With(Without(s.len, a), p, s.len[p] + s.len[a]), s.used, d)
<1>1. m \in Descriptor /\ r \in Nat  BY DEF Typed, Descriptor
<1>2. d = [m EXCEPT !.rover = r]  OBVIOUS
<1>3. Desc(d, m.len, m.free, r, m.b4rover, m.largest_blk, m.numalloc, m.numfree)
  <2> HIDE DEF m, r, d
  <2> QED  BY <1>1, <1>2 DEF Desc, Descriptor
<1>4. LinkFree(s, h, a, x) = [block |-> p, heap |-> t]  BY DEF LinkFree
<1>5. LinkFree(s, h, a, x).block = p /\ LinkFree(s, h, a, x).heap = t
  <2> HIDE DEF t
  <2> QED  BY <1>4
<1> HIDE DEF d, r
<1>6. /\ Only(s, t, h) /\ t.used = s.used /\ t.mh[h] = d
      /\ t.len = With(Without(s.len, a), p, s.len[p] + s.len[a])
  BY <1>3, ChangedIs DEF Desc
<1> HIDE DEF t
<1> QED  BY <1>3, <1>5, <1>6 DEF r

LEMMA LinkFreeInserts ==
    ASSUME NEW s, Typed(s), NEW h \in Heaps(s), NEW a, NEW x,
           NEW at, at = (IF x = h THEN Len(s.mh[h].free) + 1 ELSE IndexIn(s.mh[h].free, x)),
           InsertAt(s.mh[h].free, at, a) \in Seq(Nat),
           NEW p, p = Before(s.mh[h].free, x), ~(p # h /\ p + s.len[p] = a)
    PROVE  LET r == LinkFree(s, h, a, x)
               t == r.heap
               m == s.mh[h]
           IN  /\ r.block = a /\ Only(s, t, h) /\ t.used = s.used /\ t.len = s.len
               /\ Desc(t.mh[h], m.len, InsertAt(m.free, at, a), m.rover,
                       m.b4rover, m.largest_blk, m.numalloc, m.numfree + 1)
<1> DEFINE m == s.mh[h]
           f == InsertAt(m.free, at, a)
           k == m.numfree + 1
           d == [m EXCEPT !.free = InsertAt(@, at, a), !.numfree = @ + 1]
           t == Changed(s, h, s.len, s.used, d)
<1>1. m \in Descriptor /\ f \in Seq(Nat) /\ k \in Int  BY DEF Typed, Descriptor
<1>2. d = [m EXCEPT !.free = f, !.numfree = k]  OBVIOUS
<1>3. Desc(d, m.len, f, m.rover, m.b4rover, m.largest_blk, m.numalloc, k)
  <2> HIDE DEF m, f, k, d
  <2> QED  BY <1>1, <1>2 DEF Desc, Descriptor
<1>4. LinkFree(s, h, a, x) = [block |-> a, heap |-> t]  BY DEF LinkFree
<1>5. LinkFree(s, h, a, x).block = a /\ LinkFree(s, h, a, x).heap = t
  <2> HIDE DEF t
  <2> QED  BY <1>4
<1> HIDE DEF d, f, k
<1>6. /\ Only(s, t, h) /\ t.used = s.used /\ t.mh[h] = d /\ t.len = s.len
  BY <1>3, ChangedIs DEF Desc
<1> HIDE DEF t
<1> QED  BY <1>3, <1>5, <1>6 DEF f, k

LEMMA HeapOkIs ==
    ASSUME NEW s, NEW h, HeapOk(s, h)
    PROVE  /\ Typed(s) /\ h \in Heaps(s) /\ h \in Nat /\ h >= 1 /\ End(s, h) \in Nat
           /\ Tiling(s.len, Heaps(s), Ends(s)) /\ AloneOf(s.len, s.used) /\ Ends(s)[h] = End(s, h)
           /\ RingOf(s.mh[h].free, h, End(s, h), DOMAIN s.len, s.used)
           /\ Counted(s, h) /\ Bounded(s, h)
<1>1. /\ Typed(s) /\ h \in Heaps(s) /\ Tiling(s.len, Heaps(s), Ends(s)) /\ AloneOf(s.len, s.used)
      /\ Ring(s, h) /\ Counted(s, h) /\ Bounded(s, h)
  BY DEF HeapOk, TilesAll
<1>2. Ends(s)[h] = End(s, h)  BY <1>1 DEF Ends
<1>3. h \in Nat /\ h >= 1 /\ End(s, h) \in Nat  BY <1>1, <1>2, HeapsAre
<1> QED  BY <1>1, <1>2, <1>3 DEF Ring

LEMMA HalfNoJoin ==
    ASSUME NEW s, NEW h, HeapOk(s, h), NEW a \in s.used, ~IsFree(s, a + s.len[a])
    PROVE  Half(s, s, h, a)
<1>1. Only(s, s, h)  BY HeapOkIs DEF Only
<1>2. a + s.len[a] \in s.used \/ a + s.len[a] \notin Blocks(s.len)
  BY DEF IsFree, Blocks
<1>3. /\ Tiling(s.len, Heaps(s), Ends(s)) /\ AloneOf(s.len, s.used)
      /\ RingOf(s.mh[h].free, h, End(s, h), DOMAIN s.len, s.used)
      /\ Counted(s, h) /\ Bounded(s, h)
  BY HeapOkIs
<1>4. Outside(s, s, h)  BY DEF Outside
<1> QED  BY <1>1, <1>2, <1>3, <1>4 DEF Half, Counted, Bounded

LEMMA HalfJoin ==
    ASSUME NEW s, NEW h, HeapOk(s, h), NEW a \in s.used, Inside(s, h, a), NEW n, n = a + s.len[a], IsFree(s, n)
    PROVE  LET y == JoinNext(s, h, a, n)
           IN  Half(s, y, h, a) /\ Follows(y.mh[h].free, h, a, After(s.mh[h].free, n))
<1> DEFINE y == JoinNext(s, h, a, n)
           m == s.mh[h]
           H == Heaps(s)
           e == Ends(s)
           new == With(Without(s.len, n), a, s.len[a] + s.len[n])
<1>1. /\ Typed(s) /\ h \in H /\ h \in Nat /\ Tiling(s.len, H, e) /\ AloneOf(s.len, s.used)
      /\ RingOf(m.free, h, e[h], DOMAIN s.len, s.used) /\ e[h] = End(s, h) /\ Counted(s, h) /\ Bounded(s, h)
      /\ e[h] \in Nat
  BY HeapOkIs
<1> HIDE DEF H, e
<1>2. h < a /\ a < e[h]  BY <1>1 DEF Inside
<1>3. a \in Blocks(s.len) /\ a \in Nat /\ n \in DOMAIN s.len
  BY <1>1, BlocksAre DEF AloneOf
<1>4. n \in Blocks(s.len) /\ n \notin s.used /\ n \in Nat
  BY <1>1, <1>3, BlocksAre DEF IsFree, Blocks
<1>5. Merges(s.len, new, a, n)  BY <1>1, <1>3, <1>4, MergedIs
<1> HIDE DEF new
<1>6. /\ Tiling(new, H, e) /\ AloneOf(new, s.used)
      /\ RingOf(Unlink(m.free, n), h, e[h], DOMAIN new, s.used)
      /\ Contains(m.free, n) /\ n # h /\ h < n /\ n < e[h] /\ a < n /\ n \in Nat
      /\ Len(Unlink(m.free, n)) = Len(m.free) - 1
      /\ \A z : Contains(Unlink(m.free, n), z) <=> Contains(m.free, z) /\ z # n
      /\ a + new[a] \in s.used \/ a + new[a] \notin Blocks(new)
      /\ \A c : Contains(m.free, c) => c <= a \/ n <= c
  BY <1>1, <1>2, <1>4, <1>5, JoinFacts, SMTT(30)
<1>7. Unlink(m.free, n) \in Seq(Nat)  BY <1>6 DEF RingOf
<1>8. /\ Only(s, y, h) /\ y.used = s.used /\ y.len = new
      /\ Desc(y.mh[h], m.len, Unlink(m.free, n), IF m.rover = n THEN a ELSE m.rover,
              m.b4rover, m.largest_blk, m.numalloc, m.numfree - 1)
  BY <1>1, <1>3, <1>7, JoinNextIs DEF new, H
<1> HIDE DEF y
<1>9. ~Contains(m.free, a)  BY <1>1, <1>2, InRing
<1>10. Follows(y.mh[h].free, h, a, After(m.free, n))
  <2>1. Follows(Unlink(m.free, n), h, a, After(m.free, n))
    BY <1>1, <1>2, <1>3, <1>6, <1>9, AfterFollows
  <2> QED  BY <1>8, <2>1 DEF Desc
<1>11. /\ DOMAIN new = DOMAIN s.len \ {n}
       /\ \A b \in DOMAIN s.len \ {n} : b # a => new[b] = s.len[b]
  BY <1>5 DEF Merges
<1>12. Outside(s, y, h)
  <2>1. Inside(s, h, a) /\ Inside(s, h, n)  BY <1>1, <1>2, <1>6 DEF Inside
  <2> QED  BY <1>8, <1>11, <2>1 DEF Outside
<1>13. \A b \in s.used : b # a => y.len[b] = s.len[b]
  <2>1. \A b \in s.used : b \in DOMAIN s.len /\ b # n  BY <1>1, <1>4 DEF AloneOf, Blocks
  <2> QED  BY <1>8, <1>11, <2>1
<1>14. \A b : Contains(Unlink(m.free, n), b) /\ b # h =>
          /\ b \in Nat /\ new[b] = s.len[b]
          /\ s.len[b] <= m.largest_blk /\ (b < m.rover => s.len[b] <= m.b4rover)
          /\ Contains(m.free, b) /\ b # n
  <2> SUFFICES ASSUME NEW b, Contains(Unlink(m.free, n), b), b # h
               PROVE  /\ b \in Nat /\ new[b] = s.len[b]
                      /\ s.len[b] <= m.largest_blk /\ (b < m.rover => s.len[b] <= m.b4rover)
                      /\ Contains(m.free, b) /\ b # n
    OBVIOUS
  <2>1. Contains(m.free, b) /\ b # n  BY <1>6
  <2>2. b \in DOMAIN s.len /\ b \notin s.used /\ b \in Nat  BY <1>1, <2>1, InRing
  <2>3. new[b] = s.len[b]  BY <1>11, <2>1, <2>2
  <2> QED  BY <1>1, <2>1, <2>2, <2>3 DEF Bounded
<1>15. \A b : Contains(y.mh[h].free, b) /\ b # h =>
          /\ y.len[b] <= y.mh[h].largest_blk
          /\ b < y.mh[h].rover => y.len[b] <= y.mh[h].b4rover
  <2>1. m.rover = n => \A b : b \in Nat /\ b < a => b < m.rover  BY <1>3, <1>4, <1>6
  <2>2. /\ y.mh[h].free = Unlink(m.free, n) /\ y.mh[h].rover = (IF m.rover = n THEN a ELSE m.rover)
        /\ y.mh[h].b4rover = m.b4rover /\ y.mh[h].largest_blk = m.largest_blk /\ y.len = new
    BY <1>8 DEF Desc
  <2> QED  BY <1>14, <2>1, <2>2
<1>16. Contains(y.mh[h].free, y.mh[h].rover) \/ y.mh[h].rover = a
  BY <1>1, <1>6, <1>8 DEF Desc, Bounded
<1>17. /\ y.mh[h].numfree = Len(y.mh[h].free) - 1 /\ y.mh[h].numalloc = s.mh[h].numalloc
       /\ y.mh[h].b4rover = s.mh[h].b4rover /\ y.mh[h].largest_blk = s.mh[h].largest_blk
  BY <1>1, <1>6, <1>8 DEF Desc, Counted
<1>18. /\ RingOf(y.mh[h].free, h, End(s, h), DOMAIN y.len, s.used)
       /\ Tiling(y.len, H, e) /\ AloneOf(y.len, s.used)
       /\ a + y.len[a] \in s.used \/ a + y.len[a] \notin Blocks(y.len)
  BY <1>1, <1>6, <1>8 DEF Desc
<1>19. Half(s, y, h, a)
  BY <1>8, <1>12, <1>13, <1>15, <1>16, <1>17, <1>18 DEF Half, H, e
<1> QED  BY <1>10, <1>19 DEF y

LEMMA OnlyTwice ==
    ASSUME NEW s, NEW y, NEW z, NEW h \in Heaps(s), Only(s, y, h), Only(y, z, h)
    PROVE  Only(s, z, h)
BY DEF Only, Heaps

LEMMA LinkHalf ==
    ASSUME NEW s, NEW h, HeapOk(s, h), NEW a \in s.used, Inside(s, h, a),
           NEW y, Half(s, y, h, a), NEW x, Follows(y.mh[h].free, h, a, x)
    PROVE  LET r == LinkFree(y, h, a, x) IN Linked(s, r.heap, r.block, h, a)
<1> DEFINE r == LinkFree(y, h, a, x)
           z == r.heap
           m == y.mh[h]
           H == Heaps(s)
           e == Ends(s)
           p == Before(m.free, x)
           at == IF x = h THEN Len(m.free) + 1 ELSE IndexIn(m.free, x)
           new == With(Without(y.len, a), p, y.len[p] + y.len[a])
<1>1. h \in H /\ h \in Nat /\ e[h] = End(s, h) /\ Typed(s)  BY HeapOkIs
<1>2. /\ Only(s, y, h) /\ y.used = s.used /\ Outside(s, y, h)
      /\ Tiling(y.len, H, e) /\ AloneOf(y.len, s.used)
      /\ RingOf(m.free, h, e[h], DOMAIN y.len, s.used)
      /\ a + y.len[a] \in s.used \/ a + y.len[a] \notin Blocks(y.len)
      /\ m.numfree = Len(m.free) - 1 /\ m.numalloc = s.mh[h].numalloc
      /\ m.b4rover = s.mh[h].b4rover /\ m.largest_blk = s.mh[h].largest_blk
      /\ Contains(m.free, m.rover) \/ m.rover = a
      /\ \A b : Contains(m.free, b) /\ b # h =>
            /\ y.len[b] <= m.largest_blk
            /\ b < m.rover => y.len[b] <= m.b4rover
      /\ \A b \in s.used : b # a => y.len[b] = s.len[b]
  BY <1>1 DEF Half
<1>3. Typed(y) /\ h \in Heaps(y) /\ Heaps(y) = H  BY <1>1, <1>2 DEF Only, Heaps
<1> HIDE DEF H, e
<1>4. h < a /\ a < e[h] /\ a \in Blocks(y.len) /\ a \in DOMAIN y.len /\ a \in Nat
  BY <1>1, <1>2, BlocksAre DEF Inside, AloneOf
<1>5. Contains(m.free, p) /\ p < a /\ p \in Nat /\ h <= p
  BY <1>1, <1>2, <1>4, BeforeFollows
<1>8. Frees(y.len, H, e, s.used, h, m.free, a)  BY <1>1, <1>2, <1>4 DEF Frees
<1>6. CASE p # h /\ p + y.len[p] = a
  <2>1. p \in Blocks(y.len) /\ p \notin s.used
    <3>1. p \in DOMAIN y.len /\ h < p /\ p < e[h] /\ p \notin s.used
      BY <1>1, <1>2, <1>5, <1>6, InRing
    <3> QED  BY <1>1, <1>2, <3>1, TagInside
  <2> HIDE DEF p
  <2>2. Merges(y.len, new, p, a)  BY <1>2, <1>4, <1>6, <2>1, MergedIs
  <2>3. /\ Tiling(new, H, e) /\ AloneOf(new, s.used \ {a})
        /\ RingOf(m.free, h, e[h], DOMAIN new, s.used \ {a})
    BY <1>5, <1>6, <1>8, <2>2, LinkJoins
  <2>4. /\ r.block = p /\ Only(y, z, h) /\ z.used = y.used /\ z.len = new
        /\ Desc(z.mh[h], m.len, m.free, IF m.rover = a THEN p ELSE m.rover,
                m.b4rover, m.largest_blk, m.numalloc, m.numfree)
    BY <1>3, <1>5, <1>6, LinkFreeJoins DEF p
  <2> HIDE DEF r, new
  <2>5. Only(s, z, h)  BY <1>1, <1>2, <2>4, OnlyTwice DEF H
  <2>6. /\ DOMAIN new = DOMAIN y.len \ {a}
        /\ \A b \in DOMAIN y.len \ {a} : b # p => new[b] = y.len[b]
    BY <2>2 DEF Merges
  <2>7. Inside(s, h, a) /\ Inside(s, h, p)
    <3>1. h < p /\ p < e[h]  BY <1>1, <1>2, <1>5, <1>6, InRing
    <3> QED  BY <1>1, <1>4, <3>1 DEF Inside
  <2>8. Outside(s, z, h)
    <3>1. \A b : b \in DOMAIN z.len <=> b \in DOMAIN y.len /\ b # a  BY <2>4, <2>6
    <3>2. \A b : b \in DOMAIN y.len /\ b # a /\ b # p => z.len[b] = y.len[b]
      BY <2>4, <2>6
    <3> QED  BY <1>2, <2>4, <2>7, <3>1, <3>2 DEF Outside
  <2>9. \A b \in s.used : b # a => z.len[b] = s.len[b]
    <3>1. \A b \in s.used : b \in DOMAIN y.len /\ b # p
      BY <1>2, <2>1 DEF AloneOf, Blocks
    <3> QED  BY <1>2, <2>4, <2>6, <3>1
  <2>10. \A b : Contains(m.free, b) /\ b # h /\ b # p =>
            /\ b \in Nat /\ z.len[b] = y.len[b]
            /\ z.len[b] <= m.largest_blk /\ (b < m.rover => z.len[b] <= m.b4rover)
    <3> SUFFICES ASSUME NEW b, Contains(m.free, b), b # h, b # p
                 PROVE  /\ b \in Nat /\ z.len[b] = y.len[b]
                        /\ z.len[b] <= m.largest_blk /\ (b < m.rover => z.len[b] <= m.b4rover)
      OBVIOUS
    <3>1. b \in DOMAIN y.len /\ b \notin s.used /\ b \in Nat  BY <1>1, <1>2, InRing
    <3>2. z.len[b] = y.len[b]  BY <2>4, <2>6, <3>1
    <3> QED  BY <1>2, <3>1, <3>2
  <2>11. \A b : Contains(m.free, b) /\ b # h /\ b # p =>
            /\ z.len[b] <= z.mh[h].largest_blk
            /\ b < z.mh[h].rover => z.len[b] <= z.mh[h].b4rover
    <3>1. \A b : b \in Nat /\ b < p => b < a  BY <1>4, <1>5
    <3> QED  BY <2>4, <2>10, <3>1 DEF Desc
  <2>12. /\ z.mh[h].free = m.free /\ Contains(m.free, z.mh[h].rover)
         /\ z.mh[h].numfree = Len(m.free) - 1 /\ z.mh[h].numalloc = s.mh[h].numalloc
         /\ z.mh[h].b4rover = s.mh[h].b4rover /\ z.mh[h].largest_blk = s.mh[h].largest_blk
    BY <1>2, <1>5, <2>4 DEF Desc
  <2>13. z.used = s.used /\ r.block = p /\ z.len = new  BY <1>2, <2>4
  <2>14. RingOf(m.free, h, End(s, h), DOMAIN z.len, s.used \ {a}) /\ AloneOf(z.len, s.used \ {a})
         /\ Tiling(z.len, Heaps(s), Ends(s))
    BY <1>1, <2>3, <2>13 DEF H, e
  <2> HIDE DEF z, m
  <2>15. Linked(s, z, p, h, a)
    BY <1>5, <1>6, <2>5, <2>8, <2>9, <2>11, <2>12, <2>13, <2>14 DEF Linked
  <2> QED  BY <2>13, <2>15 DEF z, r
<1>7. CASE ~(p # h /\ p + y.len[p] = a)
  <2> DEFINE f == InsertAt(m.free, at, a)
  <2>1. /\ AloneOf(y.len, s.used \ {a}) /\ RingOf(f, h, e[h], DOMAIN y.len, s.used \ {a})
        /\ IsAdded(f, m.free, a)
    <3>2. ~Touches(y.len, h, Before(m.free, x), a)  BY <1>7 DEF Touches
    <3>3. f = InsertAt(m.free, Spot(m.free, h, x), a)  BY DEF Spot
    <3>4. Follows(m.free, h, a, x)  OBVIOUS
    <3> HIDE DEF f, at, p, m
    <3> QED  BY <1>8, <3>2, <3>3, <3>4, LinkInserts
  <2> HIDE DEF at, p
  <2>9. Len(f) = Len(m.free) + 1 /\ \A c : Contains(f, c) <=> Contains(m.free, c) \/ c = a
    BY <2>1 DEF IsAdded
  <2>2. f \in Seq(Nat)  BY <2>1 DEF RingOf
  <2>3. /\ r.block = a /\ Only(y, z, h) /\ z.used = y.used /\ z.len = y.len
        /\ Desc(z.mh[h], m.len, f, m.rover, m.b4rover, m.largest_blk, m.numalloc, m.numfree + 1)
    BY <1>3, <1>7, <2>2, LinkFreeInserts DEF p, at
  <2> HIDE DEF r, f
  <2>4. Only(s, z, h)  BY <1>1, <1>2, <2>3, OnlyTwice DEF H
  <2>5. Outside(s, z, h)  BY <1>2, <2>3 DEF Outside
  <2>6. \A b \in s.used : b # a => z.len[b] = s.len[b]  BY <1>2, <2>3
  <2>7. \A b : Contains(f, b) /\ b # h /\ b # a =>
            /\ z.len[b] <= z.mh[h].largest_blk
            /\ b < z.mh[h].rover => z.len[b] <= z.mh[h].b4rover
    BY <1>2, <2>1, <2>9, <2>3 DEF Desc
  <2>8. Len(m.free) \in Nat  BY <1>1, <1>2, InRing
  <2>12. /\ z.mh[h].free = f /\ Contains(f, z.mh[h].rover)
         /\ z.mh[h].numfree = Len(f) - 1 /\ z.mh[h].numalloc = s.mh[h].numalloc
         /\ z.mh[h].b4rover = s.mh[h].b4rover /\ z.mh[h].largest_blk = s.mh[h].largest_blk
    BY <1>2, <2>1, <2>9, <2>3, <2>8 DEF Desc
  <2>13. z.used = s.used /\ r.block = a /\ a # h /\ Contains(f, a)
    BY <1>1, <1>2, <1>4, <2>1, <2>9, <2>3
  <2>14. RingOf(f, h, End(s, h), DOMAIN z.len, s.used \ {a}) /\ AloneOf(z.len, s.used \ {a})
         /\ Tiling(z.len, Heaps(s), Ends(s))
    BY <1>1, <1>2, <2>1, <2>3 DEF H, e
  <2> HIDE DEF z, m
  <2>15. Linked(s, z, a, h, a)
    BY <2>4, <2>5, <2>6, <2>7, <2>12, <2>13, <2>14 DEF Linked
  <2> QED  BY <2>13, <2>15 DEF z, r
<1> QED  BY <1>6, <1>7

Recounted(m, d, k, b4, lg) ==
    /\ m \in Descriptor /\ k \in Int /\ b4 \in Nat /\ lg \in Nat
    /\ d = [m EXCEPT !.numalloc = k, !.b4rover = b4, !.largest_blk = lg]

LEMMA RecountedIs ==
    ASSUME NEW m, NEW k, NEW b4, NEW lg, NEW d, Recounted(m, d, k, b4, lg)
    PROVE  Desc(d, m.len, m.free, m.rover, b4, lg, k, m.numfree)
BY DEF Desc, Descriptor, Recounted

\* The end of __MemFree.
Counting(z, h, used, blk) ==
    LET m == z.mh[h]
        size == z.len[blk]
    IN  Changed(z, h, z.len, used,
                [m EXCEPT !.numalloc = @ - 1, !.b4rover = BeforeRover(m, blk, size),
                          !.largest_blk = Max({@, size})])

LEMMA BlockFreed ==
    ASSUME NEW s, NEW h, HeapOk(s, h), NEW a \in s.used, Inside(s, h, a),
           NEW z, NEW blk, Linked(s, z, blk, h, a)
    PROVE  Freed(s, Counting(z, h, s.used \ {a}, blk), h, a)
<1> DEFINE m == z.mh[h]
           size == z.len[blk]
           k == m.numalloc - 1
           b4 == BeforeRover(m, blk, size)
           lg == Max({m.largest_blk, size})
           d == [m EXCEPT !.numalloc = @ - 1, !.b4rover = BeforeRover(m, blk, size),
                          !.largest_blk = Max({@, size})]
           t == Changed(z, h, z.len, s.used \ {a}, d)
           U == s.used \ {a}
<1> USE SizesAre
<1>1. /\ Typed(s) /\ h \in Heaps(s) /\ h \in Nat /\ Tiling(s.len, Heaps(s), Ends(s))
      /\ AloneOf(s.len, s.used) /\ Ends(s)[h] = End(s, h) /\ Counted(s, h) /\ Bounded(s, h)
  BY HeapOkIs
<1>2. /\ Only(s, z, h) /\ z.used = s.used /\ Outside(s, z, h)
      /\ Tiling(z.len, Heaps(s), Ends(s)) /\ AloneOf(z.len, U)
      /\ RingOf(m.free, h, End(s, h), DOMAIN z.len, U)
      /\ m.numfree = Len(m.free) - 1 /\ m.numalloc = s.mh[h].numalloc
      /\ m.b4rover = s.mh[h].b4rover /\ m.largest_blk = s.mh[h].largest_blk
      /\ Contains(m.free, m.rover) /\ Contains(m.free, blk) /\ blk # h
      /\ \A b \in s.used : b # a => z.len[b] = s.len[b]
  BY DEF Linked
<1>3. \A b : Contains(m.free, b) /\ b # h /\ b # blk =>
          /\ z.len[b] <= m.largest_blk
          /\ b < m.rover => z.len[b] <= m.b4rover
  BY DEF Linked
<1>4. \A b : Contains(m.free, b) /\ b # h =>
          b \in Nat /\ z.len[b] \in Nat /\ z.len[b] <= Top
  <2>1. \A b : Contains(m.free, b) /\ b # h => b \in DOMAIN z.len /\ h < b /\ b < Ends(s)[h]
    BY <1>1, <1>2, InRing
  <2>2. \A b : Contains(m.free, b) /\ b # h => b \in Blocks(z.len)
    BY <1>1, <1>2, <2>1, TagInside
  <2> QED  BY <1>2, <2>1, <2>2, BlocksAre
<1>5. Typed(z) /\ h \in Heaps(z) /\ m \in Descriptor /\ m.rover \in Nat /\ m.numalloc \in Int
  <2>1. Typed(z) /\ h \in Heaps(z)  BY <1>1, <1>2 DEF Only, Heaps
  <2> QED  BY <2>1 DEF Typed, Descriptor
<1>6. size \in Nat /\ size <= Top /\ blk \in Nat  BY <1>2, <1>4
<1>7. m.b4rover \in 0..Top /\ m.largest_blk \in (0..Top) \cup {Largest}
  BY <1>1, <1>2 DEF Bounded
<1> HIDE DEF m, size
<1>8. /\ lg = (IF m.largest_blk >= size THEN m.largest_blk ELSE size)
      /\ Max({m.b4rover, size}) = IF m.b4rover >= size THEN m.b4rover ELSE size
  BY <1>6, <1>7, MaxOfTwo
<1>9. lg \in (0..Top) \cup {Largest} /\ lg \in Nat /\ m.largest_blk <= lg /\ size <= lg
  BY <1>6, <1>7, <1>8
<1>10. /\ b4 \in 0..Top /\ m.b4rover <= b4 /\ (blk < m.rover => size <= b4)
  BY <1>6, <1>7, <1>8 DEF BeforeRover
<1>11. d = [m EXCEPT !.numalloc = k, !.b4rover = b4, !.largest_blk = lg]  OBVIOUS
<1>12. k \in Int /\ b4 \in Nat  BY <1>5, <1>10
<1> HIDE DEF k, b4, lg, d
<1>13. Desc(d, m.len, m.free, m.rover, b4, lg, k, m.numfree)
  <2>1. m \in Descriptor /\ lg \in Nat /\ k \in Int /\ b4 \in Nat  BY <1>5, <1>9, <1>12
  <2>2. Recounted(m, d, k, b4, lg)  BY <1>11, <2>1 DEF Recounted
  <2> QED  BY <2>2, RecountedIs
<1>14. Only(z, t, h) /\ t.len = z.len /\ t.used = U /\ t.mh[h] = d
  BY <1>5, <1>13, ChangedIs DEF Desc, m
<1> HIDE DEF t
<1>15. Only(s, t, h) /\ Typed(t)
  <2>1. Only(s, t, h)  BY <1>1, <1>2, <1>14, OnlyTwice
  <2> QED  BY <2>1 DEF Only
<1>16. Heaps(t) = Heaps(s) /\ Ends(t) = Ends(s) /\ End(t, h) = End(s, h)
  BY <1>1, <1>15, OnlyEnds
<1>17. Outside(s, t, h)  BY <1>2, <1>14 DEF Outside
<1>18. TilesAll(t) /\ AloneOf(t.len, t.used) /\ h \in Heaps(t)
  BY <1>1, <1>2, <1>14, <1>16 DEF TilesAll
<1>19. Ring(t, h)  BY <1>2, <1>13, <1>14, <1>16 DEF Ring, Desc
<1>20. Counted(t, h)
  <2> DEFINE S == {b \in s.used : Inside(s, h, b)}
  <2>1. IsFiniteSet(S) /\ a \in S  BY <1>1, UsedFinite, FS_Subset
  <2>2. {b \in t.used : Inside(t, h, b)} = S \ {a}  BY <1>14, <1>16 DEF Inside
  <2>3. s.mh[h].numalloc = Cardinality(S)  BY <1>1 DEF Counted
  <2> HIDE DEF S
  <2>4. Cardinality({b \in t.used : Inside(t, h, b)}) = k
    <3>1. m.numalloc = Cardinality(S)  BY <1>2, <2>3
    <3>2. Cardinality(S \ {a}) = Cardinality(S) - 1  BY <2>1, FS_RemoveElement
    <3> QED  BY <2>2, <3>1, <3>2 DEF k
  <2> QED  BY <1>2, <1>13, <1>14, <2>4 DEF Counted, Desc
<1>21. Bounded(t, h)
  <2>1. \A b : Contains(m.free, b) /\ b # h =>
          /\ z.len[b] <= lg
          /\ b < m.rover => z.len[b] <= b4
    <3> SUFFICES ASSUME NEW b, Contains(m.free, b), b # h
                 PROVE  z.len[b] <= lg /\ (b < m.rover => z.len[b] <= b4)
      OBVIOUS
    <3>1. z.len[b] \in Nat /\ lg \in Nat /\ b4 \in Nat /\ m.b4rover \in Nat /\ m.largest_blk \in Nat
      BY <1>4, <1>7, <1>9, <1>10
    <3>2. CASE b = blk  BY <1>9, <1>10, <3>2 DEF size
    <3>3. CASE b # blk  BY <1>3, <1>9, <1>10, <3>1, <3>3
    <3> QED  BY <3>2, <3>3
  <2> QED  BY <1>2, <1>9, <1>10, <1>13, <1>14, <2>1 DEF Bounded, Desc
<1>22. HeapOk(t, h)  BY <1>15, <1>18, <1>19, <1>20, <1>21 DEF HeapOk
<1>23. /\ \A b \in t.used : t.len[b] = s.len[b]
       /\ s.mh[h].largest_blk <= t.mh[h].largest_blk
  BY <1>2, <1>9, <1>13, <1>14 DEF Desc
<1>24. Freed(s, t, h, a)  BY <1>14, <1>15, <1>17, <1>22, <1>23 DEF Freed
<1> QED  BY <1>24 DEF Counting, t, d, size, m
\* Whichever way it is found, the place of a block is before the first free block above it.
LEMMA PlaceIsNext ==
    ASSUME NEW s, NEW h, HeapOk(s, h), NEW a \in s.used, Inside(s, h, a)
    PROVE  Follows(s.mh[h].free, h, a, Place(s, h, a))
<1> DEFINE m == s.mh[h]
           free == m.free
           n == Len(free)
           S == {b \in DOMAIN s.len : a < b /\ b < h + m.len /\ IsFree(s, b)}
           from == IndexIn(free, SearchFrom(m, a))
           I == {i \in from..n : a < free[i]}
<1> USE SizesAre
<1>1. /\ h \in Nat /\ Tiling(s.len, Heaps(s), Ends(s)) /\ AloneOf(s.len, s.used) /\ h \in Heaps(s)
      /\ RingOf(free, h, End(s, h), DOMAIN s.len, s.used) /\ Bounded(s, h) /\ Ends(s)[h] = End(s, h)
      /\ End(s, h) = h + m.len
  BY HeapOkIs DEF End
<1>2. a \in Nat /\ h < a  BY <1>1, BlocksAre DEF AloneOf, Inside
<1>3. free \in Seq(Nat)  BY <1>1 DEF RingOf
<1>4. /\ Rising(free) /\ n > 0 /\ n \in Nat /\ h = free[1] /\ Contains(free, h)
      /\ \A b : Contains(free, b) => b \in Nat /\ h <= b
      /\ ~Contains(free, a)
  <2> HIDE DEF m
  <2> QED  BY <1>1, <1>2, <1>3, InRing
<1>5. Contains(free, m.rover) /\ m.rover \in Nat  BY <1>1, <1>4 DEF Bounded
<1>6. \A b : b \in S <=> Contains(free, b) /\ a < b
  <2>1. \A b \in DOMAIN s.len : h < b /\ b < Ends(s)[h] => b \in Blocks(s.len)
    BY <1>1, TagInside
  <2>2. \A b : Contains(free, b) /\ b # h => h < b /\ b < h + m.len /\ b \in DOMAIN s.len /\ b \notin s.used
    BY <1>1, <1>3, InRing
  <2>3. \A b : h < b /\ b < h + m.len /\ b \in DOMAIN s.len /\ b \notin s.used => Contains(free, b)
    BY <1>1, <1>3, InRing
  <2>4. \A b \in S : b \in Nat /\ h < b  BY <1>1, <1>2, BlocksAre
  <2> QED  BY <1>1, <1>2, <2>1, <2>2, <2>3, <2>4 DEF IsFree, Blocks
<1> HIDE DEF m, free, S
<1> DEFINE first == After(free, h)
           r == m.rover
<1>7. /\ Contains(free, Before(free, r))
      /\ r # h => Before(free, r) < r /\ \A y : Contains(free, y) => r <= y \/ y <= Before(free, r)
  BY <1>3, <1>4, <1>5, BeforeIs
<1>8. /\ Contains(free, After(free, r)) /\ (r = Last(free) => After(free, r) = h)
      /\ r # Last(free) => r < After(free, r) /\ \A y : Contains(free, y) => y <= r \/ After(free, r) <= y
  BY <1>3, <1>4, <1>5, AfterIs
<1>9. /\ Contains(free, first) /\ (h = Last(free) => first = h)
      /\ h # Last(free) => h < first /\ \A y : Contains(free, y) => y <= h \/ first <= y
  BY <1>3, <1>4, AfterIs
<1>10. Contains(free, Before(free, h)) /\ \A y : Contains(free, y) => y <= Before(free, h)
  <2>1. Before(free, h) = Last(free)  BY <1>4 DEF Before
  <2> QED  BY <1>3, <1>4, <2>1, FirstAndLast
<1>11. r \in Nat /\ r # a /\ Contains(free, r) /\ \A b : Contains(free, b) => b \in Nat /\ h <= b /\ b # a
  BY <1>4, <1>5
<1> HIDE DEF r, first
<1>12. ASSUME a < r, a > Before(free, r) PROVE Follows(free, h, a, r)
  <2>1. \A y : Contains(free, y) => y < a \/ r <= y  BY <1>2, <1>7, <1>11, <1>12
  <2> QED  BY <1>1, <1>2, <1>11, <1>12, <2>1 DEF Follows
<1>13. ASSUME a < first PROVE Follows(free, h, a, first)
  <2>1. h # Last(free)  BY <1>1, <1>2, <1>9, <1>13
  <2>2. \A y : Contains(free, y) => y < a \/ first <= y
    BY <1>1, <1>2, <1>9, <1>11, <1>13, <2>1
  <2> QED  BY <1>1, <1>2, <1>9, <1>11, <1>13, <2>1, <2>2 DEF Follows
<1>14. ASSUME a >= r, a < After(free, r) PROVE Follows(free, h, a, After(free, r))
  <2>1. r # Last(free) /\ After(free, r) # h  BY <1>1, <1>2, <1>8, <1>14
  <2>2. \A y : Contains(free, y) => y < a \/ After(free, r) <= y
    BY <1>2, <1>8, <1>11, <1>14, <2>1
  <2> QED  BY <1>2, <1>8, <1>11, <1>14, <2>1, <2>2 DEF Follows
<1>15. ASSUME a > Before(free, h) PROVE Follows(free, h, a, h)
  <2>1. \A y : Contains(free, y) => y < a  BY <1>2, <1>10, <1>11, <1>15
  <2> QED  BY <1>4, <2>1 DEF Follows
<1>16. ASSUME /\ ~(a < r /\ a > Before(free, r)) /\ ~(a < r /\ a < first)
              /\ ~(a >= r /\ a < After(free, r)) /\ ~(a >= r /\ a > Before(free, h))
       PROVE  Follows(free, h, a, Min(S)) /\ Follows(free, h, a, free[Min(I)])
  <2>1. \E b : Contains(free, b) /\ a < b
    <3>1. CASE a < r  BY <1>11, <3>1
    <3>2. CASE ~(a < r)
      <4>1. Before(free, h) # a /\ Before(free, h) \in Nat  BY <1>10, <1>11
      <4>2. a < Before(free, h)  BY <1>2, <1>11, <1>16, <3>2, <4>1
      <4> QED  BY <1>10, <4>2
    <3> QED  BY <3>1, <3>2
  <2>2. Follows(free, h, a, Min(S))
    <3>1. S \in SUBSET Nat /\ S # {}  BY <1>6, <1>11, <2>1
    <3>2. Min(S) \in S /\ \A i \in S : Min(S) <= i  BY <3>1, Least
    <3>3. Contains(free, Min(S)) /\ a < Min(S) /\ Min(S) # h  BY <1>2, <1>6, <1>4, <3>2
    <3>4. \A y : Contains(free, y) => y < a \/ Min(S) <= y  BY <1>2, <1>6, <1>11, <3>2
    <3> QED  BY <3>3, <3>4 DEF Follows
  <2>3. Follows(free, h, a, free[Min(I)])
    <3>1. PICK j \in 1..n : a < free[j]  BY <2>1 DEF Contains
    <3>2. \A k \in 1..n : Contains(free, free[k]) /\ free[k] \in Nat /\ free[k] # a
      BY <1>11 DEF Contains
    <3>3. \A k, l \in 1..n : k < l => free[k] < free[l]  BY <1>4 DEF Rising
    <3>4. n \in Nat /\ j # 1  BY <1>2, <1>4, <3>1
    <3>5. /\ from \in 1..n /\ \A k \in 1..n : k < from => free[k] < a
          /\ j >= from
      <4>1. CASE a < r
        <5>1. SearchFrom(m, a) = free[2] /\ 2 \in 1..n
          BY <3>4, <4>1 DEF SearchFrom, r, free
        <5>2. from = 2  BY <1>3, <1>4, <5>1, IndexIs
        <5> QED  BY <1>2, <1>4, <3>4, <5>1, <5>2
      <4>2. CASE ~(a < r)
        <5>1. SearchFrom(m, a) = r  BY <4>2 DEF SearchFrom, r
        <5>2. from \in 1..n /\ free[from] = r  BY <1>3, <1>4, <1>11, <5>1, IndexOf
        <5> HIDE DEF from
        <5>3. \A k \in 1..n : k < from => free[k] < a
          BY <1>2, <1>11, <3>2, <3>3, <4>2, <5>2
        <5>4. ~(j < from)  BY <1>2, <3>1, <3>2, <5>3
        <5> QED  BY <5>2, <5>3, <5>4
      <4> QED  BY <4>1, <4>2
    <3> HIDE DEF from
    <3>6. I \in SUBSET Nat /\ I # {}  BY <3>1, <3>4, <3>5
    <3>7. Min(I) \in I /\ \A k \in I : Min(I) <= k
      <4> HIDE DEF I
      <4> QED  BY <3>6, Least
    <3> DEFINE i == Min(I)
    <3>8. i \in 1..n /\ a < free[i] /\ i >= from /\ i \in Nat  BY <3>4, <3>5, <3>7
    <3>9. \A k \in 1..n : k < i => free[k] < a
      <4> SUFFICES ASSUME NEW k \in 1..n, k < i PROVE free[k] < a  OBVIOUS
      <4>1. k \notin I  BY <3>7, <3>8
      <4> QED  BY <1>2, <3>2, <3>5, <3>8, <4>1
    <3> HIDE DEF i
    <3>10. \A k \in 1..n : free[k] < a \/ free[i] <= free[k]  BY <3>2, <3>3, <3>8, <3>9, SMTT(30)
    <3>11. Contains(free, free[i]) /\ free[i] # h  BY <1>2, <3>2, <3>8
    <3>12. \A y : Contains(free, y) => y < a \/ free[i] <= y  BY <3>10 DEF Contains
    <3>13. Follows(free, h, a, free[i])  BY <3>8, <3>11, <3>12 DEF Follows
    <3> QED  BY <3>13 DEF i
  <2> QED  BY <2>2, <2>3
<1> DEFINE none == /\ ~(a < r /\ a > Before(free, r)) /\ ~(a < r /\ a < first)
                   /\ ~(a >= r /\ a < After(free, r)) /\ ~(a >= r /\ a > Before(free, h))
<1>17. \/ Place(s, h, a) = r /\ a < r /\ a > Before(free, r)
       \/ Place(s, h, a) = first /\ a < first
       \/ Place(s, h, a) = After(free, r) /\ a >= r /\ a < After(free, r)
       \/ Place(s, h, a) = h /\ a > Before(free, h)
       \/ none /\ Place(s, h, a) \in {Min(S), free[Min(I)]}
  <2> DEFINE average == m.numalloc \div (m.numfree + 1)
             limit == IF m.numalloc - m.numfree \in 0..m.numfree THEN 0 ELSE 2 * average
             c == average < m.numfree /\ (limit = 0 \/ Cardinality({b \in s.used : a < b /\ b < Min(S)}) < limit)
             u == Min(S)
             v == free[Min(I)]
             w == After(free, r)
             x == Before(free, r)
             y == Before(free, h)
             place == Place(s, h, a)
  <2>1. place = CASE a < r /\ a > x -> r
                     [] a < r /\ a < first -> first
                     [] a >= r /\ a < w -> w
                     [] a >= r /\ a > y -> h
                     [] OTHER -> IF c THEN u ELSE v
    BY DEF Place, r, m, free, first, S
  <2> HIDE DEF u, v, w, x, y, c, place
  <2>2. \/ place = r /\ a < r /\ a > x
        \/ place = first /\ a < first
        \/ place = w /\ a >= r /\ a < w
        \/ place = h /\ a > y
        \/ /\ ~(a < r /\ a > x) /\ ~(a < r /\ a < first) /\ ~(a >= r /\ a < w) /\ ~(a >= r /\ a > y)
           /\ place \in {u, v}
    BY <2>1
  <2> QED  BY <2>2 DEF u, v, w, x, y, place
<1> HIDE DEF I
<1>18. none => \A x \in {Min(S), free[Min(I)]} : Follows(free, h, a, x)  BY <1>16
<1> HIDE DEF none
<1> QED  BY <1>12, <1>13, <1>14, <1>15, <1>17, <1>18 DEF m, free
LEMMA MemFreeIs ==
    ASSUME NEW s, NEW h, HeapOk(s, h), NEW a \in s.used, Inside(s, h, a)
    PROVE  Freed(s, MemFree(s, h, a), h, a)
<1> DEFINE n == a + s.len[a]
           y == IF IsFree(s, n) THEN JoinNext(s, h, a, n) ELSE s
           x == IF IsFree(s, n) THEN After(s.mh[h].free, n) ELSE Place(s, h, a)
           linked == LinkFree(y, h, a, x)
           z == linked.heap
<1>1. Half(s, y, h, a) /\ Follows(y.mh[h].free, h, a, x)
  <2>1. CASE IsFree(s, n)
    <3> HIDE DEF n
    <3>1. n = a + s.len[a]  BY DEF n
    <3> QED  BY <2>1, <3>1, HalfJoin
  <2>2. CASE ~IsFree(s, n)  BY <2>2, HalfNoJoin, PlaceIsNext
  <2> QED  BY <2>1, <2>2
<1> HIDE DEF y, x
<1>2. Linked(s, z, linked.block, h, a)  BY <1>1, LinkHalf
<1>3. MemFree(s, h, a) = Counting(z, h, s.used \ {a}, linked.block)
  BY DEF MemFree, Counting, y, x
<1> HIDE DEF linked
<1> QED  BY <1>2, <1>3, BlockFreed

LEMMA SoundIs ==
    ASSUME NEW s, Sound(s), NEW h \in Heaps(s)
    PROVE  HeapOk(s, h)
BY DEF Sound, HeapOk

LEMMA HolderIs ==
    ASSUME NEW s, Sound(s), NEW h \in Heaps(s), NEW a \in s.used, Inside(s, h, a)
    PROVE  Holders(s, a + TAG_SIZE) = {h}
<1> USE SizesAre
<1>1. Tiling(s.len, Heaps(s), Ends(s)) /\ AloneOf(s.len, s.used)  BY DEF Sound, TilesAll
<1>2. \A g \in Heaps(s) : g \in Nat /\ Ends(s)[g] = End(s, g) /\ End(s, g) \in Nat
  <2>1. \A g \in Heaps(s) : Ends(s)[g] = End(s, g)  BY DEF Ends
  <2> QED  BY <1>1, <2>1, HeapsAre
<1>3. \A g \in Heaps(s) : g = h \/ End(s, g) < h \/ End(s, h) < g
  BY <1>1, <1>2, HeapsAre
<1>4. h < a /\ a < End(s, h) /\ h \in Nat /\ End(s, h) \in Nat /\ a \in Nat
  BY <1>1, <1>2, BlocksAre DEF Inside, AloneOf
<1>5. ASSUME NEW g \in Heaps(s), g <= a + 1, a + 1 < End(s, g) PROVE g = h
  <2>1. g \in Nat /\ End(s, g) \in Nat /\ (g = h \/ End(s, g) < h \/ End(s, h) < g)
    BY <1>2, <1>3
  <2> QED  BY <1>4, <1>5, <2>1
<1>6. h <= a + 1 /\ a + 1 < End(s, h)
  <2>1. a \in Blocks(s.len)  BY <1>1 DEF AloneOf
  <2>2. a \in DOMAIN s.len /\ s.len[a] \in Nat /\ 4 <= s.len[a]
    BY <1>1, <2>1, BlocksAre
  <2>3. a + s.len[a] <= Ends(s)[h]  BY <1>1, <1>2, <1>4, <2>2, TagInside
  <2> QED  BY <1>2, <1>4, <2>2, <2>3
<1>7. Holders(s, a + TAG_SIZE) = {g \in Heaps(s) : g <= a + 1 /\ a + 1 < End(s, g)}
  BY DEF Holders, Heaps, End
<1> QED  BY <1>5, <1>6, <1>7

\* Miniheaps are apart.
LEMMA NotInside ==
    ASSUME NEW s, Sound(s), NEW g \in Heaps(s), NEW h \in Heaps(s), g # h, NEW b \in DOMAIN s.len, Inside(s, g, b)
    PROVE  ~Inside(s, h, b)
<1>1. Tiling(s.len, Heaps(s), Ends(s))  BY DEF Sound, TilesAll
<1>2. Ends(s)[g] = End(s, g) /\ Ends(s)[h] = End(s, h)  BY DEF Ends
<1>3. b \in Nat /\ g \in Nat /\ h \in Nat /\ End(s, g) \in Nat /\ End(s, h) \in Nat
  BY <1>1, <1>2, HeapsAre, BlocksAre
<1>4. g = h \/ End(s, g) < h \/ End(s, h) < g  BY <1>1, <1>2, HeapsAre
<1> QED  BY <1>3, <1>4 DEF Inside

\* The blocks of a heap are addresses.
LEMMA TagsAre ==
    ASSUME NEW t, TilesAll(t), AloneOf(t.len, t.used)
    PROVE  DOMAIN t.len \subseteq Nat /\ t.used \subseteq DOMAIN t.len /\ t.used \subseteq Blocks(t.len)
BY BlocksAre DEF AloneOf, Blocks, TilesAll

LEMMA StillSame ==
    ASSUME NEW s, Sound(s), NEW g \in Heaps(s), NEW t, SameIn(s, t, g)
    PROVE  Ring(t, g) /\ Counted(t, g) /\ Bounded(t, g)
<1>1. Ring(s, g) /\ Counted(s, g) /\ Bounded(s, g) /\ Tiling(s.len, Heaps(s), Ends(s))
  BY DEF Sound, TilesAll
<1>2. g \in Nat  BY <1>1, HeapsAre
<1> QED  BY <1>1, <1>2, KeptHeap

\* Nothing has changed but in h: what is known of the other miniheaps remains.
LEMMA OthersKept ==
    ASSUME NEW s, Sound(s), NEW h \in Heaps(s), NEW t, \A g \in Heaps(s) : g # h => t.mh[g] = s.mh[g],
           Outside(s, t, h), TilesAll(t), AloneOf(t.len, t.used),
           NEW g \in Heaps(s), g # h
    PROVE  SameIn(s, t, g)
<1>1. TilesAll(s) /\ AloneOf(s.len, s.used)  BY DEF Sound
<1>2. /\ DOMAIN s.len \subseteq Nat /\ s.used \subseteq DOMAIN s.len
      /\ DOMAIN t.len \subseteq Nat /\ t.used \subseteq DOMAIN t.len
  BY <1>1, TagsAre
<1>3. g \in Nat /\ h \in Nat /\ End(s, g) \in Nat /\ End(s, h) \in Nat /\ (End(s, g) < h \/ End(s, h) < g)
  <2>1. Ends(s)[g] = End(s, g) /\ Ends(s)[h] = End(s, h)  BY DEF Ends
  <2> QED  BY <1>1, <2>1, HeapsAre DEF TilesAll
<1>4. \A b \in Nat : Inside(s, g, b) => ~Inside(s, h, b)  BY <1>3 DEF Inside
<1>5. ASSUME NEW b, Inside(s, g, b)
      PROVE  /\ b \in DOMAIN t.len <=> b \in DOMAIN s.len
             /\ b \in DOMAIN s.len => t.len[b] = s.len[b]
             /\ b \in t.used <=> b \in s.used
  <2>1. CASE b \in Nat
    <3>1. ~Inside(s, h, b)  BY <1>4, <1>5, <2>1
    <3> QED  BY <3>1 DEF Outside
  <2>2. CASE b \notin Nat  BY <1>2, <2>2
  <2> QED  BY <2>1, <2>2
<1>6. t.mh[g] = s.mh[g]  OBVIOUS
<1> QED  BY <1>5, <1>6 DEF SameIn

LEMMA HeapChanged ==
    ASSUME NEW s, Sound(s), NEW h \in Heaps(s), NEW t, Only(s, t, h), Outside(s, t, h), HeapOk(t, h)
    PROVE  /\ Sound(t) /\ Heaps(t) = Heaps(s) /\ Ends(t) = Ends(s)
           /\ \A g \in Heaps(s) : g # h => SameIn(s, t, g)
<1>1. Heaps(t) = Heaps(s) /\ Ends(t) = Ends(s) /\ Typed(s)  BY OnlyEnds DEF Sound
<1>2. Typed(t) /\ TilesAll(t) /\ AloneOf(t.len, t.used) /\ Ring(t, h) /\ Counted(t, h) /\ Bounded(t, h)
  BY DEF HeapOk
<1>3. \A g \in Heaps(s) : g # h => t.mh[g] = s.mh[g]  BY DEF Only
<1>4. \A g \in Heaps(s) : g # h => SameIn(s, t, g)  BY <1>2, <1>3, OthersKept
<1>5. \A g \in Heaps(s) : Ring(t, g) /\ Counted(t, g) /\ Bounded(t, g)
  BY <1>2, <1>4, StillSame
<1>6. RoversOk(t)  BY DEF Only, RoversOk, Sound, Live
<1> QED  BY <1>1, <1>2, <1>4, <1>5, <1>6 DEF Sound

LEMMA SameHeapIs ==
    ASSUME NEW s, NEW t, Sound(s), SameHeap(s, t)
    PROVE  Sound(t) /\ Heaps(t) = Heaps(s) /\ Ends(t) = Ends(s)
<1>1. Heaps(t) = Heaps(s) /\ \A g : End(t, g) = End(s, g)  BY DEF SameHeap, Heaps, End
<1>2. Ends(t) = Ends(s)  BY <1>1 DEF Ends
<1>3. TilesAll(t) /\ AloneOf(t.len, t.used)  BY <1>1, <1>2 DEF Sound, TilesAll, SameHeap
<1>4. \A g \in Heaps(s) : SameIn(s, t, g)  BY DEF SameIn, SameHeap
<1>5. \A g \in Heaps(t) : Ring(t, g) /\ Counted(t, g) /\ Bounded(t, g)
  BY <1>1, <1>4, StillSame
<1> QED  BY <1>1, <1>2, <1>3, <1>5 DEF Sound, SameHeap

\* The rovers of f are set.
Roved(f, w, h, b) == [f EXCEPT !.wild = w, !.MiniHeapFreeRover = h, !.LargestSizeB4 = b]

LEMMA Reroved ==
    ASSUME NEW f, Sound(f), NEW w, w \in BOOLEAN, NEW h \in Heaps(f), NEW b, b \in (0..Top) \cup {Largest},
           ~ShrinkAnytime => ~w
    PROVE  LET t == Roved(f, w, h, b)
           IN  /\ Sound(t) /\ t.len = f.len /\ t.used = f.used /\ t.list = f.list /\ t.mh = f.mh
               /\ t.MiniHeapRover = f.MiniHeapRover /\ t.LargestSizeB4 = b /\ t.curbrk = f.curbrk
<1> DEFINE t == Roved(f, w, h, b)
<1>1. Typed(f)  BY DEF Sound
<1>2. /\ t.len = f.len /\ t.used = f.used /\ t.list = f.list /\ t.mh = f.mh
      /\ t.MiniHeapRover = f.MiniHeapRover /\ t.LargestSizeB4 = b /\ t.curbrk = f.curbrk
      /\ t.wild = w /\ t.MiniHeapFreeRover = h /\ DOMAIN t = DOMAIN f
  BY <1>1 DEF Typed, Roved
<1> HIDE DEF t
<1>3. Typed(t)  BY <1>1, <1>2 DEF Typed, Heaps
<1>4. RoversOk(t)
  <2>1. RoversOk(f)  BY DEF Sound
  <2>2. f.MiniHeapRover = NULL \/ Contains(f.list, f.MiniHeapRover)
    BY <2>1, Zenon DEF RoversOk, Live
  <2>3. Live(t, t.MiniHeapRover)  BY <1>2, <2>2 DEF Live
  <2>4. Contains(t.list, h)
    <3>1. h \in ToSet(t.list) /\ t.list \in Seq(Nat)  BY <1>2, <1>3 DEF Heaps, Typed
    <3> QED  BY ONLY <3>1 DEF Contains, ToSet
  <2> QED  BY <1>2, <2>3, <2>4 DEF RoversOk, Live
<1>5. SameHeap(f, t)  BY <1>2, <1>3, <1>4 DEF SameHeap
<1>6. Sound(t)  BY <1>5, SameHeapIs
<1> QED  BY <1>2, <1>6 DEF t

WildAfter(s) == s.wild \/ ~Live(s, s.MiniHeapFreeRover) \/ ~Live(s, s.MiniHeapRover)

LEMMA WildIs ==
    ASSUME NEW s, Sound(s)
    PROVE  WildAfter(s) \in BOOLEAN /\ (~ShrinkAnytime => ~WildAfter(s))
<1>1. RoversOk(s) /\ s.wild \in BOOLEAN  BY DEF Sound, Typed
<1>2. ASSUME ~ShrinkAnytime PROVE ~s.wild /\ Live(s, s.MiniHeapFreeRover) /\ Live(s, s.MiniHeapRover)
  BY <1>1, <1>2 DEF RoversOk
<1> QED  BY <1>1, <1>2 DEF WildAfter

LEMMA NfreeOf ==
    ASSUME NEW s, NEW p, NEW h, Holders(s, p) = {h}
    PROVE  LET f == MemFree(s, h, p - TAG_SIZE)
           IN  nfree(s, p) = Roved(f, WildAfter(s), h, SizeB4(s, h, f.mh[h].largest_blk))
<1>1. Holders(s, p) # {} /\ (CHOOSE x \in Holders(s, p) : TRUE) = h  OBVIOUS
<1> QED  BY <1>1 DEF nfree, Roved, WildAfter

LEMMA NfreeIs ==
    ASSUME NEW s, Sound(s), NEW a \in s.used
    PROVE  \E h \in Heaps(s) : Inside(s, h, a) /\ Released(s, nfree(s, a + TAG_SIZE), h, a)
<1> USE SizesAre
<1>1. Typed(s) /\ Tiling(s.len, Heaps(s), Ends(s)) /\ a \in Blocks(s.len) /\ AloneOf(s.len, s.used)
  BY DEF Sound, TilesAll, AloneOf
<1>2. PICK h \in Heaps(s) : h < a /\ a < Ends(s)[h]  BY <1>1, HomeOf
<1>3. Inside(s, h, a) /\ HeapOk(s, h)  BY <1>2, SoundIs DEF Inside, Ends
<1> DEFINE f == MemFree(s, h, a)
           w == WildAfter(s)
           b == SizeB4(s, h, f.mh[h].largest_blk)
           t == Roved(f, w, h, b)
<1>4. Holders(s, a + TAG_SIZE) = {h}  BY <1>3, HolderIs
<1>5. a \in Nat /\ (a + TAG_SIZE) - TAG_SIZE = a
  <2>1. a \in Nat  BY <1>1, BlocksAre
  <2> QED  BY <2>1
<1> DEFINE p == a + TAG_SIZE
<1>6. nfree(s, p) = t
  <2>1. Holders(s, p) = {h} /\ p - TAG_SIZE = a  BY <1>4, <1>5
  <2> HIDE DEF p
  <2> QED  BY <2>1, NfreeOf
<1>7. Freed(s, f, h, a)  BY <1>3, MemFreeIs
<1> HIDE DEF f
<1>8. Only(s, f, h) /\ f.used = s.used \ {a} /\ Outside(s, f, h) /\ HeapOk(f, h)
  BY <1>7 DEF Freed
<1>9. Sound(f) /\ Heaps(f) = Heaps(s) /\ Ends(f) = Ends(s)  BY <1>8, HeapChanged
<1>10. f.mh[h].largest_blk \in (0..Top) \cup {Largest} /\ s.LargestSizeB4 \in (0..Top) \cup {Largest}
  BY <1>1, <1>8 DEF HeapOk, Bounded, Typed
<1>11. /\ b \in (0..Top) \cup {Largest}
       /\ s.LargestSizeB4 <= b
       /\ h < s.MiniHeapRover => f.mh[h].largest_blk <= b
  <2> DEFINE lg == f.mh[h].largest_blk
             B == s.LargestSizeB4
  <2>1. lg \in Nat /\ B \in Nat  BY <1>10
  <2>2. Max({B, lg}) = IF B >= lg THEN B ELSE lg  BY <2>1, MaxOfTwo
  <2>3. b = IF h < s.MiniHeapRover THEN Max({B, lg}) ELSE B  BY DEF SizeB4
  <2> HIDE DEF lg, B, b
  <2>4. lg \in (0..Top) \cup {Largest} /\ B \in (0..Top) \cup {Largest}
    BY <1>10 DEF lg, B
  <2>5. b \in {lg, B} /\ B <= b /\ (h < s.MiniHeapRover => lg <= b)  BY <2>1, <2>2, <2>3
  <2> QED  BY <2>4, <2>5 DEF lg, B
<1>12. w \in BOOLEAN /\ (~ShrinkAnytime => ~w)  BY WildIs
<1> HIDE DEF w, b
<1>13. /\ Sound(t) /\ t.len = f.len /\ t.used = f.used /\ t.list = f.list /\ t.mh = f.mh
       /\ t.MiniHeapRover = f.MiniHeapRover /\ t.LargestSizeB4 = b /\ t.curbrk = f.curbrk
  <2>1. Sound(f) /\ h \in Heaps(f) /\ b \in (0..Top) \cup {Largest}  BY <1>9, <1>11
  <2> HIDE DEF t
  <2> QED  BY <1>12, <2>1, Reroved DEF t
<1> HIDE DEF t
<1>14. t.list = s.list /\ t.used = s.used \ {a} /\ t.curbrk = s.curbrk /\ t.MiniHeapRover = s.MiniHeapRover
  BY <1>8, <1>13 DEF Only
<1>15. \A c \in t.used : t.len[c] = s.len[c]  BY <1>7, <1>8, <1>13 DEF Freed
<1>16. Ends(t) = Ends(s)  BY <1>9, <1>13 DEF Ends, End, Heaps
<1>17. ASSUME \A g \in Heaps(s) : g # h /\ g < s.MiniHeapRover =>
                 s.mh[g].largest_blk <= s.LargestSizeB4
       PROVE  Skipped(t)
  <2> SUFFICES ASSUME NEW g \in Heaps(s), g < s.MiniHeapRover
               PROVE  t.mh[g].largest_blk <= t.LargestSizeB4
    BY <1>14 DEF Skipped, Heaps
  <2>1. CASE g = h  BY <1>11, <1>13, <2>1
  <2>2. CASE g # h
    <3>1. t.mh[g] = s.mh[g]  BY <1>8, <1>13, <2>2 DEF Only
    <3>2. s.mh[g].largest_blk <= s.LargestSizeB4  BY <1>17, <2>2
    <3>3. s.mh[g].largest_blk \in Nat  BY <1>1 DEF Typed, Descriptor
    <3>4. s.LargestSizeB4 \in Nat /\ b \in Nat  BY <1>10, <1>11
    <3> QED  BY <1>11, <1>13, <3>1, <3>2, <3>3, <3>4
  <2> QED  BY <2>1, <2>2
<1>18. Released(s, t, h, a)  BY <1>13, <1>14, <1>15, <1>16, <1>17 DEF Released
<1> QED  BY <1>3, <1>6, <1>18 DEF t
-------------------------------------------------------------------------------
\* A block that is freed as if it had been allocated.

LEMMA NewBlockFreed ==
    ASSUME NEW s, NEW h, NEW b, NEW size, NEW lg, NEW x, x = Allocated(s, h, b, size, lg),
           Sound(x), h \in Heaps(x), b \in x.used, Inside(x, h, b)
    PROVE  Released(x, FreeNewBlock(s, h, b, size, lg), h, b)
<1>1. FreeNewBlock(s, h, b, size, lg) = nfree(x, b + TAG_SIZE)
  BY DEF FreeNewBlock, Allocated
<1>2. PICK g \in Heaps(x) : Inside(x, g, b) /\ Released(x, nfree(x, b + TAG_SIZE), g, b)
  BY NfreeIs
<1>3. b \in DOMAIN x.len  BY TagsAre DEF Sound
<1>4. g = h  BY <1>2, <1>3, NotInside
<1> QED  BY <1>1, <1>2, <1>4

AllocatedDesc(m, d, lg) ==
    m \in Descriptor /\ lg \in Nat /\ d = [m EXCEPT !.numalloc = @ + 1, !.largest_blk = lg]

LEMMA AllocatedDescIs ==
    ASSUME NEW m, NEW d, NEW lg, AllocatedDesc(m, d, lg)
    PROVE  Desc(d, m.len, m.free, m.rover, m.b4rover, lg, m.numalloc + 1, m.numfree)
<1> DEFINE k == m.numalloc + 1
<1>1. m \in Descriptor /\ lg \in Nat /\ k \in Int  BY DEF AllocatedDesc, Descriptor
<1>2. d = [m EXCEPT !.numalloc = k, !.largest_blk = lg]  BY DEF AllocatedDesc
<1> HIDE DEF k
<1> QED  BY <1>1, <1>2 DEF Desc, Descriptor, k

LEMMA SplitOffIs ==
    ASSUME NEW s, NEW x, NEW h, NEW a, NEW size, SplitOff(s, x, h, a, size)
    PROVE  /\ Sound(x) /\ Heaps(x) = Heaps(s) /\ Ends(x) = Ends(s)
           /\ Inside(x, h, a + size) /\ a + size \notin s.used
           /\ \A c \in s.used : c # a => x.len[c] = s.len[c]
           /\ x.len[a] = size
<1> DEFINE m == s.mh[h]
           b == a + size
           U == s.used
<1> USE SizesAre
<1>1. /\ Sound(s) /\ h \in Heaps(s) /\ a \in U /\ Inside(s, h, a)
      /\ Only(s, x, h) /\ x.used = U \cup {b} /\ Splits(s.len, x.len, a, size)
      /\ Desc(x.mh[h], m.len, m.free, m.rover, m.b4rover, m.largest_blk, m.numalloc + 1, m.numfree)
  BY DEF SplitOff
<1>2. /\ Typed(s) /\ h \in Nat /\ Tiling(s.len, Heaps(s), Ends(s)) /\ AloneOf(s.len, U) /\ Ends(s)[h] = End(s, h)
      /\ RingOf(m.free, h, End(s, h), DOMAIN s.len, U) /\ Counted(s, h) /\ Bounded(s, h) /\ End(s, h) \in Nat
  BY <1>1, SoundIs, HeapOkIs
<1>3. Tiling(x.len, Heaps(s), Ends(s)) /\ b \notin DOMAIN s.len  BY <1>1, <1>2, Split
<1>4. /\ a \in Blocks(s.len) /\ a \in Nat /\ size \in Nat /\ 4 <= size /\ 4 <= s.len[a] - size /\ s.len[a] \in Nat
      /\ DOMAIN x.len = DOMAIN s.len \cup {b} /\ x.len[a] = size /\ x.len[b] = s.len[a] - size
      /\ \A c \in DOMAIN s.len : c # a => x.len[c] = s.len[c]
  <2>1. /\ a \in Blocks(s.len) /\ size \in Nat /\ 4 <= size /\ 4 <= s.len[a] - size
        /\ DOMAIN x.len = DOMAIN s.len \cup {b} /\ x.len[a] = size /\ x.len[b] = s.len[a] - size
        /\ \A c \in DOMAIN s.len : c # a => x.len[c] = s.len[c]
    BY <1>1 DEF Splits
  <2> QED  BY <1>2, <2>1, BlocksAre
<1>5. Heaps(x) = Heaps(s) /\ Ends(x) = Ends(s) /\ End(x, h) = End(s, h) /\ Typed(x)
  <2>1. Heaps(x) = Heaps(s) /\ Ends(x) = Ends(s) /\ End(x, h) = End(s, h)
    BY <1>1, <1>2, OnlyEnds
  <2> QED  BY <1>1, <2>1 DEF Only
<1>6. h < a /\ a + s.len[a] <= End(s, h)
  <2>1. h < a /\ a < End(s, h)  BY <1>1 DEF Inside
  <2> QED  BY <1>1, <1>2, <1>4, <2>1, TagInside DEF Blocks
<1>7. Inside(x, h, b) /\ Inside(s, h, b)  BY <1>2, <1>4, <1>5, <1>6 DEF Inside
<1>8. b \notin U /\ U \subseteq DOMAIN s.len /\ U \subseteq Blocks(s.len)
  BY <1>2, <1>3 DEF AloneOf, Blocks
<1>9. \A c : c \in Blocks(x.len) <=> c \in Blocks(s.len) \/ c = b
  BY <1>3, <1>4 DEF Blocks
<1>20. \A c \in Blocks(s.len) : c \in DOMAIN s.len /\ c + s.len[c] \in DOMAIN s.len
  BY <1>2, BlocksAre
<1>10. AloneOf(x.len, x.used)
  <2>1. x.used \subseteq Blocks(x.len)  BY <1>1, <1>8, <1>9
  <2>2. ASSUME NEW c \in Blocks(x.len), c \notin x.used
        PROVE  c + x.len[c] \in x.used \/ c + x.len[c] \notin Blocks(x.len)
    <3>1. c \in Blocks(s.len) /\ c # a /\ c \notin U /\ c # b  BY <1>1, <1>9, <2>2
    <3>2. c \in DOMAIN s.len /\ c + s.len[c] \in DOMAIN s.len  BY <1>20, <3>1
    <3>4. x.len[c] = s.len[c]  BY <1>4, <3>1, <3>2
    <3>3. c + s.len[c] \in U \/ c + s.len[c] \notin Blocks(s.len)
      BY <1>2, <3>1 DEF AloneOf
    <3> QED  BY <1>1, <1>3, <1>9, <3>2, <3>3, <3>4
  <2> QED  BY <2>1, <2>2 DEF AloneOf
<1>11. Ring(x, h)
  <2>1. DOMAIN x.len \ x.used = DOMAIN s.len \ U  BY <1>1, <1>3, <1>4
  <2> QED  BY <1>1, <1>2, <1>5, <2>1 DEF Ring, RingOf, Desc
<1>12. Counted(x, h)
  <2> DEFINE S == {c \in U : Inside(s, h, c)}
  <2>1. IsFiniteSet(S) /\ b \notin S  BY <1>2, <1>8, UsedFinite, FS_Subset
  <2>2. {c \in x.used : Inside(x, h, c)} = S \cup {b}  BY <1>1, <1>5, <1>7 DEF Inside
  <2>3. m.numalloc = Cardinality(S) /\ m.numfree = Len(m.free) - 1  BY <1>2 DEF Counted
  <2> HIDE DEF S
  <2>4. Cardinality(S \cup {b}) = Cardinality(S) + 1  BY <2>1, FS_AddElement
  <2>5. /\ x.mh[h].free = m.free /\ x.mh[h].numfree = m.numfree
        /\ x.mh[h].numalloc = m.numalloc + 1
    BY <1>1 DEF Desc
  <2>6. x.mh[h].numalloc = Cardinality(S \cup {b})  BY <2>3, <2>4, <2>5
  <2>7. x.mh[h].numalloc = Cardinality({c \in x.used : Inside(x, h, c)})  BY <2>2, <2>6, SMTT(30)
  <2>8. x.mh[h].numfree = Len(x.mh[h].free) - 1  BY <2>3, <2>5
  <2> QED  BY <2>7, <2>8 DEF Counted
<1>13. Bounded(x, h)
  <2>1. \A c : Contains(m.free, c) /\ c # h => c \in DOMAIN s.len /\ c \notin U
    BY <1>2, InRing
  <2>2. \A c : Contains(m.free, c) /\ c # h => x.len[c] = s.len[c]  BY <1>1, <1>4, <2>1
  <2> QED  BY <1>1, <1>2, <2>2 DEF Bounded, Desc
<1>14. Outside(s, x, h)  BY <1>1, <1>4, <1>7 DEF Outside
<1>15. HeapOk(x, h)
  BY <1>1, <1>3, <1>5, <1>10, <1>11, <1>12, <1>13 DEF HeapOk, TilesAll
<1>16. Sound(x)  BY <1>1, <1>14, <1>15, HeapChanged
<1> QED  BY <1>4, <1>5, <1>7, <1>8, <1>16

LEMMA ShrinkIs ==
    ASSUME NEW s, Sound(s), NEW h \in Heaps(s), NEW a \in s.used, Inside(s, h, a),
           NEW new, new \in Nat, FRL_SIZE <= new, NEW k, k = s.len[a] - new, FRL_SIZE <= k
    PROVE  Shrunk(s, ShrinkBlock(s, h, a, new, k), a, new)
<1> DEFINE m == s.mh[h]
           b == a + new
           y == [s EXCEPT !.len[a] = new]
           d == [m EXCEPT !.numalloc = @ + 1, !.largest_blk = m.largest_blk]
           len == With(y.len, b, k)
           x == Changed(y, h, len, s.used \cup {b}, d)
           t == ShrinkBlock(s, h, a, new, k)
<1> USE SizesAre
<1>1. /\ Typed(s) /\ h \in Nat /\ Tiling(s.len, Heaps(s), Ends(s)) /\ AloneOf(s.len, s.used)
      /\ m \in Descriptor /\ m.largest_blk \in Nat
  <2>1. Typed(s)  BY DEF Sound
  <2> QED  BY <2>1, SoundIs, HeapOkIs, SMTT(30) DEF Typed, Descriptor
<1>2. a \in Blocks(s.len) /\ a \in DOMAIN s.len /\ a \in Nat /\ s.len[a] \in Nat
  BY <1>1, BlocksAre DEF AloneOf
<1>3. /\ y.len = [s.len EXCEPT ![a] = new] /\ y.used = s.used /\ y.list = s.list /\ y.mh = s.mh
      /\ y.MiniHeapRover = s.MiniHeapRover /\ y.LargestSizeB4 = s.LargestSizeB4
      /\ y.MiniHeapFreeRover = s.MiniHeapFreeRover /\ y.curbrk = s.curbrk /\ y.wild = s.wild
      /\ DOMAIN y = DOMAIN s
  BY <1>1 DEF Typed
<1>4. AllocatedDesc(m, d, m.largest_blk)  BY <1>1 DEF AllocatedDesc
<1> HIDE DEF y
<1>5. Typed(y) /\ h \in Heaps(y)  BY <1>1, <1>3 DEF Typed, Heaps
<1> HIDE DEF d
<1>6. Desc(d, m.len, m.free, m.rover, m.b4rover, m.largest_blk, m.numalloc + 1, m.numfree)
  BY <1>4, AllocatedDescIs
<1>7. Only(y, x, h) /\ x.len = len /\ x.used = s.used \cup {b} /\ x.mh[h] = d
  <2>1. d \in Descriptor /\ d.len = y.mh[h].len  BY <1>3, <1>6 DEF Desc
  <2> HIDE DEF len, b
  <2> QED  BY <1>5, <2>1, ChangedIs
<1> HIDE DEF x
<1>8. Only(s, x, h)
  <2>1. /\ Typed(x) /\ x.list = y.list /\ x.mh[h].len = y.mh[h].len
        /\ x.MiniHeapRover = y.MiniHeapRover /\ x.LargestSizeB4 = y.LargestSizeB4
        /\ x.MiniHeapFreeRover = y.MiniHeapFreeRover /\ x.curbrk = y.curbrk /\ x.wild = y.wild
        /\ \A g \in Heaps(y) : g # h => x.mh[g] = y.mh[g]
    BY <1>7 DEF Only
  <2>2. Heaps(y) = Heaps(s)  BY <1>3 DEF Heaps
  <2> QED  BY <1>3, <2>1, <2>2 DEF Only
<1>9. Splits(s.len, len, a, new)
  <2>1. DOMAIN y.len = DOMAIN s.len /\ y.len[a] = new /\ \A c \in DOMAIN s.len : c # a => y.len[c] = s.len[c]
    BY <1>2, <1>3
  <2>2. b # a /\ b \in Nat  BY <1>2
  <2>3. /\ DOMAIN len = DOMAIN s.len \cup {b} /\ len[b] = k /\ len[a] = new
        /\ \A c \in DOMAIN s.len : c # a /\ c # b => len[c] = s.len[c]
    <3>1. /\ DOMAIN len = DOMAIN y.len \cup {b} /\ len[b] = k
          /\ \A c \in DOMAIN y.len : c # b => len[c] = y.len[c]
      BY WithIs
    <3> QED  BY <1>2, <2>1, <2>2, <3>1
  <2>4. b \notin DOMAIN s.len  BY <1>1, <1>2, BlocksAre
  <2>5. \A c \in DOMAIN len : len[c] \in Int  BY <1>1, <1>2, <2>3, BlocksAre
  <2>6. len = [c \in DOMAIN len |-> len[c]]  BY DEF With
  <2> HIDE DEF len
  <2>7. len \in [DOMAIN s.len \cup {b} -> Int]  BY <2>3, <2>5, <2>6
  <2> QED  BY <1>2, <2>3, <2>4, <2>7 DEF Splits
<1> HIDE DEF len, x
<1>10. SplitOff(s, x, h, a, new)  BY <1>6, <1>7, <1>8, <1>9 DEF SplitOff
<1>11. /\ Sound(x) /\ Heaps(x) = Heaps(s) /\ Ends(x) = Ends(s)
       /\ Inside(x, h, b) /\ b \notin s.used
       /\ \A c \in s.used : c # a => x.len[c] = s.len[c]
       /\ x.len[a] = new
  BY <1>10, SplitOffIs
<1>12. x = Allocated(y, h, b, k, m.largest_blk)  BY <1>3 DEF Allocated, x, len, d
<1>13. t = FreeNewBlock(y, h, b, k, m.largest_blk)  BY DEF ShrinkBlock, y
<1> HIDE DEF t, b
<1>14. Released(x, t, h, b)  BY <1>7, <1>11, <1>12, <1>13, NewBlockFreed
<1>15. /\ Sound(t) /\ t.used = x.used \ {b} /\ t.list = x.list /\ Ends(t) = Ends(x)
       /\ t.curbrk = x.curbrk /\ t.MiniHeapRover = x.MiniHeapRover
       /\ \A c \in t.used : t.len[c] = x.len[c]
  BY <1>14 DEF Released
<1>16. t.used = s.used  BY <1>7, <1>11, <1>15
<1>17. ASSUME Skipped(s) PROVE Skipped(t)
  <2>1. ASSUME NEW g \in Heaps(x), g # h, g < x.MiniHeapRover PROVE x.mh[g].largest_blk <= x.LargestSizeB4
    BY <1>8, <1>11, <1>17, <2>1 DEF Only, Skipped
  <2> QED  BY <1>14, <2>1 DEF Released
<1>18. t.list = s.list /\ t.curbrk = s.curbrk /\ t.MiniHeapRover = s.MiniHeapRover
  BY <1>8, <1>15 DEF Only
<1>19. t.len[a] = new /\ \A c \in s.used : c # a => t.len[c] = s.len[c]
  BY <1>11, <1>15, <1>16
<1>20. Shrunk(s, t, a, new)  BY <1>11, <1>15, <1>16, <1>17, <1>18, <1>19 DEF Shrunk
<1> QED  BY <1>20 DEF t
-------------------------------------------------------------------------------
\* __MemAllocator.

LEMMA BlockSizeIs ==
    ASSUME NEW amt, amt \in Nat
    PROVE  BlockSize(amt) \in Nat /\ FRL_SIZE <= BlockSize(amt) /\ amt + TAG_SIZE <= BlockSize(amt)
<1> DEFINE n == amt + TAG_SIZE
           e == Even(n)
<1>1. n \in Nat  BY SizesAre
<1> HIDE DEF n
<1>2. e \in Nat /\ n <= e  BY <1>1 DEF Even
<1> HIDE DEF e
<1>3. Max({FRL_SIZE, e}) = IF FRL_SIZE >= e THEN FRL_SIZE ELSE e
  BY <1>2, SizesAre, MaxOfTwo
<1>4. BlockSize(amt) = Max({FRL_SIZE, e})  BY DEF BlockSize, e, n
<1> QED  BY <1>1, <1>2, <1>3, <1>4, SizesAre DEF n

\* What a block of the ring is.
LEMMA RingBlock ==
    ASSUME NEW s, NEW h, HeapOk(s, h), NEW a, Contains(s.mh[h].free, a), a # h
    PROVE  /\ a \in Nat /\ h < a /\ a < End(s, h) /\ a \in Blocks(s.len) /\ a \in DOMAIN s.len /\ a \notin s.used
           /\ s.len[a] \in Nat /\ FRL_SIZE <= s.len[a] /\ s.len[a] <= Top /\ a + s.len[a] <= End(s, h)
           /\ a + s.len[a] \in DOMAIN s.len /\ \A c \in DOMAIN s.len : c <= a \/ a + s.len[a] <= c
           /\ s.len[a] <= s.mh[h].largest_blk /\ Inside(s, h, a)
<1>1. /\ h \in Heaps(s) /\ h \in Nat /\ End(s, h) \in Nat
      /\ Tiling(s.len, Heaps(s), Ends(s)) /\ Ends(s)[h] = End(s, h)
      /\ RingOf(s.mh[h].free, h, End(s, h), DOMAIN s.len, s.used) /\ Bounded(s, h)
  BY HeapOkIs
<1>2. a \in Nat /\ h < a /\ a < End(s, h) /\ a \in DOMAIN s.len /\ a \notin s.used
  BY <1>1, InRing
<1>3. a \in Blocks(s.len) /\ a + s.len[a] <= End(s, h)  BY <1>1, <1>2, TagInside
<1>4. /\ s.len[a] \in Nat /\ FRL_SIZE <= s.len[a] /\ s.len[a] <= Top
      /\ a + s.len[a] \in DOMAIN s.len /\ \A c \in DOMAIN s.len : c <= a \/ a + s.len[a] <= c
  BY <1>1, <1>3, BlocksAre
<1>5. s.len[a] <= s.mh[h].largest_blk  BY <1>1 DEF Bounded
<1> QED  BY <1>2, <1>3, <1>4, <1>5 DEF Inside

\* The indices of the ring.
LEMMA RingIndex ==
    ASSUME NEW s, NEW h, HeapOk(s, h), NEW i \in 2..Len(s.mh[h].free)
    PROVE  /\ s.mh[h].free \in Seq(Nat) /\ Rising(s.mh[h].free) /\ s.mh[h].free[1] = h /\ i \in Nat
           /\ Contains(s.mh[h].free, s.mh[h].free[i]) /\ s.mh[h].free[i] # h /\ Len(s.mh[h].free) \in Nat
           /\ i \in 1..Len(s.mh[h].free)
<1> DEFINE free == s.mh[h].free
<1>1. RingOf(free, h, End(s, h), DOMAIN s.len, s.used)  BY HeapOkIs
<1>2. free \in Seq(Nat) /\ Rising(free) /\ free[1] = h  BY <1>1 DEF RingOf
<1> HIDE DEF free
<1>3. Len(free) \in Nat  BY <1>2
<1>4. i \in 1..Len(free) /\ 1 \in 1..Len(free) /\ 1 < i /\ i \in Nat  BY <1>3 DEF free
<1>5. free[1] < free[i] /\ free[1] \in Nat /\ free[i] \in Nat  BY <1>2, <1>4, Order
<1>6. Contains(free, free[i]) /\ free[i] # h  BY <1>2, <1>4, <1>5 DEF Contains
<1> QED  BY <1>2, <1>3, <1>4, <1>6 DEF free
SplitDesc(m, d, i, n, b4) ==
    /\ m \in Descriptor /\ n \in Nat /\ b4 \in Nat /\ [m.free EXCEPT ![i] = n] \in Seq(Nat)
    /\ d = [[m EXCEPT !.b4rover = b4, !.numalloc = @ + 1] EXCEPT !.free[i] = n, !.rover = n]

LEMMA SplitDescIs ==
    ASSUME NEW m, NEW d, NEW i, NEW n, NEW b4, SplitDesc(m, d, i, n, b4)
    PROVE  Desc(d, m.len, [m.free EXCEPT ![i] = n], n, b4, m.largest_blk, m.numalloc + 1, m.numfree)
<1> DEFINE f == [m.free EXCEPT ![i] = n]
           k == m.numalloc + 1
           e == [m EXCEPT !.b4rover = b4, !.numalloc = k]
<1>1. m \in Descriptor /\ n \in Nat /\ b4 \in Nat /\ f \in Seq(Nat) /\ k \in Int
  BY DEF SplitDesc, Descriptor
<1>2. d = [e EXCEPT !.free[i] = n, !.rover = n] /\ e.free = m.free
  BY <1>1 DEF SplitDesc, Descriptor
<1> HIDE DEF k
<1>3. /\ e \in Descriptor /\ e.len = m.len /\ e.numfree = m.numfree /\ e.b4rover = b4
      /\ e.numalloc = k /\ e.largest_blk = m.largest_blk
  BY <1>1 DEF Descriptor
<1> HIDE DEF e
<1>4. d = [e EXCEPT !.free = f, !.rover = n]  BY <1>2
<1> HIDE DEF f
<1>5. Desc(d, m.len, f, n, b4, m.largest_blk, k, m.numfree)
  BY <1>1, <1>3, <1>4 DEF Desc, Descriptor
<1> QED  BY <1>5 DEF k, f

LEMMA EarlierBlocks ==
    ASSUME NEW s, NEW h, HeapOk(s, h), NEW i, NEW size, NEW b4, MayTake(s, h, i, size, b4)
    PROVE  \A b : Contains(s.mh[h].free, b) /\ b # h /\ b < s.mh[h].free[i] => s.len[b] <= b4
<1> DEFINE free == s.mh[h].free
<1>1. i \in 2..Len(free) /\ \A j \in 2..i - 1 : s.len[free[j]] <= b4  BY DEF MayTake
<1>2. free \in Seq(Nat) /\ Rising(free) /\ free[1] = h /\ i \in 1..Len(free) /\ Len(free) \in Nat
  BY <1>1, RingIndex
<1> HIDE DEF free
<1>3. ASSUME NEW b, Contains(free, b), b # h, b < free[i] PROVE s.len[b] <= b4
  <2>1. PICK j \in 1..Len(free) : free[j] = b  BY <1>3 DEF Contains
  <2>2. j < i  BY <1>2, <1>3, <2>1, Order
  <2>3. j # 1  BY <1>2, <1>3, <2>1
  <2> QED  BY <1>1, <1>2, <2>1, <2>2, <2>3
<1> QED  BY <1>3 DEF free

\* A block that gets too short for all of the free block.
LEMMA TakeSplits ==
    ASSUME NEW s, NEW h, HeapOk(s, h), NEW i, NEW size, NEW b4, MayTake(s, h, i, size, b4),
           FRL_SIZE <= s.len[s.mh[h].free[i]] - size
    PROVE  Taken(s, Take(s, h, i, size, b4), h, s.mh[h].free[i], size)
<1> DEFINE m == s.mh[h]
           free == m.free
           a == free[i]
           left == s.len[a] - size
           n == a + size
           new == With(With(s.len, n, left), a, size)
           f == [free EXCEPT ![i] = n]
           d == [[m EXCEPT !.b4rover = b4, !.numalloc = @ + 1] EXCEPT !.free[i] = n, !.rover = n]
           U == s.used
           t == Changed(s, h, new, U \cup {a}, d)
<1> USE SizesAre
<1>1. /\ Typed(s) /\ h \in Heaps(s) /\ h \in Nat /\ Tiling(s.len, Heaps(s), Ends(s)) /\ AloneOf(s.len, U)
      /\ Ends(s)[h] = End(s, h) /\ End(s, h) \in Nat
      /\ RingOf(free, h, End(s, h), DOMAIN s.len, U) /\ Counted(s, h) /\ Bounded(s, h)
  BY HeapOkIs
<1>2. i \in 2..Len(free) /\ size \in Nat /\ 4 <= size /\ size <= s.len[a] /\ b4 \in 0..Top
  BY DEF MayTake
<1>3. /\ free \in Seq(Nat) /\ Rising(free) /\ free[1] = h /\ i \in Nat /\ Contains(free, a) /\ a # h
      /\ Len(free) \in Nat /\ i \in 1..Len(free)
  <2>1. i \in 2..Len(s.mh[h].free)  BY <1>2
  <2> QED  BY <2>1, RingIndex
<1>4. /\ a \in Nat /\ h < a /\ a < End(s, h) /\ a \in Blocks(s.len) /\ a \in DOMAIN s.len /\ a \notin U
      /\ s.len[a] \in Nat /\ 4 <= s.len[a] /\ s.len[a] <= Top /\ a + s.len[a] <= End(s, h)
      /\ a + s.len[a] \in DOMAIN s.len /\ \A c \in DOMAIN s.len : c <= a \/ a + s.len[a] <= c
      /\ s.len[a] <= m.largest_blk /\ Inside(s, h, a)
  <2>1. Contains(s.mh[h].free, a) /\ a # h  BY <1>3
  <2> HIDE DEF a, free
  <2> QED  BY <2>1, RingBlock
<1>5. \A b : Contains(free, b) /\ b # h /\ b < a => s.len[b] <= b4  BY EarlierBlocks
<1>6. m \in Descriptor  BY <1>1 DEF Typed
<1>7. 4 <= left /\ left \in Nat /\ n \in Nat /\ a < n /\ n < a + s.len[a] /\ n + left = a + s.len[a]
  <2>1. 4 <= s.len[a] - size  BY SMTT(30)
  <2> DEFINE l == s.len[a]
  <2>2. 4 <= l - size /\ a \in Nat /\ l \in Nat /\ size \in Nat /\ 4 <= size
    BY <1>2, <1>4, <2>1
  <2> HIDE DEF l, a
  <2> QED  BY <2>2 DEF l
<1> HIDE DEF m, a, n, left
<1>8. /\ f \in Seq(Nat) /\ Rising(f) /\ Len(f) = Len(free) /\ f[1] = free[1]
      /\ \A y : Contains(f, y) <=> (Contains(free, y) /\ y # a) \/ y = n
  <2>1. i # 1 /\ free[i] < n  BY <1>2, <1>3, <1>7 DEF a
  <2>2. i = Len(free) \/ n < free[i + 1]
    <3> SUFFICES ASSUME i # Len(free) PROVE n < free[i + 1]  OBVIOUS
    <3>1. i + 1 \in 2..Len(free) /\ i + 1 \in 1..Len(free)  BY <1>2, <1>3
    <3> DEFINE j == i + 1
    <3>2. j \in 2..Len(s.mh[h].free)  BY <3>1 DEF m
    <3>5. i < j  BY <1>3
    <3> HIDE DEF j
    <3>3. Contains(free, free[j]) /\ free[j] # h  BY <3>2, RingIndex DEF m
    <3>4. free[j] \in DOMAIN s.len /\ free[j] \in Nat
      <4> DEFINE c == free[j]
      <4>1. Contains(s.mh[h].free, c) /\ c # h  BY <3>3 DEF m
      <4> HIDE DEF c, free
      <4>2. c \in DOMAIN s.len /\ c \in Nat  BY <4>1, RingBlock
      <4> QED  BY <4>2 DEF c
    <3>6. a < free[j]
      <4> HIDE DEF free
      <4> QED  BY <1>3, <3>1, <3>5, Order DEF a, j
    <3>7. n < free[j]  BY <1>4, <1>7, <3>4, <3>6
    <3> QED  BY <3>7 DEF j
  <2> HIDE DEF free
  <2>3. /\ f \in Seq(Nat) /\ Rising(f) /\ Len(f) = Len(free) /\ f[1] = free[1]
        /\ \A y : Contains(f, y) <=> (Contains(free, y) /\ y # free[i]) \/ y = n
    <3>1. free \in Seq(Nat) /\ Rising(free) /\ i \in 1..Len(free) /\ i # 1 /\ n \in Nat
      BY <1>3, <1>7, <2>1
    <3>2. MayMove(free, i, n)  BY <3>1, <2>1, <2>2 DEF MayMove
    <3>3. IsMoved(f, free, i, n)  BY <3>2, Moved
    <3> HIDE DEF f
    <3> QED  BY <3>3 DEF IsMoved
  <2> HIDE DEF f
  <2> QED  BY <2>3 DEF a
<1> HIDE DEF f, d
<1>10. Desc(d, m.len, f, n, b4, m.largest_blk, m.numalloc + 1, m.numfree)
  <2>1. SplitDesc(m, d, i, n, b4)  BY <1>2, <1>6, <1>7, <1>8 DEF SplitDesc, d, f
  <2> QED  BY <2>1, SplitDescIs DEF f
<1>11. Splits(s.len, new, a, size)
  <2>1. /\ DOMAIN With(s.len, n, left) = DOMAIN s.len \cup {n} /\ With(s.len, n, left)[n] = left
        /\ \A c \in DOMAIN s.len : c # n => With(s.len, n, left)[c] = s.len[c]
    BY DEF With
  <2> DEFINE w == With(s.len, n, left)
  <2> HIDE DEF w
  <2>2. /\ DOMAIN With(w, a, size) = DOMAIN w \cup {a} /\ With(w, a, size)[a] = size
        /\ \A c \in DOMAIN w : c # a => With(w, a, size)[c] = w[c]
    BY DEF With
  <2>3. new = [c \in DOMAIN new |-> new[c]]  BY DEF With
  <2>4. new = With(w, a, size)  BY DEF w
  <2> HIDE DEF new
  <2>5. n \notin DOMAIN s.len /\ n # a  BY <1>4, <1>7
  <2>9. DOMAIN w = DOMAIN s.len \cup {n} /\ w[n] = left /\ \A c \in DOMAIN s.len : w[c] = s.len[c]
    BY <2>1, <2>5 DEF w
  <2>6. /\ DOMAIN new = DOMAIN s.len \cup {n} /\ new[n] = left /\ new[a] = size
        /\ \A c \in DOMAIN s.len : c # a => new[c] = s.len[c]
    BY <1>4, <2>2, <2>4, <2>5, <2>9
  <2>7. \A c \in DOMAIN new : new[c] \in Int
    <3>1. \A c \in DOMAIN s.len : s.len[c] \in Int  BY <1>1, <1>2, BlocksAre
    <3> QED  BY ONLY <1>2, <1>7, <2>6, <3>1
  <2>8. new \in [DOMAIN s.len \cup {n} -> Int]  BY <2>3, <2>6, <2>7
  <2> QED  BY <1>2, <1>4, <1>7, <2>6, <2>8, SMTT(30) DEF Splits, n, left
<1> HIDE DEF new
<1>12. Only(s, t, h) /\ t.len = new /\ t.used = U \cup {a} /\ t.mh[h] = d
  <2>1. d \in Descriptor /\ d.len = s.mh[h].len  BY <1>10 DEF Desc, m
  <2> QED  BY <1>1, <2>1, ChangedIs
<1> HIDE DEF t
<1>13. Tiling(new, Heaps(s), Ends(s)) /\ n \notin DOMAIN s.len
  BY <1>1, <1>11, Split DEF n
<1>14. /\ DOMAIN new = DOMAIN s.len \cup {n} /\ new[a] = size /\ new[n] = left
       /\ \A c \in DOMAIN s.len : c # a => new[c] = s.len[c]
  BY <1>11 DEF Splits, n, left
<1>15. Heaps(t) = Heaps(s) /\ Ends(t) = Ends(s) /\ End(t, h) = End(s, h) /\ Typed(t)
  <2>1. Heaps(t) = Heaps(s) /\ Ends(t) = Ends(s) /\ End(t, h) = End(s, h)
    BY <1>1, <1>12, OnlyEnds
  <2> QED  BY <1>12, <2>1 DEF Only
<1>16. \A c : c \in Blocks(new) <=> c \in Blocks(s.len) \/ c = n
  <2>1. size # -1 /\ left # -1  BY <1>2, <1>7
  <2> QED  BY <1>4, <1>13, <1>14, <2>1 DEF Blocks
<1>17. \A c \in Blocks(s.len) : c \in DOMAIN s.len /\ c + s.len[c] \in DOMAIN s.len
  BY <1>1, BlocksAre
<1>18. AloneOf(new, U \cup {a})
  <2>1. U \cup {a} \subseteq Blocks(new)  BY <1>1, <1>4, <1>16 DEF AloneOf
  <2>2. ASSUME NEW c \in Blocks(new), c \notin U \cup {a}
        PROVE  c + new[c] \in U \cup {a} \/ c + new[c] \notin Blocks(new)
    <3>1. CASE c = n
      <4>1. c + new[c] = a + s.len[a]  BY <1>7, <1>14, <3>1
      <4>2. a + s.len[a] \in U \/ a + s.len[a] \notin Blocks(s.len)
        BY <1>1, <1>4 DEF AloneOf
      <4> QED  BY <1>4, <1>13, <1>16, <4>1, <4>2
    <3>2. CASE c # n
      <4>1. c \in Blocks(s.len) /\ c \in DOMAIN s.len /\ c + s.len[c] \in DOMAIN s.len /\ c # a
        BY <1>16, <1>17, <2>2, <3>2
      <4>2. c + s.len[c] \in U \/ c + s.len[c] \notin Blocks(s.len)
        BY <1>1, <2>2, <4>1 DEF AloneOf
      <4>3. new[c] = s.len[c]  BY <1>14, <4>1
      <4> QED  BY <1>13, <1>16, <4>1, <4>2, <4>3
    <3> QED  BY <3>1, <3>2
  <2> QED  BY <2>1, <2>2 DEF AloneOf
<1>19. h < n /\ n < End(s, h)  BY <1>1, <1>4, <1>7
<1>20. Ring(t, h)
  <2>1. \A b : Contains(free, b) <=> b = h \/ (h < b /\ b < End(s, h) /\ b \in DOMAIN s.len \ U)
    BY <1>1 DEF RingOf
  <2>2. \A b : b \in DOMAIN new \ (U \cup {a}) <=> (b \in DOMAIN s.len \ U /\ b # a) \/ b = n
    BY <1>1, <1>7, <1>13, <1>14, <1>17 DEF AloneOf
  <2>3. \A b : Contains(f, b) <=> b = h \/ (h < b /\ b < End(s, h) /\ b \in DOMAIN new \ (U \cup {a}))
    <3>1. n # h /\ a # h /\ n # a  BY <1>1, <1>3, <1>7, <1>19
    <3> QED  BY <1>8, <1>19, <2>1, <2>2, <3>1
  <2>4. Len(f) > 0 /\ f[1] = h  BY <1>3, <1>8
  <2>5. RingOf(f, h, End(s, h), DOMAIN new, U \cup {a})  BY <1>8, <2>3, <2>4 DEF RingOf
  <2> QED  BY <1>10, <1>12, <1>15, <2>5 DEF Ring, Desc
<1>21. Counted(t, h)
  <2> DEFINE S == {c \in U : Inside(s, h, c)}
  <2>1. IsFiniteSet(S) /\ a \notin S  BY <1>1, <1>4, UsedFinite, FS_Subset
  <2> DEFINE C == {c \in t.used : Inside(t, h, c)}
  <2>2. C = S \cup {a}  BY <1>4, <1>12, <1>15 DEF Inside
  <2>3. m.numalloc = Cardinality(S) /\ m.numfree = Len(free) - 1  BY <1>1 DEF Counted, m
  <2> HIDE DEF S
  <2>9. IsFiniteSet(S) /\ a \notin S  BY <2>1
  <2>4. Cardinality(S \cup {a}) = Cardinality(S) + 1  BY ONLY <2>9, FS_AddElement
  <2>5. t.mh[h].free = f /\ t.mh[h].numfree = m.numfree /\ t.mh[h].numalloc = m.numalloc + 1
    BY <1>10, <1>12 DEF Desc
  <2>6. t.mh[h].numalloc = Cardinality(C)
    <3> HIDE DEF free, C
    <3>1. t.mh[h].numalloc = Cardinality(S \cup {a})  BY <2>3, <2>4, <2>5
    <3> QED  BY <2>2, <3>1
  <2>7. t.mh[h].numfree = Len(t.mh[h].free) - 1  BY <1>8, <2>3, <2>5
  <2> QED  BY <2>6, <2>7 DEF Counted
<1>22. Bounded(t, h)
  <2>1. m.largest_blk \in (0..Top) \cup {Largest} /\ m.largest_blk \in Nat
    BY <1>1 DEF Bounded, m
  <2>2. ASSUME NEW b, Contains(f, b), b # h PROVE new[b] <= m.largest_blk /\ (b < n => new[b] <= b4)
    <3>1. CASE b = n  BY <1>2, <1>4, <1>7, <1>14, <2>1, <3>1, SMTT(30) DEF left
    <3>2. CASE b # n
      <4>1. Contains(free, b) /\ b # a  BY <1>8, <2>2, <3>2
      <4>2. b \in DOMAIN s.len /\ b \in Nat /\ s.len[b] <= m.largest_blk
        BY <2>2, <4>1, RingBlock DEF m
      <4>3. new[b] = s.len[b]  BY <1>14, <4>1, <4>2
      <4>4. b < n => b < a  BY <1>4, <1>7, <4>1, <4>2
      <4> QED  BY <1>5, <2>2, <4>1, <4>2, <4>3, <4>4
    <3> QED  BY <3>1, <3>2
  <2>3. Contains(f, n)  BY <1>8
  <2> QED  BY <1>2, <1>10, <1>12, <2>1, <2>2, <2>3 DEF Bounded, Desc
<1>23. Outside(s, t, h)
  <2>1. Inside(s, h, n) /\ Inside(s, h, a)  BY <1>4, <1>19 DEF Inside
  <2> QED  BY <1>12, <1>14, <2>1 DEF Outside
<1>24. HeapOk(t, h)
  BY <1>1, <1>12, <1>13, <1>15, <1>18, <1>20, <1>21, <1>22 DEF HeapOk, TilesAll
<1>25. \A c \in U : t.len[c] = s.len[c]
  <2>1. \A c \in U : c \in Blocks(s.len) /\ c # a  BY <1>1, <1>4 DEF AloneOf
  <2> QED  BY <1>12, <1>14, <2>1 DEF Blocks
<1>26. size <= t.len[a] /\ t.mh[h].largest_blk = m.largest_blk
  BY <1>2, <1>10, <1>12, <1>14 DEF Desc
<1>27. Taken(s, t, h, a, size)
  BY <1>1, <1>4, <1>12, <1>23, <1>24, <1>25, <1>26 DEF Taken, m
<1>28. ~(s.len[a] - size < 4)  BY <1>2, <1>4, <1>7 DEF left
<1>29. Take(s, h, i, size, b4) = t  BY <1>28 DEF Take, t, d, new, n, left, a, m
<1> QED  BY <1>27, <1>29 DEF a, m
WholeDesc(m, d, i, x, b4) ==
    /\ m \in Descriptor /\ x \in Nat /\ b4 \in Nat /\ RemoveAt(m.free, i) \in Seq(Nat)
    /\ d = [[m EXCEPT !.b4rover = b4, !.numalloc = @ + 1]
              EXCEPT !.free = RemoveAt(@, i), !.rover = x, !.numfree = @ - 1]

LEMMA WholeDescIs ==
    ASSUME NEW m, NEW d, NEW i, NEW x, NEW b4, WholeDesc(m, d, i, x, b4)
    PROVE  Desc(d, m.len, RemoveAt(m.free, i), x, b4, m.largest_blk, m.numalloc + 1, m.numfree - 1)
<1> DEFINE f == RemoveAt(m.free, i)
           k == m.numalloc + 1
           l == m.numfree - 1
           e == [m EXCEPT !.b4rover = b4, !.numalloc = k]
<1>1. m \in Descriptor /\ x \in Nat /\ b4 \in Nat /\ f \in Seq(Nat) /\ k \in Int /\ l \in Int
  BY DEF WholeDesc, Descriptor
<1>2. d = [e EXCEPT !.free = RemoveAt(@, i), !.rover = x, !.numfree = @ - 1] /\ e.free = m.free /\ e.numfree = m.numfree
  BY <1>1 DEF WholeDesc, Descriptor
<1> HIDE DEF k
<1>3. /\ e \in Descriptor /\ e.len = m.len /\ e.b4rover = b4
      /\ e.numalloc = k /\ e.largest_blk = m.largest_blk
  BY <1>1 DEF Descriptor
<1> HIDE DEF e
<1>4. d = [e EXCEPT !.free = f, !.rover = x, !.numfree = l]  BY <1>2
<1> HIDE DEF f, l
<1>5. Desc(d, m.len, f, x, b4, m.largest_blk, k, l)
  BY <1>1, <1>3, <1>4 DEF Desc, Descriptor
<1> QED  BY <1>5 DEF k, f, l

\* Too little would be left of the free block.
LEMMA TakeAll ==
    ASSUME NEW s, NEW h, HeapOk(s, h), NEW i, NEW size, NEW b4, MayTake(s, h, i, size, b4),
           ~(FRL_SIZE <= s.len[s.mh[h].free[i]] - size)
    PROVE  Taken(s, Take(s, h, i, size, b4), h, s.mh[h].free[i], size)
<1> DEFINE m == s.mh[h]
           free == m.free
           a == free[i]
           left == s.len[a] - size
           f == RemoveAt(free, i)
           r == Before(free, a)
           d == [[m EXCEPT !.b4rover = b4, !.numalloc = @ + 1]
                   EXCEPT !.free = RemoveAt(@, i), !.rover = Before(free, a), !.numfree = @ - 1]
           U == s.used
           t == Changed(s, h, s.len, U \cup {a}, d)
<1> USE SizesAre
<1>1. /\ Typed(s) /\ h \in Heaps(s) /\ h \in Nat /\ Tiling(s.len, Heaps(s), Ends(s)) /\ AloneOf(s.len, U)
      /\ Ends(s)[h] = End(s, h) /\ End(s, h) \in Nat
      /\ RingOf(free, h, End(s, h), DOMAIN s.len, U) /\ Counted(s, h) /\ Bounded(s, h)
  BY HeapOkIs
<1>2. i \in 2..Len(free) /\ size \in Nat /\ 4 <= size /\ size <= s.len[a] /\ b4 \in 0..Top
  BY DEF MayTake
<1>3. /\ free \in Seq(Nat) /\ Rising(free) /\ free[1] = h /\ i \in Nat /\ Contains(free, a) /\ a # h
      /\ Len(free) \in Nat /\ i \in 1..Len(free)
  <2>1. i \in 2..Len(s.mh[h].free)  BY <1>2
  <2> QED  BY <2>1, RingIndex
<1>4. /\ a \in Nat /\ h < a /\ a < End(s, h) /\ a \in Blocks(s.len) /\ a \in DOMAIN s.len /\ a \notin U
      /\ Inside(s, h, a)
  <2>1. Contains(s.mh[h].free, a) /\ a # h  BY <1>3
  <2> HIDE DEF a, free
  <2> QED  BY <2>1, RingBlock
<1>5. \A b : Contains(free, b) /\ b # h /\ b < a => s.len[b] <= b4  BY EarlierBlocks
<1>6. m \in Descriptor  BY <1>1 DEF Typed
<1>7. f = Unlink(free, a)  BY <1>3, IndexIs DEF Unlink
<1>8. /\ f \in Seq(Nat) /\ Rising(f) /\ Len(f) = Len(free) - 1 /\ f[1] = free[1] /\ Len(f) > 0
      /\ \A y : Contains(f, y) <=> Contains(free, y) /\ y # a
  <2> HIDE DEF a, f, free
  <2> QED  BY <1>3, <1>7, TakenOut
<1>9. Contains(free, r) /\ r < a /\ r \in Nat
  <2> HIDE DEF a, f, free
  <2>1. \A b : Contains(free, b) => b \in Nat  BY <1>1, InRing DEF free
  <2> QED  BY <1>3, <2>1, BeforeIs
<1> HIDE DEF m, a, r, f, d
<1>10. Desc(d, m.len, f, r, b4, m.largest_blk, m.numalloc + 1, m.numfree - 1)
  <2>1. WholeDesc(m, d, i, r, b4)  BY <1>2, <1>6, <1>8, <1>9 DEF WholeDesc, d, f, r
  <2> QED  BY <2>1, WholeDescIs DEF f
<1>12. Only(s, t, h) /\ t.len = s.len /\ t.used = U \cup {a} /\ t.mh[h] = d
  <2>1. d \in Descriptor /\ d.len = s.mh[h].len  BY <1>10 DEF Desc, m
  <2> QED  BY <1>1, <2>1, ChangedIs
<1> HIDE DEF t
<1>15. Heaps(t) = Heaps(s) /\ Ends(t) = Ends(s) /\ End(t, h) = End(s, h) /\ Typed(t)
  <2>1. Heaps(t) = Heaps(s) /\ Ends(t) = Ends(s) /\ End(t, h) = End(s, h)
    BY <1>1, <1>12, OnlyEnds
  <2> QED  BY <1>12, <2>1 DEF Only
<1>18. AloneOf(s.len, U \cup {a})
  <2>1. U \cup {a} \subseteq Blocks(s.len)  BY <1>1, <1>4 DEF AloneOf
  <2> QED  BY <1>1, <2>1 DEF AloneOf
<1>20. Ring(t, h)
  <2>1. \A b : Contains(free, b) <=> b = h \/ (h < b /\ b < End(s, h) /\ b \in DOMAIN s.len \ U)
    BY <1>1 DEF RingOf
  <2>2. \A b : Contains(f, b) <=> b = h \/ (h < b /\ b < End(s, h) /\ b \in DOMAIN s.len \ (U \cup {a}))
    BY <1>3, <1>8, <2>1
  <2>4. f[1] = h  BY <1>3, <1>8
  <2>5. RingOf(f, h, End(s, h), DOMAIN s.len, U \cup {a})
    BY <1>8, <2>2, <2>4 DEF RingOf
  <2> QED  BY <1>10, <1>12, <1>15, <2>5 DEF Ring, Desc
<1>21. Counted(t, h)
  <2> DEFINE S == {c \in U : Inside(s, h, c)}
             C == {c \in t.used : Inside(t, h, c)}
  <2>1. IsFiniteSet(S) /\ a \notin S  BY <1>1, <1>4, UsedFinite, FS_Subset
  <2>2. C = S \cup {a}  BY <1>4, <1>12, <1>15 DEF Inside
  <2>3. m.numalloc = Cardinality(S) /\ m.numfree = Len(free) - 1  BY <1>1 DEF Counted, m
  <2> HIDE DEF S
  <2>9. IsFiniteSet(S) /\ a \notin S  BY <2>1
  <2>4. Cardinality(S \cup {a}) = Cardinality(S) + 1  BY ONLY <2>9, FS_AddElement
  <2>5. t.mh[h].free = f /\ t.mh[h].numfree = m.numfree - 1 /\ t.mh[h].numalloc = m.numalloc + 1
    BY <1>10, <1>12 DEF Desc
  <2>6. t.mh[h].numalloc = Cardinality(C)
    <3> HIDE DEF free, C
    <3>1. t.mh[h].numalloc = Cardinality(S \cup {a})  BY <2>3, <2>4, <2>5
    <3> QED  BY <2>2, <3>1
  <2>7. t.mh[h].numfree = Len(t.mh[h].free) - 1  BY <1>8, <2>3, <2>5
  <2> QED  BY <2>6, <2>7 DEF Counted
<1>22. Bounded(t, h)
  <2>1. m.largest_blk \in (0..Top) \cup {Largest} /\ m.largest_blk \in Nat
    BY <1>1 DEF Bounded, m
  <2>2. ASSUME NEW b, Contains(f, b), b # h PROVE s.len[b] <= m.largest_blk /\ (b < r => s.len[b] <= b4)
    <3>1. Contains(free, b)  BY <1>8, <2>2
    <3>2. b \in Nat /\ s.len[b] <= m.largest_blk  BY <2>2, <3>1, RingBlock DEF m
    <3>3. b < r => b < a  BY <1>4, <1>9, <3>2
    <3> QED  BY <1>5, <2>2, <3>1, <3>2, <3>3
  <2>3. Contains(f, r)  BY <1>4, <1>8, <1>9
  <2> QED  BY <1>2, <1>10, <1>12, <2>1, <2>2, <2>3 DEF Bounded, Desc
<1>23. Outside(s, t, h)  BY <1>4, <1>12 DEF Outside
<1>24. HeapOk(t, h)
  BY <1>1, <1>12, <1>15, <1>18, <1>20, <1>21, <1>22 DEF HeapOk, TilesAll
<1>26. size <= t.len[a] /\ t.mh[h].largest_blk = m.largest_blk
  BY <1>2, <1>10, <1>12 DEF Desc, a
<1>27. Taken(s, t, h, a, size)  BY <1>1, <1>4, <1>12, <1>23, <1>24, <1>26 DEF Taken, m
<1>28. ~(left >= 4)
  <2> DEFINE l == s.len[a]
  <2>1. l \in Nat /\ size \in Nat /\ ~(4 <= l - size)
    <3>1. l \in Nat  BY <1>1, <1>4, BlocksAre
    <3> QED  BY <1>2, <3>1 DEF a, m
  <2> HIDE DEF l
  <2> QED  BY <2>1 DEF l
<1>29. Take(s, h, i, size, b4) = t
  <2>1. Take(s, h, i, size, b4) = Changed(s, h, s.len, s.used \cup {a}, d)
    <3>1. [m EXCEPT !.b4rover = b4, !.numalloc = @ + 1].free = free
      BY <1>6 DEF Descriptor
    <3> QED  BY <1>28, <3>1 DEF Take, d, left, a, m
  <2> QED  BY <2>1 DEF t
<1> QED  BY <1>27, <1>29 DEF a, m

LEMMA TakeIs ==
    ASSUME NEW s, NEW h, HeapOk(s, h), NEW i, NEW size, NEW b4, MayTake(s, h, i, size, b4)
    PROVE  Taken(s, Take(s, h, i, size, b4), h, s.mh[h].free[i], size)
BY TakeSplits, TakeAll

LEMMA FromIs ==
    ASSUME NEW s, NEW h, HeapOk(s, h), NEW size, size \in Nat
    PROVE  /\ FromIndex(s.mh[h], size) \in Nat /\ 2 <= FromIndex(s.mh[h], size)
           /\ \A j \in 2..Len(s.mh[h].free) : j < FromIndex(s.mh[h], size) =>
                 ~(size <= s.mh[h].b4rover) /\ s.len[s.mh[h].free[j]] <= s.mh[h].b4rover
<1> DEFINE m == s.mh[h]
           free == m.free
           k == IndexIn(free, m.rover)
<1>1. /\ h \in Nat /\ RingOf(free, h, End(s, h), DOMAIN s.len, s.used) /\ Bounded(s, h)
  BY HeapOkIs
<1>2. free \in Seq(Nat) /\ Rising(free) /\ Len(free) \in Nat /\ h = free[1]
  BY <1>1, InRing
<1>3. Contains(free, m.rover)  BY <1>1 DEF Bounded
<1>4. k \in 1..Len(free) /\ free[k] = m.rover
  <2> HIDE DEF free
  <2> QED  BY <1>2, <1>3, IndexOf
<1> HIDE DEF k
<1>5. Max({2, k}) = IF 2 >= k THEN 2 ELSE k  BY <1>4, MaxOfTwo
<1>6. FromIndex(m, size) = IF size <= m.b4rover THEN 2 ELSE IF 2 >= k THEN 2 ELSE k
  BY <1>5 DEF FromIndex, k
<1>7. FromIndex(m, size) \in Nat /\ 2 <= FromIndex(m, size)  BY <1>4, <1>6
<1>8. ASSUME NEW j \in 2..Len(free), j < FromIndex(m, size)
      PROVE  ~(size <= m.b4rover) /\ s.len[free[j]] <= m.b4rover
  <2>1. ~(size <= m.b4rover) /\ j < k  BY <1>4, <1>6, <1>8
  <2>2. free[j] < m.rover
    <3>1. j \in 1..Len(free)  BY <1>2
    <3> HIDE DEF free
    <3> QED  BY <1>2, <1>4, <2>1, <3>1, Order
  <2>3. Contains(free, free[j]) /\ free[j] # h
    <3>1. j \in 2..Len(s.mh[h].free)  OBVIOUS
    <3> QED  BY <3>1, RingIndex
  <2>4. s.len[free[j]] <= m.b4rover  BY <1>1, <2>2, <2>3 DEF Bounded
  <2> QED  BY <2>1, <2>4
<1> QED  BY <1>7, <1>8

Passes(s, h, size, to) == HeapOk(s, h) /\ size \in Nat /\ to \in 1..Len(s.mh[h].free)

LEMMA PassedIs ==
    ASSUME NEW s, NEW h, NEW size, NEW to, Passes(s, h, size, to)
    PROVE  Bounds(s, h, size, to, Max(PassedLens(s, h, size, to)))
<1> DEFINE m == s.mh[h]
           free == m.free
           from == FromIndex(m, size)
           S == PassedLens(s, h, size, to)
           x == Max(S)
<1>0. HeapOk(s, h) /\ size \in Nat /\ to \in 1..Len(s.mh[h].free)  BY DEF Passes
<1> USE <1>0
<1>1. /\ from \in Nat /\ 2 <= from
      /\ \A j \in 2..Len(free) : j < from => ~(size <= m.b4rover) /\ s.len[free[j]] <= m.b4rover
  BY FromIs
<1>2. /\ Bounded(s, h) /\ m.b4rover \in 0..Top /\ Top \in Nat /\ Len(free) \in Nat
  <2>1. Bounded(s, h) /\ RingOf(free, h, End(s, h), DOMAIN s.len, s.used)  BY HeapOkIs
  <2>2. Len(free) \in Nat  BY <2>1 DEF RingOf
  <2> QED  BY <2>1, <2>2, SizesAre DEF Bounded
<1>3. \A j \in 2..Len(free) : s.len[free[j]] \in 0..Top
  <2> SUFFICES ASSUME NEW j \in 2..Len(free) PROVE s.len[free[j]] \in 0..Top  OBVIOUS
  <2> DEFINE b == free[j]
  <2>1. j \in 2..Len(s.mh[h].free)  OBVIOUS
  <2>2. Contains(s.mh[h].free, b) /\ b # h  BY <2>1, RingIndex
  <2> HIDE DEF b, free
  <2>3. s.len[b] \in Nat /\ s.len[b] <= Top  BY <2>2, RingBlock
  <2> QED  BY <1>2, <2>3 DEF b
<1>4. S = {IF size <= m.b4rover THEN 0 ELSE m.b4rover} \cup {s.len[free[i]] : i \in from..to}
  BY DEF PassedLens
<1> HIDE DEF from, S, m
<1>5. S \in SUBSET (0..Top) /\ S # {}
  <2>1. \A i \in from..to : i \in 2..Len(free)  BY <1>1, <1>2 DEF m
  <2> QED  BY <1>2, <1>3, <1>4, <2>1, SMTT(30)
<1>6. x \in S /\ \A i \in S : i <= x
  <2>1. Top \in Nat  BY <1>2
  <2> QED  BY <1>5, <2>1, Greatest
<1> HIDE DEF x
<1>7. x \in 0..Top  BY <1>5, <1>6
<1>8. ASSUME NEW j \in 2..to PROVE s.len[free[j]] <= x
  <2>1. j \in 2..Len(free) /\ j \in Nat  BY <1>2 DEF m
  <2>2. CASE j < from
    <3>1. ~(size <= m.b4rover) /\ s.len[free[j]] <= m.b4rover  BY <1>1, <2>1, <2>2
    <3>2. m.b4rover <= x  BY <1>4, <1>6, <3>1
    <3>3. s.len[free[j]] \in 0..Top  BY <1>3, <2>1
    <3> QED  BY <1>2, <1>7, <3>1, <3>2, <3>3
  <2>3. CASE ~(j < from)
    <3>1. j \in from..to  BY <1>1, <1>2, <2>1, <2>3
    <3> QED  BY <1>4, <1>6, <3>1
  <2> QED  BY <2>2, <2>3
<1>9. \/ x = 0 \/ (~(size <= m.b4rover) /\ x = m.b4rover)
      \/ \E j \in from..to : x = s.len[free[j]]
  BY <1>4, <1>6
<1>10. Bounds(s, h, size, to, x)  BY <1>7, <1>8, <1>9 DEF Bounds, m, from
<1> QED  BY <1>10 DEF x, S

LargestDesc(m, d, x) == m \in Descriptor /\ x \in Nat /\ d = [m EXCEPT !.largest_blk = x]

LEMMA LargestDescIs ==
    ASSUME NEW m, NEW d, NEW x, LargestDesc(m, d, x)
    PROVE  Desc(d, m.len, m.free, m.rover, m.b4rover, x, m.numalloc, m.numfree)
BY DEF LargestDesc, Desc, Descriptor

LEMMA SameFields ==
    ASSUME NEW s, NEW v
    PROVE  [s EXCEPT !.mh = v] = [s EXCEPT !.len = s.len, !.used = s.used, !.mh = v]
OBVIOUS

LEMMA MissedIs ==
    ASSUME NEW s, NEW h, HeapOk(s, h), NEW size, size \in Nat, FRL_SIZE <= size, size <= s.mh[h].largest_blk,
           \A j \in FromIndex(s.mh[h], size)..Len(s.mh[h].free) : s.len[s.mh[h].free[j]] < size
    PROVE  Missed(s, [s EXCEPT !.mh[h].largest_blk = Max(PassedLens(s, h, size, Len(s.mh[h].free)))], h, size)
<1> DEFINE m == s.mh[h]
           free == m.free
           x == Max(PassedLens(s, h, size, Len(free)))
           d == [m EXCEPT !.largest_blk = x]
           t == Changed(s, h, s.len, s.used, d)
<1> USE SizesAre
<1>1. /\ Typed(s) /\ h \in Heaps(s) /\ h \in Nat /\ Tiling(s.len, Heaps(s), Ends(s)) /\ AloneOf(s.len, s.used)
      /\ RingOf(free, h, End(s, h), DOMAIN s.len, s.used) /\ Counted(s, h) /\ Bounded(s, h)
  BY HeapOkIs
<1>2. Len(free) \in Nat /\ Len(free) \in 1..Len(free)  BY <1>1 DEF RingOf
<1>3. Bounds(s, h, size, Len(free), x)
  <2>1. Len(s.mh[h].free) \in 1..Len(s.mh[h].free)  BY <1>2, SMTT(30)
  <2>2. Passes(s, h, size, Len(s.mh[h].free))  BY <2>1, SMTT(30) DEF Passes
  <2> QED  BY <2>2, PassedIs
<1> HIDE DEF x
<1>4. /\ x \in 0..Top /\ \A j \in 2..Len(free) : s.len[free[j]] <= x
      /\ \/ x = 0 \/ (~(size <= m.b4rover) /\ x = m.b4rover)
         \/ \E j \in FromIndex(m, size)..Len(free) : x = s.len[free[j]]
  BY <1>3 DEF Bounds
<1>5. m.b4rover \in 0..Top /\ m.largest_blk \in (0..Top) \cup {Largest} /\ m \in Descriptor
  BY <1>1 DEF Bounded, Typed
<1>6. x < size
  <2>1. x = 0 => x < size  OBVIOUS
  <2>2. ~(size <= m.b4rover) /\ x = m.b4rover => x < size  BY <1>5
  <2> QED  BY <1>4, <2>1, <2>2
<1>7. x <= m.largest_blk  BY <1>4, <1>5, <1>6
<1>8. LargestDesc(m, d, x)  BY <1>4, <1>5 DEF LargestDesc
<1> HIDE DEF d
<1>9. Desc(d, m.len, m.free, m.rover, m.b4rover, x, m.numalloc, m.numfree)
  BY <1>8, LargestDescIs
<1>10. Only(s, t, h) /\ t.len = s.len /\ t.used = s.used /\ t.mh[h] = d
  <2>1. d \in Descriptor /\ d.len = s.mh[h].len  BY <1>9 DEF Desc
  <2> QED  BY <1>1, <2>1, ChangedIs
<1>11. [s EXCEPT !.mh[h].largest_blk = x] = t
  <2> DEFINE u == [s EXCEPT !.mh[h].largest_blk = x]
  <2>2. u = [s EXCEPT !.mh = [s.mh EXCEPT ![h] = d]]  BY DEF d
  <2>3. t = [s EXCEPT !.len = s.len, !.used = s.used, !.mh = [s.mh EXCEPT ![h] = d]]
    BY DEF Changed
  <2> DEFINE v == [s.mh EXCEPT ![h] = d]
  <2> HIDE DEF t, u, v
  <2>4. u = [s EXCEPT !.mh = v] /\ t = [s EXCEPT !.len = s.len, !.used = s.used, !.mh = v]
    BY <2>2, <2>3, SMTT(30) DEF v
  <2>6. [s EXCEPT !.mh = v] = [s EXCEPT !.len = s.len, !.used = s.used, !.mh = v]
    BY ONLY SameFields, Zenon
  <2>5. u = t  BY <2>4, <2>6, Zenon
  <2> QED  BY <2>5 DEF u
<1> HIDE DEF t
<1>12. Heaps(t) = Heaps(s) /\ Ends(t) = Ends(s) /\ End(t, h) = End(s, h) /\ Typed(t)
  <2>1. Heaps(t) = Heaps(s) /\ Ends(t) = Ends(s) /\ End(t, h) = End(s, h)
    BY <1>1, <1>10, OnlyEnds
  <2> QED  BY <1>10, <2>1 DEF Only
<1>13. Ring(t, h)  BY <1>1, <1>9, <1>10, <1>12 DEF Ring, Desc
<1>14. Counted(t, h)  BY <1>1, <1>9, <1>10, <1>12, SMTT(30) DEF Counted, Desc, Inside
<1>15. Bounded(t, h)
  <2>1. ASSUME NEW b, Contains(free, b), b # h PROVE s.len[b] <= x
    <3> HIDE DEF free
    <3>1. PICK j \in 1..Len(free) : free[j] = b  BY <2>1 DEF Contains
    <3>2. j # 1  BY <1>1, <2>1, <3>1 DEF RingOf
    <3>3. j \in 2..Len(free)  BY <1>2, <3>2
    <3> QED  BY <1>4, <3>1, <3>3 DEF free
  <2>2. \A b : Contains(free, b) /\ b # h /\ b < m.rover => s.len[b] <= m.b4rover
    BY <1>1 DEF Bounded
  <2>3. Contains(free, m.rover)  BY <1>1 DEF Bounded
  <2> QED  BY <1>4, <1>5, <1>9, <1>10, <2>1, <2>2, <2>3 DEF Bounded, Desc
<1>16. Outside(s, t, h)  BY <1>10 DEF Outside
<1>17. HeapOk(t, h)  BY <1>1, <1>10, <1>12, <1>13, <1>14, <1>15 DEF HeapOk, TilesAll
<1>18. Missed(s, t, h, size)  BY <1>6, <1>7, <1>9, <1>10, <1>16, <1>17 DEF Missed, Desc
<1> QED  BY <1>11, <1>18 DEF x

LEMMA MemAllocatorIs ==
    ASSUME NEW s, NEW h, HeapOk(s, h), NEW amt, amt \in Nat
    PROVE  Tried(s, MemAllocator(s, h, amt), h, BlockSize(amt))
<1> DEFINE m == s.mh[h]
           free == m.free
           size == BlockSize(amt)
           from == FromIndex(m, size)
           fits == {i \in from..Len(free) : size <= s.len[free[i]]}
           i == Min(fits)
           b4 == Max(PassedLens(s, h, size, i - 1))
           x == Max(PassedLens(s, h, size, Len(free)))
           r0 == [block |-> NULL, heap |-> s]
           r1 == [block |-> NULL, heap |-> [s EXCEPT !.mh[h].largest_blk = x]]
           r2 == [block |-> free[i], heap |-> Take(s, h, i, size, b4)]
           r == MemAllocator(s, h, amt)
<1> USE SizesAre
<1>1. r = CASE size > m.largest_blk -> r0
            [] size <= m.largest_blk /\ fits = {} -> r1
            [] size <= m.largest_blk /\ fits # {} -> r2
  BY DEF MemAllocator, FromIndex, PassedLens
<1>2. size \in Nat /\ 4 <= size  BY BlockSizeIs
<1>3. /\ h \in Heaps(s) /\ RingOf(free, h, End(s, h), DOMAIN s.len, s.used) /\ Bounded(s, h) /\ Typed(s)
      /\ Len(free) \in Nat
  <2>1. /\ h \in Heaps(s) /\ RingOf(free, h, End(s, h), DOMAIN s.len, s.used) /\ Bounded(s, h) /\ Typed(s)
    BY HeapOkIs
  <2> QED  BY <2>1 DEF RingOf
<1>4. m.largest_blk \in Nat  BY <1>3 DEF Bounded
<1>5. from \in Nat /\ 2 <= from  BY <1>2, FromIs
<1>6. \A j \in 2..Len(free) : s.len[free[j]] \in Nat
  <2> SUFFICES ASSUME NEW j \in 2..Len(free) PROVE s.len[free[j]] \in Nat  OBVIOUS
  <2> DEFINE b == free[j]
  <2>1. j \in 2..Len(s.mh[h].free)  OBVIOUS
  <2>2. Contains(s.mh[h].free, b) /\ b # h  BY <2>1, RingIndex
  <2> HIDE DEF b, free
  <2>3. s.len[b] \in Nat  BY <2>2, RingBlock
  <2> QED  BY <2>3 DEF b
<1>7. ASSUME size > m.largest_blk PROVE Missed(s, s, h, size)
  <2>1. Only(s, s, h)  BY <1>3 DEF Only
  <2>2. Outside(s, s, h)  BY DEF Outside
  <2> QED  BY <1>2, <1>4, <1>7, <2>1, <2>2 DEF Missed
<1>8. ASSUME size <= m.largest_blk, fits = {} PROVE Missed(s, [s EXCEPT !.mh[h].largest_blk = x], h, size)
  <2>1. \A j \in from..Len(free) : s.len[free[j]] < size
    BY <1>2, <1>3, <1>5, <1>6, <1>8, SMTT(60)
  <2>2. FRL_SIZE <= size  BY <1>2
  <2> HIDE DEF size
  <2> QED  BY <1>2, <1>8, <2>1, <2>2, MissedIs, SMTT(60)
<1>9. ASSUME fits # {} PROVE free[i] # NULL /\ Taken(s, Take(s, h, i, size, b4), h, free[i], size)
  <2>1. fits \in SUBSET Nat  BY <1>3, <1>5
  <2>2. i \in fits /\ \A j \in fits : i <= j
    <3> HIDE DEF fits
    <3> QED  BY <1>9, <2>1, Least, SMTT(60)
  <2> HIDE DEF i, size, from
  <2>3. i \in from..Len(free) /\ size <= s.len[free[i]]  BY ONLY <2>2
  <2> HIDE DEF fits
  <2>4. i \in 2..Len(s.mh[h].free) /\ i \in Nat  BY <1>3, <1>5, <2>3
  <2>5. i - 1 \in 1..Len(s.mh[h].free)  BY <1>3, <2>4
  <2> DEFINE k == i - 1
  <2>6. Bounds(s, h, size, k, b4)
    <3> HIDE DEF k
    <3>1. b4 = Max(PassedLens(s, h, size, k))  BY DEF k
    <3>2. k \in 1..Len(s.mh[h].free)  BY <2>5 DEF k
    <3>3. Passes(s, h, size, k)  BY <1>2, <3>2 DEF Passes
    <3> QED  BY <3>1, <3>3, PassedIs
  <2> HIDE DEF b4
  <2>7. b4 \in 0..Top /\ \A j \in 2..i - 1 : s.len[s.mh[h].free[j]] <= b4
    BY <2>6 DEF Bounds
  <2>8. MayTake(s, h, i, size, b4)  BY <1>2, <2>3, <2>4, <2>7 DEF MayTake
  <2>9. Taken(s, Take(s, h, i, size, b4), h, free[i], size)  BY <2>8, TakeIs
  <2> QED  BY <2>9 DEF Taken
<1> HIDE DEF r, fits, size, from, i, b4, x, m, free
<1>10. ASSUME size > m.largest_blk PROVE Tried(s, r, h, size)
  <2>1. r = r0  BY <1>1, <1>2, <1>4, <1>10
  <2> QED  BY <1>7, <1>10, <2>1 DEF Tried
<1>11. ASSUME size <= m.largest_blk, fits = {} PROVE Tried(s, r, h, size)
  <2> HIDE DEF r1
  <2>1. r = r1  BY <1>1, <1>2, <1>4, <1>11
  <2> QED  BY <1>8, <1>11, <2>1 DEF Tried, r1
<1>12. ASSUME size <= m.largest_blk, fits # {} PROVE Tried(s, r, h, size)
  <2> HIDE DEF r2
  <2>1. r = r2  BY <1>1, <1>2, <1>4, <1>12
  <2> QED  BY <1>9, <1>12, <2>1 DEF Tried, r2
<1>13. size > m.largest_blk \/ size <= m.largest_blk  BY <1>2, <1>4
<1> QED  BY <1>10, <1>11, <1>12, <1>13 DEF r, size
-------------------------------------------------------------------------------
\* TakeNext.

LEMMA SteppedIs ==
    ASSUME NEW s, NEW h, HeapOk(s, h), NEW n, Contains(s.mh[h].free, n), n # h
    PROVE  LET r == Stepped(s.mh[h], n)
           IN  /\ Contains(s.mh[h].free, r) /\ r # n /\ r \in Nat
               /\ \A b : b \in Nat /\ b < r => b < s.mh[h].rover
<1> DEFINE m == s.mh[h]
           free == m.free
           r == Stepped(m, n)
           p == Before(free, n)
<1>1. h \in Nat /\ RingOf(free, h, End(s, h), DOMAIN s.len, s.used) /\ Bounded(s, h)
  BY HeapOkIs
<1>2. free \in Seq(Nat) /\ Rising(free) /\ h = free[1] /\ \A b : Contains(free, b) => b \in Nat
  BY <1>1, InRing
<1>3. Contains(free, m.rover)  BY <1>1 DEF Bounded
<1> HIDE DEF m, free
<1>4. Contains(free, p) /\ p < n /\ p \in Nat /\ n \in Nat
  BY <1>2, BeforeIs DEF m, free
<1>5. m.rover \in Nat  BY <1>2, <1>3
<1>6. r = IF m.rover = n THEN p ELSE m.rover  BY DEF Stepped, free
<1> HIDE DEF p, r
<1>7. Contains(free, r) /\ r # n /\ r \in Nat /\ r <= m.rover  BY <1>3, <1>4, <1>5, <1>6
<1> QED  BY <1>5, <1>7 DEF r, m, free

AbsorbedDesc(m, d, n) ==
    /\ m \in Descriptor /\ Stepped(m, n) \in Nat /\ Unlink(m.free, n) \in Seq(Nat)
    /\ d = [[m EXCEPT !.rover = IF @ = n THEN Before(m.free, n) ELSE @]
              EXCEPT !.free = Unlink(@, n), !.numfree = @ - 1]

LEMMA AbsorbedDescIs ==
    ASSUME NEW m, NEW d, NEW n, AbsorbedDesc(m, d, n)
    PROVE  Desc(d, m.len, Unlink(m.free, n), Stepped(m, n), m.b4rover, m.largest_blk, m.numalloc, m.numfree - 1)
<1> DEFINE f == Unlink(m.free, n)
           r == Stepped(m, n)
           l == m.numfree - 1
           e == [m EXCEPT !.rover = r]
<1>1. m \in Descriptor /\ r \in Nat /\ f \in Seq(Nat) /\ l \in Int
  BY DEF AbsorbedDesc, Descriptor
<1>2. d = [e EXCEPT !.free = Unlink(@, n), !.numfree = @ - 1] /\ e.free = m.free /\ e.numfree = m.numfree
  BY <1>1 DEF AbsorbedDesc, Descriptor, Stepped
<1> HIDE DEF r
<1>3. e \in Descriptor /\ e.len = m.len /\ e.b4rover = m.b4rover /\ e.rover = r
      /\ e.numalloc = m.numalloc /\ e.largest_blk = m.largest_blk
  BY <1>1 DEF Descriptor
<1> HIDE DEF e
<1>4. d = [e EXCEPT !.free = f, !.numfree = l]  BY <1>2
<1> HIDE DEF f, l
<1>5. Desc(d, m.len, f, r, m.b4rover, m.largest_blk, m.numalloc, l)
  BY <1>1, <1>3, <1>4 DEF Desc, Descriptor
<1> QED  BY <1>5 DEF f, l, r

LEMMA AbsorbIs ==
    ASSUME NEW s, NEW h, HeapOk(s, h), NEW a \in s.used, Inside(s, h, a), NEW n, n = a + s.len[a], IsFree(s, n)
    PROVE  Grown(s, Absorb(s, h, a, n), h, a, s.len[n])
<1> DEFINE m == s.mh[h]
           free == m.free
           f == Unlink(free, n)
           r == Stepped(m, n)
           new == With(Without(s.len, n), a, s.len[a] + s.len[n])
           d == [[m EXCEPT !.rover = IF @ = n THEN Before(m.free, n) ELSE @]
                   EXCEPT !.free = Unlink(@, n), !.numfree = @ - 1]
           t == Changed(s, h, new, s.used, d)
           U == s.used
<1> USE SizesAre
<1>1. /\ Typed(s) /\ h \in Heaps(s) /\ h \in Nat /\ Tiling(s.len, Heaps(s), Ends(s)) /\ AloneOf(s.len, U)
      /\ Ends(s)[h] = End(s, h) /\ End(s, h) \in Nat
      /\ RingOf(free, h, End(s, h), DOMAIN s.len, U) /\ Counted(s, h) /\ Bounded(s, h)
  BY HeapOkIs
<1>2. a \in Blocks(s.len) /\ a \in DOMAIN s.len /\ s.len[a] \in Nat /\ n \in DOMAIN s.len /\ h < a /\ a < End(s, h)
  <2>1. a \in Blocks(s.len) /\ h < a /\ a < End(s, h)  BY <1>1 DEF AloneOf, Inside
  <2> QED  BY <1>1, <2>1, BlocksAre
<1>3. n \in Blocks(s.len) /\ n \notin U  BY <1>2 DEF IsFree, Blocks
<1>4. Merges(s.len, new, a, n)  BY <1>1, <1>2, <1>3, MergedIs
<1> HIDE DEF new
<1>5. /\ Tiling(new, Heaps(s), Ends(s)) /\ AloneOf(new, U) /\ RingOf(f, h, Ends(s)[h], DOMAIN new, U)
      /\ Contains(free, n) /\ n # h /\ h < n /\ n < Ends(s)[h] /\ n \in Nat
      /\ Len(f) = Len(free) - 1
      /\ \A y : Contains(f, y) <=> Contains(free, y) /\ y # n
  <2> DEFINE H == Heaps(s)
             e == Ends(s)
  <2>1. /\ h < a /\ a < e[h] /\ RingOf(free, h, e[h], DOMAIN s.len, U) /\ h \in H /\ a \in U /\ n \notin U
        /\ Tiling(s.len, H, e) /\ AloneOf(s.len, U) /\ Merges(s.len, new, a, n)
    BY <1>1, <1>2, <1>3, <1>4
  <2> HIDE DEF H, e, free
  <2>2. /\ Tiling(new, H, e) /\ AloneOf(new, U) /\ RingOf(Unlink(free, n), h, e[h], DOMAIN new, U)
        /\ Contains(free, n) /\ n # h /\ h < n /\ n < e[h] /\ n \in Nat
        /\ Len(Unlink(free, n)) = Len(free) - 1
        /\ \A y : Contains(Unlink(free, n), y) <=> Contains(free, y) /\ y # n
    BY ONLY <2>1, JoinFacts
  <2> QED  BY <2>2 DEF f, H, e
<1>6. /\ Contains(free, r) /\ r # n /\ r \in Nat
      /\ \A b : b \in Nat /\ b < r => b < m.rover
  <2>1. Contains(s.mh[h].free, n) /\ n # h  BY <1>5
  <2> QED  BY <2>1, SteppedIs
<1>7. /\ DOMAIN new = DOMAIN s.len \ {n} /\ new[a] = s.len[a] + s.len[n]
      /\ \A b \in DOMAIN s.len \ {n} : b # a => new[b] = s.len[b]
  BY <1>4 DEF Merges
<1>8. f \in Seq(Nat) /\ m \in Descriptor  BY <1>1, <1>5 DEF RingOf, Typed
<1>9. AbsorbedDesc(m, d, n)  BY <1>6, <1>8 DEF AbsorbedDesc
<1> HIDE DEF d, r, f
<1>10. Desc(d, m.len, f, r, m.b4rover, m.largest_blk, m.numalloc, m.numfree - 1)
  BY <1>9, AbsorbedDescIs DEF f, r
<1>12. Only(s, t, h) /\ t.len = new /\ t.used = U /\ t.mh[h] = d
  <2>1. d \in Descriptor /\ d.len = s.mh[h].len  BY <1>10 DEF Desc
  <2> QED  BY <1>1, <2>1, ChangedIs
<1> HIDE DEF t
<1>15. Heaps(t) = Heaps(s) /\ Ends(t) = Ends(s) /\ End(t, h) = End(s, h) /\ Typed(t)
  <2>1. Heaps(t) = Heaps(s) /\ Ends(t) = Ends(s) /\ End(t, h) = End(s, h)
    BY <1>1, <1>12, OnlyEnds
  <2> QED  BY <1>12, <2>1 DEF Only
<1>20. Ring(t, h)  BY <1>1, <1>5, <1>10, <1>12, <1>15 DEF Ring, Desc
<1>21. Counted(t, h)
  <2>1. s.mh[h].numalloc = Cardinality({b \in U : Inside(s, h, b)}) /\ m.numfree = Len(free) - 1
    BY <1>1 DEF Counted
  <2>2. t.mh[h].free = f /\ t.mh[h].numfree = m.numfree - 1 /\ t.mh[h].numalloc = m.numalloc
    BY <1>10, <1>12 DEF Desc
  <2>3. t.mh[h].numfree = Len(t.mh[h].free) - 1  BY <1>5, <2>1, <2>2
  <2> QED  BY <1>12, <1>15, <2>1, <2>2, <2>3 DEF Counted, Inside
<1>22. Bounded(t, h)
  <2>2. ASSUME NEW b, Contains(f, b), b # h PROVE new[b] <= m.largest_blk /\ (b < r => new[b] <= m.b4rover)
    <3>1. Contains(free, b) /\ b # n  BY <1>5, <2>2
    <3>2. b \in Nat /\ b \in DOMAIN s.len /\ b \notin U  BY <2>2, <3>1, RingBlock
    <3>3. b # a /\ new[b] = s.len[b]  BY <1>7, <3>1, <3>2
    <3>4. b < r => b < m.rover  BY <1>6, <3>2
    <3>5. s.len[b] <= m.largest_blk /\ (b < m.rover => s.len[b] <= m.b4rover)
      BY <1>1, <2>2, <3>1 DEF Bounded
    <3> QED  BY <3>3, <3>4, <3>5
  <2>3. Contains(f, r)  BY <1>5, <1>6
  <2>4. m.b4rover \in 0..Top /\ m.largest_blk \in (0..Top) \cup {Largest}
    BY <1>1 DEF Bounded
  <2> QED  BY <1>10, <1>12, <2>2, <2>3, <2>4 DEF Bounded, Desc
<1>23. Outside(s, t, h)
  <2>1. Inside(s, h, a) /\ Inside(s, h, n)  BY <1>1, <1>5 DEF Inside
  <2> QED  BY <1>7, <1>12, <2>1 DEF Outside
<1>24. HeapOk(t, h)
  BY <1>1, <1>5, <1>12, <1>15, <1>20, <1>21, <1>22 DEF HeapOk, TilesAll
<1>25. \A c \in U : c # a => t.len[c] = s.len[c]
  <2>1. \A c \in U : c \in DOMAIN s.len /\ c # n  BY <1>1, <1>3 DEF AloneOf, Blocks
  <2> QED  BY <1>7, <1>12, <2>1
<1>26. t.len[a] = s.len[a] + s.len[n] /\ t.mh[h].largest_blk = m.largest_blk
  BY <1>7, <1>10, <1>12 DEF Desc
<1>27. Grown(s, t, h, a, s.len[n])  BY <1>12, <1>23, <1>24, <1>25, <1>26 DEF Grown
<1>28. Absorb(s, h, a, n) = t  BY DEF Absorb, t, d, new
<1> QED  BY <1>27, <1>28
PartDesc(m, d, i, n, x) ==
    /\ m \in Descriptor /\ x \in Nat /\ Stepped(m, n) \in Nat /\ [m.free EXCEPT ![i] = x] \in Seq(Nat)
    /\ d = [[m EXCEPT !.rover = IF @ = n THEN Before(m.free, n) ELSE @] EXCEPT !.free[i] = x]

LEMMA PartDescIs ==
    ASSUME NEW m, NEW d, NEW i, NEW n, NEW x, PartDesc(m, d, i, n, x)
    PROVE  Desc(d, m.len, [m.free EXCEPT ![i] = x], Stepped(m, n), m.b4rover, m.largest_blk, m.numalloc, m.numfree)
<1> DEFINE f == [m.free EXCEPT ![i] = x]
           r == Stepped(m, n)
           e == [m EXCEPT !.rover = r]
<1>1. m \in Descriptor /\ r \in Nat /\ f \in Seq(Nat)  BY DEF PartDesc
<1>2. d = [e EXCEPT !.free[i] = x] /\ e.free = m.free
  BY <1>1 DEF PartDesc, Descriptor, Stepped
<1> HIDE DEF r
<1>3. e \in Descriptor /\ e.len = m.len /\ e.b4rover = m.b4rover /\ e.rover = r
      /\ e.numalloc = m.numalloc /\ e.largest_blk = m.largest_blk /\ e.numfree = m.numfree
  BY <1>1 DEF Descriptor
<1> HIDE DEF e
<1>4. d = [e EXCEPT !.free = f]  BY <1>2
<1> HIDE DEF f
<1>5. Desc(d, m.len, f, r, m.b4rover, m.largest_blk, m.numalloc, m.numfree)
  BY <1>1, <1>3, <1>4 DEF Desc, Descriptor
<1> QED  BY <1>5 DEF f, r

LEMMA ShiftedIs ==
    ASSUME NEW len, NEW H, NEW e, Tiling(len, H, e), NEW a \in Blocks(len), NEW n \in Blocks(len),
           n = a + len[a], NEW k \in Nat, k > 0, FRL_SIZE <= len[n] - k
    PROVE  Shifts(len, With(With(Without(len, n), n + k, len[n] - k), a, len[a] + k), a, n, k)
<1> DEFINE x == n + k
           l == len[n] - k
           j == len[a] + k
           w == With(Without(len, n), x, l)
           new == With(w, a, j)
<1> USE SizesAre
<1>1. /\ a \in Nat /\ n \in Nat /\ len[a] \in Nat /\ len[n] \in Nat /\ 4 <= len[a] /\ 4 <= len[n]
      /\ a \in DOMAIN len /\ n \in DOMAIN len
      /\ \A c \in DOMAIN len : c <= n \/ n + len[n] <= c
  BY BlocksAre
<1>2. x \notin DOMAIN len /\ x # n /\ x # a /\ a # n /\ l \in Nat /\ j \in Nat  BY <1>1
<1> HIDE DEF x, l, j
<1>3. /\ DOMAIN w = (DOMAIN len \ {n}) \cup {x} /\ w[x] = l
      /\ \A c \in DOMAIN len \ {n} : w[c] = len[c]
  <2>1. /\ DOMAIN Without(len, n) = DOMAIN len \ {n}
        /\ \A c \in DOMAIN len \ {n} : Without(len, n)[c] = len[c]
    BY ONLY WithoutIs
  <2> DEFINE v == Without(len, n)
  <2> HIDE DEF v
  <2>2. DOMAIN With(v, x, l) = DOMAIN v \cup {x} /\ With(v, x, l)[x] = l
        /\ \A c \in DOMAIN v : c # x => With(v, x, l)[c] = v[c]
    BY DEF With
  <2> QED  BY <1>2, <2>1, <2>2 DEF v
<1> HIDE DEF w
<1>4. DOMAIN new = DOMAIN w \cup {a} /\ new[a] = j /\ \A c \in DOMAIN w : c # a => new[c] = w[c]
  BY DEF With
<1>5. new = [c \in DOMAIN new |-> new[c]]  BY DEF With
<1> HIDE DEF new
<1>6. /\ DOMAIN new = (DOMAIN len \ {n}) \cup {x} /\ new[a] = j /\ new[x] = l
      /\ \A c \in DOMAIN len \ {n} : c # a => new[c] = len[c]
  BY <1>1, <1>2, <1>3, <1>4
<1>7. \A c \in DOMAIN new : new[c] \in Int  BY <1>2, <1>6, BlocksAre
<1>8. new \in [(DOMAIN len \ {n}) \cup {x} -> Int]  BY <1>5, <1>6, <1>7
<1>9. Shifts(len, new, a, n, k)  BY <1>6, <1>8 DEF Shifts, x, l, j
<1> QED  BY <1>9 DEF new, w, x, l, j

LEMMA AbsorbPartIs ==
    ASSUME NEW s, NEW h, NEW a, NEW n, NEW k, MayPart(s, h, a, n, k)
    PROVE  Grown(s, AbsorbPart(s, h, a, n, k), h, a, k)
<1> DEFINE m == s.mh[h]
           free == m.free
           i == IndexIn(free, n)
           x == n + k
           f == [free EXCEPT ![i] = x]
           r == Stepped(m, n)
           new == With(With(Without(s.len, n), n + k, s.len[n] - k), a, s.len[a] + k)
           d == [[m EXCEPT !.rover = IF @ = n THEN Before(m.free, n) ELSE @] EXCEPT !.free[i] = x]
           t == Changed(s, h, new, s.used, d)
           U == s.used
<1> USE SizesAre
<1>0. /\ HeapOk(s, h) /\ a \in U /\ Inside(s, h, a) /\ n = a + s.len[a] /\ IsFree(s, n)
      /\ k \in Nat /\ k > 0 /\ 4 <= s.len[n] - k
  BY DEF MayPart
<1>1. /\ Typed(s) /\ h \in Heaps(s) /\ h \in Nat /\ Tiling(s.len, Heaps(s), Ends(s)) /\ AloneOf(s.len, U)
      /\ Ends(s)[h] = End(s, h) /\ End(s, h) \in Nat
      /\ RingOf(free, h, End(s, h), DOMAIN s.len, U) /\ Counted(s, h) /\ Bounded(s, h)
  BY <1>0, HeapOkIs
<1>2. a \in Blocks(s.len) /\ a \in DOMAIN s.len /\ s.len[a] \in Nat /\ a \in Nat /\ n \in DOMAIN s.len /\ h < a /\ a < n
  <2>1. a \in Blocks(s.len) /\ h < a  BY <1>0, <1>1 DEF AloneOf, Inside
  <2> QED  BY <1>0, <1>1, <2>1, BlocksAre
<1>3. n \in Blocks(s.len) /\ n \notin U  BY <1>0, <1>2 DEF IsFree, Blocks
<1>4. /\ n \in Nat /\ s.len[n] \in Nat /\ n + s.len[n] \in DOMAIN s.len
      /\ \A c \in DOMAIN s.len : c <= n \/ n + s.len[n] <= c
  BY <1>1, <1>3, BlocksAre
<1>5. a < End(s, h) /\ n + s.len[n] <= End(s, h) /\ n < End(s, h)
  <2>1. a < End(s, h)  BY <1>0 DEF Inside
  <2>2. a + s.len[a] <= End(s, h)  BY <1>1, <1>2, <2>1, TagInside
  <2>3. n < End(s, h)
    <3>1. End(s, h) \notin Blocks(s.len)  BY <1>1, HeapsAre
    <3> QED  BY <1>0, <1>1, <1>3, <1>4, <2>2, <3>1
  <2>4. Tiling(s.len, Heaps(s), Ends(s)) /\ h \in Heaps(s) /\ n \in DOMAIN s.len /\ h < n /\ n < Ends(s)[h]
    BY <1>1, <1>2, <1>4, <2>3
  <2>5. n + s.len[n] <= Ends(s)[h]  BY ONLY <2>4, TagInside
  <2> QED  BY <1>1, <2>1, <2>3, <2>5
<1>6. Contains(free, n) /\ n # h
  <2>1. Contains(free, n)  BY <1>1, <1>2, <1>3, <1>4, <1>5 DEF RingOf
  <2> QED  BY <1>1, <1>2, <1>4, <2>1
<1>7. Shifts(s.len, new, a, n, k)
  <2>1. /\ Tiling(s.len, Heaps(s), Ends(s)) /\ a \in Blocks(s.len) /\ n \in Blocks(s.len)
        /\ n = a + s.len[a] /\ k \in Nat /\ k > 0 /\ FRL_SIZE <= s.len[n] - k
    BY <1>0, <1>1, <1>2, <1>3
  <2> QED  BY ONLY <2>1, ShiftedIs
<1> HIDE DEF new
<1>8. Tiling(new, Heaps(s), Ends(s)) /\ x \notin DOMAIN s.len  BY <1>1, <1>7, Shift
<1>9. /\ DOMAIN new = (DOMAIN s.len \ {n}) \cup {x} /\ new[a] = s.len[a] + k /\ new[x] = s.len[n] - k
      /\ \A c \in DOMAIN s.len \ {n} : c # a => new[c] = s.len[c]
  BY <1>7 DEF Shifts
<1>10. x \in Nat /\ n < x /\ x < n + s.len[n] /\ x + new[x] = n + s.len[n] /\ new[x] \in Nat /\ 4 <= new[x]
       /\ h < x /\ x < End(s, h)
  <2> DEFINE l == s.len[n]
  <2>1. l \in Nat /\ k \in Nat /\ k > 0 /\ 4 <= l - k /\ new[x] = l - k /\ n \in Nat /\ n + l <= End(s, h)
        /\ h < n /\ h \in Nat /\ End(s, h) \in Nat
    BY <1>0, <1>1, <1>2, <1>4, <1>5, <1>9
  <2> HIDE DEF l
  <2> QED  BY <2>1 DEF l
<1>11. free \in Seq(Nat) /\ Rising(free) /\ Len(free) \in Nat /\ h = free[1] /\ i \in 1..Len(free) /\ free[i] = n
  <2>1. free \in Seq(Nat) /\ Rising(free) /\ Len(free) \in Nat /\ h = free[1]
    BY <1>1, InRing
  <2> HIDE DEF free
  <2> QED  BY <1>6, <2>1, IndexOf
<1> HIDE DEF i, x
<1>12. IsMoved(f, free, i, x)
  <2>1. i # 1  BY <1>6, <1>11
  <2>2. i = Len(free) \/ x < free[i + 1]
    <3> SUFFICES ASSUME i # Len(free) PROVE x < free[i + 1]  OBVIOUS
    <3> DEFINE j == i + 1
    <3>1. j \in 2..Len(s.mh[h].free) /\ j \in 1..Len(free) /\ i < j  BY <1>11, <2>1
    <3> DEFINE c == free[j]
    <3> HIDE DEF j
    <3>2. Contains(s.mh[h].free, c) /\ c # h
      <4>1. j \in 2..Len(s.mh[h].free)  BY <3>1
      <4> QED  BY ONLY <1>0, <4>1, RingIndex DEF c, free, m
    <3>3. n < c
      <4> HIDE DEF free
      <4> QED  BY <1>11, <3>1, Order DEF c
    <3> HIDE DEF c
    <3>4. c \in DOMAIN s.len /\ c \in Nat  BY ONLY <1>0, <3>2, RingBlock
    <3>5. x < c  BY <1>4, <1>10, <3>3, <3>4
    <3> QED  BY <3>5 DEF c, j
  <2> HIDE DEF free
  <2>3. MayMove(free, i, x)  BY <1>10, <1>11, <2>1, <2>2 DEF MayMove
  <2> QED  BY <2>3, Moved
<1> HIDE DEF f
<1>13. f \in Seq(Nat) /\ Rising(f) /\ Len(f) = Len(free) /\ f[1] = h
       /\ \A y : Contains(f, y) <=> (Contains(free, y) /\ y # n) \/ y = x
  BY <1>11, <1>12 DEF IsMoved
<1>14. /\ Contains(free, r) /\ r # n /\ r \in Nat
       /\ \A b : b \in Nat /\ b < r => b < m.rover
  <2>1. Contains(s.mh[h].free, n) /\ n # h  BY <1>6
  <2> QED  BY <1>0, <2>1, SteppedIs
<1>15. PartDesc(m, d, i, n, x)
  <2>1. m \in Descriptor  BY <1>1 DEF Typed
  <2> QED  BY <1>10, <1>13, <1>14, <2>1 DEF PartDesc, f
<1> HIDE DEF d, r
<1>16. Desc(d, m.len, f, r, m.b4rover, m.largest_blk, m.numalloc, m.numfree)
  <2>1. Desc(d, m.len, [m.free EXCEPT ![i] = x], Stepped(m, n), m.b4rover, m.largest_blk, m.numalloc, m.numfree)
    BY ONLY <1>15, PartDescIs
  <2> QED  BY <2>1 DEF f, r
<1>17. Only(s, t, h) /\ t.len = new /\ t.used = U /\ t.mh[h] = d
  <2>1. d \in Descriptor /\ d.len = s.mh[h].len  BY <1>16 DEF Desc
  <2> QED  BY <1>1, <2>1, ChangedIs
<1> HIDE DEF t
<1>18. Heaps(t) = Heaps(s) /\ Ends(t) = Ends(s) /\ End(t, h) = End(s, h) /\ Typed(t)
  <2>1. Heaps(t) = Heaps(s) /\ Ends(t) = Ends(s) /\ End(t, h) = End(s, h)
    BY <1>1, <1>17, OnlyEnds
  <2> QED  BY <1>17, <2>1 DEF Only
<1>19. \A c : c \in Blocks(new) <=> (c \in Blocks(s.len) /\ c # n) \/ c = x
  <2>1. new[a] # -1 /\ new[x] # -1 /\ a # n /\ a # x  BY <1>0, <1>2, <1>8, <1>9, <1>10
  <2> QED  BY <1>2, <1>8, <1>9, <2>1 DEF Blocks
<1>20. U \subseteq Blocks(s.len) /\ U \subseteq DOMAIN s.len
  BY <1>1 DEF AloneOf, Blocks
<1>21. AloneOf(new, U)
  <2>1. U \subseteq Blocks(new)  BY <1>3, <1>19, <1>20
  <2>2. ASSUME NEW c \in Blocks(new), c \notin U
        PROVE  c + new[c] \in U \/ c + new[c] \notin Blocks(new)
    <3>1. CASE c = x
      <4>1. n + s.len[n] \in U \/ n + s.len[n] \notin Blocks(s.len)
        BY <1>1, <1>3 DEF AloneOf
      <4>2. n + s.len[n] # x  BY <1>4, <1>10
      <4> QED  BY <1>10, <1>19, <3>1, <4>1, <4>2
    <3>2. CASE c # x
      <4>1. c \in Blocks(s.len) /\ c # n /\ c # a  BY <1>0, <1>19, <2>2, <3>2
      <4>2. c \in DOMAIN s.len /\ c + s.len[c] \in DOMAIN s.len
        BY <1>1, <4>1, BlocksAre
      <4>3. c + s.len[c] \in U \/ c + s.len[c] \notin Blocks(s.len)
        BY <1>1, <2>2, <4>1 DEF AloneOf
      <4>4. new[c] = s.len[c]  BY <1>9, <4>1, <4>2
      <4> QED  BY <1>8, <1>19, <4>2, <4>3, <4>4
    <3> QED  BY <3>1, <3>2
  <2> QED  BY <2>1, <2>2 DEF AloneOf
<1>22. Ring(t, h)
  <2>1. \A b : Contains(free, b) <=> b = h \/ (h < b /\ b < End(s, h) /\ b \in DOMAIN s.len \ U)
    BY <1>1 DEF RingOf
  <2>2. \A b : b \in DOMAIN new \ U <=> (b \in DOMAIN s.len \ U /\ b # n) \/ b = x
    BY <1>8, <1>9, <1>20
  <2>3. \A b : Contains(f, b) <=> b = h \/ (h < b /\ b < End(s, h) /\ b \in DOMAIN new \ U)
    BY <1>6, <1>10, <1>13, <2>1, <2>2
  <2>4. Len(f) > 0  BY <1>11, <1>13
  <2>5. RingOf(f, h, End(s, h), DOMAIN new, U)  BY <1>13, <2>3, <2>4 DEF RingOf
  <2> QED  BY <1>16, <1>17, <1>18, <2>5 DEF Ring, Desc
<1>23. Counted(t, h)
  <2>1. s.mh[h].numalloc = Cardinality({b \in U : Inside(s, h, b)}) /\ m.numfree = Len(free) - 1
    BY <1>1 DEF Counted
  <2>2. t.mh[h].free = f /\ t.mh[h].numfree = m.numfree /\ t.mh[h].numalloc = m.numalloc
    BY <1>16, <1>17 DEF Desc
  <2>3. t.mh[h].numfree = Len(t.mh[h].free) - 1  BY <1>13, <2>1, <2>2
  <2> QED  BY <1>17, <1>18, <2>1, <2>2, <2>3 DEF Counted, Inside
<1>24. Bounded(t, h)
  <2>1. m.b4rover \in 0..Top /\ m.largest_blk \in (0..Top) \cup {Largest}
    BY <1>1 DEF Bounded
  <2>2. \A b : Contains(free, b) /\ b # h =>
           s.len[b] <= m.largest_blk /\ (b < m.rover => s.len[b] <= m.b4rover)
    BY <1>1 DEF Bounded
  <2>3. ASSUME NEW b, Contains(f, b), b # h PROVE new[b] <= m.largest_blk /\ (b < r => new[b] <= m.b4rover)
    <3>1. CASE b = x
      <4>1. new[x] < s.len[n] /\ s.len[n] <= m.largest_blk /\ (n < m.rover => s.len[n] <= m.b4rover)
        BY <1>0, <1>4, <1>6, <1>9, <2>2
      <4>2. x < r => n < m.rover  BY <1>4, <1>10, <1>14
      <4> QED  BY <1>4, <1>10, <2>1, <3>1, <4>1, <4>2
    <3>2. CASE b # x
      <4>1. Contains(free, b) /\ b # n  BY <1>13, <2>3, <3>2
      <4>2. b \in Nat /\ b \in DOMAIN s.len /\ b \notin U
        <5>1. Contains(s.mh[h].free, b)  BY <4>1
        <5> QED  BY <1>0, <2>3, <5>1, RingBlock
      <4>3. b # a /\ new[b] = s.len[b]  BY <1>0, <1>9, <4>1, <4>2
      <4>4. b < r => b < m.rover  BY <1>14, <4>2
      <4> QED  BY <2>2, <2>3, <4>1, <4>3, <4>4
    <3> QED  BY <3>1, <3>2
  <2>4. Contains(f, r)  BY <1>13, <1>14
  <2> QED  BY <1>16, <1>17, <2>1, <2>3, <2>4 DEF Bounded, Desc
<1>25. Outside(s, t, h)
  <2>1. Inside(s, h, a) /\ Inside(s, h, n) /\ Inside(s, h, x)
    BY <1>0, <1>1, <1>2, <1>4, <1>5, <1>10 DEF Inside
  <2> QED  BY <1>9, <1>17, <2>1 DEF Outside
<1>26. HeapOk(t, h)
  BY <1>1, <1>8, <1>17, <1>18, <1>21, <1>22, <1>23, <1>24 DEF HeapOk, TilesAll
<1>27. \A c \in U : c # a => t.len[c] = s.len[c]  BY <1>3, <1>9, <1>17, <1>20
<1>28. t.len[a] = s.len[a] + k /\ t.mh[h].largest_blk = m.largest_blk
  BY <1>9, <1>16, <1>17 DEF Desc
<1>29. Grown(s, t, h, a, k)  BY <1>17, <1>25, <1>26, <1>27, <1>28 DEF Grown
<1>30. AbsorbPart(s, h, a, n, k) = t
  <2>1. [m EXCEPT !.rover = IF @ = n THEN Before(m.free, n) ELSE @].free = free
    <3>1. m \in Descriptor  BY <1>1 DEF Typed
    <3> QED  BY <3>1 DEF Descriptor
  <2> QED  BY <2>1 DEF AbsorbPart, t, d, new, i, x
<1> QED  BY <1>29, <1>30
-------------------------------------------------------------------------------
\* The growth of the heap.

LEMMA SoundFrom ==
    ASSUME NEW s, Sound(s), NEW t, Typed(t), TilesAll(t), AloneOf(t.len, t.used), RoversOk(t),
           \A g \in Heaps(t) : \/ g \in Heaps(s) /\ SameIn(s, t, g)
                               \/ Ring(t, g) /\ Counted(t, g) /\ Bounded(t, g)
    PROVE  Sound(t)
<1>1. \A g \in Heaps(t) : Ring(t, g) /\ Counted(t, g) /\ Bounded(t, g)  BY StillSame
<1> QED  BY <1>1 DEF Sound

LEMMA LongerIs ==
    ASSUME NEW s, NEW x, NEW h, NEW k, Longer(s, x, h, k)
    PROVE  /\ Sound(x) /\ Heaps(x) = Heaps(s) /\ End(x, h) = End(s, h) + k
           /\ \A g \in Heaps(s) : g # h => End(x, g) = End(s, g)
           /\ Inside(x, h, End(s, h)) /\ End(s, h) \notin s.used
           /\ \A c \in s.used : x.len[c] = s.len[c]
<1> DEFINE m == s.mh[h]
           n == End(s, h)
           U == s.used
           H == Heaps(s)
           e == Ends(s)
           f == [e EXCEPT ![h] = e[h] + k]
<1> USE SizesAre
<1>1. /\ Sound(s) /\ h \in H /\ k \in Nat /\ 4 <= k /\ n + k <= Top
      /\ \A g \in Heaps(s) : h < g => n + k < g
      /\ Typed(x) /\ RoversOk(x) /\ x.list = s.list /\ x.used = s.used \cup {n}
      /\ x.len \in [DOMAIN s.len \cup {n + k} -> Int]
      /\ x.len[n] = k /\ x.len[n + k] = END_TAG
      /\ \A b \in DOMAIN s.len : b # n => x.len[b] = s.len[b]
      /\ \A g \in Heaps(s) : g # h => x.mh[g] = s.mh[g]
      /\ Desc(x.mh[h], m.len + k, m.free, m.rover, m.b4rover, Largest, m.numalloc + 1, m.numfree)
  BY DEF Longer
<1>2. /\ Typed(s) /\ h \in Nat /\ Tiling(s.len, H, e) /\ AloneOf(s.len, U) /\ e[h] = n
      /\ RingOf(m.free, h, n, DOMAIN s.len, U) /\ Counted(s, h) /\ Bounded(s, h) /\ n \in Nat
  BY <1>1, SoundIs, HeapOkIs
<1>3. n \in DOMAIN s.len /\ n \notin Blocks(s.len) /\ h < n
      /\ \A g \in H : g \in Nat /\ (g = h \/ e[g] < h \/ n < g)
  <2>1. Tiling(s.len, H, e) /\ h \in H  BY <1>1, <1>2
  <2>2. /\ e[h] \in DOMAIN s.len /\ e[h] \notin Blocks(s.len) /\ h + 11 < e[h]
        /\ \A g \in H : g = h \/ e[g] < h \/ e[h] < g
    BY <2>1, HeapsAre
  <2>3. \A g \in H : g \in Nat  BY <2>1, HeapsAre
  <2> QED  BY <1>2, <2>2, <2>3
<1>4. Heaps(x) = H /\ End(x, h) = n + k /\ \A g \in H : g # h => End(x, g) = End(s, g)
  <2>1. Heaps(x) = H  BY <1>1 DEF Heaps
  <2>2. x.mh[h].len = m.len + k  BY <1>1 DEF Desc
  <2>3. m.len \in Nat  BY <1>1, <1>2 DEF Typed, Descriptor
  <2>4. End(x, h) = n + k  BY <1>1, <1>2, <2>2, <2>3 DEF End
  <2> QED  BY <1>1, <2>1, <2>4 DEF End
<1>5. Ends(x) = f
  <2>1. Ends(x) = [g \in H |-> End(x, g)]  BY <1>4 DEF Ends
  <2>2. e = [g \in H |-> End(s, g)]  BY DEF Ends
  <2> HIDE DEF e, n
  <2>3. f = [g \in H |-> IF g = h THEN e[h] + k ELSE e[g]]  BY <2>2
  <2> QED  BY <1>2, <1>4, <2>1, <2>2, <2>3
<1>6. LenOK(x.len) /\ TilesOf(x.len, H, f) /\ n + k \notin DOMAIN s.len
  <2>1. LenOK(s.len) /\ H \in SUBSET Addr /\ e \in [H -> Nat] /\ TilesOf(s.len, H, e)
    BY <1>2 DEF Tiling
  <2>2. /\ h \in H /\ k \in Nat /\ FRL_SIZE <= k /\ e[h] + k <= Top /\ \A g \in H : h < g => e[h] + k < g
        /\ x.len \in [DOMAIN s.len \cup {e[h] + k} -> Int]
        /\ x.len[e[h]] = k /\ x.len[e[h] + k] = END_TAG
        /\ \A b \in DOMAIN s.len : b # e[h] => x.len[b] = s.len[b]
    BY <1>1, <1>2
  <2> HIDE DEF H, e
  <2>3. LenOK(x.len) /\ TilesOf(x.len, H, [e EXCEPT ![h] = e[h] + k]) /\ e[h] + k \notin DOMAIN s.len
    <3>1. Extends(s.len, x.len, H, e, h, k)  BY <2>1, <2>2 DEF Extends
    <3> QED  BY ONLY <3>1, ExtendTiles
  <2> QED  BY <1>2, <2>3
<1>7. Tiling(x.len, Heaps(x), Ends(x)) /\ TilesAll(x)
  <2>1. H \subseteq Addr /\ e \in [H -> Nat]  BY <1>2 DEF Tiling
  <2>2. f \in [H -> Nat]
    <3> HIDE DEF H, e, n
    <3> QED  BY <1>1, <1>2, <2>1
  <2> QED  BY <1>4, <1>5, <1>6, <2>1, <2>2 DEF Tiling, TilesAll
<1>8. \A c : c \in Blocks(x.len) <=> c \in Blocks(s.len) \/ c = n
  <2>1. DOMAIN x.len = DOMAIN s.len \cup {n + k} /\ k # -1  BY <1>1
  <2> HIDE DEF n
  <2> QED  BY <1>1, <1>3, <1>6, <2>1 DEF Blocks
<1>9. AloneOf(x.len, x.used)
  <2>1. x.used \subseteq Blocks(x.len)  BY <1>1, <1>2, <1>8 DEF AloneOf
  <2>2. ASSUME NEW c \in Blocks(x.len), c \notin x.used
        PROVE  c + x.len[c] \in x.used \/ c + x.len[c] \notin Blocks(x.len)
    <3>1. c \in Blocks(s.len) /\ c \notin U /\ c # n  BY <1>1, <1>8, <2>2
    <3>2. c + s.len[c] \in U \/ c + s.len[c] \notin Blocks(s.len)
      BY <1>2, <3>1 DEF AloneOf
    <3>3. x.len[c] = s.len[c]  BY <1>1, <3>1 DEF Blocks
    <3> QED  BY <1>1, <1>8, <3>2, <3>3
  <2> QED  BY <2>1, <2>2 DEF AloneOf
<1>10. n \notin U /\ U \subseteq DOMAIN s.len  BY <1>2, <1>3 DEF AloneOf, Blocks
<1>11. Ring(x, h)
  <2>1. \A b : Contains(m.free, b) <=> b = h \/ (h < b /\ b < n /\ b \in DOMAIN s.len \ U)
    BY <1>2 DEF RingOf
  <2>2. \A b \in DOMAIN s.len : b \in Nat  BY <1>2, BlocksAre
  <2>3. \A b \in DOMAIN s.len : h < b /\ b < n + k => b <= n
    <3> SUFFICES ASSUME NEW b \in DOMAIN s.len, h < b, b < n + k PROVE b <= n  OBVIOUS
    <3>1. PICK g \in H : g < b /\ b <= e[g] /\ g \in Nat /\ e[g] \in Nat
      <4>1. PICK g \in H : g + DESCRIPTOR <= b /\ b <= e[g]
        BY <1>2 DEF Tiling, TilesOf, Homes
      <4>2. e[g] \in Nat /\ g \in Nat  BY <1>2, HeapsAre
      <4> QED  BY <2>2, <4>1, <4>2
    <3>2. CASE g = h  BY <1>2, <3>1, <3>2
    <3>3. CASE g # h
      <4>1. e[g] < h \/ n < g  BY <1>3, <3>3
      <4>2. b \in Nat  BY <2>2
      <4>3. ~(e[g] < h)  BY <1>2, <3>1, <4>2
      <4>4. h < g  BY <1>2, <1>3, <3>1, <4>1, <4>3
      <4>5. n + k < g  BY <1>1, <4>4
      <4> QED  BY <1>1, <1>2, <3>1, <4>2, <4>5
    <3> QED  BY <3>2, <3>3
  <2>4. \A b : b \in DOMAIN x.len <=> b \in DOMAIN s.len \/ b = n + k  BY <1>1
  <2> HIDE DEF n
  <2>5. \A b : b \in DOMAIN x.len \ x.used /\ h < b /\ b < n + k <=> b \in DOMAIN s.len \ U /\ h < b /\ b < n
    <3>1. ASSUME NEW b, b \in DOMAIN x.len \ x.used, h < b, b < n + k PROVE b \in DOMAIN s.len \ U /\ b < n
      <4>1. b \in DOMAIN s.len /\ b # n /\ b \notin U  BY <1>1, <1>2, <2>4, <3>1
      <4> QED  BY <1>2, <2>2, <2>3, <3>1, <4>1
    <3>2. ASSUME NEW b, b \in DOMAIN s.len \ U, h < b, b < n PROVE b \in DOMAIN x.len \ x.used /\ b < n + k
      <4>1. b \in Nat /\ b # n  BY <1>2, <2>2, <3>2
      <4> QED  BY <1>1, <1>2, <2>4, <3>2, <4>1
    <3> QED  BY <3>1, <3>2
  <2>6. \A b : Contains(m.free, b) <=> b = h \/ (h < b /\ b < n + k /\ b \in DOMAIN x.len \ x.used)
    BY <2>1, <2>5
  <2>7. m.free \in Seq(Nat) /\ Rising(m.free) /\ Len(m.free) > 0 /\ m.free[1] = h
    BY <1>2 DEF RingOf
  <2>8. RingOf(m.free, h, n + k, DOMAIN x.len, x.used)  BY ONLY <2>6, <2>7 DEF RingOf
  <2> QED  BY <1>1, <1>4, <2>8 DEF Ring, Desc, n
<1>12. Inside(x, h, n)  BY <1>1, <1>2, <1>3, <1>4 DEF Inside
<1>13. \A b \in U : Inside(x, h, b) <=> Inside(s, h, b)
  <2> SUFFICES ASSUME NEW b \in U PROVE Inside(x, h, b) <=> Inside(s, h, b)  OBVIOUS
  <2>1. b \in DOMAIN s.len /\ b \in Nat  BY <1>2, <1>10, BlocksAre
  <2>2. h < b /\ b < n + k => b <= n
    <3> SUFFICES ASSUME h < b, b < n + k PROVE b <= n  OBVIOUS
    <3>1. PICK g \in H : g < b /\ b < e[g] /\ g \in Nat /\ e[g] \in Nat
      <4>1. b \in Blocks(s.len)  BY <1>2 DEF AloneOf
      <4>2. PICK g \in H : g < b /\ b < e[g]  BY <1>2, <4>1, HomeOf
      <4>3. e[g] \in Nat /\ g \in Nat  BY <1>2, HeapsAre
      <4> QED  BY <4>2, <4>3
    <3>2. CASE g = h  BY <1>2, <2>1, <3>1, <3>2
    <3>3. CASE g # h
      <4>1. e[g] < h \/ n < g  BY <1>3, <3>3
      <4>3. ~(e[g] < h)  BY <1>2, <2>1, <3>1
      <4>4. h < g  BY <1>2, <1>3, <3>1, <4>1, <4>3
      <4>5. n + k < g  BY <1>1, <4>4
      <4> QED  BY <1>1, <1>2, <2>1, <3>1, <4>5
    <3> QED  BY <3>2, <3>3
  <2>3. b # n  BY <1>10
  <2> QED  BY <1>1, <1>2, <1>4, <2>1, <2>2, <2>3 DEF Inside
<1>14. Counted(x, h)
  <2> DEFINE S == {c \in U : Inside(s, h, c)}
             C == {c \in x.used : Inside(x, h, c)}
  <2>1. IsFiniteSet(S) /\ n \notin S  BY <1>2, <1>10, UsedFinite, FS_Subset
  <2>2. C = S \cup {n}
    <3> HIDE DEF n
    <3> QED  BY <1>1, <1>12, <1>13
  <2>3. m.numalloc = Cardinality(S) /\ m.numfree = Len(m.free) - 1  BY <1>2 DEF Counted
  <2> HIDE DEF S, C, n
  <2>4. Cardinality(S \cup {n}) = Cardinality(S) + 1  BY ONLY <2>1, FS_AddElement
  <2>5. x.mh[h].free = m.free /\ x.mh[h].numfree = m.numfree /\ x.mh[h].numalloc = m.numalloc + 1
    BY <1>1 DEF Desc
  <2>6. x.mh[h].numalloc = Cardinality(C)  BY <2>2, <2>3, <2>4, <2>5
  <2>7. x.mh[h].numfree = Len(x.mh[h].free) - 1  BY <2>3, <2>5
  <2> QED  BY <2>6, <2>7 DEF Counted, C
<1>15. Bounded(x, h)
  <2>1. \A c : Contains(m.free, c) /\ c # h => c \in DOMAIN s.len /\ c # n /\ s.len[c] \in Nat /\ s.len[c] <= Top
    <3> SUFFICES ASSUME NEW c, Contains(m.free, c), c # h
                 PROVE  c \in DOMAIN s.len /\ c # n /\ s.len[c] \in Nat /\ s.len[c] <= Top
      OBVIOUS
    <3>1. HeapOk(s, h)  BY <1>1, SoundIs
    <3>2. c \in DOMAIN s.len /\ c < n /\ c \in Nat /\ s.len[c] \in Nat /\ s.len[c] <= Top
      BY <3>1, RingBlock
    <3> QED  BY <1>2, <3>2
  <2>2. \A c : Contains(m.free, c) /\ c # h => x.len[c] = s.len[c]  BY <1>1, <2>1
  <2>3. m.b4rover \in 0..Top /\ Contains(m.free, m.rover)
        /\ \A c : Contains(m.free, c) /\ c # h /\ c < m.rover => s.len[c] <= m.b4rover
    BY <1>2 DEF Bounded
  <2>4. \A c : Contains(m.free, c) /\ c # h => x.len[c] <= Largest  BY <2>1, <2>2
  <2> QED  BY <1>1, <2>2, <2>3, <2>4 DEF Bounded, Desc
<1>16. ASSUME NEW g \in H, g # h PROVE SameIn(s, x, g)
  <2>1. x.mh[g] = s.mh[g]  BY <1>1, <1>16
  <2>2. g \in Nat /\ End(s, g) \in Nat /\ e[g] = End(s, g) /\ (End(s, g) < h \/ n < g)
    BY <1>2, <1>3, <1>16, HeapsAre DEF Ends
  <2>3. ~Inside(s, g, n) /\ ~Inside(s, g, n + k)
    <3>1. n < g => n + k < g  BY <1>1, <1>2, <1>3, <2>2
    <3> QED  BY <1>1, <1>2, <1>3, <2>2, <3>1 DEF Inside
  <2>4. \A b : Inside(s, g, b) => b # n /\ b # n + k  BY <2>3
  <2> HIDE DEF n
  <2> QED  BY <1>1, <2>1, <2>4 DEF SameIn
<1>17. Sound(x)
  <2>1. \A g \in Heaps(x) : \/ g \in Heaps(s) /\ SameIn(s, x, g)
                            \/ Ring(x, g) /\ Counted(x, g) /\ Bounded(x, g)
    BY <1>4, <1>11, <1>14, <1>15, <1>16
  <2>2. Sound(s) /\ Typed(x) /\ TilesAll(x) /\ AloneOf(x.len, x.used) /\ RoversOk(x)
    BY <1>1, <1>7, <1>9
  <2> QED  BY ONLY <2>1, <2>2, SoundFrom
<1>18. \A c \in U : x.len[c] = s.len[c]  BY <1>1, <1>10
<1> QED  BY <1>4, <1>10, <1>12, <1>17, <1>18

\* The break has moved and the descriptor of h has changed.
LEMMA BrkChanged ==
    ASSUME NEW s, Typed(s), NEW h \in Heaps(s), NEW d \in Descriptor, NEW c \in Start..Top,
           NEW len, NEW used
    PROVE  LET t == Changed([s EXCEPT !.curbrk = c], h, len, used, d)
           IN  /\ Typed(t) /\ t.list = s.list /\ t.len = len /\ t.used = used /\ t.mh[h] = d
               /\ \A g \in Heaps(s) : g # h => t.mh[g] = s.mh[g]
               /\ t.MiniHeapRover = s.MiniHeapRover /\ t.LargestSizeB4 = s.LargestSizeB4
               /\ t.MiniHeapFreeRover = s.MiniHeapFreeRover /\ t.curbrk = c /\ t.wild = s.wild
<1> DEFINE t == Changed([s EXCEPT !.curbrk = c], h, len, used, d)
<1>1. s.mh \in [Heaps(s) -> Descriptor]  BY DEF Typed
<1>2. t.mh = [s.mh EXCEPT ![h] = d] /\ t.len = len /\ t.used = used
  BY DEF Changed, Typed
<1>3. /\ t.list = s.list /\ t.MiniHeapRover = s.MiniHeapRover
      /\ t.LargestSizeB4 = s.LargestSizeB4 /\ t.MiniHeapFreeRover = s.MiniHeapFreeRover
      /\ t.curbrk = c /\ t.wild = s.wild /\ DOMAIN t = DOMAIN s
  BY DEF Changed, Typed
<1> HIDE DEF t
<1>4. t.mh[h] = d /\ t.mh \in [Heaps(s) -> Descriptor] /\ \A g \in Heaps(s) : g # h => t.mh[g] = s.mh[g]
  BY <1>1, <1>2
<1>5. Typed(t)  BY <1>3, <1>4 DEF Typed, Heaps
<1> QED  BY <1>2, <1>3, <1>4, <1>5 DEF t

LEMMA LongerDescIs ==
    ASSUME NEW m \in Descriptor, NEW k \in Nat
    PROVE  LET d == [m EXCEPT !.len = @ + k]
           IN  Desc(d, m.len + k, m.free, m.rover, m.b4rover, m.largest_blk, m.numalloc, m.numfree)
<1> DEFINE n == m.len + k
           d == [m EXCEPT !.len = @ + k]
<1>1. n \in Nat  BY DEF Descriptor
<1>2. d = [m EXCEPT !.len = n]  OBVIOUS
<1> HIDE DEF n, d
<1> QED  BY <1>1, <1>2 DEF Desc, Descriptor, n, d

LEMMA LengthenedIs ==
    ASSUME NEW s, NEW h, NEW k, MayLengthen(s, h, k)
    PROVE  Gained(s, Lengthened(s, h, k))
<1> DEFINE m == s.mh[h]
           n == End(s, h)
           c == s.curbrk + k
           ext == With(s.len, n + k, END_TAG)
           d1 == [m EXCEPT !.len = @ + k]
           y == Changed([s EXCEPT !.curbrk = c], h, ext, s.used, d1)
           d2 == [y.mh[h] EXCEPT !.numalloc = @ + 1, !.largest_blk = Largest]
           new == With(y.len, n, k)
           x == Changed(y, h, new, y.used \cup {n}, d2)
           t == FreeNewBlock(y, h, n, k, Largest)
<1> USE SizesAre
<1>1. /\ Sound(s) /\ BelowBrk(s) /\ h \in Heaps(s) /\ n + 1 = s.curbrk
      /\ k \in Nat /\ 4 <= k /\ s.curbrk + k <= Top /\ n = s.curbrk - 1 /\ s.curbrk \in Start..Top
  <2>1. Typed(s) /\ Sound(s) /\ BelowBrk(s) /\ h \in Heaps(s) /\ n = s.curbrk - 1 /\ k \in Nat /\ 4 <= k /\ s.curbrk + k <= Top
    BY DEF MayLengthen, Sound
  <2>2. s.curbrk \in Start..Top  BY <2>1 DEF Typed
  <2> HIDE DEF n
  <2> QED  BY <2>1, <2>2
<1>2. /\ Typed(s) /\ h \in Nat /\ Tiling(s.len, Heaps(s), Ends(s)) /\ Ends(s)[h] = n /\ n \in Nat
      /\ RoversOk(s)
  BY <1>1, SoundIs, HeapOkIs DEF Sound
<1>3. m \in Descriptor /\ c \in Start..Top
  <2>1. m \in Descriptor  BY <1>1, <1>2 DEF Typed
  <2>2. c \in Start..Top  BY <1>1
  <2> QED  BY <2>1, <2>2
<1>4. d1 \in Descriptor /\ Desc(d1, m.len + k, m.free, m.rover, m.b4rover, m.largest_blk, m.numalloc, m.numfree)
  <2> HIDE DEF m
  <2>1. Desc(d1, m.len + k, m.free, m.rover, m.b4rover, m.largest_blk, m.numalloc, m.numfree)
    BY <1>1, <1>3, LongerDescIs
  <2> QED  BY <2>1 DEF Desc
<1>5. Lengthened(s, h, k) = t
  <2>1. s.curbrk - TAG_SIZE = n /\ s.curbrk - TAG_SIZE + k = n + k  BY <1>1
  <2> QED  BY ONLY <2>1 DEF Lengthened
<1> HIDE DEF d1, ext, c
<1>6. /\ Typed(y) /\ y.list = s.list /\ y.len = ext /\ y.used = s.used /\ y.mh[h] = d1
      /\ \A g \in Heaps(s) : g # h => y.mh[g] = s.mh[g]
      /\ y.MiniHeapRover = s.MiniHeapRover /\ y.LargestSizeB4 = s.LargestSizeB4
      /\ y.MiniHeapFreeRover = s.MiniHeapFreeRover /\ y.curbrk = c /\ y.wild = s.wild
  <2>1. Typed(s) /\ h \in Heaps(s) /\ d1 \in Descriptor /\ c \in Start..Top
    BY <1>1, <1>2, <1>3, <1>4
  <2> QED  BY ONLY <2>1, BrkChanged
<1> HIDE DEF y
<1>7. d2 \in Descriptor /\ Desc(d2, m.len + k, m.free, m.rover, m.b4rover, Largest, m.numalloc + 1, m.numfree)
  <2>1. AllocatedDesc(y.mh[h], d2, Largest)  BY <1>4, <1>6 DEF AllocatedDesc
  <2> DEFINE v == y.mh[h]
  <2>2. Desc(d2, v.len, v.free, v.rover, v.b4rover, Largest, v.numalloc + 1, v.numfree)
    BY ONLY <2>1, AllocatedDescIs
  <2>3. Desc(v, m.len + k, m.free, m.rover, m.b4rover, m.largest_blk, m.numalloc, m.numfree)
    BY <1>4, <1>6
  <2> HIDE DEF m, d2, v
  <2> QED  BY <2>2, <2>3 DEF Desc
<1> HIDE DEF d2
<1>8. /\ Only(y, x, h) /\ x.len = new /\ x.used = s.used \cup {n} /\ x.mh[h] = d2
  <2>1. Heaps(y) = Heaps(s)  BY <1>6 DEF Heaps
  <2>2. d2.len = y.mh[h].len  BY <1>4, <1>6, <1>7 DEF Desc
  <2>3. Typed(y) /\ h \in Heaps(y) /\ d2 \in Descriptor  BY <1>1, <1>6, <1>7, <2>1
  <2> DEFINE U == y.used \cup {n}
  <2>4. U = s.used \cup {n}  BY <1>6
  <2> HIDE DEF U, new, n
  <2>5. Only(y, x, h) /\ x.len = new /\ x.used = U /\ x.mh[h] = d2
    BY ONLY <2>2, <2>3, ChangedIs DEF U
  <2> QED  BY <2>4, <2>5
<1>9. x = Allocated(y, h, n, k, Largest)  BY DEF Allocated, d2
<1> HIDE DEF x
<1>10. Longer(s, x, h, k)
  <2>1. \A g \in Heaps(s) : h < g => n + k < g
    <3>1. \A g \in Heaps(s) : g \in Nat /\ (h < g => n < g) /\ g < s.curbrk
      <4> SUFFICES ASSUME NEW g \in Heaps(s) PROVE g \in Nat /\ (h < g => n < g) /\ g < s.curbrk
        OBVIOUS
      <4>1. g \in Nat /\ (h < g => Ends(s)[h] < g) /\ g + DESCRIPTOR < Ends(s)[g] /\ Ends(s)[g] \in Nat
        BY <1>1, <1>2, HeapsAre
      <4>2. Ends(s)[g] < s.curbrk  BY <1>1 DEF BelowBrk, Ends
      <4> QED  BY <1>1, <1>2, <4>1, <4>2
    <3> QED  BY <1>1, <1>2, <3>1
  <2>2. Typed(x) /\ RoversOk(x) /\ x.list = s.list
    <3>1. /\ Typed(x) /\ x.list = s.list /\ x.MiniHeapRover = s.MiniHeapRover
          /\ x.MiniHeapFreeRover = s.MiniHeapFreeRover /\ x.wild = s.wild
      BY <1>6, <1>8 DEF Only
    <3> QED  BY <1>2, <3>1 DEF RoversOk, Live
  <2>3. /\ x.len \in [DOMAIN s.len \cup {n + k} -> Int]
        /\ x.len[n] = k /\ x.len[n + k] = END_TAG
        /\ \A b \in DOMAIN s.len : b # n => x.len[b] = s.len[b]
    <3>1. s.len \in [DOMAIN s.len -> Int] /\ n \in DOMAIN s.len /\ n + k \notin DOMAIN s.len
      <4>1. \A b \in DOMAIN s.len : s.len[b] \in Int /\ b \in Nat  BY <1>2, BlocksAre
      <4>2. s.len \in [DOMAIN s.len -> (FRL_SIZE..Top) \cup {END_TAG}]
        BY <1>2 DEF Tiling, LenOK
      <4>3. n \in DOMAIN s.len  BY <1>1, <1>2, HeapsAre
      <4>4. n + k \notin DOMAIN s.len
        <5> SUFFICES ASSUME n + k \in DOMAIN s.len PROVE FALSE  OBVIOUS
        <5> DEFINE z == n + k
        <5>1. z \in DOMAIN s.len /\ z \in Nat  BY <1>1, <1>2
        <5> HIDE DEF z
        <5>2. PICK g \in Heaps(s) : z <= Ends(s)[g]
          BY <1>2, <5>1 DEF Tiling, TilesOf, Homes
        <5>3. Ends(s)[g] \in Nat /\ Ends(s)[g] < s.curbrk
          BY <1>1, <1>2, HeapsAre DEF BelowBrk, Ends
        <5> QED  BY <1>1, <1>2, <5>2, <5>3 DEF z
      <4> QED  BY <4>1, <4>2, <4>3, <4>4
    <3>2. x.len = With(ext, n, k) /\ n + k # n  BY <1>1, <1>2, <1>6, <1>8
    <3> DEFINE z == n + k
    <3> HIDE DEF n, z
    <3>3. DOMAIN ext = DOMAIN s.len \cup {z} /\ ext[z] = END_TAG /\ \A b \in DOMAIN s.len : ext[b] = s.len[b]
      BY <3>1 DEF ext, z, With
    <3>4. x.len = [b \in DOMAIN s.len \cup {z} |-> IF b = n THEN k ELSE IF b = z THEN END_TAG ELSE s.len[b]]
      BY <3>1, <3>2, <3>3 DEF With
    <3>5. END_TAG \in Int /\ k \in Int  BY <1>1
    <3>6. x.len \in [DOMAIN s.len \cup {z} -> Int]  BY <3>1, <3>4, <3>5
    <3> QED  BY <3>1, <3>2, <3>4, <3>6 DEF z
  <2>4. \A g \in Heaps(s) : g # h => x.mh[g] = s.mh[g]  BY <1>6, <1>8 DEF Only, Heaps
  <2>5. n + k <= Top  BY <1>1
  <2> HIDE DEF m, n
  <2> QED  BY <1>1, <1>7, <1>8, <2>1, <2>2, <2>3, <2>4, <2>5 DEF Longer, m, n
<1>11. /\ Sound(x) /\ Heaps(x) = Heaps(s) /\ End(x, h) = n + k
       /\ \A g \in Heaps(s) : g # h => End(x, g) = End(s, g)
       /\ Inside(x, h, n) /\ n \notin s.used
       /\ \A b \in s.used : x.len[b] = s.len[b]
  <2> QED  BY ONLY <1>10, LongerIs
<1>12. Released(x, t, h, n)
  <2>1. Sound(x) /\ h \in Heaps(x) /\ n \in x.used /\ Inside(x, h, n)
    BY <1>1, <1>8, <1>11
  <2> HIDE DEF n
  <2> QED  BY ONLY <1>9, <2>1, NewBlockFreed
<1> HIDE DEF t
<1>13. x.curbrk = c /\ x.MiniHeapRover = s.MiniHeapRover /\ x.LargestSizeB4 = s.LargestSizeB4
  BY <1>6, <1>8 DEF Only
<1>14. Sound(t) /\ t.used = s.used /\ t.curbrk = c /\ Heaps(t) = Heaps(s) /\ Ends(t) = Ends(x)
  BY <1>8, <1>11, <1>12, <1>13 DEF Released, Heaps
<1>15. \A b \in s.used : t.len[b] = s.len[b]  BY <1>11, <1>12, <1>14 DEF Released
<1>16. Skipped(s) => Skipped(t)
  <2> SUFFICES ASSUME Skipped(s)
               PROVE  \A g \in Heaps(x) : g # h /\ g < x.MiniHeapRover => x.mh[g].largest_blk <= x.LargestSizeB4
    BY <1>12 DEF Released
  <2>1. \A g \in Heaps(s) : g # h => x.mh[g] = s.mh[g]  BY <1>6, <1>8 DEF Only, Heaps
  <2> QED  BY <1>11, <1>13, <2>1 DEF Skipped
<1>17. \A g \in Heaps(t) : WasThere(s, t, g)
  <2> SUFFICES ASSUME NEW g \in Heaps(s) PROVE WasThere(s, t, g)  BY <1>14
  <2>1. End(t, g) = End(x, g)  BY <1>11, <1>14 DEF Ends
  <2>2. c = n + k + 1 /\ n + k \in Nat  BY <1>1, <1>2 DEF c
  <2> HIDE DEF n
  <2> QED  BY <1>1, <1>11, <1>14, <2>1, <2>2 DEF WasThere, n
<1>18. s.curbrk <= t.curbrk  BY <1>1, <1>14 DEF c
<1> QED  BY <1>5, <1>14, <1>15, <1>16, <1>17, <1>18 DEF Gained, KeptBlocks

LEMMA ListedIs ==
    ASSUME NEW s, NEW y, s.list \in Seq(Nat)
    PROVE  y \in Heaps(s) <=> Contains(s.list, y)
BY DEF Heaps, Contains, ToSet

LEMMA RingOfOne ==
    ASSUME NEW h \in Nat
    PROVE  /\ <<h>> \in Seq(Nat) /\ Rising(<<h>>) /\ Len(<<h>>) = 1 /\ <<h>>[1] = h
           /\ \A y : Contains(<<h>>, y) <=> y = h
BY DEF Rising, Contains

LEMMA FreshIs ==
    ASSUME NEW s, NEW x, NEW h, NEW n, NEW lg, Fresh(s, x, h, n, lg)
    PROVE  /\ Sound(x) /\ Heaps(x) = Heaps(s) \cup {h} /\ End(x, h) = n /\ h \notin Heaps(s)
           /\ \A g \in Heaps(s) : End(x, g) = End(s, g)
           /\ Inside(x, h, h + DESCRIPTOR) /\ h + DESCRIPTOR \notin s.used
           /\ \A c \in s.used : x.len[c] = s.len[c]
<1> DEFINE b == h + DESCRIPTOR
           U == s.used
           H == Heaps(s)
           e == Ends(s)
           f == Ends(x)
<1> USE SizesAre
<1>1. /\ Sound(s) /\ h \in Addr /\ h \in Nat /\ n \in Nat /\ n <= Top /\ b \in Nat /\ b = h + 11 /\ 4 <= n - b
      /\ \A g \in H : End(s, g) < h \/ n < g
      /\ Typed(x) /\ RoversOk(x) /\ \A y : Contains(x.list, y) <=> Contains(s.list, y) \/ y = h
      /\ x.used = U \cup {b} /\ x.len \in [DOMAIN s.len \cup {b, n} -> Int]
      /\ x.len[b] = n - b /\ x.len[n] = END_TAG /\ \A c \in DOMAIN s.len : x.len[c] = s.len[c]
      /\ \A g \in H : x.mh[g] = s.mh[g]
      /\ lg \in {0, Largest} /\ Desc(x.mh[h], n - h, <<h>>, h, 0, lg, 1, 0)
  BY DEF Fresh, Addr
<1>2. /\ Typed(s) /\ Tiling(s.len, H, e) /\ AloneOf(s.len, U)
  BY <1>1 DEF Sound, TilesAll
<1>3. Heaps(x) = H \cup {h}
  <2>1. s.list \in Seq(Nat) /\ x.list \in Seq(Nat)  BY <1>1, <1>2 DEF Typed
  <2>2. \A y : y \in Heaps(x) <=> y \in H \/ y = h  BY <1>1, <2>1, ListedIs, SMTT(30)
  <2> HIDE DEF H
  <2> QED  BY <2>2
<1>4. \A g \in H : g \in Nat /\ e[g] = End(s, g) /\ e[g] \in Nat /\ g < e[g] /\ (e[g] < h \/ n < g) /\ g # h
  <2> SUFFICES ASSUME NEW g \in H
               PROVE  g \in Nat /\ e[g] = End(s, g) /\ e[g] \in Nat /\ g < e[g] /\ (e[g] < h \/ n < g) /\ g # h
    OBVIOUS
  <2>1. g \in Nat /\ e[g] \in Nat /\ g + 11 < e[g]  BY <1>2, HeapsAre
  <2>2. e[g] = End(s, g)  BY DEF Ends
  <2> HIDE DEF e
  <2> QED  BY <1>1, <2>1, <2>2
<1>5. End(x, h) = n /\ \A g \in H : End(x, g) = End(s, g)
  <2>1. x.mh[h].len = n - h  BY <1>1 DEF Desc
  <2>2. End(x, h) = n  BY <1>1, <2>1 DEF End
  <2> QED  BY <1>1, <2>2 DEF End
<1>6. f \in [H \cup {h} -> Nat] /\ f[h] = n /\ \A g \in H : f[g] = e[g]
  <2>1. f = [g \in H \cup {h} |-> End(x, g)]  BY <1>3 DEF Ends
  <2> HIDE DEF f, H, e
  <2> QED  BY <1>1, <1>4, <1>5, <2>1
<1>7. LenOK(x.len) /\ TilesOf(x.len, H \cup {h}, f) /\ b \notin DOMAIN s.len /\ n \notin DOMAIN s.len /\ h \notin H
  <2>1. LenOK(s.len) /\ H \in SUBSET Addr /\ e \in [H -> Nat] /\ TilesOf(s.len, H, e)
    BY <1>2 DEF Tiling
  <2>2. FRL_SIZE <= n - b /\ \A g \in H : e[g] < h \/ n < g  BY <1>1, <1>4
  <2>3. b = h + DESCRIPTOR  OBVIOUS
  <2> HIDE DEF H, e, f, b
  <2>4. Adds(s.len, x.len, H, e, h, n, b, f)  BY <1>1, <1>6, <2>1, <2>2, <2>3 DEF Adds
  <2> QED  BY ONLY <2>4, NewTiles
<1>8. Tiling(x.len, Heaps(x), Ends(x)) /\ TilesAll(x)
  <2>1. H \subseteq Addr  BY <1>2 DEF Tiling
  <2> QED  BY <1>1, <1>3, <1>6, <1>7, <2>1 DEF Tiling, TilesAll
<1>9. \A c : c \in Blocks(x.len) <=> c \in Blocks(s.len) \/ c = b
  <2>1. DOMAIN x.len = DOMAIN s.len \cup {b, n} /\ n - b # -1 /\ b # n  BY <1>1
  <2> HIDE DEF b
  <2> QED  BY <1>1, <1>7, <2>1 DEF Blocks
<1>10. AloneOf(x.len, x.used)
  <2>1. x.used \subseteq Blocks(x.len)  BY <1>1, <1>2, <1>9 DEF AloneOf
  <2>2. ASSUME NEW c \in Blocks(x.len), c \notin x.used
        PROVE  c + x.len[c] \in x.used \/ c + x.len[c] \notin Blocks(x.len)
    <3>1. c \in Blocks(s.len) /\ c \notin U  BY <1>1, <1>9, <2>2
    <3>2. c + s.len[c] \in U \/ c + s.len[c] \notin Blocks(s.len)
      BY <1>2, <3>1 DEF AloneOf
    <3>3. x.len[c] = s.len[c] /\ c + s.len[c] \in DOMAIN s.len
      BY <1>1, <1>2, <3>1, BlocksAre
    <3>4. c + s.len[c] # b  BY <1>7, <3>3
    <3> HIDE DEF b
    <3> QED  BY <1>1, <1>9, <3>2, <3>3, <3>4
  <2> QED  BY <2>1, <2>2 DEF AloneOf
<1>11. \A c \in DOMAIN s.len : c \in Nat /\ ~(h < c /\ c < n) /\ c # b
  <2> SUFFICES ASSUME NEW c \in DOMAIN s.len PROVE c \in Nat /\ ~(h < c /\ c < n) /\ c # b
    OBVIOUS
  <2>1. c \in Nat  BY <1>2, BlocksAre
  <2>2. PICK g \in H : g + DESCRIPTOR <= c /\ c <= e[g]
    BY <1>2 DEF Tiling, TilesOf, Homes
  <2>3. g \in Nat /\ e[g] \in Nat /\ (e[g] < h \/ n < g)  BY <1>4
  <2>4. c # b  BY <1>7
  <2> HIDE DEF e
  <2> QED  BY <1>1, <2>1, <2>2, <2>3, <2>4
<1>12. b \notin U /\ U \subseteq DOMAIN s.len  BY <1>2, <1>7 DEF AloneOf, Blocks
<1>13. Ring(x, h)
  <2>1. \A y : y \in DOMAIN x.len \ x.used => ~(h < y /\ y < n)
    <3> SUFFICES ASSUME NEW y \in DOMAIN x.len \ x.used PROVE ~(h < y /\ y < n)  OBVIOUS
    <3>1. y \in DOMAIN s.len \/ y = n  BY <1>1
    <3> QED  BY <1>1, <1>11, <3>1
  <2>2. \A y : Contains(<<h>>, y) <=> y = h \/ (h < y /\ y < n /\ y \in DOMAIN x.len \ x.used)
    BY <1>1, <2>1, RingOfOne
  <2>3. RingOf(<<h>>, h, n, DOMAIN x.len, x.used)  BY <1>1, <2>2, RingOfOne DEF RingOf
  <2> QED  BY <1>1, <1>5, <2>3 DEF Ring, Desc
<1>14. Inside(x, h, b)  BY <1>1, <1>5 DEF Inside
<1>15. Counted(x, h)
  <2> DEFINE C == {c \in x.used : Inside(x, h, c)}
  <2>1. \A c \in x.used : Inside(x, h, c) <=> c = b
    <3> SUFFICES ASSUME NEW c \in x.used PROVE Inside(x, h, c) <=> c = b  OBVIOUS
    <3>1. c \in U \/ c = b  BY <1>1
    <3>2. c \in U => ~(h < c /\ c < n)  BY <1>11, <1>12
    <3> QED  BY <1>5, <1>11, <1>12, <1>14, <3>1, <3>2 DEF Inside
  <2>2. C = {b}
    <3>1. b \in x.used  BY <1>1
    <3> HIDE DEF b
    <3> QED  BY <2>1, <3>1
  <2> HIDE DEF C
  <2>3. Cardinality(C) = 1  BY ONLY <2>2, FS_Singleton
  <2>4. x.mh[h].free = <<h>> /\ x.mh[h].numfree = 0 /\ x.mh[h].numalloc = 1
    BY <1>1 DEF Desc
  <2>5. Len(<<h>>) - 1 = 0  OBVIOUS
  <2> QED  BY <2>3, <2>4, <2>5 DEF Counted, C
<1>16. Bounded(x, h)
  <2>1. Contains(<<h>>, h) /\ \A y : Contains(<<h>>, y) => y = h  BY <1>1, RingOfOne
  <2>2. lg \in (0..Top) \cup {Largest} /\ 0 \in 0..Top  BY <1>1
  <2> QED  BY <1>1, <2>1, <2>2 DEF Bounded, Desc
<1>17. ASSUME NEW g \in H PROVE SameIn(s, x, g)
  <2>1. x.mh[g] = s.mh[g] /\ g \in Nat /\ End(s, g) \in Nat /\ (End(s, g) < h \/ n < g)
    BY <1>1, <1>4
  <2>2. \A c : Inside(s, g, c) => c # n /\ c # b  BY <1>1, <2>1 DEF Inside
  <2> HIDE DEF b
  <2> QED  BY <1>1, <2>1, <2>2 DEF SameIn
<1>18. Sound(x)
  <2>1. \A g \in Heaps(x) : \/ g \in Heaps(s) /\ SameIn(s, x, g)
                            \/ Ring(x, g) /\ Counted(x, g) /\ Bounded(x, g)
    BY <1>3, <1>13, <1>15, <1>16, <1>17
  <2>2. Sound(s) /\ Typed(x) /\ TilesAll(x) /\ AloneOf(x.len, x.used) /\ RoversOk(x)
    BY <1>1, <1>8, <1>10
  <2> QED  BY ONLY <2>1, <2>2, SoundFrom
<1>19. \A c \in U : x.len[c] = s.len[c]  BY <1>1, <1>12
<1> QED  BY <1>3, <1>5, <1>7, <1>12, <1>14, <1>18, <1>19

\* Where a miniheap goes in the list.
LEMMA PlaceInList ==
    ASSUME NEW q \in Seq(Nat), Rising(q), NEW h \in Nat, ~Contains(q, h)
    PROVE  LET above == SelectInSeq(q, LAMBDA x : h < x)
               at == IF above = 0 THEN Len(q) + 1 ELSE above
           IN  /\ at \in 1..(Len(q) + 1) /\ (at = 1 \/ q[at - 1] < h) /\ (at = Len(q) + 1 \/ h < q[at])
<1> DEFINE I == {i \in 1..Len(q) : h < q[i]}
           above == SelectInSeq(q, LAMBDA x : h < x)
           at == IF above = 0 THEN Len(q) + 1 ELSE above
<1>1. above = IF I # {} THEN Min(I) ELSE 0  BY DEF SelectInSeq
<1>2. \A i \in 1..Len(q) : q[i] # h /\ q[i] \in Nat  BY DEF Contains
<1>3. CASE I = {}
  <2>1. at = Len(q) + 1  BY <1>1, <1>3
  <2>2. \A i \in 1..Len(q) : q[i] < h  BY <1>2, <1>3
  <2> HIDE DEF at
  <2>3. at \in 1..(Len(q) + 1) /\ (at = 1 \/ q[at - 1] < h)  BY <2>1, <2>2
  <2> QED  BY <2>1, <2>3 DEF at
<1>4. CASE I # {}
  <2>1. I \in SUBSET Nat  OBVIOUS
  <2> HIDE DEF I
  <2>2. Min(I) \in I /\ \A i \in I : Min(I) <= i  BY <1>4, <2>1, Least
  <2>3. above = Min(I)  BY <1>1, <1>4
  <2>4. above \in 1..Len(q) /\ h < q[above] /\ \A i \in 1..Len(q) : h < q[i] => above <= i
    BY <2>2, <2>3 DEF I
  <2> HIDE DEF above
  <2>5. at = above  BY <2>4
  <2>6. at = 1 \/ q[at - 1] < h
    <3> SUFFICES ASSUME at # 1 PROVE q[at - 1] < h  OBVIOUS
    <3>1. at - 1 \in 1..Len(q) /\ ~(at <= at - 1)  BY <2>4, <2>5
    <3>2. ~(h < q[at - 1])  BY <2>4, <2>5, <3>1
    <3> QED  BY <1>2, <3>1, <3>2
  <2> QED  BY <2>4, <2>5, <2>6 DEF above
<1> QED  BY <1>3, <1>4

LEMMA NewDescIs ==
    ASSUME NEW h \in Nat, NEW k \in Nat
    PROVE  Desc(NewDesc(h, k), k, <<h>>, h, 0, 0, 0, 0)
<1>1. <<h>> \in Seq(Nat)  BY RingOfOne
<1> QED  BY <1>1 DEF Desc, NewDesc, Descriptor

LEMMA LinkedUpIs ==
    ASSUME NEW q, Typed(q), NEW h \in Nat, h \notin Heaps(q), NEW k \in Nat
    PROVE  LinkedUp(q, LinkUpNewMHeap(q, h, k), h, k)
<1> DEFINE above == SelectInSeq(q.list, LAMBDA x : h < x)
           at == IF above = 0 THEN Len(q.list) + 1 ELSE above
           l == InsertAt(q.list, at, h)
           d == NewDesc(h, k)
           len == With(With(q.len, h + k, END_TAG), h + DESCRIPTOR, k - DESCRIPTOR)
           mh == With(q.mh, h, d)
           r == [q EXCEPT !.list = l, !.mh = mh, !.len = len]
<1>1. q.list \in Seq(Nat) /\ Rising(q.list) /\ ~Contains(q.list, h)
  BY ListedIs DEF Typed
<1>2. at \in 1..(Len(q.list) + 1) /\ (at = 1 \/ q.list[at - 1] < h) /\ (at = Len(q.list) + 1 \/ h < q.list[at])
  BY <1>1, PlaceInList
<1>3. LinkUpNewMHeap(q, h, k) = r  BY DEF LinkUpNewMHeap, NewDesc
<1> HIDE DEF at
<1>4. l \in Seq(Nat) /\ Rising(l) /\ \A y : Contains(l, y) <=> Contains(q.list, y) \/ y = h
  BY <1>1, <1>2, Inserted
<1>5. Desc(d, k, <<h>>, h, 0, 0, 0, 0) /\ d \in Descriptor  BY NewDescIs DEF Desc
<1> HIDE DEF l, d, len
<1>6. q.mh \in [Heaps(q) -> Descriptor]  BY DEF Typed
<1>7. mh \in [Heaps(q) \cup {h} -> Descriptor] /\ mh[h] = d /\ \A g \in Heaps(q) : mh[g] = q.mh[g]
  BY <1>5, <1>6 DEF With
<1> HIDE DEF mh
<1>8. /\ r.list = l /\ r.mh = mh /\ r.len = len /\ r.used = q.used
      /\ r.MiniHeapRover = q.MiniHeapRover /\ r.LargestSizeB4 = q.LargestSizeB4
      /\ r.MiniHeapFreeRover = q.MiniHeapFreeRover /\ r.curbrk = q.curbrk /\ r.wild = q.wild
      /\ DOMAIN r = DOMAIN q
  BY DEF Typed
<1> HIDE DEF r
<1>9. Heaps(r) = Heaps(q) \cup {h}
  <2>1. \A y : y \in Heaps(r) <=> y \in Heaps(q) \/ y = h  BY <1>1, <1>4, <1>8, ListedIs
  <2> QED  BY <2>1
<1>10. Typed(r)  BY <1>4, <1>7, <1>8, <1>9 DEF Typed
<1> QED  BY <1>3, <1>4, <1>5, <1>7, <1>8, <1>10 DEF LinkedUp, len

LEMMA OpenedIs ==
    ASSUME NEW s, NEW q, NEW h, NEW k, NEW lg, MayOpen(s, q, h, k, lg)
    PROVE  IsOpened(s, q, Opened(q, h, k, lg), h, k)
<1> DEFINE n == h + k - 1
           a == k - 1
           b == h + DESCRIPTOR
           r == LinkUpNewMHeap(q, h, k - TAG_SIZE)
           size == r.len[b]
           d == [r.mh[h] EXCEPT !.numalloc = @ + 1, !.largest_blk = lg]
           new == With(r.len, b, size)
           x == Changed(r, h, new, r.used \cup {b}, d)
           t == FreeNewBlock(r, h, b, size, lg)
<1> USE SizesAre
<1>1. /\ Sound(s) /\ SameBut(s, q) /\ h \in Addr /\ h \in Nat /\ k \in Nat /\ a \in Nat /\ n \in Nat
      /\ n <= Top /\ 16 <= k /\ b \in Nat /\ b = h + 11 /\ n = h + a /\ lg \in {0, Largest} /\ lg \in Nat
      /\ \A g \in Heaps(s) : End(s, g) < h \/ n < g
  BY DEF MayOpen, Addr
<1>2. /\ Typed(s) /\ Typed(q) /\ Tiling(s.len, Heaps(s), Ends(s)) /\ RoversOk(s) /\ Heaps(q) = Heaps(s)
  BY <1>1 DEF Sound, SameBut, TilesAll, Heaps
<1>3. h \notin Heaps(s)
  <2> SUFFICES ASSUME h \in Heaps(s) PROVE FALSE  OBVIOUS
  <2>1. h + DESCRIPTOR < Ends(s)[h] /\ Ends(s)[h] \in Nat  BY <1>2, HeapsAre
  <2>2. Ends(s)[h] = End(s, h)  BY DEF Ends
  <2> QED  BY <1>1, <2>1, <2>2
<1>4. LinkedUp(q, r, h, a)
  <2>1. Typed(q) /\ h \in Nat /\ h \notin Heaps(q) /\ a \in Nat /\ k - TAG_SIZE = a
    BY <1>1, <1>2, <1>3
  <2> HIDE DEF a
  <2> QED  BY <2>1, LinkedUpIs
<1> HIDE DEF r
<1>5. /\ Typed(r) /\ \A y : Contains(r.list, y) <=> Contains(q.list, y) \/ y = h
      /\ r.used = s.used /\ r.len = With(With(s.len, n, END_TAG), b, a - 11)
      /\ \A g \in Heaps(s) : r.mh[g] = s.mh[g]
      /\ Desc(r.mh[h], a, <<h>>, h, 0, 0, 0, 0)
      /\ r.MiniHeapRover = s.MiniHeapRover /\ r.LargestSizeB4 = s.LargestSizeB4
      /\ r.MiniHeapFreeRover = s.MiniHeapFreeRover /\ r.curbrk = q.curbrk /\ r.wild = s.wild
  <2>1. n = h + a  BY <1>1
  <2> HIDE DEF n, a, b
  <2> QED  BY <1>1, <1>2, <1>4, <2>1 DEF LinkedUp, SameBut, b
<1>6. Heaps(r) = Heaps(s) \cup {h}
  <2>1. s.list \in Seq(Nat) /\ r.list \in Seq(Nat) /\ q.list = s.list
    BY <1>1, <1>2, <1>5 DEF Typed, SameBut
  <2>2. \A y : y \in Heaps(r) <=> y \in Heaps(s) \/ y = h  BY <1>5, <2>1, ListedIs
  <2> QED  BY <2>2
<1>7. d \in Descriptor /\ Desc(d, n - h, <<h>>, h, 0, lg, 1, 0)
  <2>1. AllocatedDesc(r.mh[h], d, lg)  BY <1>1, <1>5 DEF AllocatedDesc, Desc
  <2> DEFINE v == r.mh[h]
  <2>2. Desc(d, v.len, v.free, v.rover, v.b4rover, lg, v.numalloc + 1, v.numfree)
    BY ONLY <2>1, AllocatedDescIs
  <2>3. n - h = a /\ Desc(v, a, <<h>>, h, 0, 0, 0, 0)  BY <1>1, <1>5
  <2> HIDE DEF d, v, n, a
  <2> QED  BY <2>2, <2>3 DEF Desc
<1> HIDE DEF d
<1>8. Only(r, x, h) /\ x.len = new /\ x.used = s.used \cup {b} /\ x.mh[h] = d
  <2>1. Typed(r) /\ h \in Heaps(r) /\ d \in Descriptor  BY <1>5, <1>6, <1>7
  <2>2. d.len = r.mh[h].len  BY <1>1, <1>5, <1>7 DEF Desc
  <2> DEFINE U == r.used \cup {b}
  <2>3. U = s.used \cup {b}  BY <1>5
  <2> HIDE DEF U, new
  <2>4. Only(r, x, h) /\ x.len = new /\ x.used = U /\ x.mh[h] = d
    BY ONLY <2>1, <2>2, ChangedIs DEF U
  <2> QED  BY <2>3, <2>4
<1>9. x = Allocated(r, h, b, size, lg)  BY DEF Allocated, d
<1> HIDE DEF x
<1>10. /\ x.len \in [DOMAIN s.len \cup {b, n} -> Int] /\ x.len[b] = n - b /\ x.len[n] = END_TAG
       /\ \A c \in DOMAIN s.len : x.len[c] = s.len[c]
  <2>1. s.len \in [DOMAIN s.len -> Int] /\ n \notin DOMAIN s.len /\ b \notin DOMAIN s.len
    <3>1. \A c \in DOMAIN s.len : s.len[c] \in Int  BY <1>2, BlocksAre
    <3>2. s.len \in [DOMAIN s.len -> (FRL_SIZE..Top) \cup {END_TAG}]
      BY <1>2 DEF Tiling, LenOK
    <3>3. ASSUME NEW c \in DOMAIN s.len, c \in Nat, h <= c, c <= n PROVE FALSE
      <4>1. PICK g \in Heaps(s) : g + DESCRIPTOR <= c /\ c <= Ends(s)[g]
        BY <1>2 DEF Tiling, TilesOf, Homes
      <4>2. g \in Nat /\ Ends(s)[g] \in Nat /\ Ends(s)[g] = End(s, g)
        BY <1>2, HeapsAre DEF Ends
      <4> HIDE DEF n
      <4>3. Ends(s)[g] < h \/ n < g  BY <1>1, <4>2
      <4> QED  BY <1>1, <3>3, <4>1, <4>2, <4>3
    <3>4. h <= n /\ h <= b /\ b <= n  BY <1>1
    <3> HIDE DEF n, b
    <3> QED  BY <1>1, <3>1, <3>2, <3>3, <3>4
  <2>2. n # b /\ a - 11 = n - b  BY <1>1
  <2> HIDE DEF n, a, b
  <2>3. r.len[b] = n - b  BY <1>5, <2>2 DEF With
  <2>4. x.len = [c \in DOMAIN s.len \cup {b, n} |-> IF c = b THEN n - b ELSE IF c = n THEN END_TAG ELSE s.len[c]]
    BY <1>5, <1>8, <2>1, <2>2, <2>3 DEF With
  <2>5. n - b \in Int /\ END_TAG \in Int  BY <1>1
  <2>6. x.len \in [DOMAIN s.len \cup {b, n} -> Int]  BY <2>1, <2>4, <2>5
  <2> QED  BY <2>1, <2>2, <2>4, <2>6
<1>11. Fresh(s, x, h, n, lg)
  <2>1. /\ Typed(x) /\ x.list = r.list /\ x.MiniHeapRover = s.MiniHeapRover
        /\ x.MiniHeapFreeRover = s.MiniHeapFreeRover /\ x.wild = s.wild
    BY <1>5, <1>8 DEF Only
  <2>2. q.list = s.list  BY <1>1 DEF SameBut
  <2>3. \A y : Contains(x.list, y) <=> Contains(s.list, y) \/ y = h  BY <1>5, <2>1, <2>2
  <2>4. RoversOk(x)  BY <1>2, <2>1, <2>3 DEF RoversOk, Live
  <2>5. \A g \in Heaps(s) : x.mh[g] = s.mh[g]  BY <1>3, <1>5, <1>6, <1>8 DEF Only
  <2>6. FRL_SIZE <= n - b  BY <1>1
  <2> HIDE DEF n
  <2> QED  BY <1>1, <1>7, <1>8, <1>10, <2>1, <2>3, <2>4, <2>5, <2>6 DEF Fresh
<1>12. /\ Sound(x) /\ Heaps(x) = Heaps(s) \cup {h} /\ End(x, h) = n /\ h \notin Heaps(s)
       /\ \A g \in Heaps(s) : End(x, g) = End(s, g)
       /\ Inside(x, h, b) /\ b \notin s.used
       /\ \A c \in s.used : x.len[c] = s.len[c]
  BY ONLY <1>11, FreshIs
<1>13. Released(x, t, h, b)
  <2>1. Sound(x) /\ h \in Heaps(x) /\ b \in x.used /\ Inside(x, h, b)  BY <1>8, <1>12
  <2> HIDE DEF b, size
  <2> QED  BY ONLY <1>9, <2>1, NewBlockFreed
<1>14. Opened(q, h, k, lg) = t  BY DEF Opened, r
<1> HIDE DEF t
<1>15. x.curbrk = q.curbrk /\ x.MiniHeapRover = s.MiniHeapRover /\ x.LargestSizeB4 = s.LargestSizeB4
  BY <1>5, <1>8 DEF Only
<1>16. Sound(t) /\ t.used = s.used /\ t.curbrk = q.curbrk /\ Heaps(t) = Heaps(s) \cup {h} /\ Ends(t) = Ends(x)
  BY <1>8, <1>12, <1>13, <1>15 DEF Released, Heaps
<1>17. \A c \in s.used : t.len[c] = s.len[c]  BY <1>12, <1>13, <1>16 DEF Released
<1>18. Skipped(s) => Skipped(t)
  <2> SUFFICES ASSUME Skipped(s)
               PROVE  \A g \in Heaps(x) : g # h /\ g < x.MiniHeapRover => x.mh[g].largest_blk <= x.LargestSizeB4
    BY <1>13 DEF Released
  <2>1. \A g \in Heaps(s) : x.mh[g] = s.mh[g]  BY <1>3, <1>5, <1>6, <1>8 DEF Only
  <2> QED  BY <1>12, <1>15, <2>1 DEF Skipped
<1>19. \A g \in Heaps(t) : End(t, g) = End(x, g)  BY <1>12, <1>16 DEF Ends
<1>20. n = h + k - TAG_SIZE  OBVIOUS
<1> HIDE DEF n
<1> QED  BY <1>12, <1>14, <1>16, <1>17, <1>18, <1>19, <1>20 DEF IsOpened, KeptBlocks

LEMMA EndIs ==
    ASSUME NEW s, Typed(s), TilesAll(s), NEW h \in Heaps(s)
    PROVE  /\ h \in Nat /\ h >= 1 /\ Ends(s)[h] = End(s, h) /\ End(s, h) \in Nat /\ h + DESCRIPTOR < End(s, h)
           /\ End(s, h) = h + s.mh[h].len /\ s.mh[h].len \in Nat
           /\ \A g \in Heaps(s) : g = h \/ End(s, g) < h \/ End(s, h) < g
           /\ \A g \in Heaps(s) : End(s, g) = End(s, h) => g = h
           /\ End(s, h) \in DOMAIN s.len /\ End(s, h) \notin Blocks(s.len)
<1> USE SizesAre
<1>1. Tiling(s.len, Heaps(s), Ends(s)) /\ \A g \in Heaps(s) : Ends(s)[g] = End(s, g)
  BY DEF TilesAll, Ends
<1>2. \A g \in Heaps(s) : /\ g \in Nat /\ 1 <= g /\ Ends(s)[g] \in Nat /\ g + DESCRIPTOR < Ends(s)[g]
  BY <1>1, HeapsAre
<1>3. /\ \A g \in Heaps(s) : g = h \/ Ends(s)[g] < h \/ Ends(s)[h] < g
      /\ Ends(s)[h] \in DOMAIN s.len /\ Ends(s)[h] \notin Blocks(s.len)
  BY <1>1, HeapsAre
<1>4. s.mh[h].len \in Nat  BY DEF Typed, Descriptor
<1>5. End(s, h) = h + s.mh[h].len  BY DEF End
<1>6. \A g \in Heaps(s) : g \in Nat /\ End(s, g) \in Nat /\ g + 11 < End(s, g)
  BY <1>1, <1>2
<1>7. \A g \in Heaps(s) : g = h \/ End(s, g) < h \/ End(s, h) < g  BY <1>1, <1>3
<1>8. \A g \in Heaps(s) : End(s, g) = End(s, h) => g = h  BY <1>6, <1>7
<1> QED  BY <1>1, <1>2, <1>3, <1>4, <1>5, <1>6, <1>7, <1>8

LEMMA SliceIn ==
    ASSUME NEW s, Sound(s), BelowBrk(s), NEW h \in Heaps(s), End(s, h) + TAG_SIZE = s.curbrk, NEW k
    PROVE  Slice(s, k) = Lengthened(s, h, k)
<1> DEFINE brk == s.curbrk
           reach == {g \in ToSet(s.list) : g <= brk /\ g + s.mh[g].len + TAG_SIZE >= brk}
           p1 == IF reach = {} THEN Last(s.list) ELSE Min(reach)
<1> USE SizesAre
<1>1. Typed(s) /\ TilesAll(s) /\ brk \in Nat  BY DEF Sound, Typed
<1>2. \A g \in Heaps(s) : /\ g \in Nat /\ End(s, g) = g + s.mh[g].len /\ s.mh[g].len \in Nat /\ g < End(s, g)
                          /\ (End(s, g) = End(s, h) => g = h) /\ End(s, g) < brk
  <2> SUFFICES ASSUME NEW g \in Heaps(s)
               PROVE  /\ g \in Nat /\ End(s, g) = g + s.mh[g].len /\ s.mh[g].len \in Nat /\ g < End(s, g)
                      /\ (End(s, g) = End(s, h) => g = h) /\ End(s, g) < brk
    OBVIOUS
  <2>1. g \in Nat /\ End(s, g) = g + s.mh[g].len /\ s.mh[g].len \in Nat /\ g + 11 < End(s, g) /\ End(s, g) \in Nat
    BY <1>1, EndIs
  <2>2. End(s, g) = End(s, h) => g = h  BY <1>1, EndIs
  <2> QED  BY <2>1, <2>2 DEF BelowBrk
<1>3. reach = {h}
  <2>1. ASSUME NEW g \in reach PROVE g = h
    <3>1. g \in Heaps(s)  BY DEF Heaps
    <3>2. g + s.mh[g].len + 1 >= brk  BY <2>1
    <3> QED  BY <1>1, <1>2, <3>1, <3>2
  <2>2. h \in reach  BY <1>1, <1>2 DEF Heaps
  <2> QED  BY <2>1, <2>2
<1> HIDE DEF reach
<1>4. p1 = h
  <2>1. {h} \in SUBSET Nat /\ {h} # {}  BY <1>2
  <2>2. Min({h}) \in {h}  BY <2>1, Least
  <2> QED  BY <1>3, <2>2
<1>5. s.list # << >> /\ h + s.mh[h].len = brk - TAG_SIZE
  <2>1. s.list # << >>  BY DEF Heaps, ToSet
  <2> QED  BY <1>1, <1>2, <2>1
<1>6. (s.list # << >> /\ p1 + s.mh[p1].len = brk - TAG_SIZE)  BY <1>4, <1>5
<1>7. Slice(s, k) = FreeNewBlock(Changed([s EXCEPT !.curbrk = brk + k], p1, With(s.len, brk - TAG_SIZE + k, END_TAG),
                                  s.used, [s.mh[p1] EXCEPT !.len = @ + k]),
                          p1, brk - TAG_SIZE, k, Largest)
  BY <1>6 DEF Slice, reach
<1> HIDE DEF p1
<1> QED  BY <1>4, <1>7 DEF Lengthened

LEMMA SliceOut ==
    ASSUME NEW s, Sound(s), \A h \in Heaps(s) : End(s, h) + TAG_SIZE # s.curbrk, NEW k
    PROVE  Slice(s, k) = Opened([s EXCEPT !.curbrk = s.curbrk + k], s.curbrk, k, Largest)
<1> DEFINE brk == s.curbrk
           reach == {g \in ToSet(s.list) : g <= brk /\ g + s.mh[g].len + TAG_SIZE >= brk}
           p1 == IF reach = {} THEN Last(s.list) ELSE Min(reach)
<1> USE SizesAre
<1>1. Typed(s) /\ TilesAll(s) /\ brk \in Nat  BY DEF Sound, Typed
<1>2. s.list # << >> => p1 \in Heaps(s)
  <2> SUFFICES ASSUME s.list # << >> PROVE p1 \in Heaps(s)  OBVIOUS
  <2>1. s.list \in Seq(Nat)  BY <1>1 DEF Typed
  <2>2. Last(s.list) \in Heaps(s)  BY <2>1 DEF Heaps, ToSet, Last
  <2>3. reach \subseteq Heaps(s) /\ Heaps(s) \subseteq Nat  BY <1>1, EndIs DEF Heaps
  <2> HIDE DEF reach
  <2>4. reach # {} => Min(reach) \in reach  BY <2>3, Least
  <2> QED  BY <2>2, <2>3, <2>4
<1> HIDE DEF p1
<1>3. ~(s.list # << >> /\ p1 + s.mh[p1].len = brk - TAG_SIZE)
  <2> SUFFICES ASSUME s.list # << >>, p1 + s.mh[p1].len = brk - TAG_SIZE PROVE FALSE
    OBVIOUS
  <2>1. End(s, p1) = brk - TAG_SIZE  BY DEF End
  <2>2. End(s, p1) + TAG_SIZE # brk  BY <1>2
  <2> QED  BY <1>1, <2>1, <2>2
<1> DEFINE C == s.list # << >> /\ p1 + s.mh[p1].len = brk - TAG_SIZE
           A == FreeNewBlock(Changed([s EXCEPT !.curbrk = brk + k], p1, With(s.len, brk - TAG_SIZE + k, END_TAG),
                                     s.used, [s.mh[p1] EXCEPT !.len = @ + k]),
                             p1, brk - TAG_SIZE, k, Largest)
           B == LET linked == LinkUpNewMHeap([s EXCEPT !.curbrk = brk + k], brk, k - TAG_SIZE)
                IN  FreeNewBlock(linked, brk, brk + DESCRIPTOR, linked.len[brk + DESCRIPTOR], Largest)
<1>4. Slice(s, k) = IF C THEN A ELSE B  BY ONLY TRUE DEF Slice, p1
<1>5. ~C  BY <1>3
<1> HIDE DEF C, A, B
<1>6. Slice(s, k) = B  BY ONLY <1>4, <1>5
<1> QED  BY <1>6 DEF Opened, B

\* The last free block of a miniheap.
LEMMA LastFreeLenIs ==
    ASSUME NEW s, NEW h, HeapOk(s, h)
    PROVE  LET b == Last(s.mh[h].free)
               n == LastFreeLen(s, h)
           IN  /\ b \in Nat /\ n \in Nat /\ Contains(s.mh[h].free, b)
               /\ b = h => n = 0
               /\ b # h => n = s.len[b] /\ FRL_SIZE <= n /\ b + n <= End(s, h) /\ h < b
                           /\ b \in Blocks(s.len) /\ b \notin s.used
               /\ \A y : Contains(s.mh[h].free, y) => y \in Nat /\ y <= b
<1> DEFINE free == s.mh[h].free
           b == Last(free)
<1> USE SizesAre
<1>1. RingOf(free, h, End(s, h), DOMAIN s.len, s.used)  BY HeapOkIs
<1>2. free \in Seq(Nat) /\ Rising(free) /\ Len(free) > 0  BY <1>1 DEF RingOf
<1>3. Contains(free, b) /\ b \in Nat /\ \A y : Contains(free, y) => y \in Nat /\ y <= b
  <2> HIDE DEF free
  <2> QED  BY <1>2, FirstAndLast
<1>4. LastFreeLen(s, h) = IF b = h THEN 0 ELSE s.len[b]  BY DEF LastFreeLen
<1>5. ASSUME b # h
      PROVE  /\ s.len[b] \in Nat /\ FRL_SIZE <= s.len[b] /\ b + s.len[b] <= End(s, h) /\ h < b
             /\ b \in Blocks(s.len) /\ b \notin s.used
  <2>1. Contains(s.mh[h].free, b) /\ b # h  BY <1>3, <1>5
  <2> HIDE DEF b
  <2> QED  BY <2>1, RingBlock
<1> HIDE DEF b
<1> QED  BY <1>3, <1>4, <1>5 DEF b

LEMMA LastFreeIs ==
    ASSUME NEW s, Sound(s), BelowBrk(s)
    PROVE  /\ LastFree(s) \in Nat
           /\ LastFree(s) > 0 => \E h \in Heaps(s) : End(s, h) + TAG_SIZE = s.curbrk
<1> DEFINE h == nheapbeg(s)
           b == Last(s.mh[h].free)
           n == LastFreeLen(s, h)
           C == s.list # << >> /\ b + n + TAG_SIZE = s.curbrk
<1> USE SizesAre
<1>1. Typed(s) /\ TilesAll(s) /\ s.list \in Seq(Nat) /\ s.curbrk \in Nat
  BY DEF Sound, Typed
<1>2. LastFree(s) = IF C THEN n ELSE 0  BY DEF LastFree
<1>3. CASE ~C  BY <1>2, <1>3
<1>4. CASE C
  <2>1. h \in Heaps(s)  BY <1>1, <1>4 DEF nheapbeg, Heaps, ToSet
  <2>2. HeapOk(s, h)  BY <2>1, SoundIs
  <2> HIDE DEF h
  <2>3. n \in Nat /\ b \in Nat /\ (b = h => n = 0) /\ (b # h => b + n <= End(s, h))
    BY <2>2, LastFreeLenIs
  <2> HIDE DEF n, b
  <2>4. End(s, h) \in Nat /\ End(s, h) < s.curbrk  BY <1>1, <2>1, EndIs DEF BelowBrk
  <2>5. n > 0 => End(s, h) + 1 = s.curbrk  BY <1>1, <1>4, <2>3, <2>4
  <2>6. LastFree(s) = n  BY <1>2, <1>4
  <2> QED  BY <2>1, <2>3, <2>5, <2>6
<1> QED  BY <1>3, <1>4

LEMMA Rounded ==
    ASSUME NEW n \in Nat, NEW d \in Nat, d > 0
    PROVE  ((n + d - 1) \div d) * d \in Nat /\ n <= ((n + d - 1) \div d) * d
OBVIOUS

\* How much the heap grows by.
LEMMA AdjustAmountIs ==
    ASSUME NEW s, Sound(s), platform = "brk" => BelowBrk(s), NEW amount, amount \in Nat, platform \in {"NT", "brk"}
    PROVE  LET k == AdjustAmount(s, amount)
           IN  /\ k \in Nat /\ FRL_SIZE <= k
               /\ \/ DESCRIPTOR + FRL_SIZE + TAG_SIZE <= k
                  \/ platform = "brk" /\ \E h \in Heaps(s) : End(s, h) + TAG_SIZE = s.curbrk
<1> DEFINE amt == Even(amount + TAG_SIZE)
           less == IF platform = "NT" THEN 0 ELSE LastFree(s)
           over == Max({0, amt - less})
           need == over + TAG_SIZE + FRL + DESCRIPTOR
           least == Max({need, _amblksiz})
           paged == ((least + Page - 1) \div Page) * Page
           k == AdjustAmount(s, amount)
<1> USE SizesAre
<1>1. k = IF platform = "NT" THEN paged ELSE least  BY DEF AdjustAmount
<1>2. amt \in Nat /\ amt >= 2  BY DEF Even
<1>3. less \in Nat  BY LastFreeIs
<1>4. Page \in Nat /\ Page > 0 /\ _amblksiz \in Nat  BY HeapAssumption
<1> HIDE DEF amt, less
<1>5. over \in Nat /\ over >= amt - less
  <2> DEFINE z == amt - less
  <2>1. z \in Int  BY <1>2, <1>3
  <2>2. over = Max({0, z})  OBVIOUS
  <2> HIDE DEF over, z
  <2>3. over = IF 0 >= z THEN 0 ELSE z  BY <2>1, <2>2, MaxOfTwo
  <2> QED  BY <2>1, <2>3 DEF z
<1> HIDE DEF over
<1>6. least \in Nat /\ need <= least
  <2>1. need \in Nat  BY <1>5
  <2> HIDE DEF need
  <2>2. least = IF need >= _amblksiz THEN need ELSE _amblksiz  BY <1>4, <2>1, MaxOfTwo
  <2> HIDE DEF least
  <2> QED  BY <1>4, <2>1, <2>2
<1> HIDE DEF least
<1>7. paged \in Nat /\ least <= paged  BY <1>4, <1>6, Rounded
<1> HIDE DEF paged, k
<1>8. need <= k /\ k \in Nat
  <2>1. need \in Nat  BY <1>5
  <2> HIDE DEF need
  <2> QED  BY <1>1, <1>6, <1>7, <2>1
<1>9. over + 15 <= k  BY <1>5, <1>8
<1>10. CASE less = 0  BY <1>2, <1>5, <1>8, <1>9, <1>10 DEF k
<1>11. CASE less # 0
  <2>1. platform = "brk" /\ LastFree(s) > 0  BY <1>3, <1>11 DEF less
  <2>2. \E h \in Heaps(s) : End(s, h) + TAG_SIZE = s.curbrk  BY <2>1, LastFreeIs
  <2> QED  BY <1>5, <1>8, <1>9, <2>1, <2>2 DEF k
<1> QED  BY <1>10, <1>11
-------------------------------------------------------------------------------
\* Miniheaps and blocks that are given back to the system.

LEMMA RemovedIs ==
    ASSUME NEW s, NEW x, NEW h, Removed(s, x, h)
    PROVE  /\ Sound(x) /\ Heaps(x) = Heaps(s) \ {h} /\ \A g \in Heaps(x) : End(x, g) = End(s, g)
           /\ \A c \in s.used : x.len[c] = s.len[c]
<1> DEFINE n == End(s, h)
           U == s.used
           H == Heaps(s)
           e == Ends(s)
           f == Ends(x)
<1> USE SizesAre
<1>1. /\ Sound(s) /\ h \in H /\ \A a \in U : ~Inside(s, h, a)
      /\ Typed(x) /\ RoversOk(x) /\ \A y : Contains(x.list, y) <=> Contains(s.list, y) /\ y # h
      /\ x.used = U
      /\ x.len \in [{c \in DOMAIN s.len : c < h \/ n < c} -> Int]
      /\ \A c \in DOMAIN x.len : x.len[c] = s.len[c]
      /\ \A g \in H : g # h => x.mh[g] = s.mh[g]
  BY DEF Removed
<1>2. Typed(s) /\ TilesAll(s) /\ Tiling(s.len, H, e) /\ AloneOf(s.len, U)
  BY <1>1 DEF Sound, TilesAll
<1>3. Heaps(x) = H \ {h}
  <2>1. s.list \in Seq(Nat) /\ x.list \in Seq(Nat)  BY <1>1, <1>2 DEF Typed
  <2>2. \A y : y \in Heaps(x) <=> y \in H /\ y # h  BY <1>1, <2>1, ListedIs
  <2> HIDE DEF H
  <2> QED  BY <2>2
<1>4. \A g \in H : g \in Nat /\ e[g] = End(s, g) /\ e[g] \in Nat /\ g < e[g] /\ (g = h \/ e[g] < h \/ n < g)
  <2> SUFFICES ASSUME NEW g \in H
               PROVE  g \in Nat /\ e[g] = End(s, g) /\ e[g] \in Nat /\ g < e[g] /\ (g = h \/ e[g] < h \/ n < g)
    OBVIOUS
  <2>1. g \in Nat /\ e[g] = End(s, g) /\ End(s, g) \in Nat /\ g + 11 < End(s, g)
    BY <1>2, EndIs
  <2>2. g = h \/ End(s, g) < h \/ n < g  BY <1>1, <1>2, EndIs
  <2> HIDE DEF e
  <2> QED  BY <1>1, <2>1, <2>2
<1>5. \A g \in Heaps(x) : End(x, g) = End(s, g)  BY <1>1, <1>3 DEF End
<1>6. f \in [H \ {h} -> Nat] /\ \A g \in H \ {h} : f[g] = e[g]
  <2>1. f = [g \in H \ {h} |-> End(x, g)]  BY <1>3 DEF Ends
  <2>2. \A g \in H \ {h} : End(x, g) = e[g] /\ e[g] \in Nat  BY <1>3, <1>4, <1>5
  <2> HIDE DEF f, H, e
  <2> QED  BY <2>1, <2>2
<1>7. LenOK(x.len) /\ TilesOf(x.len, H \ {h}, f)
  <2>1. LenOK(s.len) /\ H \in SUBSET Addr /\ e \in [H -> Nat] /\ TilesOf(s.len, H, e) /\ e[h] = n
    BY <1>1, <1>2, <1>4 DEF Tiling
  <2> HIDE DEF H, e, f, n
  <2>2. Drops(s.len, x.len, H, e, h, f)  BY <1>1, <1>6, <2>1 DEF Drops
  <2> QED  BY ONLY <2>2, ReleaseTiles
<1>8. Tiling(x.len, Heaps(x), Ends(x)) /\ TilesAll(x)
  <2>1. H \subseteq Addr  BY <1>2 DEF Tiling
  <2> QED  BY <1>3, <1>6, <1>7, <2>1 DEF Tiling, TilesAll
<1>9. DOMAIN x.len = {c \in DOMAIN s.len : c < h \/ n < c}  BY <1>1
<1>10. \A a \in U : a \in DOMAIN x.len /\ x.len[a] = s.len[a]
  <2> SUFFICES ASSUME NEW a \in U PROVE a \in DOMAIN x.len  BY <1>1
  <2>1. a \in Blocks(s.len) /\ a \in DOMAIN s.len /\ a \in Nat
    <3>1. a \in Blocks(s.len)  BY <1>2 DEF AloneOf
    <3> QED  BY <1>2, <3>1, BlocksAre
  <2>2. PICK g \in H : g < a /\ a < e[g]  BY <1>2, <2>1, HomeOf
  <2>3. g # h  BY <1>1, <1>4, <2>2 DEF Inside
  <2>4. h \in Nat /\ n \in Nat /\ g \in Nat /\ e[g] \in Nat /\ (e[g] < h \/ n < g)
    BY <1>1, <1>4, <2>3
  <2> HIDE DEF e, n
  <2>5. a < h \/ n < a  BY <2>1, <2>2, <2>4
  <2> QED  BY <1>9, <2>1, <2>5 DEF n
<1>11. AloneOf(x.len, x.used)
  <2>1. \A c : c \in Blocks(x.len) => c \in Blocks(s.len) /\ x.len[c] = s.len[c]
    <3> HIDE DEF n
    <3> QED  BY <1>1, <1>9 DEF Blocks
  <2>2. x.used \subseteq Blocks(x.len)  BY <1>1, <1>2, <1>10 DEF AloneOf, Blocks
  <2>3. ASSUME NEW c \in Blocks(x.len), c \notin x.used
        PROVE  c + x.len[c] \in x.used \/ c + x.len[c] \notin Blocks(x.len)
    <3>1. c + s.len[c] \in U \/ c + s.len[c] \notin Blocks(s.len)
      BY <1>1, <1>2, <2>1, <2>3 DEF AloneOf
    <3> QED  BY <1>1, <2>1, <3>1
  <2> QED  BY <2>2, <2>3 DEF AloneOf
<1>12. ASSUME NEW g \in H, g # h PROVE SameIn(s, x, g)
  <2>1. x.mh[g] = s.mh[g]  BY <1>1, <1>12
  <2>2. \A c \in DOMAIN s.len : c \in Nat  BY <1>2, BlocksAre
  <2>3. g \in Nat /\ e[g] = End(s, g) /\ e[g] \in Nat /\ h \in Nat /\ n \in Nat /\ (e[g] < h \/ n < g)
    BY <1>1, <1>4, <1>12
  <2>4. \A c \in DOMAIN s.len : Inside(s, g, c) => c < h \/ n < c
    <3> HIDE DEF n, e
    <3> QED  BY <2>2, <2>3 DEF Inside
  <2> HIDE DEF n
  <2>5. \A c : Inside(s, g, c) => (c \in DOMAIN x.len <=> c \in DOMAIN s.len)
    BY <1>9, <2>4
  <2> QED  BY <1>1, <2>1, <2>5 DEF SameIn
<1>13. Sound(x)
  <2>1. \A g \in Heaps(x) : \/ g \in Heaps(s) /\ SameIn(s, x, g)
                            \/ Ring(x, g) /\ Counted(x, g) /\ Bounded(x, g)
    BY <1>3, <1>12
  <2>2. Sound(s) /\ Typed(x) /\ TilesAll(x) /\ AloneOf(x.len, x.used) /\ RoversOk(x)
    BY <1>1, <1>8, <1>11
  <2> QED  BY ONLY <2>1, <2>2, SoundFrom
<1> QED  BY <1>3, <1>5, <1>10, <1>13

\* A miniheap that is one free block has no allocated one.
LEMMA AllFreeIs ==
    ASSUME NEW s, Sound(s), NEW h \in Heaps(s), AllFree(s, h)
    PROVE  \A a \in s.used : ~Inside(s, h, a)
<1> DEFINE b == Last(s.mh[h].free)
           n == LastFreeLen(s, h)
<1> USE SizesAre
<1>1. HeapOk(s, h) /\ Typed(s) /\ TilesAll(s)  BY SoundIs DEF Sound
<1>2. /\ b \in Nat /\ n \in Nat /\ (b = h => n = 0)
      /\ (b # h => n = s.len[b] /\ b + n <= End(s, h) /\ h < b /\ b \in Blocks(s.len) /\ b \notin s.used)
  BY <1>1, LastFreeLenIs
<1>3. s.mh[h].len - 11 = n  BY DEF AllFree
<1>4. /\ h \in Nat /\ End(s, h) \in Nat /\ h + 11 < End(s, h) /\ End(s, h) = h + s.mh[h].len /\ s.mh[h].len \in Nat
      /\ Ends(s)[h] = End(s, h)
  BY <1>1, EndIs
<1> HIDE DEF b, n
<1>5. b # h  BY <1>2, <1>3, <1>4
<1>6. Tiling(s.len, Heaps(s), Ends(s)) /\ AloneOf(s.len, s.used)
  BY <1>1 DEF HeapOk, TilesAll
<1>7. b \in DOMAIN s.len /\ b < End(s, h) /\ b \in Blocks(s.len)
  <2>1. b \in DOMAIN s.len /\ s.len[b] \in Nat /\ 4 <= s.len[b]
    BY <1>2, <1>5, <1>6, BlocksAre
  <2> QED  BY <1>2, <1>4, <1>5, <2>1
<1>8. h + 11 <= b
  <2>1. h < b /\ b < Ends(s)[h]  BY <1>2, <1>4, <1>5, <1>7
  <2> QED  BY <1>6, <1>7, <2>1, TagInside
<1>9. b + n = End(s, h) /\ b = h + 11  BY <1>2, <1>3, <1>4, <1>5, <1>8
<1> SUFFICES ASSUME NEW a \in s.used, Inside(s, h, a) PROVE FALSE  OBVIOUS
<1>10. a \in Blocks(s.len) /\ a \in DOMAIN s.len /\ a \in Nat
  <2>1. a \in Blocks(s.len)  BY <1>6 DEF AloneOf
  <2> QED  BY <1>6, <2>1, BlocksAre
<1>11. h < a /\ a < End(s, h)  BY DEF Inside
<1>12. h + 11 <= a
  <2>1. a < Ends(s)[h]  BY <1>4, <1>11
  <2> QED  BY <1>6, <1>10, <1>11, <2>1, TagInside
<1>13. a <= b \/ b + s.len[b] <= a  BY <1>6, <1>7, <1>10, BlocksAre
<1>14. a # b  BY <1>2, <1>5
<1> QED  BY <1>2, <1>4, <1>5, <1>9, <1>10, <1>11, <1>12, <1>13, <1>14

LEMMA FewerSelf ==
    ASSUME NEW s, Sound(s)
    PROVE  Fewer(s, s)
BY DEF Fewer, KeptBlocks

LEMMA FewerTwice ==
    ASSUME NEW s, NEW t, NEW u, Fewer(s, t), Fewer(t, u)
    PROVE  Fewer(s, u)
<1>1. KeptBlocks(s, t) /\ KeptBlocks(t, u)  BY DEF Fewer
<1>2. KeptBlocks(s, u)  BY <1>1 DEF KeptBlocks
<1>3. Heaps(t) \subseteq Heaps(s) /\ Heaps(u) \subseteq Heaps(t)  BY DEF Fewer
<1>4. \A g \in Heaps(u) : End(u, g) = End(s, g)  BY <1>3 DEF Fewer
<1>5. \A b \in DOMAIN u.len : b \in DOMAIN s.len /\ u.len[b] = s.len[b]  BY DEF Fewer
<1>6. u.curbrk = s.curbrk  BY DEF Fewer
<1> QED  BY <1>2, <1>3, <1>4, <1>5, <1>6 DEF Fewer

\* The miniheap that comes next.
LEMMA NextHeapIs ==
    ASSUME NEW s, Typed(s), NEW h \in Heaps(s)
    PROVE  LET next == NextHeap(s, h)
           IN  \/ next = NULL
               \/ /\ next \in Heaps(s) /\ next # h /\ next # NULL /\ h < next
                  /\ \A g \in Heaps(s) : g <= h \/ next <= g
<1> DEFINE q == s.list
<1> USE SizesAre
<1>1. q \in Seq(Nat) /\ Rising(q) /\ Contains(q, h) /\ \A y : y \in Heaps(s) <=> Contains(q, y)
  BY ListedIs DEF Typed
<1>2. CASE h = Last(q)  BY <1>2 DEF NextHeap
<1>3. CASE h # Last(q)
  <2>1. NextHeap(s, h) = After(q, h)  BY <1>3 DEF NextHeap, After
  <2> HIDE DEF q
  <2>2. /\ Contains(q, After(q, h)) /\ h < After(q, h)
        /\ \A y : Contains(q, y) => y <= h \/ After(q, h) <= y
    BY <1>1, <1>3, AfterIs
  <2>3. \A y : Contains(q, y) => y \in Nat  BY <1>1, IndexOf
  <2> DEFINE next == After(q, h)
  <2> HIDE DEF next
  <2>4. next \in Nat /\ h \in Nat /\ h < next /\ Contains(q, next)
    BY <1>1, <2>2, <2>3 DEF next
  <2>5. next # 0 /\ next # h  BY <2>4
  <2>6. \A g \in Heaps(s) : g <= h \/ next <= g  BY <1>1, <2>2 DEF next
  <2> QED  BY <1>1, <2>1, <2>4, <2>5, <2>6 DEF next
<1> QED  BY <1>2, <1>3

LEMMA RoverAfterIs ==
    ASSUME NEW s, Sound(s), NEW h \in Heaps(s)
    PROVE  /\ NoRover(s, h) = NULL \/ (NoRover(s, h) \in Heaps(s) /\ NoRover(s, h) # h)
           /\ NoLarger(s, h) \in (0..Top) \cup {Largest}
           /\ Skipped(s) => \A g \in Heaps(s) : g # h /\ g < NoRover(s, h) =>
                                s.mh[g].largest_blk <= NoLarger(s, h)
<1> DEFINE next == NextHeap(s, h)
           q == s.list
           r == NoRover(s, h)
<1> USE SizesAre
<1>1. Typed(s) /\ TilesAll(s) /\ RoversOk(s)  BY DEF Sound
<1>2. q \in Seq(Nat) /\ Rising(q) /\ \A y : y \in Heaps(s) <=> Contains(q, y)
  BY <1>1, ListedIs DEF Typed
<1>3. \A g \in Heaps(s) : g \in Nat /\ g >= 1  BY <1>1, EndIs
<1>4. \/ next = NULL
      \/ /\ next \in Heaps(s) /\ next # h /\ next # NULL /\ h < next
         /\ \A g \in Heaps(s) : g <= h \/ next <= g
  BY <1>1, NextHeapIs
<1>5. nheapbeg(s) \in Heaps(s) /\ \A g \in Heaps(s) : nheapbeg(s) <= g
  <2>1. Len(q) > 0 /\ q # << >>  BY <1>2 DEF Contains
  <2>2. nheapbeg(s) = q[1]  BY <2>1 DEF nheapbeg
  <2> HIDE DEF q
  <2>3. Contains(q, q[1]) /\ \A y : Contains(q, y) => q[1] <= y
    BY <1>2, <2>1, FirstAndLast
  <2> QED  BY <1>2, <2>2, <2>3
<1>6. s.MiniHeapRover = NULL \/ s.MiniHeapRover \in Heaps(s)
  <2>1. Live(s, s.MiniHeapRover)  BY <1>1 DEF RoversOk
  <2> DEFINE R == s.MiniHeapRover
  <2>2. R = NULL \/ Contains(s.list, R)  BY <2>1 DEF Live
  <2> HIDE DEF R
  <2>3. R = NULL \/ R \in Heaps(s)  BY <1>2, <2>2
  <2> QED  BY <2>3 DEF R
<1>7. s.LargestSizeB4 \in (0..Top) \cup {Largest}  BY <1>1 DEF Typed
<1> HIDE DEF next, q
<1>8. CASE s.MiniHeapRover # h
  <2>1. RoverAfter(s, h) = s.MiniHeapRover  BY <1>8 DEF RoverAfter
  <2>2. r = s.MiniHeapRover /\ NoLarger(s, h) = s.LargestSizeB4
    BY <1>8, <2>1 DEF NoRover, NoLarger
  <2> QED  BY <1>6, <1>7, <1>8, <2>2 DEF Skipped
<1>9. CASE s.MiniHeapRover = h /\ next # NULL
  <2>1. RoverAfter(s, h) = next  BY <1>9 DEF RoverAfter, next
  <2>2. r = next /\ NoLarger(s, h) = s.LargestSizeB4
    BY <1>4, <1>9, <2>1 DEF NoRover, NoLarger, next
  <2>3. ASSUME Skipped(s), NEW g \in Heaps(s), g # h, g < next
        PROVE  s.mh[g].largest_blk <= s.LargestSizeB4
    <3>1. g \in Nat /\ h \in Nat /\ next \in Nat /\ g <= h  BY <1>3, <1>4, <1>9, <2>3
    <3>2. g < s.MiniHeapRover  BY <1>9, <2>3, <3>1
    <3> QED  BY <2>3, <3>2 DEF Skipped
  <2> QED  BY <1>4, <1>7, <1>9, <2>2, <2>3
<1>10. CASE s.MiniHeapRover = h /\ next = NULL
  <2>1. RoverAfter(s, h) = nheapbeg(s)  BY <1>10 DEF RoverAfter, next
  <2>2. r = (IF nheapbeg(s) = h THEN NULL ELSE nheapbeg(s)) /\ NoLarger(s, h) = 0
    BY <1>10, <2>1 DEF NoRover, NoLarger, next
  <2>3. \A g \in Heaps(s) : ~(g < r)  BY <1>3, <1>5, <2>2
  <2> HIDE DEF r
  <2>4. r = NULL \/ (r \in Heaps(s) /\ r # h)  BY <1>5, <2>2
  <2> QED  BY <2>2, <2>3, <2>4 DEF r
<1> QED  BY <1>8, <1>9, <1>10

LEMMA ReleaseMiniHeapIs ==
    ASSUME NEW s, Sound(s), NEW h \in Heaps(s), AllFree(s, h)
    PROVE  /\ Fewer(s, ReleaseMiniHeap(s, h))
           /\ Heaps(ReleaseMiniHeap(s, h)) = Heaps(s) \ {h}
<1> DEFINE n == End(s, h)
           x == ReleaseMiniHeap(s, h)
           D == {b \in DOMAIN s.len : b \notin h .. h + s.mh[h].len}
           len == Restrict(s.len, D)
           mh == Without(s.mh, h)
           l == Unlink(s.list, h)
           y == [s EXCEPT !.MiniHeapRover = NoRover(s, h), !.LargestSizeB4 = NoLarger(s, h),
                          !.MiniHeapFreeRover = FreeRover(s, h), !.list = l, !.mh = mh, !.len = len]
<1> USE SizesAre
<1>1. Typed(s) /\ TilesAll(s) /\ RoversOk(s)  BY DEF Sound
<1>2. s.list \in Seq(Nat) /\ Rising(s.list) /\ \A z : z \in Heaps(s) <=> Contains(s.list, z)
  BY <1>1, ListedIs DEF Typed
<1>3. x = y  BY DEF ReleaseMiniHeap, NoRover, RoverAfter, NoLarger
<1> DEFINE NR == NoRover(s, h)
           NL == NoLarger(s, h)
           FR == FreeRover(s, h)
<1>4. /\ NR = NULL \/ (NR \in Heaps(s) /\ NR # h)
      /\ NL \in (0..Top) \cup {Largest}
      /\ Skipped(s) => \A g \in Heaps(s) : g # h /\ g < NR => s.mh[g].largest_blk <= NL
  BY RoverAfterIs
<1>5. l \in Seq(Nat) /\ Rising(l) /\ \A z : Contains(l, z) <=> Contains(s.list, z) /\ z # h
  BY <1>2, TakenOut
<1>6. mh \in [Heaps(s) \ {h} -> Descriptor] /\ \A g \in Heaps(s) : g # h => mh[g] = s.mh[g]
  <2>1. s.mh \in [Heaps(s) -> Descriptor]  BY <1>1 DEF Typed
  <2>2. DOMAIN mh = DOMAIN s.mh \ {h} /\ \A g \in DOMAIN s.mh \ {h} : mh[g] = s.mh[g]
    <3> DEFINE G == s.mh
    <3> HIDE DEF G
    <3>1. DOMAIN Without(G, h) = DOMAIN G \ {h} /\ \A g \in DOMAIN G \ {h} : Without(G, h)[g] = G[g]
      BY DEF Without, Restrict
    <3> QED  BY <3>1 DEF G
  <2>3. mh = [g \in DOMAIN mh |-> mh[g]]  BY DEF Without, Restrict
  <2> HIDE DEF mh
  <2> QED  BY <2>1, <2>2, <2>3
<1> HIDE DEF NR, NL, FR, l, mh, len
<1>7. /\ x.list = l /\ x.mh = mh /\ x.len = len /\ x.used = s.used /\ x.MiniHeapRover = NR
      /\ x.LargestSizeB4 = NL /\ x.MiniHeapFreeRover = FR /\ x.curbrk = s.curbrk /\ x.wild = s.wild
      /\ DOMAIN x = DOMAIN s
  <2>1. y = [s EXCEPT !.MiniHeapRover = NR, !.LargestSizeB4 = NL,
                      !.MiniHeapFreeRover = FR, !.list = l, !.mh = mh, !.len = len]
    BY DEF NR, NL, FR
  <2> HIDE DEF x, y
  <2> QED  BY <1>1, <1>3, <2>1 DEF Typed
<1> HIDE DEF x, y
<1>8. Heaps(x) = Heaps(s) \ {h}
  <2>1. \A z : z \in Heaps(x) <=> z \in Heaps(s) /\ z # h  BY <1>2, <1>5, <1>7, ListedIs
  <2> QED  BY <2>1
<1>9. Typed(x)  BY <1>1, <1>4, <1>5, <1>6, <1>7, <1>8 DEF Typed
<1>10. RoversOk(x)
  <2>1. Live(x, NR)  BY <1>2, <1>4, <1>5, <1>7 DEF Live
  <2>2. ~ShrinkAnytime => Live(x, FR) /\ ~x.wild
    <3> SUFFICES ASSUME ~ShrinkAnytime PROVE Live(x, FR) /\ ~x.wild  OBVIOUS
    <3>1. Live(s, s.MiniHeapFreeRover) /\ ~s.wild  BY <1>1 DEF RoversOk
    <3>2. FR = NULL \/ (FR = s.MiniHeapFreeRover /\ FR # h)  BY DEF FR, FreeRover
    <3> QED  BY <1>5, <1>7, <3>1, <3>2 DEF Live
  <2> QED  BY <1>7, <2>1, <2>2 DEF RoversOk
<1>11. x.len \in [{c \in DOMAIN s.len : c < h \/ n < c} -> Int] /\ \A c \in DOMAIN x.len : x.len[c] = s.len[c]
       /\ DOMAIN x.len \subseteq DOMAIN s.len
  <2>1. \A c \in DOMAIN s.len : c \in Nat /\ s.len[c] \in Int
    BY <1>1, BlocksAre DEF TilesAll
  <2>2. h \in Nat /\ n \in Nat /\ n = h + s.mh[h].len  BY <1>1, EndIs
  <2> DEFINE E == {c \in DOMAIN s.len : c < h \/ n < c}
  <2>3. D = E
    <3> HIDE DEF n
    <3>1. \A c \in DOMAIN s.len : c \notin h .. n <=> c < h \/ n < c  BY <2>1, <2>2
    <3> QED  BY <2>2, <3>1
  <2>4. DOMAIN s.len \cap D = D  OBVIOUS
  <2> HIDE DEF D, n
  <2>5. len = [c \in D |-> s.len[c]]  BY <2>4 DEF len, Restrict
  <2>6. D \subseteq DOMAIN s.len  BY DEF D
  <2>7. len \in [D -> Int] /\ \A c \in D : len[c] = s.len[c]  BY <2>1, <2>5, <2>6
  <2> QED  BY <1>7, <2>3, <2>6, <2>7
<1>12. \A a \in s.used : ~Inside(s, h, a)  BY AllFreeIs
<1>13. Removed(s, x, h)
  BY <1>2, <1>5, <1>6, <1>7, <1>9, <1>10, <1>11, <1>12 DEF Removed
<1>14. /\ Sound(x) /\ \A g \in Heaps(x) : End(x, g) = End(s, g)
       /\ \A c \in s.used : x.len[c] = s.len[c]
  BY ONLY <1>13, RemovedIs
<1>15. Skipped(s) => Skipped(x)  BY <1>4, <1>6, <1>7, <1>8 DEF Skipped
<1>16. KeptBlocks(s, x)  BY <1>7, <1>14, <1>15 DEF KeptBlocks
<1>17. \A c \in DOMAIN x.len : c \in DOMAIN s.len /\ x.len[c] = s.len[c]  BY <1>11
<1>18. Fewer(s, x)  BY <1>7, <1>8, <1>14, <1>16, <1>17 DEF Fewer
<1> QED  BY <1>8, <1>18 DEF x

LEMMA RunsTo ==
    ASSUME NEW s
    PROVE  ReleaseFreeHeaps(s) = (CHOOSE f : Run(s, f))[Len(s.list)]
BY DEF ReleaseFreeHeaps, Run, Step

LEMMA UptoExists ==
    ASSUME NEW s, NEW n \in Nat
    PROVE  \E f : Upto(s, n, f)
<1> DEFINE Bad == {k \in Nat : ~\E f : Upto(s, k, f)}
<1> SUFFICES ASSUME n \in Bad PROVE FALSE  OBVIOUS
<1>1. Bad \in SUBSET Nat /\ Bad # {}  OBVIOUS
<1> HIDE DEF Bad
<1> DEFINE m == Min(Bad)
<1>2. m \in Bad /\ \A i \in Bad : m <= i  BY <1>1, Least
<1> HIDE DEF m
<1>3. m \in Nat /\ ~\E f : Upto(s, m, f)  BY <1>2 DEF Bad
<1>4. m # 0
  <2> DEFINE f == [i \in 0..0 |-> s]
  <2>1. f = [i \in 0..0 |-> IF i = 0 THEN s ELSE Step(f[i - 1], s.list[i])]  OBVIOUS
  <2>2. Upto(s, 0, f)  BY <2>1 DEF Upto
  <2> QED  BY <1>3, <2>2
<1>5. m - 1 \in Nat /\ m - 1 \notin Bad
  <2>1. m - 1 \in Nat /\ ~(m <= m - 1)  BY <1>3, <1>4
  <2> QED  BY <1>2, <2>1
<1>6. PICK f : Upto(s, m - 1, f)  BY <1>5 DEF Bad
<1> DEFINE g == [i \in 0..m |-> IF i = m THEN Step(f[m - 1], s.list[m]) ELSE f[i]]
<1>7. f = [i \in 0..(m - 1) |-> IF i = 0 THEN s ELSE Step(f[i - 1], s.list[i])]
  BY <1>6 DEF Upto
<1>8. ASSUME NEW i \in 0..m PROVE g[i] = IF i = 0 THEN s ELSE Step(g[i - 1], s.list[i])
  <2>1. CASE i = m
    <3>1. g[i] = Step(f[m - 1], s.list[m]) /\ m - 1 \in 0..m /\ m - 1 # m
      BY <1>3, <1>5, <2>1
    <3>2. g[m - 1] = f[m - 1]  BY <3>1
    <3> QED  BY <1>4, <2>1, <3>1, <3>2
  <2>2. CASE i # m
    <3>1. i \in 0..(m - 1) /\ g[i] = f[i]  BY <1>3, <2>2
    <3>2. f[i] = IF i = 0 THEN s ELSE Step(f[i - 1], s.list[i])  BY <1>7, <3>1
    <3>3. i # 0 => i - 1 \in 0..m /\ i - 1 # m  BY <1>3, <3>1
    <3>4. i # 0 => g[i - 1] = f[i - 1]  BY <3>3
    <3> QED  BY <3>1, <3>2, <3>4
  <2> QED  BY <2>1, <2>2
<1>9. g = [i \in 0..m |-> IF i = 0 THEN s ELSE Step(g[i - 1], s.list[i])]
  <2>1. g = [i \in 0..m |-> g[i]]  OBVIOUS
  <2> HIDE DEF g
  <2> QED  BY <1>8, <2>1
<1>10. Upto(s, m, g)  BY <1>9 DEF Upto
<1> QED  BY <1>3, <1>10

\* The heap s after the first k miniheaps have been looked at.
Looked(s, k, t) ==
    /\ Fewer(s, t)
    /\ \A j \in 1..Len(s.list) : k < j => s.list[j] \in Heaps(t)

LEMMA LookedNext ==
    ASSUME NEW s, Sound(s), NEW k \in Nat, k + 1 <= Len(s.list), NEW t, Looked(s, k, t)
    PROVE  Looked(s, k + 1, Step(t, s.list[k + 1]))
<1> DEFINE h == s.list[k + 1]
           u == Step(t, h)
<1>1. s.list \in Seq(Nat) /\ Rising(s.list)  BY DEF Sound, Typed
<1>2. k + 1 \in 1..Len(s.list)  BY <1>1
<1>3. Fewer(s, t) /\ h \in Heaps(t) /\ Sound(t)  BY <1>2 DEF Looked, Fewer, KeptBlocks
<1>4. \A j \in 1..Len(s.list) : k + 1 < j => s.list[j] \in Heaps(t) /\ s.list[j] # h
  <2> SUFFICES ASSUME NEW j \in 1..Len(s.list), k + 1 < j PROVE s.list[j] \in Heaps(t) /\ s.list[j] # h
    OBVIOUS
  <2>1. k < j  OBVIOUS
  <2>2. s.list[k + 1] < s.list[j]  BY <1>1, <1>2 DEF Rising
  <2>3. s.list[j] \in Nat /\ h \in Nat  BY <1>1, <1>2
  <2> QED  BY <2>1, <2>2, <2>3 DEF Looked
<1> HIDE DEF h
<1>5. CASE AllFree(t, h)
  <2>1. u = ReleaseMiniHeap(t, h)  BY <1>5 DEF Step
  <2>2. Fewer(t, u) /\ Heaps(u) = Heaps(t) \ {h}  BY <1>3, <1>5, <2>1, ReleaseMiniHeapIs
  <2>3. Fewer(s, u)  BY <1>3, <2>2, FewerTwice
  <2>4. \A j \in 1..Len(s.list) : k + 1 < j => s.list[j] \in Heaps(u)  BY <1>4, <2>2
  <2> QED  BY <2>3, <2>4 DEF Looked, h
<1>6. CASE ~AllFree(t, h)
  <2>1. u = t  BY <1>6 DEF Step
  <2> QED  BY <1>3, <1>4, <2>1 DEF Looked, h
<1> QED  BY <1>5, <1>6

LEMMA RunIs ==
    ASSUME NEW s, Sound(s), NEW f, Run(s, f)
    PROVE  Fewer(s, f[Len(s.list)])
<1> DEFINE n == Len(s.list)
           Bad == {k \in 0..n : ~Looked(s, k, f[k])}
<1>1. s.list \in Seq(Nat) /\ n \in Nat  BY DEF Sound, Typed
<1>2. \A k \in 0..n : f[k] = IF k = 0 THEN s ELSE Step(f[k - 1], s.list[k])  BY DEF Run
<1>3. Bad = {}
  <2> SUFFICES ASSUME Bad # {} PROVE FALSE  OBVIOUS
  <2>1. Bad \in SUBSET Nat  BY <1>1
  <2> DEFINE m == Min(Bad)
  <2> HIDE DEF Bad
  <2>2. m \in Bad /\ \A i \in Bad : m <= i  BY <2>1, Least
  <2> HIDE DEF m
  <2>3. m \in 0..n /\ ~Looked(s, m, f[m])  BY <2>2 DEF Bad
  <2>4. m # 0
    <3>1. 0 \in 0..n  BY <1>1
    <3>2. f[0] = s  BY <1>2, <3>1
    <3>3. \A j \in 1..n : s.list[j] \in Heaps(s)  BY <1>1 DEF Heaps, ToSet
    <3>4. Looked(s, 0, s)  BY <3>3, FewerSelf DEF Looked
    <3> QED  BY <2>3, <3>2, <3>4
  <2> DEFINE k == m - 1
  <2>5. k \in Nat /\ k \in 0..n /\ k + 1 = m /\ k + 1 <= n /\ ~(m <= k)
    BY <1>1, <2>3, <2>4
  <2> HIDE DEF n, k
  <2>6. Looked(s, k, f[k])  BY <2>2, <2>5 DEF Bad
  <2>7. Looked(s, k + 1, Step(f[k], s.list[k + 1]))  BY <2>5, <2>6, LookedNext DEF n
  <2>8. f[m] = Step(f[m - 1], s.list[m])  BY <1>2, <2>3, <2>4
  <2> QED  BY <2>3, <2>5, <2>7, <2>8 DEF k
<1>4. n \in 0..n  BY <1>1
<1>5. Looked(s, n, f[n])  BY <1>3, <1>4
<1> QED  BY <1>5 DEF Looked

LEMMA ReleaseFreeHeapsIs ==
    ASSUME NEW s, Sound(s)
    PROVE  Fewer(s, ReleaseFreeHeaps(s))
<1>1. Len(s.list) \in Nat  BY DEF Sound, Typed
<1>2. \E f : Run(s, f)
  <2>1. \E f : Upto(s, Len(s.list), f)  BY <1>1, UptoExists
  <2> QED  BY <2>1 DEF Upto, Run
<1>3. Run(s, CHOOSE f : Run(s, f))  BY <1>2
<1> QED  BY <1>3, RunIs, RunsTo
-------------------------------------------------------------------------------
\* __ExpandDGROUP.

LEMMA SliceIs ==
    ASSUME NEW s, Sound(s), BelowBrk(s), NEW k, k \in Nat, FRL_SIZE <= k, s.curbrk + k <= Top,
           \/ DESCRIPTOR + FRL_SIZE + TAG_SIZE <= k
           \/ \E h \in Heaps(s) : End(s, h) + TAG_SIZE = s.curbrk
    PROVE  Gained(s, Slice(s, k))
<1> USE SizesAre
<1>1. Typed(s) /\ TilesAll(s) /\ s.curbrk \in Start..Top /\ s.curbrk \in Nat
  BY DEF Sound, Typed
<1>2. CASE \E h \in Heaps(s) : End(s, h) + TAG_SIZE = s.curbrk
  <2>1. PICK h \in Heaps(s) : End(s, h) + TAG_SIZE = s.curbrk  BY <1>2
  <2>2. End(s, h) \in Nat  BY <1>1, EndIs
  <2>3. End(s, h) = s.curbrk - TAG_SIZE  BY <1>1, <2>1, <2>2
  <2>4. MayLengthen(s, h, k)  BY <2>3 DEF MayLengthen
  <2>5. Slice(s, k) = Lengthened(s, h, k)  BY <2>1, SliceIn
  <2> QED  BY <2>4, <2>5, LengthenedIs
<1>3. CASE ~\E h \in Heaps(s) : End(s, h) + TAG_SIZE = s.curbrk
  <2> DEFINE q == [s EXCEPT !.curbrk = s.curbrk + k]
             c == s.curbrk
             t == Opened(q, c, k, Largest)
  <2>1. c + k \in Start..Top  BY <1>1
  <2>2. SameBut(s, q) /\ q.curbrk = c + k
    <3> DEFINE z == c + k
    <3>1. z \in Start..Top /\ q = [s EXCEPT !.curbrk = z]  BY <2>1
    <3> HIDE DEF z, q
    <3>2. /\ q.len = s.len /\ q.used = s.used /\ q.list = s.list /\ q.mh = s.mh
          /\ q.MiniHeapRover = s.MiniHeapRover /\ q.LargestSizeB4 = s.LargestSizeB4
          /\ q.MiniHeapFreeRover = s.MiniHeapFreeRover /\ q.wild = s.wild /\ q.curbrk = z
          /\ DOMAIN q = DOMAIN s
      BY <1>1, <3>1 DEF Typed
    <3>3. Typed(q)  BY <1>1, <3>1, <3>2 DEF Typed, Heaps
    <3> QED  BY <3>2, <3>3 DEF SameBut, z
  <2>3. \A g \in Heaps(s) : End(s, g) < c  BY DEF BelowBrk
  <2>4. MayOpen(s, q, c, k, Largest)
    <3>1. c \in Addr /\ c + k - TAG_SIZE <= Top  BY <1>1 DEF Addr
    <3> HIDE DEF q, c
    <3> QED  BY <1>3, <2>2, <2>3, <3>1 DEF MayOpen
  <2>5. Slice(s, k) = t  BY <1>3, SliceOut
  <2> HIDE DEF q, c
  <2>6. IsOpened(s, q, t, c, k)  BY <2>4, OpenedIs
  <2> HIDE DEF t
  <2>7. /\ KeptBlocks(s, t) /\ t.curbrk = c + k /\ Heaps(t) = Heaps(s) \cup {c}
        /\ End(t, c) = c + k - 1 /\ \A g \in Heaps(s) : End(t, g) = End(s, g)
    BY <2>2, <2>6 DEF IsOpened
  <2>8. \A g \in Heaps(t) : WasThere(s, t, g)
    <3> SUFFICES ASSUME NEW g \in Heaps(t) PROVE WasThere(s, t, g)  OBVIOUS
    <3>1. CASE g \in Heaps(s)  BY <2>7, <3>1 DEF WasThere
    <3>2. CASE g = c
      <4>1. c \in Nat /\ End(t, c) + TAG_SIZE = t.curbrk  BY <1>1, <2>7 DEF c
      <4> QED  BY <3>2, <4>1 DEF WasThere, c
    <3> QED  BY <2>7, <3>1, <3>2
  <2>9. s.curbrk <= t.curbrk  BY <1>1, <2>7 DEF c
  <2> QED  BY <2>5, <2>7, <2>8, <2>9 DEF Gained
<1> QED  BY <1>2, <1>3

LEMMA CreateNewNHeapIs ==
    ASSUME NEW s, Sound(s), NEW k, k \in Nat, DESCRIPTOR + FRL_SIZE + TAG_SIZE <= k, NEW a \in Addresses(s, k)
    PROVE  KeptBlocks(s, CreateNewNHeap(s, a, k)) /\ CreateNewNHeap(s, a, k).curbrk = s.curbrk
<1> USE SizesAre
<1>1. Typed(s) /\ TilesAll(s)  BY DEF Sound
<1>2. a \in 1..Top /\ a + k <= Top /\ \A h \in Heaps(s) : a + k <= h \/ End(s, h) < a
  BY DEF Addresses, Heaps, End
<1>3. \A g \in Heaps(s) : End(s, g) < a \/ a + k - TAG_SIZE < g
  <2>1. \A g \in Heaps(s) : g \in Nat  BY <1>1, EndIs
  <2> QED  BY <1>2, <2>1
<1>4. SameBut(s, s)  BY <1>1 DEF SameBut
<1>5. MayOpen(s, s, a, k, 0)
  <2>1. a \in Addr /\ a + k - TAG_SIZE <= Top  BY <1>2 DEF Addr
  <2> QED  BY <1>3, <1>4, <2>1 DEF MayOpen
<1>6. IsOpened(s, s, Opened(s, a, k, 0), a, k)  BY <1>5, OpenedIs
<1>7. CreateNewNHeap(s, a, k) = Opened(s, a, k, 0)  BY DEF CreateNewNHeap, Opened
<1> QED  BY <1>6, <1>7 DEF IsOpened

LEMMA ExpandDGROUPIs ==
    ASSUME NEW s, Sound(s), platform \in {"NT", "brk"}, platform = "brk" => BelowBrk(s),
           NEW amount, amount \in Nat, NEW r \in ExpandDGROUP(s, amount)
    PROVE  Expanded(s, r)
<1> DEFINE shrunk == IF platform = "NT" THEN nheapshrink(s) ELSE s
           size == AdjustAmount(shrunk, amount)
           new == IF platform = "NT"
                  THEN {CreateNewNHeap(shrunk, a, size) : a \in Addresses(shrunk, size)}
                  ELSE {Slice(shrunk, size) : x \in {y \in {size} : s.curbrk + y <= Top}}
<1>1. r \in {[ok |-> TRUE, heap |-> t] : t \in new} \cup {Kept(shrunk)}
  BY DEF ExpandDGROUP
<1>2. Fewer(s, shrunk) /\ (platform = "brk" => shrunk = s) /\ Sound(shrunk)
  <2>1. CASE platform = "NT"
    <3>1. shrunk = ReleaseFreeHeaps(s) /\ platform # "brk"  BY <2>1 DEF nheapshrink
    <3>2. Fewer(s, ReleaseFreeHeaps(s))  BY ReleaseFreeHeapsIs
    <3> QED  BY <3>1, <3>2 DEF Fewer, KeptBlocks
  <2>2. CASE platform = "brk"
    <3>1. shrunk = s  BY <2>2
    <3> QED  BY <3>1, FewerSelf
  <2> QED  BY <2>1, <2>2
<1> HIDE DEF shrunk
<1>3. /\ size \in Nat /\ FRL_SIZE <= size
      /\ \/ DESCRIPTOR + FRL_SIZE + TAG_SIZE <= size
         \/ platform = "brk" /\ \E h \in Heaps(shrunk) : End(shrunk, h) + TAG_SIZE = shrunk.curbrk
  BY <1>2, AdjustAmountIs
<1> HIDE DEF size
<1>4. CASE r = Kept(shrunk)
  <2>1. r.ok = FALSE /\ r.heap = shrunk  BY <1>4 DEF Kept
  <2>2. Gained(s, s)
    <3>1. s.curbrk \in Int  BY DEF Sound, Typed
    <3> QED  BY <3>1 DEF Gained, KeptBlocks, WasThere
  <2> QED  BY <1>2, <2>1, <2>2 DEF Expanded, Fewer
<1>5. CASE r # Kept(shrunk)
  <2>1. PICK t \in new : r = [ok |-> TRUE, heap |-> t]  BY <1>1, <1>5
  <2>2. r.ok = TRUE /\ r.heap = t  BY <2>1
  <2>3. CASE platform = "NT"
    <3>1. PICK a \in Addresses(shrunk, size) : t = CreateNewNHeap(shrunk, a, size)
      BY <2>1, <2>3
    <3>2. platform # "brk"  BY <2>3
    <3>3. KeptBlocks(shrunk, t) /\ t.curbrk = shrunk.curbrk
      BY <1>2, <1>3, <3>1, <3>2, CreateNewNHeapIs
    <3>4. KeptBlocks(s, t) /\ t.curbrk = s.curbrk  BY <1>2, <3>3 DEF Fewer, KeptBlocks
    <3> QED  BY <2>2, <3>2, <3>4 DEF Expanded
  <2>4. CASE platform = "brk"
    <3>1. t = Slice(s, size) /\ s.curbrk + size <= Top  BY <1>2, <2>1, <2>4
    <3>2. Gained(s, t)  BY <1>2, <1>3, <2>4, <3>1, SliceIs
    <3> QED  BY <2>2, <2>4, <3>2 DEF Expanded
  <2> QED  BY <2>3, <2>4
<1> QED  BY <1>4, <1>5
-------------------------------------------------------------------------------
\* The break is lowered.

LEMMA FrontIs ==
    ASSUME NEW q \in Seq(Nat), Rising(q), Len(q) > 0
    PROVE  LET r == Front(q)
           IN  /\ r \in Seq(Nat) /\ Rising(r) /\ Len(r) = Len(q) - 1
               /\ \A y : Contains(r, y) <=> Contains(q, y) /\ y # Last(q)
               /\ \A i \in 1..Len(r) : r[i] = q[i]
<1> DEFINE r == Front(q)
           n == Len(q)
<1>1. n \in Nat /\ n > 0 /\ \A i \in 1..n : q[i] \in Nat  OBVIOUS
<1>2. r \in Seq(Nat) /\ Len(r) = n - 1 /\ \A i \in 1..(n - 1) : r[i] = q[i]
  <2>1. r = SubSeq(q, 1, n - 1)  BY DEF Front
  <2> DEFINE k == n - 1
  <2>2. 1 \in 1..(Len(q) + 1) /\ k \in 0..Len(q) /\ k \in Nat  BY <1>1
  <2>3. r = SubSeq(q, 1, k)  BY <2>1
  <2> HIDE DEF n, r, k
  <2>4. SubSeq(q, 1, k) \in Seq(Nat) /\ Len(SubSeq(q, 1, k)) = k /\ \A i \in 1..k : SubSeq(q, 1, k)[i] = q[i]
    BY <2>2
  <2> QED  BY <2>3, <2>4 DEF k
<1> HIDE DEF n, r
<1>3. Rising(r)
  <2> SUFFICES ASSUME NEW i \in 1..Len(r), NEW j \in 1..Len(r), i < j PROVE r[i] < r[j]
    BY DEF Rising
  <2>1. i \in 1..(n - 1) /\ j \in 1..(n - 1) /\ i \in 1..n /\ j \in 1..n  BY <1>1, <1>2
  <2>2. q[i] < q[j]  BY <2>1 DEF Rising, n
  <2> QED  BY <1>2, <2>1, <2>2
<1>4. ASSUME NEW y PROVE Contains(r, y) <=> Contains(q, y) /\ y # Last(q)
  <2>1. ASSUME Contains(r, y) PROVE Contains(q, y) /\ y # Last(q)
    <3>1. PICK i \in 1..(n - 1) : r[i] = y  BY <1>2, <2>1 DEF Contains
    <3>2. i \in 1..n /\ n \in 1..n /\ i < n /\ q[i] = y  BY <1>1, <1>2, <3>1
    <3>3. q[i] < q[n]  BY <3>2 DEF Rising, n
    <3> QED  BY <1>1, <3>2, <3>3 DEF Contains, Last, n
  <2>2. ASSUME Contains(q, y), y # Last(q) PROVE Contains(r, y)
    <3>1. PICK i \in 1..n : q[i] = y  BY <2>2 DEF Contains, n
    <3>2. i # n  BY <2>2, <3>1 DEF Last, n
    <3>3. i \in 1..(n - 1)  BY <1>1, <3>1, <3>2
    <3> QED  BY <1>2, <3>1, <3>3 DEF Contains
  <2> QED  BY <2>1, <2>2
<1> QED  BY <1>2, <1>3, <1>4 DEF r, n

LEMMA AtBrkIs ==
    ASSUME NEW s, Sound(s), BelowBrk(s), CanLowerBreak(s)
    PROVE  LET h == Last(s.list) IN AtBrk(s, h, Last(s.mh[h].free))
<1> DEFINE h == Last(s.list)
           b == Last(s.mh[h].free)
           n == LastFreeLen(s, h)
<1> USE SizesAre
<1>1. Typed(s) /\ TilesAll(s) /\ s.list \in Seq(Nat) /\ Rising(s.list)
  BY DEF Sound, Typed
<1>2. s.list # << >> /\ b + n = h + s.mh[h].len /\ n > 3 /\ s.curbrk = b + n + 1
  BY DEF CanLowerBreak
<1>3. h \in Heaps(s) /\ \A g \in Heaps(s) : g <= h
  <2>1. Len(s.list) > 0  BY <1>1, <1>2
  <2>2. Contains(s.list, h) /\ \A g : Contains(s.list, g) => g <= h
    BY <1>1, <2>1, FirstAndLast
  <2> QED  BY <1>1, <2>2, ListedIs
<1> HIDE DEF h
<1>4. HeapOk(s, h)  BY <1>3, SoundIs
<1>5. /\ b \in Nat /\ n \in Nat /\ (b = h => n = 0)
      /\ (b # h => n = s.len[b] /\ b + n <= End(s, h) /\ h < b /\ b \in Blocks(s.len) /\ b \notin s.used)
  BY <1>4, LastFreeLenIs
<1> HIDE DEF b, n
<1>6. b # h /\ n = s.len[b] /\ h < b /\ b \in Blocks(s.len) /\ b \notin s.used
  BY <1>2, <1>5
<1>7. b + n = End(s, h) /\ End(s, h) + 1 = s.curbrk  BY <1>2 DEF End
<1>8. h + DESCRIPTOR <= b
  <2>1. Ends(s)[h] = End(s, h) /\ End(s, h) \in Nat  BY <1>1, <1>3, EndIs
  <2>2. Tiling(s.len, Heaps(s), Ends(s)) /\ b \in DOMAIN s.len
    BY <1>1, <1>6 DEF TilesAll, Blocks
  <2>3. b < Ends(s)[h]  BY <1>2, <1>5, <1>7, <2>1
  <2> QED  BY <1>3, <1>6, <2>2, <2>3, TagInside
<1>9. AtBrk(s, h, b)  BY <1>2, <1>3, <1>6, <1>7, <1>8 DEF AtBrk, b, n, h
<1> QED  BY <1>9 DEF h, b

\* What is in no miniheap below the last one is above it.
LEMMA BelowLast ==
    ASSUME NEW s, NEW h, NEW b, AtBrk(s, h, b)
    PROVE  {c \in DOMAIN s.len : c < h} = {c \in DOMAIN s.len : c < h \/ End(s, h) < c}
<1> USE SizesAre
<1>1. Typed(s) /\ TilesAll(s) /\ h \in Heaps(s) /\ \A g \in Heaps(s) : g <= h
  BY DEF AtBrk, Sound
<1>2. ASSUME NEW c \in DOMAIN s.len, End(s, h) < c PROVE FALSE
  <2>1. Tiling(s.len, Heaps(s), Ends(s))  BY <1>1 DEF TilesAll
  <2>2. PICK g \in Heaps(s) : c <= Ends(s)[g]  BY <2>1 DEF Tiling, TilesOf, Homes
  <2>3. c \in Nat  BY <2>1, BlocksAre
  <2>4. /\ Ends(s)[g] = End(s, g) /\ End(s, g) \in Nat /\ g \in Nat /\ g <= h /\ g + 11 < End(s, g)
        /\ End(s, h) \in Nat /\ h \in Nat /\ h + 11 < End(s, h)
    BY <1>1, EndIs
  <2>5. g = h \/ End(s, g) < h \/ End(s, h) < g  BY <1>1, EndIs
  <2> QED  BY <1>2, <2>2, <2>3, <2>4, <2>5
<1> QED  BY <1>2

LEMMA CutLastHeapIs ==
    ASSUME NEW s, NEW h, NEW b, AtBrk(s, h, b), LastHeapFree(s), ~ShrinkAnytime => s.MiniHeapFreeRover # h
    PROVE  Lowered(s, CutLastHeap(s))
<1> DEFINE x == CutLastHeap(s)
           q == s.list
           l == Front(q)
           mh == Without(s.mh, h)
           D == {c \in DOMAIN s.len : c < h}
           len == Restrict(s.len, D)
           NR == IF s.MiniHeapRover # h THEN s.MiniHeapRover ELSE IF l = << >> THEN NULL ELSE Head(l)
           NL == IF s.MiniHeapRover = h THEN 0 ELSE s.LargestSizeB4
<1> USE SizesAre
<1>1. /\ Sound(s) /\ Typed(s) /\ TilesAll(s) /\ RoversOk(s) /\ BelowBrk(s) /\ h \in Heaps(s) /\ h = Last(q) /\ q # << >>
      /\ \A g \in Heaps(s) : g <= h
      /\ b + s.len[b] = End(s, h) /\ End(s, h) + 1 = s.curbrk /\ LastFreeLen(s, h) = s.len[b] /\ h + 11 <= b
      /\ b \in Blocks(s.len)
  BY DEF AtBrk, Sound
<1>2. q \in Seq(Nat) /\ Rising(q) /\ Len(q) > 0 /\ \A z : z \in Heaps(s) <=> Contains(q, z)
  BY <1>1, ListedIs DEF Typed
<1>3. /\ h \in Nat /\ End(s, h) \in Nat /\ h + 11 < End(s, h) /\ End(s, h) = h + s.mh[h].len /\ s.mh[h].len \in Nat
      /\ h >= 1
  BY <1>1, EndIs
<1>4. AllFree(s, h)
  <2>1. s.mh[h].len - s.len[b] <= 11  BY <1>1 DEF LastHeapFree
  <2>2. b \in Nat /\ s.len[b] \in Nat  BY <1>1, BlocksAre DEF TilesAll
  <2> DEFINE v == s.len[b]
             k == s.mh[h].len
  <2>3. b + v = h + k /\ k - v <= 11 /\ h + 11 <= b /\ v \in Nat /\ k \in Nat /\ b \in Nat /\ h \in Nat
    BY <1>1, <1>3, <2>1, <2>2
  <2> HIDE DEF v, k
  <2>5. k - 11 = v  BY <2>3
  <2>4. s.mh[h].len - 11 = s.len[b]  BY <2>5 DEF v, k
  <2> QED  BY <1>1, <2>4 DEF AllFree
<1>5. \A a \in s.used : ~Inside(s, h, a)  BY <1>1, <1>4, AllFreeIs
<1>6. /\ l \in Seq(Nat) /\ Rising(l) /\ Len(l) = Len(q) - 1
      /\ \A z : Contains(l, z) <=> Contains(q, z) /\ z # h
  <2> HIDE DEF q
  <2> QED  BY <1>1, <1>2, FrontIs
<1>7. mh \in [Heaps(s) \ {h} -> Descriptor] /\ \A g \in Heaps(s) : g # h => mh[g] = s.mh[g]
  <2>1. s.mh \in [Heaps(s) -> Descriptor]  BY <1>1 DEF Typed
  <2>2. mh = [g \in DOMAIN s.mh \ {h} |-> s.mh[g]]  BY DEF Without, Restrict
  <2> HIDE DEF mh
  <2> QED  BY <2>1, <2>2
<1>8. l = << >> \/ (Head(l) \in Heaps(s) /\ Head(l) # h /\ \A z : Contains(l, z) => Head(l) <= z)
  <2> SUFFICES ASSUME l # << >>
               PROVE  Head(l) \in Heaps(s) /\ Head(l) # h /\ \A z : Contains(l, z) => Head(l) <= z
    OBVIOUS
  <2>1. Len(l) > 0 /\ Head(l) = l[1]  BY <1>6
  <2> HIDE DEF l
  <2>2. Contains(l, l[1]) /\ \A z : Contains(l, z) => l[1] <= z
    BY <1>6, <2>1, FirstAndLast
  <2> QED  BY <1>2, <1>6, <2>1, <2>2
<1>9. s.MiniHeapRover = NULL \/ s.MiniHeapRover \in Heaps(s)
  <2>1. Live(s, s.MiniHeapRover)  BY <1>1 DEF RoversOk
  <2> DEFINE R == s.MiniHeapRover
  <2>2. R = NULL \/ Contains(s.list, R)  BY <2>1 DEF Live
  <2> HIDE DEF R
  <2>3. R = NULL \/ R \in Heaps(s)  BY <1>2, <2>2
  <2> QED  BY <2>3 DEF R
<1>10. /\ NR = NULL \/ (NR \in Heaps(s) /\ NR # h)
       /\ NL \in (0..Top) \cup {Largest}
       /\ Skipped(s) => \A g \in Heaps(s) : g # h /\ g < NR => s.mh[g].largest_blk <= NL
  <2> HIDE DEF l
  <2>1. NR = NULL \/ (NR \in Heaps(s) /\ NR # h)  BY <1>8, <1>9
  <2>2. NL \in (0..Top) \cup {Largest}  BY <1>1 DEF Typed
  <2>3. CASE s.MiniHeapRover # h  BY <2>1, <2>2, <2>3 DEF Skipped
  <2>4. CASE s.MiniHeapRover = h
    <3>1. NR = IF l = << >> THEN NULL ELSE Head(l)  BY <2>4
    <3>2. \A g \in Heaps(s) : g # h => ~(g < NR)
      <4> SUFFICES ASSUME NEW g \in Heaps(s), g # h PROVE ~(g < NR)  OBVIOUS
      <4>1. g \in Nat /\ Contains(l, g)  BY <1>1, <1>2, <1>6, EndIs
      <4>2. NR = NULL \/ (NR <= g /\ NR \in Nat)
        <5>1. CASE l = << >>  BY <3>1, <5>1
        <5>2. CASE l # << >>
          <6>1. NR = Head(l)  BY <3>1, <5>2
          <6>2. Head(l) \in Heaps(s) /\ Head(l) <= g  BY <1>8, <4>1, <5>2
          <6> HIDE DEF NR
          <6>3. NR \in Heaps(s) /\ NR <= g  BY <6>1, <6>2
          <6> QED  BY <1>1, <6>3, EndIs
        <5> QED  BY <5>1, <5>2
      <4> HIDE DEF NR
      <4> QED  BY <4>1, <4>2
    <3> QED  BY <2>1, <2>2, <3>2
  <2> QED  BY <2>3, <2>4
<1>11. x = [s EXCEPT !.list = l, !.mh = mh, !.len = len, !.MiniHeapRover = NR, !.LargestSizeB4 = NL, !.curbrk = h]
  BY <1>1 DEF CutLastHeap
<1>12. len \in [D -> Int] /\ \A c \in D : len[c] = s.len[c]
  <2>1. \A c \in DOMAIN s.len : s.len[c] \in Int  BY <1>1, BlocksAre DEF TilesAll
  <2> QED  BY <2>1 DEF Restrict
<1> HIDE DEF NR, NL, l, mh, len, x
<1>13. /\ x.list = l /\ x.mh = mh /\ x.len = len /\ x.used = s.used /\ x.MiniHeapRover = NR
       /\ x.LargestSizeB4 = NL /\ x.MiniHeapFreeRover = s.MiniHeapFreeRover /\ x.curbrk = h /\ x.wild = s.wild
       /\ DOMAIN x = DOMAIN s
  BY <1>1, <1>11 DEF Typed
<1>14. Heaps(x) = Heaps(s) \ {h}
  <2>1. \A z : z \in Heaps(x) <=> z \in Heaps(s) /\ z # h
    BY <1>2, <1>6, <1>13, ListedIs
  <2> QED  BY <2>1
<1>15. Typed(x)
  <2>1. h \in Start..Top
    <3>1. Start <= h /\ s.curbrk \in Start..Top  BY <1>1 DEF BelowBrk, Typed
    <3> QED  BY <1>1, <1>3, <3>1
  <2> QED  BY <1>1, <1>6, <1>7, <1>10, <1>13, <1>14, <2>1 DEF Typed
<1>16. RoversOk(x)
  <2>1. Live(x, NR)  BY <1>2, <1>6, <1>10, <1>13 DEF Live
  <2>2. ~ShrinkAnytime => Live(x, s.MiniHeapFreeRover) /\ ~x.wild
    <3> SUFFICES ASSUME ~ShrinkAnytime PROVE Live(x, s.MiniHeapFreeRover) /\ ~x.wild
      OBVIOUS
    <3>1. Live(s, s.MiniHeapFreeRover) /\ ~s.wild  BY <1>1 DEF RoversOk
    <3> QED  BY <1>6, <1>13, <3>1 DEF Live
  <2> QED  BY <1>13, <2>1, <2>2 DEF RoversOk
<1>17. x.len \in [{c \in DOMAIN s.len : c < h \/ End(s, h) < c} -> Int] /\ \A c \in DOMAIN x.len : x.len[c] = s.len[c]
  <2>1. D = {c \in DOMAIN s.len : c < h \/ End(s, h) < c}  BY BelowLast
  <2> HIDE DEF D
  <2> QED  BY <1>12, <1>13, <2>1
<1>18. Removed(s, x, h)
  BY <1>1, <1>2, <1>5, <1>6, <1>7, <1>13, <1>15, <1>16, <1>17 DEF Removed
<1>19. /\ Sound(x) /\ \A g \in Heaps(x) : End(x, g) = End(s, g)
       /\ \A c \in s.used : x.len[c] = s.len[c]
  BY ONLY <1>18, RemovedIs
<1>20. Skipped(s) => Skipped(x)  BY <1>7, <1>10, <1>13, <1>14 DEF Skipped
<1>21. KeptBlocks(s, x)  BY <1>13, <1>19, <1>20 DEF KeptBlocks
<1>22. \A g \in Heaps(x) : g \in Heaps(s) /\ End(x, g) <= End(s, g) /\ End(x, g) < x.curbrk
  <2> SUFFICES ASSUME NEW g \in Heaps(x)
               PROVE  g \in Heaps(s) /\ End(x, g) <= End(s, g) /\ End(x, g) < x.curbrk
    OBVIOUS
  <2>1. g \in Heaps(s) /\ g # h /\ End(x, g) = End(s, g)  BY <1>14, <1>19
  <2>2. End(s, g) \in Nat /\ g \in Nat /\ g <= h  BY <1>1, <2>1, EndIs
  <2>3. End(s, g) < h \/ End(s, h) < g  BY <1>1, <2>1, EndIs
  <2> QED  BY <1>3, <1>13, <2>1, <2>2, <2>3
<1>23. h <= x.curbrk  BY <1>3, <1>13
<1> QED  BY <1>1, <1>21, <1>22, <1>23 DEF Lowered, x

LEMMA ShorterIs ==
    ASSUME NEW s, NEW x, NEW h, NEW b, Shorter(s, x, h, b)
    PROVE  /\ Sound(x) /\ Heaps(x) = Heaps(s) /\ End(x, h) = b
           /\ \A g \in Heaps(s) : g # h => End(x, g) = End(s, g)
           /\ \A c \in s.used : x.len[c] = s.len[c]
<1> DEFINE m == s.mh[h]
           n == End(s, h)
           U == s.used
           H == Heaps(s)
           e == Ends(s)
           f == [e EXCEPT ![h] = b]
           free == m.free
           r == Front(free)
<1> USE SizesAre
<1>1. /\ AtBrk(s, h, b) /\ h + 11 < b
      /\ Typed(x) /\ RoversOk(x) /\ x.list = s.list /\ x.used = U
      /\ x.len \in [DOMAIN s.len \ {n} -> Int] /\ x.len[b] = END_TAG
      /\ \A c \in DOMAIN x.len : c # b => x.len[c] = s.len[c]
      /\ \A g \in H : g # h => x.mh[g] = s.mh[g]
      /\ Desc(x.mh[h], b - h, r, Stepped(m, b), m.b4rover, m.largest_blk, m.numalloc, m.numfree - 1)
  BY SMTT(30) DEF Shorter
<1>2. /\ Sound(s) /\ h \in H /\ b = Last(free) /\ b # h /\ b + s.len[b] = n /\ b \in Blocks(s.len) /\ b \notin U
      /\ \A g \in H : g <= h
  BY <1>1 DEF AtBrk
<1>3. /\ Typed(s) /\ TilesAll(s) /\ h \in Nat /\ Tiling(s.len, H, e) /\ AloneOf(s.len, U) /\ e[h] = n
      /\ RingOf(free, h, n, DOMAIN s.len, U) /\ Counted(s, h) /\ Bounded(s, h) /\ n \in Nat /\ HeapOk(s, h)
  BY <1>2, SoundIs, HeapOkIs DEF HeapOk
<1>4. b \in Nat /\ b \in DOMAIN s.len /\ s.len[b] \in Nat /\ b < n /\ \A c \in DOMAIN s.len : c \in Nat /\ (c <= b \/ n <= c)
  <2>1. /\ b \in Nat /\ b \in DOMAIN s.len /\ s.len[b] \in Nat /\ 4 <= s.len[b]
        /\ \A c \in DOMAIN s.len : c \in Nat /\ (c <= b \/ b + s.len[b] <= c)
    BY <1>2, <1>3, BlocksAre
  <2> DEFINE v == s.len[b]
  <2>2. b + v = n /\ v \in Nat /\ 4 <= v /\ b \in Nat  BY <1>2, <2>1
  <2> HIDE DEF v, n
  <2>3. b < n  BY <1>3, <2>2
  <2> QED  BY <2>1, <2>2, <2>3 DEF v
<1>5. Heaps(x) = H /\ End(x, h) = b /\ \A g \in H : g # h => End(x, g) = End(s, g)
  <2>1. Heaps(x) = H  BY <1>1 DEF Heaps
  <2>2. x.mh[h].len = b - h  BY <1>1 DEF Desc
  <2>3. End(x, h) = b  BY <1>3, <1>4, <2>2 DEF End
  <2> QED  BY <1>1, <2>1, <2>3 DEF End
<1>6. Ends(x) = f
  <2>1. Ends(x) = [g \in H |-> End(x, g)]  BY <1>5 DEF Ends
  <2>2. e = [g \in H |-> End(s, g)]  BY DEF Ends
  <2> HIDE DEF e, n
  <2>3. f = [g \in H |-> IF g = h THEN b ELSE e[g]]  BY <2>2
  <2> QED  BY <1>5, <2>1, <2>2, <2>3
<1>7. LenOK(x.len) /\ TilesOf(x.len, H, f)
  <2>1. LenOK(s.len) /\ H \in SUBSET Addr /\ e \in [H -> Nat] /\ TilesOf(s.len, H, e)
    BY <1>3 DEF Tiling
  <2>2. /\ h \in H /\ b \in DOMAIN s.len /\ h + DESCRIPTOR < b /\ s.len[b] # END_TAG /\ b + s.len[b] = e[h]
        /\ x.len \in [DOMAIN s.len \ {e[h]} -> Int]
        /\ x.len[b] = END_TAG /\ \A c \in DOMAIN x.len : c # b => x.len[c] = s.len[c]
    BY <1>1, <1>2, <1>3, <1>4 DEF Blocks
  <2> HIDE DEF H, e
  <2>3. Cuts(s.len, x.len, H, e, h, b)  BY <2>1, <2>2 DEF Cuts
  <2> QED  BY ONLY <2>3, CutTiles
<1>8. Tiling(x.len, Heaps(x), Ends(x)) /\ TilesAll(x)
  <2>1. H \subseteq Addr /\ e \in [H -> Nat]  BY <1>3 DEF Tiling
  <2>2. f \in [H -> Nat]
    <3> HIDE DEF H, e, n
    <3> QED  BY <1>2, <1>4, <2>1
  <2> QED  BY <1>5, <1>6, <1>7, <2>1, <2>2 DEF Tiling, TilesAll
<1>9. DOMAIN x.len = DOMAIN s.len \ {n}  BY <1>1
<1>10. \A c : c \in Blocks(x.len) <=> c \in Blocks(s.len) /\ c # b
  <2>1. s.len[n] = END_TAG  BY <1>2, <1>3, HeapsAre
  <2> HIDE DEF n
  <2> QED  BY <1>1, <1>4, <1>9, <2>1 DEF Blocks
<1>11. AloneOf(x.len, x.used)
  <2>1. x.used \subseteq Blocks(x.len)  BY <1>1, <1>2, <1>3, <1>10 DEF AloneOf
  <2>2. ASSUME NEW c \in Blocks(x.len), c \notin x.used
        PROVE  c + x.len[c] \in x.used \/ c + x.len[c] \notin Blocks(x.len)
    <3>1. c \in Blocks(s.len) /\ c \notin U /\ c # b  BY <1>1, <1>10, <2>2
    <3>2. c + s.len[c] \in U \/ c + s.len[c] \notin Blocks(s.len)
      BY <1>3, <3>1 DEF AloneOf
    <3>3. x.len[c] = s.len[c]  BY <1>1, <2>2, <3>1 DEF Blocks
    <3> QED  BY <1>1, <1>10, <3>2, <3>3
  <2> QED  BY <2>1, <2>2 DEF AloneOf
<1>12. U \subseteq DOMAIN s.len /\ n \notin U
  <2>1. n \notin Blocks(s.len)  BY <1>2, <1>3, HeapsAre
  <2> HIDE DEF n
  <2> QED  BY <1>3, <2>1 DEF AloneOf, Blocks
<1>13. /\ free \in Seq(Nat) /\ Rising(free) /\ Len(free) > 0 /\ free[1] = h /\ Len(free) \in Nat
       /\ Contains(free, b) /\ \A y : Contains(free, y) => y <= b
  <2>1. free \in Seq(Nat) /\ Rising(free) /\ Len(free) > 0 /\ free[1] = h
    BY <1>3 DEF RingOf
  <2> HIDE DEF free
  <2> QED  BY <1>2, <2>1, FirstAndLast
<1>14. /\ r \in Seq(Nat) /\ Rising(r) /\ Len(r) = Len(free) - 1 /\ Len(r) > 0 /\ r[1] = h
       /\ \A y : Contains(r, y) <=> Contains(free, y) /\ y # b
  <2>1. Contains(free, h)  BY <1>3 DEF RingOf
  <2> HIDE DEF free
  <2>2. /\ r \in Seq(Nat) /\ Rising(r) /\ Len(r) = Len(free) - 1
        /\ \A y : Contains(r, y) <=> Contains(free, y) /\ y # b
        /\ \A i \in 1..Len(r) : r[i] = free[i]
    BY <1>2, <1>13, FrontIs
  <2> HIDE DEF r
  <2>3. Contains(r, h)  BY <1>2, <2>1, <2>2
  <2>4. Len(r) > 0  BY <1>13, <2>2, <2>3 DEF Contains
  <2> QED  BY <1>13, <2>2, <2>4
<1>15. Ring(x, h)
  <2>1. \A y : Contains(free, y) <=> y = h \/ (h < y /\ y < n /\ y \in DOMAIN s.len \ U)
    BY <1>3 DEF RingOf
  <2>2. \A y : Contains(r, y) <=> y = h \/ (h < y /\ y < b /\ y \in DOMAIN x.len \ x.used)
    <3> HIDE DEF n, r, free
    <3>1. ASSUME NEW y, Contains(r, y), y # h PROVE h < y /\ y < b /\ y \in DOMAIN x.len \ x.used
      <4>1. Contains(free, y) /\ y # b  BY <1>14, <3>1
      <4>2. h < y /\ y < n /\ y \in DOMAIN s.len \ U  BY <2>1, <3>1, <4>1
      <4>3. y \in Nat /\ y <= b  BY <1>4, <1>13, <4>1, <4>2
      <4>4. y # n  BY <1>3, <4>2, <4>3
      <4> QED  BY <1>1, <1>4, <1>9, <4>1, <4>2, <4>3, <4>4
    <3>2. ASSUME NEW y, h < y, y < b, y \in DOMAIN x.len \ x.used PROVE Contains(r, y)
      <4>1. y \in DOMAIN s.len \ U /\ y \in Nat /\ y # b /\ y < n
        BY <1>1, <1>3, <1>4, <1>9, <3>2
      <4> QED  BY <1>14, <2>1, <3>2, <4>1
    <3>3. Contains(r, h)  BY <1>2, <1>14, <2>1
    <3> QED  BY <3>1, <3>2, <3>3
  <2> HIDE DEF r
  <2>3. RingOf(r, h, b, DOMAIN x.len, x.used)  BY <1>14, <2>2 DEF RingOf
  <2> QED  BY <1>1, <1>5, <2>3 DEF Ring, Desc
<1>16. \A c \in U : Inside(x, h, c) <=> Inside(s, h, c)
  <2> SUFFICES ASSUME NEW c \in U PROVE Inside(x, h, c) <=> Inside(s, h, c)  OBVIOUS
  <2>1. c \in DOMAIN s.len /\ c # b /\ c \in Nat /\ (c <= b \/ n <= c)
    BY <1>2, <1>4, <1>12
  <2> HIDE DEF n
  <2>2. c < n <=> c < b  BY <1>3, <1>4, <2>1
  <2> QED  BY <1>5, <2>2 DEF Inside, n
<1>17. Counted(x, h)
  <2> DEFINE S == {c \in U : Inside(s, h, c)}
             C == {c \in x.used : Inside(x, h, c)}
  <2>1. C = S  BY <1>1, <1>16
  <2>2. m.numalloc = Cardinality(S) /\ m.numfree = Len(free) - 1  BY <1>3 DEF Counted
  <2>3. x.mh[h].free = r /\ x.mh[h].numfree = m.numfree - 1 /\ x.mh[h].numalloc = m.numalloc
    BY <1>1 DEF Desc
  <2>4. x.mh[h].numfree = Len(r) - 1
    <3> HIDE DEF r, free
    <3> QED  BY <1>13, <1>14, <2>2, <2>3
  <2>5. x.mh[h].numalloc = Cardinality(C)  BY ONLY <2>1, <2>2, <2>3
  <2> QED  BY ONLY <2>3, <2>4, <2>5 DEF Counted, C
<1>18. Bounded(x, h)
  <2> DEFINE R == Stepped(m, b)
  <2>1. Contains(free, R) /\ R # b /\ R \in Nat /\ \A c : c \in Nat /\ c < R => c < m.rover
    <3>1. HeapOk(s, h) /\ Contains(s.mh[h].free, b) /\ b # h  BY <1>2, <1>3, <1>13
    <3> QED  BY ONLY <3>1, SteppedIs
  <2> HIDE DEF R
  <2>2. \A c : Contains(r, c) => x.len[c] = s.len[c] \/ c = h
    <3> SUFFICES ASSUME NEW c, Contains(r, c), c # h PROVE x.len[c] = s.len[c]  OBVIOUS
    <3>1. Contains(free, c) /\ c # b  BY <1>14
    <3>2. c \in DOMAIN s.len /\ c # n
      <4>1. c < n /\ c \in DOMAIN s.len  BY <1>3, <3>1 DEF RingOf
      <4> QED  BY <1>3, <1>4, <4>1
    <3> QED  BY <1>1, <1>9, <3>1, <3>2
  <2>3. \A c : Contains(r, c) => Contains(free, c) /\ c \in Nat
    <3>1. \A c : Contains(free, c) => c \in Nat  BY <1>3, InRing
    <3> QED  BY <1>14, <3>1
  <2>4. Contains(r, R)  BY <1>14, <2>1
  <2>5. /\ m.b4rover \in 0..Top /\ m.largest_blk \in (0..Top) \cup {Largest}
        /\ \A c : Contains(free, c) /\ c # h => s.len[c] <= m.largest_blk /\ (c < m.rover => s.len[c] <= m.b4rover)
    BY <1>3 DEF Bounded
  <2>6. x.mh[h].free = r /\ x.mh[h].rover = R /\ x.mh[h].b4rover = m.b4rover /\ x.mh[h].largest_blk = m.largest_blk
    BY <1>1 DEF Desc, R
  <2> HIDE DEF r, free, m
  <2>7. \A c : Contains(r, c) /\ c # h => x.len[c] <= m.largest_blk /\ (c < R => x.len[c] <= m.b4rover)
    BY <2>1, <2>2, <2>3, <2>5
  <2> QED  BY <2>4, <2>5, <2>6, <2>7 DEF Bounded
<1>19. ASSUME NEW g \in H, g # h PROVE SameIn(s, x, g)
  <2>1. x.mh[g] = s.mh[g]  BY <1>1, <1>19
  <2>2. g \in Nat /\ End(s, g) \in Nat /\ (End(s, g) < h \/ n < g)
    <3>1. g = h \/ End(s, g) < h \/ End(s, h) < g  BY <1>2, <1>3, EndIs
    <3>2. g \in Nat /\ End(s, g) \in Nat  BY <1>3, EndIs
    <3> QED  BY <1>19, <3>1, <3>2
  <2>3. \A c : Inside(s, g, c) => c # n /\ c # b  BY <1>1, <1>3, <1>4, <2>2 DEF Inside
  <2> HIDE DEF n
  <2> QED  BY <1>1, <1>9, <2>1, <2>3 DEF SameIn
<1>20. Sound(x)
  <2>1. \A g \in Heaps(x) : \/ g \in Heaps(s) /\ SameIn(s, x, g)
                            \/ Ring(x, g) /\ Counted(x, g) /\ Bounded(x, g)
    BY <1>5, <1>15, <1>17, <1>18, <1>19
  <2>2. Sound(s) /\ Typed(x) /\ TilesAll(x) /\ AloneOf(x.len, x.used) /\ RoversOk(x)
    BY <1>1, <1>2, <1>8, <1>11
  <2> QED  BY ONLY <2>1, <2>2, SoundFrom
<1>21. \A c \in U : x.len[c] = s.len[c]  BY <1>1, <1>2, <1>9, <1>12
<1> QED  BY <1>5, <1>20, <1>21

CutDesc(m, d, b, v) ==
    /\ m \in Descriptor /\ m.len - v \in Nat /\ Stepped(m, b) \in Nat /\ Front(m.free) \in Seq(Nat)
    /\ d = [m EXCEPT !.len = @ - v, !.numfree = @ - 1, !.free = Front(@),
                     !.rover = IF @ = b THEN Before(m.free, b) ELSE @]

LEMMA CutDescIs ==
    ASSUME NEW m, NEW d, NEW b, NEW v, CutDesc(m, d, b, v)
    PROVE  Desc(d, m.len - v, Front(m.free), Stepped(m, b), m.b4rover, m.largest_blk, m.numalloc, m.numfree - 1)
<1> DEFINE f == Front(m.free)
           r == Stepped(m, b)
           l == m.numfree - 1
           k == m.len - v
<1>1. m \in Descriptor /\ r \in Nat /\ f \in Seq(Nat) /\ l \in Int /\ k \in Nat
  BY DEF CutDesc, Descriptor
<1>2. d = [m EXCEPT !.len = k, !.numfree = l, !.free = f, !.rover = r]
  BY <1>1 DEF CutDesc, Descriptor, Stepped
<1> HIDE DEF r, f, l, k
<1>3. Desc(d, k, f, r, m.b4rover, m.largest_blk, m.numalloc, l)
  BY <1>1, <1>2 DEF Desc, Descriptor
<1> QED  BY <1>3 DEF r, f, l, k

CutTo(s, h, d, len, c) == [s EXCEPT !.len = len, !.mh[h] = d, !.curbrk = c]

LEMMA CutFields ==
    ASSUME NEW s, Typed(s), NEW h, NEW d, NEW len, NEW c
    PROVE  CutTo(s, h, d, len, c) = Changed([s EXCEPT !.curbrk = c], h, len, s.used, d)
<1> DEFINE mh == [s.mh EXCEPT ![h] = d]
           x == [s EXCEPT !.len = len, !.mh = mh, !.curbrk = c]
           q == [s EXCEPT !.curbrk = c]
           y == [q EXCEPT !.len = len, !.used = s.used, !.mh = mh]
<1>1. "curbrk" # "mh"  OBVIOUS
<1>2. q.mh = s.mh  BY DEF Typed
<1>3. CutTo(s, h, d, len, c) = x  BY DEF Typed, CutTo
<1>4. Changed(q, h, len, s.used, d) = y  BY <1>2 DEF Changed, Typed
<1> HIDE DEF mh
<1>5. x = y  BY DEF Typed
<1> QED  BY <1>3, <1>4, <1>5

LEMMA CutLastFreeIs ==
    ASSUME NEW s, NEW h, NEW b, AtBrk(s, h, b), ~LastHeapFree(s)
    PROVE  Lowered(s, CutLastFree(s))
<1> DEFINE x == CutLastFree(s)
           m == s.mh[h]
           v == s.len[b]
           n == End(s, h)
           c == b + TAG_SIZE
           len == With(Without(s.len, n), b, END_TAG)
           d == [m EXCEPT !.len = @ - v, !.numfree = @ - 1, !.free = Front(@),
                          !.rover = IF @ = b THEN Before(m.free, b) ELSE @]
           D == DOMAIN s.len
<1> USE SizesAre
<1>1. /\ Sound(s) /\ Typed(s) /\ TilesAll(s) /\ RoversOk(s) /\ BelowBrk(s) /\ h \in Heaps(s) /\ h = Last(s.list)
      /\ \A g \in Heaps(s) : g <= h
      /\ b + v = n /\ n + 1 = s.curbrk /\ LastFreeLen(s, h) = v /\ h + 11 <= b
      /\ b \in Blocks(s.len) /\ b \notin s.used /\ b # h /\ b = Last(m.free) /\ HeapOk(s, h)
  BY SoundIs DEF AtBrk, Sound
<1>2. /\ h \in Nat /\ n \in Nat /\ h + 11 < n /\ n = h + m.len /\ m.len \in Nat
      /\ h >= 1 /\ n \in D
  BY <1>1, EndIs
<1>3. b \in Nat /\ v \in Nat /\ 4 <= v /\ b \in D /\ D \subseteq Nat /\ \A y \in D : s.len[y] \in Int
  BY <1>1, BlocksAre DEF TilesAll
<1>4. h + 11 < b
  <2>1. ~(m.len - v <= 11)  BY <1>1 DEF LastHeapFree
  <2> DEFINE k == m.len
  <2>2. b + v = n /\ n = h + k /\ k \in Nat /\ ~(k - v <= 11)  BY <1>1, <1>2, <2>1
  <2> HIDE DEF v, k, n
  <2> QED  BY <1>2, <1>3, <2>2
<1>5. m \in Descriptor /\ m.len - v \in Nat /\ m.len - v = b - h /\ c \in Start..Top
  <2>1. m \in Descriptor  BY <1>1 DEF Typed
  <2>2. Start <= h /\ s.curbrk \in Start..Top  BY <1>1 DEF BelowBrk, Typed
  <2> DEFINE k == m.len
             B == s.curbrk
  <2>3. b + v = n /\ n = h + k /\ k \in Nat /\ Start <= h /\ B \in Start..Top /\ n + 1 = B
    BY <1>1, <1>2, <2>2
  <2> HIDE DEF v, k, n, B
  <2>4. k - v \in Nat /\ k - v = b - h /\ c \in Start..Top  BY <1>2, <1>3, <1>4, <2>3
  <2> QED  BY <2>1, <2>4 DEF k
<1>6. Contains(m.free, b) /\ Stepped(m, b) \in Nat /\ Front(m.free) \in Seq(Nat)
  <2>1. m.free \in Seq(Nat) /\ Rising(m.free) /\ Len(m.free) > 0
    BY <1>1 DEF HeapOk, Ring, RingOf
  <2>2. Contains(m.free, b)
    <3> DEFINE f == m.free
    <3> HIDE DEF f
    <3>1. Contains(f, b)  BY <1>1, <2>1, FirstAndLast DEF f
    <3> QED  BY <3>1 DEF f
  <2>3. HeapOk(s, h) /\ Contains(s.mh[h].free, b) /\ b # h  BY <1>1, <2>2
  <2>4. Stepped(m, b) \in Nat  BY ONLY <2>3, SteppedIs
  <2>5. Front(m.free) \in Seq(Nat)
    <3> DEFINE f == m.free
    <3> HIDE DEF f
    <3>1. Front(f) \in Seq(Nat)  BY <2>1, FrontIs DEF f
    <3> QED  BY <3>1 DEF f
  <2> QED  BY <2>2, <2>4, <2>5
<1>7. d \in Descriptor /\ Desc(d, b - h, Front(m.free), Stepped(m, b), m.b4rover, m.largest_blk, m.numalloc, m.numfree - 1)
  <2>1. CutDesc(m, d, b, v)  BY <1>5, <1>6 DEF CutDesc
  <2>2. Desc(d, m.len - v, Front(m.free), Stepped(m, b), m.b4rover, m.largest_blk, m.numalloc, m.numfree - 1)
    BY ONLY <2>1, CutDescIs
  <2>3. m.len - v = b - h  BY <1>5
  <2> HIDE DEF d, m, v
  <2>4. Desc(d, b - h, Front(m.free), Stepped(m, b), m.b4rover, m.largest_blk, m.numalloc, m.numfree - 1)
    BY ONLY <2>2, <2>3
  <2> QED  BY <2>4 DEF Desc
<1>8. x = Changed([s EXCEPT !.curbrk = c], h, len, s.used, d)
  <2>1. x = CutTo(s, h, d, With(Without(s.len, b + s.len[b]), b, END_TAG), c)
    BY <1>1 DEF CutLastFree, CutTo
  <2>2. b + s.len[b] = n  BY <1>1
  <2>3. x = CutTo(s, h, d, len, c)  BY ONLY <2>1, <2>2
  <2>4. Typed(s)  BY <1>1
  <2> HIDE DEF x, d, len, c
  <2>5. CutTo(s, h, d, len, c) = Changed([s EXCEPT !.curbrk = c], h, len, s.used, d)
    BY ONLY <2>4, CutFields
  <2> QED  BY ONLY <2>3, <2>5
<1> HIDE DEF x, d, len, c
<1>9. /\ Typed(x) /\ x.list = s.list /\ x.len = len /\ x.used = s.used /\ x.mh[h] = d
      /\ \A g \in Heaps(s) : g # h => x.mh[g] = s.mh[g]
      /\ x.MiniHeapRover = s.MiniHeapRover /\ x.LargestSizeB4 = s.LargestSizeB4
      /\ x.MiniHeapFreeRover = s.MiniHeapFreeRover /\ x.curbrk = c /\ x.wild = s.wild
  <2>1. Typed(s) /\ h \in Heaps(s) /\ d \in Descriptor /\ c \in Start..Top
    BY <1>1, <1>5, <1>7
  <2> QED  BY ONLY <1>8, <2>1, BrkChanged
<1>10. RoversOk(x)  BY <1>1, <1>9 DEF RoversOk, Live
<1>11. /\ x.len \in [D \ {n} -> Int] /\ x.len[b] = END_TAG
       /\ \A y \in DOMAIN x.len : y # b => x.len[y] = s.len[y]
  <2>1. b # n /\ b \in D /\ \A y \in D : s.len[y] \in Int  BY <1>1, <1>2, <1>3
  <2>2. s.len = [y \in D |-> s.len[y]]  BY <1>1 DEF TilesAll, Tiling, LenOK
  <2> HIDE DEF n, D
  <2>3. len = [y \in D \ {n} |-> IF y = b THEN END_TAG ELSE s.len[y]]
    BY <2>1, <2>2 DEF len, With, Without, Restrict, D
  <2> QED  BY <1>9, <2>1, <2>3
<1>12. Desc(x.mh[h], b - h, Front(m.free), Stepped(m, b), m.b4rover, m.largest_blk, m.numalloc, m.numfree - 1)
  BY <1>7, <1>9
<1>13. Shorter(s, x, h, b)
  <2> HIDE DEF m, n
  <2> QED  BY <1>4, <1>9, <1>10, <1>11, <1>12 DEF Shorter, m, n
<1>14. /\ Sound(x) /\ Heaps(x) = Heaps(s) /\ End(x, h) = b
       /\ \A g \in Heaps(s) : g # h => End(x, g) = End(s, g)
       /\ \A y \in s.used : x.len[y] = s.len[y]
  BY ONLY <1>13, ShorterIs
<1>15. Skipped(s) => Skipped(x)
  <2>1. x.mh[h].largest_blk = s.mh[h].largest_blk  BY <1>12 DEF Desc
  <2>2. \A g \in Heaps(s) : x.mh[g].largest_blk = s.mh[g].largest_blk  BY <1>9, <2>1
  <2> QED  BY <1>9, <1>14, <2>2 DEF Skipped
<1>16. KeptBlocks(s, x)  BY <1>9, <1>14, <1>15 DEF KeptBlocks
<1>17. \A g \in Heaps(x) : g \in Heaps(s) /\ End(x, g) <= End(s, g) /\ End(x, g) < x.curbrk
  <2> SUFFICES ASSUME NEW g \in Heaps(s)
               PROVE  End(x, g) <= End(s, g) /\ End(x, g) < x.curbrk
    BY <1>14
  <2>1. CASE g = h
    <3>1. End(x, g) = b /\ b <= n /\ x.curbrk = b + 1
      BY <1>1, <1>3, <1>9, <1>14, <2>1 DEF c
    <3> QED  BY <1>3, <2>1, <3>1
  <2>2. CASE g # h
    <3>1. End(x, g) = End(s, g) /\ End(s, g) \in Nat /\ g \in Nat /\ g <= h /\ (End(s, g) < h \/ n < g)
      BY <1>1, <1>14, <2>2, EndIs
    <3>2. x.curbrk = b + 1  BY <1>9 DEF c
    <3> HIDE DEF n
    <3> QED  BY <1>2, <1>3, <1>4, <3>1, <3>2
  <2> QED  BY <2>1, <2>2
<1>18. h <= x.curbrk  BY <1>2, <1>3, <1>4, <1>9 DEF c
<1> QED  BY <1>1, <1>16, <1>17, <1>18 DEF Lowered, x

\* What _nheapshrink does.
LEMMA NheapshrinkIs ==
    ASSUME NEW s, Sound(s), platform \in {"NT", "brk"}, platform = "brk" => BelowBrk(s),
           platform = "brk" /\ ~ShrinkAnytime => ~CutsFreeRover(s)
    PROVE  Fewer(s, nheapshrink(s)) \/ (platform = "brk" /\ Lowered(s, nheapshrink(s)))
<1> DEFINE h == Last(s.list)
           b == Last(s.mh[h].free)
<1>1. CASE platform = "NT"
  <2>1. nheapshrink(s) = ReleaseFreeHeaps(s)  BY <1>1 DEF nheapshrink
  <2> QED  BY <2>1, ReleaseFreeHeapsIs
<1>2. CASE platform = "brk" /\ ~CanLowerBreak(s)
  <2>1. nheapshrink(s) = s  BY <1>2 DEF nheapshrink
  <2> QED  BY <2>1, FewerSelf
<1>3. CASE platform = "brk" /\ CanLowerBreak(s)
  <2>1. AtBrk(s, h, b)  BY <1>3, AtBrkIs
  <2> HIDE DEF b
  <2>2. CASE LastHeapFree(s)
    <3>1. nheapshrink(s) = CutLastHeap(s)  BY <1>3, <2>2 DEF nheapshrink
    <3>2. ~ShrinkAnytime => s.MiniHeapFreeRover # h  BY <1>3, <2>2 DEF CutsFreeRover
    <3> HIDE DEF h
    <3>3. Lowered(s, CutLastHeap(s))  BY ONLY <2>1, <2>2, <3>2, CutLastHeapIs
    <3> QED  BY <1>3, <3>1, <3>3
  <2>3. CASE ~LastHeapFree(s)
    <3>1. nheapshrink(s) = CutLastFree(s)  BY <1>3, <2>3 DEF nheapshrink
    <3> HIDE DEF h
    <3>2. Lowered(s, CutLastFree(s))  BY ONLY <2>1, <2>3, CutLastFreeIs
    <3> QED  BY <1>3, <3>1, <3>2
  <2> QED  BY <2>2, <2>3
<1> QED  BY <1>1, <1>2, <1>3

-------------------------------------------------------------------------------
LEMMA PlatformIs ==
    ASSUME NEW s, Situated(s)
    PROVE  /\ platform \in {"NT", "brk"} /\ Sound(s) /\ Typed(s) /\ TilesAll(s) /\ Lies(s) /\ OwnApart(s)
           /\ platform = "brk" => BelowBrk(s)
           /\ s.curbrk \in Nat /\ \A o \in own : o \in Nat
BY HeapAssumption DEF Situated, Lies, Sound, Typed, OwnApart, Addr

\* Miniheaps at their places, but for those that are gone.
LEMMA SituatedFewer ==
    ASSUME NEW s, Situated(s), NEW t, Sound(t), t.curbrk = s.curbrk, Heaps(t) \subseteq Heaps(s),
           \A g \in Heaps(t) : End(t, g) = End(s, g)
    PROVE  Situated(t)
<1>1. Lies(t)  BY DEF Situated, Lies, BelowBrk
<1>2. OwnApart(t)  BY DEF Situated, OwnApart
<1> QED  BY <1>1, <1>2 DEF Situated

LEMMA SituatedSame ==
    ASSUME NEW s, Situated(s), NEW t, Sound(t), t.list = s.list, Ends(t) = Ends(s), t.curbrk = s.curbrk
    PROVE  Situated(t)
<1>1. Heaps(t) = Heaps(s)  BY DEF Heaps
<1>2. \A g \in Heaps(t) : End(t, g) = End(s, g)
  <2> SUFFICES ASSUME NEW g \in Heaps(t) PROVE End(t, g) = End(s, g)  OBVIOUS
  <2>1. Ends(t)[g] = End(t, g) /\ Ends(s)[g] = End(s, g)  BY <1>1 DEF Ends
  <2> QED  BY <2>1
<1> QED  BY <1>1, <1>2, SituatedFewer

LEMMA SituatedLowered ==
    ASSUME NEW s, Situated(s), NEW t, platform = "brk", Lowered(s, t)
    PROVE  Situated(t)
<1> USE SizesAre
<1>1. /\ Sound(s) /\ Typed(s) /\ TilesAll(s) /\ BelowBrk(s) /\ s.curbrk \in Nat /\ OwnApart(s)
      /\ \A o \in own : o \in Nat
  BY PlatformIs
<1>2. /\ Sound(t) /\ Typed(t) /\ TilesAll(t)
      /\ \A g \in Heaps(t) : g \in Heaps(s) /\ End(t, g) <= End(s, g) /\ End(t, g) < t.curbrk
  BY DEF Lowered, KeptBlocks, Sound
<1>3. PICK h \in Heaps(s) : End(s, h) + TAG_SIZE = s.curbrk /\ h <= t.curbrk
  BY DEF Lowered
<1>4. t.curbrk \in Nat  BY <1>2 DEF Typed
<1>5. BelowBrk(t)  BY <1>1, <1>2 DEF BelowBrk
<1>6. OwnApart(t)
  <2>1. ASSUME NEW o \in own PROVE o < t.curbrk /\ \A g \in Heaps(t) : o < g \/ End(t, g) < o
    <3>1. o \in Nat /\ o < s.curbrk /\ \A g \in Heaps(s) : o < g \/ End(s, g) < o
      BY <1>1, <2>1 DEF OwnApart
    <3>2. \A g \in Heaps(s) : g \in Nat /\ End(s, g) \in Nat  BY <1>1, EndIs
    <3>3. \A g \in Heaps(t) : End(t, g) \in Nat  BY <1>2, EndIs
    <3>4. o < h  BY <1>1, <1>3, <3>1, <3>2
    <3>5. o < t.curbrk  BY <1>3, <1>4, <3>1, <3>2, <3>4
    <3> QED  BY <1>2, <3>1, <3>2, <3>3, <3>5
  <2> QED  BY <1>1, <2>1 DEF OwnApart
<1> QED  BY <1>2, <1>5, <1>6 DEF Situated, Lies

LEMMA SituatedGained ==
    ASSUME NEW s, Situated(s), NEW t, platform = "brk", Gained(s, t)
    PROVE  Situated(t)
<1> USE SizesAre
<1>1. /\ Sound(s) /\ Typed(s) /\ TilesAll(s) /\ BelowBrk(s) /\ s.curbrk \in Start..Top /\ OwnApart(s)
      /\ \A o \in own : o \in Nat
  BY PlatformIs DEF Typed
<1>2. /\ Sound(t) /\ Typed(t) /\ TilesAll(t) /\ s.curbrk <= t.curbrk /\ t.curbrk \in Start..Top
      /\ \A g \in Heaps(t) : WasThere(s, t, g)
  BY DEF Gained, KeptBlocks, Sound, Typed
<1>3. /\ \A g \in Heaps(s) : g \in Nat /\ End(s, g) \in Nat
      /\ \A g \in Heaps(t) : g \in Nat /\ End(t, g) \in Nat
  BY <1>1, <1>2, EndIs
<1>4. \A g \in Heaps(s) : Start <= g /\ End(s, g) < s.curbrk  BY <1>1 DEF BelowBrk
<1>5. BelowBrk(t)
  <2>1. ASSUME NEW g \in Heaps(t) PROVE Start <= g /\ End(t, g) < t.curbrk
    <3>1. CASE g \in Heaps(s) /\ End(t, g) = End(s, g)  BY <1>1, <1>2, <1>3, <1>4, <3>1
    <3>2. CASE g \in Heaps(s) /\ End(t, g) + TAG_SIZE = t.curbrk
      BY <1>2, <1>3, <1>4, <3>2
    <3>3. CASE g = s.curbrk /\ End(t, g) + TAG_SIZE = t.curbrk
      BY <1>1, <1>2, <1>3, <3>3
    <3> QED  BY <1>2, <3>1, <3>2, <3>3 DEF WasThere
  <2> QED  BY <2>1 DEF BelowBrk
<1>6. OwnApart(t)
  <2>1. ASSUME NEW o \in own, NEW g \in Heaps(t) PROVE o < g \/ End(t, g) < o
    <3>1. o \in Nat /\ o < s.curbrk /\ \A x \in Heaps(s) : o < x \/ End(s, x) < o
      BY <1>1, <2>1 DEF OwnApart
    <3>2. CASE g \in Heaps(s) /\ End(t, g) = End(s, g)  BY <3>1, <3>2
    <3>3. CASE g \in Heaps(s) /\ End(s, g) + TAG_SIZE = s.curbrk
      <4>1. ~(End(s, g) < o)  BY <1>1, <1>3, <3>1, <3>3
      <4> QED  BY <3>1, <3>3, <4>1
    <3>4. CASE g = s.curbrk  BY <3>1, <3>4
    <3> QED  BY <1>2, <3>2, <3>3, <3>4 DEF WasThere
  <2>2. \A o \in own : o < t.curbrk  BY <1>1, <1>2 DEF OwnApart
  <2> QED  BY <1>1, <2>1, <2>2 DEF OwnApart
<1> QED  BY <1>2, <1>5, <1>6, SMTT(30) DEF Situated, Lies

\* The heap has tried to grow.
LEMMA SituatedExpanded ==
    ASSUME NEW s, Situated(s), NEW amount, amount \in Nat, NEW r \in ExpandDGROUP(s, amount)
    PROVE  Situated(r.heap) /\ KeptBlocks(s, r.heap) /\ (~r.ok => Fewer(s, r.heap))
<1>1. platform \in {"NT", "brk"} /\ Sound(s) /\ (platform = "brk" => BelowBrk(s)) /\ Lies(s) /\ OwnApart(s)
  BY PlatformIs
<1>2. Expanded(s, r)  BY <1>1, ExpandDGROUPIs
<1> DEFINE t == r.heap
<1> HIDE DEF t
<1>3. KeptBlocks(s, t) /\ (~r.ok => Fewer(s, t))  BY <1>1, <1>2 DEF Expanded, Gained, t
<1>4. CASE platform = "brk"
  <2>1. Gained(s, t)  BY <1>2, <1>4 DEF Expanded, t
  <2>2. Situated(t)  BY <1>4, <2>1, SituatedGained
  <2> QED  BY <1>3, <2>2 DEF t
<1>5. CASE platform = "NT"
  <2>1. Sound(t) /\ t.curbrk = s.curbrk  BY <1>2, <1>3, <1>5 DEF Expanded, KeptBlocks, t
  <2>2. Lies(t) /\ OwnApart(t)  BY <1>1, <1>5, <2>1 DEF Lies, OwnApart
  <2>3. Situated(t)  BY <2>1, <2>2 DEF Situated
  <2> QED  BY <1>3, <2>3 DEF t
<1> QED  BY <1>1, <1>4, <1>5

\* The blocks of the program are as they were.
LEMMA OwnedKept ==
    ASSUME NEW s, NEW t, NEW g, NEW c, Owned(s, g, c), t.used = s.used, \A b \in s.used : t.len[b] = s.len[b]
    PROVE  Owned(t, g, c)
<1>1. \A p \in DOMAIN g : p - TAG_SIZE \in s.used  BY DEF Owned
<1> QED  BY <1>1 DEF Owned

LEMMA LoweredKept ==
    ASSUME NEW s, Situated(s), NEW t, Fewer(s, t) \/ (platform = "brk" /\ Lowered(s, t))
    PROVE  Situated(t) /\ KeptBlocks(s, t)
<1>1. CASE Fewer(s, t)  BY <1>1, SituatedFewer DEF Fewer, KeptBlocks
<1>2. CASE platform = "brk" /\ Lowered(s, t)  BY <1>2, SituatedLowered DEF Lowered
<1> QED  BY <1>1, <1>2

-------------------------------------------------------------------------------
\* The steps of malloc.

LEMMA FirstHeapIs ==
    ASSUME NEW s, Typed(s)
    PROVE  /\ s.list = << >> => nheapbeg(s) = NULL /\ Heaps(s) = {}
           /\ s.list # << >> => nheapbeg(s) \in Heaps(s) /\ \A h \in Heaps(s) : nheapbeg(s) <= h
<1> DEFINE q == s.list
<1>1. q \in Seq(Nat) /\ Rising(q) /\ \A y : y \in Heaps(s) <=> Contains(q, y)
  BY ListedIs DEF Typed
<1>2. CASE q = << >>  BY <1>2 DEF nheapbeg, Heaps, ToSet
<1>3. CASE q # << >>
  <2>1. Len(q) > 0 /\ nheapbeg(s) = q[1]  BY <1>1, <1>3 DEF nheapbeg
  <2> HIDE DEF q
  <2>2. Contains(q, q[1]) /\ \A x : Contains(q, x) => q[1] <= x
    BY <1>1, <2>1, FirstAndLast
  <2> QED  BY <1>1, <1>3, <2>1, <2>2 DEF q
<1> QED  BY <1>2, <1>3

LEMMA NumbersOf ==
    ASSUME NEW s, Sound(s)
    PROVE  /\ Typed(s) /\ TilesAll(s) /\ RoversOk(s) /\ s.LargestSizeB4 \in Nat /\ s.curbrk \in Start..Top
           /\ \A h \in Heaps(s) : h \in Nat /\ s.mh[h] \in Descriptor /\ s.mh[h].largest_blk \in Nat
           /\ \A h \in Heaps(s) : s.mh[h].largest_blk \in (0..Top) \cup {Largest}
<1>1. Typed(s) /\ TilesAll(s) /\ RoversOk(s) /\ \A h \in Heaps(s) : Bounded(s, h)
  BY DEF Sound
<1>2. \A h \in Heaps(s) : h \in Nat  BY <1>1, EndIs
<1>3. s.LargestSizeB4 \in (0..Top) \cup {Largest} /\ s.curbrk \in Start..Top /\ s.mh \in [Heaps(s) -> Descriptor]
  BY <1>1 DEF Typed
<1> QED  BY <1>1, <1>2, <1>3, SizesAre DEF Bounded, Descriptor

LEMMA SearchIs ==
    ASSUME NEW s, Sound(s), Skipped(s), NEW c, DOMAIN c = DOMAIN NoCall, c.amt \in Nat, Search(s, c)
    PROVE  Sought(s, c, near', call')
<1> DEFINE size == BlockSize(c.amt)
           atRover == size > s.LargestSizeB4 /\ s.MiniHeapRover # NULL
           x == IF atRover THEN s.MiniHeapRover ELSE nheapbeg(s)
           t == IF atRover THEN s ELSE [s EXCEPT !.LargestSizeB4 = 0]
           d == [c EXCEPT !.mhp = x]
<1> USE SizesAre
<1>1. near' = t /\ call' = d  BY DEF Search
<1>2. /\ Typed(s) /\ RoversOk(s) /\ s.LargestSizeB4 \in Nat
      /\ \A h \in Heaps(s) : h \in Nat /\ s.mh[h].largest_blk \in Nat
  BY NumbersOf
<1>3. size \in Nat  BY BlockSizeIs
<1>4. /\ DOMAIN d = DOMAIN NoCall /\ d.mhp = x
      /\ d.op = c.op /\ d.by = c.by /\ d.stg = c.stg /\ d.amt = c.amt
      /\ d.p2 = c.p2 /\ d.growth = c.growth /\ d.expanded = c.expanded
  <2> HIDE DEF x
  <2> QED  BY DEF NoCall
<1> HIDE DEF d, size
<1>5. CASE atRover
  <2>1. t = s /\ x = s.MiniHeapRover /\ x # NULL /\ size > s.LargestSizeB4  BY <1>5
  <2>2. Live(s, x)  BY <1>2, <2>1 DEF RoversOk
  <2>3. \A h \in Heaps(s) : h < x => s.mh[h].largest_blk <= s.LargestSizeB4 /\ s.mh[h].largest_blk < size
    BY <1>2, <1>3, <2>1 DEF Skipped
  <2>4. SameHeap(s, s)  BY <1>2 DEF SameHeap
  <2>5. Searched(s, d)  BY <1>4, <2>1, <2>2, <2>3 DEF Searched, size
  <2> HIDE DEF x, t
  <2> QED  BY <1>1, <1>4, <2>1, <2>4, <2>5 DEF Sought
<1>6. CASE ~atRover
  <2>1. x = nheapbeg(s) /\ t = [s EXCEPT !.LargestSizeB4 = 0]  BY <1>6
  <2> HIDE DEF x, t, atRover
  <2>2. /\ DOMAIN t = DOMAIN s /\ t.len = s.len /\ t.used = s.used /\ t.list = s.list /\ t.mh = s.mh
        /\ t.MiniHeapRover = s.MiniHeapRover /\ t.LargestSizeB4 = 0
        /\ t.MiniHeapFreeRover = s.MiniHeapFreeRover /\ t.curbrk = s.curbrk /\ t.wild = s.wild
    BY <1>2, <2>1 DEF Typed
  <2>3. Typed(t) /\ Heaps(t) = Heaps(s)  BY <1>2, <2>2 DEF Typed, Heaps
  <2>4. RoversOk(t)  BY <1>2, <2>2 DEF RoversOk, Live
  <2>5. SameHeap(s, t)  BY <2>2, <2>3, <2>4 DEF SameHeap
  <2>6. Searched(t, d)
    <3>1. CASE s.list = << >>
      <4>1. x = NULL /\ Heaps(s) = {}  BY <1>2, <2>1, <3>1, FirstHeapIs
      <4> QED  BY <1>4, <2>3, <4>1 DEF Searched, Live
    <3>2. CASE s.list # << >>
      <4>1. x \in Heaps(s) /\ \A h \in Heaps(s) : x <= h
        BY <1>2, <2>1, <3>2, FirstHeapIs
      <4>2. Contains(t.list, x) /\ x \in Nat  BY <1>2, <2>2, <4>1, ListedIs DEF Typed
      <4>3. \A h \in Heaps(s) : ~(h < x)  BY <1>2, <4>1, <4>2
      <4>4. x # NULL  BY <1>2, <4>1, EndIs, NumbersOf
      <4> QED  BY <1>4, <2>3, <4>2, <4>3, <4>4 DEF Searched, Live
    <3> QED  BY <3>1, <3>2
  <2> QED  BY <1>1, <1>4, <2>2, <2>5, <2>6 DEF Sought
<1> QED  BY <1>5, <1>6

LEMMA StillSituated ==
    ASSUME platform' = platform, own' = own, Situated(near')
    PROVE  Situated(near)'
BY DEF Situated, Lies, BelowBrk, OwnApart

LEMMA NowIs ==
    ASSUME IInv
    PROVE  /\ Situated(near) /\ Sound(near) /\ Typed(near) /\ Owned(near, given, call)
           /\ MovingOk(moving, given, call) /\ CallTyped(call) /\ MallocOk(near, call, moving)
           /\ ExpandOk(near, call, moving, given)
           /\ call.op # "malloc" => Skipped(near)
           /\ Idle => call = NoCall
BY DEF IInv, Situated, Sound, Rest, CallTyped, Idle

LEMMA SameHeapKeeps ==
    ASSUME NEW s, Situated(s), NEW t, SameHeap(s, t), t.curbrk = s.curbrk
    PROVE  /\ Situated(t) /\ Sound(t) /\ Heaps(t) = Heaps(s)
           /\ \A g, c : Owned(s, g, c) => Owned(t, g, c)
<1>1. Sound(s)  BY DEF Situated
<1>2. Sound(t) /\ Heaps(t) = Heaps(s) /\ Ends(t) = Ends(s)  BY <1>1, SameHeapIs
<1>3. t.list = s.list /\ t.len = s.len /\ t.used = s.used  BY DEF SameHeap
<1>4. Situated(t)  BY <1>2, <1>3, SituatedSame
<1> QED  BY <1>2, <1>3, <1>4, OwnedKept

LEMMA MallocBegins ==
    ASSUME IInv, Idle, NEW by \in {"program", "nrealloc"}, NEW amt \in Nat, MallocCall(by, amt),
           by = "nrealloc" => moving.at = "malloc", UNCHANGED <<platform, moving, given, own>>
    PROVE  IInv'
<1> DEFINE c == [NoCall EXCEPT !.op = "malloc", !.by = by, !.amt = amt]
           d == call'
           t == near'
<1>1. /\ Situated(near) /\ Sound(near) /\ Skipped(near) /\ Owned(near, given, call)
      /\ MovingOk(moving, given, call) /\ call = NoCall
  BY NowIs DEF Idle
<1>2. /\ DOMAIN c = DOMAIN NoCall /\ c.amt = amt /\ c.op = "malloc" /\ c.by = by /\ c.stg = NULL
      /\ c.p2 = NULL /\ c.growth = 0 /\ c.expanded \in BOOLEAN
  BY DEF NoCall
<1>3. Search(near, c)  BY DEF MallocCall
<1> HIDE DEF c
<1>4. Sought(near, c, t, d)  BY <1>1, <1>2, <1>3, SearchIs
<1> HIDE DEF t, d
<1>5. /\ SameHeap(near, t) /\ t.curbrk = near.curbrk /\ Searched(t, d) /\ DOMAIN d = DOMAIN NoCall
      /\ d.op = "malloc" /\ d.by = by /\ d.stg = NULL /\ d.amt = amt /\ d.p2 = NULL /\ d.growth = 0 /\ d.expanded \in BOOLEAN
  BY <1>2, <1>4 DEF Sought
<1>6. Situated(t) /\ Owned(t, given, call)  BY <1>1, <1>5, SameHeapKeeps
<1>7. Owned(t, given, d)  BY <1>1, <1>5, <1>6 DEF Owned, NoCall
<1>8. MovingOk(moving, given, d)  BY <1>1, <1>5 DEF MovingOk, NoCall
<1>9. CallTyped(d)
  <2>1. NULL \in 0..Top  BY SizesAre
  <2> QED  BY <1>5, <2>1 DEF CallTyped
<1>10. MallocOk(t, d, moving)  BY <1>5 DEF MallocOk
<1>11. ExpandOk(t, d, moving, given)  BY <1>5 DEF ExpandOk
<1>12. Situated(near)'  BY <1>6, StillSituated DEF t
<1>13. Rest'  BY <1>5 DEF Rest, d
<1> QED  BY <1>7, <1>8, <1>9, <1>10, <1>11, <1>12, <1>13 DEF IInv, t, d

LEMMA MallocKeeps ==
    ASSUME IInv, NEW amt \in Sizes, Malloc(amt)
    PROVE  IInv'
<1>1. amt \in Nat  BY HeapAssumption
<1> QED  BY <1>1, MallocBegins DEF Malloc

LEMMA ReallocMovesKeeps ==
    ASSUME IInv, ReallocMoves
    PROVE  IInv'
<1>1. moving.amt \in Nat  BY DEF IInv, MovingOk
<1> QED  BY <1>1, MallocBegins DEF ReallocMoves

LEMMA RoverSet ==
    ASSUME NEW f, Sound(f), NEW h \in Heaps(f), NEW v \in (0..Top) \cup {Largest}
    PROVE  LET t == AtRover(f, h, v)
           IN  SameHeap(f, t) /\ t.MiniHeapRover = h /\ t.LargestSizeB4 = v /\ t.curbrk = f.curbrk
<1> DEFINE t == AtRover(f, h, v)
<1>1. Typed(f) /\ RoversOk(f)  BY DEF Sound
<1>2. /\ DOMAIN t = DOMAIN f /\ t.len = f.len /\ t.used = f.used /\ t.list = f.list /\ t.mh = f.mh
      /\ t.MiniHeapRover = h /\ t.LargestSizeB4 = v
      /\ t.MiniHeapFreeRover = f.MiniHeapFreeRover /\ t.curbrk = f.curbrk /\ t.wild = f.wild
  BY <1>1 DEF Typed, AtRover
<1> HIDE DEF t
<1>3. Typed(t)  BY <1>1, <1>2 DEF Typed, Heaps
<1>4. RoversOk(t)
  <2>1. Contains(t.list, h)  BY <1>1, <1>2, ListedIs DEF Typed
  <2>2. Live(t, t.MiniHeapRover)  BY <1>2, <2>1 DEF Live
  <2>3. ~ShrinkAnytime => Live(t, t.MiniHeapFreeRover) /\ ~t.wild
    BY <1>1, <1>2 DEF RoversOk, Live
  <2> QED  BY <2>2, <2>3 DEF RoversOk
<1> QED  BY <1>2, <1>3, <1>4 DEF SameHeap, t

\* What the call of malloc leaves to _nrealloc.
LEMMA NoBlockGiven ==
    ASSUME IInv, call.op = "malloc", MallocReturns(NULL)
    PROVE  call' = NoCall /\ given' = given /\ MovingOk(moving', given', call')
<1>1. MovingOk(moving, given, call) /\ (call.by = "nrealloc" => moving.at = "malloc") /\ moving.at # "expand"
      /\ call.by \in {"program", "nrealloc"}
  BY DEF IInv, MallocOk, MovingOk, CallTyped
<1>2. call' = NoCall /\ given' = given  BY DEF MallocReturns
<1>3. CASE call.by = "program"
  <2>1. moving' = moving  BY <1>3 DEF MallocReturns
  <2> QED  BY <1>1, <1>2, <2>1 DEF MovingOk
<1>4. CASE call.by = "nrealloc"
  <2> DEFINE m == [moving EXCEPT !.at = "restore"]
  <2>1. moving' = m  BY <1>4 DEF MallocReturns
  <2>2. /\ DOMAIN m = DOMAIN moving /\ m.at = "restore" /\ m.stg = moving.stg /\ m.amt = moving.amt
        /\ m.old = moving.old /\ m.p = moving.p
    BY <1>1 DEF MovingOk, NotMoving
  <2> HIDE DEF m
  <2> QED  BY <1>1, <1>2, <1>4, <2>1, <2>2 DEF MovingOk
<1> QED  BY <1>1, <1>2, <1>3, <1>4

LEMMA BlockGiven ==
    ASSUME IInv, NEW a, Gives(a)
    PROVE  /\ call' = NoCall /\ MovingOk(moving', given', call')
           /\ given' = With(given, a + TAG_SIZE, call.amt) /\ a + TAG_SIZE \notin DOMAIN given
<1> DEFINE p == a + TAG_SIZE
           g == With(given, p, call.amt)
<1> USE SizesAre
<1>1. MovingOk(moving, given, call) /\ (call.by = "nrealloc" => moving.at = "malloc") /\ moving.at # "expand"
      /\ call.by \in {"program", "nrealloc"} /\ Owned(near, given, call)
  BY DEF IInv, MallocOk, MovingOk, CallTyped, Gives
<1>2. p # NULL /\ a = p - TAG_SIZE  BY DEF Gives
<1>3. p \notin DOMAIN given  BY <1>1, <1>2 DEF Owned, Gives
<1> HIDE DEF p
<1>4. call' = NoCall /\ given' = g  BY <1>2 DEF MallocReturns, Gives, p
<1>5. DOMAIN g = DOMAIN given \cup {p} /\ \A q \in DOMAIN given : g[q] = given[q]
  BY <1>3 DEF With
<1> HIDE DEF g
<1>6. CASE call.by = "program"
  <2>1. moving' = moving  BY <1>6 DEF MallocReturns, Gives
  <2> QED  BY <1>1, <1>3, <1>4, <1>5, <2>1 DEF MovingOk, p, g
<1>7. CASE call.by = "nrealloc"
  <2> DEFINE m == [moving EXCEPT !.at = "free", !.p = p]
  <2>1. moving' = m  BY <1>2, <1>7 DEF MallocReturns, Gives, p
  <2>2. /\ DOMAIN m = DOMAIN moving /\ m.at = "free" /\ m.stg = moving.stg /\ m.amt = moving.amt
        /\ m.old = moving.old /\ m.p = p
    BY <1>1 DEF MovingOk, NotMoving
  <2> HIDE DEF m
  <2>3. MovingOk(m, g, NoCall)  BY <1>1, <1>3, <1>5, <1>7, <2>2 DEF MovingOk
  <2> QED  BY <1>3, <1>4, <2>1, <2>3 DEF p, g
<1> QED  BY <1>1, <1>6, <1>7

\* Where the search is.
LEMMA VisitedIs ==
    ASSUME IInv, call.op = "malloc", call.mhp # NULL
    PROVE  /\ call.mhp \in Heaps(near) /\ HeapOk(near, call.mhp) /\ call.amt \in Nat
           /\ \A g \in Heaps(near) : g < call.mhp =>
                 near.mh[g].largest_blk <= near.LargestSizeB4 /\ near.mh[g].largest_blk < BlockSize(call.amt)
<1>1. Sound(near) /\ Typed(near) /\ Searched(near, call) /\ call.amt \in Nat
  BY NowIs DEF MallocOk, CallTyped
<1> DEFINE h == call.mhp
<1>2. Contains(near.list, h)  BY <1>1, Zenon DEF Searched, Live
<1>3. h \in Heaps(near)  BY <1>1, <1>2, ListedIs DEF Typed
<1>4. HeapOk(near, h)  BY <1>1, <1>3, SoundIs
<1> QED  BY <1>1, <1>3, <1>4 DEF Searched

\* A block has been found in the miniheap h: f.
LEMMA FoundKeeps ==
    ASSUME IInv, call.op = "malloc", call.mhp # NULL, NEW f, NEW a,
           Taken(near, f, call.mhp, a, BlockSize(call.amt)), MallocReturns(a + TAG_SIZE),
           near' = [f EXCEPT !.MiniHeapRover = call.mhp, !.LargestSizeB4 = f.LargestSizeB4],
           UNCHANGED <<platform, own>>
    PROVE  IInv'
<1> DEFINE h == call.mhp
           t == near'
           g == given'
           amt == call.amt
           p == a + TAG_SIZE
<1> USE SizesAre
<1>1. /\ Situated(near) /\ Sound(near) /\ Owned(near, given, call) /\ amt \in Nat /\ h \in Heaps(near)
      /\ \A x \in Heaps(near) : x < h => near.mh[x].largest_blk <= near.LargestSizeB4
  BY NowIs, VisitedIs
<1>2. /\ Only(near, f, h) /\ Outside(near, f, h) /\ HeapOk(f, h)
      /\ a \in Nat /\ a > 0 /\ a \notin near.used /\ f.used = near.used \cup {a}
      /\ \A c \in near.used : f.len[c] = near.len[c]
      /\ BlockSize(amt) <= f.len[a]
  BY DEF Taken
<1>3. Sound(f) /\ Heaps(f) = Heaps(near) /\ Ends(f) = Ends(near) /\ \A x \in Heaps(near) : x # h => SameIn(near, f, x)
  BY <1>1, <1>2, HeapChanged
<1>4. f.list = near.list /\ f.curbrk = near.curbrk /\ f.LargestSizeB4 = near.LargestSizeB4 /\ Typed(f)
  BY <1>2 DEF Only
<1>5. SameHeap(f, t) /\ t.MiniHeapRover = h /\ t.LargestSizeB4 = near.LargestSizeB4 /\ t.curbrk = f.curbrk
  <2>1. f.LargestSizeB4 \in (0..Top) \cup {Largest}  BY <1>4 DEF Typed
  <2>2. Sound(f) /\ h \in Heaps(f)  BY <1>1, <1>3
  <2>3. t = AtRover(f, h, f.LargestSizeB4)  BY DEF AtRover
  <2> HIDE DEF t, h
  <2>4. SameHeap(f, t) /\ t.MiniHeapRover = h /\ t.LargestSizeB4 = f.LargestSizeB4 /\ t.curbrk = f.curbrk
    BY ONLY <2>1, <2>2, <2>3, RoverSet, ZenonT(60)
  <2> QED  BY <1>4, <2>4
<1>6. /\ call' = NoCall /\ MovingOk(moving', g, call') /\ g = With(given, p, amt) /\ p \notin DOMAIN given
  <2>1. Gives(a)  BY <1>2 DEF Gives
  <2> QED  BY <2>1, BlockGiven
<1> HIDE DEF t, g
<1>7. Situated(f)  BY <1>1, <1>3, <1>4, SituatedSame
<1>8. Situated(t)  BY <1>5, <1>7, SameHeapKeeps
<1>9. Owned(f, g, NoCall)
  <2>1. /\ given \in [DOMAIN given -> Nat] /\ DOMAIN given \subseteq Addr
        /\ near.used = {q - TAG_SIZE : q \in DOMAIN given}
        /\ \A q \in DOMAIN given : given[q] + TAG_SIZE <= near.len[q - TAG_SIZE]
    BY <1>1 DEF Owned
  <2>2. DOMAIN g = DOMAIN given \cup {p} /\ g[p] = amt /\ \A q \in DOMAIN given : g[q] = given[q]
    <3> HIDE DEF p
    <3> QED  BY <1>6 DEF With
  <2>3. p - TAG_SIZE = a  BY <1>2
  <2>4. p \in Addr
    <3>1. a \in Blocks(f.len) /\ Tiling(f.len, Heaps(f), Ends(f))
      BY <1>2, <1>3 DEF Sound, AloneOf, TilesAll
    <3>2. f.len[a] \in Nat /\ FRL_SIZE <= f.len[a] /\ a + f.len[a] \in DOMAIN f.len
      BY <3>1, BlocksAre
    <3> DEFINE n == a + f.len[a]
    <3>3. n \in Nat /\ n <= Top  BY <3>1, <3>2, BlocksAre
    <3>4. a + 1 <= n  BY <1>2, <3>2
    <3> HIDE DEF n
    <3> QED  BY <1>2, <3>3, <3>4 DEF Addr
  <2>5. g = [q \in DOMAIN g |-> g[q]]  BY <1>6 DEF With
  <2>6. \A q \in DOMAIN g : g[q] \in Nat  BY <1>1, <2>1, <2>2
  <2>7. f.used = {q - TAG_SIZE : q \in DOMAIN g}
    <3> HIDE DEF p
    <3> QED  BY <1>2, <2>1, <2>2, <2>3
  <2>8. \A q \in DOMAIN g : g[q] + TAG_SIZE <= f.len[q - TAG_SIZE]
    <3> SUFFICES ASSUME NEW q \in DOMAIN g PROVE g[q] + TAG_SIZE <= f.len[q - TAG_SIZE]
      OBVIOUS
    <3>1. CASE q = p
      <4>1. amt + TAG_SIZE <= BlockSize(amt) /\ BlockSize(amt) \in Nat
        BY <1>1, BlockSizeIs
      <4>2. f.len[a] \in Int
        BY <1>2, <1>3, BlocksAre DEF Sound, AloneOf, TilesAll, Blocks
      <4> QED  BY <1>1, <1>2, <2>2, <2>3, <3>1, <4>1, <4>2
    <3>2. CASE q \in DOMAIN given
      <4>1. q - TAG_SIZE \in near.used  BY <2>1, <3>2
      <4> QED  BY <1>2, <2>1, <2>2, <3>2, <4>1
    <3> QED  BY <2>2, <3>1, <3>2
  <2> HIDE DEF p
  <2> QED  BY <2>1, <2>2, <2>4, <2>5, <2>6, <2>7, <2>8 DEF Owned
<1>10. Owned(t, g, NoCall)  BY <1>5, <1>7, <1>9, SameHeapKeeps
<1>11. Skipped(t)
  <2> SUFFICES ASSUME NEW x \in Heaps(t), x < h PROVE t.mh[x].largest_blk <= t.LargestSizeB4
    BY <1>5 DEF Skipped
  <2>1. x \in Heaps(near) /\ t.mh = f.mh  BY <1>3, <1>5, SameHeapIs DEF SameHeap
  <2>2. x # h  BY <1>1, NumbersOf
  <2>3. f.mh[x] = near.mh[x]  BY <1>3, <2>1, <2>2 DEF SameIn
  <2> QED  BY <1>1, <1>5, <2>1, <2>3
<1>12. Situated(near)'  BY <1>8, StillSituated DEF t
<1>13. CallTyped(NoCall) /\ MallocOk(t, NoCall, moving') /\ ExpandOk(t, NoCall, moving', g)
  BY DEF CallTyped, MallocOk, ExpandOk, NoCall
<1> QED  BY <1>6, <1>10, <1>11, <1>12, <1>13 DEF IInv, Rest, t, g

LEMMA NextIsLast ==
    ASSUME NEW s, Typed(s), NEW h \in Heaps(s), NextHeap(s, h) = NULL
    PROVE  \A g \in Heaps(s) : g <= h
<1> DEFINE q == s.list
<1> USE SizesAre
<1>1. q \in Seq(Nat) /\ Rising(q) /\ Contains(q, h) /\ \A y : y \in Heaps(s) <=> Contains(q, y)
  BY ListedIs, SMTT(30) DEF Typed
<1>2. h = Last(q)
  <2> SUFFICES ASSUME h # Last(q) PROVE FALSE  OBVIOUS
  <2>1. NextHeap(s, h) = After(q, h)  BY DEF NextHeap, After
  <2> HIDE DEF q
  <2>2. h < After(q, h) /\ Contains(q, After(q, h))  BY <1>1, AfterIs DEF q
  <2>3. h \in Nat  BY <1>1, IndexOf
  <2> QED  BY <2>1, <2>2, <2>3
<1>3. Len(q) > 0  BY <1>1 DEF Contains
<1> HIDE DEF q
<1>4. \A x : Contains(q, x) => x <= Last(q)  BY <1>1, <1>3, FirstAndLast
<1> QED  BY <1>1, <1>2, <1>4

LEMMA MissedKeeps ==
    ASSUME IInv, call.op = "malloc", call.mhp # NULL, NEW f,
           MissedIn(f, call.mhp, BlockSize(call.amt)),
           near' = [f EXCEPT !.MiniHeapRover = call.mhp,
                             !.LargestSizeB4 = Max({f.LargestSizeB4, near.mh[call.mhp].largest_blk})],
           call' = [call EXCEPT !.mhp = NextHeap(near, call.mhp)],
           UNCHANGED <<platform, moving, given, own>>
    PROVE  IInv'
<1> DEFINE h == call.mhp
           t == near'
           d == call'
           size == BlockSize(call.amt)
           lg == near.mh[h].largest_blk
           B == near.LargestSizeB4
           v == Max({B, lg})
           next == NextHeap(near, h)
<1> USE SizesAre
<1>1. /\ Situated(near) /\ Sound(near) /\ Owned(near, given, call) /\ MovingOk(moving, given, call)
      /\ CallTyped(call) /\ MallocOk(near, call, moving)
      /\ h \in Heaps(near) /\ Typed(near)
      /\ \A x \in Heaps(near) : x < h => near.mh[x].largest_blk <= B /\ near.mh[x].largest_blk < size
  BY NowIs, VisitedIs
<1>2. /\ Sound(f) /\ f.used = near.used /\ f.len = near.len /\ f.list = near.list /\ f.curbrk = near.curbrk
      /\ Ends(f) = Ends(near) /\ f.LargestSizeB4 = B
      /\ f.mh[h].largest_blk < size /\ f.mh[h].largest_blk <= lg
      /\ \A x \in Heaps(near) : x # h => f.mh[x] = near.mh[x]
  BY DEF MissedIn
<1>3. /\ B \in Nat /\ lg \in Nat /\ \A x \in Heaps(near) : x \in Nat /\ near.mh[x].largest_blk \in Nat
      /\ B \in (0..Top) \cup {Largest} /\ lg \in (0..Top) \cup {Largest}
      /\ \A x \in Heaps(f) : f.mh[x].largest_blk \in Nat
  BY <1>1, <1>2, NumbersOf, SMTT(30) DEF Typed
<1>4. v = IF B >= lg THEN B ELSE lg  BY <1>3, MaxOfTwo
<1>5. Heaps(f) = Heaps(near)  BY <1>2 DEF Heaps
<1>6. near' = [f EXCEPT !.MiniHeapRover = h, !.LargestSizeB4 = v]  BY <1>2
<1> HIDE DEF v
<1>7. v \in (0..Top) \cup {Largest} /\ v \in Nat /\ B <= v /\ lg <= v
  <2> HIDE DEF B, lg
  <2> QED  BY <1>3, <1>4
<1>8. SameHeap(f, t) /\ t.MiniHeapRover = h /\ t.LargestSizeB4 = v /\ t.curbrk = f.curbrk
  <2>1. Sound(f) /\ h \in Heaps(f) /\ v \in (0..Top) \cup {Largest}
    BY <1>1, <1>2, <1>5, <1>7
  <2>2. t = AtRover(f, h, v)  BY <1>6 DEF AtRover
  <2> QED  BY ONLY <2>1, <2>2, RoverSet
<1>9. Situated(f)  BY <1>1, <1>2, SituatedSame
<1>10. Owned(f, given, call)  BY <1>1, <1>2, OwnedKept
<1>11. DOMAIN d = DOMAIN NoCall /\ d.mhp = next /\ d.op = "malloc" /\ d.by = call.by /\ d.stg = call.stg
       /\ d.amt = call.amt /\ d.p2 = call.p2 /\ d.growth = call.growth /\ d.expanded = call.expanded
  <2> HIDE DEF next
  <2>1. d = [call EXCEPT !.mhp = next] /\ DOMAIN call = DOMAIN NoCall /\ call.op = "malloc"
    BY <1>1 DEF CallTyped, next
  <2> QED  BY ONLY <2>1 DEF NoCall
<1> HIDE DEF t, d
<1>12. Situated(t) /\ Owned(t, given, call) /\ Heaps(t) = Heaps(near)
  BY <1>5, <1>8, <1>9, <1>10, SameHeapKeeps
<1>13. Owned(t, given, d)  BY <1>12 DEF Owned
<1>14. MovingOk(moving, given, d)  BY <1>1, <1>11 DEF MovingOk
<1>15. CallTyped(d)
  <2>1. call.expanded \in BOOLEAN /\ d.expanded \in BOOLEAN
    BY <1>1, <1>11 DEF CallTyped
  <2> QED  BY <1>1, <1>11, <2>1 DEF CallTyped
<1>16. Searched(t, d)
  <2>1. t.mh = f.mh /\ t.list = near.list  BY <1>2, <1>8 DEF SameHeap
  <2>2. \A x \in Heaps(near) : x <= h => t.mh[x].largest_blk <= v /\ t.mh[x].largest_blk < size
    <3> SUFFICES ASSUME NEW x \in Heaps(near), x <= h
                 PROVE  t.mh[x].largest_blk <= v /\ t.mh[x].largest_blk < size
      OBVIOUS
    <3>1. CASE x = h
      <4> DEFINE k == f.mh[h].largest_blk
      <4>1. k \in Nat /\ k <= lg /\ k < size  BY <1>1, <1>2, <1>3, <1>5
      <4> HIDE DEF k, lg
      <4>2. k <= v  BY <1>3, <1>7, <4>1
      <4> QED  BY <2>1, <3>1, <4>1, <4>2 DEF k
    <3>2. CASE x # h
      <4> DEFINE k == near.mh[x].largest_blk
      <4>1. k \in Nat /\ k <= B /\ k < size  BY <1>1, <1>3, <3>2
      <4>2. f.mh[x] = near.mh[x]  BY <1>2, <3>2
      <4> HIDE DEF k, B
      <4>3. k <= v  BY <1>3, <1>7, <4>1
      <4> QED  BY <2>1, <4>1, <4>2, <4>3 DEF k
    <3> QED  BY <3>1, <3>2
  <2>3. \/ next = NULL /\ \A x \in Heaps(near) : x <= h
        \/ next \in Heaps(near) /\ next # NULL /\ h < next /\ \A x \in Heaps(near) : x <= h \/ next <= x
    BY <1>1, NextHeapIs, NextIsLast
  <2> HIDE DEF next
  <2>4. Live(t, next)  BY <1>1, <2>1, <2>3, ListedIs DEF Live, Typed
  <2>5. \A x \in Heaps(near) : next = NULL \/ x < next => x <= h  BY <1>3, <2>3
  <2> QED  BY <1>8, <1>11, <1>12, <2>2, <2>4, <2>5 DEF Searched
<1>17. MallocOk(t, d, moving) /\ ExpandOk(t, d, moving, given)
  BY <1>1, <1>11, <1>16 DEF MallocOk, ExpandOk
<1>18. Situated(near)'  BY <1>12, StillSituated DEF t
<1>19. Rest'  BY <1>11 DEF Rest, d
<1> QED  BY <1>13, <1>14, <1>15, <1>17, <1>18, <1>19 DEF IInv, t, d

LEMMA VisitIs ==
    ASSUME IInv, VisitMiniHeap
    PROVE  \/ \E f, a : Found(f, a)
           \/ \E f : NotFound(f)
<1> DEFINE h == call.mhp
           largest == near.mh[h].largest_blk
           size == BlockSize(call.amt)
           try == IF largest >= call.amt THEN MemAllocator(near, h, call.amt)
                  ELSE [block |-> NULL, heap |-> near]
           found == try.block # NULL
           f == try.heap
           a == try.block
<1> USE SizesAre
<1>1. call.op = "malloc" /\ call.mhp # NULL /\ platform' = platform /\ own' = own
  BY DEF VisitMiniHeap
<1>2. /\ h \in Heaps(near) /\ HeapOk(near, h) /\ call.amt \in Nat /\ Sound(near) /\ largest \in Nat
      /\ size \in Nat /\ call.amt + TAG_SIZE <= size
  BY <1>1, VisitedIs, NowIs, NumbersOf, BlockSizeIs
<1>3. /\ near' = [f EXCEPT !.MiniHeapRover = h, !.LargestSizeB4 = IF found THEN @ ELSE Max({@, largest})]
      /\ found => MallocReturns(a + TAG_SIZE)
      /\ ~found => call' = [call EXCEPT !.mhp = NextHeap(near, h)] /\ UNCHANGED <<moving, given>>
  BY DEF VisitMiniHeap
<1>4. /\ found => Taken(near, f, h, a, size)
      /\ ~found => MissedIn(f, h, size)
  <2>1. CASE largest >= call.amt
    <3> DEFINE r == MemAllocator(near, h, call.amt)
    <3>1. Tried(near, r, h, size)  BY <1>2, MemAllocatorIs
    <3>2. try = r  BY <2>1
    <3> HIDE DEF r, try
    <3>3. ASSUME ~found PROVE MissedIn(f, h, size)
      <4>1. Missed(near, f, h, size)  BY <3>1, <3>2, <3>3 DEF Tried, Taken
      <4>2. Only(near, f, h) /\ Outside(near, f, h) /\ HeapOk(f, h)  BY <4>1 DEF Missed
      <4>3. Sound(f) /\ Ends(f) = Ends(near) /\ \A x \in Heaps(near) : x # h => SameIn(near, f, x)
        BY <1>2, <4>2, HeapChanged
      <4> QED  BY <4>1, <4>2, <4>3 DEF Missed, MissedIn, Only
    <3>4. ASSUME found PROVE Taken(near, f, h, a, size)  BY <3>1, <3>2, <3>4 DEF Tried
    <3> QED  BY <3>3, <3>4
  <2>2. CASE ~(largest >= call.amt)
    <3>1. f = near /\ ~found  BY <2>2
    <3>2. largest < size  BY <1>2, <2>2
    <3> HIDE DEF f, found
    <3> QED  BY <1>2, <3>1, <3>2 DEF MissedIn
  <2> QED  BY <2>1, <2>2
<1> HIDE DEF try, largest, size
<1>5. CASE found
  <2>1. near' = [f EXCEPT !.MiniHeapRover = call.mhp, !.LargestSizeB4 = f.LargestSizeB4]
    BY <1>3, <1>5
  <2>2. Taken(near, f, call.mhp, a, BlockSize(call.amt)) /\ MallocReturns(a + TAG_SIZE)
    BY <1>3, <1>4, <1>5 DEF size
  <2> HIDE DEF f, a
  <2>3. Found(f, a)  BY ONLY <2>1, <2>2 DEF Found
  <2> QED  BY ONLY <2>3
<1>6. CASE ~found
  <2>1. near' = [f EXCEPT !.MiniHeapRover = call.mhp,
                          !.LargestSizeB4 = Max({f.LargestSizeB4, near.mh[call.mhp].largest_blk})]
    BY <1>3, <1>6 DEF largest
  <2>2. MissedIn(f, call.mhp, BlockSize(call.amt)) /\ call' = [call EXCEPT !.mhp = NextHeap(near, call.mhp)]
    BY <1>3, <1>4, <1>6 DEF size
  <2> HIDE DEF f
  <2>3. UNCHANGED <<moving, given>>  BY <1>3, <1>6
  <2>4. NotFound(f)  BY ONLY <2>1, <2>2, <2>3 DEF NotFound
  <2> QED  BY ONLY <2>4
<1> QED  BY <1>5, <1>6

LEMMA VisitKeeps ==
    ASSUME IInv, VisitMiniHeap
    PROVE  IInv'
<1>1. call.op = "malloc" /\ call.mhp # NULL /\ UNCHANGED <<platform, own>>
  BY DEF VisitMiniHeap
<1>2. ASSUME NEW f, NEW a, Found(f, a) PROVE IInv'  BY <1>1, <1>2, FoundKeeps DEF Found
<1>3. ASSUME NEW f, NotFound(f) PROVE IInv'
  <2>1. UNCHANGED <<platform, moving, given, own>>  BY <1>1, <1>3 DEF NotFound
  <2> QED  BY <1>1, <1>3, <2>1, MissedKeeps DEF NotFound
<1> QED  BY <1>2, <1>3, VisitIs

\* The search has come to its end.
LEMMA SearchedAll ==
    ASSUME IInv, call.op = "malloc", call.mhp = NULL
    PROVE  Skipped(near) /\ \A h \in Heaps(near) : near.mh[h].largest_blk < BlockSize(call.amt)
BY NowIs DEF MallocOk, Searched, Skipped

LEMMA GrowForMallocKeeps ==
    ASSUME IInv, GrowForMalloc
    PROVE  IInv'
<1> DEFINE c == [call EXCEPT !.expanded = TRUE]
           d == call'
           t == near'
<1> USE SizesAre
<1>1. call.op = "malloc" /\ call.mhp = NULL /\ UNCHANGED <<platform, moving, given, own>>
  BY DEF GrowForMalloc
<1>2. PICK r \in ExpandDGROUP(near, call.amt) : r.ok /\ Search(r.heap, c)
  BY DEF GrowForMalloc
<1>3. /\ Situated(near) /\ Owned(near, given, call) /\ MovingOk(moving, given, call)
      /\ CallTyped(call) /\ MallocOk(near, call, moving) /\ call.amt \in Nat /\ Skipped(near)
  BY <1>1, NowIs, SearchedAll DEF CallTyped
<1>4. Situated(r.heap) /\ KeptBlocks(near, r.heap)  BY <1>3, SituatedExpanded
<1> DEFINE f == r.heap
<1> HIDE DEF f
<1>5. Situated(f) /\ Sound(f) /\ Skipped(f) /\ f.used = near.used /\ \A b \in near.used : f.len[b] = near.len[b]
  BY <1>3, <1>4 DEF KeptBlocks, f
<1>6. Owned(f, given, call)  BY <1>3, <1>5, OwnedKept
<1>7. /\ DOMAIN c = DOMAIN NoCall /\ c.amt = call.amt /\ c.op = "malloc" /\ c.by = call.by /\ c.stg = call.stg
      /\ c.p2 = call.p2 /\ c.growth = call.growth /\ c.expanded \in BOOLEAN
  BY <1>1, <1>3 DEF CallTyped, NoCall
<1> HIDE DEF c
<1>8. Search(f, c)  BY <1>2 DEF f
<1>9. Sought(f, c, t, d)  BY <1>3, <1>5, <1>7, <1>8, SearchIs
<1> HIDE DEF t, d
<1>10. /\ SameHeap(f, t) /\ t.curbrk = f.curbrk /\ Searched(t, d) /\ DOMAIN d = DOMAIN NoCall
       /\ d.op = "malloc" /\ d.by = call.by /\ d.stg = call.stg /\ d.amt = call.amt /\ d.p2 = call.p2
       /\ d.growth = call.growth /\ d.expanded \in BOOLEAN
  BY <1>7, <1>9 DEF Sought
<1>11. Situated(t) /\ Owned(t, given, call)  BY <1>5, <1>6, <1>10, SameHeapKeeps
<1>12. Owned(t, given, d)  BY <1>1, <1>11 DEF Owned
<1>13. MovingOk(moving, given, d)  BY <1>1, <1>3, <1>10 DEF MovingOk
<1>14. CallTyped(d)  BY <1>3, <1>10 DEF CallTyped
<1>15. MallocOk(t, d, moving) /\ ExpandOk(t, d, moving, given)
  BY <1>1, <1>3, <1>10 DEF MallocOk, ExpandOk
<1>16. Situated(near)'  BY <1>1, <1>11, StillSituated DEF t
<1>17. Rest'  BY <1>10 DEF Rest, d
<1> QED  BY <1>1, <1>12, <1>13, <1>14, <1>15, <1>16, <1>17 DEF IInv, t, d

\* A call has come to its end, and nothing has changed but blocks that are not the program's.
LEMMA EndsKeep ==
    ASSUME IInv, NEW t, t = near', Situated(t), KeptBlocks(near, t), Skipped(near),
           call' = NoCall, given' = given, MovingOk(moving', given', call'), call.op # "expanded",
           UNCHANGED <<platform, own>>
    PROVE  IInv'
<1>1. Owned(near, given, call)  BY NowIs
<1>2. Owned(t, given, call)  BY <1>1, OwnedKept DEF KeptBlocks
<1>3. Owned(t, given, NoCall)  BY <1>2 DEF Owned
<1>4. Skipped(t)  BY DEF KeptBlocks
<1>5. CallTyped(NoCall) /\ MallocOk(t, NoCall, moving') /\ ExpandOk(t, NoCall, moving', given)
  BY SizesAre DEF CallTyped, MallocOk, ExpandOk, NoCall
<1>6. Situated(near)'  BY StillSituated
<1> QED  BY <1>3, <1>4, <1>5, <1>6 DEF IInv, Rest

\* The heap as it was, or with less of it.
LEMMA NoGrowthKeeps ==
    ASSUME Situated(near), NEW amount, amount \in Nat, NEW C,
           NEW r \in IF C THEN ExpandDGROUP(near, amount) ELSE {Kept(near)}, ~r.ok
    PROVE  Situated(r.heap) /\ Fewer(near, r.heap)
<1>1. CASE C
  <2>1. r \in ExpandDGROUP(near, amount)  BY <1>1
  <2> QED  BY <2>1, SituatedExpanded
<1>2. CASE ~C
  <2>1. r.heap = near  BY <1>2 DEF Kept
  <2> QED  BY <2>1, FewerSelf DEF Situated
<1> QED  BY <1>1, <1>2

LEMMA MallocFailsKeeps ==
    ASSUME IInv, MallocFails
    PROVE  IInv' /\ Fewer(near, near')
<1>1. call.op = "malloc" /\ call.mhp = NULL /\ MallocReturns(NULL) /\ UNCHANGED <<platform, own>>
  BY DEF MallocFails
<1>2. PICK r \in IF ~call.expanded THEN ExpandDGROUP(near, call.amt) ELSE {Kept(near)} : ~r.ok /\ near' = r.heap
  BY DEF MallocFails
<1>3. Situated(near) /\ call.amt \in Nat /\ Skipped(near)
  BY <1>1, NowIs, SearchedAll DEF CallTyped
<1>4. Situated(near') /\ Fewer(near, near')  BY <1>2, <1>3, NoGrowthKeeps
<1>5. call' = NoCall /\ given' = given /\ MovingOk(moving', given', call')
  BY <1>1, NoBlockGiven
<1>6. IInv'  BY <1>1, <1>3, <1>4, <1>5, EndsKeep DEF Fewer
<1> QED  BY <1>4, <1>6

-------------------------------------------------------------------------------
\* Blocks that are freed, and blocks that are to be longer or shorter.

LEMMA BlockOf ==
    ASSUME NEW s, NEW g, NEW c, Situated(s), Owned(s, g, c), NEW p \in DOMAIN g
    PROVE  /\ p - TAG_SIZE \in s.used /\ (p - TAG_SIZE) + TAG_SIZE = p /\ p \in Nat /\ p > 0 /\ p <= Top
           /\ p - TAG_SIZE \in Blocks(s.len) /\ s.len[p - TAG_SIZE] \in Nat
           /\ (p - TAG_SIZE) + s.len[p - TAG_SIZE] \in 0..Top /\ FRL_SIZE <= s.len[p - TAG_SIZE]
           /\ \A q \in DOMAIN g : q # p => q - TAG_SIZE # p - TAG_SIZE
           /\ \E h \in Heaps(s) : Inside(s, h, p - TAG_SIZE)
<1> DEFINE a == p - TAG_SIZE
           n == a + s.len[a]
<1> USE SizesAre
<1>1. DOMAIN g \subseteq Addr /\ a \in s.used  BY DEF Owned
<1>2. \A q \in DOMAIN g : q \in Nat /\ 1 <= q /\ q <= Top  BY <1>1 DEF Addr
<1>3. a + TAG_SIZE = p /\ a \in Nat /\ \A q \in DOMAIN g : q # p => q - TAG_SIZE # p - TAG_SIZE
  BY <1>2
<1>4. Tiling(s.len, Heaps(s), Ends(s)) /\ a \in Blocks(s.len)
  BY <1>1 DEF Situated, Sound, TilesAll, AloneOf
<1> HIDE DEF a
<1>5. s.len[a] \in Nat /\ n \in DOMAIN s.len /\ FRL_SIZE <= s.len[a]  BY <1>4, BlocksAre
<1>6. n \in 0..Top
  <2> HIDE DEF n
  <2> QED  BY <1>4, <1>5, BlocksAre
<1>7. \E h \in Heaps(s) : Inside(s, h, a)  BY <1>4, HomeOf DEF Inside, Ends
<1> QED  BY <1>1, <1>2, <1>3, <1>4, <1>5, <1>6, <1>7 DEF a

LEMMA FreesKeep ==
    ASSUME IInv, Idle, NEW stg \in DOMAIN given, near' = nfree(near, stg), given' = Without(given, stg),
           MovingOk(moving', given', NoCall), UNCHANGED <<platform, call, own>>
    PROVE  IInv'
<1> DEFINE a == stg - TAG_SIZE
           g == given'
           t == near'
<1>1. /\ Situated(near) /\ Sound(near) /\ Skipped(near) /\ Owned(near, given, NoCall) /\ call = NoCall
  BY NowIs DEF Idle, NoCall
<1>2. a \in near.used /\ a + TAG_SIZE = stg /\ \A q \in DOMAIN given : q # stg => q - TAG_SIZE # a
  BY <1>1, BlockOf
<1>3. PICK h \in Heaps(near) : Released(near, t, h, a)  BY <1>1, <1>2, NfreeIs
<1> HIDE DEF a, t, g
<1>4. /\ Sound(t) /\ t.used = near.used \ {a} /\ t.list = near.list /\ Ends(t) = Ends(near)
      /\ t.curbrk = near.curbrk /\ \A b \in t.used : t.len[b] = near.len[b]
  BY <1>3 DEF Released
<1>5. Skipped(t)  BY <1>1, <1>3 DEF Released, Skipped
<1>6. Situated(t)  BY <1>1, <1>4, SituatedSame
<1>7. Owned(t, g, NoCall)
  <2>1. /\ given \in [DOMAIN given -> Nat] /\ DOMAIN given \subseteq Addr
        /\ near.used = {q - TAG_SIZE : q \in DOMAIN given}
        /\ \A q \in DOMAIN given : given[q] + TAG_SIZE <= near.len[q - TAG_SIZE]
    BY <1>1 DEF Owned, NoCall
  <2>2. g = [q \in DOMAIN given \ {stg} |-> given[q]]  BY DEF Without, Restrict, g
  <2>3. DOMAIN g = DOMAIN given \ {stg} /\ g \in [DOMAIN g -> Nat] /\ \A q \in DOMAIN g : g[q] = given[q]
    BY <2>1, <2>2
  <2>4. \A q \in DOMAIN g : q - TAG_SIZE \in t.used  BY <1>2, <1>4, <2>1, <2>3
  <2>5. \A b \in t.used : \E q \in DOMAIN g : b = q - TAG_SIZE
    BY <1>2, <1>4, <2>1, <2>3 DEF a
  <2>6. t.used = {q - TAG_SIZE : q \in DOMAIN g}  BY <2>4, <2>5
  <2> QED  BY <1>4, <2>1, <2>3, <2>4, <2>6 DEF Owned
<1>8. CallTyped(NoCall) /\ MallocOk(t, NoCall, moving') /\ ExpandOk(t, NoCall, moving', g)
  BY SizesAre DEF CallTyped, MallocOk, ExpandOk, NoCall
<1>9. Situated(near)'  BY <1>6, StillSituated DEF t
<1> QED  BY <1>1, <1>5, <1>7, <1>8, <1>9 DEF IInv, Rest, t, g

LEMMA FreeKeeps ==
    ASSUME IInv, NEW stg \in Mine, Free(stg)
    PROVE  IInv'
<1>1. stg \in DOMAIN given /\ stg # moving.stg /\ stg # moving.p  BY DEF Mine
<1>2. Idle /\ near' = nfree(near, stg) /\ given' = Without(given, stg) /\ UNCHANGED <<platform, call, moving, own>>
  BY DEF Free
<1>3. MovingOk(moving, given, NoCall)  BY <1>2, NowIs
<1>4. DOMAIN given' = DOMAIN given \ {stg} /\ \A q \in DOMAIN given' : given'[q] = given[q]
  BY <1>2 DEF Without, Restrict
<1>5. MovingOk(moving, given', NoCall)  BY <1>1, <1>3, <1>4 DEF MovingOk
<1> QED  BY <1>1, <1>2, <1>5, FreesKeep

LEMMA ReallocFreesKeeps ==
    ASSUME IInv, ReallocFrees
    PROVE  IInv'
<1>1. /\ Idle /\ near' = nfree(near, moving.stg) /\ given' = Without(given, moving.stg) /\ moving' = NotMoving
      /\ UNCHANGED <<platform, call, own>> /\ moving.at = "free"
  BY DEF ReallocFrees
<1>2. moving.stg \in DOMAIN given  BY <1>1, NowIs DEF MovingOk
<1>3. MovingOk(moving', given', NoCall)  BY <1>1, SizesAre DEF MovingOk, NotMoving
<1> QED  BY <1>1, <1>2, <1>3, FreesKeep

LEMMA NotLonger ==
    ASSUME NEW s, NEW g, NEW c, MayStart(s, g, c), NEW t, Situated(t), Skipped(t), t.used = s.used,
           \A b \in s.used : b # c.stg - TAG_SIZE => t.len[b] = s.len[b],
           BlockSize(c.amt) <= t.len[c.stg - TAG_SIZE], t.len[c.stg - TAG_SIZE] \in Nat,
           t.len[c.stg - TAG_SIZE] < BlockSize(c.amt) + FRL_SIZE
    PROVE  Started(g, c, t, IsExpanded(c))
<1> DEFINE p1 == c.stg - TAG_SIZE
           d == IsExpanded(c)
<1> USE SizesAre
<1>1. /\ Owned(s, g, NoCall) /\ DOMAIN c = DOMAIN NoCall /\ c.stg \in DOMAIN g /\ c.amt \in Nat /\ Situated(s)
      /\ c.growth \in Nat /\ c.p2 \in 0..Top
  BY DEF MayStart
<1>2. /\ DOMAIN d = DOMAIN NoCall /\ d.op = "expanded" /\ d.by = c.by /\ d.stg = c.stg /\ d.amt = c.amt
      /\ d.mhp = c.mhp /\ d.expanded = c.expanded /\ d.growth = c.growth /\ d.p2 = c.p2
  BY <1>1 DEF NoCall, IsExpanded
<1> HIDE DEF p1, d
<1>3. Expands(t, d)
  <2>1. c.amt + TAG_SIZE <= BlockSize(c.amt) /\ BlockSize(c.amt) \in Nat
    BY <1>1, BlockSizeIs
  <2> DEFINE v == t.len[p1]
  <2>2. v \in Nat /\ BlockSize(c.amt) <= v  BY DEF p1
  <2> HIDE DEF v
  <2>3. c.amt + TAG_SIZE <= v  BY <1>1, <2>1, <2>2
  <2>4. v < BlockSize(c.amt) + FRL_SIZE  BY DEF v, p1
  <2> QED  BY <1>2, <2>3, <2>4 DEF Expands, v, p1
<1>4. Owned(t, g, d)
  <2>1. /\ g \in [DOMAIN g -> Nat] /\ DOMAIN g \subseteq Addr
        /\ s.used = {q - TAG_SIZE : q \in DOMAIN g}
        /\ \A q \in DOMAIN g : g[q] + TAG_SIZE <= s.len[q - TAG_SIZE]
    BY <1>1 DEF Owned, NoCall
  <2>2. \A q \in DOMAIN g : q # c.stg => q - TAG_SIZE # p1  BY <1>1, BlockOf DEF p1
  <2>3. \A q \in DOMAIN g : q - TAG_SIZE \in s.used  BY <2>1
  <2> QED  BY <1>2, <2>1, <2>2, <2>3 DEF Owned, p1
<1> QED  BY <1>1, <1>2, <1>3, <1>4 DEF Started, d

LEMMA StartsLonger ==
    ASSUME NEW s, NEW g, NEW c, MayStart(s, g, c), BlockSize(c.amt) > s.len[c.stg - TAG_SIZE]
    PROVE  Started(g, c, s, ToExpand(s, c))
<1> DEFINE d == ToExpand(s, c)
           p1 == c.stg - TAG_SIZE
           new == BlockSize(c.amt)
           old == s.len[p1]
           p2 == p1 + old
           k == new - old
<1> USE SizesAre
<1>1. /\ Owned(s, g, NoCall) /\ DOMAIN c = DOMAIN NoCall /\ c.stg \in DOMAIN g /\ c.amt \in Nat
      /\ Situated(s) /\ Skipped(s)
  BY DEF MayStart
<1>2. old \in Nat /\ p2 \in 0..Top  BY <1>1, BlockOf
<1>3. new \in Nat  BY <1>1, BlockSizeIs
<1>4. k \in Nat /\ k > 0 /\ old + k = new  BY <1>2, <1>3
<1>5. d = [c EXCEPT !.op = "expand", !.p2 = p2, !.growth = k]  BY DEF ToExpand
<1> HIDE DEF p2, k, d
<1>6. /\ DOMAIN d = DOMAIN NoCall /\ d.op = "expand" /\ d.by = c.by /\ d.stg = c.stg /\ d.amt = c.amt
      /\ d.mhp = c.mhp /\ d.expanded = c.expanded /\ d.growth = k /\ d.p2 = p2
  BY ONLY <1>1, <1>5 DEF NoCall
<1>7. Expands(s, d)  BY <1>4, <1>6 DEF Expands, p2
<1>8. Owned(s, g, d)  BY <1>1, <1>6 DEF Owned, NoCall
<1> QED  BY <1>1, <1>2, <1>4, <1>6, <1>7, <1>8 DEF Started, d

LEMMA StartsShorter ==
    ASSUME NEW s, NEW g, NEW c, MayStart(s, g, c), FRL_SIZE <= s.len[c.stg - TAG_SIZE] - BlockSize(c.amt)
    PROVE  Started(g, c, CutTail(s, c), IsExpanded(c))
<1> DEFINE p1 == c.stg - TAG_SIZE
           new == BlockSize(c.amt)
           k == s.len[p1] - new
           h == CHOOSE x \in Holders(s, c.stg) : TRUE
           t == CutTail(s, c)
<1> USE SizesAre
<1>1. /\ Owned(s, g, NoCall) /\ c.stg \in DOMAIN g /\ c.amt \in Nat /\ Situated(s) /\ Skipped(s) /\ Sound(s)
  BY DEF MayStart, Situated
<1>2. /\ p1 \in s.used /\ p1 + TAG_SIZE = c.stg /\ s.len[p1] \in Nat
      /\ \E x \in Heaps(s) : Inside(s, x, p1)
  BY <1>1, BlockOf
<1>3. PICK x \in Heaps(s) : Inside(s, x, p1)  BY <1>2
<1>4. Holders(s, c.stg) = {x}
  <2>1. Holders(s, p1 + TAG_SIZE) = {x}  BY ONLY <1>1, <1>2, <1>3, HolderIs
  <2> QED  BY ONLY <1>2, <2>1
<1>5. h = x  BY <1>4
<1>6. new \in Nat /\ FRL_SIZE <= new  BY <1>1, BlockSizeIs
<1>7. t = ShrinkBlock(s, x, p1, new, k)
  <2>1. t = FreeNewBlock([s EXCEPT !.len[p1] = new], h, p1 + new, k, s.mh[h].largest_blk)
    BY DEF CutTail
  <2> HIDE DEF t, h, new, k, p1
  <2> QED  BY ONLY <1>5, <2>1 DEF ShrinkBlock
<1>8. Shrunk(s, t, p1, new)
  <2>1. Sound(s) /\ p1 \in s.used /\ k = s.len[p1] - new /\ FRL_SIZE <= k  BY <1>1, <1>2
  <2> HIDE DEF p1, new, k, t
  <2>2. Shrunk(s, ShrinkBlock(s, x, p1, new, k), p1, new)
    BY ONLY <2>1, <1>3, <1>6, ShrinkIs
  <2> QED  BY ONLY <1>7, <2>2
<1> HIDE DEF t
<1>9. /\ Sound(t) /\ t.used = s.used /\ t.list = s.list /\ Ends(t) = Ends(s) /\ t.curbrk = s.curbrk
      /\ t.len[p1] = new /\ \A b \in s.used : b # p1 => t.len[b] = s.len[b]
      /\ Skipped(t)
  BY ONLY <1>1, <1>8 DEF Shrunk
<1>10. Situated(t)  BY ONLY <1>1, <1>9, SituatedSame
<1>11. /\ BlockSize(c.amt) <= t.len[c.stg - TAG_SIZE] /\ t.len[c.stg - TAG_SIZE] \in Nat
       /\ t.len[c.stg - TAG_SIZE] < BlockSize(c.amt) + FRL_SIZE
  <2>1. new <= t.len[p1] /\ t.len[p1] \in Nat /\ t.len[p1] < new + FRL_SIZE
    <3> HIDE DEF new, p1
    <3> QED  BY <1>6, <1>9
  <2> QED  BY <2>1
<1>12. \A b \in s.used : b # c.stg - TAG_SIZE => t.len[b] = s.len[b]  BY <1>9
<1>13. MayStart(s, g, c)  OBVIOUS
<1>14. Started(g, c, t, IsExpanded(c))
  BY ONLY <1>9, <1>10, <1>11, <1>12, <1>13, NotLonger
<1> QED  BY <1>14 DEF t

LEMMA ExpandStartsIs ==
    ASSUME NEW s, NEW g, NEW c, MayStart(s, g, c), ExpandStarts(s, c)
    PROVE  Started(g, c, near', call')
<1> DEFINE p1 == c.stg - TAG_SIZE
           old == s.len[p1]
           new == BlockSize(c.amt)
           A == new > old
           B == new <= old /\ old - new >= FRL_SIZE
           X == near' = s /\ call' = ToExpand(s, c)
           Y == near' = CutTail(s, c) /\ call' = IsExpanded(c)
           Z == near' = s /\ call' = IsExpanded(c)
<1>1. ExpandStarts(s, c) <=> CASE A -> X [] B -> Y [] OTHER -> Z
  BY ONLY TRUE DEF ExpandStarts, ToExpand, IsExpanded, CutTail
<1>2. /\ Owned(s, g, NoCall) /\ c.stg \in DOMAIN g /\ c.amt \in Nat /\ Situated(s) /\ Skipped(s)
  BY DEF MayStart
<1>3. old \in Nat /\ new \in Nat  BY <1>2, BlockOf, BlockSizeIs
<1>4. ~(A /\ B)  BY <1>3
<1>5. (A /\ X) \/ (B /\ Y) \/ (~A /\ ~B /\ Z)
  <2> HIDE DEF A, B, X, Y, Z
  <2> QED  BY <1>1, <1>4
<1>6. CASE A /\ X  BY <1>6, StartsLonger
<1>7. CASE B /\ Y
  <2>1. FRL_SIZE <= s.len[c.stg - TAG_SIZE] - BlockSize(c.amt)  BY <1>3, <1>7, SizesAre
  <2> QED  BY <1>7, <2>1, StartsShorter
<1>8. CASE ~A /\ ~B /\ Z
  <2>1. /\ BlockSize(c.amt) <= s.len[c.stg - TAG_SIZE] /\ s.len[c.stg - TAG_SIZE] \in Nat
        /\ s.len[c.stg - TAG_SIZE] < BlockSize(c.amt) + FRL_SIZE
    BY <1>3, <1>8, SizesAre
  <2>2. Started(g, c, s, IsExpanded(c))  BY <1>2, <2>1, NotLonger
  <2> QED  BY <1>8, <2>2
<1> QED  BY <1>5, <1>6, <1>7, <1>8

LEMMA ExpandBegins ==
    ASSUME NEW s, NEW c, Begins(s, c)
    PROVE  IInv'
<1> DEFINE d == call'
           t == near'
<1>1. /\ MayStart(s, given, c) /\ ExpandStarts(s, c) /\ c.by \in {"program", "nrealloc"}
      /\ c.expanded \in BOOLEAN /\ c.mhp = NULL /\ Names(c, moving', given)
      /\ platform' = platform /\ given' = given /\ own' = own
  BY DEF Begins
<1>2. Started(given, c, t, d)  BY <1>1, ExpandStartsIs
<1>3. c.amt \in Nat  BY <1>1 DEF MayStart
<1> HIDE DEF t, d
<1>4. /\ Situated(t) /\ Skipped(t) /\ Owned(t, given, d) /\ Expands(t, d)
      /\ DOMAIN d = DOMAIN NoCall /\ d.op \in {"expand", "expanded"}
      /\ d.by = c.by /\ d.stg = c.stg /\ d.amt = c.amt /\ d.mhp = c.mhp /\ d.expanded = c.expanded
      /\ d.growth \in Nat /\ d.p2 \in 0..Top
  BY <1>2 DEF Started
<1>5. MovingOk(moving', given, d)  BY <1>4 DEF Begins
<1>6. CallTyped(d)  BY <1>1, <1>3, <1>4 DEF CallTyped
<1>7. MallocOk(t, d, moving')  BY <1>4 DEF MallocOk
<1>8. Names(d, moving', given)  BY <1>1, <1>4 DEF Names
<1>9. ExpandOk(t, d, moving', given)  BY <1>4, <1>8 DEF ExpandOk
<1>10. Situated(near)'  BY <1>1, <1>4, StillSituated DEF t
<1>11. Rest'  BY <1>4 DEF Rest, t
<1> QED  BY <1>1, <1>4, <1>5, <1>6, <1>7, <1>9, <1>10, <1>11 DEF IInv, t, d

LEMMA NewCallIs ==
    ASSUME NEW by, NEW stg, NEW amt
    PROVE  LET c == NewCall(by, stg, amt)
           IN  /\ DOMAIN c = DOMAIN NoCall /\ c.by = by /\ c.stg = stg /\ c.amt = amt
               /\ c.mhp = NULL /\ c.p2 = NULL /\ c.growth = 0 /\ c.expanded \in BOOLEAN /\ c.op = "none"
BY DEF NewCall, NoCall

LEMMA ExpandCallBegins ==
    ASSUME IInv, Idle, NEW by \in {"program", "nrealloc"}, NEW stg \in DOMAIN given, NEW amt \in Nat,
           ExpandCall(by, stg, amt), UNCHANGED <<platform, given, own>>,
           \A c : c.by = by /\ c.stg = stg /\ c.amt = amt => Names(c, moving', given),
           \A d : d.by = by /\ d.op \in {"expand", "expanded"} => MovingOk(moving', given, d)
    PROVE  IInv' /\ \E c : BeginsIn(near, c)
<1> DEFINE c == NewCall(by, stg, amt)
<1>1. ExpandStarts(near, c)  BY DEF ExpandCall, NewCall
<1>2. /\ DOMAIN c = DOMAIN NoCall /\ c.by = by /\ c.stg = stg /\ c.amt = amt
      /\ c.mhp = NULL /\ c.p2 = NULL /\ c.growth = 0 /\ c.expanded \in BOOLEAN
  BY NewCallIs
<1>3. Situated(near) /\ Skipped(near) /\ Owned(near, given, NoCall)
  BY NowIs DEF Idle, NoCall
<1> HIDE DEF c
<1>4. MayStart(near, given, c)  BY <1>2, <1>3, SizesAre DEF MayStart
<1>5. Begins(near, c)  BY <1>1, <1>2, <1>4 DEF Begins
<1>6. BeginsIn(near, c)  BY <1>1, <1>4 DEF BeginsIn
<1> QED  BY <1>5, <1>6, ExpandBegins

LEMMA ExpandKeeps ==
    ASSUME IInv, NEW stg \in Mine, NEW amt \in Sizes, Expand(stg, amt)
    PROVE  IInv' /\ \E c : BeginsIn(near, c)
<1>1. stg \in DOMAIN given /\ stg # moving.stg /\ stg # moving.p /\ amt \in Nat
  BY HeapAssumption DEF Mine
<1>2. Idle /\ ExpandCall("program", stg, amt) /\ UNCHANGED <<platform, moving, given, own>>
  BY DEF Expand
<1>3. MovingOk(moving, given, NoCall) /\ moving' = moving  BY <1>2, NowIs
<1>4. moving.at # "expand"  BY <1>3 DEF MovingOk, NoCall
<1>5. \A c : c.by = "program" /\ c.stg = stg /\ c.amt = amt => Names(c, moving', given)
  BY <1>1, <1>3 DEF Names
<1>6. \A d : d.by = "program" /\ d.op \in {"expand", "expanded"} => MovingOk(moving', given, d)
  BY <1>3, <1>4 DEF MovingOk
<1> QED  BY <1>1, <1>2, <1>5, <1>6, ExpandCallBegins

LEMMA ReallocKeeps ==
    ASSUME IInv, NEW stg \in Mine, NEW amt \in Sizes, Realloc(stg, amt)
    PROVE  IInv' /\ \E c : BeginsIn(near, c)
<1> DEFINE v == near.len[stg - TAG_SIZE]
           m == moving'
<1> USE SizesAre
<1>1. stg \in DOMAIN given /\ amt \in Nat  BY HeapAssumption DEF Mine
<1>2. Idle /\ ExpandCall("nrealloc", stg, amt) /\ UNCHANGED <<platform, given, own>>
  BY DEF Realloc
<1>3. m = [at |-> "expand", stg |-> stg, amt |-> amt, p |-> NULL, old |-> v - TAG_SIZE]
  BY DEF Realloc
<1>4. Situated(near) /\ Owned(near, given, NoCall)  BY <1>2, NowIs
<1>5. v \in Nat /\ v <= Top /\ FRL_SIZE <= v
  <2>1. stg - TAG_SIZE \in Blocks(near.len) /\ Tiling(near.len, Heaps(near), Ends(near))
    BY <1>1, <1>4, BlockOf DEF Situated, Sound, TilesAll
  <2> QED  BY <2>1, BlocksAre
<1>6. given[stg] + TAG_SIZE <= v /\ given[stg] \in Nat  BY <1>1, <1>4 DEF Owned, NoCall
<1> DEFINE o == v - TAG_SIZE
<1>7. o \in 0..Top /\ given[stg] <= o
  <2> HIDE DEF v
  <2> QED  BY <1>5, <1>6
<1> HIDE DEF o, m
<1>8. DOMAIN m = DOMAIN NotMoving /\ m.at = "expand" /\ m.stg = stg /\ m.amt = amt /\ m.p = NULL /\ m.old = o
  BY <1>3 DEF NotMoving, o
<1>9. \A c : c.by = "nrealloc" /\ c.stg = stg /\ c.amt = amt => Names(c, m, given)
  BY <1>1, <1>8 DEF Names
<1>10. \A d : d.by = "nrealloc" /\ d.op \in {"expand", "expanded"} => MovingOk(m, given, d)
  BY <1>1, <1>7, <1>8 DEF MovingOk
<1> QED  BY <1>1, <1>2, <1>9, <1>10, ExpandCallBegins DEF m

LEMMA ReallocRestoresKeeps ==
    ASSUME IInv, ReallocRestores
    PROVE  IInv' /\ \E c : BeginsIn(near, c)
<1>1. Idle /\ moving.at = "restore" /\ ExpandCall("nrealloc", moving.stg, moving.old)
      /\ UNCHANGED <<platform, moving, given, own>>
  BY DEF ReallocRestores
<1>2. MovingOk(moving, given, NoCall) /\ moving' = moving  BY <1>1, NowIs
<1>3. moving.stg \in DOMAIN given /\ moving.old \in Nat
  BY <1>1, <1>2, SizesAre DEF MovingOk
<1>4. \A c : c.by = "nrealloc" /\ c.stg = moving.stg /\ c.amt = moving.old => Names(c, moving', given)
  BY <1>1, <1>2, <1>3 DEF Names
<1>5. \A d : d.by = "nrealloc" /\ d.op \in {"expand", "expanded"} => MovingOk(moving', given, d)
  BY <1>1, <1>2 DEF MovingOk
<1> QED  BY <1>1, <1>3, <1>4, <1>5, ExpandCallBegins

LEMMA GrowForExpandKeeps ==
    ASSUME IInv, GrowForExpand
    PROVE  IInv' /\ \E f, c : KeptBlocks(near, f) /\ BeginsIn(f, c) /\ c.expanded
<1> DEFINE c == [call EXCEPT !.expanded = TRUE]
<1>1. call.op = "expand" /\ UNCHANGED <<platform, moving, given, own>>
  BY DEF GrowForExpand
<1>2. PICK r \in ExpandDGROUP(near, call.growth) : r.ok /\ ExpandStarts(r.heap, c)
  BY DEF GrowForExpand
<1>3. /\ Situated(near) /\ Owned(near, given, call) /\ MovingOk(moving, given, call)
      /\ CallTyped(call) /\ ExpandOk(near, call, moving, given) /\ call.growth \in Nat /\ Skipped(near)
  BY <1>1, NowIs DEF CallTyped
<1> DEFINE f == r.heap
<1>4. Situated(f) /\ KeptBlocks(near, f)  BY <1>3, SituatedExpanded
<1> HIDE DEF f
<1>5. Situated(f) /\ Skipped(f) /\ f.used = near.used /\ \A b \in near.used : f.len[b] = near.len[b]
  BY <1>3, <1>4 DEF KeptBlocks
<1>6. Owned(f, given, call)  BY <1>3, <1>5, OwnedKept
<1>7. Owned(f, given, NoCall)  BY <1>1, <1>6 DEF Owned
<1>8. /\ DOMAIN c = DOMAIN NoCall /\ c.amt = call.amt /\ c.by = call.by /\ c.stg = call.stg
      /\ c.p2 = call.p2 /\ c.growth = call.growth /\ c.expanded /\ c.expanded \in BOOLEAN /\ c.mhp = call.mhp
  BY <1>3 DEF CallTyped, NoCall
<1> HIDE DEF c
<1>9. ExpandStarts(f, c)  BY <1>2 DEF f
<1>10. Names(call, moving, given)  BY <1>1, <1>3 DEF ExpandOk
<1>11. Names(c, moving', given)  BY <1>1, <1>8, <1>10 DEF Names
<1>12. MayStart(f, given, c)
  BY <1>3, <1>5, <1>7, <1>8, <1>10 DEF MayStart, CallTyped, Names
<1>13. \A d : d.by = c.by /\ d.op \in {"expand", "expanded"} => MovingOk(moving', given, d)
  BY <1>1, <1>3, <1>8 DEF MovingOk
<1>14. c.by \in {"program", "nrealloc"} /\ c.mhp = NULL
  BY <1>1, <1>3, <1>8 DEF CallTyped
<1>15. Begins(f, c)  BY <1>1, <1>8, <1>9, <1>11, <1>12, <1>13, <1>14 DEF Begins
<1>16. BeginsIn(f, c)  BY <1>9, <1>12 DEF BeginsIn
<1> QED  BY <1>4, <1>8, <1>15, <1>16, ExpandBegins DEF f

\* The block of the call has got k more.
LEMMA GrownKeeps ==
    ASSUME IInv, call.op = "expand", NEW h \in Heaps(near), NEW a, a = call.stg - TAG_SIZE, NEW k \in Nat,
           Grown(near, near', h, a, k), GoesOn(call'), Expands(near', call'),
           call'.op = "expand" => call'.p2 = a + near'.len[a], call'.op = "expanded" => call'.p2 = call.p2,
           UNCHANGED <<platform, moving, given, own>>
    PROVE  IInv' /\ NoneShorter
<1> DEFINE t == near'
           d == call'
<1> USE SizesAre
<1>1. /\ Situated(near) /\ Sound(near) /\ Skipped(near) /\ Owned(near, given, call) /\ MovingOk(moving, given, call)
      /\ CallTyped(call) /\ ExpandOk(near, call, moving, given)
  BY NowIs
<1> HIDE DEF t, d
<1>2. /\ Only(near, t, h) /\ Outside(near, t, h) /\ HeapOk(t, h) /\ t.used = near.used
      /\ t.len[a] = near.len[a] + k /\ (\A c \in near.used : c # a => t.len[c] = near.len[c])
      /\ t.mh[h].largest_blk = near.mh[h].largest_blk
  BY DEF Grown, t
<1>3. Sound(t) /\ Heaps(t) = Heaps(near) /\ Ends(t) = Ends(near) /\ \A x \in Heaps(near) : x # h => SameIn(near, t, x)
  BY <1>1, <1>2, HeapChanged
<1>4. t.list = near.list /\ t.curbrk = near.curbrk /\ t.LargestSizeB4 = near.LargestSizeB4
      /\ t.MiniHeapRover = near.MiniHeapRover
  BY <1>2 DEF Only
<1>5. Situated(t)  BY <1>1, <1>3, <1>4, SituatedSame
<1>6. Skipped(t)  BY <1>1, <1>2, <1>3, <1>4 DEF Skipped, SameIn
<1>7. Names(call, moving, given) /\ call.stg \in DOMAIN given
  BY <1>1 DEF ExpandOk, Names
<1>7a. near.len[a] \in Nat /\ near.len[a] <= t.len[a]
  <2>1. near.len[a] \in Nat  BY <1>1, <1>7, BlockOf
  <2> DEFINE v == near.len[a]
  <2> HIDE DEF v
  <2>2. v \in Nat /\ t.len[a] = v + k  BY <1>2, <2>1 DEF v
  <2> QED  BY <2>2 DEF v
<1>8. Owned(t, given, d)
  <2>1. /\ given \in [DOMAIN given -> Nat] /\ DOMAIN given \subseteq Addr
        /\ near.used = {q - TAG_SIZE : q \in DOMAIN given}
        /\ \A q \in DOMAIN given : given[q] + TAG_SIZE <= near.len[q - TAG_SIZE]
    BY <1>1 DEF Owned
  <2>3. t.len[a] \in Nat  BY <1>2, <1>7a
  <2>4. ASSUME NEW q \in DOMAIN given PROVE given[q] + TAG_SIZE <= t.len[q - TAG_SIZE]
    <3>1. CASE q - TAG_SIZE = a
      <4>1. given[q] + TAG_SIZE <= near.len[a] /\ given[q] \in Nat  BY <2>1, <3>1
      <4> DEFINE v == near.len[a]
                 w == t.len[a]
      <4> HIDE DEF v, w
      <4>2. given[q] + TAG_SIZE <= w  BY <1>7a, <2>3, <4>1 DEF v, w
      <4> QED  BY <3>1, <4>2 DEF w
    <3>2. CASE q - TAG_SIZE # a
      <4>1. q - TAG_SIZE \in near.used  BY <2>1
      <4> QED  BY <1>2, <2>1, <3>2, <4>1
    <3> QED  BY <3>1, <3>2
  <2> QED  BY <1>2, <2>1, <2>4 DEF Owned
<1>9. /\ DOMAIN d = DOMAIN NoCall /\ d.op \in {"expand", "expanded"} /\ d.by = call.by /\ d.stg = call.stg
      /\ d.amt = call.amt /\ d.mhp = call.mhp /\ d.expanded = call.expanded /\ d.growth \in Nat
  BY DEF GoesOn, d
<1>10. d.p2 \in 0..Top
  <2>1. CASE d.op = "expand"
    <3>1. d.p2 = a + t.len[a]  BY <2>1 DEF d, t
    <3>2. a + t.len[a] \in 0..Top  BY <1>5, <1>7, <1>8, BlockOf
    <3> QED  BY <3>1, <3>2
  <2>2. CASE d.op = "expanded"  BY <1>1, <2>2 DEF d, CallTyped
  <2> QED  BY <1>9, <2>1, <2>2
<1>11. CallTyped(d)  BY <1>1, <1>9, <1>10 DEF CallTyped
<1>12. MovingOk(moving, given, d)  BY <1>1, <1>9 DEF MovingOk
<1>13. Names(d, moving, given)  BY <1>7, <1>9 DEF Names
<1>14. ExpandOk(t, d, moving, given) /\ MallocOk(t, d, moving)
  BY <1>9, <1>13 DEF ExpandOk, MallocOk, d, t
<1>15. Situated(near)'  BY <1>5, StillSituated DEF t
<1>16. Rest'  BY <1>6 DEF Rest, t
<1>17. NoneShorter  BY <1>2, <1>7a DEF NoneShorter, t
<1> QED  BY <1>8, <1>11, <1>12, <1>14, <1>15, <1>16, <1>17 DEF IInv, t, d

LEMMA GoesOnIs ==
    ASSUME CallTyped(call), NEW k \in Nat, NEW v
    PROVE  /\ GoesOn(IsExpanded(call)) /\ IsExpanded(call).op = "expanded" /\ IsExpanded(call).p2 = call.p2
           /\ call.op = "expand" => GoesOn(StillExpands(call, k, v))
           /\ StillExpands(call, k, v).op = call.op /\ StillExpands(call, k, v).p2 = call.p2 + v
           /\ StillExpands(call, k, v).growth = k
BY DEF GoesOn, IsExpanded, StillExpands, CallTyped, NoCall

LEMMA TakeNextKeeps ==
    ASSUME IInv, TakeNext
    PROVE  IInv' /\ NoneShorter
<1> DEFINE a == call.stg - TAG_SIZE
           n == call.p2
           k == call.growth
           v == near.len[n]
           h == CHOOSE x \in Holders(near, call.stg) : TRUE
           rest == v - k
           w == near.len[a]
           b == BlockSize(call.amt)
<1> USE SizesAre
<1>1. call.op = "expand" /\ IsFree(near, n) /\ UNCHANGED <<platform, moving, given, own>>
  BY DEF TakeNext
<1>2. IF rest < FRL_SIZE
      THEN near' = Absorb(near, h, a, n) /\ call' = IF rest >= 0 THEN IsExpanded(call) ELSE StillExpands(call, -rest, v)
      ELSE near' = AbsorbPart(near, h, a, n, k) /\ call' = IsExpanded(call)
  BY ONLY TakeNext DEF TakeNext, Absorb, AbsorbPart, IsExpanded, StillExpands
<1>3. /\ Situated(near) /\ Sound(near) /\ Owned(near, given, call) /\ CallTyped(call) /\ ExpandOk(near, call, moving, given)
  BY NowIs
<1>4. /\ call.stg \in DOMAIN given /\ k \in Nat /\ k > 0 /\ n = a + w /\ w + k = b /\ call.amt \in Nat
  BY <1>1, <1>3 DEF ExpandOk, Names, Expands, CallTyped
<1>5. /\ a \in near.used /\ a + TAG_SIZE = call.stg /\ w \in Nat /\ a \in Blocks(near.len) /\ a \in Nat
      /\ \E x \in Heaps(near) : Inside(near, x, a)
  BY <1>3, <1>4, BlockOf
<1>6. PICK x \in Heaps(near) : Inside(near, x, a)  BY <1>5
<1>7. h = x
  <2>1. Holders(near, a + TAG_SIZE) = {x}
    <3> HIDE DEF a
    <3> QED  BY ONLY <1>3, <1>5, <1>6, HolderIs
  <2>2. Holders(near, call.stg) = {x}  BY ONLY <1>5, <2>1
  <2> QED  BY <2>2
<1>8. v \in Nat /\ HeapOk(near, h) /\ Inside(near, h, a) /\ h \in Heaps(near)
  <2>1. Tiling(near.len, Heaps(near), Ends(near))  BY <1>3 DEF Sound, TilesAll
  <2>2. n \in DOMAIN near.len
    <3>1. a + w \in DOMAIN near.len  BY <1>5, <2>1, BlocksAre
    <3> QED  BY <1>4, <3>1
  <2> HIDE DEF n
  <2>3. n \in Blocks(near.len)  BY <1>1, <2>2 DEF IsFree, Blocks
  <2>4. near.len[n] \in Nat  BY ONLY <2>1, <2>3, BlocksAre
  <2> HIDE DEF h, a
  <2>5. h \in Heaps(near) /\ Inside(near, h, a)  BY ONLY <1>6, <1>7
  <2>6. HeapOk(near, h)  BY ONLY <1>3, <2>5, SoundIs
  <2> QED  BY <2>4, <2>5, <2>6
<1>9. b \in Nat /\ call.amt + TAG_SIZE <= b  BY <1>4, BlockSizeIs
<1> HIDE DEF h, a, n, k, v, w, b
<1>10. CASE rest < FRL_SIZE
  <2>1. Grown(near, near', h, a, v)
    <3>1. near' = Absorb(near, h, a, n)  BY <1>2, <1>10
    <3>2. n = a + near.len[a]  BY <1>4 DEF w
    <3>3. Grown(near, Absorb(near, h, a, n), h, a, near.len[n])
      BY ONLY <1>1, <1>5, <1>8, <3>2, AbsorbIs
    <3> QED  BY <3>1, <3>3 DEF v
  <2>2. near'.len[a] = w + v  BY <2>1 DEF Grown, w
  <2>3. CASE rest >= 0
    <3>1. call' = IsExpanded(call)  BY <1>2, <1>10, <2>3
    <3>2. GoesOn(call') /\ call'.op = "expanded" /\ call'.p2 = call.p2
      BY <1>3, <3>1, GoesOnIs
    <3>3. call.amt + TAG_SIZE <= w + v /\ w + v < b + FRL_SIZE  BY <1>4, <1>5, <1>8, <1>9, <1>10, <2>3
    <3>4. Expands(near', call')
      <4>1. call'.stg - TAG_SIZE = a /\ call'.amt = call.amt  BY <3>2 DEF GoesOn, a
      <4>2. call.amt + TAG_SIZE <= near'.len[a] /\ near'.len[a] < b + FRL_SIZE  BY <2>2, <3>3
      <4> QED  BY <3>2, <4>1, <4>2 DEF Expands, b
    <3> QED  BY ONLY IInv, <1>1, <1>8, <2>1, <3>2, <3>4, GrownKeeps DEF a
  <2>4. CASE ~(rest >= 0)
    <3> DEFINE k2 == -rest
    <3>1. call' = StillExpands(call, k2, v)  BY <1>2, <1>10, <2>4
    <3>2. k2 \in Nat /\ k2 > 0 /\ v + k2 = k  BY <1>4, <1>8, <2>4
    <3> HIDE DEF k2
    <3>3. GoesOn(call') /\ call'.op = "expand" /\ call'.p2 = n + v /\ call'.growth = k2
      BY <1>1, <1>3, <3>1, <3>2, GoesOnIs DEF n
    <3>4. call'.p2 = a + near'.len[a]  BY <1>4, <1>5, <1>8, <2>2, <3>3
    <3>5. Expands(near', call')
      <4>1. call'.stg - TAG_SIZE = a /\ call'.amt = call.amt  BY <3>3 DEF GoesOn, a
      <4>2. (w + v) + k2 = b  BY <1>4, <1>5, <1>8, <3>2
      <4>3. near'.len[a] + k2 = b  BY <2>2, <4>2
      <4> QED  BY <3>2, <3>3, <3>4, <4>1, <4>3 DEF Expands, b
    <3> QED  BY ONLY IInv, <1>1, <1>8, <2>1, <3>3, <3>4, <3>5, GrownKeeps DEF a
  <2> QED  BY <2>3, <2>4
<1>11. CASE ~(rest < FRL_SIZE)
  <2>1. Grown(near, near', h, a, k)
    <3>1. near' = AbsorbPart(near, h, a, n, k)  BY <1>2, <1>11
    <3>2. n = a + near.len[a]  BY <1>4 DEF w
    <3>3. FRL_SIZE <= near.len[n] - k  BY <1>4, <1>8, <1>11 DEF v
    <3>4. MayPart(near, h, a, n, k)  BY <1>1, <1>4, <1>5, <1>8, <3>2, <3>3 DEF MayPart
    <3> QED  BY <3>1, <3>4, AbsorbPartIs
  <2>2. near'.len[a] = w + k  BY <2>1 DEF Grown, w
  <2>3. call' = IsExpanded(call)  BY <1>2, <1>11
  <2>4. GoesOn(call') /\ call'.op = "expanded" /\ call'.p2 = call.p2
    BY <1>3, <2>3, GoesOnIs
  <2>5. Expands(near', call')
    <3>1. call'.stg - TAG_SIZE = a /\ call'.amt = call.amt  BY <2>4 DEF GoesOn, a
    <3>2. call.amt + TAG_SIZE <= near'.len[a] /\ near'.len[a] < b + FRL_SIZE  BY <1>4, <1>9, <2>2
    <3> QED  BY <2>4, <3>1, <3>2 DEF Expands, b
  <2>6. k \in Nat  BY <1>4
  <2> QED  BY ONLY IInv, <1>1, <1>8, <2>1, <2>4, <2>5, <2>6, GrownKeeps DEF a
<1> QED  BY <1>10, <1>11

LEMMA NotMovingOk ==
    ASSUME NEW g, NEW c
    PROVE  MovingOk(NotMoving, g, c)
BY SizesAre DEF MovingOk, NotMoving

LEMMA ExpandFailsKeeps ==
    ASSUME IInv, ExpandFails
    PROVE  IInv' /\ KeptBlocks(near, near')
<1> DEFINE C == MayGrow
<1>1. call.op = "expand" /\ ExpandReturns(FALSE) /\ UNCHANGED <<platform, own>>
  BY DEF ExpandFails
<1>2. PICK r \in IF C THEN ExpandDGROUP(near, call.growth) ELSE {Kept(near)} : ~r.ok /\ near' = r.heap
  BY DEF ExpandFails
<1> HIDE DEF C
<1>3. Situated(near) /\ call.growth \in Nat /\ Skipped(near) /\ MovingOk(moving, given, call) /\ CallTyped(call)
  BY <1>1, NowIs DEF CallTyped
<1>4. Situated(near') /\ Fewer(near, near')  BY <1>2, <1>3, NoGrowthKeeps
<1>5. call' = NoCall /\ given' = given  BY <1>1 DEF ExpandReturns
<1>6. MovingOk(moving', given, NoCall)
  <2>1. CASE call.by = "program"
    <3>1. moving' = moving  BY <1>1, <2>1 DEF ExpandReturns
    <3> QED  BY <1>3, <2>1, <3>1 DEF MovingOk
  <2>2. CASE call.by = "nrealloc" /\ moving.at = "expand"
    <3>1. moving' = [moving EXCEPT !.at = "malloc"]  BY <1>1, <2>2 DEF ExpandReturns
    <3> DEFINE m == moving'
    <3> HIDE DEF m
    <3>2. /\ DOMAIN m = DOMAIN NotMoving /\ m.at = "malloc" /\ m.stg = moving.stg /\ m.amt = moving.amt
          /\ m.p = moving.p /\ m.old = moving.old
      BY <1>3, <3>1 DEF MovingOk, NotMoving, m
    <3>3. MovingOk(m, given, NoCall)  BY <1>3, <2>2, <3>2 DEF MovingOk
    <3> QED  BY <3>3 DEF m
  <2>3. CASE call.by = "nrealloc" /\ moving.at # "expand"
    <3>1. moving' = NotMoving  BY <1>1, <2>3 DEF ExpandReturns
    <3> QED  BY <3>1, NotMovingOk
  <2> QED  BY <1>3, <2>1, <2>2, <2>3 DEF CallTyped
<1>7. KeptBlocks(near, near') /\ MovingOk(moving', given', call') /\ call.op # "expanded"
  BY <1>1, <1>4, <1>5, <1>6 DEF Fewer
<1> QED  BY <1>1, <1>3, <1>4, <1>5, <1>7, EndsKeep

LEMMA ExpandDoneKeeps ==
    ASSUME IInv, ExpandDone
    PROVE  IInv'
<1> DEFINE p == call.stg
           g == given'
           d == call'
           m == moving'
           C == call.by = "program" \/ moving.at = "expand"
           a == p - TAG_SIZE
<1> USE SizesAre
<1>1. call.op = "expanded" /\ ExpandReturns(TRUE) /\ UNCHANGED <<platform, near, own>>
  BY DEF ExpandDone
<1>2. /\ Situated(near) /\ Owned(near, given, call) /\ MovingOk(moving, given, call) /\ CallTyped(call)
      /\ ExpandOk(near, call, moving, given) /\ Skipped(near)
  BY <1>1, NowIs
<1>3. call' = NoCall /\ g = IF C THEN [given EXCEPT ![p] = call.amt] ELSE given
  BY <1>1 DEF ExpandReturns
<1>4. m = IF call.by = "program" THEN moving ELSE NotMoving  BY <1>1 DEF ExpandReturns
<1> HIDE DEF d, g, m
<1>5. /\ p \in DOMAIN given /\ call.amt + TAG_SIZE <= near.len[a] /\ call.amt \in Nat
      /\ call.by = "program" => p # moving.stg /\ p # moving.p
      /\ call.by = "nrealloc" => /\ moving.at \in {"expand", "restore"} /\ p = moving.stg
                                 /\ moving.at = "restore" => call.amt = moving.old
  BY <1>1, <1>2 DEF ExpandOk, Expands, Names, CallTyped
<1>6. /\ given \in [DOMAIN given -> Nat] /\ DOMAIN given \subseteq Addr
      /\ near.used = {q - TAG_SIZE : q \in DOMAIN given}
      /\ \A q \in DOMAIN given : q # p => given[q] + TAG_SIZE <= near.len[q - TAG_SIZE]
  BY <1>1, <1>2 DEF Owned
<1>7. near.len[a] \in Nat  BY <1>2, <1>5, BlockOf
<1>8. /\ DOMAIN g = DOMAIN given /\ g \in [DOMAIN g -> Nat]
      /\ \A q \in DOMAIN given : q # p => g[q] = given[q]
      /\ g[p] + TAG_SIZE <= near.len[a]
  <2>1. CASE C
    <3>1. g = [given EXCEPT ![p] = call.amt]  BY <1>3, <2>1
    <3> HIDE DEF p, a
    <3> QED  BY <1>5, <1>6, <3>1
  <2>2. CASE ~C
    <3>1. g = given  BY <1>3, <2>2
    <3>2. call.by = "nrealloc" /\ moving.at = "restore" /\ p = moving.stg /\ call.amt = moving.old
      BY <1>2, <1>5, <2>2 DEF CallTyped
    <3>3. given[p] <= moving.old /\ moving.old \in Nat  BY <1>2, <3>2 DEF MovingOk
    <3> DEFINE v == near.len[a]
               x == given[p]
    <3>4. v \in Nat /\ x \in Nat /\ x <= call.amt /\ call.amt + TAG_SIZE <= v
      BY <1>5, <1>6, <1>7, <3>2, <3>3
    <3> HIDE DEF v, x
    <3>5. x + TAG_SIZE <= v  BY <1>5, <3>4
    <3> QED  BY <1>6, <3>1, <3>5 DEF v, x
  <2> QED  BY <2>1, <2>2
<1>9. Owned(near, g, NoCall)  BY <1>6, <1>8 DEF Owned
<1>10. MovingOk(m, g, NoCall)
  <2>1. CASE call.by = "program"
    <3>1. m = moving  BY <1>4, <2>1
    <3>2. p # moving.stg  BY <1>5, <2>1
    <3> QED  BY <1>2, <1>8, <2>1, <3>1, <3>2 DEF MovingOk
  <2>2. CASE call.by # "program"  BY <1>4, <2>2, NotMovingOk
  <2> QED  BY <2>1, <2>2
<1>11. CallTyped(NoCall) /\ MallocOk(near, NoCall, m) /\ ExpandOk(near, NoCall, m, g)
  BY DEF CallTyped, MallocOk, ExpandOk, NoCall
<1>12. Situated(near)'  BY <1>1, <1>2, StillSituated
<1>13. Rest'  BY <1>1, <1>2 DEF Rest, Skipped
<1> QED  BY <1>1, <1>3, <1>9, <1>10, <1>11, <1>12, <1>13 DEF IInv, g, m

LEMMA HeapminKeeps ==
    ASSUME IInv, Heapmin
    PROVE  IInv' /\ KeptBlocks(near, near')
<1>1. /\ Idle /\ near' = nheapshrink(near) /\ UNCHANGED <<platform, call, moving, given, own>>
      /\ platform = "brk" /\ ~ShrinkAnytime => ~CutsFreeRover(near)
  BY DEF Heapmin
<1>2. /\ Situated(near) /\ Sound(near) /\ Skipped(near) /\ MovingOk(moving, given, call) /\ call = NoCall
      /\ platform \in {"NT", "brk"} /\ (platform = "brk" => BelowBrk(near))
  BY <1>1, NowIs, PlatformIs DEF Idle
<1>3. Fewer(near, near') \/ (platform = "brk" /\ Lowered(near, near'))
  BY <1>1, <1>2, NheapshrinkIs
<1>4. Situated(near') /\ KeptBlocks(near, near')  BY <1>2, <1>3, LoweredKept
<1>5. call' = NoCall /\ given' = given /\ MovingOk(moving', given', call') /\ call.op # "expanded"
  BY <1>1, <1>2 DEF NoCall
<1> QED  BY <1>1, <1>2, <1>4, <1>5, EndsKeep

LEMMA BrkAtIs ==
    ASSUME NEW s, Sound(s), NEW c \in Start..Top
    PROVE  SameHeap(s, BrkAt(s, c)) /\ BrkAt(s, c).curbrk = c /\ BrkAt(s, c).MiniHeapRover = s.MiniHeapRover
           /\ BrkAt(s, c).LargestSizeB4 = s.LargestSizeB4
BY DEF BrkAt, SameHeap, Sound, Typed, RoversOk, Live, Heaps

LEMMA SbrkKeeps ==
    ASSUME IInv, AskedOk, ~SbrkRace, SbrkSets
    PROVE  IInv'
<1> DEFINE t == near'
           n == asked.n
           c == asked.from + n
           more == near.curbrk .. near.curbrk + n - 1
<1> USE SizesAre
<1>1. n \in Nat /\ n > 0 /\ asked.from \in Nat /\ near.curbrk <= asked.from
  BY HeapAssumption DEF AskedOk, SbrkSets
<1>2. /\ Idle /\ platform = "brk" /\ c <= Top /\ t = BrkAt(near, c) /\ own' = own \cup more
      /\ UNCHANGED <<platform, call, moving, given>>
  BY DEF SbrkSets, BrkAt, AskedOk
<1>3. /\ Situated(near) /\ Sound(near) /\ Skipped(near) /\ Owned(near, given, call) /\ MovingOk(moving, given, call)
      /\ CallTyped(call) /\ call = NoCall /\ near.curbrk \in Start..Top /\ near.curbrk \in Nat
      /\ BelowBrk(near) /\ OwnApart(near) /\ platform \in Platforms /\ TilesAll(near) /\ Typed(near)
  BY <1>2, NowIs, PlatformIs, NumbersOf DEF Idle, Situated
<1>4. c \in Start..Top  BY <1>1, <1>2, <1>3
<1> HIDE DEF t
<1>5. /\ SameHeap(near, t) /\ t.curbrk = c /\ t.MiniHeapRover = near.MiniHeapRover
      /\ t.LargestSizeB4 = near.LargestSizeB4
  BY <1>2, <1>3, <1>4, BrkAtIs
<1>6. Sound(t) /\ Heaps(t) = Heaps(near) /\ Ends(t) = Ends(near)
  BY <1>3, <1>5, SameHeapIs
<1>7. t.mh = near.mh /\ t.len = near.len /\ t.used = near.used  BY <1>5 DEF SameHeap
<1>8. \A h \in Heaps(near) : /\ End(t, h) = End(near, h) /\ End(near, h) \in Nat
                             /\ Start <= h /\ End(near, h) < near.curbrk
  BY <1>3, <1>7, EndIs DEF End, BelowBrk
<1>9. BelowBrk(t)  BY <1>1, <1>3, <1>5, <1>6, <1>8 DEF BelowBrk
<1>10. /\ own' \subseteq Addr
       /\ \A o \in own' : o < t.curbrk /\ \A h \in Heaps(t) : o < h \/ End(t, h) < o
  <2>1. ASSUME NEW o \in own
        PROVE  o \in Addr /\ o < t.curbrk /\ \A h \in Heaps(t) : o < h \/ End(t, h) < o
    <3>1. o \in Addr /\ o < near.curbrk /\ \A h \in Heaps(near) : o < h \/ End(near, h) < o
      BY <1>3 DEF OwnApart
    <3>2. o < c  BY <1>1, <1>3, <3>1 DEF Addr
    <3> QED  BY <1>5, <1>6, <1>8, <3>1, <3>2
  <2>2. ASSUME NEW o \in more
        PROVE  o \in Addr /\ o < t.curbrk /\ \A h \in Heaps(t) : o < h \/ End(t, h) < o
    <3>1. o \in Int /\ near.curbrk <= o /\ o < c  BY <1>1, <1>3, <2>2
    <3>2. o \in Addr
      <4>1. 1 <= near.curbrk /\ near.curbrk \in Nat  BY <1>3
      <4>2. c <= Top /\ c \in Nat  BY <1>2, <1>4
      <4> HIDE DEF c
      <4>3. 1 <= o /\ o <= Top  BY <3>1, <4>1, <4>2
      <4> QED  BY <3>1, <4>3 DEF Addr
    <3>3. \A h \in Heaps(t) : End(t, h) < o  BY <1>3, <1>6, <1>8, <3>1
    <3> QED  BY <1>5, <3>1, <3>2, <3>3
  <2> QED  BY <1>2, <2>1, <2>2
<1>11. Situated(near)'
  <2>1. OwnApart(near)'  BY <1>2, <1>10 DEF OwnApart, t
  <2>2. Lies(near)'  BY <1>2, <1>9 DEF Lies, t
  <2>3. platform' \in Platforms /\ Sound(near')  BY <1>2, <1>3, <1>6 DEF t
  <2> QED  BY <2>1, <2>2, <2>3 DEF Situated
<1>12. Owned(t, given, call)  BY <1>3, <1>7, OwnedKept
<1>13. MallocOk(t, NoCall, moving) /\ ExpandOk(t, NoCall, moving, given) /\ Skipped(t)
  BY <1>3, <1>5, <1>6, <1>7 DEF MallocOk, ExpandOk, NoCall, Skipped
<1> QED  BY <1>2, <1>3, <1>11, <1>12, <1>13 DEF IInv, Rest, t

-------------------------------------------------------------------------------
\* The invariant holds.

LEMMA InitHolds ==
    ASSUME Init
    PROVE  IInv
<1> USE SizesAre
<1>1. /\ platform \in Platforms /\ call = NoCall /\ moving = NotMoving /\ given = << >> /\ own = {}
      /\ near = [len |-> << >>, used |-> {}, list |-> << >>, mh |-> << >>,
                 MiniHeapRover |-> NULL, LargestSizeB4 |-> 0,
                 MiniHeapFreeRover |-> NULL, curbrk |-> Start, wild |-> FALSE]
  BY DEF Init
<1>2. /\ near.len = << >> /\ near.used = {} /\ near.list = << >> /\ near.mh = << >> /\ near.MiniHeapRover = NULL
      /\ near.LargestSizeB4 = 0 /\ near.MiniHeapFreeRover = NULL /\ near.curbrk = Start /\ near.wild \in BOOLEAN /\ ~near.wild
      /\ DOMAIN near = {"len", "used", "list", "mh", "MiniHeapRover", "LargestSizeB4",
                        "MiniHeapFreeRover", "curbrk", "wild"}
  BY <1>1
<1>3. Heaps(near) = {} /\ DOMAIN << >> = {} /\ Len(near.list) = 0
  BY <1>2 DEF Heaps, ToSet
<1>4. Typed(near)
  <2>1. near.mh \in [Heaps(near) -> Descriptor]  BY <1>2, <1>3
  <2>2. near.list \in Seq(Nat) /\ Rising(near.list)  BY <1>2, <1>3 DEF Rising
  <2>3. near.LargestSizeB4 \in (0..Top) \cup {Largest} /\ near.curbrk \in Start..Top /\ near.wild \in BOOLEAN
    <3>1. 0 \in 0..Top /\ Start \in Start..Top  OBVIOUS
    <3> QED  BY <1>2, <3>1
  <2> QED  BY <1>2, <2>1, <2>2, <2>3 DEF Typed
<1>5. TilesAll(near) /\ AloneOf(near.len, near.used)
  BY <1>2, <1>3 DEF TilesAll, Tiling, TilesOf, LenOK, Adjacent, Reached, Closed, Homes, Apart, AloneOf, Blocks, Ends
<1>6. Sound(near)  BY <1>2, <1>3, <1>4, <1>5 DEF Sound, RoversOk, Live
<1>7. Situated(near)  BY <1>1, <1>2, <1>3, <1>6 DEF Situated, Lies, BelowBrk, OwnApart
<1>8. Owned(near, given, call) /\ MovingOk(moving, given, call)
  BY <1>1, <1>2, <1>3, NotMovingOk DEF Owned
<1>9. CallTyped(call) /\ MallocOk(near, call, moving) /\ ExpandOk(near, call, moving, given) /\ Rest
  <2>1. CallTyped(NoCall)  BY DEF CallTyped, NoCall
  <2>2. MallocOk(near, NoCall, moving) /\ ExpandOk(near, NoCall, moving, given)
    BY DEF MallocOk, ExpandOk, NoCall
  <2>3. Skipped(near)  BY <1>3 DEF Skipped
  <2> QED  BY <1>1, <2>1, <2>2, <2>3 DEF Rest
<1> QED  BY <1>7, <1>8, <1>9 DEF IInv

LEMMA StutterHolds ==
    ASSUME IInv, UNCHANGED heapVars
    PROVE  IInv'
BY DEF IInv, Situated, Owned, MovingOk, CallTyped, MallocOk, ExpandOk, Expands, Names, Searched, Skipped,
       Rest, Lies, BelowBrk, OwnApart, heapVars

\* The steps in which the heap does not change.
LEMMA AskIs ==
    ASSUME (\E n \in Sbrks : SbrkReads(n)) \/ SbrkFails \/ UNCHANGED vars
    PROVE  UNCHANGED heapVars
BY DEF SbrkReads, SbrkFails, vars, heapVars

LEMMA StepHolds ==
    ASSUME IInv, AskedOk, ~SbrkRace, [Next]_vars
    PROVE  IInv'
<1>1. CASE InCall
  BY <1>1, VisitKeeps, GrowForMallocKeeps, MallocFailsKeeps, TakeNextKeeps, GrowForExpandKeeps, ExpandFailsKeeps,
     ExpandDoneKeeps DEF InCall
<1>2. CASE ReallocMoves \/ ReallocFrees \/ ReallocRestores \/ Heapmin
  BY <1>2, ReallocMovesKeeps, ReallocFreesKeeps, ReallocRestoresKeeps, HeapminKeeps
<1>3. CASE \E amt \in Sizes : Malloc(amt)  BY <1>3, MallocKeeps
<1>4. CASE \E stg \in Mine : Free(stg)  BY <1>4, FreeKeeps
<1>5. CASE \E stg \in Mine, amt \in Sizes : Expand(stg, amt) \/ Realloc(stg, amt)
  BY <1>5, ExpandKeeps, ReallocKeeps
<1>6. CASE SbrkSets  BY <1>6, SbrkKeeps
<1>7. CASE (\E n \in Sbrks : SbrkReads(n)) \/ SbrkFails \/ UNCHANGED vars
  BY <1>7, AskIs, StutterHolds
<1> QED  BY <1>1, <1>2, <1>3, <1>4, <1>5, <1>6, <1>7 DEF Next

LEMMA AskedHolds ==
    ASSUME IInv, AskedOk, [Next]_vars
    PROVE  AskedOk'
<1>1. CASE \E n \in Sbrks : SbrkReads(n)
  <2>1. near.curbrk \in 0..Top  BY <1>1, NowIs, SizesAre DEF Sound, Typed
  <2> QED  BY <1>1, <2>1 DEF SbrkReads, AskedOk, heapVars
<1>2. CASE SbrkSets \/ SbrkFails
  BY <1>2, SizesAre DEF SbrkSets, SbrkFails, NotAsked, AskedOk
<1>3. CASE asked' = asked /\ platform' = platform  BY <1>3 DEF AskedOk
<1> QED
  BY <1>1, <1>2, <1>3 DEF Next, InCall, VisitMiniHeap, GrowForMalloc, MallocFails, TakeNext, GrowForExpand,
     ExpandFails, ExpandDone, ReallocMoves, ReallocFrees, ReallocRestores, Heapmin, Malloc, Free, Expand,
     Realloc, vars

LEMMA Invariant ==
    ASSUME ~SbrkRace
    PROVE  Spec => [](IInv /\ AskedOk)
<1>1. Init => IInv /\ AskedOk  BY InitHolds, SizesAre DEF Init, AskedOk, NotAsked
<1>2. IInv /\ AskedOk /\ [Next]_vars => (IInv /\ AskedOk)'  BY StepHolds, AskedHolds
<1> QED  BY <1>1, <1>2, PTL DEF Spec

-------------------------------------------------------------------------------
\* What follows from it.

LEMMA RoversFollow ==
    ASSUME IInv, ~ShrinkAnytime
    PROVE  RoversLive
BY NowIs DEF Sound, RoversOk, RoversLive

LEMMA BoundsFollow ==
    ASSUME IInv
    PROVE  BoundsHold
<1>1. Sound(near) /\ (call.op # "malloc" => Skipped(near))  BY NowIs
<1>2. ASSUME NEW h \in Heaps(near)
      PROVE  LET m == near.mh[h] IN
             /\ Contains(m.free, m.rover)
             /\ \A i \in 2..Len(m.free) :
                   /\ near.len[m.free[i]] <= m.largest_blk
                   /\ m.free[i] < m.rover => near.len[m.free[i]] <= m.b4rover
  <2>1. HeapOk(near, h) /\ Bounded(near, h)  BY <1>1, SoundIs, SMTT(30) DEF Sound
  <2>2. ASSUME NEW i \in 2..Len(near.mh[h].free)
        PROVE  Contains(near.mh[h].free, near.mh[h].free[i]) /\ near.mh[h].free[i] # h
    BY <2>1, RingIndex
  <2> QED  BY <2>1, <2>2 DEF Bounded
<1>3. Live(near, near.MiniHeapRover)  BY <1>1 DEF Sound, RoversOk
<1>4. Idle => Skipped(near)  BY <1>1 DEF Idle
<1> QED  BY <1>2, <1>3, <1>4 DEF BoundsHold, Heaps, Skipped

LEMMA TypesFollow ==
    ASSUME IInv, AskedOk
    PROVE  TypeOK
<1> USE SizesAre
<1>1. /\ Situated(near) /\ Sound(near) /\ Typed(near) /\ Owned(near, given, call)
      /\ MovingOk(moving, given, call) /\ CallTyped(call) /\ MallocOk(near, call, moving)
      /\ ExpandOk(near, call, moving, given) /\ TilesAll(near) /\ AloneOf(near.len, near.used)
      /\ platform \in Platforms /\ OwnApart(near)
  BY NowIs DEF Situated, Sound
<1>2. LenOK(near.len) /\ Heaps(near) \subseteq Addr  BY <1>1 DEF TilesAll, Tiling
<1>3. near.used \subseteq DOMAIN near.len /\ DOMAIN near.len \subseteq 1..Top
  BY <1>1, <1>2 DEF AloneOf, Blocks, LenOK, Addr
<1>4. ASSUME NEW b \in DOMAIN near.len PROVE near.len[b] \in (1..Top) \cup {END_TAG}
  <2> DEFINE v == near.len[b]
  <2>1. v \in (FRL_SIZE..Top) \cup {END_TAG}  BY <1>2 DEF LenOK
  <2> HIDE DEF v
  <2>2. v \in (1..Top) \cup {END_TAG}  BY <2>1
  <2> QED  BY <2>2 DEF v
<1>5. DOMAIN near.mh = ToSet(near.list) /\ ToSet(near.list) \subseteq 1..Top
  BY <1>1, <1>2 DEF Typed, Heaps, Addr
<1>6. near.LargestSizeB4 \in (0..Top) \cup {Largest} /\ near.curbrk \in Start..Top /\ near.wild \in BOOLEAN
  BY <1>1 DEF Typed
<1>7. DOMAIN given \subseteq 1..Top /\ own \subseteq 1..Top
  BY <1>1 DEF Owned, OwnApart, Addr
<1>8. NULL \in 0..Top /\ 1..Top \subseteq 0..Top  OBVIOUS
<1>9. call.stg \in 0..Top
  <2>1. CASE call.op = "none"  BY <1>1, <1>8, <2>1 DEF CallTyped, NoCall
  <2>2. CASE call.op = "malloc"  BY <1>1, <1>8, <2>2 DEF MallocOk
  <2>3. CASE call.op \in {"expand", "expanded"}
    <3>1. call.stg \in DOMAIN given  BY <1>1, <2>3 DEF ExpandOk, Names
    <3> QED  BY <1>7, <1>8, <3>1
  <2> QED  BY <1>1, <2>1, <2>2, <2>3 DEF CallTyped
<1>10. call.mhp \in 0..Top
  <2>1. CASE call.op = "malloc"
    <3>1. Live(near, call.mhp)  BY <1>1, <2>1 DEF MallocOk, Searched
    <3>2. call.mhp = NULL \/ call.mhp \in Heaps(near)
      BY <1>1, <3>1, ListedIs DEF Live, Typed
    <3> QED  BY <1>5, <1>8, <3>2 DEF Heaps
  <2> QED  BY <1>1, <1>8, <2>1 DEF CallTyped
<1>11. moving.stg \in 0..Top /\ moving.p \in 0..Top
  <2>1. CASE moving.at = "no"  BY <1>1, <1>8, <2>1 DEF MovingOk, NotMoving
  <2>2. CASE moving.at # "no"  BY <1>1, <1>7, <1>8, <2>2 DEF MovingOk
  <2> QED  BY <2>1, <2>2
<1> QED
  BY <1>1, <1>3, <1>4, <1>5, <1>6, <1>7, <1>9, <1>10, <1>11 DEF TypeOK, CallTyped, MovingOk, AskedOk

\* The tags of a miniheap.
LEMMA TagHome ==
    ASSUME NEW s, Sound(s), NEW h \in Heaps(s), NEW b \in DOMAIN s.len, h < b, b <= End(s, h)
    PROVE  /\ h + DESCRIPTOR <= b /\ (s.len[b] = END_TAG <=> b = End(s, h))
           /\ b # End(s, h) => /\ b \in Blocks(s.len) /\ b + s.len[b] \in DOMAIN s.len
                               /\ h < b + s.len[b] /\ b + s.len[b] <= End(s, h)
           /\ \/ b = h + DESCRIPTOR
              \/ \E c \in DOMAIN s.len : h < c /\ c < End(s, h) /\ b = c + s.len[c]
<1> DEFINE H == Heaps(s)
           e == Ends(s)
           len == s.len
<1> USE SizesAre
<1>1. /\ LenOK(len) /\ H \in SUBSET Addr /\ e \in [H -> Nat] /\ TilesOf(len, H, e) /\ Tiling(len, H, e)
      /\ Typed(s) /\ TilesAll(s)
  BY DEF Sound, TilesAll, Tiling
<1>2. \A g \in H : g \in Nat /\ e[g] = End(s, g) /\ e[g] \in Nat /\ g + DESCRIPTOR < e[g]
  BY <1>1, EndIs
<1>3. b \in Nat  BY <1>1, LensAre
<1> HIDE DEF H, e, len
<1>4. Apart(H, e) /\ Homes(len, H, e) /\ Reached(len, H) /\ b \in DOMAIN len /\ h \in H /\ b <= e[h]
  BY <1>1, <1>2 DEF TilesOf, H, len
<1>5. ASSUME NEW g \in H, g < b, b <= e[g] PROVE g = h
  BY <1>1, <1>3, <1>4, <1>5, OneHome
<1>6. h + DESCRIPTOR <= b /\ (len[b] = END_TAG <=> b = e[h])
  <2>1. PICK g \in H : g + DESCRIPTOR <= b /\ b <= e[g] /\ (len[b] = END_TAG <=> b = e[g])
    BY <1>4 DEF Homes
  <2>2. g < b  BY <1>2, <1>3, <2>1
  <2>3. g = h  BY <1>5, <2>1, <2>2
  <2> QED  BY <2>1, <2>3
<1>7. ASSUME b # e[h]
      PROVE  /\ b \in Blocks(len) /\ b + len[b] \in DOMAIN len
             /\ h < b + len[b] /\ b + len[b] <= e[h]
  <2>1. b < e[h]  BY <1>2, <1>3, <1>4, <1>7
  <2>2. len[b] # END_TAG /\ b + len[b] \in DOMAIN len /\ b + len[b] <= e[h]
    BY <1>1, <1>4, <2>1, BlockIs
  <2>3. len[b] \in Nat  BY <1>1, <1>4, <2>2, LensAre
  <2>4. h < b + len[b]  BY <1>2, <1>3, <1>4, <2>3
  <2> QED  BY <1>4, <2>2, <2>4 DEF Blocks
<1>8. \/ b = h + DESCRIPTOR
      \/ \E c \in DOMAIN len : h < c /\ c < e[h] /\ b = c + len[c]
  <2>1. CASE \E g \in H : b = g + DESCRIPTOR
    <3>1. PICK g \in H : b = g + DESCRIPTOR  BY <2>1
    <3>2. g < b /\ b <= e[g]  BY <1>2, <3>1
    <3>3. g = h  BY <1>5, <3>2
    <3> QED  BY <3>1, <3>3
  <2>2. CASE \E c \in DOMAIN len : len[c] # END_TAG /\ c + len[c] = b
    <3>1. PICK c \in DOMAIN len : len[c] # END_TAG /\ c + len[c] = b  BY <2>2
    <3>2. PICK g \in H : g < c /\ c < e[g]  BY <1>1, <3>1, HomeIs
    <3>3. c + len[c] <= e[g]  BY <1>1, <3>1, <3>2, BlockIs
    <3>4. c \in Nat /\ len[c] \in Nat  BY <1>1, <3>1, LensAre
    <3>5. g < b /\ b <= e[g]  BY <1>2, <3>1, <3>2, <3>3, <3>4
    <3>6. g = h  BY <1>5, <3>5
    <3> QED  BY <3>1, <3>2, <3>6
  <2> QED  BY <1>4, <2>1, <2>2 DEF Reached
<1>9. e[h] = End(s, h)  BY <1>2, <1>4
<1> QED  BY <1>6, <1>7, <1>8, <1>9 DEF len

LEMMA TiledFollows ==
    ASSUME Sound(near), NEW h \in Heaps(near)
    PROVE  Tiled(h)
<1> DEFINE tags == TagsOf(h)
           end == End(near, h)
           len == near.len
<1> USE SizesAre
<1>1. /\ h \in Nat /\ end \in Nat /\ h + DESCRIPTOR < end /\ end \in DOMAIN len /\ end = h + near.mh[h].len
      /\ h + DESCRIPTOR \in DOMAIN len
  <2>1. Typed(near) /\ TilesAll(near)  BY DEF Sound
  <2>2. h + DESCRIPTOR \in DOMAIN len  BY <2>1 DEF TilesAll, Tiling, TilesOf, Closed
  <2> QED  BY <2>1, <2>2, EndIs
<1>2. \A b : b \in tags <=> b \in DOMAIN len /\ h < b /\ b <= end  BY <1>1 DEF TagsOf
<1> HIDE DEF tags, end
<1>3. end \in tags /\ h + DESCRIPTOR \in tags  BY <1>1, <1>2
<1>4. ASSUME NEW b \in tags
      PROVE  /\ (len[b] = END_TAG <=> b = end)
             /\ b # end => b + len[b] \in tags
             /\ \/ b = h + DESCRIPTOR
                \/ \E c \in tags \ {end} : b = c + len[c]
  <2>1. b \in DOMAIN len /\ h < b /\ b <= end  BY <1>2
  <2>2. /\ (len[b] = END_TAG <=> b = end)
        /\ b # end => /\ b + len[b] \in DOMAIN len
                      /\ h < b + len[b] /\ b + len[b] <= end
        /\ \/ b = h + DESCRIPTOR
           \/ \E c \in DOMAIN len : h < c /\ c < end /\ b = c + len[c]
    BY <2>1, TagHome DEF end
  <2>3. ASSUME NEW c \in DOMAIN len, h < c, c < end PROVE c \in tags \ {end}
    <3>1. c \in Nat  BY LensAre DEF Sound, TilesAll, Tiling
    <3> QED  BY <1>1, <1>2, <2>3, <3>1
  <2> QED  BY <1>2, <2>2, <2>3
<1>5. tags = {h + DESCRIPTOR} \cup {b + len[b] : b \in tags \ {end}}  BY <1>3, <1>4
<1> QED  BY <1>1, <1>3, <1>4, <1>5 DEF Tiled, tags

\* What comes after the first of a list that rises.
LEMMA TailIs ==
    ASSUME NEW q \in Seq(Nat), Rising(q), Len(q) > 0
    PROVE  /\ \A y : y \in ToSet(Tail(q)) <=> Contains(q, y) /\ y # q[1]
           /\ Cardinality(ToSet(Tail(q))) = Len(q) - 1
<1> DEFINE r == Tail(q)
           n == Len(q) - 1
           T == ToSet(r)
<1>1. Len(q) \in Nat /\ n \in Nat /\ q # << >> /\ Len(q) = n + 1
  BY LenProperties, EmptySeq
<1>2. r \in Seq(Nat) /\ Len(r) = n /\ \A i \in 1..Len(r) : r[i] = q[i + 1]
  BY <1>1, HeadTailProperties
<1> HIDE DEF r, n
<1>3. DOMAIN r = 1..n  BY <1>2, LenProperties
<1>4. T = {r[i] : i \in 1..n}  BY <1>3 DEF ToSet
<1>5. \A i, j \in 1..n : r[i] = r[j] => i = j
  <2> SUFFICES ASSUME NEW i \in 1..n, NEW j \in 1..n, r[i] = r[j] PROVE i = j  OBVIOUS
  <2>1. i + 1 \in 1..Len(q) /\ j + 1 \in 1..Len(q) /\ q[i + 1] = q[j + 1]  BY <1>1, <1>2
  <2>2. i + 1 = j + 1  BY <2>1, Order
  <2> QED  BY <2>2
<1>6. Cardinality(T) = n
  <2> DEFINE f == [i \in 1..n |-> r[i]]
  <2>1. f \in Bijection(1..n, T)
    <3>1. f \in [1..n -> T]  BY <1>4
    <3>2. \A a, b \in 1..n : f[a] = f[b] => a = b  BY <1>5
    <3>3. \A y \in T : \E i \in 1..n : f[i] = y  BY <1>4
    <3> HIDE DEF f, T
    <3> QED  BY ONLY <3>1, <3>2, <3>3 DEF Bijection, Injection, Surjection, IsInjective
  <2>2. IsFiniteSet(1..n) /\ Cardinality(1..n) = n  BY <1>1, FS_Interval
  <2> HIDE DEF f, T
  <2>3. ExistsBijection(1..n, T)  BY <2>1 DEF ExistsBijection
  <2> QED  BY <2>2, <2>3, FS_Bijection
<1>7. ASSUME NEW y PROVE y \in T <=> Contains(q, y) /\ y # q[1]
  <2>1. ASSUME y \in T PROVE Contains(q, y) /\ y # q[1]
    <3>1. PICK i \in 1..n : y = r[i]  BY <1>4, <2>1
    <3>2. i + 1 \in 1..Len(q) /\ 1 \in 1..Len(q) /\ y = q[i + 1] /\ i + 1 # 1
      BY <1>1, <1>2, <3>1
    <3>3. q[i + 1] # q[1]  BY <3>2, Order
    <3> QED  BY <3>2, <3>3 DEF Contains
  <2>2. ASSUME Contains(q, y), y # q[1] PROVE y \in T
    <3>1. PICK k \in 1..Len(q) : y = q[k]  BY <2>2 DEF Contains
    <3>2. k # 1  BY <2>2, <3>1
    <3>3. k - 1 \in 1..n /\ (k - 1) + 1 = k  BY <1>1, <3>1, <3>2
    <3>4. r[k - 1] = y  BY <1>2, <3>1, <3>3
    <3> QED  BY <1>4, <3>3, <3>4
  <2> QED  BY <2>1, <2>2
<1> QED  BY <1>1, <1>6, <1>7 DEF r

LEMMA RingFollows ==
    ASSUME Sound(near), NEW h \in Heaps(near)
    PROVE  RingExact(h)
<1> DEFINE m == near.mh[h]
           q == m.free
           end == End(near, h)
           tags == TagsOf(h)
           blocks == tags \ {h + m.len}
           U == near.used
           D == DOMAIN near.len
<1> USE SizesAre
<1>1. /\ h \in Nat /\ end \in Nat /\ end = h + m.len /\ Typed(near) /\ TilesAll(near) /\ AloneOf(near.len, U)
      /\ RingOf(q, h, end, D, U) /\ Counted(near, h) /\ Tiling(near.len, Heaps(near), Ends(near))
  <2>1. Typed(near) /\ TilesAll(near) /\ AloneOf(near.len, U) /\ Ring(near, h) /\ Counted(near, h)
    BY DEF Sound
  <2> QED  BY <2>1, EndIs DEF Ring, TilesAll
<1>2. ASSUME NEW b PROVE b \in blocks <=> b \in D /\ h < b /\ b < end
  <2>1. b \in D => b \in Nat  BY <1>1, BlocksAre
  <2> QED  BY <1>1, <2>1 DEF TagsOf
<1>3. ASSUME NEW b \in blocks PROVE b \in Blocks(near.len)
  <2>1. b \in D /\ h < b /\ b < end  BY <1>2
  <2>2. b \in Nat  BY <1>1, <2>1, BlocksAre
  <2>3. b <= end /\ b # end  BY <1>1, <2>1, <2>2
  <2> QED  BY <2>1, <2>3, TagHome
<1> HIDE DEF tags, blocks, end
<1>4. q \in Seq(Nat) /\ Rising(q) /\ Len(q) > 0 /\ q[1] = h /\ Len(q) \in Nat
      /\ \A b : Contains(q, b) <=> b = h \/ (h < b /\ b < end /\ b \in D \ U)
  BY <1>1, LenProperties DEF RingOf
<1>5. \A y : y \in ToSet(Tail(q)) <=> y \in blocks \ U
  <2>1. \A y : y \in ToSet(Tail(q)) <=> Contains(q, y) /\ y # q[1]  BY <1>4, TailIs
  <2> QED  BY <1>1, <1>2, <1>4, <2>1
<1>6. ToSet(Tail(q)) = blocks \ U  BY <1>5
<1>7. m.numfree = Cardinality(blocks \ U)
  <2>1. Cardinality(ToSet(Tail(q))) = Len(q) - 1  BY <1>4, TailIs
  <2>2. m.numfree = Len(q) - 1  BY <1>1 DEF Counted
  <2> HIDE DEF q
  <2> QED  BY ONLY <1>6, <2>1, <2>2
<1>8. m.numalloc = Cardinality(blocks \cap U)
  <2>1. blocks \cap U = {b \in U : Inside(near, h, b)}
    <3>1. U \subseteq D  BY <1>1 DEF AloneOf, Blocks
    <3> QED  BY <1>2, <3>1 DEF Inside, end
  <2>2. m.numalloc = Cardinality({b \in U : Inside(near, h, b)})  BY <1>1 DEF Counted
  <2> QED  BY <2>1, <2>2
<1>9. \A i, j \in DOMAIN q : i < j => q[i] < q[j]
  <2>1. DOMAIN q = 1..Len(q)  BY <1>4, LenProperties
  <2> QED  BY <1>4, <2>1 DEF Rising
<1>10. \A b \in blocks \ U : b + near.len[b] \notin blocks \ U
  BY <1>1, <1>3 DEF AloneOf
<1> QED  BY <1>4, <1>6, <1>7, <1>8, <1>9, <1>10 DEF RingExact, blocks, tags

LEMMA HeapsFollow ==
    ASSUME IInv
    PROVE  HeapsExact
<1> USE SizesAre
<1>1. Sound(near) /\ Typed(near) /\ TilesAll(near) /\ Owned(near, given, call) /\ (Idle => call = NoCall)
  BY NowIs DEF Sound
<1>2. Idle => NothingLost  BY <1>1 DEF Owned, NoCall, NothingLost
<1>3. \A h \in ToSet(near.list) : Tiled(h) /\ RingExact(h)
  BY <1>1, TiledFollows, RingFollows DEF Heaps
<1>4. ASSUME NEW i \in DOMAIN near.list, NEW j \in DOMAIN near.list, i < j
      PROVE  near.list[i] + near.mh[near.list[i]].len < near.list[j]
  <2> DEFINE g == near.list[i]
             h == near.list[j]
  <2>1. DOMAIN near.list = 1..Len(near.list)  BY <1>1, LenProperties DEF Typed
  <2>2. g < h  BY <1>1, <1>4, <2>1 DEF Typed, Rising
  <2>3. g \in Heaps(near) /\ h \in Heaps(near)  BY DEF Heaps, ToSet
  <2> HIDE DEF g, h
  <2>4. Ends(near)[g] < h  BY <1>1, <2>2, <2>3 DEF TilesAll, Tiling, TilesOf, Apart
  <2>5. Ends(near)[g] = g + near.mh[g].len  BY <2>3 DEF Ends, End
  <2> QED  BY <2>4, <2>5 DEF g, h
<1>5. ASSUME NEW b \in DOMAIN near.len PROVE \E h \in ToSet(near.list) : b \in TagsOf(h)
  <2>1. PICK h \in Heaps(near) : h + DESCRIPTOR <= b /\ b <= Ends(near)[h]
    BY <1>1 DEF TilesAll, Tiling, TilesOf, Homes
  <2>2. h \in Nat /\ Ends(near)[h] = h + near.mh[h].len /\ b \in Nat
    BY <1>1, EndIs, LensAre DEF TilesAll, Tiling
  <2>3. h < b  BY <2>1, <2>2
  <2> QED  BY <2>1, <2>2, <2>3 DEF TagsOf, Heaps
<1>6. DOMAIN near.len = UNION {TagsOf(h) : h \in ToSet(near.list)}  BY <1>5 DEF TagsOf
<1> QED  BY <1>2, <1>3, <1>4, <1>6 DEF HeapsExact

\* A free block is in the ring of a miniheap.
LEMMA FreeIsBounded ==
    ASSUME NEW s, Sound(s), NEW b \in DOMAIN s.len, IsFree(s, b)
    PROVE  \E h \in Heaps(s) : Inside(s, h, b) /\ s.len[b] <= s.mh[h].largest_blk /\ s.len[b] \in Nat
<1>1. /\ LenOK(s.len) /\ Heaps(s) \in SUBSET Addr /\ Ends(s) \in [Heaps(s) -> Nat]
      /\ TilesOf(s.len, Heaps(s), Ends(s)) /\ s.len[b] # END_TAG
  BY DEF Sound, TilesAll, Tiling, IsFree
<1>2. PICK h \in Heaps(s) : h < b /\ b < Ends(s)[h]  BY <1>1, HomeIs
<1>3. Inside(s, h, b) /\ b \notin s.used  BY <1>2 DEF Inside, Ends, IsFree
<1>4. Ring(s, h) /\ Bounded(s, h)  BY DEF Sound
<1>5. Contains(s.mh[h].free, b) /\ b # h
  <2>1. h \in Nat /\ b \in Nat  BY <1>1, LensAre DEF Addr
  <2> QED  BY <1>2, <1>3, <1>4, <2>1 DEF Ring, RingOf, Inside
<1>6. s.len[b] \in Nat  BY <1>1, LensAre
<1> QED  BY <1>3, <1>4, <1>5, <1>6 DEF Bounded

LEMMA FailsMeansFull ==
    ASSUME IInv, MallocFails
    PROVE  NoneFits
<1>1. IInv' /\ Fewer(near, near')  BY MallocFailsKeeps
<1>2. Sound(near) /\ Sound(near') /\ near'.used = near.used
      /\ \A b \in DOMAIN near'.len : b \in DOMAIN near.len /\ near'.len[b] = near.len[b]
  BY <1>1, NowIs DEF Fewer, KeptBlocks
<1>3. \A h \in Heaps(near) : near.mh[h].largest_blk < BlockSize(call.amt)
  BY SearchedAll DEF MallocFails
<1>4. BlockSize(call.amt) \in Nat /\ \A h \in Heaps(near) : near.mh[h].largest_blk \in Nat
  BY <1>2, NowIs, NumbersOf, BlockSizeIs DEF CallTyped
<1> SUFFICES ASSUME NEW b \in DOMAIN near'.len, IsFree(near', b)
             PROVE  near'.len[b] < BlockSize(call.amt)
  BY DEF NoneFits
<1>5. b \in DOMAIN near.len /\ IsFree(near, b) /\ near'.len[b] = near.len[b]
  BY <1>2 DEF IsFree
<1>6. PICK h \in Heaps(near) : near.len[b] <= near.mh[h].largest_blk /\ near.len[b] \in Nat
  BY <1>2, <1>5, FreeIsBounded
<1> DEFINE v == near.len[b]
           x == near.mh[h].largest_blk
<1>7. v <= x /\ x < BlockSize(call.amt) /\ v \in Nat /\ x \in Nat  BY <1>3, <1>4, <1>6
<1> HIDE DEF v, x
<1>8. v < BlockSize(call.amt)  BY <1>4, <1>7
<1> QED  BY <1>5, <1>8 DEF v

\* Where the steps of a call lead.
LEMMA NotYet ==
    ASSUME IInv, NEW f, NotFound(f), call.op = "malloc"
    PROVE  ~Idle'
BY NowIs DEF NotFound, Idle, CallTyped, NoCall

LEMMA NullFollows ==
    ASSUME IInv, [Next]_vars, call.op = "malloc", Idle', near'.used = near.used
    PROVE  NoneFits
<1>1. ~Idle /\ call' # call  BY DEF Idle
<1>2. CASE VisitMiniHeap
  <2>1. ASSUME NEW f, NEW a, Found(f, a) PROVE FALSE
    <3>1. a \notin near.used /\ near'.used = f.used /\ f.used = near.used \cup {a}
      <4>1. /\ Taken(near, f, call.mhp, a, BlockSize(call.amt))
            /\ near' = [f EXCEPT !.MiniHeapRover = call.mhp, !.LargestSizeB4 = f.LargestSizeB4]
        BY <2>1 DEF Found
      <4>2. Typed(f)  BY <4>1 DEF Taken, Only
      <4> QED  BY <4>1, <4>2 DEF Taken, Typed
    <3> QED  BY <3>1
  <2>2. ASSUME NEW f, NotFound(f) PROVE FALSE  BY <2>2, NotYet
  <2> QED  BY <1>2, <2>1, <2>2, VisitIs
<1>3. CASE GrowForMalloc
  <2>1. call'.op = "malloc"  BY <1>3, NowIs DEF GrowForMalloc, Search, CallTyped, NoCall
  <2> QED  BY <2>1 DEF Idle
<1>4. CASE MallocFails  BY <1>4, FailsMeansFull
<1>5. CASE TakeNext \/ GrowForExpand \/ ExpandFails \/ ExpandDone
  BY <1>5 DEF TakeNext, GrowForExpand, ExpandFails, ExpandDone
<1>6. CASE ReallocMoves \/ ReallocFrees \/ ReallocRestores \/ Heapmin
  BY <1>1, <1>6 DEF ReallocMoves, ReallocFrees, ReallocRestores, Heapmin
<1>7. CASE \E amt \in Sizes : Malloc(amt)  BY <1>1, <1>7 DEF Malloc
<1>8. CASE \E stg \in Mine : Free(stg)  BY <1>1, <1>8 DEF Free
<1>9. CASE \E stg \in Mine, amt \in Sizes : Expand(stg, amt) \/ Realloc(stg, amt)
  BY <1>1, <1>9 DEF Expand, Realloc
<1>10. CASE SbrkSets  BY <1>1, <1>10 DEF SbrkSets
<1>11. CASE (\E n \in Sbrks : SbrkReads(n)) \/ SbrkFails \/ UNCHANGED vars
  BY <1>1, <1>11, AskIs DEF heapVars
<1> QED
  BY <1>2, <1>3, <1>4, <1>5, <1>6, <1>7, <1>8, <1>9, <1>10, <1>11 DEF Next, InCall

-------------------------------------------------------------------------------
\* The memory of the program is its own.

\* The cells of a block are behind its tag.
LEMMA CellsAre ==
    ASSUME Situated(near), Owned(near, given, NoCall), NEW p \in DOMAIN given
    PROVE  \A x \in Contract!Cells(p, given[p]) :
              x \in Nat /\ p <= x /\ x < (p - TAG_SIZE) + near.len[p - TAG_SIZE]
<1> DEFINE a == p - TAG_SIZE
           v == near.len[a]
           k == given[p]
<1> USE SizesAre
<1>1. p \in Nat /\ p > 0 /\ a + 1 = p /\ a \in Nat /\ v \in Nat
  <2>1. p \in Nat /\ p > 0 /\ v \in Nat  BY BlockOf
  <2> QED  BY <2>1
<1>2. k \in Nat /\ k + 1 <= v  BY DEF Owned, NoCall
<1> HIDE DEF a, v, k
<1>3. \A x \in p .. p + k - 1 : x \in Nat /\ p <= x /\ x < a + v  BY <1>1, <1>2
<1> QED  BY <1>3 DEF a, v, k, Contract!Cells

LEMMA CellsFollow ==
    ASSUME IInv
    PROVE  CellsApart
<1> USE SizesAre
<1> SUFFICES ASSUME Idle, NEW p \in DOMAIN given
             PROVE  /\ Contract!Cells(p, given[p]) \cap own = {}
                    /\ \A q \in DOMAIN given : q # p => Contract!Cells(p, given[p]) \cap Contract!Cells(q, given[q]) = {}
  BY DEF CellsApart
<1> DEFINE P == Contract!Cells(p, given[p])
           a == p - TAG_SIZE
           n == a + near.len[a]
<1>1. Situated(near) /\ Owned(near, given, NoCall) /\ Sound(near) /\ Typed(near) /\ TilesAll(near) /\ OwnApart(near)
  BY NowIs DEF Situated, Sound
<1>2. /\ a \in near.used /\ a \in Blocks(near.len) /\ a + 1 = p /\ a \in Nat /\ n \in Nat
      /\ \E h \in Heaps(near) : Inside(near, h, a)
  <2>1. /\ a \in near.used /\ a \in Blocks(near.len) /\ p \in Nat /\ p > 0 /\ n \in 0..Top
        /\ \E h \in Heaps(near) : Inside(near, h, a)
    BY <1>1, BlockOf
  <2> HIDE DEF n
  <2> QED  BY <2>1
<1>3. \A x \in P : x \in Nat /\ p <= x /\ x < n  BY <1>1, CellsAre
<1>4. Tiling(near.len, Heaps(near), Ends(near))  BY <1>1 DEF TilesAll
<1>5. P \cap own = {}
  <2>1. PICK h \in Heaps(near) : Inside(near, h, a)  BY <1>2
  <2>2. h \in Nat /\ End(near, h) \in Nat /\ h < a  BY <1>1, <2>1, EndIs DEF Inside
  <2>3. n <= End(near, h)
    <3>1. a \in DOMAIN near.len /\ h < a /\ a <= End(near, h) /\ a # End(near, h)
      BY <1>2, <2>1, <2>2 DEF Inside, Blocks
    <3> HIDE DEF a
    <3> QED  BY ONLY <1>1, <2>1, <3>1, TagHome DEF n
  <2> HIDE DEF P, n, a
  <2>4. \A o \in own : o \in Nat /\ (o < h \/ End(near, h) < o)
    BY <1>1, <2>1 DEF OwnApart, Addr
  <2> QED  BY <1>2, <1>3, <2>2, <2>3, <2>4
<1>6. ASSUME NEW q \in DOMAIN given, q # p PROVE P \cap Contract!Cells(q, given[q]) = {}
  <2> DEFINE Q == Contract!Cells(q, given[q])
             b == q - TAG_SIZE
             m == b + near.len[b]
  <2>1. b \in Blocks(near.len) /\ q \in Nat /\ q > 0 /\ b # a /\ m \in 0..Top
    BY <1>1, <1>6, BlockOf
  <2>2. \A x \in Q : x \in Nat /\ q <= x /\ x < m  BY <1>1, CellsAre
  <2>3. (b <= a \/ n <= b) /\ (a <= b \/ m <= a)
    <3>1. a \in DOMAIN near.len /\ b \in DOMAIN near.len  BY <1>2, <2>1 DEF Blocks
    <3> HIDE DEF a, b
    <3> QED  BY ONLY <1>2, <1>4, <2>1, <3>1, BlocksAre DEF n, m
  <2> HIDE DEF P, Q, n, m, a
  <2>4. b \in Nat /\ b + 1 = q  BY <2>1
  <2> HIDE DEF b
  <2>5. n <= b \/ m <= a  BY <1>2, <2>1, <2>3, <2>4
  <2> QED  BY <1>2, <1>3, <2>1, <2>2, <2>4, <2>5 DEF Q
<1> QED  BY <1>5, <1>6

LEMMA GiveStep ==
    ASSUME CellsApart', Idle', NEW p, p \notin DOMAIN given, NEW v, given' = With(given, p, v), own' = own
    PROVE  Contract!Give
<1> DEFINE g == given'
<1>1. DOMAIN g = DOMAIN given \cup {p} /\ g[p] = v /\ \A q \in DOMAIN given : g[q] = given[q]
  BY DEF With
<1>2. g = [q \in DOMAIN given \cup {p} |-> IF q = p THEN g[p] ELSE given[q]]
  BY <1>1 DEF With
<1>3. /\ Contract!Cells(p, g[p]) \cap own = {}
      /\ \A q \in DOMAIN given : Contract!Cells(p, g[p]) \cap Contract!Cells(q, given[q]) = {}
  <2>1. \A r \in DOMAIN g : /\ Contract!Cells(r, g[r]) \cap own' = {}
                            /\ \A q \in DOMAIN g : q # r => Contract!Cells(r, g[r]) \cap Contract!Cells(q, g[q]) = {}
    BY DEF CellsApart
  <2> QED  BY <1>1, <2>1
<1>4. p \in DOMAIN g \ DOMAIN given  BY <1>1
<1>5. Contract!FreeFor(Contract!Cells(p, g[p]), 0)  BY <1>3 DEF Contract!FreeFor
<1> QED  BY <1>2, <1>4, <1>5 DEF Contract!Give

LEMMA ResizeStep ==
    ASSUME CellsApart', Idle', NEW p \in DOMAIN given, NEW v, given' = [given EXCEPT ![p] = v], own' = own
    PROVE  Contract!Resize
<1> DEFINE g == given'
<1>1. DOMAIN g = DOMAIN given /\ \A q \in DOMAIN given : q # p => g[q] = given[q]
  OBVIOUS
<1>2. g = [given EXCEPT ![p] = g[p]]  OBVIOUS
<1>3. /\ Contract!Cells(p, g[p]) \cap own = {}
      /\ \A q \in DOMAIN given \ {p} : Contract!Cells(p, g[p]) \cap Contract!Cells(q, given[q]) = {}
  <2>1. \A r \in DOMAIN g : /\ Contract!Cells(r, g[r]) \cap own' = {}
                            /\ \A q \in DOMAIN g : q # r => Contract!Cells(r, g[r]) \cap Contract!Cells(q, g[q]) = {}
    BY DEF CellsApart
  <2> QED  BY <1>1, <2>1
<1>4. Contract!FreeFor(Contract!Cells(p, g[p]), p)  BY <1>3 DEF Contract!FreeFor
<1> QED  BY <1>1, <1>2, <1>4 DEF Contract!Resize

LEMMA TakeBackStep ==
    ASSUME NEW p \in DOMAIN given, given' = Without(given, p), own' = own
    PROVE  Contract!TakeBack
BY DEF Contract!TakeBack, Without, Restrict

LEMMA ExtendStep ==
    ASSUME CellsApart', Idle', given' = given, own \subseteq own'
    PROVE  Contract!Extend
<1>1. \A r \in DOMAIN given : Contract!Cells(r, given[r]) \cap own' = {}
  BY DEF CellsApart
<1>2. Contract!FreeFor(own' \ own, 0)  BY <1>1 DEF Contract!FreeFor
<1> QED  BY <1>2 DEF Contract!Extend

LEMMA StepMaps ==
    ASSUME IInv, [Next]_vars, CellsApart'
    PROVE  [Steps]_Own
<1>1. CASE VisitMiniHeap
  <2>1. call.op = "malloc" /\ own' = own  BY <1>1 DEF VisitMiniHeap
  <2>2. ASSUME NEW f, NEW a, Found(f, a) PROVE Contract!Give
    <3>1. Gives(a)  BY <2>1, <2>2 DEF Found, Taken, Gives
    <3>2. call' = NoCall /\ given' = With(given, a + TAG_SIZE, call.amt) /\ a + TAG_SIZE \notin DOMAIN given
      BY <3>1, BlockGiven
    <3>3. Idle'  BY <3>2 DEF Idle, NoCall
    <3> QED  BY <2>1, <3>2, <3>3, GiveStep
  <2>3. ASSUME NEW f, NotFound(f) PROVE UNCHANGED Own  BY <2>1, <2>3 DEF NotFound, Own
  <2> QED  BY <1>1, <2>2, <2>3, VisitIs DEF Steps
<1>2. CASE ExpandDone
  <2>1. call.op = "expanded" /\ ExpandReturns(TRUE) /\ own' = own /\ call' = NoCall
    BY <1>2 DEF ExpandDone, ExpandReturns
  <2>2. Idle'  BY <2>1 DEF Idle, NoCall
  <2>3. call.stg \in DOMAIN given  BY <2>1, NowIs DEF ExpandOk, Names
  <2>4. given' = given \/ given' = [given EXCEPT ![call.stg] = call.amt]
    BY <2>1 DEF ExpandReturns
  <2>5. CASE given' = given  BY <2>1, <2>5 DEF Own
  <2>6. CASE given' = [given EXCEPT ![call.stg] = call.amt]
    BY <2>1, <2>2, <2>3, <2>6, ResizeStep DEF Steps
  <2> QED  BY <2>4, <2>5, <2>6
<1>3. CASE MallocFails
  <2>1. given' = given /\ own' = own  BY <1>3, NoBlockGiven DEF MallocFails
  <2> QED  BY <2>1 DEF Own
<1>4. CASE ExpandFails  BY <1>4 DEF ExpandFails, ExpandReturns, Own
<1>5. CASE GrowForMalloc \/ TakeNext \/ GrowForExpand \/ ReallocMoves \/ ReallocRestores \/ Heapmin
  BY <1>5 DEF GrowForMalloc, TakeNext, GrowForExpand, ReallocMoves, ReallocRestores, Heapmin, Own
<1>6. CASE ReallocFrees
  <2>1. moving.stg \in DOMAIN given  BY <1>6, NowIs DEF ReallocFrees, MovingOk
  <2> QED  BY <1>6, <2>1, TakeBackStep DEF ReallocFrees, Steps
<1>7. CASE \E amt \in Sizes : Malloc(amt)  BY <1>7 DEF Malloc, Own
<1>8. CASE \E stg \in Mine : Free(stg)  BY <1>8, TakeBackStep DEF Free, Mine, Steps
<1>9. CASE \E stg \in Mine, amt \in Sizes : Expand(stg, amt) \/ Realloc(stg, amt)
  BY <1>9 DEF Expand, Realloc, Own
<1>10. CASE SbrkSets
  <2>1. Idle' /\ given' = given /\ own \subseteq own'  BY <1>10 DEF SbrkSets, Idle
  <2> QED  BY <2>1, ExtendStep DEF Steps
<1>11. CASE (\E n \in Sbrks : SbrkReads(n)) \/ SbrkFails \/ UNCHANGED vars
  BY <1>11, AskIs DEF heapVars, Own
<1> QED
  BY <1>1, <1>2, <1>3, <1>4, <1>5, <1>6, <1>7, <1>8, <1>9, <1>10, <1>11 DEF Next, InCall

-------------------------------------------------------------------------------
\* The block that _nrealloc has in hand does not get shorter.

LEMMA HandIs ==
    ASSUME NEW s, NEW g, NEW c, NEW m, Sound(s), Owned(s, g, c), MovingOk(m, g, c), m.at # "no"
    PROVE  /\ m.stg \in DOMAIN g /\ m.old \in Nat
           /\ m.stg - TAG_SIZE \in s.used /\ s.len[m.stg - TAG_SIZE] \in Nat
<1>1. m.stg \in DOMAIN g /\ m.old \in Nat  BY SizesAre DEF MovingOk
<1>2. m.stg - TAG_SIZE \in s.used  BY <1>1 DEF Owned
<1>3. m.stg - TAG_SIZE \in Blocks(s.len) /\ Tiling(s.len, Heaps(s), Ends(s))
  BY <1>2 DEF Sound, TilesAll, AloneOf
<1> QED  BY <1>1, <1>2, <1>3, BlocksAre

LEMMA ThenIs ==
    ASSUME IInv'
    PROVE  Sound(near') /\ Owned(near', given', call') /\ MovingOk(moving', given', call')
BY DEF IInv, Situated

LEMMA HeldStays ==
    ASSUME IInv, IInv', HeldNow, SameMoving, NoneShorter,
           call.op = "expanded" => call.stg # moving.stg \/ moving'.at = "no"
    PROVE  HeldNow'
<1> SUFFICES ASSUME moving'.at # "no"
             PROVE  moving'.old + TAG_SIZE <= near'.len[moving'.stg - TAG_SIZE]
  BY DEF HeldNow, Held
<1> DEFINE b == moving.stg - TAG_SIZE
           v == near.len[b]
           w == near'.len[b]
<1>1. moving.at # "no" /\ moving'.stg = moving.stg /\ moving'.old = moving.old
  BY DEF SameMoving, GoesOnWith
<1>2. b \in near.used /\ v \in Nat /\ moving.old \in Nat  BY <1>1, NowIs, HandIs
<1>3. b \in near'.used /\ w \in Nat  BY <1>1, ThenIs, HandIs
<1>4. moving.old + TAG_SIZE <= v  BY <1>1 DEF HeldNow, Held
<1>5. w = v \/ v <= w  BY <1>2, <1>3 DEF NoneShorter
<1> HIDE DEF v, w
<1>6. moving.old + TAG_SIZE <= w  BY <1>2, <1>3, <1>4, <1>5, SizesAre
<1> QED  BY <1>1, <1>6 DEF w

LEMMA NoneShorterIs ==
    ASSUME NEW f, KeptBlocks(near, f), near'.len = f.len
    PROVE  NoneShorter
BY DEF KeptBlocks, NoneShorter

LEMMA MallocReturned ==
    ASSUME IInv, call.op = "malloc", NEW p, MallocReturns(p)
    PROVE  SameMoving /\ (moving.at # "no" => moving'.at # "no")
<1>1. /\ DOMAIN moving = DOMAIN NotMoving /\ call.by \in {"program", "nrealloc"}
      /\ call.by = "nrealloc" => moving.at = "malloc"
  BY NowIs DEF MovingOk, CallTyped, MallocOk
<1>2. \/ moving' = moving
      \/ /\ call.by = "nrealloc"
         /\ moving' = [moving EXCEPT !.at = "restore"] \/ moving' = [moving EXCEPT !.at = "free", !.p = p]
  BY <1>1 DEF MallocReturns
<1> QED  BY <1>1, <1>2 DEF SameMoving, GoesOnWith, NotMoving

LEMMA ExpandReturned ==
    ASSUME IInv, call.op \in {"expand", "expanded"}, ExpandReturns(TRUE) \/ ExpandReturns(FALSE)
    PROVE  /\ SameMoving /\ (ExpandReturns(TRUE) => call.stg # moving.stg \/ moving'.at = "no")
           /\ moving' # moving => call.by = "nrealloc" /\ Names(call, moving, given)
<1>1. /\ DOMAIN moving = DOMAIN NotMoving /\ call.by \in {"program", "nrealloc"} /\ Names(call, moving, given)
  BY NowIs DEF MovingOk, CallTyped, ExpandOk
<1>2. ExpandReturns(TRUE) => \/ call.by = "program" /\ moving' = moving
                             \/ call.by = "nrealloc" /\ moving' = NotMoving
  BY <1>1 DEF ExpandReturns
<1>3. ExpandReturns(FALSE) => \/ call.by = "program" /\ moving' = moving
                              \/ call.by = "nrealloc" /\ moving' = [moving EXCEPT !.at = "malloc"]
                              \/ call.by = "nrealloc" /\ moving' = NotMoving
  BY <1>1 DEF ExpandReturns
<1>4. moving' = moving \/ moving' = NotMoving \/ (call.by = "nrealloc" /\ moving' = [moving EXCEPT !.at = "malloc"])
  BY <1>2, <1>3
<1>5. SameMoving
  <2>1. CASE call.by = "nrealloc" /\ moving' = [moving EXCEPT !.at = "malloc"]
    BY <2>1, <1>1 DEF SameMoving, GoesOnWith, NotMoving, Names
  <2> QED  BY <1>4, <2>1 DEF SameMoving, GoesOnWith, NotMoving
<1>6. ExpandReturns(TRUE) => call.stg # moving.stg \/ moving'.at = "no"
  BY <1>1, <1>2 DEF NotMoving, Names
<1>7. moving' # moving => call.by = "nrealloc"  BY <1>2, <1>3
<1> QED  BY <1>1, <1>5, <1>6, <1>7

LEMMA VisitHolds ==
    ASSUME IInv, VisitMiniHeap
    PROVE  NoneShorter /\ SameMoving
<1>1. call.op = "malloc"  BY DEF VisitMiniHeap
<1>2. ASSUME NEW f, NEW a, Found(f, a) PROVE NoneShorter /\ SameMoving
  <2>1. Typed(f) /\ \A c \in near.used : f.len[c] = near.len[c]  BY <1>2 DEF Found, Taken, Only
  <2>2. near'.len = f.len  BY <1>2, <2>1 DEF Found, Typed
  <2> QED  BY <1>1, <1>2, <2>1, <2>2, MallocReturned DEF Found, NoneShorter
<1>3. ASSUME NEW f, NotFound(f) PROVE NoneShorter /\ SameMoving
  <2>1. Typed(f) /\ f.len = near.len /\ moving' = moving  BY <1>3 DEF NotFound, MissedIn, Sound
  <2>2. near'.len = f.len  BY <1>3, <2>1 DEF NotFound, Typed
  <2> QED  BY <2>1, <2>2 DEF NoneShorter, SameMoving, GoesOnWith
<1> QED  BY <1>2, <1>3, VisitIs

LEMMA GrowForMallocHolds ==
    ASSUME IInv, GrowForMalloc
    PROVE  NoneShorter /\ call'.expanded
<1> DEFINE c == [call EXCEPT !.expanded = TRUE]
<1>1. PICK r \in ExpandDGROUP(near, call.amt) : Search(r.heap, c)  BY DEF GrowForMalloc
<1>2. Situated(near) /\ CallTyped(call)  BY NowIs
<1> DEFINE f == r.heap
<1>3. KeptBlocks(near, f)  BY <1>2, SituatedExpanded DEF CallTyped
<1> HIDE DEF f, c
<1>4. Search(f, c) /\ Typed(f)  BY <1>1, <1>3 DEF f, KeptBlocks, Sound
<1>5. near'.len = f.len  BY <1>4 DEF Search, Typed
<1>6. DOMAIN c = DOMAIN NoCall /\ c.expanded  BY <1>2 DEF c, CallTyped, NoCall
<1>7. call'.expanded  BY <1>4, <1>6 DEF Search, NoCall
<1> QED  BY <1>3, <1>5, <1>7, NoneShorterIs

LEMMA FreeHolds ==
    ASSUME IInv, NEW stg \in DOMAIN given, near' = nfree(near, stg)
    PROVE  NoneShorter
<1> DEFINE a == stg - TAG_SIZE
<1>1. Situated(near) /\ Sound(near) /\ Owned(near, given, call)  BY NowIs
<1>2. a \in near.used /\ a + TAG_SIZE = stg  BY <1>1, BlockOf
<1>3. PICK h \in Heaps(near) : Released(near, near', h, a)  BY <1>1, <1>2, NfreeIs
<1> QED  BY <1>3 DEF Released, NoneShorter

LEMMA BeginsHolds ==
    ASSUME IInv', NEW f, NEW c, BeginsIn(f, c), LongEnough(f), given' = given
    PROVE  HeldNow'
<1> SUFFICES ASSUME moving'.at # "no" PROVE Held(near', call', moving')
  BY DEF HeldNow, Held
<1> DEFINE p == moving'.stg
           o == moving'.old
           g == [given EXCEPT ![p] = o]
<1>1. p \in DOMAIN given /\ o \in Nat  BY ThenIs, HandIs
<1>2. MayStart(f, given, c) /\ ExpandStarts(f, c) /\ o + TAG_SIZE <= f.len[p - TAG_SIZE]
  BY DEF BeginsIn, LongEnough
<1> HIDE DEF p, o
<1>3. Owned(f, given, NoCall)  BY <1>2 DEF MayStart
<1>4. /\ DOMAIN g = DOMAIN given /\ g[p] = o /\ g \in [DOMAIN g -> Nat]
      /\ \A q \in DOMAIN given : q # p => g[q] = given[q]
  BY <1>1, <1>3 DEF Owned
<1> HIDE DEF g
<1>5. Owned(f, g, NoCall)  BY <1>1, <1>2, <1>3, <1>4 DEF Owned
<1>6. MayStart(f, g, c)  BY <1>2, <1>4, <1>5 DEF MayStart
<1>7. Owned(near', g, call')  BY <1>2, <1>6, ExpandStartsIs DEF Started
<1>8. o + TAG_SIZE <= near'.len[p - TAG_SIZE] \/ (call'.op = "expanded" /\ p = call'.stg)
  BY <1>1, <1>4, <1>7 DEF Owned
<1> QED  BY <1>8 DEF Held, p, o

LEMMA HeldStep ==
    ASSUME IInv, AskedOk, ~SbrkRace, HeldNow, [Next]_vars
    PROVE  HeldNow'
<1>1. IInv'  BY StepHolds
<1>2. moving' = moving => SameMoving  BY DEF SameMoving, GoesOnWith
<1>3. Idle => call.op = "none"  BY DEF Idle
<1>4. near'.len = near.len => NoneShorter  BY DEF NoneShorter
<1>5. Typed(near)  BY NowIs
<1>6. CASE VisitMiniHeap  BY <1>1, <1>6, VisitHolds, HeldStays DEF VisitMiniHeap
<1>7. CASE GrowForMalloc  BY <1>1, <1>2, <1>7, GrowForMallocHolds, HeldStays DEF GrowForMalloc
<1>8. CASE MallocFails
  <2>1. NoneShorter  BY <1>8, MallocFailsKeeps, NoneShorterIs DEF Fewer
  <2> QED  BY <1>1, <1>8, <2>1, MallocReturned, HeldStays DEF MallocFails
<1>9. CASE TakeNext  BY <1>1, <1>2, <1>9, TakeNextKeeps, HeldStays DEF TakeNext
<1>10. CASE ExpandFails
  <2>1. NoneShorter  BY <1>10, ExpandFailsKeeps, NoneShorterIs
  <2>2. call.op = "expand" /\ ExpandReturns(FALSE)  BY <1>10 DEF ExpandFails
  <2>3. SameMoving  BY <2>2, ExpandReturned
  <2> QED  BY <1>1, <2>1, <2>2, <2>3, HeldStays
<1>11. CASE ExpandDone
  <2>1. call.op = "expanded" /\ ExpandReturns(TRUE) /\ near' = near  BY <1>11 DEF ExpandDone
  <2>2. SameMoving /\ (call.stg # moving.stg \/ moving'.at = "no")  BY <2>1, ExpandReturned
  <2> QED  BY <1>1, <1>4, <2>1, <2>2, HeldStays
<1>12. CASE ReallocFrees
  <2>1. SameMoving  BY <1>12 DEF ReallocFrees, SameMoving, NotMoving
  <2>2. moving.stg \in DOMAIN given  BY <1>12, NowIs DEF ReallocFrees, MovingOk
  <2> QED  BY <1>1, <1>3, <1>12, <2>1, <2>2, FreeHolds, HeldStays DEF ReallocFrees
<1>13. CASE \E stg \in Mine : Free(stg)
  BY <1>1, <1>2, <1>3, <1>13, FreeHolds, HeldStays DEF Free, Mine
<1>14. CASE Heapmin
  BY <1>1, <1>2, <1>3, <1>14, HeapminKeeps, NoneShorterIs, HeldStays DEF Heapmin
<1>15. CASE ReallocMoves \/ \E amt \in Sizes : Malloc(amt)
  <2>1. PICK by, amt : MallocCall(by, amt)  BY <1>15 DEF ReallocMoves, Malloc
  <2>2. near'.len = near.len  BY <1>5, <2>1 DEF MallocCall, Search, Typed
  <2> QED  BY <1>1, <1>2, <1>3, <1>4, <1>15, <2>2, HeldStays DEF ReallocMoves, Malloc
<1>16. CASE SbrkSets
  <2>1. near'.len = near.len  BY <1>5, <1>16 DEF SbrkSets, Typed
  <2> QED  BY <1>1, <1>2, <1>3, <1>4, <1>16, <2>1, HeldStays DEF SbrkSets
<1>17. CASE ReallocRestores \/ \E stg \in Mine, amt \in Sizes : Expand(stg, amt)
  <2>1. Idle /\ moving' = moving /\ given' = given  BY <1>17 DEF ReallocRestores, Expand
  <2>2. PICK c : BeginsIn(near, c)  BY <1>17, ReallocRestoresKeeps, ExpandKeeps
  <2>3. LongEnough(near)  BY <1>3, <2>1 DEF LongEnough, HeldNow, Held
  <2> QED  BY <1>1, <2>1, <2>2, <2>3, BeginsHolds
<1>18. CASE \E stg \in Mine, amt \in Sizes : Realloc(stg, amt)
  <2>1. PICK stg \in Mine, amt \in Sizes : Realloc(stg, amt)  BY <1>18
  <2> DEFINE v == near.len[stg - TAG_SIZE]
  <2>2. PICK c : BeginsIn(near, c)  BY <2>1, ReallocKeeps
  <2>3. v \in Nat  BY <2>1, NowIs, BlockOf DEF Mine
  <2>4. moving'.stg = stg /\ moving'.old = v - TAG_SIZE /\ given' = given  BY <2>1 DEF Realloc
  <2>5. LongEnough(near)
    <3>1. (v - TAG_SIZE) + TAG_SIZE <= v
      <4> HIDE DEF v
      <4> QED  BY <2>3, SizesAre
    <3> QED  BY <2>4, <3>1 DEF LongEnough
  <2> QED  BY <1>1, <2>2, <2>4, <2>5, BeginsHolds
<1>19. CASE GrowForExpand
  <2>1. PICK f, c : KeptBlocks(near, f) /\ BeginsIn(f, c)  BY <1>19, GrowForExpandKeeps
  <2>2. call.op = "expand" /\ moving' = moving /\ given' = given  BY <1>19 DEF GrowForExpand
  <2>3. moving.at # "no" => moving.stg - TAG_SIZE \in near.used  BY NowIs, HandIs
  <2>4. LongEnough(f)  BY <2>1, <2>2, <2>3 DEF LongEnough, HeldNow, Held, KeptBlocks
  <2> QED  BY <1>1, <2>1, <2>2, <2>4, BeginsHolds
<1>20. CASE (\E n \in Sbrks : SbrkReads(n)) \/ SbrkFails \/ UNCHANGED vars
  BY <1>20, AskIs DEF heapVars, HeldNow, Held
<1> QED
  BY <1>6, <1>7, <1>8, <1>9, <1>10, <1>11, <1>12, <1>13, <1>14, <1>15, <1>16, <1>17, <1>18, <1>19, <1>20
  DEF Next, InCall

LEMMA HeldAlways ==
    ASSUME ~SbrkRace
    PROVE  Spec => []HeldNow
<1>1. Init => HeldNow  BY DEF Init, HeldNow, Held, NotMoving
<1>2. IInv /\ AskedOk /\ HeldNow /\ [Next]_vars => HeldNow'  BY HeldStep
<1> QED  BY <1>1, <1>2, Invariant, PTL DEF Spec

LEMMA Restored ==
    ASSUME IInv, HeldNow, [Next]_vars, moving.at = "restore", moving' = NotMoving
    PROVE  near'.len[moving.stg - TAG_SIZE]
              \in moving.old + TAG_SIZE .. BlockSize(moving.old) + FRL_SIZE - 1
<1> DEFINE b == moving.stg - TAG_SIZE
           v == near.len[b]
           size == BlockSize(moving.old)
<1> USE SizesAre
<1>1. moving' # moving /\ moving'.at = "no"  BY DEF NotMoving
<1>2. moving.old \in Nat /\ b \in near.used /\ v \in Nat /\ size \in Nat
  BY NowIs, HandIs, BlockSizeIs
<1>3. call.op = "expand" => Expands(near, call)  BY NowIs DEF ExpandOk
<1>4. call.op = "expanded" => Expands(near, call)  BY NowIs DEF ExpandOk
<1>5. CASE ExpandFails
  <2>1. call.op = "expand" /\ ExpandReturns(FALSE)  BY <1>5 DEF ExpandFails
  <2>2. call.stg = moving.stg /\ call.amt = moving.old  BY <1>1, <2>1, ExpandReturned DEF Names
  <2>3. call.growth \in Nat /\ call.growth > 0 /\ v + call.growth = size
    BY <1>3, <2>1, <2>2, NowIs DEF Expands, CallTyped
  <2>4. moving.old + TAG_SIZE <= v  BY <2>1 DEF HeldNow, Held
  <2>5. near'.len[b] = v  BY <1>2, <1>5, ExpandFailsKeeps DEF KeptBlocks
  <2> HIDE DEF v, size, b
  <2>6. v \in moving.old + TAG_SIZE .. size + FRL_SIZE - 1  BY <1>2, <2>3, <2>4
  <2> QED  BY <2>5, <2>6 DEF size, b
<1>6. CASE ExpandDone
  <2>1. call.op = "expanded" /\ ExpandReturns(TRUE) /\ near' = near  BY ONLY <1>6 DEF ExpandDone
  <2>2. call.stg = moving.stg /\ call.amt = moving.old  BY <1>1, <2>1, ExpandReturned DEF Names
  <2>3. moving.old + TAG_SIZE <= v /\ v < size + FRL_SIZE  BY <1>4, <2>1, <2>2 DEF Expands
  <2> HIDE DEF v, size
  <2>4. v \in moving.old + TAG_SIZE .. size + FRL_SIZE - 1  BY <1>2, <2>3
  <2> QED  BY <2>1, <2>4 DEF v, size
<1>7. CASE VisitMiniHeap \/ MallocFails
  <2>1. call.op = "malloc"  BY <1>7 DEF VisitMiniHeap, MallocFails
  <2>2. ASSUME NEW f, NEW a, Found(f, a) PROVE FALSE
    BY <1>1, <2>1, <2>2, MallocReturned DEF Found
  <2>3. ASSUME NEW f, NotFound(f) PROVE FALSE  BY <1>1, <2>3 DEF NotFound
  <2>4. CASE MallocFails  BY <1>1, <2>1, <2>4, MallocReturned DEF MallocFails
  <2> QED  BY <1>7, <2>2, <2>3, <2>4, VisitIs
<1> QED
  BY <1>1, <1>5, <1>6, <1>7 DEF Next, InCall, GrowForMalloc, TakeNext, GrowForExpand, ReallocMoves,
     ReallocFrees, ReallocRestores, Heapmin, Malloc, Free, Expand, Realloc, SbrkReads, SbrkSets, SbrkFails, NotMoving, vars, heapVars

-------------------------------------------------------------------------------
\* Every call comes to its end.

LEMMA NextMiniHeapNearer ==
    ASSUME IInv, call.op = "malloc", call.mhp # NULL, NEW f, NotFound(f)
    PROVE  Nearer
<1> DEFINE q == near.list
           h == call.mhp
           i == IndexIn(q, h)
           next == NextHeap(near, h)
<1>1. h \in Heaps(near) /\ Typed(near) /\ CallTyped(call)  BY VisitedIs, NowIs
<1>2. q \in Seq(Nat) /\ Rising(q) /\ Contains(q, h)  BY <1>1, ListedIs DEF Typed
<1>3. i \in 1..Len(q) /\ q[i] = h  BY <1>2, IndexOf
<1>4. near'.list = q
  <2>1. Typed(f) /\ f.list = q  BY DEF NotFound, MissedIn, Sound
  <2> QED  BY <2>1 DEF NotFound, Typed
<1> HIDE DEF i, next
<1>5. call'.op = "malloc" /\ call'.mhp = next /\ call'.expanded = call.expanded
  BY <1>1 DEF NotFound, CallTyped, NoCall, next
<1>6. /\ StepsLeft = 1 + Len(q) - i
      /\ StepsLeft' = IF next = NULL THEN 0 ELSE 1 + Len(q) - IndexIn(q, next)
  BY <1>4, <1>5 DEF StepsLeft, i
<1>7. next = NULL \/ (i + 1 \in 1..Len(q) /\ IndexIn(q, next) = i + 1)
  <2> SUFFICES ASSUME next # NULL PROVE i + 1 \in 1..Len(q) /\ IndexIn(q, next) = i + 1
    OBVIOUS
  <2>1. h # Last(q) /\ next = q[i + 1]  BY DEF next, NextHeap, i
  <2>2. i + 1 \in 1..Len(q)  BY <1>2, <1>3, <2>1 DEF Last
  <2> QED  BY <1>2, <2>1, <2>2, IndexIs
<1>8. Len(q) \in Nat  BY <1>2
<1> HIDE DEF q, h
<1>9. StepsLeft' < StepsLeft  BY <1>3, <1>6, <1>7, <1>8
<1> QED  BY <1>5, <1>9 DEF Nearer

LEMMA NextBlockNearer ==
    ASSUME IInv, TakeNext
    PROVE  Nearer
<1> DEFINE a == call.stg - TAG_SIZE
           n == call.p2
           k == call.growth
           v == near.len[n]
           h == CHOOSE x \in Holders(near, call.stg) : TRUE
           A == {b \in DOMAIN near.len : b > n}
           B == {b \in DOMAIN near'.len : b > n + v}
<1> USE SizesAre
<1>1. call.op = "expand" /\ IsFree(near, n)  BY DEF TakeNext
<1>2. \/ call' = IsExpanded(call)
      \/ near' = Absorb(near, h, a, n) /\ call' = StillExpands(call, -(v - k), v)
  BY ONLY TakeNext DEF TakeNext, Absorb, IsExpanded, StillExpands
<1>3. /\ Typed(near) /\ CallTyped(call) /\ Tiling(near.len, Heaps(near), Ends(near))
      /\ Situated(near) /\ Owned(near, given, call) /\ call.stg \in DOMAIN given /\ n = a + near.len[a]
  BY <1>1, NowIs DEF ExpandOk, Names, Expands, Sound, TilesAll
<1>4. a \in Blocks(near.len) /\ a \in DOMAIN near.len /\ n \in DOMAIN near.len
  <2>1. a \in Blocks(near.len)  BY <1>3, BlockOf
  <2>2. a \in DOMAIN near.len /\ a + near.len[a] \in DOMAIN near.len
    <3> HIDE DEF a
    <3> QED  BY <1>3, <2>1, BlocksAre
  <2> QED  BY <1>3, <2>1, <2>2
<1> HIDE DEF a, n, h
<1>5. n \in Nat /\ v \in Nat /\ v > 0 /\ n + v \in DOMAIN near.len
  <2>1. n \in Blocks(near.len)  BY <1>1, <1>4 DEF IsFree, Blocks
  <2> QED  BY <1>3, <2>1, BlocksAre
<1> HIDE DEF v
<1>6. IsFiniteSet(A)
  <2>1. A \in SUBSET (1..Top)  BY <1>3 DEF Tiling, LenOK, Addr
  <2>2. IsFiniteSet(1..Top)  BY FS_Interval
  <2> QED  BY ONLY <2>1, <2>2, FS_Subset
<1>7. Cardinality(A) \in Nat  BY <1>6, FS_CardinalityType
<1>8. StepsLeft = 1 + Cardinality(A)  BY <1>1 DEF StepsLeft, n
<1>9. CASE call' = IsExpanded(call)
  <2>1. call'.op = "expanded" /\ call'.expanded = call.expanded
    BY <1>3, <1>9 DEF IsExpanded, CallTyped, NoCall
  <2>2. StepsLeft' = 0  BY <2>1 DEF StepsLeft
  <2> HIDE DEF A
  <2> QED  BY <1>7, <1>8, <2>1, <2>2 DEF Nearer
<1>10. CASE near' = Absorb(near, h, a, n) /\ call' = StillExpands(call, -(v - k), v)
  <2>1. call'.op = "expand" /\ call'.expanded = call.expanded /\ call'.p2 = n + v
    BY <1>1, <1>3, <1>10 DEF StillExpands, CallTyped, NoCall, n
  <2>2. StepsLeft' = 1 + Cardinality(B)  BY <2>1 DEF StepsLeft
  <2>3. DOMAIN near'.len \subseteq DOMAIN near.len
    <3>1. near'.len = With(Without(near.len, n), a, near.len[a] + near.len[n])
      BY <1>3, <1>10 DEF Absorb, Changed, Typed
    <3> QED  BY <1>4, <3>1 DEF With, Without, Restrict
  <2>4. B \subseteq A /\ n + v \in A /\ n + v \notin B
    <3>1. \A b \in DOMAIN near.len : b \in Nat  BY <1>3, BlocksAre
    <3> QED  BY <1>5, <2>3, <3>1
  <2> HIDE DEF A, B
  <2>5. Cardinality(B) \in Nat /\ Cardinality(B) <= Cardinality(A) /\ Cardinality(B) # Cardinality(A)
    BY <1>6, <2>4, FS_Subset, FS_CardinalityType
  <2>6. StepsLeft' < StepsLeft  BY <1>7, <1>8, <2>2, <2>5
  <2> QED  BY <2>1, <2>6 DEF Nearer
<1> QED  BY <1>2, <1>9, <1>10, SMTT(30)

LEMMA CallGoesOn ==
    ASSUME IInv, Next, ~Idle, ~Idle', ~(UNCHANGED heapVars)
    PROVE  (call'.expanded /\ ~call.expanded) \/ Nearer
<1>1. call' # NoCall  BY DEF Idle, NoCall
<1>2. ~(MallocFails \/ ExpandFails \/ ExpandDone)
  BY <1>1 DEF MallocFails, ExpandFails, ExpandDone, MallocReturns, ExpandReturns
<1>3. CASE VisitMiniHeap
  <2>1. PICK f : NotFound(f)  BY <1>1, <1>3, VisitIs DEF Found, MallocReturns
  <2> QED  BY <1>3, <2>1, NextMiniHeapNearer DEF VisitMiniHeap
<1>4. CASE GrowForMalloc  BY <1>4, GrowForMallocHolds DEF GrowForMalloc
<1>5. CASE TakeNext  BY <1>5, NextBlockNearer
<1>6. CASE GrowForExpand
  <2>1. PICK f, c : BeginsIn(f, c) /\ c.expanded  BY <1>6, GrowForExpandKeeps
  <2>2. call'.expanded  BY <2>1, ExpandStartsIs DEF BeginsIn, Started
  <2> QED  BY <1>6, <2>2 DEF GrowForExpand, MayGrow
<1> QED
  BY <1>2, <1>3, <1>4, <1>5, <1>6 DEF Next, InCall, ReallocMoves, ReallocFrees, ReallocRestores, Heapmin, Malloc,
     Free, Expand, Realloc, SbrkReads, SbrkSets, SbrkFails, Idle, heapVars

-------------------------------------------------------------------------------
\* The theorems.

\* Blocks, miniheaps, the break and the calls in progress are of their kinds,
\* and every allocated block has its tag.
THEOREM TypeCorrect ==
    ASSUME ~SbrkRace
    PROVE  Spec => []TypeOK
<1>1. IInv /\ AskedOk => TypeOK  BY TypesFollow
<1> QED  BY <1>1, Invariant, PTL

\* Whatever has been allocated, freed, made longer or shorter, moved and given back to
\* the system, in whichever order: the lengths of the blocks lead from the descriptor
\* of each miniheap to its end, its ring has its free blocks and numfree and numalloc
\* count, miniheaps are apart, and between calls the allocated blocks are those of the
\* program, as long as it asked for (mem.c, nfree.c, nexpand.c, grownear.c, nheapmin.c).
THEOREM HeapsStayExact ==
    ASSUME ~SbrkRace
    PROVE  Spec => []HeapsExact
<1>1. IInv => HeapsExact  BY HeapsFollow
<1> QED  BY <1>1, Invariant, PTL

\* largest_blk, b4rover and __LargestSizeB4MiniHeapRover bound what a search skips.
THEOREM BoundsAreTrue ==
    ASSUME ~SbrkRace
    PROVE  Spec => []BoundsHold
<1>1. IInv => BoundsHold  BY BoundsFollow
<1> QED  BY <1>1, Invariant, PTL

\* The rovers that _nfree reads are miniheaps or none, when _heapmin is not called
\* while it would remove the miniheap of __MiniHeapFreeRover on brk platforms.
THEOREM RoversStayLive ==
    ASSUME ~ShrinkAnytime, ~SbrkRace
    PROVE  Spec => []RoversLive
<1>1. IInv => RoversLive  BY RoversFollow
<1> QED  BY <1>1, Invariant, PTL

\* malloc returns NULL only when no free block of any miniheap is long enough:
\* neither the bounds nor the rovers hide one.
THEOREM NullOnlyWhenFull ==
    ASSUME ~SbrkRace
    PROVE  Spec => NullMeansFull
<1>1. IInv /\ [Next]_vars => [call.op = "malloc" /\ Idle' /\ near'.used = near.used =>
                                \A b \in DOMAIN near'.len :
                                   IsFree(near', b) => near'.len[b] < BlockSize(call.amt)]_vars
  BY NullFollows DEF NoneFits
<1> QED  BY <1>1, Invariant, PTL DEF Spec, NullMeansFull

\* The heap implements Allocator: a block that malloc or _nexpand hands out has no
\* cell of another block or of memory the program took with sbrk, when no
\* growth of the heap comes between the two steps of sbrk.
THEOREM BlocksStayOwn ==
    ASSUME ~SbrkRace
    PROVE  Spec => BlocksOwn
<1>1. Init => Contract!Init  BY DEF Init, Contract!Init
<1>2. IInv => CellsApart  BY CellsFollow
<1>3. IInv /\ [Next]_vars /\ CellsApart'
        => [Contract!Give \/ Contract!Resize \/ Contract!TakeBack \/ Contract!Extend]_(Contract!vars)
  BY StepMaps DEF Steps, Own, Contract!vars
<1> QED  BY <1>1, <1>2, <1>3, Invariant, PTL DEF Spec, BlocksOwn, Contract!Spec

\* A realloc that fails leaves its block no shorter than it was, and longer only by
\* what is too little to be a block: however much the first _nexpand has taken and
\* whatever was called between, the last one gives it back (nrealloc.c).
THEOREM ReallocRestored ==
    ASSUME ~SbrkRace
    PROVE  Spec => ReallocGivesBack
<1>1. IInv /\ HeldNow /\ [Next]_vars =>
        [moving.at = "restore" /\ moving' = NotMoving =>
           near'.len[moving.stg - TAG_SIZE]
             \in moving.old + TAG_SIZE .. BlockSize(moving.old) + FRL_SIZE - 1]_vars
  BY Restored
<1> QED  BY <1>1, Invariant, HeldAlways, PTL DEF Spec, ReallocGivesBack

\* malloc and _nexpand end: each step has fewer miniheaps or blocks before it, but
\* for the one growth of the heap.
THEOREM CallsComeToEnd ==
    ASSUME ~SbrkRace
    PROVE  Spec => CallsEnd
<1>1. IInv /\ [Next]_vars =>
        [~Idle /\ ~Idle' => \/ call'.expanded /\ ~call.expanded
                            \/ call'.expanded = call.expanded /\ StepsLeft' < StepsLeft]_heapVars
  BY CallGoesOn DEF Nearer, vars, heapVars
<1> QED  BY <1>1, Invariant, PTL DEF Spec, CallsEnd
===============================================================================
