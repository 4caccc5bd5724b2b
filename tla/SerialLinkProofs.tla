--------------------------- MODULE SerialLinkProofs ---------------------------
(***************************************************************************)
(* SerialLink is type correct and delivers blocks once and in order, for   *)
(* every width of the counters, any noise and any number of time-outs.     *)
(* Under one fault at most, it implements ErrorFreeLink.                   *)
(***************************************************************************)
EXTENDS SerialOneFault, SequenceTheorems, TLAPS

Items == Controls \cup Blocks
Gots == [id : Nat, body : Nat, kept : BOOLEAN]

(***************************************************************************)
(* One direction of the line.  s is the unread input of the receiver, g    *)
(* what it has accepted, r its ReceiveBlkNo; n counts the RemotePut calls  *)
(* of the sender and b is its block.  Unread blocks come in the order of   *)
(* their calls, none older than what was accepted; and a repetition of the *)
(* block accepted last carries a number ReceiveBlkNo has moved away from.  *)
(***************************************************************************)
BlockAt(s, i) == s[i].kind = "STX"

GotOnce(g, r, n, b) ==
    /\ \A k \in 1..Len(g) : /\ g[k].id \in 1..n
                            /\ g[k].id = n => b.no # r
    /\ \A j, k \in 1..Len(g) : j < k => g[j].id < g[k].id

NewerThanGot(s, g, r, n, b) ==
    \A i \in 1..Len(s) : BlockAt(s, i) =>
        /\ s[i].id \in 1..n
        /\ s[i].id = n => s[i].no = b.no
        /\ \A k \in 1..Len(g) : /\ g[k].id <= s[i].id
                                /\ g[k].id = s[i].id => s[i].no # r

InCallOrder(s) ==
    \A i, j \in 1..Len(s) : i < j /\ BlockAt(s, i) /\ BlockAt(s, j) =>
        /\ s[i].id <= s[j].id
        /\ s[i].id = s[j].id => s[i].no = s[j].no

Flow(s, g, r, n, b) ==
    /\ b.id = n
    /\ GotOnce(g, r, n, b)
    /\ NewerThanGot(s, g, r, n, b)
    /\ InCallOrder(s)

FlowInv == \A p \in Peers : Flow(buf[p], got[p], ReceiveBlkNo[p],
                                 put[Other(p)], blk[Other(p)])

-------------------------------------------------------------------------------
(***************************************************************************)
(* What the operations on sequences do to a direction of the line.         *)
(***************************************************************************)
LEMMA BlockType ==
    ASSUME NEW s \in Seq(Items), NEW i \in 1..Len(s), BlockAt(s, i)
    PROVE  s[i] \in Blocks /\ s[i].id \in Nat /\ s[i].no \in Nat
<1>1. s[i] \in Items
  OBVIOUS
<1>2. s[i] \notin Controls
  BY DEF BlockAt, Controls, Ctl
<1> QED
  BY <1>1, <1>2, LinkAssumption DEF Items, Blocks

\* Some of the unread input, in the order it had, and characters that are no
\* block among it.
LEMMA FlowPart ==
    ASSUME NEW s \in Seq(Items), NEW g \in Seq(Gots), NEW r \in Nat,
           NEW n \in Nat, NEW b \in Blocks,
           Flow(s, g, r, n, b), NEW t \in Seq(Items), NEW from,
           \A i \in 1..Len(t) : BlockAt(t, i) =>
                from[i] \in 1..Len(s) /\ t[i] = s[from[i]],
           \A i, j \in 1..Len(t) :
                i < j /\ BlockAt(t, i) /\ BlockAt(t, j) => from[i] < from[j]
    PROVE  Flow(t, g, r, n, b)
<1>1. \A i \in 1..Len(t) : BlockAt(t, i) => BlockAt(s, from[i])
  BY DEF BlockAt
<1>2. NewerThanGot(t, g, r, n, b)
  BY <1>1 DEF NewerThanGot, Flow
<1>3. InCallOrder(t)
  <2> SUFFICES ASSUME NEW i \in 1..Len(t), NEW j \in 1..Len(t), i < j,
                      BlockAt(t, i), BlockAt(t, j)
               PROVE  /\ t[i].id <= t[j].id
                      /\ t[i].id = t[j].id => t[i].no = t[j].no
    BY DEF InCallOrder
  <2>1. /\ from[i] \in 1..Len(s) /\ t[i] = s[from[i]] /\ BlockAt(s, from[i])
        /\ from[j] \in 1..Len(s) /\ t[j] = s[from[j]] /\ BlockAt(s, from[j])
        /\ from[i] < from[j]
    BY <1>1
  <2> QED
    BY <2>1 DEF InCallOrder, Flow
<1> QED
  BY <1>2, <1>3 DEF Flow

\* What a peer has not read yet of its input.
LEMMA FlowSuffix ==
    ASSUME NEW s \in Seq(Items), NEW g \in Seq(Gots), NEW r \in Nat,
           NEW n \in Nat, NEW b \in Blocks,
           Flow(s, g, r, n, b), NEW m \in 1..Len(s) + 1
    PROVE  /\ SubSeq(s, m, Len(s)) \in Seq(Items)
           /\ Flow(SubSeq(s, m, Len(s)), g, r, n, b)
<1> DEFINE t == SubSeq(s, m, Len(s))
           from == [i \in 1..Len(t) |-> i + m - 1]
<1>1. /\ t \in Seq(Items)
      /\ Len(t) = Len(s) - m + 1
      /\ \A i \in 1..Len(t) : t[i] = s[i + m - 1] /\ i + m - 1 \in 1..Len(s)
  OBVIOUS
<1> HIDE DEF t
<1>2. \A i \in 1..Len(t) : from[i] \in 1..Len(s) /\ t[i] = s[from[i]]
  BY <1>1
<1>3. \A i, j \in 1..Len(t) : i < j => from[i] < from[j]
  BY <1>1
<1> HIDE DEF from
<1>4. Flow(t, g, r, n, b)
  BY <1>1, <1>2, <1>3, FlowPart
<1> QED
  BY <1>1, <1>4 DEF t

\* The entries of a concatenation are those of its parts.
LEMMA ConcatAt ==
    ASSUME NEW S, NEW a \in Seq(S), NEW b \in Seq(S)
    PROVE  /\ a \o b \in Seq(S) /\ Len(a \o b) = Len(a) + Len(b)
           /\ \A k \in 1..Len(a) : (a \o b)[k] = a[k]
           /\ \A k \in 1..Len(b) : (a \o b)[Len(a) + k] = b[k]
OBVIOUS

\* Noise leaves at most one character, no block, of the item it strikes.
LEMMA FlowStruck ==
    ASSUME NEW s \in Seq(Items), NEW g \in Seq(Gots), NEW r \in Nat,
           NEW n \in Nat, NEW b \in Blocks,
           Flow(s, g, r, n, b), NEW i \in 1..Len(s), NEW d \in Damage(s[i])
    PROVE  LET t == SubSeq(s, 1, i - 1) \o d \o SubSeq(s, i + 1, Len(s))
           IN  t \in Seq(Items) /\ Flow(t, g, r, n, b)
<1> DEFINE l == SubSeq(s, 1, i - 1)
           h == SubSeq(s, i + 1, Len(s))
           t == l \o d \o h
           from == [k \in 1..Len(t) |-> IF k < i THEN k ELSE k + 1 - Len(d)]
<1>1. /\ l \in Seq(Items) /\ Len(l) = i - 1
      /\ \A k \in 1..i-1 : l[k] = s[k]
  OBVIOUS
<1>2. /\ h \in Seq(Items) /\ Len(h) = Len(s) - i
      /\ \A k \in 1..Len(s)-i : h[k] = s[k + i]
  OBVIOUS
<1>3. /\ d \in Seq(Items) /\ Len(d) \in {0, 1}
      /\ Len(d) = 1 => d[1].kind # "STX"
  <2>1. d \in {<< >>, <<Ctl("junk")>>, <<Ctl("torn")>>, <<Ctl("toolong")>>}
    BY DEF Damage
  <2>2. ASSUME NEW k \in {"junk", "torn", "toolong"}, d = <<Ctl(k)>>
        PROVE  d \in Seq(Items) /\ Len(d) = 1 /\ d[1].kind # "STX"
    <3>1. Ctl(k) \in Items /\ Ctl(k).kind # "STX"
      BY DEF Items, Controls, Ctl
    <3> QED
      BY <2>2, <3>1
  <2>3. CASE d = << >>
    BY <2>3
  <2> QED
    BY <2>1, <2>2, <2>3
<1> HIDE DEF l, h
<1>4. /\ t \in Seq(Items)
      /\ Len(t) = Len(s) - 1 + Len(d)
      /\ \A k \in 1..Len(t) :
            \/ k < i /\ t[k] = s[k]
            \/ k = i /\ Len(d) = 1 /\ t[k] = d[1]
            \/ k >= i + Len(d) /\ t[k] = s[k + 1 - Len(d)]
  <2> DEFINE w == l \o d
  <2>1. /\ w \in Seq(Items) /\ Len(w) = Len(l) + Len(d)
        /\ \A k \in 1..Len(l) : w[k] = l[k]
        /\ \A k \in 1..Len(d) : w[Len(l) + k] = d[k]
    <3>1. l \in Seq(Items) /\ d \in Seq(Items)
      BY <1>1, <1>3
    <3> QED
      BY <3>1, ConcatAt
  <2>2. t = w \o h
    OBVIOUS
  <2> HIDE DEF w, t
  <2>3. /\ t \in Seq(Items) /\ Len(t) = Len(w) + Len(h)
        /\ \A k \in 1..Len(w) : t[k] = w[k]
        /\ \A k \in 1..Len(h) : t[Len(w) + k] = h[k]
    <3>1. w \in Seq(Items) /\ h \in Seq(Items)
      BY <2>1, <1>2
    <3> QED
      BY <3>1, <2>2, ConcatAt
  <2>4. /\ Len(s) \in Nat /\ i \in 1..Len(s) /\ Len(d) \in 0..1
        /\ Len(l) = i - 1 /\ Len(h) = Len(s) - i
        /\ Len(w) = i - 1 + Len(d) /\ Len(t) = Len(s) - 1 + Len(d)
    <3>1. Len(s) \in Nat /\ i \in 1..Len(s) /\ Len(d) \in 0..1
      BY <1>3
    <3>2. Len(l) = i - 1 /\ Len(h) = Len(s) - i
      BY <1>1, <1>2
    <3>3. Len(w) = Len(l) + Len(d) /\ Len(t) = Len(w) + Len(h)
      BY <2>1, <2>3
    <3> QED
      BY <3>1, <3>2, <3>3
  <2>5. ASSUME NEW k \in 1..Len(t)
        PROVE  \/ k < i /\ t[k] = s[k]
               \/ k = i /\ Len(d) = 1 /\ t[k] = d[1]
               \/ k >= i + Len(d) /\ t[k] = s[k + 1 - Len(d)]
    <3>1. CASE k < i
      <4>1. k \in 1..Len(w) /\ k \in 1..Len(l) /\ k \in 1..i-1
        BY <3>1, <2>4
      <4> QED
        BY <3>1, <4>1, <2>1, <2>3, <1>1
    <3>2. CASE k = i /\ Len(d) = 1
      <4>1. k \in 1..Len(w) /\ k = Len(l) + 1 /\ 1 \in 1..Len(d)
        BY <3>2, <2>4
      <4>2. t[k] = w[k] /\ w[Len(l) + 1] = d[1]
        BY <4>1, <2>1, <2>3
      <4> QED
        BY <3>2, <4>1, <4>2
    <3>3. CASE k >= i + Len(d)
      <4> DEFINE j == k - Len(w)
      <4>1. /\ k = Len(w) + j /\ j \in 1..Len(h) /\ j \in 1..Len(s)-i
            /\ j + i = k + 1 - Len(d)
        BY <3>3, <2>4
      <4> HIDE DEF j
      <4>2. t[k] = h[j] /\ h[j] = s[j + i]
        BY <4>1, <2>3, <1>2
      <4> QED
        BY <3>3, <4>1, <4>2
    <3>4. k < i \/ (k = i /\ Len(d) = 1) \/ k >= i + Len(d)
      <4>1. k \in Int /\ i \in Int /\ (Len(d) = 0 \/ Len(d) = 1)
        BY <2>4
      <4>2. CASE Len(d) = 0
        BY <4>1, <4>2
      <4>3. CASE Len(d) = 1
        BY <4>1, <4>3
      <4> QED
        BY <4>1, <4>2, <4>3
    <3> QED
      BY <3>1, <3>2, <3>3, <3>4
  <2> QED
    BY <2>3, <2>4, <2>5
<1> HIDE DEF t
<1>41. \A k \in 1..Len(t) : BlockAt(t, k) =>
            \/ k < i /\ t[k] = s[k]
            \/ k >= i + Len(d) /\ t[k] = s[k + 1 - Len(d)]
  BY <1>3, <1>4 DEF BlockAt
<1>5. \A k \in 1..Len(t) : BlockAt(t, k) =>
            from[k] \in 1..Len(s) /\ t[k] = s[from[k]]
  <2> SUFFICES ASSUME NEW k \in 1..Len(t), BlockAt(t, k)
               PROVE  from[k] \in 1..Len(s) /\ t[k] = s[from[k]]
    OBVIOUS
  <2>1. CASE k < i /\ t[k] = s[k]
    BY <2>1
  <2>2. CASE k >= i + Len(d) /\ t[k] = s[k + 1 - Len(d)]
    <3>1. Len(s) \in Nat /\ i \in Nat /\ Len(d) \in 0..1 /\ k \in Nat
      BY <1>3
    <3>2. ~(k < i) /\ k + 1 - Len(d) \in 1..Len(s)
      BY <2>2, <3>1, <1>4, SMTT(30)
    <3> QED
      BY <2>2, <3>2
  <2> QED
    BY <2>1, <2>2, <1>41
<1>6. \A j, k \in 1..Len(t) :
            j < k /\ BlockAt(t, j) /\ BlockAt(t, k) => from[j] < from[k]
  <2> SUFFICES ASSUME NEW j \in 1..Len(t), NEW k \in 1..Len(t), j < k,
                      BlockAt(t, j), BlockAt(t, k)
               PROVE  from[j] < from[k]
    OBVIOUS
  <2>1. \/ j < i /\ from[j] = j
        \/ j >= i + Len(d) /\ from[j] = j + 1 - Len(d)
    BY <1>41, <1>3
  <2>2. \/ k < i /\ from[k] = k
        \/ k >= i + Len(d) /\ from[k] = k + 1 - Len(d)
    BY <1>41, <1>3
  <2> HIDE DEF from
  <2> QED
    BY <2>1, <2>2, <1>3
<1> HIDE DEF from
<1>7. Flow(t, g, r, n, b)
  BY <1>4, <1>5, <1>6, FlowPart
<1> QED
  BY <1>4, <1>7 DEF t, l, h

\* What is added is no block, or the block of the sender.
LEMMA FlowConcat ==
    ASSUME NEW s \in Seq(Items), NEW g \in Seq(Gots), NEW r \in Nat,
           NEW n \in Nat, NEW b \in Blocks,
           Flow(s, g, r, n, b), NEW t \in Seq(Items),
           \A i \in 1..Len(t) : BlockAt(t, i) => t[i] = b /\ n > 0
    PROVE  /\ s \o t \in Seq(Items)
           /\ Flow(s \o t, g, r, n, b)
<1> DEFINE u == s \o t
<1>1. /\ u \in Seq(Items)
      /\ Len(u) = Len(s) + Len(t)
      /\ \A i \in 1..Len(u) :
            \/ i <= Len(s) /\ u[i] = s[i]
            \/ i > Len(s) /\ u[i] = t[i - Len(s)] /\ i - Len(s) \in 1..Len(t)
  OBVIOUS
<1> HIDE DEF u
<1>2. \A i \in 1..Len(u) : BlockAt(u, i) =>
        \/ i <= Len(s) /\ BlockAt(s, i) /\ u[i] = s[i]
        \/ i > Len(s) /\ u[i] = b /\ n > 0
  BY <1>1 DEF BlockAt
<1>3. \A k \in 1..Len(g) : g[k].id \in 1..n /\ (g[k].id = n => b.no # r)
  BY DEF Flow, GotOnce
<1>4. NewerThanGot(u, g, r, n, b)
  <2> SUFFICES ASSUME NEW i \in 1..Len(u), BlockAt(u, i)
               PROVE  /\ u[i].id \in 1..n
                      /\ u[i].id = n => u[i].no = b.no
                      /\ \A k \in 1..Len(g) :
                            /\ g[k].id <= u[i].id
                            /\ g[k].id = u[i].id => u[i].no # r
    BY DEF NewerThanGot
  <2>1. CASE i <= Len(s) /\ BlockAt(s, i) /\ u[i] = s[i]
    <3>1. i \in 1..Len(s)
      BY <2>1
    <3> QED
      BY <2>1, <3>1 DEF Flow, NewerThanGot
  <2>2. CASE u[i] = b /\ n > 0
    BY <2>2, <1>3 DEF Flow
  <2> QED
    BY <1>2, <2>1, <2>2
<1>5. InCallOrder(u)
  <2> SUFFICES ASSUME NEW i \in 1..Len(u), NEW j \in 1..Len(u), i < j,
                      BlockAt(u, i), BlockAt(u, j)
               PROVE  /\ u[i].id <= u[j].id
                      /\ u[i].id = u[j].id => u[i].no = u[j].no
    BY DEF InCallOrder
  <2>1. CASE u[j] = b /\ n > 0
    BY <2>1, <1>4 DEF Flow, NewerThanGot
  <2>2. CASE j <= Len(s) /\ BlockAt(s, j) /\ u[j] = s[j]
    <3>1. i \in 1..Len(s) /\ j \in 1..Len(s) /\ BlockAt(s, i) /\ u[i] = s[i]
      BY <1>2, <2>2
    <3> QED
      BY <2>2, <3>1 DEF Flow, InCallOrder
  <2> QED
    BY <1>2, <2>1, <2>2
<1> QED
  BY <1>1, <1>4, <1>5 DEF Flow, u

\* The next RemotePut of the sender.
LEMMA FlowNext ==
    ASSUME NEW s \in Seq(Items), NEW g \in Seq(Gots), NEW r \in Nat,
           NEW n \in Nat, NEW b \in Blocks,
           Flow(s, g, r, n, b), NEW c \in Blocks, c.id = n + 1
    PROVE  /\ s \o <<c>> \in Seq(Items)
           /\ Flow(s \o <<c>>, g, r, n + 1, c)
<1>1. \A k \in 1..Len(g) : g[k].id \in 1..n
  BY DEF Flow, GotOnce
<1>2. GotOnce(g, r, n + 1, c)
  BY <1>1 DEF Flow, GotOnce
<1>3. \A i \in 1..Len(s) : BlockAt(s, i) => s[i].id \in 1..n
  BY DEF Flow, NewerThanGot
<1>4. NewerThanGot(s, g, r, n + 1, c)
  BY <1>3 DEF Flow, NewerThanGot
<1>5. c \in Items
  BY DEF Items
<1> DEFINE u == s \o <<c>>
<1>6. /\ u \in Seq(Items)
      /\ Len(u) = Len(s) + 1
      /\ \A i \in 1..Len(s) : u[i] = s[i]
      /\ u[Len(s) + 1] = c
  BY <1>5
<1> HIDE DEF u
<1>7. NewerThanGot(u, g, r, n + 1, c)
  <2> SUFFICES ASSUME NEW i \in 1..Len(u), BlockAt(u, i)
               PROVE  /\ u[i].id \in 1..n+1
                      /\ u[i].id = n + 1 => u[i].no = c.no
                      /\ \A k \in 1..Len(g) :
                            /\ g[k].id <= u[i].id
                            /\ g[k].id = u[i].id => u[i].no # r
    BY DEF NewerThanGot
  <2>1. CASE i \in 1..Len(s)
    BY <2>1, <1>4, <1>6 DEF NewerThanGot, BlockAt
  <2>2. CASE i = Len(s) + 1
    BY <2>2, <1>1, <1>6
  <2> QED
    BY <2>1, <2>2, <1>6
<1>8. InCallOrder(u)
  <2> SUFFICES ASSUME NEW i \in 1..Len(u), NEW j \in 1..Len(u), i < j,
                      BlockAt(u, i), BlockAt(u, j)
               PROVE  /\ u[i].id <= u[j].id
                      /\ u[i].id = u[j].id => u[i].no = u[j].no
    BY DEF InCallOrder
  <2>1. i \in 1..Len(s) /\ BlockAt(s, i) /\ u[i] = s[i]
    BY <1>6 DEF BlockAt
  <2>2. CASE j \in 1..Len(s)
    BY <2>1, <2>2, <1>6 DEF Flow, InCallOrder, BlockAt
  <2>3. CASE j = Len(s) + 1
    BY <2>1, <2>3, <1>3, <1>6
  <2> QED
    BY <2>2, <2>3, <1>6
<1> QED
  BY <1>2, <1>6, <1>7, <1>8 DEF Flow, u

\* RemoteGet accepts the first unread item, and ReceiveBlkNo moves on.
LEMMA FlowAccept ==
    ASSUME NEW s \in Seq(Items), NEW g \in Seq(Gots), NEW r \in Nat,
           NEW n \in Nat, NEW b \in Blocks, Flow(s, g, r, n, b),
           s # << >>, BlockAt(s, 1), s[1].no = r,
           NEW q \in Nat, q # r, NEW e \in Gots, e.id = s[1].id
    PROVE  /\ Tail(s) \in Seq(Items)
           /\ Flow(Tail(s), Append(g, e), q, n, b)
<1> DEFINE t == Tail(s)
           f == Append(g, e)
<1>1. /\ t \in Seq(Items)
      /\ Len(t) = Len(s) - 1
      /\ \A i \in 1..Len(t) : t[i] = s[i + 1] /\ i + 1 \in 1..Len(s)
      /\ 1 \in 1..Len(s)
  OBVIOUS
<1>2. /\ Len(f) = Len(g) + 1
      /\ \A k \in 1..Len(g) : f[k] = g[k]
      /\ f[Len(g) + 1] = e
  OBVIOUS
<1> HIDE DEF t, f
<1>3. /\ e.id \in 1..n
      /\ e.id = n => r = b.no
      /\ \A k \in 1..Len(g) : g[k].id < e.id
  <2>1. \A k \in 1..Len(g) : g[k].id <= e.id /\ g[k].id # e.id
    BY <1>1 DEF Flow, NewerThanGot
  <2>2. e.id \in 1..n /\ (e.id = n => r = b.no)
    BY <1>1 DEF Flow, NewerThanGot
  <2>3. \A k \in 1..Len(g) : g[k].id \in 1..n
    BY DEF Flow, GotOnce
  <2> QED
    BY <2>1, <2>2, <2>3
<1>4. GotOnce(f, q, n, b)
  <2>0. Len(g) \in Nat /\ \A k \in 1..Len(f) : k \in 1..Len(g) \/ k = Len(g) + 1
    BY <1>2
  <2>1. \A k \in 1..Len(f) : f[k].id \in 1..n /\ (f[k].id = n => b.no # q)
    BY <2>0, <1>2, <1>3, SMTT(30) DEF Flow, GotOnce
  <2>2. ASSUME NEW j \in 1..Len(f), NEW k \in 1..Len(f), j < k
        PROVE  f[j].id < f[k].id
    <3>1. j \in 1..Len(g)
      BY <2>2, <1>2
    <3>2. CASE k \in 1..Len(g)
      BY <3>1, <3>2, <2>2, <1>2 DEF Flow, GotOnce
    <3>3. CASE k = Len(g) + 1
      BY <3>1, <3>3, <1>2, <1>3
    <3> QED
      BY <2>0, <3>2, <3>3
  <2> QED
    BY <2>1, <2>2 DEF GotOnce
<1>5. \A i \in 1..Len(t) : BlockAt(t, i) =>
        /\ BlockAt(s, i + 1)
        /\ t[i].id \in 1..n
        /\ t[i].id = n => t[i].no = b.no
        /\ e.id <= t[i].id
        /\ e.id = t[i].id => t[i].no # q
  <2> SUFFICES ASSUME NEW i \in 1..Len(t), BlockAt(t, i)
               PROVE  /\ BlockAt(s, i + 1)
                      /\ t[i].id \in 1..n
                      /\ t[i].id = n => t[i].no = b.no
                      /\ e.id <= t[i].id
                      /\ e.id = t[i].id => t[i].no # q
    OBVIOUS
  <2>1. i + 1 \in 1..Len(s) /\ t[i] = s[i + 1] /\ BlockAt(s, i + 1) /\ 1 < i + 1
    BY <1>1 DEF BlockAt
  <2>2. s[i + 1].id \in 1..n /\ (s[i + 1].id = n => s[i + 1].no = b.no)
    BY <2>1 DEF Flow, NewerThanGot
  <2>3. /\ s[1].id <= s[i + 1].id
        /\ s[1].id = s[i + 1].id => s[1].no = s[i + 1].no
    BY <2>1, <1>1 DEF Flow, InCallOrder
  <2> QED
    BY <2>1, <2>2, <2>3
<1>6. NewerThanGot(t, f, q, n, b)
  <2> SUFFICES ASSUME NEW i \in 1..Len(t), BlockAt(t, i), NEW k \in 1..Len(f)
               PROVE  /\ f[k].id <= t[i].id
                      /\ f[k].id = t[i].id => t[i].no # q
    BY <1>5 DEF NewerThanGot
  <2>1. CASE k \in 1..Len(g)
    <3>1. f[k].id < e.id /\ e.id <= t[i].id
      BY <2>1, <1>2, <1>3, <1>5
    <3>2. f[k].id \in 1..n /\ e.id \in 1..n /\ t[i].id \in 1..n
      BY <2>1, <1>2, <1>3, <1>5 DEF Flow, GotOnce
    <3>3. f[k].id \in Int /\ e.id \in Int /\ t[i].id \in Int
      BY <3>2
    <3>4. f[k].id < t[i].id
      BY <3>1, <3>3
    <3> QED
      BY <3>3, <3>4
  <2>2. CASE k = Len(g) + 1
    BY <2>2, <1>2, <1>5
  <2> QED
    BY <2>1, <2>2, <1>2
<1>7. InCallOrder(t)
  <2> SUFFICES ASSUME NEW i \in 1..Len(t), NEW j \in 1..Len(t), i < j,
                      BlockAt(t, i), BlockAt(t, j)
               PROVE  /\ t[i].id <= t[j].id
                      /\ t[i].id = t[j].id => t[i].no = t[j].no
    BY DEF InCallOrder
  <2>1. /\ i + 1 \in 1..Len(s) /\ t[i] = s[i + 1] /\ BlockAt(s, i + 1)
        /\ j + 1 \in 1..Len(s) /\ t[j] = s[j + 1] /\ BlockAt(s, j + 1)
        /\ i + 1 < j + 1
    BY <1>1, <1>5
  <2> QED
    BY <2>1 DEF Flow, InCallOrder
<1> QED
  BY <1>1, <1>4, <1>6, <1>7 DEF Flow, t, f

-------------------------------------------------------------------------------
(***************************************************************************)
(* Type correctness.                                                       *)
(***************************************************************************)
\* The parts of p's input that are left when it has read some of it.
Unread(p) == {SubSeq(buf[p], m, Len(buf[p])) : m \in 1..Len(buf[p]) + 1}

\* A control character is an item that is no block.
LEMMA ControlType ==
    ASSUME NEW k \in {"ACK", "NAK", "RLR", "junk", "torn", "toolong"}
    PROVE  Ctl(k) \in Items /\ Ctl(k).kind # "STX"
BY DEF Items, Controls, Ctl

\* What a peer reads next is an item, and the rest of its buffer are items.
LEMMA HeadType ==
    ASSUME TypeOK, NEW p \in Peers, buf[p] # << >>
    PROVE  /\ Head(buf[p]) = buf[p][1]
           /\ Head(buf[p]) \in Items
           /\ Head(buf[p]).kind = "STX" => Head(buf[p]) \in Blocks
<1>1. buf[p] \in Seq(Items)
  BY DEF TypeOK, Items
<1>2. Head(buf[p]) = buf[p][1] /\ 1 \in 1..Len(buf[p])
  BY <1>1
<1>3. BlockAt(buf[p], 1) => buf[p][1] \in Blocks
  BY <1>1, <1>2, BlockType
<1> QED
  BY <1>1, <1>2, <1>3 DEF BlockAt

\* What a peer leaves unread is a sequence of items.
LEMMA UnreadType ==
    ASSUME TypeOK, NEW p \in Peers
    PROVE  /\ Unread(p) \subseteq Seq(Items)
           /\ << >> \in Unread(p)
           /\ AfterClear(buf[p]) \in Unread(p)
           /\ buf[p] # << >> => /\ Tail(buf[p]) \in Unread(p)
                                /\ AfterClear(Tail(buf[p])) \in Unread(p)
           /\ \A m \in 1..Len(buf[p]) :
                SubSeq(buf[p], m + 1, Len(buf[p])) \in Unread(p)
<1> DEFINE s == buf[p]
<1>1. s \in Seq(Items) /\ Len(s) \in Nat
  BY DEF TypeOK, Items
<1> HIDE DEF s
<1>2. \A m \in 1..Len(s) + 1 : SubSeq(s, m, Len(s)) \in Seq(Items)
  BY <1>1
<1>3. SubSeq(s, Len(s) + 1, Len(s)) = << >> /\ Len(s) + 1 \in 1..Len(s) + 1
  BY <1>1, SubSeqEmpty
<1>4. SubSeq(s, 1, Len(s)) = s /\ 1 \in 1..Len(s) + 1
  BY <1>1
<1>5. s # << >> => Tail(s) = SubSeq(s, 2, Len(s)) /\ 2 \in 1..Len(s) + 1
  BY <1>1, TailIsSubSeq
<1>6. \A m \in 1..Len(s) : m + 1 \in 1..Len(s) + 1
  BY <1>1
<1> QED
  BY <1>2, <1>3, <1>4, <1>5, <1>6 DEF Unread, AfterClear, s

\* Reading one item and sending in reaction keeps the buffers' types.
LEMMA ExchangeType ==
    ASSUME TypeOK, NEW p \in Peers, NEW mine \in Unread(p),
           NEW out \in Seq(Items), Exchange(p, mine, out)
    PROVE  /\ buf' \in [Peers -> Seq(Items)]
           /\ p # Other(p) /\ Other(p) \in Peers /\ Other(Other(p)) = p
           /\ Peers = {p, Other(p)}
           /\ buf'[p] = mine
           /\ buf'[Other(p)] = buf[Other(p)] \o out
<1>1. p # Other(p) /\ Other(p) \in Peers /\ Other(Other(p)) = p
  BY DEF Peers, Other
<1>2. Peers = {p, Other(p)}
  BY DEF Peers, Other
<1>3. buf \in [Peers -> Seq(Items)]
  BY DEF TypeOK, Items
<1>4. mine \in Seq(Items)
  BY UnreadType
<1>5. buf[Other(p)] \o out \in Seq(Items)
  BY <1>1, <1>3, ConcatAt
<1> QED
  BY <1>1, <1>2, <1>3, <1>4, <1>5 DEF Exchange

\* The numbers on the wire and the counters stay in their ranges, and a number
\* differs from its successor.
LEMMA WireType ==
    /\ \A n \in 0..CtrMod-1 : Succ(n) \in 0..CtrMod-1 /\ Succ(n) # n
    /\ \A n \in Nat : Wire(n) \in 0..WireMod-1
    /\ \A e \in 0..MAX_ERRORS+1 : Bump(e) \in 0..MAX_ERRORS+1
<1>1. \A n \in 0..CtrMod-1 : Succ(n) \in 0..CtrMod-1 /\ Succ(n) # n
  BY LinkAssumption DEF Succ
<1>2. \A n \in Nat : Wire(n) \in 0..WireMod-1
  BY LinkAssumption DEF Wire
<1>3. \A e \in 0..MAX_ERRORS+1 : Bump(e) \in 0..MAX_ERRORS+1
  BY LinkAssumption DEF Bump
<1> QED
  BY <1>1, <1>2, <1>3

\* A step that is no RemotePut and accepts no block.
Same == UNCHANGED <<ReceiveBlkNo, blk, put, got>>

\* The begin of a RemotePut keeps the types.
LEMMA StartSendType ==
    ASSUME TypeOK, NEW p \in Peers, NEW body \in Nat, StartSend(p, body)
    PROVE  /\ TypeOK'
           /\ \E c \in Blocks : /\ c.id = put[p] + 1
                                /\ blk' = [blk EXCEPT ![p] = c]
                                /\ Exchange(p, AfterClear(buf[p]), <<c>>)
<1> DEFINE c == [kind |-> "STX", no |-> Wire(SendBlkNo[p]), err |-> Errors[p],
                 id |-> put[p] + 1, body |-> body]
<1>1. c \in Blocks /\ c.id = put[p] + 1
  <2>1. SendBlkNo[p] \in Nat /\ Errors[p] \in 0..MAX_ERRORS+1 /\ put[p] + 1 \in Nat
    BY LinkAssumption DEF TypeOK
  <2>2. Wire(SendBlkNo[p]) \in 0..WireMod-1
    BY <2>1, WireType
  <2> QED
    BY <2>1, <2>2 DEF Blocks
<1>2. blk' = [blk EXCEPT ![p] = c] /\ Exchange(p, AfterClear(buf[p]), <<c>>)
  BY DEF StartSend
<1> HIDE DEF c
<1>3. <<c>> \in Seq(Items)
  BY <1>1 DEF Items
<1>4. buf' \in [Peers -> Seq(Items)]
  BY <1>2, <1>3, UnreadType, ExchangeType
<1>5. blk' \in [Peers -> Blocks]
  BY <1>1, <1>2 DEF TypeOK
<1>6. put' \in [Peers -> Nat]
  BY DEF TypeOK, StartSend
<1>7. /\ pc' \in [Peers -> {"app", "send", "drain", "hunt", "putsync",
                            "getsync", "stopped"}]
      /\ Errors' \in [Peers -> 0..MAX_ERRORS+1]
      /\ PrevErrors' \in [Peers -> 0..MAX_ERRORS+1]
  BY LinkAssumption DEF TypeOK, StartSend
<1>8. TypeOK'
  BY <1>4, <1>5, <1>6, <1>7 DEF TypeOK, StartSend, counters, Items
<1> QED
  BY <1>1, <1>2, <1>8

\* Every other step that reads or writes the line: what p has left to read
\* and what it sends are of the right type.
LEMMA StepType ==
    ASSUME TypeOK, NEW p \in Peers, Reads(p) \/ Quiet(p) \/ SyncAlone(p)
    PROVE  /\ TypeOK'
           /\ \E mine \in Unread(p), out \in Seq(Items) :
                /\ Exchange(p, mine, out)
                /\ \A i \in 1..Len(out) : BlockAt(out, i) =>
                        out[i] = blk[p] /\ pc[p] = "send"
<1> DEFINE Sends(mine, out) ==
             /\ mine \in Unread(p) /\ out \in Seq(Items)
             /\ Exchange(p, mine, out)
             /\ \A i \in 1..Len(out) : BlockAt(out, i) =>
                        out[i] = blk[p] /\ pc[p] = "send"
<1>1. \A k \in {"ACK", "NAK", "RLR", "junk", "torn", "toolong"} :
        /\ <<Ctl(k)>> \in Seq(Items)
        /\ \A i \in 1..Len(<<Ctl(k)>>) : ~BlockAt(<<Ctl(k)>>, i)
  BY ControlType DEF BlockAt
<1>2. /\ << >> \in Seq(Items)
      /\ \A i \in 1..Len(<< >>) : FALSE
  OBVIOUS
<1>3. blk[p] \in Items /\ <<blk[p]>> \in Seq(Items)
  BY DEF TypeOK, Items
<1>4. LastResponse[p] \in {"ACK", "NAK"}
  BY DEF TypeOK
<1>5. ASSUME NEW mine, NEW out, Sends(mine, out)
      PROVE  buf' \in [Peers -> Seq(Items)]
  BY <1>5, ExchangeType
<1> HIDE DEF Sends
<1>6. ASSUME AckArrives(p) PROVE TypeOK' /\ Sends(Tail(buf[p]), << >>)
  <2>1. Sends(Tail(buf[p]), << >>)
    BY <1>6, <1>2, UnreadType DEF AckArrives, ReadsIn, Sends
  <2>2. SendBlkNo' \in [Peers -> 0..CtrMod-1]
    BY <1>6, WireType DEF AckArrives, TypeOK
  <2>3. sent' \in [Peers -> SUBSET Nat]
    BY <1>6 DEF AckArrives, TypeOK
  <2>4. pc' \in [Peers -> {"app", "send", "drain", "hunt", "putsync", "getsync",
                           "stopped"}]
    BY <1>6 DEF AckArrives, TypeOK, AfterPut
  <2> QED
    BY <1>6, <1>5, <2>1, <2>2, <2>3, <2>4 DEF AckArrives, TypeOK, Items
<1>7. ASSUME NakArrives(p) PROVE TypeOK' /\ Sends(Tail(buf[p]), <<blk[p]>>)
  <2>1. Sends(Tail(buf[p]), <<blk[p]>>)
    BY <1>7, <1>3, UnreadType DEF NakArrives, ReadsIn, Resend, Sends
  <2>2. Errors' \in [Peers -> 0..MAX_ERRORS+1]
    BY <1>7, WireType DEF NakArrives, TypeOK
  <2> QED
    BY <1>7, <1>5, <2>1, <2>2 DEF NakArrives, TypeOK, Items, counters
<1>8. ASSUME RlrArrives(p)
      PROVE  TypeOK' /\ Sends(Tail(buf[p]), <<Ctl(LastResponse[p])>> \o <<blk[p]>>)
  <2> DEFINE out == <<Ctl(LastResponse[p])>> \o <<blk[p]>>
  <2>1. /\ out \in Seq(Items)
        /\ \A i \in 1..Len(out) : BlockAt(out, i) => out[i] = blk[p]
    <3>1. LastResponse[p] \in {"ACK", "NAK", "RLR", "junk", "torn", "toolong"}
      BY <1>4
    <3> DEFINE a == <<Ctl(LastResponse[p])>>
               b == <<blk[p]>>
    <3>2. /\ a \in Seq(Items) /\ Len(a) = 1 /\ a[1].kind # "STX"
          /\ b \in Seq(Items) /\ Len(b) = 1 /\ b[1] = blk[p]
      BY <3>1, <1>3, ControlType
    <3>3. out = a \o b
      OBVIOUS
    <3> HIDE DEF a, b, out
    <3>4. /\ out \in Seq(Items) /\ Len(out) = 2
          /\ out[1] = a[1] /\ out[2] = b[1]
      <4>1. /\ out \in Seq(Items) /\ Len(out) = Len(a) + Len(b)
            /\ \A k \in 1..Len(a) : out[k] = a[k]
            /\ \A k \in 1..Len(b) : out[Len(a) + k] = b[k]
        BY <3>2, <3>3, ConcatAt
      <4> QED
        BY <4>1, <3>2
    <3>5. \A i \in 1..2 : i = 1 \/ i = 2
      OBVIOUS
    <3> QED
      BY <3>2, <3>4, <3>5 DEF BlockAt
  <2>2. Exchange(p, Tail(buf[p]), out) /\ pc[p] = "send" /\ buf[p] # << >>
    BY <1>8 DEF RlrArrives, ReadsIn, Resend
  <2>3. Sends(Tail(buf[p]), out)
    BY <2>1, <2>2, UnreadType DEF Sends
  <2> QED
    BY <1>8, <1>5, <2>3 DEF RlrArrives, TypeOK, Items, counters
<1>9. ASSUME MessArrives(p) PROVE TypeOK' /\ Sends(Tail(buf[p]), << >>)
  <2>1. Sends(Tail(buf[p]), << >>)
    BY <1>9, <1>2, UnreadType DEF MessArrives, ReadsIn, Sends
  <2>2. pc' \in [Peers -> {"app", "send", "drain", "hunt", "putsync", "getsync",
                           "stopped"}]
    BY <1>9 DEF MessArrives, TypeOK
  <2> QED
    BY <1>9, <1>5, <2>1, <2>2 DEF MessArrives, TypeOK, Items, counters
<1>10. ASSUME Accept(p) PROVE TypeOK' /\ Sends(Tail(buf[p]), <<Ctl("ACK")>>)
  <2>1. Sends(Tail(buf[p]), <<Ctl("ACK")>>)
    BY <1>10, <1>1, UnreadType DEF Accept, ReadsIn, Sends
  <2>2. Head(buf[p]) \in Blocks
    BY <1>10, HeadType DEF Accept, ReadsIn
  <2> DEFINE e == [id |-> Head(buf[p]).id, body |-> Head(buf[p]).body,
                   kept |-> Head(buf[p]).err <= MAX_ERRORS]
  <2>3. e \in Gots
    BY <2>2, LinkAssumption DEF Blocks, Gots
  <2>4. got' = [got EXCEPT ![p] = Append(@, e)]
    BY <1>10 DEF Accept
  <2> HIDE DEF e
  <2>5. got' \in [Peers -> Seq(Gots)]
    BY <2>3, <2>4 DEF TypeOK, Gots
  <2>6. ReceiveBlkNo' \in [Peers -> 0..CtrMod-1]
    BY <1>10, WireType DEF Accept, TypeOK
  <2>7. /\ LastResponse' \in [Peers -> {"ACK", "NAK"}]
        /\ pc' \in [Peers -> {"app", "send", "drain", "hunt", "putsync",
                              "getsync", "stopped"}]
    BY <1>10 DEF Accept, TypeOK
  <2> QED
    BY <1>10, <1>5, <2>1, <2>5, <2>6, <2>7 DEF Accept, TypeOK, Items, Gots
<1>11. ASSUME Discard(p)
       PROVE  TypeOK' /\ Sends(AfterClear(Tail(buf[p])), <<Ctl("ACK")>>)
  <2>1. Sends(AfterClear(Tail(buf[p])), <<Ctl("ACK")>>)
    BY <1>11, <1>1, UnreadType DEF Discard, ReadsIn, Sends, OtherNoAnswer
  <2>2. LastResponse' \in [Peers -> {"ACK", "NAK"}]
    BY <1>11 DEF Discard, TypeOK, OtherNoAnswer
  <2> QED
    BY <1>11, <1>5, <2>1, <2>2 DEF Discard, TypeOK, Items, counters
<1>12. ASSUME TornBlock(p)
       PROVE  TypeOK' /\ \E mine : Sends(mine, <<Ctl("NAK")>>)
  <2>1. \E mine : Sends(mine, <<Ctl("NAK")>>)
    <3>1. PICK n \in 1..Len(buf[p]) :
            Exchange(p, SubSeq(buf[p], n + 1, Len(buf[p])), <<Ctl("NAK")>>)
      BY <1>12 DEF TornBlock
    <3>2. SubSeq(buf[p], n + 1, Len(buf[p])) \in Unread(p)
      BY UnreadType
    <3> QED
      BY <3>1, <3>2, <1>1 DEF Sends
  <2>2. LastResponse' \in [Peers -> {"ACK", "NAK"}]
    BY <1>12 DEF TornBlock, TypeOK
  <2> QED
    BY <1>12, <1>5, <2>1, <2>2 DEF TornBlock, TypeOK, Items, counters
<1>13. ASSUME OversizeBlock(p)
       PROVE  TypeOK' /\ Sends(AfterClear(Tail(buf[p])), << >>)
  <2>1. Sends(AfterClear(Tail(buf[p])), << >>)
    BY <1>13, <1>2, UnreadType DEF OversizeBlock, ReadsIn, Sends
  <2> QED
    BY <1>13, <1>5, <2>1 DEF OversizeBlock, TypeOK, Items, counters
<1>14. ASSUME HuntOther(p)
       PROVE  TypeOK' /\ \E out : Sends(Tail(buf[p]), out)
  <2>1. \E out : Sends(Tail(buf[p]), out)
    <3>1. CASE Exchange(p, Tail(buf[p]), <<Ctl("NAK")>>)
      BY <3>1, <1>14, <1>1, UnreadType DEF HuntOther, ReadsIn, Sends
    <3>2. CASE Exchange(p, Tail(buf[p]), << >>)
      BY <3>2, <1>14, <1>2, UnreadType DEF HuntOther, ReadsIn, Sends
    <3> QED
      BY <1>14, <3>1, <3>2 DEF HuntOther, RlrAnswer
  <2> QED
    BY <1>14, <1>5, <2>1 DEF HuntOther, TypeOK, Items, counters
<1>15. ASSUME Quiet(p) PROVE TypeOK' /\ \E out : Sends(<< >>, out)
  <2>1. \E out : Sends(<< >>, out)
    <3>1. CASE Exchange(p, << >>, <<Ctl("RLR")>>)
      BY <3>1, <1>1, UnreadType DEF Sends
    <3>2. CASE Exchange(p, << >>, << >>)
      BY <3>2, <1>2, UnreadType DEF Sends
    <3> QED
      BY <1>15, <3>1, <3>2 DEF Quiet
  <2>2. Errors' \in [Peers -> 0..MAX_ERRORS+1]
    BY <1>15, WireType DEF Quiet, TypeOK
  <2>3. pc' \in [Peers -> {"app", "send", "drain", "hunt", "putsync", "getsync",
                           "stopped"}]
    BY <1>15 DEF Quiet, TypeOK
  <2> QED
    BY <1>15, <1>5, <2>1, <2>2, <2>3 DEF Quiet, TypeOK, Items, counters
<1>16. ASSUME SyncAlone(p) PROVE TypeOK' /\ \E out : Sends(<< >>, out)
  <2>1. \E out : Sends(<< >>, out)
    <3>1. CASE Exchange(p, << >>, <<Ctl("junk")>>)
      BY <3>1, <1>1, UnreadType DEF Sends
    <3>2. CASE Exchange(p, << >>, << >>)
      BY <3>2, <1>2, UnreadType DEF Sends
    <3> QED
      BY <1>16, <3>1, <3>2 DEF SyncAlone
  <2> QED
    BY <1>16, <1>5, <2>1 DEF SyncAlone, TypeOK, Items, counters
<1>17. TypeOK' /\ \E mine, out : Sends(mine, out)
  BY <1>6, <1>7, <1>8, <1>9, <1>10, <1>11, <1>12, <1>13, <1>14, <1>15, <1>16
     DEF Reads
<1> QED
  BY <1>17 DEF Sends

\* Noise leaves sequences of items, and no step but these changes the line.
LEMMA NoiseType ==
    ASSUME TypeOK, Noise
    PROVE  /\ TypeOK'
           /\ \E p \in Peers : \E i \in 1..Len(buf[p]) :
              \E d \in Damage(buf[p][i]) :
                buf' = [buf EXCEPT ![p] = SubSeq(@, 1, i - 1) \o d
                                          \o SubSeq(@, i + 1, Len(@))]
<1> DEFINE Struck(p, i, d) ==
             buf' = [buf EXCEPT ![p] = SubSeq(@, 1, i - 1) \o d
                                       \o SubSeq(@, i + 1, Len(@))]
<1>9. PICK p \in Peers :
        \E i \in 1..Len(buf[p]) : \E d \in Damage(buf[p][i]) : Struck(p, i, d)
  BY DEF Noise
<1>10. PICK i \in 1..Len(buf[p]) : \E d \in Damage(buf[p][i]) : Struck(p, i, d)
  BY <1>9
<1>1. PICK d \in Damage(buf[p][i]) : Struck(p, i, d)
  BY <1>10
<1>2. buf[p] \in Seq(Items)
  BY DEF TypeOK, Items
<1>3. SubSeq(buf[p], 1, i - 1) \in Seq(Items)
      /\ SubSeq(buf[p], i + 1, Len(buf[p])) \in Seq(Items)
  BY <1>2
<1>4. d \in Seq(Items)
  <2>1. d \in {<< >>, <<Ctl("junk")>>, <<Ctl("torn")>>, <<Ctl("toolong")>>}
    BY DEF Damage
  <2>2. ASSUME NEW k \in {"junk", "torn", "toolong"}, d = <<Ctl(k)>>
        PROVE  d \in Seq(Items)
    BY <2>2, ControlType
  <2>3. << >> \in Seq(Items)
    OBVIOUS
  <2> QED
    BY <2>1, <2>2, <2>3
<1>5. SubSeq(buf[p], 1, i - 1) \o d \o SubSeq(buf[p], i + 1, Len(buf[p]))
        \in Seq(Items)
  BY <1>3, <1>4
<1>6. buf' \in [Peers -> Seq(Items)]
  BY <1>1, <1>5 DEF TypeOK, Items
<1>7. noise' \in Nat
  BY DEF Noise, TypeOK
<1>8. TypeOK'
  BY <1>6, <1>7 DEF Noise, TypeOK, Items, counters
<1> QED
  BY <1>1, <1>8

\* The number of requests the server has carried out is a number.
LEMMA ServedType ==
    ASSUME TypeOK PROVE Served \in Nat
<1> DEFINE g == got["server"]
<1>1. g \in Seq(Gots)
  BY DEF TypeOK, Peers, Gots
<1>2. CASE g = << >>
  BY <1>2 DEF Served
<1>3. CASE g # << >>
  <2>1. Len(g) \in 1..Len(g)
    BY <1>1, <1>3
  <2>2. g[Len(g)] \in Gots
    BY <1>1, <2>1
  <2> QED
    BY <1>3, <2>2 DEF Served, Gots
<1> QED
  BY <1>2, <1>3

\* The state after RemoteConnect has the types.
LEMMA InitType ==
    ASSUME Init PROVE TypeOK
BY LinkAssumption DEF Init, TypeOK, Peers, Blocks

\* Every step of both programs and of the line keeps the types.
LEMMA NextType ==
    ASSUME TypeOK, [Next]_vars PROVE TypeOK'
<1>1. CASE Request
  <2>1. put["client"] + 1 \in Nat /\ "client" \in Peers
    BY DEF TypeOK, Peers
  <2> QED
    BY <1>1, <2>1, StartSendType DEF Request
<1>2. CASE Reply
  <2>1. "server" \in Peers
    BY DEF Peers
  <2> QED
    BY <1>2, <2>1, ServedType, StartSendType DEF Reply
<1>3. CASE NextRequest
  BY <1>3 DEF NextRequest, TypeOK, counters
<1>4. CASE ReSync
  BY <1>4 DEF ReSync, TypeOK, AfterPut, counters
<1>5. CASE Noise
  BY <1>5, NoiseType
<1>6. ASSUME NEW p \in Peers, Reads(p) \/ Quiet(p) \/ SyncAlone(p)
      PROVE  TypeOK'
  BY <1>6, StepType
<1>7. ASSUME NEW p \in Peers, GiveUp(p)
      PROVE  TypeOK'
  <2>1. PICK to \in {"app", "stopped", "hunt"} : pc' = [pc EXCEPT ![p] = to]
    BY <1>7 DEF GiveUp
  <2>2. pc' \in [Peers -> {"app", "send", "drain", "hunt", "putsync", "getsync",
                           "stopped"}]
    BY <2>1 DEF TypeOK
  <2>3. giveups' \in Nat
    BY <1>7 DEF GiveUp, TypeOK
  <2> QED
    BY <1>7, <2>2, <2>3 DEF GiveUp, TypeOK, counters
<1>8. CASE UNCHANGED vars
  BY <1>8 DEF vars, TypeOK
<1> QED
  BY <1>1, <1>2, <1>3, <1>4, <1>5, <1>6, <1>7, <1>8 DEF Next

\* Every variable stays in its type, the counters within the C types that
\* hold them, whatever the line and the peers do.
THEOREM TypeCorrect == Spec => []TypeOK
<1>1. Init => TypeOK
  BY InitType
<1>2. TypeOK /\ [Next]_vars => TypeOK'
  BY NextType
<1> QED
  BY <1>1, <1>2, PTL DEF Spec

-------------------------------------------------------------------------------
(***************************************************************************)
(* Blocks are delivered once and in order.                                 *)
(***************************************************************************)
\* A peer that waits for an answer has a block to send again.
SendBegun == \A p \in Peers : pc[p] \in {"send", "drain"} => put[p] > 0

LinkInv == TypeOK /\ SendBegun /\ FlowInv

\* What Flow is stated about has the types its lemmas ask for.
LEMMA FlowArgs ==
    ASSUME TypeOK, NEW p \in Peers
    PROVE  /\ buf[p] \in Seq(Items) /\ got[p] \in Seq(Gots)
           /\ ReceiveBlkNo[p] \in Nat /\ ReceiveBlkNo[p] \in 0..CtrMod-1
           /\ put[p] \in Nat /\ blk[p] \in Blocks
BY LinkAssumption DEF TypeOK, Items, Gots

\* A step of p that leaves what was accepted and what is being sent.
LEMMA FlowSame ==
    ASSUME TypeOK, FlowInv, NEW p \in Peers, NEW mine \in Unread(p),
           NEW out \in Seq(Items), Exchange(p, mine, out),
           \A i \in 1..Len(out) : BlockAt(out, i) => out[i] = blk[p] /\ put[p] > 0,
           Same
    PROVE  FlowInv'
<1> DEFINE q == Other(p)
<1>1. /\ p # q /\ q \in Peers /\ Other(q) = p /\ Peers = {p, q}
      /\ buf'[p] = mine /\ buf'[q] = buf[q] \o out
  BY ExchangeType
<1>2. Flow(buf[p], got[p], ReceiveBlkNo[p], put[q], blk[q])
  BY DEF FlowInv
<1>3. Flow(buf[q], got[q], ReceiveBlkNo[q], put[p], blk[p])
  BY <1>1 DEF FlowInv
<1> HIDE DEF q
<1>4. Flow(mine, got[p], ReceiveBlkNo[p], put[q], blk[q])
  <2>1. PICK m \in 1..Len(buf[p]) + 1 : mine = SubSeq(buf[p], m, Len(buf[p]))
    BY DEF Unread
  <2>2. /\ buf[p] \in Seq(Items) /\ got[p] \in Seq(Gots)
        /\ ReceiveBlkNo[p] \in Nat /\ put[q] \in Nat /\ blk[q] \in Blocks
    BY <1>1, FlowArgs
  <2> QED
    BY <2>1, <2>2, <1>2, FlowSuffix
<1>5. Flow(buf[q] \o out, got[q], ReceiveBlkNo[q], put[p], blk[p])
  <2>1. /\ buf[q] \in Seq(Items) /\ got[q] \in Seq(Gots)
        /\ ReceiveBlkNo[q] \in Nat /\ put[p] \in Nat /\ blk[p] \in Blocks
    BY <1>1, FlowArgs
  <2> QED
    BY <2>1, <1>3, FlowConcat
<1>6. Flow(buf'[p], got'[p], ReceiveBlkNo'[p], put'[Other(p)], blk'[Other(p)])
  BY <1>1, <1>4 DEF Same, q
<1>7. Flow(buf'[q], got'[q], ReceiveBlkNo'[q], put'[Other(q)], blk'[Other(q)])
  BY <1>1, <1>5 DEF Same
<1> QED
  BY <1>1, <1>6, <1>7 DEF FlowInv

\* The begin of a RemotePut: the new block comes after all those before it.
LEMMA FlowStartSend ==
    ASSUME TypeOK, FlowInv, NEW p \in Peers, NEW body \in Nat,
           StartSend(p, body)
    PROVE  FlowInv'
<1> DEFINE q == Other(p)
           mine == AfterClear(buf[p])
<1>1. PICK c \in Blocks : /\ c.id = put[p] + 1
                          /\ blk' = [blk EXCEPT ![p] = c]
                          /\ Exchange(p, mine, <<c>>)
  BY StartSendType
<1>2. mine \in Unread(p) /\ <<c>> \in Seq(Items)
  BY UnreadType DEF Items
<1> HIDE DEF mine
<1>3. /\ p # q /\ q \in Peers /\ Other(q) = p /\ Peers = {p, q}
      /\ buf'[p] = mine /\ buf'[q] = buf[q] \o <<c>>
  BY <1>1, <1>2, ExchangeType
<1>4. Flow(buf[p], got[p], ReceiveBlkNo[p], put[q], blk[q])
  BY DEF FlowInv
<1>5. Flow(buf[q], got[q], ReceiveBlkNo[q], put[p], blk[p])
  BY <1>3 DEF FlowInv
<1>6. /\ put'[p] = put[p] + 1 /\ put'[q] = put[q]
      /\ blk'[p] = c /\ blk'[q] = blk[q]
      /\ got' = got /\ ReceiveBlkNo' = ReceiveBlkNo
  BY <1>1, <1>3 DEF StartSend, TypeOK, counters
<1> HIDE DEF q
<1>7. Flow(mine, got[p], ReceiveBlkNo[p], put[q], blk[q])
  <2>1. PICK m \in 1..Len(buf[p]) + 1 : mine = SubSeq(buf[p], m, Len(buf[p]))
    BY <1>2 DEF Unread
  <2>2. /\ buf[p] \in Seq(Items) /\ got[p] \in Seq(Gots)
        /\ ReceiveBlkNo[p] \in Nat /\ put[q] \in Nat /\ blk[q] \in Blocks
    BY <1>3, FlowArgs
  <2> QED
    BY <2>1, <2>2, <1>4, FlowSuffix
<1>8. Flow(buf[q] \o <<c>>, got[q], ReceiveBlkNo[q], put[p] + 1, c)
  <2>1. /\ buf[q] \in Seq(Items) /\ got[q] \in Seq(Gots)
        /\ ReceiveBlkNo[q] \in Nat /\ put[p] \in Nat /\ blk[p] \in Blocks
    BY <1>3, FlowArgs
  <2> QED
    BY <2>1, <1>1, <1>5, FlowNext
<1>9. Flow(buf'[p], got'[p], ReceiveBlkNo'[p], put'[Other(p)], blk'[Other(p)])
  BY <1>3, <1>6, <1>7 DEF q
<1>10. Flow(buf'[q], got'[q], ReceiveBlkNo'[q], put'[Other(q)], blk'[Other(q)])
  BY <1>3, <1>6, <1>8
<1> QED
  BY <1>3, <1>9, <1>10 DEF FlowInv

\* BlockReceive takes a block whose number is the one it expects: it is the
\* block of the call, which was not accepted before.
LEMMA FlowOfAccept ==
    ASSUME TypeOK, FlowInv, NEW p \in Peers, Accept(p)
    PROVE  FlowInv'
<1> DEFINE q == Other(p)
           b == Head(buf[p])
           e == [id |-> b.id, body |-> b.body, kept |-> b.err <= MAX_ERRORS]
           r == ReceiveBlkNo[p]
<1>1. /\ buf[p] # << >> /\ b.kind = "STX" /\ b.no = r
      /\ Exchange(p, Tail(buf[p]), <<Ctl("ACK")>>)
      /\ ReceiveBlkNo' = [ReceiveBlkNo EXCEPT ![p] = Succ(r)]
      /\ got' = [got EXCEPT ![p] = Append(got[p], e)]
      /\ UNCHANGED <<put, blk>>
  BY DEF Accept, ReadsIn
<1>2. b = buf[p][1] /\ b \in Blocks
  BY <1>1, HeadType
<1>3. e \in Gots /\ e.id = buf[p][1].id
  BY <1>2, LinkAssumption DEF Blocks, Gots
<1>4. Succ(r) \in Nat /\ Succ(r) # r
  <2>1. r \in 0..CtrMod-1
    BY FlowArgs
  <2> QED
    BY <2>1, WireType, LinkAssumption
<1> HIDE DEF b, e, r
<1>5. Tail(buf[p]) \in Unread(p) /\ <<Ctl("ACK")>> \in Seq(Items)
      /\ ~BlockAt(<<Ctl("ACK")>>, 1)
  BY <1>1, UnreadType, ControlType DEF BlockAt
<1>6. /\ p # q /\ q \in Peers /\ Other(q) = p /\ Peers = {p, q}
      /\ buf'[p] = Tail(buf[p]) /\ buf'[q] = buf[q] \o <<Ctl("ACK")>>
  BY <1>1, <1>5, ExchangeType
<1>7. Flow(buf[p], got[p], r, put[q], blk[q])
  BY DEF FlowInv, r
<1>8. Flow(buf[q], got[q], ReceiveBlkNo[q], put[p], blk[p])
  BY <1>6 DEF FlowInv
<1> HIDE DEF q
<1>9. Flow(Tail(buf[p]), Append(got[p], e), Succ(r), put[q], blk[q])
  <2>1. /\ buf[p] \in Seq(Items) /\ got[p] \in Seq(Gots)
        /\ r \in Nat /\ put[q] \in Nat /\ blk[q] \in Blocks
    BY <1>6, FlowArgs DEF r
  <2>2. BlockAt(buf[p], 1) /\ buf[p][1].no = r
    BY <1>1, <1>2 DEF BlockAt
  <2> QED
    BY <2>1, <2>2, <1>1, <1>3, <1>4, <1>7, FlowAccept
<1>10. Flow(buf[q] \o <<Ctl("ACK")>>, got[q], ReceiveBlkNo[q], put[p], blk[p])
  <2>1. /\ buf[q] \in Seq(Items) /\ got[q] \in Seq(Gots)
        /\ ReceiveBlkNo[q] \in Nat /\ put[p] \in Nat /\ blk[p] \in Blocks
    BY <1>6, FlowArgs
  <2>2. \A i \in 1..Len(<<Ctl("ACK")>>) : ~BlockAt(<<Ctl("ACK")>>, i)
    BY <1>5
  <2> QED
    BY <2>1, <2>2, <1>5, <1>8, FlowConcat
<1>11. /\ got'[p] = Append(got[p], e) /\ got'[q] = got[q]
       /\ ReceiveBlkNo'[p] = Succ(r) /\ ReceiveBlkNo'[q] = ReceiveBlkNo[q]
  BY <1>1, <1>6 DEF TypeOK
<1>12. Flow(buf'[p], got'[p], ReceiveBlkNo'[p], put'[Other(p)], blk'[Other(p)])
  BY <1>1, <1>6, <1>9, <1>11 DEF q
<1>13. Flow(buf'[q], got'[q], ReceiveBlkNo'[q], put'[Other(q)], blk'[Other(q)])
  BY <1>1, <1>6, <1>10, <1>11
<1> QED
  BY <1>6, <1>12, <1>13 DEF FlowInv

\* A fault on the line brings no block that was not there.
LEMMA FlowOfNoise ==
    ASSUME TypeOK, FlowInv, Noise
    PROVE  FlowInv'
<1> DEFINE Left(p, i, d) == SubSeq(buf[p], 1, i - 1) \o d
                            \o SubSeq(buf[p], i + 1, Len(buf[p]))
<1>1. PICK p \in Peers :
        \E i \in 1..Len(buf[p]) : \E d \in Damage(buf[p][i]) :
            buf' = [buf EXCEPT ![p] = Left(p, i, d)]
  BY NoiseType
<1>2. PICK i \in 1..Len(buf[p]) : \E d \in Damage(buf[p][i]) :
            buf' = [buf EXCEPT ![p] = Left(p, i, d)]
  BY <1>1
<1>3. PICK d \in Damage(buf[p][i]) : buf' = [buf EXCEPT ![p] = Left(p, i, d)]
  BY <1>2
<1>4. Same
  BY DEF Noise, Same, counters
<1>5. Other(p) \in Peers
  BY DEF Other, Peers
<1>6. Flow(Left(p, i, d), got[p], ReceiveBlkNo[p], put[Other(p)], blk[Other(p)])
  <2>1. /\ buf[p] \in Seq(Items) /\ got[p] \in Seq(Gots)
        /\ ReceiveBlkNo[p] \in Nat
        /\ put[Other(p)] \in Nat /\ blk[Other(p)] \in Blocks
    BY <1>5, FlowArgs
  <2>2. Flow(buf[p], got[p], ReceiveBlkNo[p], put[Other(p)], blk[Other(p)])
    BY DEF FlowInv
  <2> QED
    BY <2>1, <2>2, FlowStruck
<1> HIDE DEF Left
<1>7. ASSUME NEW q \in Peers
      PROVE  Flow(buf'[q], got'[q], ReceiveBlkNo'[q], put'[Other(q)], blk'[Other(q)])
  <2>1. CASE q = p
    BY <2>1, <1>3, <1>4, <1>6 DEF Same, TypeOK
  <2>2. CASE q # p
    BY <2>2, <1>3, <1>4 DEF Same, TypeOK, FlowInv
  <2> QED
    BY <2>1, <2>2
<1> QED
  BY <1>7 DEF FlowInv

\* ReSync empties both buffers, which loses blocks and reorders none.
LEMMA FlowOfReSync ==
    ASSUME TypeOK, FlowInv, ReSync
    PROVE  FlowInv'
<1>1. Same /\ buf' = [p \in Peers |-> << >>]
  BY DEF ReSync, Same, counters
<1>2. ASSUME NEW p \in Peers
      PROVE  Flow(<< >>, got[p], ReceiveBlkNo[p], put[Other(p)], blk[Other(p)])
  <2>1. Other(p) \in Peers
    BY DEF Other, Peers
  <2>2. /\ buf[p] \in Seq(Items) /\ got[p] \in Seq(Gots)
        /\ ReceiveBlkNo[p] \in Nat
        /\ put[Other(p)] \in Nat /\ blk[Other(p)] \in Blocks
    BY <2>1, FlowArgs
  <2>3. Flow(buf[p], got[p], ReceiveBlkNo[p], put[Other(p)], blk[Other(p)])
    BY DEF FlowInv
  <2>4. SubSeq(buf[p], Len(buf[p]) + 1, Len(buf[p])) = << >>
        /\ Len(buf[p]) + 1 \in 1..Len(buf[p]) + 1
    BY <2>2, SubSeqEmpty
  <2> QED
    BY <2>2, <2>3, <2>4, FlowSuffix
<1> QED
  BY <1>1, <1>2 DEF Same, FlowInv

\* Only RemotePut brings a peer into the wait for an answer.
LEMMA SendBegunNext ==
    ASSUME TypeOK, SendBegun, [Next]_vars
    PROVE  SendBegun'
<1>1. ASSUME NEW p \in Peers, NEW body \in Nat, StartSend(p, body)
      PROVE  SendBegun'
  BY <1>1 DEF StartSend, SendBegun, TypeOK
<1>2. CASE Request
  <2>1. put["client"] + 1 \in Nat /\ "client" \in Peers
    BY DEF TypeOK, Peers
  <2> QED
    BY <1>1, <1>2, <2>1 DEF Request
<1>3. CASE Reply
  <2>1. "server" \in Peers
    BY DEF Peers
  <2> QED
    BY <1>1, <1>3, <2>1, ServedType DEF Reply
<1>4. CASE NextRequest
  BY <1>4 DEF NextRequest, SendBegun, TypeOK
<1>5. CASE ReSync
  BY <1>5 DEF ReSync, SendBegun, TypeOK, AfterPut
<1>6. CASE Noise
  BY <1>6 DEF Noise, SendBegun
<1>7. ASSUME NEW p \in Peers, Reads(p)
      PROVE  SendBegun'
  <2>1. CASE AckArrives(p)
    BY <2>1 DEF AckArrives, SendBegun, TypeOK, AfterPut
  <2>2. CASE MessArrives(p)
    BY <2>2 DEF MessArrives, ReadsIn, SendBegun, TypeOK
  <2>3. CASE Accept(p)
    BY <2>3 DEF Accept, SendBegun, TypeOK
  <2>4. CASE NakArrives(p) \/ RlrArrives(p)
    BY <2>4 DEF NakArrives, RlrArrives, SendBegun
  <2>5. CASE Discard(p) \/ TornBlock(p) \/ OversizeBlock(p) \/ HuntOther(p)
    BY <2>5 DEF Discard, TornBlock, OversizeBlock, HuntOther, SendBegun
  <2> QED
    BY <1>7, <2>1, <2>2, <2>3, <2>4, <2>5 DEF Reads
<1>8. ASSUME NEW p \in Peers, Quiet(p)
      PROVE  SendBegun'
  BY <1>8 DEF Quiet, SendBegun, TypeOK
<1>9. ASSUME NEW p \in Peers, GiveUp(p)
      PROVE  SendBegun'
  <2>1. PICK to \in {"app", "stopped", "hunt"} : pc' = [pc EXCEPT ![p] = to]
    BY <1>9 DEF GiveUp
  <2> QED
    BY <1>9, <2>1 DEF GiveUp, SendBegun, TypeOK
<1>10. ASSUME NEW p \in Peers, SyncAlone(p)
       PROVE  SendBegun'
  BY <1>10 DEF SyncAlone, SendBegun
<1>11. CASE UNCHANGED vars
  BY <1>11 DEF vars, SendBegun
<1> QED
  BY <1>2, <1>3, <1>4, <1>5, <1>6, <1>7, <1>8, <1>9, <1>10, <1>11 DEF Next

\* Every step keeps the order of the blocks that are unread, accepted and being
\* sent.
LEMMA FlowNextStep ==
    ASSUME LinkInv, [Next]_vars
    PROVE  FlowInv'
<1> USE DEF LinkInv
<1>1. CASE Request
  <2>1. put["client"] + 1 \in Nat /\ "client" \in Peers
    BY DEF TypeOK, Peers
  <2> QED
    BY <1>1, <2>1, FlowStartSend DEF Request
<1>2. CASE Reply
  <2>1. "server" \in Peers
    BY DEF Peers
  <2> QED
    BY <1>2, <2>1, ServedType, FlowStartSend DEF Reply
<1>3. CASE NextRequest
  BY <1>3 DEF NextRequest, counters, FlowInv
<1>4. CASE ReSync
  BY <1>4, FlowOfReSync
<1>5. CASE Noise
  BY <1>5, FlowOfNoise
<1>6. ASSUME NEW p \in Peers, Reads(p) \/ Quiet(p) \/ SyncAlone(p)
      PROVE  FlowInv'
  <2>1. CASE Accept(p)
    BY <2>1, FlowOfAccept
  <2>2. CASE ~Accept(p)
    <3>1. Same
      BY <1>6, <2>2 DEF Reads, AckArrives, NakArrives, RlrArrives, MessArrives,
            Discard, TornBlock, OversizeBlock, HuntOther, Quiet, SyncAlone,
            counters, Same
    <3>2. PICK mine \in Unread(p), out \in Seq(Items) :
            /\ Exchange(p, mine, out)
            /\ \A i \in 1..Len(out) : BlockAt(out, i) =>
                    out[i] = blk[p] /\ pc[p] = "send"
      BY <1>6, StepType
    <3>3. pc[p] = "send" => put[p] > 0
      BY DEF SendBegun
    <3> QED
      BY <3>1, <3>2, <3>3, FlowSame
  <2> QED
    BY <2>1, <2>2
<1>7. ASSUME NEW p \in Peers, GiveUp(p)
      PROVE  FlowInv'
  BY <1>7 DEF GiveUp, counters, FlowInv
<1>8. CASE UNCHANGED vars
  BY <1>8 DEF vars, FlowInv
<1> QED
  BY <1>1, <1>2, <1>3, <1>4, <1>5, <1>6, <1>7, <1>8 DEF Next

\* The invariant holds after RemoteConnect.
LEMMA LinkInit ==
    ASSUME Init PROVE LinkInv
<1>1. TypeOK
  BY InitType
<1>2. SendBegun
  BY DEF Init, SendBegun
<1>3. ASSUME NEW p \in Peers
      PROVE  Flow(buf[p], got[p], ReceiveBlkNo[p], put[Other(p)], blk[Other(p)])
  <2>1. Other(p) \in Peers
    BY DEF Other, Peers
  <2>2. buf[p] = << >> /\ got[p] = << >> /\ put[Other(p)] = 0
        /\ blk[Other(p)].id = 0
    BY <2>1 DEF Init
  <2> QED
    BY <2>2 DEF Flow, GotOnce, NewerThanGot, InCallOrder
<1> QED
  BY <1>1, <1>2, <1>3 DEF LinkInv, FlowInv

\* Under the invariant no block has been accepted twice or out of order.
LEMMA LinkInvImplies ==
    ASSUME LinkInv PROVE InOrderOnce
BY DEF LinkInv, FlowInv, Flow, GotOnce, InOrderOnce

\* Whatever the line loses, damages or delays, and however often a peer sends
\* again or gives up, no block reaches the caller of RemoteGet twice or out of
\* order, and none that was not put: for any width of the block numbers of at
\* least two values, any MAX_ERRORS, and without any bound on the faults.
THEOREM DeliveredInOrderOnce == Spec => []InOrderOnce
<1>1. Init => LinkInv
  BY LinkInit
<1>2. LinkInv /\ [Next]_vars => LinkInv'
  BY NextType, SendBegunNext, FlowNextStep DEF LinkInv
<1>3. LinkInv => InOrderOnce
  BY LinkInvImplies
<1> QED
  BY <1>1, <1>2, <1>3, PTL DEF Spec

-------------------------------------------------------------------------------
(***************************************************************************)
(* One fault.  The peers, and what a step leaves of the histories.         *)
(***************************************************************************)
LEMMA PeersAre ==
    ASSUME NEW a \in Peers
    PROVE  /\ Other(a) \in Peers /\ Other(a) # a /\ Other(Other(a)) = a
           /\ \A c \in Peers : c = a \/ c = Other(a)
BY DEF Peers, Other

LEMMA ExchangeIs ==
    ASSUME TypeOK, NEW a \in Peers, NEW mine, NEW out, Exchange(a, mine, out)
    PROVE  buf'[a] = mine /\ buf'[Other(a)] = buf[Other(a)] \o out
BY PeersAre DEF Exchange, TypeOK

LEMMA ItemKinds ==
    ASSUME TypeOK
    PROVE  /\ \A k : Ctl(k).kind = k
           /\ \A a \in Peers : blk[a].kind = "STX"
           /\ \A x \in Ruined : x.kind \in {"junk", "torn", "toolong"}
BY DEF Ctl, TypeOK, Blocks, Ruined

\* What a step does that neither sends a new block nor accepts one nor reads an ACK.
Still == UNCHANGED <<SendBlkNo, ReceiveBlkNo, PrevErrors, blk, put, sent, got>>

LEMMA StillKeeps ==
    ASSUME Still, NEW a \in Peers
    PROVE  /\ Settled(a) => Settled(a)'
           /\ Open(a) => Open(a)'
           /\ Taken(a) /\ LastResponse'[Other(a)] \in {"ACK", LastResponse[Other(a)]} => Taken(a)'
           /\ LastTurn(a) => LastTurn(a)'
BY DEF Still, Settled, Open, Taken, Sending, LastTurn, Numbered

LEMMA StillHistories ==
    ASSUME Still, Histories, noise' # 0 \/ (noise = 0 /\ Errors' = Errors)
    PROVE  Histories'
BY DEF Still, Histories, GotAll

\* The phase of a peer, by where it is.
LEMMA AtSend ==
    ASSUME FaultInv, NEW a \in Peers, pc[a] \in {"send", "drain"}
    PROVE  \/ Asking(a) \/ Working(a) \/ Crossing(a) \/ Syncing(a)
           \/ Crossing(Other(a))
BY PeersAre DEF FaultInv, Phase, Between, Asking, Working, Crossing, Syncing

LEMMA AtHunt ==
    ASSUME FaultInv, NEW a \in Peers, pc[a] = "hunt"
    PROVE  Between(Other(a)) \/ Asking(Other(a))
BY PeersAre DEF FaultInv, Phase, Between, Asking, Working, Crossing, Syncing

LEMMA AtApp ==
    ASSUME FaultInv, NEW a \in Peers, pc[a] = "app"
    PROVE  Between(a) \/ Working(Other(a))
BY PeersAre DEF FaultInv, Phase, Between, Asking, Working, Crossing, Syncing

LEMMA AtSync ==
    ASSUME FaultInv, NEW a \in Peers, pc[a] \in {"putsync", "getsync"}
    PROVE  \/ pc[a] = "getsync" /\ Syncing(Other(a))
           \/ pc[a] = "putsync" /\ Syncing(a)
BY PeersAre DEF FaultInv, Phase, Between, Asking, Working, Crossing, Syncing

\* What a peer that waits for an answer can read.
LEMMA CanRead ==
    ASSUME FaultInv, NEW a \in Peers, pc[a] = "send", buf[a] # << >>
    PROVE  \/ Head(buf[a]).kind = "ACK" /\ Working(a) /\ buf[a] = <<Ctl("ACK")>> /\ buf[Other(a)] = << >>
           \/ Head(buf[a]).kind = "ACK" /\ Syncing(a)
           \/ /\ Head(buf[a]).kind = "ACK" /\ Crossing(a) /\ buf[Other(a)] = << >>
              /\ \/ buf[a] = <<Ctl("ACK"), blk[Other(a)]>>
                 \/ noise # 0 /\ buf[a] = <<Ctl("ACK")>>
                 \/ noise # 0 /\ \E x \in Ruined : buf[a] = <<Ctl("ACK"), x>>
           \/ Head(buf[a]).kind = "NAK" /\ noise # 0 /\ Asking(a) /\ buf[a] = <<Ctl("NAK")>> /\ buf[Other(a)] = << >>
           \/ /\ Head(buf[a]).kind = "RLR" /\ noise # 0 /\ Crossing(Other(a))
              /\ OnlyRlr(buf[a])
           \/ /\ Head(buf[a]).kind \notin {"ACK", "NAK", "RLR"} /\ noise # 0
              /\ \/ Working(a) /\ buf[a] = <<Ctl("junk")>> /\ buf[Other(a)] = << >>
                 \/ Crossing(a) /\ OnlyRlr(buf[Other(a)])
<1>1. TypeOK  BY DEF FaultInv
<1>2. CASE Asking(a)  BY <1>1, <1>2, ItemKinds DEF Asking, OnItsWay
<1>3. CASE Working(a)
  <2>1. ASSUME OnlyRlr(buf[a]) PROVE Head(buf[a]) = Ctl("RLR")
    BY <1>1, <2>1 DEF OnlyRlr, TypeOK
  <2> QED  BY <1>1, <1>3, ItemKinds DEF Working, AckOnItsWay
<1>4. CASE Crossing(a)  BY <1>1, <1>4, ItemKinds DEF Crossing, BothOnTheWay
<1>5. CASE Syncing(a)  BY <1>1, <1>5, ItemKinds DEF Syncing
<1>6. CASE Crossing(Other(a))
  <2>1. OnlyRlr(buf[a]) /\ noise # 0
    BY <1>6, PeersAre DEF Crossing, BothOnTheWay, OnlyRlr
  <2>2. Head(buf[a]) = Ctl("RLR")
    BY <1>1, <2>1 DEF OnlyRlr, TypeOK
  <2> QED  BY <1>1, <1>6, <2>1, <2>2, ItemKinds
<1> QED  BY <1>2, <1>3, <1>4, <1>5, <1>6, AtSend

LEMMA Pair == ASSUME NEW x, NEW y PROVE <<x>> \o <<y>> = <<x, y>>
<1> DEFINE u == <<x>> \o <<y>>
           v == <<x, y>>
<1>1. u \in Seq({x, y}) /\ Len(u) = 2 /\ u[1] = x /\ u[2] = y  OBVIOUS
<1>2. v \in Seq({x, y}) /\ Len(v) = 2 /\ v[1] = x /\ v[2] = y  OBVIOUS
<1> HIDE DEF u, v
<1>3. \A i \in 1..Len(u) : u[i] = v[i]  BY <1>1, <1>2
<1>4. u = v  BY <1>1, <1>2, <1>3, SeqEqual
<1> QED  BY <1>4 DEF u, v

\* What a step is to keep.
Kept == Histories' /\ \E c \in Peers : Phase(c)'

LEMMA NakKeeps ==
    ASSUME FaultInv, NEW a \in Peers, NakArrives(a)
    PROVE  Kept
<1>1. TypeOK /\ Histories  BY DEF FaultInv
<1>2. noise # 0 /\ Asking(a) /\ buf[a] = <<Ctl("NAK")>> /\ buf[Other(a)] = << >>
  BY CanRead DEF NakArrives, ReadsIn
<1>3. Still /\ noise' = noise /\ pc' = pc  BY DEF NakArrives, Still, counters
<1>4. buf'[a] = << >> /\ buf'[Other(a)] = <<blk[a]>>
  <2>1. Exchange(a, Tail(buf[a]), <<blk[a]>>)  BY DEF NakArrives, Resend
  <2> QED  BY <1>1, <1>2, <2>1, ExchangeIs
<1>5. Asking(a)'
  <2>1. OnItsWay(buf[a], buf[Other(a)], blk[a])'  BY <1>3, <1>4 DEF OnItsWay, Still
  <2>2. Open(a)' /\ Settled(Other(a))' /\ LastTurn(a)'  BY <1>2, <1>3, StillKeeps, PeersAre DEF Asking
  <2> QED  BY <1>2, <1>3, <2>1, <2>2 DEF Asking
<1> QED  BY <1>1, <1>2, <1>3, <1>5, StillHistories DEF Kept, Phase

LEMMA RlrKeeps ==
    ASSUME FaultInv, NEW a \in Peers, RlrArrives(a)
    PROVE  Kept
<1> DEFINE c == Other(a)
<1>0. c \in Peers /\ Other(c) = a  BY PeersAre
<1>1. TypeOK /\ Histories  BY DEF FaultInv
<1>2. noise # 0 /\ Crossing(c) /\ OnlyRlr(buf[a]) /\ buf[a] # << >>
  BY CanRead DEF RlrArrives, ReadsIn
<1>3. Still /\ noise' = noise /\ pc' = pc /\ LastResponse' = LastResponse  BY DEF RlrArrives, Still, counters
<1>4. LastResponse[a] = "ACK"  BY <1>0, <1>2 DEF Crossing, Taken
<1>5. buf'[a] = Tail(buf[a]) /\ buf'[c] = buf[c] \o <<Ctl("ACK"), blk[a]>>
  <2>0. <<Ctl(LastResponse[a])>> \o Resend(a) = <<Ctl("ACK"), blk[a]>>  BY <1>4, Pair DEF Resend
  <2>1. Exchange(a, Tail(buf[a]), <<Ctl("ACK"), blk[a]>>)  BY <2>0 DEF RlrArrives
  <2> QED  BY <1>1, <2>1, ExchangeIs
<1>6. OnlyRlr(Tail(buf[a]))
  <2>1. buf[a] \in Seq(Controls \cup Blocks)  BY <1>1 DEF TypeOK
  <2> QED  BY <1>2, <2>1 DEF OnlyRlr
<1>7. buf[c] \in Seq(Controls \cup Blocks)  BY <1>0, <1>1 DEF TypeOK
<1>8. BothOnTheWay(buf[c], buf[a], pc[c], blk[a])'
  <2>1. CASE pc[c] = "drain"  BY <1>2, <1>3, <1>5, <1>6, <2>1 DEF BothOnTheWay
  <2>2. CASE pc[c] = "send" /\ buf[c] # << >>
    <3>1. Head(buf[c]).kind \notin {"ACK", "NAK", "RLR"}
      BY <1>0, <1>2, <2>2 DEF Crossing, BothOnTheWay
    <3>2. buf'[c] # << >> /\ Head(buf'[c]) = Head(buf[c])  BY <1>5, <1>7, <2>2
    <3> QED  BY <1>2, <1>3, <1>5, <1>6, <2>2, <3>1, <3>2 DEF BothOnTheWay
  <2>3. CASE pc[c] = "send" /\ buf[c] = << >>
    <3>1. buf[a] = <<Ctl("RLR")>>
      BY <1>0, <1>2, <2>3 DEF Crossing, BothOnTheWay
    <3>2. buf'[a] = << >> /\ buf'[c] = <<Ctl("ACK"), blk[a]>>  BY <1>5, <2>3, <3>1
    <3> QED  BY <1>3, <2>3, <3>2 DEF BothOnTheWay, Still
  <2> QED  BY <1>2, <2>1, <2>2, <2>3 DEF Crossing
<1>9. Crossing(c)'
  <2>1. Taken(c)' /\ Open(a)' /\ LastTurn(a)'  BY <1>0, <1>2, <1>3, StillKeeps DEF Crossing
  <2>2. PrevErrors' = PrevErrors  BY <1>3 DEF Still
  <2> QED  BY <1>0, <1>2, <1>3, <1>8, <2>1, <2>2 DEF Crossing
<1> QED  BY <1>0, <1>1, <1>2, <1>3, <1>9, StillHistories DEF Kept, Phase

\* A peer in the draining loop.
LEMMA Draining ==
    ASSUME FaultInv, NEW a \in Peers, pc[a] = "drain"
    PROVE  \/ noise # 0 /\ Working(a) /\ buf[a] = << >> /\ OnlyRlr(buf[Other(a)])
           \/ noise # 0 /\ Crossing(a) /\ OnlyRlr(buf[Other(a)])
<1>1. Working(a) \/ Crossing(a)  BY AtSend, PeersAre DEF Asking, Syncing, Crossing
<1> QED  BY <1>1 DEF Working, AckOnItsWay, Crossing, BothOnTheWay

LEMMA MessKeeps ==
    ASSUME FaultInv, NEW a \in Peers, MessArrives(a)
    PROVE  Kept
<1> DEFINE c == Other(a)
<1>0. c \in Peers /\ Other(c) = a  BY PeersAre
<1>1. TypeOK /\ Histories  BY DEF FaultInv
<1>2. \/ noise # 0 /\ Working(a) /\ buf[a] = <<Ctl("junk")>> /\ buf[c] = << >>
      \/ noise # 0 /\ Crossing(a) /\ OnlyRlr(buf[c])
  <2>1. CASE pc[a] = "drain"  BY <2>1, Draining DEF MessArrives, ReadsIn
  <2>2. CASE ReadsIn(a, "send", {"STX", "junk", "torn", "toolong"})
    BY <2>2, CanRead DEF ReadsIn
  <2> QED  BY <2>1, <2>2 DEF MessArrives
<1>3. Still /\ noise' = noise /\ LastResponse' = LastResponse /\ pc'[a] = "drain" /\ pc'[c] = pc[c]
  BY <1>0, <1>1, PeersAre DEF MessArrives, Still, counters, TypeOK
<1>4. buf'[a] = Tail(buf[a]) /\ buf'[c] = buf[c]
  <2>1. Exchange(a, Tail(buf[a]), << >>) /\ buf[c] \in Seq(Controls \cup Blocks)
    BY <1>0, <1>1 DEF MessArrives, TypeOK
  <2> QED  BY <1>1, <2>1, ExchangeIs
<1>5. PrevErrors' = PrevErrors /\ blk' = blk  BY <1>3 DEF Still
<1>6. CASE Working(a) /\ buf[a] = <<Ctl("junk")>> /\ buf[c] = << >>
  <2>1. Taken(a)' /\ Settled(c)' /\ LastTurn(a)'  BY <1>0, <1>3, <1>6, StillKeeps DEF Working
  <2>2. buf'[a] = << >> /\ OnlyRlr(buf'[c])  BY <1>4, <1>6 DEF OnlyRlr
  <2>3. Working(a)'  BY <1>2, <1>3, <1>5, <1>6, <2>1, <2>2 DEF Working, AckOnItsWay
  <2> QED  BY <1>1, <1>2, <1>3, <2>3, StillHistories DEF Kept, Phase
<1>7. CASE Crossing(a) /\ OnlyRlr(buf[c])
  <2>1. Taken(a)' /\ Open(c)' /\ LastTurn(c)'  BY <1>0, <1>3, <1>7, StillKeeps DEF Crossing
  <2>3. Crossing(a)'  BY <1>2, <1>3, <1>4, <1>5, <1>7, <2>1 DEF Crossing, BothOnTheWay
  <2> QED  BY <1>1, <1>2, <1>3, <2>3, StillHistories DEF Kept, Phase
<1> QED  BY <1>2, <1>6, <1>7

\* A wait times out only when something has been lost.
LEMMA Silent ==
    ASSUME FaultInv, OneFault, NEW a \in Peers, pc[a] \in {"send", "drain"}, Silence(a)
    PROVE  /\ noise # 0 /\ buf[a] = << >>
           /\ \/ Asking(a) /\ buf[Other(a)] = << >>
              \/ Working(a) /\ OnlyRlr(buf[Other(a)])
              \/ Crossing(a) /\ buf[Other(a)] = << >>
              \/ Crossing(Other(a)) /\ buf[Other(a)] = << >> /\ pc[Other(a)] = "send" /\ RcvCap = 0
<1>1. /\ buf[a] = << >>
      /\ buf[Other(a)] = << >> \/ pc[Other(a)] \notin {"send", "drain", "hunt"}
      /\ pc[a] = "drain" \/ pc[Other(a)] # "drain"
  BY DEF Silence, OneFault
<1>2. CASE Asking(a)
  <2>1. buf[Other(a)] = << >>  BY <1>1, <1>2 DEF Asking
  <2>2. OnItsWay(<< >>, << >>, blk[a])  BY <1>1, <1>2, <2>1 DEF Asking
  <2>3. noise # 0  BY <2>2 DEF OnItsWay
  <2> QED  BY <1>1, <1>2, <2>1, <2>3
<1>3. CASE Working(a)  BY <1>1, <1>3 DEF Working, AckOnItsWay
<1>4. CASE Crossing(a)  BY <1>1, <1>4 DEF Crossing, BothOnTheWay
<1>5. CASE Syncing(a)  BY <1>1, <1>5 DEF Syncing
<1>6. CASE Crossing(Other(a))  BY <1>1, <1>6, PeersAre DEF Crossing, BothOnTheWay
<1> QED  BY <1>2, <1>3, <1>4, <1>5, <1>6, AtSend

LEMMA RlrsGrow ==
    ASSUME NEW s \in Seq(Items), OnlyRlr(s)
    PROVE  OnlyRlr(s \o <<Ctl("RLR")>>) /\ OnlyRlr(s \o << >>)
<1>1. s \o << >> = s  BY ConcatEmptySeq
<1>2. /\ Len(s \o <<Ctl("RLR")>>) = Len(s) + 1 /\ Len(s) \in Nat
      /\ \A i \in 1..Len(s) : (s \o <<Ctl("RLR")>>)[i] = s[i]
      /\ (s \o <<Ctl("RLR")>>)[Len(s) + 1] = Ctl("RLR")
  OBVIOUS
<1> DEFINE t == s \o <<Ctl("RLR")>>
<1> HIDE DEF t
<1>3. \A i \in 1..Len(t) : i \in 1..Len(s) \/ i = Len(s) + 1  BY <1>2 DEF t
<1>4. OnlyRlr(t)  BY <1>2, <1>3 DEF OnlyRlr, t
<1> QED  BY <1>1, <1>4 DEF t

LEMMA QuietKeeps ==
    ASSUME FaultInv, OneFault, NEW a \in Peers, Quiet(a)
    PROVE  Kept
<1> DEFINE c == Other(a)
           out == IF Len(buf[c]) < RcvCap THEN <<Ctl("RLR")>> ELSE << >>
<1>0. c \in Peers /\ Other(c) = a  BY PeersAre
<1>1. TypeOK /\ Histories  BY DEF FaultInv
<1>2. /\ noise # 0 /\ buf[a] = << >>
      /\ \/ Asking(a) /\ buf[c] = << >>
         \/ Working(a) /\ OnlyRlr(buf[c])
         \/ Crossing(a) /\ buf[c] = << >>
         \/ Crossing(c) /\ buf[c] = << >> /\ pc[c] = "send" /\ RcvCap = 0
  BY Silent DEF Quiet
<1>3. Still /\ noise' = noise /\ LastResponse' = LastResponse /\ pc'[a] = "send" /\ pc'[c] = pc[c]
  BY <1>0, <1>1, PeersAre DEF Quiet, Still, counters, TypeOK
<1>4. buf'[a] = << >> /\ buf'[c] = buf[c] \o out
  BY <1>1, ExchangeIs DEF Quiet
<1>5. PrevErrors' = PrevErrors /\ blk' = blk  BY <1>3 DEF Still
<1>6. Histories'  BY <1>1, <1>2, <1>3, StillHistories
<1>7. out \in {<< >>, <<Ctl("RLR")>>} /\ buf[c] \in Seq(Controls \cup Blocks) /\ RcvCap \in Nat
  BY <1>0, <1>1, LinkAssumption DEF TypeOK
<1>8. buf[c] = << >> => buf'[c] = IF RcvCap = 0 THEN << >> ELSE <<Ctl("RLR")>>
  BY <1>4, <1>7
<1> HIDE DEF out
<1>9. CASE Asking(a) /\ buf[c] = << >>
  <2>1. Open(a)' /\ Settled(c)' /\ LastTurn(a)'  BY <1>0, <1>3, <1>9, StillKeeps DEF Asking
  <2>2. OnItsWay(buf[a], buf[c], blk[a])'  BY <1>2, <1>3, <1>4, <1>8, <1>9 DEF OnItsWay
  <2>3. Asking(a)'  BY <1>3, <1>9, <2>1, <2>2 DEF Asking
  <2> QED  BY <1>6, <2>3 DEF Kept, Phase
<1>10. CASE Working(a) /\ OnlyRlr(buf[c])
  <2>1. Taken(a)' /\ Settled(c)' /\ LastTurn(a)'  BY <1>0, <1>3, <1>10, StillKeeps DEF Working
  <2>2. OnlyRlr(buf'[c])
    <3>1. buf[c] \in Seq(Items)  BY <1>7 DEF Items
    <3> QED  BY <1>4, <1>7, <1>10, <3>1, RlrsGrow
  <2>3. Working(a)'  BY <1>2, <1>3, <1>4, <1>5, <1>10, <2>1, <2>2 DEF Working, AckOnItsWay
  <2> QED  BY <1>6, <2>3 DEF Kept, Phase
<1>11. CASE Crossing(a) /\ buf[c] = << >>
  <2>1. Taken(a)' /\ Open(c)' /\ LastTurn(c)'  BY <1>0, <1>3, <1>11, StillKeeps DEF Crossing
  <2>2. Crossing(a)'  BY <1>2, <1>3, <1>4, <1>5, <1>8, <1>11, <2>1 DEF Crossing, BothOnTheWay
  <2> QED  BY <1>6, <2>2 DEF Kept, Phase
<1>12. CASE Crossing(c) /\ buf[c] = << >> /\ pc[c] = "send" /\ RcvCap = 0
  <2>1. Taken(c)' /\ Open(a)' /\ LastTurn(a)'  BY <1>0, <1>3, <1>12, StillKeeps DEF Crossing
  <2>2. Crossing(c)'  BY <1>0, <1>2, <1>3, <1>4, <1>5, <1>8, <1>12, <2>1 DEF Crossing, BothOnTheWay
  <2> QED  BY <1>0, <1>6, <2>2 DEF Kept, Phase
<1> QED  BY <1>2, <1>9, <1>10, <1>11, <1>12

\* The number of a block fits in its bytes.
LEMMA PutBound ==
    ASSUME FaultInv, NEW a \in Peers
    PROVE  put[a] \in Nat /\ put[a] <= MaxRequests
<1>1. put["client"] \in Nat /\ put["server"] \in Nat /\ put["client"] <= MaxRequests /\ MaxRequests \in Nat
  BY LinkAssumption DEF FaultInv, TypeOK, Histories, Peers
<1>2. PICK p \in Peers : Phase(p)  BY DEF FaultInv
<1>3. LastTurn(p) \/ LastTurn(Other(p))
  BY <1>2 DEF Phase, Between, Asking, Working, Crossing, Syncing
<1>4. put["server"] <= put["client"]  BY <1>1, <1>3 DEF LastTurn
<1> QED  BY <1>1, <1>4 DEF Peers

LEMMA NoWrap ==
    ASSUME FaultInv, OneFault, NEW a \in Peers, Numbered(a, put[a])
    PROVE  /\ Wire(SendBlkNo[a]) = SendBlkNo[a]
           /\ CtrMod = WireMod \/ Succ(SendBlkNo[a]) = put[a] + 1
<1>1. /\ put[a] \in Nat /\ put[a] <= MaxRequests /\ MaxRequests \in Nat
      /\ WireMod \in Nat /\ CtrMod \in Nat /\ 2 <= WireMod /\ WireMod <= CtrMod
      /\ SendBlkNo[a] \in 0..CtrMod-1
  BY PutBound, LinkAssumption DEF FaultInv, TypeOK
<1>2. SendBlkNo[a] \in 0..WireMod-1  BY <1>1 DEF OneFault, Numbered
<1>3. Wire(SendBlkNo[a]) = SendBlkNo[a]
  <2> DEFINE n == SendBlkNo[a]
  <2>1. n \in Nat /\ n < WireMod  BY <1>1, <1>2
  <2> HIDE DEF n
  <2>2. n % WireMod = n  BY <1>1, <2>1
  <2> QED  BY <2>2 DEF n, Wire
<1>4. CtrMod = WireMod \/ Succ(SendBlkNo[a]) = put[a] + 1  BY <1>1 DEF OneFault, Numbered, Succ
<1> QED  BY <1>3, <1>4

LEMMA AckSettles ==
    ASSUME FaultInv, OneFault, NEW a \in Peers, AckArrives(a), Taken(a)
    PROVE  /\ Settled(a)' /\ Histories'
           /\ Settled(Other(a)) => Settled(Other(a))'
           /\ Open(Other(a)) => Open(Other(a))'
           /\ LastTurn(a) => LastTurn(a)'
           /\ LastTurn(Other(a)) => LastTurn(Other(a))'
           /\ pc'[Other(a)] = pc[Other(a)]
           /\ pc'[a] = IF PrevErrors[a] > MAX_ERRORS THEN "putsync" ELSE "hunt"
<1> DEFINE c == Other(a)
<1>0. c \in Peers /\ c # a /\ Other(c) = a  BY PeersAre
<1>1. TypeOK /\ Histories  BY DEF FaultInv
<1>2. UNCHANGED <<ReceiveBlkNo, LastResponse, Errors, PrevErrors, blk, put, got, noise>>
  BY DEF AckArrives
<1>3. /\ SendBlkNo'[a] = Succ(SendBlkNo[a]) /\ SendBlkNo'[c] = SendBlkNo[c]
      /\ sent'[a] = sent[a] \cup {put[a]} /\ sent'[c] = sent[c]
      /\ pc'[c] = pc[c]
      /\ pc'[a] = IF PrevErrors[a] > MAX_ERRORS THEN "putsync" ELSE AfterPut(a)
  BY <1>0, <1>1 DEF AckArrives, TypeOK
<1>4. AfterPut(a) = "hunt"  BY DEF AfterPut, OneFault
<1>5. Sending(a) /\ put[a] \in Nat  BY <1>1 DEF Taken, TypeOK
<1>6. Settled(a)'
  <2>1. sent'[a] = 1..put[a]  BY <1>3, <1>5 DEF Sending
  <2>2. CtrMod = WireMod \/ SendBlkNo'[a] = put[a] + 1  BY <1>3, <1>5, NoWrap DEF Sending
  <2> QED  BY <1>2, <1>3, <2>1, <2>2 DEF Settled, Taken, Numbered
<1>7. Histories'  BY <1>1, <1>2 DEF Histories, GotAll
<1>8. (Settled(c) => Settled(c)') /\ (Open(c) => Open(c)')
  BY <1>2, <1>3 DEF Settled, Open, Sending, Numbered
<1>9. (LastTurn(a) => LastTurn(a)') /\ (LastTurn(c) => LastTurn(c)')  BY <1>2 DEF LastTurn
<1> QED  BY <1>3, <1>4, <1>6, <1>7, <1>8, <1>9

LEMMA AckKeeps ==
    ASSUME FaultInv, OneFault, NEW a \in Peers, AckArrives(a)
    PROVE  Kept
<1> DEFINE c == Other(a)
<1>0. c \in Peers /\ c # a /\ Other(c) = a  BY PeersAre
<1>1. TypeOK /\ Histories /\ PrevErrors[a] \in 0..MAX_ERRORS+1 /\ MAX_ERRORS \in Nat
  BY LinkAssumption DEF FaultInv, TypeOK
<1>2. pc[a] = "send" /\ buf[a] # << >> /\ Head(buf[a]).kind = "ACK"  BY DEF AckArrives, ReadsIn
<1>3. noise' = noise /\ blk' = blk /\ PrevErrors' = PrevErrors  BY DEF AckArrives
<1>4. buf'[a] = Tail(buf[a]) /\ buf'[c] = buf[c]
  <2>1. Exchange(a, Tail(buf[a]), << >>) /\ buf[c] \in Seq(Controls \cup Blocks)
    BY <1>0, <1>1 DEF AckArrives, TypeOK
  <2> QED  BY <1>1, <2>1, ExchangeIs
<1>5. CASE Working(a) /\ buf[a] = <<Ctl("ACK")>> /\ buf[c] = << >>
  <2>1. Taken(a) /\ ~(PrevErrors[a] > MAX_ERRORS)  BY <1>1, <1>5 DEF Working
  <2>2. Between(c)'  BY <1>0, <1>4, <1>5, <2>1, AckSettles DEF Between, Working
  <2> QED  BY <1>0, <2>1, <2>2, AckSettles DEF Kept, Phase
<1>6. CASE Syncing(a)
  <2>1. /\ Taken(a) /\ PrevErrors[a] > MAX_ERRORS /\ buf[a] = <<Ctl("ACK")>> /\ buf[c] = << >>
        /\ pc[c] = "getsync" /\ Settled(c) /\ LastTurn(a) /\ noise # 0
    BY <1>2, <1>6 DEF Syncing
  <2>2. Syncing(a)'  BY <1>3, <1>4, <2>1, AckSettles DEF Syncing
  <2> QED  BY <2>1, <2>2, AckSettles DEF Kept, Phase
<1>7. CASE /\ Crossing(a) /\ buf[c] = << >>
           /\ \/ buf[a] = <<Ctl("ACK"), blk[c]>>
              \/ noise # 0 /\ buf[a] = <<Ctl("ACK")>>
              \/ noise # 0 /\ \E x \in Ruined : buf[a] = <<Ctl("ACK"), x>>
  <2>1. Taken(a) /\ ~(PrevErrors[a] > MAX_ERRORS) /\ pc[c] = "send" /\ Open(c) /\ LastTurn(c)
    BY <1>1, <1>7 DEF Crossing
  <2>2. OnItsWay(buf[c], buf[a], blk[c])'
    <3>1. CASE buf[a] = <<Ctl("ACK"), blk[c]>>
      <4>1. buf'[a] = <<blk[c]>>  BY <1>4, <3>1
      <4> QED  BY <1>3, <1>4, <1>7, <4>1 DEF OnItsWay
    <3>2. CASE noise # 0 /\ buf[a] = <<Ctl("ACK")>>
      <4>1. buf'[a] = << >>  BY <1>4, <3>2
      <4> QED  BY <1>3, <1>4, <1>7, <3>2, <4>1 DEF OnItsWay
    <3>3. ASSUME noise # 0, NEW x \in Ruined, buf[a] = <<Ctl("ACK"), x>> PROVE OnItsWay(buf[c], buf[a], blk[c])'
      <4>1. buf'[a] = <<x>>  BY <1>4, <3>3
      <4> QED  BY <1>3, <1>4, <1>7, <3>3, <4>1 DEF OnItsWay
    <3> QED  BY <1>7, <3>1, <3>2, <3>3
  <2>3. Asking(c)'  BY <1>0, <2>1, <2>2, AckSettles DEF Asking
  <2> QED  BY <1>0, <2>1, <2>3, AckSettles DEF Kept, Phase
<1> QED  BY <1>2, <1>5, <1>6, <1>7, CanRead

\* What a peer that hunts for a block can read.
LEMMA CanHunt ==
    ASSUME FaultInv, NEW a \in Peers, pc[a] = "hunt", buf[a] # << >>
    PROVE  /\ Asking(Other(a)) /\ buf[Other(a)] = << >>
           /\ \/ buf[a] = <<blk[Other(a)]>> /\ Head(buf[a]).kind = "STX"
              \/ noise # 0 /\ Len(buf[a]) = 1 /\ Head(buf[a]).kind \in {"junk", "torn", "toolong", "RLR"}
<1> DEFINE c == Other(a)
<1>0. c \in Peers /\ Other(c) = a  BY PeersAre
<1>1. TypeOK  BY DEF FaultInv
<1>2. Asking(c)  BY <1>0, AtHunt DEF Between
<1>3. /\ buf[c] = << >>
      /\ \/ buf[a] = <<blk[c]>>
         \/ noise # 0 /\ \E x \in Ruined \cup {Ctl("RLR")} : buf[a] = <<x>>
  BY <1>0, <1>2 DEF Asking, OnItsWay
<1>4. CASE buf[a] = <<blk[c]>>
  <2>1. Head(buf[a]) = blk[c]  BY <1>4
  <2> QED  BY <1>0, <1>1, <1>2, <1>3, <1>4, <2>1, ItemKinds
<1>5. ASSUME noise # 0, NEW x \in Ruined \cup {Ctl("RLR")}, buf[a] = <<x>>
      PROVE  Len(buf[a]) = 1 /\ Head(buf[a]).kind \in {"junk", "torn", "toolong", "RLR"}
  <2>1. Head(buf[a]) = x /\ Len(buf[a]) = 1  BY <1>5
  <2> QED  BY <1>1, <1>5, <2>1, ItemKinds
<1> QED  BY <1>2, <1>3, <1>4, <1>5

\* The block that is not whole, and what is no block.
LEMMA HuntKeeps ==
    ASSUME FaultInv, NEW a \in Peers, TornBlock(a) \/ OversizeBlock(a) \/ HuntOther(a)
    PROVE  Kept
<1> DEFINE c == Other(a)
<1>0. c \in Peers /\ Other(c) = a /\ c # a  BY PeersAre
<1>1. TypeOK /\ Histories  BY DEF FaultInv
<1>2. Asking(c) /\ buf[c] = << >> /\ noise # 0 /\ Len(buf[a]) = 1 /\ buf[a] \in Seq(Controls \cup Blocks)
  <2>1. pc[a] = "hunt" /\ buf[a] # << >> /\ Head(buf[a]).kind # "STX"
    BY DEF TornBlock, OversizeBlock, HuntOther, ReadsIn
  <2> QED  BY <1>1, <2>1, CanHunt DEF TypeOK
<1>3. /\ Still /\ noise' = noise /\ pc' = pc
      /\ LastResponse'[c] = LastResponse[c]
  BY <1>0, <1>1 DEF TornBlock, OversizeBlock, HuntOther, Still, counters, TypeOK
<1>4. buf'[a] = << >> /\ buf'[c] \in {<< >>, <<Ctl("NAK")>>}
  <2>1. \A n \in 1..Len(buf[a]) : SubSeq(buf[a], n + 1, Len(buf[a])) = << >>  BY <1>2
  <2>2. Tail(buf[a]) = << >> /\ AfterClear(<< >>) = << >>
    <3>1. Tail(buf[a]) \in Seq(Controls \cup Blocks) /\ Len(Tail(buf[a])) = 0  BY <1>2
    <3>2. Tail(buf[a]) = << >>  BY <3>1, EmptySeq
    <3> QED  BY <3>2 DEF AfterClear
  <2>3. PICK out \in {<< >>, <<Ctl("NAK")>>} : Exchange(a, << >>, out)
    <3>1. CASE TornBlock(a)  BY <3>1, <2>1 DEF TornBlock
    <3>2. CASE OversizeBlock(a)  BY <3>2, <2>2 DEF OversizeBlock
    <3>3. CASE HuntOther(a)
      <4>1. Exchange(a, << >>, <<Ctl("NAK")>>) \/ Exchange(a, << >>, << >>)
        BY <3>3, <2>2 DEF HuntOther, RlrAnswer
      <4> QED  BY <4>1
    <3> QED  BY <3>1, <3>2, <3>3
  <2>4. buf'[a] = << >> /\ buf'[c] = buf[c] \o out  BY <1>1, <2>3, ExchangeIs
  <2> QED  BY <1>2, <2>4
<1>5. Asking(c)'
  <2>1. Open(c)' /\ Settled(a)' /\ LastTurn(c)'  BY <1>0, <1>2, <1>3, StillKeeps DEF Asking
  <2>2. OnItsWay(buf[c], buf[a], blk[c])'  BY <1>2, <1>3, <1>4 DEF OnItsWay
  <2> QED  BY <1>0, <1>2, <1>3, <2>1, <2>2 DEF Asking
<1> QED  BY <1>0, <1>1, <1>2, <1>3, <1>5, StillHistories DEF Kept, Phase

\* The block that arrives whole is the one the other peer is sending.
LEMMA Arrives ==
    ASSUME FaultInv, OneFault, NEW a \in Peers, ReadsIn(a, "hunt", {"STX"})
    PROVE  /\ Asking(Other(a)) /\ buf[Other(a)] = << >> /\ buf[a] = <<blk[Other(a)]>>
           /\ Head(buf[a]) = blk[Other(a)] /\ Head(buf[a]).no = ReceiveBlkNo[a]
<1> DEFINE c == Other(a)
<1>0. c \in Peers /\ Other(c) = a  BY PeersAre
<1>1. Asking(c) /\ buf[c] = << >> /\ buf[a] = <<blk[c]>>  BY CanHunt DEF ReadsIn
<1>2. Wire(SendBlkNo[c]) = SendBlkNo[c]  BY <1>0, <1>1, NoWrap DEF Asking, Open, Sending
<1> QED  BY <1>0, <1>1, <1>2 DEF Asking, Open, Sending

LEMMA NoDiscard ==
    ASSUME FaultInv, OneFault, NEW a \in Peers
    PROVE  ~Discard(a)
BY Arrives DEF Discard

LEMMA AcceptKeeps ==
    ASSUME FaultInv, OneFault, NEW a \in Peers, Accept(a)
    PROVE  Kept
<1> DEFINE c == Other(a)
           b == blk[c]
           e == [id |-> b.id, body |-> b.body, kept |-> b.err <= MAX_ERRORS]
<1>0. c \in Peers /\ Other(c) = a /\ c # a  BY PeersAre
<1>1. TypeOK /\ Histories /\ PrevErrors[c] \in 0..MAX_ERRORS+1 /\ MAX_ERRORS \in Nat
  BY <1>0, LinkAssumption DEF FaultInv, TypeOK
<1>2. Asking(c) /\ buf[c] = << >> /\ buf[a] = <<b>> /\ Head(buf[a]) = b  BY Arrives DEF Accept
<1>3. /\ UNCHANGED <<SendBlkNo, Errors, PrevErrors, blk, put, sent, noise>>
      /\ LastResponse'[a] = "ACK" /\ LastResponse'[c] = LastResponse[c]
      /\ ReceiveBlkNo'[a] = Succ(ReceiveBlkNo[a]) /\ ReceiveBlkNo'[c] = ReceiveBlkNo[c]
      /\ got'[a] = Append(got[a], e) /\ got'[c] = got[c]
      /\ pc'[a] = (IF b.err > MAX_ERRORS THEN "getsync" ELSE "app") /\ pc'[c] = pc[c]
  BY <1>0, <1>1, <1>2 DEF Accept, TypeOK
<1>4. buf'[a] = << >> /\ buf'[c] = <<Ctl("ACK")>>
  <2>1. Exchange(a, Tail(buf[a]), <<Ctl("ACK")>>)  BY DEF Accept
  <2> QED  BY <1>1, <1>2, <2>1, ExchangeIs
<1>5. /\ b.id = put[c] /\ b.body = put[c] /\ b.err = PrevErrors[c]
      /\ noise = 0 => PrevErrors[c] = 0
      /\ GotAll(a) /\ Open(c) /\ Settled(a) /\ LastTurn(c) /\ put[c] \in Nat
      /\ got[a] \in Seq([id : Nat, body : Nat, kept : BOOLEAN])
  BY <1>0, <1>1, <1>2 DEF Histories, Asking, TypeOK
<1>6. /\ Len(got'[a]) = put[c] /\ \A i \in 1..Len(got'[a]) : got'[a][i].id = i /\ got'[a][i].body = i
  <2>1. Len(got[a]) = put[c] - 1 /\ put[c] > 0  BY <1>0, <1>5 DEF Open, Sending
  <2>2. e.id = put[c] /\ e.body = put[c]  BY <1>5
  <2> HIDE DEF e
  <2>3. /\ Len(got'[a]) = Len(got[a]) + 1 /\ got'[a][Len(got[a]) + 1] = e
        /\ \A i \in 1..Len(got[a]) : got'[a][i] = got[a][i]
    BY <1>3, <1>5
  <2>4. \A i \in 1..put[c] : i = put[c] \/ i \in 1..put[c] - 1  BY <1>5
  <2>5. Len(got'[a]) = put[c]  BY <1>5, <2>1, <2>3
  <2>6. \A i \in 1..put[c] - 1 : got'[a][i].id = i /\ got'[a][i].body = i
    BY <1>5, <2>1, <2>3 DEF GotAll
  <2>7. got'[a][put[c]] = e  BY <1>5, <2>1, <2>3
  <2> QED  BY <2>2, <2>4, <2>5, <2>6, <2>7
<1> HIDE DEF b, e
<1>7. Histories'
  <2>1. \A p \in Peers : GotAll(p)'
    <3>1. GotAll(a)'  BY <1>6 DEF GotAll
    <3>2. GotAll(c)'  BY <1>0, <1>1, <1>3 DEF Histories, GotAll
    <3> QED  BY <3>1, <3>2, PeersAre
  <2> QED  BY <1>1, <1>3, <2>1 DEF Histories
<1>8. Taken(c)'  BY <1>0, <1>3, <1>5, <1>6 DEF Open, Taken, Sending, Numbered
<1>9. Settled(a)' /\ LastTurn(c)'  BY <1>3, <1>5, PeersAre DEF Settled, LastTurn, Numbered
<1>10. CASE b.err > MAX_ERRORS
  <2>1. noise' # 0 /\ PrevErrors'[c] > MAX_ERRORS  BY <1>1, <1>3, <1>5, <1>10
  <2>2. Syncing(c)'  BY <1>0, <1>2, <1>3, <1>4, <1>8, <1>9, <1>10, <2>1 DEF Syncing, Asking
  <2> QED  BY <1>0, <1>7, <2>2 DEF Kept, Phase
<1>11. CASE ~(b.err > MAX_ERRORS)
  <2>1. PrevErrors'[c] <= MAX_ERRORS  BY <1>1, <1>3, <1>5, <1>11
  <2>2. Working(c)'  BY <1>0, <1>2, <1>3, <1>4, <1>8, <1>9, <1>11, <2>1 DEF Working, Asking, AckOnItsWay
  <2> QED  BY <1>0, <1>7, <2>2 DEF Kept, Phase
<1> QED  BY <1>10, <1>11

\* A peer at work puts its next block.
LEMMA StartKeeps ==
    ASSUME FaultInv, OneFault, NEW a \in Peers, pc[a] = "app", StartSend(a, put[a] + 1),
           a = "client" => put[a] < MaxRequests
    PROVE  Kept
<1> DEFINE c == Other(a)
           b == blk'[a]
<1>0. c \in Peers /\ Other(c) = a /\ c # a  BY PeersAre
<1>1. TypeOK /\ Histories /\ put[a] \in Nat /\ put["client"] \in Nat /\ MaxRequests \in Nat
  BY LinkAssumption DEF FaultInv, TypeOK, Peers
<1>2. /\ UNCHANGED <<SendBlkNo, ReceiveBlkNo, LastResponse, sent, got, noise>>
      /\ put'[a] = put[a] + 1 /\ put'[c] = put[c]
      /\ PrevErrors'[a] = Errors[a] /\ PrevErrors'[c] = PrevErrors[c]
      /\ Errors'[a] = 0 /\ Errors'[c] = Errors[c]
      /\ pc'[a] = "send" /\ pc'[c] = pc[c] /\ blk'[c] = blk[c]
      /\ b.no = Wire(SendBlkNo[a]) /\ b.id = put[a] + 1 /\ b.body = put[a] + 1 /\ b.err = Errors[a]
  BY <1>0, <1>1 DEF StartSend, counters, TypeOK
<1>3. buf'[a] = AfterClear(buf[a]) /\ buf'[c] = buf[c] \o <<b>>
  <2>1. Exchange(a, AfterClear(buf[a]), <<b>>)  BY <1>1 DEF StartSend, TypeOK
  <2> QED  BY <1>1, <2>1, ExchangeIs
<1> HIDE DEF b
<1>4. Histories'
  <2>1. \A p \in Peers : GotAll(p)'  BY <1>1, <1>2 DEF Histories, GotAll
  <2>2. put'["client"] <= MaxRequests  BY <1>0, <1>1, <1>2 DEF Peers, Histories
  <2>3. blk'[a].id = put'[a] /\ blk'[a].body = put'[a] /\ blk'[a].err = PrevErrors'[a]  BY <1>2 DEF b
  <2>4. blk'[c].id = put'[c] /\ blk'[c].body = put'[c] /\ blk'[c].err = PrevErrors'[c]
    BY <1>0, <1>1, <1>2 DEF Histories
  <2>5. \A p \in Peers : noise' = 0 => Errors'[p] = 0 /\ PrevErrors'[p] = 0
    BY <1>0, <1>1, <1>2, PeersAre DEF Histories
  <2> QED  BY <2>1, <2>2, <2>3, <2>4, <2>5, PeersAre DEF Histories
<1>5. ASSUME Settled(a) PROVE Open(a)'
  BY <1>0, <1>1, <1>2, <1>5 DEF Settled, Open, Sending, Numbered, b
<1>6. ASSUME LastTurn(c) PROVE LastTurn(a)'
  BY <1>0, <1>1, <1>2, <1>6 DEF LastTurn, Peers, Other
<1>7. CASE Between(a)
  <2>1. Settled(c)'  BY <1>0, <1>2, <1>7 DEF Between, Settled, Numbered
  <2>2. buf'[a] = << >> /\ buf'[c] = <<b>>  BY <1>3, <1>7 DEF Between, AfterClear
  <2>3. Asking(a)'  BY <1>2, <1>5, <1>6, <1>7, <2>1, <2>2 DEF Between, Asking, OnItsWay, b
  <2> QED  BY <1>4, <2>3 DEF Kept, Phase
<1>8. CASE Working(c)
  <2>1. Taken(c)'  BY <1>0, <1>2, <1>8 DEF Working, Taken, Sending, Numbered
  <2>2. Open(a)' /\ LastTurn(a)'  BY <1>0, <1>5, <1>6, <1>8 DEF Working
  <2>3. BothOnTheWay(buf[c], buf[a], pc[c], blk[a])'
    <3>0. AckOnItsWay(buf[c], buf[a], pc[c])  BY <1>0, <1>8 DEF Working
    <3>1. CASE pc[c] = "send" /\ buf[c] = <<Ctl("ACK")>> /\ buf[a] = << >>
      <4>1. buf'[c] = <<Ctl("ACK"), b>> /\ buf'[a] = << >>  BY <1>3, <3>1, Pair DEF AfterClear
      <4> QED  BY <1>2, <3>1, <4>1 DEF BothOnTheWay, b
    <3>2. CASE noise # 0 /\ pc[c] = "send" /\ buf[c] = <<Ctl("junk")>> /\ buf[a] = << >>
      <4>1. buf'[c] = <<Ctl("junk"), b>> /\ buf'[a] = << >>  BY <1>3, <3>2, Pair DEF AfterClear
      <4>2. buf'[c] # << >> /\ Head(buf'[c]) = Ctl("junk") /\ OnlyRlr(buf'[a])  BY <4>1 DEF OnlyRlr
      <4>3. Head(buf'[c]).kind = "junk"  BY <1>1, <4>2, ItemKinds
      <4> QED  BY <1>2, <3>2, <4>2, <4>3 DEF BothOnTheWay
    <3>3. CASE noise # 0 /\ buf[c] = << >> /\ OnlyRlr(buf[a])
      <4>1. buf'[c] = <<b>> /\ OnlyRlr(buf'[a])  BY <1>3, <3>3 DEF AfterClear, OnlyRlr
      <4>2. b.kind = "STX"  BY <1>1 DEF b, StartSend, TypeOK
      <4>3. buf'[c] # << >> /\ Head(buf'[c]) = b  BY <4>1
      <4> QED  BY <1>0, <1>2, <1>8, <3>3, <4>1, <4>2, <4>3 DEF BothOnTheWay, Working
    <3> QED  BY <3>0, <3>1, <3>2, <3>3 DEF AckOnItsWay
  <2>4. Crossing(c)'  BY <1>0, <1>2, <1>8, <2>1, <2>2, <2>3 DEF Working, Crossing
  <2> QED  BY <1>0, <1>4, <2>4 DEF Kept, Phase
<1> QED  BY <1>7, <1>8, AtApp

\* The request that the server has carried out is the one its answer is for.
LEMMA ServedIs ==
    ASSUME FaultInv
    PROVE  Served = Len(got["server"]) /\ LastAnswered = Len(got["client"])
<1>1. ASSUME NEW a \in Peers, got[a] # << >> PROVE got[a][Len(got[a])].body = Len(got[a])
  <2>1. GotAll(a) /\ got[a] \in Seq([id : Nat, body : Nat, kept : BOOLEAN])  BY DEF FaultInv, Histories, TypeOK
  <2>2. Len(got[a]) \in 1..Len(got[a])  BY <1>1, <2>1
  <2> QED  BY <2>1, <2>2 DEF GotAll
<1> QED  BY <1>1 DEF Served, LastAnswered, Peers

LEMMA RequestKeeps ==
    ASSUME FaultInv, OneFault, Request
    PROVE  Kept
BY StartKeeps DEF Request, Peers

LEMMA ReplyKeeps ==
    ASSUME FaultInv, OneFault, Reply
    PROVE  Kept
<1>1. "server" \in Peers /\ Other("server") = "client" /\ Other("client") = "server" /\ "client" \in Peers
  BY DEF Peers, Other
<1>2. Between("server") \/ Working("client")  BY <1>1, AtApp DEF Reply
<1>3. Len(got["server"]) = put["client"] /\ put["client"] = put["server"] + 1
  BY <1>1, <1>2 DEF Between, Working, Settled, Taken, LastTurn
<1>4. StartSend("server", put["server"] + 1)  BY <1>3, ServedIs DEF Reply
<1> QED  BY <1>1, <1>4, StartKeeps DEF Reply

LEMMA ReSyncKeeps ==
    ASSUME FaultInv, OneFault, ReSync
    PROVE  Kept
<1>1. TypeOK /\ Histories  BY DEF FaultInv
<1>2. PICK p \in Peers : Syncing(p) /\ pc[p] = "putsync" /\ pc[Other(p)] = "getsync"
  <2>1. pc["client"] \in {"putsync", "getsync"} /\ "client" \in Peers  BY DEF ReSync, Peers
  <2>2. PICK p \in Peers : Syncing(p)  BY <2>1, AtSync, PeersAre
  <2>3. pc[p] \in {"putsync", "getsync"}  BY DEF ReSync
  <2> QED  BY <2>2, <2>3 DEF Syncing
<1> DEFINE c == Other(p)
<1>0. c \in Peers /\ Other(c) = p /\ c # p  BY PeersAre
<1>3. Still /\ noise' = noise /\ Errors' = Errors  BY DEF ReSync, Still, counters
<1>4. pc'[p] = "hunt" /\ pc'[c] = "app" /\ buf'[p] = << >> /\ buf'[c] = << >>
  BY <1>0, <1>2 DEF ReSync, AfterPut, OneFault
<1>5. Settled(p) /\ Settled(c) /\ LastTurn(p) /\ noise # 0  BY <1>2 DEF Syncing
<1>6. Between(c)'  BY <1>0, <1>3, <1>4, <1>5, StillKeeps DEF Between
<1> QED  BY <1>0, <1>1, <1>3, <1>5, <1>6, StillHistories DEF Kept, Phase

LEMMA SyncAloneKeeps ==
    ASSUME FaultInv, OneFault, NEW a \in Peers, SyncAlone(a)
    PROVE  Kept
<1> DEFINE c == Other(a)
<1>0. c \in Peers /\ Other(c) = a /\ c # a  BY PeersAre
<1>1. TypeOK /\ Histories  BY DEF FaultInv
<1>2. /\ Syncing(c) /\ pc[a] = "getsync" /\ pc[c] = "send" /\ buf[a] = << >> /\ buf[c] = <<Ctl("ACK")>>
      /\ noise # 0 /\ Settled(a) /\ LastTurn(c) /\ Taken(c)
  BY <1>0, AtSync DEF SyncAlone, Syncing
<1>3. Still /\ noise' = noise /\ pc' = pc /\ LastResponse' = LastResponse  BY DEF SyncAlone, Still, counters
<1>4. buf'[a] = << >> /\ buf'[c] = <<Ctl("ACK")>>
  <2>1. Exchange(a, << >>, << >>)  BY <1>2 DEF SyncAlone
  <2>2. buf[c] \in Seq(Controls \cup Blocks)  BY <1>0, <1>1 DEF TypeOK
  <2> QED  BY <1>1, <1>2, <2>1, <2>2, ExchangeIs
<1>5. Syncing(c)'
  <2>1. Taken(c)' /\ Settled(a)' /\ LastTurn(c)' /\ PrevErrors' = PrevErrors
    BY <1>0, <1>2, <1>3, StillKeeps DEF Still
  <2> QED  BY <1>0, <1>2, <1>3, <1>4, <2>1 DEF Syncing
<1> QED  BY <1>0, <1>1, <1>2, <1>3, <1>5, StillHistories DEF Kept, Phase

\* Noise on a line that carries one item or two.
LEMMA NoiseOnOne ==
    ASSUME NEW S, NEW x \in S, NEW i \in 1..1, NEW d \in Seq(S), Len(d) <= 1
    PROVE  SubSeq(<<x>>, 1, i - 1) \o d \o SubSeq(<<x>>, i + 1, Len(<<x>>)) = d
<1> DEFINE l == SubSeq(<<x>>, 1, i - 1)
           h == SubSeq(<<x>>, i + 1, Len(<<x>>))
<1>1. l \in Seq(S) /\ Len(l) = 0 /\ h \in Seq(S) /\ Len(h) = 0  OBVIOUS
<1> HIDE DEF l, h
<1>2. l = << >> /\ h = << >>  BY <1>1, EmptySeq
<1>3. << >> \o d \o << >> = d  BY ConcatEmptySeq
<1> QED  BY <1>2, <1>3 DEF l, h

LEMMA NoiseOnTwo ==
    ASSUME NEW x \in Items, NEW y \in Items, NEW i \in 1..2, NEW d \in Seq(Items)
    PROVE  /\ i = 1 => SubSeq(<<x, y>>, 1, i - 1) \o d \o SubSeq(<<x, y>>, i + 1, Len(<<x, y>>)) = d \o <<y>>
           /\ i = 2 => SubSeq(<<x, y>>, 1, i - 1) \o d \o SubSeq(<<x, y>>, i + 1, Len(<<x, y>>)) = <<x>> \o d
<1> DEFINE S == Items
           l == SubSeq(<<x, y>>, 1, i - 1)
           h == SubSeq(<<x, y>>, i + 1, Len(<<x, y>>))
<1> HIDE DEF S
<1>0. x \in S /\ y \in S /\ d \in Seq(S)  BY DEF S
<1>1. CASE i = 1
  <2>1. l \in Seq(S) /\ Len(l) = 0  BY <1>0, <1>1
  <2>2. h \in Seq(S) /\ Len(h) = 1 /\ h[1] = y  BY <1>0, <1>1
  <2>3. <<y>> \in Seq(S) /\ Len(<<y>>) = 1 /\ <<y>>[1] = y  BY <1>0
  <2> HIDE DEF l, h
  <2>4. l = << >> /\ h = <<y>>  BY <2>1, <2>2, <2>3, EmptySeq, SeqEqual
  <2>5. << >> \o d = d  BY <1>0, ConcatEmptySeq
  <2> QED  BY <1>1, <2>4, <2>5 DEF l, h
<1>2. CASE i = 2
  <2>1. h \in Seq(S) /\ Len(h) = 0  BY <1>0, <1>2
  <2>2. l \in Seq(S) /\ Len(l) = 1 /\ l[1] = x  BY <1>0, <1>2
  <2>3. <<x>> \in Seq(S) /\ Len(<<x>>) = 1 /\ <<x>>[1] = x  BY <1>0
  <2> HIDE DEF l, h
  <2>4. h = << >> /\ l = <<x>>  BY <2>1, <2>2, <2>3, EmptySeq, SeqEqual
  <2>5. <<x>> \o d \in Seq(S)  BY <1>0
  <2>6. <<x>> \o d \o << >> = <<x>> \o d  BY <2>5, ConcatEmptySeq
  <2> QED  BY <1>2, <2>4, <2>6 DEF l, h
<1> QED  BY <1>1, <1>2

LEMMA DamageIs ==
    ASSUME TypeOK, NEW x \in Controls \cup Blocks, NEW d \in Damage(x)
    PROVE  /\ d \in Seq(Controls \cup Blocks) /\ Len(d) <= 1
           /\ d = << >> \/ \E y \in Ruined : d = <<y>>
           /\ x.kind = "ACK" => d \in {<< >>, <<Ctl("junk")>>}
<1>1. d = << >> \/ \E y \in Ruined : d = <<y>>  BY DEF Damage, Ruined
<1>2. x.kind = "ACK" => d \in {<< >>, <<Ctl("junk")>>}  BY DEF Damage
<1>3. Ruined \subseteq Controls \cup Blocks  BY DEF Ruined, Controls
<1>4. ASSUME NEW y \in Ruined, d = <<y>> PROVE d \in Seq(Controls \cup Blocks) /\ Len(d) <= 1
  BY <1>3, <1>4
<1>5. << >> \in Seq(Controls \cup Blocks) /\ Len(<< >>) <= 1  OBVIOUS
<1>6. d \in Seq(Controls \cup Blocks) /\ Len(d) <= 1
  <2>1. CASE d = << >>  BY <1>5, <2>1
  <2>2. CASE \E y \in Ruined : d = <<y>>  BY <1>4, <2>2
  <2> QED  BY <1>1, <2>1, <2>2
<1> QED  BY <1>1, <1>2, <1>6

LEMMA NoiseKeeps ==
    ASSUME FaultInv, OneFault, Noise
    PROVE  Kept
<1>1. TypeOK /\ Histories  BY DEF FaultInv
<1>2. noise = 0 /\ noise' = 1
  <2>1. noise \in Nat /\ MaxNoise \in Nat  BY <1>1, LinkAssumption DEF TypeOK
  <2> QED  BY <2>1 DEF Noise, OneFault
<1>3. /\ Still /\ pc' = pc /\ LastResponse' = LastResponse /\ Histories'
      /\ blk' = blk /\ PrevErrors' = PrevErrors
  BY <1>1, <1>2, StillHistories DEF Noise, Still, counters
<1>a. PICK p \in Peers : \E i \in 1..Len(buf[p]) : \E d \in Damage(buf[p][i]) :
         buf' = [buf EXCEPT ![p] = SubSeq(@, 1, i - 1) \o d \o SubSeq(@, i + 1, Len(@))]
  BY DEF Noise
<1>b. PICK i \in 1..Len(buf[p]) : \E d \in Damage(buf[p][i]) :
         buf' = [buf EXCEPT ![p] = SubSeq(@, 1, i - 1) \o d \o SubSeq(@, i + 1, Len(@))]
  BY <1>a
<1>4. PICK d \in Damage(buf[p][i]) :
         buf' = [buf EXCEPT ![p] = SubSeq(@, 1, i - 1) \o d \o SubSeq(@, i + 1, Len(@))]
  BY <1>b
<1> DEFINE c == Other(p)
           s == buf[p]
           t == SubSeq(s, 1, i - 1) \o d \o SubSeq(s, i + 1, Len(s))
<1>0. c \in Peers /\ Other(c) = p /\ c # p  BY PeersAre
<1>5. buf'[p] = t /\ buf'[c] = buf[c]  BY <1>0, <1>1, <1>4 DEF TypeOK
<1>6. s \in Seq(Controls \cup Blocks) /\ s # << >> /\ s[i] \in Controls \cup Blocks  BY <1>1 DEF TypeOK
<1>7. /\ d \in Seq(Controls \cup Blocks) /\ Len(d) <= 1
      /\ d = << >> \/ \E y \in Ruined : d = <<y>>
      /\ s[i].kind = "ACK" => d \in {<< >>, <<Ctl("junk")>>}
  BY <1>1, <1>6, DamageIs
<1> HIDE DEF s, t
\* What the line carries before the noise.
<1>8. \/ Asking(c) /\ buf[c] = << >> /\ s = <<blk[c]>>
      \/ Working(p) /\ pc[p] = "send" /\ buf[c] = << >> /\ s = <<Ctl("ACK")>>
      \/ Crossing(p) /\ pc[p] = "send" /\ buf[c] = << >> /\ s = <<Ctl("ACK"), blk[c]>>
  <2>1. PICK q \in Peers : Phase(q)  BY DEF FaultInv
  <2>2. CASE q = p
    BY <1>0, <1>2, <1>6, <2>1, <2>2
       DEF Phase, Between, Asking, OnItsWay, Working, AckOnItsWay, Crossing, BothOnTheWay, Syncing, s
  <2>3. CASE q = c
    BY <1>0, <1>2, <1>6, <2>1, <2>3
       DEF Phase, Between, Asking, OnItsWay, Working, AckOnItsWay, Crossing, BothOnTheWay, Syncing, s
  <2> QED  BY <2>2, <2>3, PeersAre
<1>9. CASE Asking(c) /\ buf[c] = << >> /\ s = <<blk[c]>>
  <2>1. t = d
    <3>1. blk[c] \in Controls \cup Blocks /\ i \in 1..1  BY <1>0, <1>1, <1>9 DEF TypeOK, s
    <3> QED  BY <1>7, <1>9, <3>1, NoiseOnOne DEF t
  <2>2. OnItsWay(buf[c], buf[p], blk[c])'  BY <1>2, <1>5, <1>7, <1>9, <2>1 DEF OnItsWay
  <2>3. Open(c)' /\ Settled(p)' /\ LastTurn(c)'  BY <1>0, <1>3, <1>9, StillKeeps DEF Asking
  <2>4. Asking(c)'  BY <1>0, <1>3, <1>9, <2>2, <2>3 DEF Asking
  <2> QED  BY <1>0, <1>3, <2>4 DEF Kept, Phase
<1>10. CASE Working(p) /\ pc[p] = "send" /\ buf[c] = << >> /\ s = <<Ctl("ACK")>>
  <2>1. t = d /\ d \in {<< >>, <<Ctl("junk")>>}
    <3>1. Ctl("ACK") \in Controls \cup Blocks /\ i \in 1..1  BY <1>10 DEF Controls, s
    <3>2. s[i] = Ctl("ACK")  BY <1>10, <3>1
    <3> QED  BY <1>1, <1>7, <1>10, <3>1, <3>2, NoiseOnOne, ItemKinds DEF t
  <2>2. AckOnItsWay(buf[p], buf[c], pc[p])'  BY <1>2, <1>3, <1>5, <1>10, <2>1 DEF AckOnItsWay, OnlyRlr
  <2>3. Taken(p)' /\ Settled(c)' /\ LastTurn(p)'  BY <1>0, <1>3, <1>10, StillKeeps DEF Working
  <2>4. Working(p)'  BY <1>3, <1>10, <2>2, <2>3 DEF Working
  <2> QED  BY <1>3, <2>4 DEF Kept, Phase
<1>11. CASE Crossing(p) /\ pc[p] = "send" /\ buf[c] = << >> /\ s = <<Ctl("ACK"), blk[c]>>
  <2>1. Ctl("ACK") \in Controls \cup Blocks /\ blk[c] \in Controls \cup Blocks /\ i \in 1..2
    BY <1>0, <1>1, <1>11 DEF Controls, TypeOK, s
  <2>2. (i = 1 => t = d \o <<blk[c]>>) /\ (i = 2 => t = <<Ctl("ACK")>> \o d)
    <3> DEFINE a == Ctl("ACK")
               b == blk[c]
    <3>1. a \in Items /\ b \in Items /\ d \in Seq(Items) /\ i \in 1..2  BY <1>7, <2>1 DEF Items
    <3>2. t = SubSeq(<<a, b>>, 1, i - 1) \o d \o SubSeq(<<a, b>>, i + 1, Len(<<a, b>>))
      BY <1>11 DEF t
    <3> HIDE DEF a, b
    <3>3. (i = 1 => t = d \o <<b>>) /\ (i = 2 => t = <<a>> \o d)
      BY ONLY <3>1, <3>2, NoiseOnTwo
    <3> QED  BY <3>3 DEF a, b
  <2>3. BothOnTheWay(buf[p], buf[c], pc[p], blk[c])'
    <3>1. CASE i = 1
      <4>1. d \in {<< >>, <<Ctl("junk")>>}
        <5>1. s[i] = Ctl("ACK")  BY <1>11, <3>1
        <5> QED  BY <1>1, <1>7, <5>1, ItemKinds
      <4>2. t = <<blk[c]>> \/ t = <<Ctl("junk"), blk[c]>>  
        <5>1. << >> \o <<blk[c]>> = <<blk[c]>>  OBVIOUS
        <5> QED  BY <2>2, <3>1, <4>1, <5>1, Pair
      <4>3. t # << >> /\ Head(t).kind \in {"STX", "junk"}  BY <1>0, <1>1, <4>2, ItemKinds
      <4> QED  BY <1>2, <1>3, <1>5, <1>11, <4>3 DEF BothOnTheWay, OnlyRlr
    <3>2. CASE i = 2
      <4>1. t = <<Ctl("ACK")>> \/ \E y \in Ruined : t = <<Ctl("ACK"), y>>  
        <5>1. <<Ctl("ACK")>> \o << >> = <<Ctl("ACK")>>  OBVIOUS
        <5>2. ASSUME NEW y, d = <<y>> PROVE t = <<Ctl("ACK"), y>>  BY <2>2, <3>2, <5>2, Pair
        <5> QED  BY <1>7, <2>2, <3>2, <5>1, <5>2
      <4> QED  BY <1>2, <1>3, <1>5, <1>11, <4>1 DEF BothOnTheWay
    <3> QED  BY <2>1, <3>1, <3>2
  <2>4. Taken(p)' /\ Open(c)' /\ LastTurn(c)'  BY <1>0, <1>3, <1>11, StillKeeps DEF Crossing
  <2>5. Crossing(p)'  BY <1>3, <1>11, <2>3, <2>4 DEF Crossing
  <2> QED  BY <1>3, <2>5 DEF Kept, Phase
<1> QED  BY <1>8, <1>9, <1>10, <1>11

LEMMA FaultInit ==
    ASSUME Init
    PROVE  FaultInv
<1>1. TypeOK  BY InitType
<1>2. Histories
  <2>1. MaxRequests \in Nat  BY LinkAssumption
  <2> QED  BY <2>1 DEF Init, Histories, GotAll, Peers
<1>3. Between("client") /\ "client" \in Peers
  <2>1. \A p \in Peers : Settled(p)  BY PeersAre DEF Init, Settled, Numbered
  <2> QED  BY <2>1 DEF Init, Between, LastTurn, Peers, Other
<1> QED  BY <1>1, <1>2, <1>3 DEF FaultInv, Phase

LEMMA FaultStep ==
    ASSUME FaultInv, OneFault, [Next]_vars
    PROVE  FaultInv'
<1>1. TypeOK'  BY NextType DEF FaultInv
<1>2. CASE Request  BY <1>1, <1>2, RequestKeeps DEF Kept, FaultInv
<1>3. CASE Reply  BY <1>1, <1>3, ReplyKeeps DEF Kept, FaultInv
<1>4. CASE NextRequest  BY <1>4 DEF NextRequest, OneFault
<1>5. CASE ReSync  BY <1>1, <1>5, ReSyncKeeps DEF Kept, FaultInv
<1>6. CASE Noise  BY <1>1, <1>6, NoiseKeeps DEF Kept, FaultInv
<1>7. ASSUME NEW a \in Peers, Reads(a) PROVE FaultInv'
  <2>1. Kept
    BY <1>7, AckKeeps, NakKeeps, RlrKeeps, MessKeeps, AcceptKeeps, NoDiscard, HuntKeeps DEF Reads
  <2> QED  BY <1>1, <2>1 DEF Kept, FaultInv
<1>8. ASSUME NEW a \in Peers, Quiet(a) PROVE FaultInv'  BY <1>1, <1>8, QuietKeeps, SMTT(30) DEF Kept, FaultInv
<1>9. ASSUME NEW a \in Peers, GiveUp(a) PROVE FaultInv'
  <2>1. giveups \in Nat  BY DEF FaultInv, TypeOK
  <2> QED  BY <1>9, <2>1 DEF GiveUp, OneFault
<1>10. ASSUME NEW a \in Peers, SyncAlone(a) PROVE FaultInv'  BY <1>1, <1>10, SyncAloneKeeps DEF Kept, FaultInv
<1>11. CASE UNCHANGED vars
  BY <1>1, <1>11 DEF vars, counters, FaultInv, Histories, GotAll, Phase, Between, Asking, Working, Crossing,
     Syncing, Settled, Open, Taken, Sending, LastTurn, Numbered, OnItsWay, AckOnItsWay, BothOnTheWay
<1> QED  BY <1>2, <1>3, <1>4, <1>5, <1>6, <1>7, <1>8, <1>9, <1>10, <1>11 DEF Next


(***************************************************************************)
(* What FaultInv says of the link.                                         *)
(***************************************************************************)
LEMMA EachPeer ==
    ASSUME FaultInv, NEW a \in Peers
    PROVE  /\ Settled(a) \/ Open(a) \/ Taken(a)
           /\ pc[a] \notin {"send", "drain"} => Settled(a)
BY PeersAre DEF FaultInv, Phase, Between, Asking, Working, Crossing, Syncing

LEMMA FaultAcked ==
    ASSUME FaultInv
    PROVE  AckedIsAccepted
<1> SUFFICES ASSUME NEW a \in Peers, NEW n \in sent[a]
             PROVE  \E i \in 1..Len(got[Other(a)]) : got[Other(a)][i].id = n
  BY DEF AckedIsAccepted
<1> DEFINE c == Other(a)
<1>0. c \in Peers  BY PeersAre
<1>1. put[a] \in Nat /\ Len(got[c]) \in Nat  BY <1>0 DEF FaultInv, TypeOK
<1>2. sent[a] \subseteq 1..Len(got[c])  BY <1>0, <1>1, EachPeer DEF Settled, Open, Taken, Sending
<1>3. GotAll(c)  BY <1>0 DEF FaultInv, Histories
<1> QED  BY <1>2, <1>3 DEF GotAll

LEMMA FaultNumbers ==
    ASSUME FaultInv, OneFault
    PROVE  NumbersAgree
<1> SUFFICES ASSUME NEW a \in Peers, pc[a] \notin {"send", "drain"}
             PROVE  Wire(SendBlkNo[a]) = ReceiveBlkNo[Other(a)]
  BY DEF NumbersAgree
<1> DEFINE n == SendBlkNo[a]
<1>1. n = ReceiveBlkNo[Other(a)] /\ Numbered(a, put[a] + 1)  BY EachPeer DEF Settled
<1>2. /\ put[a] \in Nat /\ put[a] <= MaxRequests /\ MaxRequests \in Nat
      /\ WireMod \in Nat /\ CtrMod \in Nat /\ n \in 0..CtrMod-1
  BY PutBound, LinkAssumption DEF FaultInv, TypeOK
<1>3. n \in Nat /\ n < WireMod  BY <1>1, <1>2 DEF OneFault, Numbered
<1> HIDE DEF n
<1>4. n % WireMod = n  BY <1>2, <1>3
<1> QED  BY <1>1, <1>4 DEF n, Wire

\* While at most one fault strikes, an exchange is always in one of the five
\* phases: there is no other state that BlockSend, RemoteGet and ReSync reach.
THEOREM OneFaultPhases ==
    ASSUME OneFault
    PROVE  Spec => []FaultInv
<1>1. Init => FaultInv  BY FaultInit
<1>2. FaultInv /\ [Next]_vars => FaultInv'  BY FaultStep
<1> QED  BY <1>1, <1>2, PTL DEF Spec

\* One damaged character or block never makes BlockSend take an ACK for its
\* own that was not: what RemotePut reports as sent, the other peer has accepted.
THEOREM AckTrusted ==
    ASSUME OneFault
    PROVE  Spec => []AckedIsAccepted
<1>1. FaultInv => AckedIsAccepted  BY FaultAcked
<1> QED  BY <1>1, OneFaultPhases, PTL

\* Nor does it part the numbers: between two sends of a peer its SendBlkNo is
\* the ReceiveBlkNo of the other, so that the next block is not thrown away.
THEOREM NumbersStayTogether ==
    ASSUME OneFault
    PROVE  Spec => []NumbersAgree
<1>1. FaultInv => NumbersAgree  BY FaultNumbers
<1> QED  BY <1>1, OneFaultPhases, PTL

-------------------------------------------------------------------------------
(***************************************************************************)
(* The link implements ErrorFreeLink: an exchange asks, serves, answers.   *)
(***************************************************************************)
LEMMA SeenAre ==
    ASSUME FaultInv
    PROVE  /\ put["client"] \in Nat /\ Len(got["server"]) \in Nat /\ Len(got["client"]) \in Nat
           /\ "client" \in Peers /\ "server" \in Peers
           /\ Other("client") = "server" /\ Other("server") = "client"
BY DEF FaultInv, TypeOK, Peers, Other

\* The client asks when it has the answer to its last request.
LEMMA RequestAsks ==
    ASSUME FaultInv, OneFault, Request
    PROVE  /\ Len(got["client"]) = put["client"]
           /\ put'["client"] = put["client"] + 1 /\ got' = got
<1>1. Between("client") \/ Working("server")  BY SeenAre, AtApp DEF Request
<1>2. /\ LastTurn("server") /\ Len(got["client"]) = put["server"]
  BY <1>1, SeenAre DEF Between, Working, Settled, Taken
<1>3. put["server"] = put["client"]  BY <1>2, SeenAre DEF LastTurn
<1>4. put'["client"] = put["client"] + 1 /\ got' = got
  BY DEF Request, StartSend, FaultInv, TypeOK, Peers
<1> QED  BY <1>2, <1>3, <1>4

\* A block that a peer accepts is the last one put.
LEMMA AcceptTakes ==
    ASSUME FaultInv, OneFault, NEW a \in Peers, Accept(a)
    PROVE  /\ LastTurn(Other(a)) /\ Len(got[a]) = put[Other(a)] - 1
           /\ Len(got[Other(a)]) = put[a] /\ put' = put
           /\ Len(got'[a]) = Len(got[a]) + 1 /\ got'[Other(a)] = got[Other(a)]
<1>1. Asking(Other(a))  BY Arrives DEF Accept
<1>2. LastTurn(Other(a)) /\ Len(got[a]) = put[Other(a)] - 1 /\ Len(got[Other(a)]) = put[a]
  BY <1>1, PeersAre DEF Asking, Open, Settled
<1>3. got \in [Peers -> Seq([id : Nat, body : Nat, kept : BOOLEAN])]  BY DEF FaultInv, TypeOK
<1>4. put' = put /\ Len(got'[a]) = Len(got[a]) + 1 /\ got'[Other(a)] = got[Other(a)]
  <2> DEFINE b == Head(buf[a])
             e == [id |-> b.id, body |-> b.body, kept |-> b.err <= MAX_ERRORS]
  <2>1. put' = put /\ got' = [got EXCEPT ![a] = Append(@, e)]  BY DEF Accept
  <2> HIDE DEF e
  <2>2. Len(Append(got[a], e)) = Len(got[a]) + 1  BY <1>3
  <2> QED  BY <1>3, <2>1, <2>2, PeersAre
<1> QED  BY <1>2, <1>4

LEMMA AcceptServes ==
    ASSUME FaultInv, OneFault, Accept("server")
    PROVE  /\ Len(got["server"]) < put["client"] /\ put' = put
           /\ Len(got'["server"]) = Len(got["server"]) + 1 /\ got'["client"] = got["client"]
BY SeenAre, AcceptTakes

LEMMA AcceptAnswers ==
    ASSUME FaultInv, OneFault, Accept("client")
    PROVE  /\ Len(got["server"]) = put["client"] /\ put' = put
           /\ Len(got["client"]) # put["client"]
           /\ Len(got'["client"]) = put["client"] /\ got'["server"] = got["server"]
<1>1. /\ LastTurn("server") /\ Len(got["client"]) = put["server"] - 1
      /\ Len(got["server"]) = put["client"] /\ put' = put
      /\ Len(got'["client"]) = Len(got["client"]) + 1 /\ got'["server"] = got["server"]
  BY SeenAre, AcceptTakes DEF LastTurn
<1>2. put["client"] = put["server"] /\ put["server"] \in Nat  BY <1>1, SeenAre DEF LastTurn, FaultInv, TypeOK
<1> QED  BY <1>1, <1>2, SeenAre

\* Every other step leaves what the programs see.
LEMMA UnseenSteps ==
    ASSUME FaultInv, OneFault, [Next]_vars, ~Request, \A a \in Peers : ~Accept(a)
    PROVE  put'["client"] = put["client"] /\ got' = got
<1>1. CASE Reply  BY <1>1, SeenAre DEF Reply, StartSend, FaultInv, TypeOK
<1>2. CASE NextRequest  BY <1>2 DEF NextRequest
<1>3. CASE ReSync  BY <1>3 DEF ReSync
<1>4. CASE Noise  BY <1>4 DEF Noise
<1>5. ASSUME NEW a \in Peers, Reads(a) PROVE put' = put /\ got' = got
  BY <1>5 DEF Reads, AckArrives, NakArrives, RlrArrives, MessArrives, Discard, TornBlock, OversizeBlock, HuntOther
<1>6. ASSUME NEW a \in Peers, Quiet(a) \/ GiveUp(a) \/ SyncAlone(a) PROVE put' = put /\ got' = got
  BY <1>6 DEF Quiet, GiveUp, SyncAlone
<1>7. CASE UNCHANGED vars  BY <1>7 DEF vars
<1> QED  BY <1>1, <1>2, <1>3, <1>4, <1>5, <1>6, <1>7 DEF Next

LEMMA ServedNext ==
    ASSUME FaultInv'
    PROVE  Served' = Len(got'["server"]) /\ LastAnswered' = Len(got'["client"])
<1>1. ASSUME NEW a \in Peers, got'[a] # << >> PROVE got'[a][Len(got'[a])].body = Len(got'[a])
  <2>1. GotAll(a)' /\ got'[a] \in Seq([id : Nat, body : Nat, kept : BOOLEAN])
    BY DEF FaultInv, Histories, TypeOK
  <2>2. Len(got'[a]) \in 1..Len(got'[a])  BY <1>1, <2>1
  <2> QED  BY <2>1, <2>2 DEF GotAll
<1> QED  BY <1>1 DEF Served, LastAnswered, Peers

LEMMA StepIsErrorFree ==
    ASSUME FaultInv, FaultInv', OneFault, [Next]_vars
    PROVE  [LinkContract!Next]_(LinkContract!vars)
<1>1. Served = Len(got["server"]) /\ LastAnswered = Len(got["client"])  BY ServedIs
<1>2. Served' = Len(got'["server"]) /\ LastAnswered' = Len(got'["client"])  BY ServedNext
<1>3. CASE Request
  <2>1. LinkContract!Ask  BY <1>1, <1>2, <1>3, RequestAsks DEF LinkContract!Ask
  <2> QED  BY <2>1 DEF LinkContract!Next
<1>4. CASE Accept("server")
  <2>1. LinkContract!Serve  BY <1>1, <1>2, <1>4, AcceptServes DEF LinkContract!Serve
  <2> QED  BY <2>1 DEF LinkContract!Next
<1>5. CASE Accept("client")
  <2>1. LinkContract!Answer  BY <1>1, <1>2, <1>5, AcceptAnswers DEF LinkContract!Answer, OneFault
  <2> QED  BY <2>1 DEF LinkContract!Next
<1>6. CASE ~Request /\ \A a \in Peers : ~Accept(a)
  <2>1. put'["client"] = put["client"] /\ got' = got  BY <1>6, UnseenSteps
  <2> QED  BY <1>1, <1>2, <2>1 DEF LinkContract!vars
<1> QED  BY <1>3, <1>4, <1>5, <1>6 DEF Peers

\* The programs on both sides cannot tell a link with one fault from the error
\* free one that link.doc promises: each step of the link is a step of it, or
\* one that they do not see.
THEOREM OneFaultMasked ==
    ASSUME OneFault
    PROVE  Spec => LinkContract!Init /\ [][LinkContract!Next]_(LinkContract!vars)
<1>1. Init => LinkContract!Init
  BY DEF Init, LinkContract!Init, Served, LastAnswered, Peers
<1>2. FaultInv /\ FaultInv' /\ [Next]_vars => [LinkContract!Next]_(LinkContract!vars)
  BY StepIsErrorFree
<1> QED  BY <1>1, <1>2, OneFaultPhases, PTL DEF Spec
===============================================================================
