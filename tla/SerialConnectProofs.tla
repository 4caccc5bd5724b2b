------------------------- MODULE SerialConnectProofs -------------------------
(***************************************************************************)
(* That the server takes the link for established only after the client    *)
(* has, at the same speed (ServerLast), for every table of speeds, every    *)
(* timing and every line.                                                   *)
(*                                                                         *)
(* The argument uses no clock.  A peer that has read the HI of Speed knows  *)
(* that the other side was at its own speed, and a peer that tries speeds   *)
(* only goes on to slower ones: so the other side is at this speed, or has  *)
(* left it for good (Heard).  The TAKs of the client are what the server's  *)
(* success rests on (TakSent): the first is sent while the client waits for *)
(* the last ACK, and what may have become of it is that it still waits, has *)
(* succeeded, has gone on to a slower speed, or has given up; the second is *)
(* sent only by a client that has succeeded.  The first contact has an      *)
(* alphabet of its own, but for ACK: Answered keeps a client that has not   *)
(* yet heard the server apart from a server that goes on to the speeds.     *)
(*                                                                         *)
(* Each handler is shown to make one of five kinds of step (Sound): a peer  *)
(* is on the way to its first speed (Opens), clears its input at the sync   *)
(* point (Clears), leaves a speed that has failed (Slows), goes on with its *)
(* test (GoesOn) or takes it for passed (Succeeds); each kind keeps IInv.   *)
(***************************************************************************)
EXTENDS SerialConnect, TLAPS

Has(s, c)   == \E i \in 1..Len(s) : s[i] = c
Twice(s, c) == \E i, j \in 1..Len(s) : i < j /\ s[i] = c /\ s[j] = c

(* Where a peer is while it tries a speed, and while it gets ready to.      *)
Trying == Testing \union {"sync"}
(* The places that follow the HI of the other side.                         *)
Met == Testing \ {"slop", "hi"}

(* The speed of both ports is to be left as it is.                          *)
Preset == IF resync THEN First = MIN_BAUD
                    ELSE Larger(MaxBaud["client"], MaxBaud["server"]) = MIN_BAUD

(* The client has not yet heard the server.                                 *)
Alone == pc["client"] = "late" \/ (pc["client"] = "lok" /\ at["client"] = "time")

(* The server has had, or is going to have, an ACK.                         *)
Answered == \/ Has(inbox["server"], "ACK")
            \/ at["server"] = "speed"
            \/ pc["server"] \in {"tick", "exchange"}

Placed(p) ==
    /\ pc[p] \in Trying => at[p] = "speed"
    /\ pc[p] = "exchange" => ~resync
    /\ pc[p] = "ack" => p = "server"
    /\ result[p] # "none" <=> pc[p] = "done"
    /\ pc[p] \in {"sync_byte", "string", "tak", "tak2"} => leg[p] = IF p = "server" THEN 2 ELSE 1
    /\ pc[p] \in {"sync_end", "check", "testack"} => leg[p] = IF p = "server" THEN 1 ELSE 2
    /\ pc[p] = "turn" => leg[p] = 1

SpeedKnown(p) ==
    /\ pc[p] # "done" /\ (at[p] = "speed" \/ resync) => (BaudCounter[p] = MIN_BAUD <=> Preset)
    /\ result[p] = "SUCCESS" => (BaudCounter[p] = MIN_BAUD <=> Preset)
    /\ pc[p] \in Trying \/ result[p] = "SUCCESS" => Preset \/ baud[p] = BaudCounter[p]

(* p has the HI of the other side, or has read it: the other side was at    *)
(* p's speed, and has not gone back to a faster one since.                  *)
Heard(p) ==
    pc[p] \in Met \/ (pc[p] \in Testing /\ Has(inbox[p], "HI")) =>
        /\ baud[p] \in Carries[Other(p)]
        /\ \/ pc[Other(p)] = "done"
           \/ pc[Other(p)] \in Trying /\ baud[Other(p)] >= baud[p]

Reached(p) == result[p] = "SUCCESS" => baud[p] \in Carries[Other(p)]

OneTak == pc["server"] = "tak2" \/ Has(inbox["server"], "TAK")
TwoTaks == \/ pc["server"] = "tak2" /\ Has(inbox["server"], "TAK")
           \/ Twice(inbox["server"], "TAK")

OneSpeed == baud["client"] = baud["server"]
TakSent ==
    pc["server"] \in Testing =>
        /\ OneTak => \/ OneSpeed /\ (pc["client"] = "testack" \/ result["client"] = "SUCCESS")
                     \/ pc["client"] \in Trying /\ baud["client"] > baud["server"]
                     \/ result["client"] = "FAIL"
        /\ TwoTaks => OneSpeed /\ result["client"] = "SUCCESS"

Finished == result["server"] = "SUCCESS" => result["client"] = "SUCCESS" /\ OneSpeed

IInv ==
    /\ \A p \in Peers : Placed(p) /\ SpeedKnown(p) /\ Heard(p) /\ Reached(p)
    /\ Answered => ~Alone
    /\ TakSent /\ Finished

----------------------------------------------------------------------------
LEMMA PeersAre ==
    ASSUME NEW p \in Peers
    PROVE  /\ Other(p) \in Peers /\ Other(p) # p /\ Other(Other(p)) = p
           /\ \A q \in Peers : q = p \/ q = Other(p)
BY DEF Peers, Other

LEMMA Constants ==
    /\ MIN_BAUD \in Nat \ {0} /\ LOW_BAUD \in 0..(MIN_BAUD - 1)
    /\ \A b \in 0..MIN_BAUD : TestTicks[b] \in Nat /\ StringTicks[b] \in Nat
    /\ MAX_BAUD_SET_TICKS \in Nat /\ SYNC_SLOP \in Nat /\ SYNC_TIME_OUT \in Nat
    /\ Second \in Nat /\ MaxLate \in Nat /\ MaxNoise \in Nat
    /\ Second \div 10 \in Nat /\ Second \div 2 \in Nat /\ Second \div 4 \in Nat
<1>1. MIN_BAUD \in Nat /\ LOW_BAUD \in 0..(MIN_BAUD - 1)
  BY ConnectAssumption
<1>2. \A b \in 0..MIN_BAUD : TestTicks[b] \in Nat /\ StringTicks[b] \in Nat
  BY ConnectAssumption
<1>3. /\ MAX_BAUD_SET_TICKS \in Nat /\ SYNC_SLOP \in Nat /\ SYNC_TIME_OUT \in Nat
      /\ Second \in Nat /\ MaxLate \in Nat /\ MaxNoise \in Nat
  BY ConnectAssumption
<1>4. Second \div 10 \in Nat /\ Second \div 2 \in Nat /\ Second \div 4 \in Nat
  BY <1>3
<1> QED
  BY <1>1, <1>2, <1>3, <1>4

Places == Reading \union Pausing \union {"late", "turn", "done"}
Bauds  == 0..(MIN_BAUD - 1)
Speeds == 0..MIN_BAUD
Legs   == 0..2

LEMMA TypesAre ==
    TypeOK <=> /\ was \in -1..MIN_BAUD /\ MaxBaud \in [Peers -> MaxBauds]
               /\ pc \in [Peers -> Places] /\ left \in [Peers -> Nat]
               /\ at \in [Peers -> {"time", "speed"}] /\ leg \in [Peers -> Legs]
               /\ count \in [Peers -> Nat] /\ limit \in [Peers -> Nat]
               /\ sync \in [Peers -> Nat]
               /\ BaudCounter \in [Peers -> Speeds]
               /\ baud \in [Peers -> Bauds]
               /\ inbox \in [Peers -> Seq(Chars)] /\ noise \in 0..MaxNoise
               /\ result \in [Peers -> {"none", "SUCCESS", "FAIL"}]
               /\ lead \in -1..1
BY DEF TypeOK, Places, Bauds, Speeds, Legs

LEMMA TypesAfter ==
    TypeOK' <=> /\ was' \in -1..MIN_BAUD /\ MaxBaud' \in [Peers -> MaxBauds]
                /\ pc' \in [Peers -> Places] /\ left' \in [Peers -> Nat]
                /\ at' \in [Peers -> {"time", "speed"}] /\ leg' \in [Peers -> Legs]
                /\ count' \in [Peers -> Nat] /\ limit' \in [Peers -> Nat]
                /\ sync' \in [Peers -> Nat]
                /\ BaudCounter' \in [Peers -> Speeds]
                /\ baud' \in [Peers -> Bauds]
                /\ inbox' \in [Peers -> Seq(Chars)] /\ noise' \in 0..MaxNoise
                /\ result' \in [Peers -> {"none", "SUCCESS", "FAIL"}]
                /\ lead' \in -1..1
BY DEF TypeOK, Places, Bauds, Speeds, Legs

LEMMA Appended ==
    ASSUME NEW S, NEW s \in Seq(S), NEW c \in S
    PROVE  Append(s, c) \in Seq(S)
OBVIOUS

LEMMA Sending ==
    ASSUME TypeOK, NEW p \in Peers, NEW c \in Chars, NEW b, NEW mine \in Seq(Chars),
           SendAt(p, c, b, mine)
    PROVE  /\ inbox' \in [Peers -> Seq(Chars)] /\ noise' \in 0..MaxNoise
           /\ inbox'[p] = mine
           /\ \/ inbox'[Other(p)] = inbox[Other(p)]
              \/ inbox'[Other(p)] = Append(inbox[Other(p)], "junk")
              \/ inbox'[Other(p)] = Append(inbox[Other(p)], c) /\ IntactAt(p, b)
<1>1. PICK hit \in Hits : /\ inbox' = [inbox EXCEPT ![p] = mine, ![Other(p)] = Arrives(p, c, b, hit)]
                          /\ noise' = IF hit = "none" THEN noise ELSE noise + 1
  BY DEF SendAt
<1>2. Other(p) \in Peers /\ Other(p) # p /\ \A q \in Peers : q = p \/ q = Other(p)
  BY PeersAre
<1>3. inbox \in [Peers -> Seq(Chars)] /\ noise \in 0..MaxNoise
  BY DEF TypeOK
<1>4. \/ Arrives(p, c, b, hit) = inbox[Other(p)]
      \/ Arrives(p, c, b, hit) = Append(inbox[Other(p)], "junk")
      \/ Arrives(p, c, b, hit) = Append(inbox[Other(p)], c) /\ IntactAt(p, b)
  BY DEF Arrives
<1>5. Arrives(p, c, b, hit) \in Seq(Chars)
  <2>1. inbox[Other(p)] \in Seq(Chars) /\ "junk" \in Chars
    BY <1>2, <1>3 DEF Chars
  <2> QED
    BY <1>4, <2>1, Appended
<1>6. noise' \in 0..MaxNoise
  BY <1>1, <1>3, Constants DEF Hits
<1>7. inbox'[p] = mine /\ inbox'[Other(p)] = Arrives(p, c, b, hit)
  BY <1>1, <1>2, <1>3
<1>8. inbox' \in [Peers -> Seq(Chars)]
  BY <1>1, <1>3, <1>5
<1> QED
  BY <1>4, <1>6, <1>7, <1>8

LEMMA NotSending ==
    ASSUME TypeOK, NEW p \in Peers, NEW mine \in Seq(Chars), Quietly(p, mine)
    PROVE  /\ inbox' \in [Peers -> Seq(Chars)] /\ noise' \in 0..MaxNoise
           /\ inbox'[p] = mine /\ inbox'[Other(p)] = inbox[Other(p)]
BY PeersAre DEF TypeOK, Quietly

LEMMA Input ==
    ASSUME TypeOK, NEW p \in Peers
    PROVE  /\ inbox[p] \in Seq(Chars) /\ Rest(p) \in Seq(Chars) /\ <<>> \in Seq(Chars)
           /\ Byte(p) \in Chars \union {"NO_DATA"}
BY DEF TypeOK, Rest, Byte, Chars

LEMMA Going ==
    ASSUME TypeOK, NEW p \in Peers, NEW to \in Places, NEW wait \in Nat, Go(p, to, wait)
    PROVE  /\ pc' \in [Peers -> Places] /\ left' \in [Peers -> Nat]
           /\ pc'[p] = to /\ pc'[Other(p)] = pc[Other(p)]
BY PeersAre DEF TypeOK, Go, Places

LEMMA Returning ==
    ASSUME TypeOK, NEW p \in Peers, NEW r \in {"SUCCESS", "FAIL"}, Return(p, r)
    PROVE  /\ pc' \in [Peers -> Places] /\ left' \in [Peers -> Nat]
           /\ result' \in [Peers -> {"none", "SUCCESS", "FAIL"}]
           /\ pc'[p] = "done" /\ pc'[Other(p)] = pc[Other(p)]
           /\ result'[p] = r /\ result'[Other(p)] = result[Other(p)]
BY PeersAre DEF TypeOK, Return, Places, Reading, Pausing

LEMMA SettingBaud ==
    ASSUME TypeOK, NEW p \in Peers, NEW b \in Speeds, NEW now \in Nat, NEW point \in Nat,
           SetBaud(p, b, now, point)
    PROVE  /\ pc' \in [Peers -> Places] /\ left' \in [Peers -> Nat] /\ sync' \in [Peers -> Nat]
           /\ baud' \in [Peers -> Bauds] /\ leg' \in [Peers -> Legs]
           /\ pc'[p] = "sync" /\ pc'[Other(p)] = pc[Other(p)]
           /\ baud'[p] = IF b = MIN_BAUD THEN baud[p] ELSE b
           /\ baud'[Other(p)] = baud[Other(p)] /\ leg'[Other(p)] = leg[Other(p)]
<1>1. point > now => point - now \in Nat
  OBVIOUS
<1>2. "sync" \in Places
  BY DEF Places, Pausing
<1>3. Go(p, "sync", IF point > now THEN point - now ELSE 0) 
  BY DEF SetBaud
<1>4. /\ pc' \in [Peers -> Places] /\ left' \in [Peers -> Nat]
      /\ pc'[p] = "sync" /\ pc'[Other(p)] = pc[Other(p)]
  BY <1>1, <1>2, <1>3, Going
<1>5. point + MAX_BAUD_SET_TICKS + 3 * SYNC_SLOP \in Nat
  BY Constants
<1>6. sync' \in [Peers -> Nat] /\ leg' \in [Peers -> Legs] /\ leg'[Other(p)] = leg[Other(p)]
  <2>1. sync' = [sync EXCEPT ![p] = point + MAX_BAUD_SET_TICKS + 3 * SYNC_SLOP]
    BY DEF SetBaud
  <2>2. leg' = [leg EXCEPT ![p] = 0] /\ 0 \in Legs
    BY DEF SetBaud, Legs
  <2>3. sync \in [Peers -> Nat] /\ leg \in [Peers -> Legs]
    BY TypesAre
  <2>4. sync' \in [Peers -> Nat]
    BY <1>5, <2>1, <2>3
  <2> QED
    BY <2>2, <2>3, <2>4, PeersAre
<1>7. /\ baud' \in [Peers -> Bauds]
      /\ baud'[p] = IF b = MIN_BAUD THEN baud[p] ELSE b
      /\ baud'[Other(p)] = baud[Other(p)]
  <2> DEFINE v == IF b = MIN_BAUD THEN baud[p] ELSE b
  <2>1. baud' = [baud EXCEPT ![p] = v]
    BY DEF SetBaud
  <2>2. baud \in [Peers -> Bauds]
    BY TypesAre
  <2>3. v \in Bauds
    BY <2>2, Constants DEF Bauds, Speeds
  <2> HIDE DEF v
  <2>4. baud' \in [Peers -> Bauds] /\ baud'[p] = v /\ baud'[Other(p)] = baud[Other(p)]
    BY <2>1, <2>2, <2>3, PeersAre
  <2> QED
    BY <2>4 DEF v
<1> QED
  BY <1>4, <1>6, <1>7

(* The failure of a try: the next speed, or FAIL.                           *)
LEMMA GoingSlower ==
    ASSUME TypeOK, NEW p \in Peers, NEW mine \in Seq(Chars), NextSlower(p, mine)
    PROVE  /\ pc' \in [Peers -> Places] /\ left' \in [Peers -> Nat] /\ sync' \in [Peers -> Nat]
           /\ baud' \in [Peers -> Bauds] /\ leg' \in [Peers -> Legs]
           /\ BaudCounter' \in [Peers -> Speeds]
           /\ inbox' \in [Peers -> Seq(Chars)] /\ noise' \in 0..MaxNoise
           /\ result' \in [Peers -> {"none", "SUCCESS", "FAIL"}]
           /\ inbox'[p] = mine /\ inbox'[Other(p)] = inbox[Other(p)]
           /\ pc'[Other(p)] = pc[Other(p)] /\ leg'[Other(p)] = leg[Other(p)]
           /\ baud'[Other(p)] = baud[Other(p)] /\ result'[Other(p)] = result[Other(p)]
           /\ BaudCounter'[Other(p)] = BaudCounter[Other(p)]
           /\ \/ /\ pc'[p] = "done" /\ result'[p] = "FAIL" /\ baud'[p] = baud[p]
              \/ /\ pc'[p] = "sync" /\ result'[p] = result[p]
                 /\ BaudCounter[p] # MIN_BAUD /\ BaudCounter'[p] # MIN_BAUD
                 /\ BaudCounter'[p] = BaudCounter[p] + 1 /\ baud'[p] = BaudCounter[p] + 1
<1>1. /\ inbox' \in [Peers -> Seq(Chars)] /\ noise' \in 0..MaxNoise
      /\ inbox'[p] = mine /\ inbox'[Other(p)] = inbox[Other(p)]
  <2>1. inbox' = [inbox EXCEPT ![p] = mine] /\ noise' = noise
    BY DEF NextSlower
  <2>2. inbox \in [Peers -> Seq(Chars)] /\ noise \in 0..MaxNoise
    BY TypesAre
  <2> QED
    BY <2>1, <2>2, PeersAre
<1>2. /\ BaudCounter[p] \in 0..MIN_BAUD /\ count[p] \in Nat /\ sync[p] \in Nat
      /\ MIN_BAUD \in Nat \ {0} /\ BaudCounter \in [Peers -> Speeds]
  BY Constants, TypesAre DEF Speeds
<1>3. CASE BaudCounter[p] + 1 >= MIN_BAUD
  <2>1. Return(p, "FAIL") /\ UNCHANGED <<sync, baud, leg>>
    BY <1>3 DEF NextSlower
  <2>2. BaudCounter' = [BaudCounter EXCEPT ![p] = MIN_BAUD] /\ MIN_BAUD \in Speeds
    BY <1>2, <1>3 DEF NextSlower, Speeds
  <2>3. BaudCounter' \in [Peers -> Speeds] /\ BaudCounter'[Other(p)] = BaudCounter[Other(p)]
    BY <1>2, <2>2, PeersAre
  <2>4. /\ pc' \in [Peers -> Places] /\ left' \in [Peers -> Nat]
        /\ result' \in [Peers -> {"none", "SUCCESS", "FAIL"}]
        /\ pc'[p] = "done" /\ pc'[Other(p)] = pc[Other(p)]
        /\ result'[p] = "FAIL" /\ result'[Other(p)] = result[Other(p)]
    BY <2>1, Returning
  <2> QED
    BY <1>1, <2>1, <2>3, <2>4, TypesAre
<1>4. CASE ~(BaudCounter[p] + 1 >= MIN_BAUD)
  <2> DEFINE b == BaudCounter[p] + 1
  <2>1. SetBaud(p, b, count[p], sync[p]) /\ UNCHANGED result /\ BaudCounter' = [BaudCounter EXCEPT ![p] = b]
    BY <1>4 DEF NextSlower
  <2>2. b \in Speeds /\ b # MIN_BAUD /\ BaudCounter[p] # MIN_BAUD
    BY <1>2, <1>4 DEF Speeds
  <2> HIDE DEF b
  <2>3. /\ BaudCounter' \in [Peers -> Speeds] /\ BaudCounter'[p] = b
        /\ BaudCounter'[Other(p)] = BaudCounter[Other(p)]
    BY <1>2, <2>1, <2>2, PeersAre
  <2>4. /\ pc' \in [Peers -> Places] /\ left' \in [Peers -> Nat] /\ sync' \in [Peers -> Nat]
        /\ baud' \in [Peers -> Bauds] /\ leg' \in [Peers -> Legs]
        /\ pc'[p] = "sync" /\ pc'[Other(p)] = pc[Other(p)]
        /\ baud'[p] = b /\ baud'[Other(p)] = baud[Other(p)] /\ leg'[Other(p)] = leg[Other(p)]
    BY <1>2, <2>1, <2>2, SettingBaud
  <2>5. result' \in [Peers -> {"none", "SUCCESS", "FAIL"}] /\ result'[p] = result[p] /\ result'[Other(p)] = result[Other(p)]
    BY <2>1, TypesAre
  <2> QED
    BY <1>1, <2>2, <2>3, <2>4, <2>5 DEF b
<1> QED
  BY <1>3, <1>4

----------------------------------------------------------------------------
(* What becomes of the two buffers when p takes a step and says c.          *)
Takes(p) == inbox'[p] = inbox[p] \/ inbox'[p] = Rest(p)
Says(p, c) == \/ inbox'[Other(p)] = inbox[Other(p)]
              \/ inbox'[Other(p)] = Append(inbox[Other(p)], "junk")
              \/ inbox'[Other(p)] = Append(inbox[Other(p)], c) /\ IntactAt(p, baud'[p])

LEMMA HasAppended ==
    ASSUME NEW s \in Seq(Chars), NEW c, NEW x
    PROVE  /\ Has(Append(s, c), x) => Has(s, x) \/ x = c
           /\ Twice(Append(s, c), x) => Twice(s, x) \/ (Has(s, x) /\ x = c)
<1>1. Len(Append(s, c)) = Len(s) + 1 /\ Append(s, c)[Len(s) + 1] = c /\ Len(s) \in Nat
  OBVIOUS
<1>2. \A i \in 1..Len(s) : Append(s, c)[i] = s[i]
  OBVIOUS
<1>3. \A i \in 1..(Len(s) + 1) : i \in 1..Len(s) \/ i = Len(s) + 1
  BY <1>1
<1> QED
  BY <1>1, <1>2, <1>3 DEF Has, Twice

LEMMA HasTaken ==
    ASSUME TypeOK, NEW p \in Peers, NEW x
    PROVE  /\ Has(Rest(p), x) => Has(inbox[p], x)
           /\ Twice(Rest(p), x) => Twice(inbox[p], x)
           /\ Byte(p) = x /\ x # "NO_DATA" => Has(inbox[p], x)
           /\ Byte(p) = x /\ x # "NO_DATA" /\ Has(Rest(p), x) => Twice(inbox[p], x)
<1>1. inbox[p] \in Seq(Chars)
  BY Input
<1>2. CASE inbox[p] = <<>>
  BY <1>2 DEF Rest, Byte, Has, Twice
<1>3. CASE inbox[p] # <<>>
  <2> SUFFICES ASSUME NEW s \in Seq(Chars), s # <<>>, s = inbox[p]
               PROVE  /\ Has(Tail(s), x) => Has(s, x)
                      /\ Twice(Tail(s), x) => Twice(s, x)
                      /\ Head(s) = x => Has(s, x)
                      /\ Head(s) = x /\ Has(Tail(s), x) => Twice(s, x)
    BY <1>1, <1>3 DEF Rest, Byte
  <2>1. Len(s) \in Nat \ {0} /\ Len(Tail(s)) = Len(s) - 1 /\ Head(s) = s[1]
    OBVIOUS
  <2>2. \A i \in 1..(Len(s) - 1) : Tail(s)[i] = s[i + 1] /\ i + 1 \in 1..Len(s)
    OBVIOUS
  <2> QED
    BY <2>1, <2>2 DEF Has, Twice
<1> QED
  BY <1>2, <1>3

LEMMA Buffers ==
    ASSUME TypeOK, NEW p \in Peers, NEW c, NEW x
    PROVE  /\ Takes(p) => /\ Has(inbox'[p], x) => Has(inbox[p], x)
                          /\ Twice(inbox'[p], x) => Twice(inbox[p], x)
           /\ Says(p, c) /\ x # "junk" =>
                 /\ Has(inbox'[Other(p)], x) =>
                       Has(inbox[Other(p)], x) \/ (x = c /\ IntactAt(p, baud'[p]))
                 /\ Twice(inbox'[Other(p)], x) =>
                       \/ Twice(inbox[Other(p)], x)
                       \/ Has(inbox[Other(p)], x) /\ x = c /\ IntactAt(p, baud'[p])
<1>1. inbox[Other(p)] \in Seq(Chars)
  BY PeersAre, Input
<1>2. ASSUME Says(p, c), x # "junk"
      PROVE  /\ Has(inbox'[Other(p)], x) =>
                   Has(inbox[Other(p)], x) \/ (x = c /\ IntactAt(p, baud'[p]))
             /\ Twice(inbox'[Other(p)], x) =>
                   \/ Twice(inbox[Other(p)], x)
                   \/ Has(inbox[Other(p)], x) /\ x = c /\ IntactAt(p, baud'[p])
  BY <1>1, <1>2, HasAppended DEF Says
<1> QED
  BY <1>2, HasTaken DEF Takes

----------------------------------------------------------------------------
(* The kinds of steps that one peer takes.                                  *)
OtherStays(p) ==
    /\ pc'[Other(p)] = pc[Other(p)] /\ at'[Other(p)] = at[Other(p)]
    /\ leg'[Other(p)] = leg[Other(p)] /\ result'[Other(p)] = result[Other(p)]
    /\ baud'[Other(p)] = baud[Other(p)] /\ BaudCounter'[Other(p)] = BaudCounter[Other(p)]
    /\ UNCHANGED <<was, MaxBaud>>

SpeedStays(p) == baud'[p] = baud[p] /\ BaudCounter'[p] = BaudCounter[p]

(* On the way to the first speed.                                           *)
Opening == {"late", "hello", "lok", "ack", "tick", "exchange"}
Opens(p, c) ==
    /\ pc[p] \in Opening /\ pc'[p] \in Opening \union {"sync", "done"}
    /\ Takes(p) /\ Says(p, c) /\ c \in {"HI", "LOK", "ACK", "junk"}
    /\ result'[p] = IF pc'[p] = "done" THEN "FAIL" ELSE result[p]
    /\ BaudCounter'[p] = BaudCounter[p]
    /\ at'[p] = at[p] \/ (resync /\ at'[p] = "speed")
    /\ pc'[p] = "sync" => /\ at[p] = "speed" /\ at'[p] = "speed"
                          /\ baud'[p] = IF BaudCounter[p] = MIN_BAUD THEN baud[p] ELSE BaudCounter[p]
    /\ pc'[p] = "exchange" => ~resync
    /\ pc'[p] = "ack" => p = "server"
    /\ p = "client" => (c = "HI" => Alone) /\ (c = "ACK" => ~Alone') /\ (Alone' => Alone)
    /\ p = "server" => /\ c \notin {"HI", "ACK"}
                       /\ at'[p] = "speed" \/ pc'[p] \in {"tick", "exchange"} => Answered

(* From the sync point on a peer listens.                                   *)
Clears(p) ==
    /\ pc[p] = "sync" /\ pc'[p] = "slop"
    /\ inbox'[p] = <<>> /\ Says(p, "junk")
    /\ SpeedStays(p) /\ result'[p] = result[p] /\ at'[p] = at[p]

(* The speed has failed.                                                    *)
Slows(p) ==
    /\ pc[p] \in Testing /\ Takes(p) /\ Says(p, "junk") /\ at'[p] = at[p]
    /\ \/ /\ pc'[p] = "done" /\ result'[p] = "FAIL" /\ baud'[p] = baud[p]
       \/ /\ pc'[p] = "sync" /\ result'[p] = result[p]
          /\ BaudCounter[p] # MIN_BAUD /\ BaudCounter'[p] # MIN_BAUD
          /\ BaudCounter'[p] = BaudCounter[p] + 1 /\ baud'[p] = BaudCounter[p] + 1

(* The test of the speed goes on.                                           *)
GoesOn(p, c) ==
    /\ pc[p] \in Testing /\ pc'[p] \in Testing
    /\ Takes(p) /\ Says(p, c)
    /\ SpeedStays(p) /\ result'[p] = result[p] /\ at'[p] = at[p]
    /\ pc'[p] \in Met => pc[p] \in Met \/ (pc[p] = "hi" /\ Byte(p) = "HI")
    /\ pc'[p] = "tak2" => pc[p] = "tak" /\ Byte(p) = "TAK" /\ inbox'[p] = Rest(p)
    /\ c = "TAK" /\ p = "client" => pc[p] = "check" /\ pc'[p] = "testack"
    /\ pc[p] = "testack" => p # "client"
    /\ Placed(p)'

(* The speed has passed the test.                                           *)
Succeeds(p, c) ==
    /\ pc'[p] = "done" /\ result'[p] = "SUCCESS"
    /\ Takes(p) /\ Says(p, c)
    /\ SpeedStays(p) /\ at'[p] = at[p]
    /\ IF p = "server" THEN pc[p] = "tak2" /\ Byte(p) = "TAK" ELSE pc[p] = "testack"

----------------------------------------------------------------------------
LEMMA OpensKeeps ==
    ASSUME TypeOK, TypeOK', IInv, NEW p \in Peers, NEW c, OtherStays(p), Opens(p, c)
    PROVE  IInv'
<1> SUFFICES ASSUME NEW o, o = Other(p) PROVE IInv'
  OBVIOUS
<1>1. /\ o \in Peers /\ o # p /\ Other(o) = p /\ \A q \in Peers : q = p \/ q = o
      /\ (p = "client" /\ o = "server") \/ (p = "server" /\ o = "client")
  BY PeersAre DEF Peers, Other
<1>2. /\ \A q \in Peers : Placed(q) /\ SpeedKnown(q) /\ Heard(q) /\ Reached(q)
      /\ Answered => ~Alone
      /\ TakSent /\ Finished
  BY DEF IInv
<1>3. Preset' = Preset /\ resync' = resync
  BY DEF OtherStays, Preset, resync, First
<1>4. /\ \A x : Has(inbox'[p], x) => Has(inbox[p], x)
      /\ \A x : x # "junk" => /\ Has(inbox'[o], x) => Has(inbox[o], x) \/ x = c
                              /\ Twice(inbox'[o], x) => Twice(inbox[o], x) \/ x = c
  BY Buffers DEF Opens
<1>5. Placed(p)' /\ Placed(o)'
  BY <1>1, <1>2, <1>3 DEF Opens, OtherStays, Opening, Placed, Testing, Reading, Trying
<1>6. SpeedKnown(p)' /\ SpeedKnown(o)'
  BY <1>1, <1>2, <1>3 DEF Opens, OtherStays, Opening, SpeedKnown, Placed, Testing, Reading, Trying
<1>7. pc[p] \notin Trying /\ pc[p] # "done" /\ pc'[p] \notin Testing /\ result'[p] # "SUCCESS" /\ result[p] = "none"
  BY <1>2, TypesAre DEF Opens, Opening, Placed, Trying, Testing, Reading
<1>8. Answered' => ~Alone'
  <2>1. CASE p = "client"
    BY <1>1, <1>2, <1>4, <2>1 DEF Opens, OtherStays, Answered
  <2>2. CASE p = "server"
    BY <1>1, <1>2, <1>4, <2>2 DEF Opens, OtherStays, Answered, Alone
  <2> QED
    BY <1>1, <2>1, <2>2
<1>9. Heard(p)' /\ Heard(o)'
  <2>1. Heard(p)'
    BY <1>7 DEF Heard, Met
  <2>2. pc[o] \notin Met /\ ~(pc[o] \in Testing /\ Has(inbox[o], "HI"))
    BY <1>1, <1>2, <1>7 DEF Heard
  <2>3. ~(pc[o] \in Testing /\ c = "HI")
    BY <1>1, <1>2 DEF Opens, Answered, Placed, Trying
  <2>4. ~(pc'[o] \in Testing /\ Has(inbox'[o], "HI"))
    BY <1>4, <2>2, <2>3 DEF OtherStays
  <2> QED
    BY <1>1, <2>1, <2>2, <2>4 DEF OtherStays, Heard
<1>10. Reached(p)' /\ Reached(o)'
  BY <1>1, <1>2, <1>7 DEF Reached, OtherStays
<1>11. TakSent'
  <2>1. CASE p = "client"
    <3>1. pc["server"] \in Testing => ~OneTak
      BY <1>2, <1>7, <2>1 DEF TakSent, Testing, Reading, Trying
    <3>2. pc'["server"] = pc["server"] /\ (OneTak' => OneTak)
      BY <1>1, <1>4, <2>1 DEF OneTak, Opens, OtherStays
    <3>3. TwoTaks' => OneTak'
      BY DEF TwoTaks, OneTak, Twice, Has
    <3> QED
      BY <3>1, <3>2, <3>3 DEF TakSent
  <2>2. CASE p = "server"
    BY <1>7, <2>2 DEF TakSent
  <2> QED
    BY <1>1, <2>1, <2>2
<1>12. Finished'
  BY <1>1, <1>2, <1>7 DEF Finished, OtherStays, OneSpeed, Placed
<1> QED
  BY <1>1, <1>5, <1>6, <1>7, <1>8, <1>9, <1>10, <1>11, <1>12 DEF IInv

LEMMA ClearsKeeps ==
    ASSUME TypeOK, TypeOK', IInv, NEW p \in Peers, OtherStays(p), Clears(p)
    PROVE  IInv'
<1> SUFFICES ASSUME NEW o, o = Other(p) PROVE IInv'
  OBVIOUS
<1>1. /\ o \in Peers /\ o # p /\ Other(o) = p /\ \A q \in Peers : q = p \/ q = o
      /\ (p = "client" /\ o = "server") \/ (p = "server" /\ o = "client")
  BY PeersAre DEF Peers, Other
<1>2. /\ \A q \in Peers : Placed(q) /\ SpeedKnown(q) /\ Heard(q) /\ Reached(q)
      /\ Answered => ~Alone
      /\ TakSent /\ Finished
  BY DEF IInv
<1>3. Preset' = Preset /\ resync' = resync
  BY DEF OtherStays, Preset, resync, First
<1>4. /\ \A x : ~Has(inbox'[p], x)
      /\ \A x : x # "junk" => /\ Has(inbox'[o], x) => Has(inbox[o], x)
                              /\ Twice(inbox'[o], x) => Twice(inbox[o], x)
  <2>1. \A x : ~Has(<<>>, x)
    BY DEF Has
  <2> QED
    BY <2>1, Buffers DEF Clears
<1>5. Placed(p)' /\ Placed(o)'
  BY <1>1, <1>2, <1>3 DEF Clears, OtherStays, Placed, Testing, Reading, Trying
<1>6. SpeedKnown(p)' /\ SpeedKnown(o)'
  BY <1>1, <1>2, <1>3 DEF Clears, OtherStays, SpeedStays, SpeedKnown, Placed, Testing, Reading, Trying
<1>7. /\ pc[p] \in Trying /\ pc'[p] \in Trying /\ pc'[p] \notin Met /\ pc[p] # "done"
      /\ result'[p] = "none" /\ result[p] = "none" /\ baud' = baud
  <2>1. pc[p] \in Trying /\ pc'[p] \in Trying /\ pc'[p] \notin Met /\ pc[p] # "done"
    BY DEF Clears, Trying, Testing, Reading, Met
  <2>2. baud \in [Peers -> Bauds] /\ baud' \in [Peers -> Bauds]
    BY TypesAre, TypesAfter
  <2>3. baud'[p] = baud[p] /\ baud'[o] = baud[o]
    BY DEF Clears, SpeedStays, OtherStays
  <2> QED
    BY <1>1, <1>2, <2>1, <2>2, <2>3 DEF Clears, Placed
<1>8. Answered' => ~Alone'
  BY <1>1, <1>2, <1>4 DEF Clears, OtherStays, Answered, Alone
<1>9. Heard(p)' /\ Heard(o)'
  <2>1. Heard(p)'
    BY <1>4, <1>7 DEF Heard
  <2> QED
    BY <1>1, <1>2, <1>4, <1>7, <2>1 DEF OtherStays, Heard
<1>10. Reached(p)' /\ Reached(o)'
  BY <1>1, <1>2, <1>7 DEF Reached, OtherStays
<1>11. TakSent'
  <2>1. CASE p = "client"
    BY <1>1, <1>2, <1>4, <1>7, <2>1 DEF TakSent, OneTak, TwoTaks, OneSpeed, OtherStays, Clears
  <2>2. CASE p = "server"
    <3>1. ~OneTak'
      BY <1>4, <2>2 DEF OneTak, Clears
    <3>2. TwoTaks' => OneTak'
      BY DEF TwoTaks, OneTak, Twice, Has
    <3> QED
      BY <3>1, <3>2 DEF TakSent
  <2> QED
    BY <1>1, <2>1, <2>2
<1>12. Finished'
  BY <1>1, <1>2, <1>7 DEF Finished, OtherStays, OneSpeed, Placed
<1> QED
  BY <1>1, <1>5, <1>6, <1>7, <1>8, <1>9, <1>10, <1>11, <1>12 DEF IInv

LEMMA SlowsKeeps ==
    ASSUME TypeOK, TypeOK', IInv, NEW p \in Peers, OtherStays(p), Slows(p)
    PROVE  IInv'
<1> SUFFICES ASSUME NEW o, o = Other(p) PROVE IInv'
  OBVIOUS
<1>1. /\ o \in Peers /\ o # p /\ Other(o) = p /\ \A q \in Peers : q = p \/ q = o
      /\ (p = "client" /\ o = "server") \/ (p = "server" /\ o = "client")
  BY PeersAre DEF Peers, Other
<1>2. /\ \A q \in Peers : Placed(q) /\ SpeedKnown(q) /\ Heard(q) /\ Reached(q)
      /\ Answered => ~Alone
      /\ TakSent /\ Finished
  BY DEF IInv
<1>3. Preset' = Preset /\ resync' = resync
  BY DEF OtherStays, Preset, resync, First
<1>4. /\ \A x : Has(inbox'[p], x) => Has(inbox[p], x)
      /\ \A x : x # "junk" => /\ Has(inbox'[o], x) => Has(inbox[o], x)
                              /\ Twice(inbox'[o], x) => Twice(inbox[o], x)
  BY Buffers DEF Slows
<1>5. Placed(p)' /\ Placed(o)'
  BY <1>1, <1>2, <1>3 DEF Slows, OtherStays, Placed, Testing, Reading, Trying
<1>6. SpeedKnown(p)' /\ SpeedKnown(o)'
  BY <1>1, <1>2, <1>3 DEF Slows, OtherStays, SpeedKnown, Placed, Testing, Reading, Trying
<1>7. /\ pc[p] \in Testing /\ pc[p] \in Trying /\ pc[p] # "done" /\ result[p] = "none"
      /\ baud[p] \in Nat /\ baud[o] \in Nat /\ baud'[p] \in Nat /\ baud'[o] = baud[o]
      /\ \/ pc'[p] = "done" /\ result'[p] = "FAIL" /\ baud'[p] = baud[p]
         \/ pc'[p] = "sync" /\ result'[p] = "none" /\ baud'[p] > baud[p]
  <2>1. pc[p] \in Testing /\ pc[p] \in Trying /\ pc[p] # "done" /\ result[p] = "none"
    BY <1>2, TypesAre DEF Slows, Trying, Testing, Reading, Placed
  <2>2. baud[p] \in Nat /\ baud[o] \in Nat /\ baud'[p] \in Nat /\ baud'[o] = baud[o] /\ BaudCounter[p] \in Nat
    BY <1>1, TypesAre, TypesAfter, Constants DEF Bauds, Speeds, OtherStays
  <2>3. Preset \/ baud[p] = BaudCounter[p]
    BY <1>2, <2>1 DEF SpeedKnown
  <2>4. BaudCounter[p] # MIN_BAUD => ~Preset
    BY <1>2, <2>1 DEF SpeedKnown, Placed
  <2> QED
    BY <2>1, <2>2, <2>3, <2>4 DEF Slows
<1>8. Answered' => ~Alone'
  BY <1>1, <1>2, <1>4, <1>7 DEF Slows, OtherStays, Answered, Alone
<1>9. Heard(p)' /\ Heard(o)'
  <2>1. pc'[p] \notin Testing /\ pc'[p] \in Trying \union {"done"}
    BY <1>7 DEF Testing, Reading, Trying
  <2>2. Heard(p)'
    BY <2>1 DEF Heard, Met
  <2> QED
    BY <1>1, <1>2, <1>4, <1>7, <2>1, <2>2 DEF OtherStays, Heard
<1>10. Reached(p)' /\ Reached(o)'
  BY <1>1, <1>2, <1>7 DEF Reached, OtherStays
<1>11. TakSent'
  <2>1. CASE p = "client"
    <3>1. pc'["server"] = pc["server"] /\ (OneTak' => OneTak) /\ (TwoTaks' => TwoTaks)
      BY <1>1, <1>4, <2>1 DEF OneTak, TwoTaks, OtherStays
    <3>2. pc'["client"] = "sync" => pc'["client"] \in Trying
      BY DEF Trying
    <3> QED
      BY <1>1, <1>2, <1>7, <2>1, <3>1, <3>2 DEF TakSent, OneSpeed
  <2>2. CASE p = "server"
    BY <1>7, <2>2 DEF TakSent, Testing, Reading
  <2> QED
    BY <1>1, <2>1, <2>2
<1>12. Finished'
  BY <1>1, <1>2, <1>7 DEF Finished, OtherStays, OneSpeed, Placed
<1> QED
  BY <1>1, <1>5, <1>6, <1>7, <1>8, <1>9, <1>10, <1>11, <1>12 DEF IInv

LEMMA GoesOnKeeps ==
    ASSUME TypeOK, TypeOK', IInv, NEW p \in Peers, NEW c, OtherStays(p), GoesOn(p, c)
    PROVE  IInv'
<1> SUFFICES ASSUME NEW o, o = Other(p) PROVE IInv'
  OBVIOUS
<1>1. /\ o \in Peers /\ o # p /\ Other(o) = p /\ \A q \in Peers : q = p \/ q = o
      /\ (p = "client" /\ o = "server") \/ (p = "server" /\ o = "client")
  BY PeersAre DEF Peers, Other
<1>2. /\ \A q \in Peers : Placed(q) /\ SpeedKnown(q) /\ Heard(q) /\ Reached(q)
      /\ Answered => ~Alone
      /\ TakSent /\ Finished
  BY DEF IInv
<1>3. Preset' = Preset /\ resync' = resync
  BY DEF OtherStays, Preset, resync, First
<1>4. /\ \A x : Has(inbox'[p], x) => Has(inbox[p], x)
      /\ \A x : Twice(inbox'[p], x) => Twice(inbox[p], x)
      /\ \A x : x # "junk" => 
              /\ Has(inbox'[o], x) => Has(inbox[o], x) \/ (x = c /\ IntactAt(p, baud[p]))
              /\ Twice(inbox'[o], x) => \/ Twice(inbox[o], x)
                                        \/ Has(inbox[o], x) /\ x = c /\ IntactAt(p, baud[p])
  BY Buffers DEF GoesOn, SpeedStays
<1>5. Placed(p)' /\ Placed(o)'
  BY <1>1, <1>2, <1>3 DEF GoesOn, OtherStays, Placed
<1>6. SpeedKnown(p)' /\ SpeedKnown(o)'
  BY <1>1, <1>2, <1>3 DEF GoesOn, OtherStays, SpeedStays, SpeedKnown, Placed, Testing, Reading, Trying
<1>7. /\ pc[p] \in Testing /\ pc'[p] \in Testing /\ pc[p] \in Trying /\ pc'[p] \in Trying
      /\ pc[p] # "done" /\ pc'[p] # "done" /\ result[p] = "none" /\ result'[p] = "none"
      /\ baud'[p] = baud[p] /\ baud'[o] = baud[o] /\ baud[p] \in Nat /\ baud[o] \in Nat
  <2>1. baud[p] \in Nat /\ baud[o] \in Nat
    BY <1>1, TypesAre, Constants DEF Bauds
  <2> QED
    BY <1>1, <1>2, <2>1, TypesAre DEF GoesOn, SpeedStays, OtherStays, Trying, Testing, Reading, Placed
<1>8. Answered' => ~Alone'
  <2>1. at[p] = "speed" /\ at'[p] = "speed"
    BY <1>2, <1>7 DEF Placed, GoesOn
  <2>2. ~Alone' <=> ~Alone
    BY <1>1, <1>7, <2>1 DEF Alone, OtherStays, Testing, Reading
  <2>3. CASE p = "server"
    BY <1>2, <2>1, <2>2, <2>3 DEF Answered
  <2>4. CASE p = "client"
    BY <1>7, <2>1, <2>4 DEF Alone, Testing, Reading
  <2> QED
    BY <1>1, <2>3, <2>4
<1>9. Heard(p)' /\ Heard(o)'
  <2>1. Heard(p)'
    <3>1. pc'[p] \in Met \/ (pc'[p] \in Testing /\ Has(inbox'[p], "HI"))
            => pc[p] \in Met \/ (pc[p] \in Testing /\ Has(inbox[p], "HI"))
      BY <1>4, <1>7, HasTaken DEF GoesOn
    <3> QED
      BY <1>1, <1>2, <1>7, <3>1 DEF Heard, OtherStays
  <2>2. Heard(o)'
    BY <1>1, <1>2, <1>4, <1>7 DEF Heard, OtherStays, IntactAt
  <2> QED
    BY <2>1, <2>2
<1>10. Reached(p)' /\ Reached(o)'
  BY <1>1, <1>2, <1>7 DEF Reached, OtherStays
<1>11. TakSent'
  <2>1. CASE p = "client"
    <3>1. /\ pc'["server"] = pc["server"] /\ (OneSpeed' <=> OneSpeed)
          /\ result["client"] = "none" /\ pc["client"] # "testack" /\ pc'["client"] \in Trying
      BY <1>1, <1>7, <2>1 DEF OtherStays, OneSpeed, GoesOn
    <3>2. pc["server"] \in Testing => ~TwoTaks
      BY <1>2, <3>1 DEF TakSent
    <3>3. pc["server"] \in Testing /\ OneTak => baud["client"] > baud["server"]
      BY <1>2, <3>1 DEF TakSent
    <3>4. /\ OneTak' => OneTak \/ (c = "TAK" /\ OneSpeed)
          /\ TwoTaks' => TwoTaks \/ (OneTak /\ c = "TAK")
      BY <1>1, <1>4, <2>1, <3>1 DEF OneTak, TwoTaks, IntactAt, OneSpeed
    <3>5. CASE pc["server"] \in Testing /\ c = "TAK"
      <4>1. pc["client"] = "check" /\ pc'["client"] = "testack"
        BY <2>1, <3>5 DEF GoesOn
      <4>2. pc["client"] \in Met /\ pc["server"] # "done"
        BY <3>5, <4>1 DEF Met, Testing, Reading
      <4>3. baud["server"] >= baud["client"]
        BY <1>1, <1>2, <2>1, <4>2 DEF Heard
      <4>4. ~OneTak
        BY <1>1, <1>7, <2>1, <3>3, <3>5, <4>3
      <4> QED
        BY <3>1, <3>2, <3>4, <3>5, <4>1, <4>4 DEF TakSent
    <3>6. CASE pc["server"] \in Testing /\ c # "TAK"
      <4>1. baud'["client"] = baud["client"] /\ baud'["server"] = baud["server"]
        BY <1>1, <1>7, <2>1
      <4> QED
        BY <3>1, <3>2, <3>3, <3>4, <3>6, <4>1 DEF TakSent
    <3> QED
      BY <3>1, <3>5, <3>6 DEF TakSent
  <2>2. CASE p = "server"
    <3>1. /\ pc'["client"] = pc["client"] /\ result'["client"] = result["client"]
          /\ baud'["client"] = baud["client"] /\ baud'["server"] = baud["server"]
      BY <1>1, <1>7, <2>2 DEF OtherStays
    <3>2. OneTak' => OneTak
      BY <1>1, <1>4, <2>2, HasTaken DEF OneTak, GoesOn
    <3>3. TwoTaks' => TwoTaks
      BY <1>1, <1>4, <2>2, HasTaken DEF TwoTaks, GoesOn
    <3> QED
      BY <1>2, <1>7, <2>2, <3>1, <3>2, <3>3 DEF TakSent, OneSpeed
  <2> QED
    BY <1>1, <2>1, <2>2
<1>12. Finished'
  BY <1>1, <1>2, <1>7 DEF Finished, OtherStays, OneSpeed, Placed
<1> QED
  BY <1>1, <1>5, <1>6, <1>7, <1>8, <1>9, <1>10, <1>11, <1>12 DEF IInv

LEMMA SucceedsKeeps ==
    ASSUME TypeOK, TypeOK', IInv, NEW p \in Peers, NEW c, OtherStays(p), Succeeds(p, c)
    PROVE  IInv'
<1> SUFFICES ASSUME NEW o, o = Other(p) PROVE IInv'
  OBVIOUS
<1>1. /\ o \in Peers /\ o # p /\ Other(o) = p /\ \A q \in Peers : q = p \/ q = o
      /\ (p = "client" /\ o = "server") \/ (p = "server" /\ o = "client")
  BY PeersAre DEF Peers, Other
<1>2. /\ \A q \in Peers : Placed(q) /\ SpeedKnown(q) /\ Heard(q) /\ Reached(q)
      /\ Answered => ~Alone
      /\ TakSent /\ Finished
  BY DEF IInv
<1>3. Preset' = Preset /\ resync' = resync
  BY DEF OtherStays, Preset, resync, First
<1>4. /\ \A x : Has(inbox'[p], x) => Has(inbox[p], x)
      /\ \A x : x # "junk" => 
              /\ Has(inbox'[o], x) => Has(inbox[o], x) \/ (x = c /\ IntactAt(p, baud[p]))
  BY Buffers DEF Succeeds, SpeedStays
<1>5. Placed(p)' /\ Placed(o)'
  BY <1>1, <1>2, <1>3 DEF Succeeds, OtherStays, Placed, Trying, Testing, Reading
<1>6. SpeedKnown(p)' /\ SpeedKnown(o)'
  BY <1>1, <1>2, <1>3 DEF Succeeds, OtherStays, SpeedStays, SpeedKnown, Placed, Testing, Reading, Trying
<1>7. /\ pc[p] \in Met /\ pc[p] \in Trying /\ pc[p] # "done" /\ result[p] = "none"
      /\ pc'[p] = "done" /\ result'[p] = "SUCCESS"
      /\ baud'[p] = baud[p] /\ baud'[o] = baud[o] /\ baud[p] \in Nat /\ baud[o] \in Nat
  <2>1. baud[p] \in Nat /\ baud[o] \in Nat
    BY <1>1, TypesAre, Constants DEF Bauds
  <2> QED
    BY <1>1, <1>2, <2>1, TypesAre DEF Succeeds, SpeedStays, OtherStays, Met, Trying, Testing, Reading, Placed
<1>8. Answered' => ~Alone'
  <2>1. at[p] = "speed" /\ at'[p] = "speed"
    BY <1>2, <1>7 DEF Placed, Succeeds
  <2>2. CASE p = "server"
    BY <1>1, <1>2, <2>1, <2>2 DEF Answered, Alone, OtherStays
  <2>3. CASE p = "client"
    BY <1>7, <2>3 DEF Alone
  <2> QED
    BY <1>1, <2>2, <2>3
<1>9. Heard(p)' /\ Heard(o)'
  <2>1. Heard(p)'
    BY <1>7 DEF Heard, Met, Testing, Reading
  <2>2. Heard(o)'
    BY <1>1, <1>2, <1>4, <1>7 DEF Heard, OtherStays, IntactAt
  <2> QED
    BY <2>1, <2>2
<1>10. Reached(p)' /\ Reached(o)'
  BY <1>1, <1>2, <1>7 DEF Reached, OtherStays, Heard
<1>11. TakSent'
  <2>1. CASE p = "client"
    <3>1. pc'["server"] = pc["server"] /\ (OneSpeed' <=> OneSpeed) /\ result'["client"] = "SUCCESS"
      BY <1>1, <1>7, <2>1 DEF OtherStays, OneSpeed
    <3>2. OneTak' => OneTak \/ OneSpeed
      BY <1>1, <1>4, <2>1, <3>1 DEF OneTak, IntactAt, OneSpeed
    <3>3. TwoTaks' => OneTak'
      BY DEF TwoTaks, OneTak, Twice, Has
    <3>4. pc["server"] \in Testing => baud["server"] >= baud["client"]
      BY <1>1, <1>2, <1>7, <2>1 DEF Heard, Testing, Reading
    <3>5. pc["server"] \in Testing /\ OneTak => OneSpeed
      BY <1>1, <1>2, <1>7, <2>1, <3>4 DEF TakSent
    <3> QED
      BY <3>1, <3>2, <3>3, <3>5 DEF TakSent
  <2>2. CASE p = "server"
    BY <1>7, <2>2 DEF TakSent, Testing, Reading
  <2> QED
    BY <1>1, <2>1, <2>2
<1>12. Finished'
  <2>1. CASE p = "client"
    BY <1>1, <1>2, <1>7, <2>1 DEF Finished, OtherStays
  <2>2. CASE p = "server"
    <3>1. pc["server"] = "tak2" /\ Has(inbox["server"], "TAK")
      BY <2>2, HasTaken DEF Succeeds
    <3>2. pc["server"] \in Testing
      BY <3>1 DEF Testing, Reading
    <3>3. OneSpeed /\ result["client"] = "SUCCESS"
      BY <1>2, <3>1, <3>2 DEF TakSent, TwoTaks
    <3> QED
      BY <1>1, <1>7, <2>2, <3>3 DEF Finished, OtherStays, OneSpeed
  <2> QED
    BY <1>1, <2>1, <2>2
<1> QED
  BY <1>1, <1>5, <1>6, <1>7, <1>8, <1>9, <1>10, <1>11, <1>12 DEF IInv

----------------------------------------------------------------------------
(* Each action is a step of one of these kinds, and keeps the types.        *)
LegFits(p, to, l) ==
    /\ to \in {"sync_byte", "string", "tak", "tak2"} => l = IF p = "server" THEN 2 ELSE 1
    /\ to \in {"sync_end", "check", "testack"} => l = IF p = "server" THEN 1 ELSE 2
    /\ to = "turn" => l = 1

LEMMA Speaking ==
    ASSUME TypeOK, NEW p \in Peers, NEW c \in Chars, NEW mine \in {inbox[p], Rest(p)},
           Send(p, c, mine) \/ Quietly(p, mine), baud' = baud
    PROVE  /\ inbox' \in [Peers -> Seq(Chars)] /\ noise' \in 0..MaxNoise
           /\ Takes(p) /\ Says(p, c) /\ inbox'[p] = mine
<1>1. mine \in Seq(Chars)
  BY Input
<1>2. CASE Send(p, c, mine)
  BY <1>1, <1>2, Sending DEF Send, Takes, Says
<1>3. CASE Quietly(p, mine)
  BY <1>1, <1>3, NotSending DEF Takes, Says
<1> QED
  BY <1>2, <1>3

LEMMA PlacedThen ==
    ASSUME TypeOK, IInv, NEW p \in Peers, pc[p] \in Testing, pc'[p] \in Testing,
           at'[p] = at[p], result'[p] = result[p], LegFits(p, pc'[p], leg'[p])
    PROVE  Placed(p)'
<1>1. Placed(p)
  BY DEF IInv
<1>2. at[p] = "speed" /\ pc[p] # "done" /\ result[p] = "none"
  BY <1>1, TypesAre DEF Placed, Trying, Testing, Reading
<1>3. pc'[p] # "exchange" /\ pc'[p] # "done" /\ pc'[p] # "ack"
  BY DEF Testing, Reading
<1> QED
  BY <1>2, <1>3 DEF Placed, LegFits

LEMMA TestStep ==
    ASSUME TypeOK, IInv, NEW p \in Peers, NEW c \in Chars, NEW mine \in {inbox[p], Rest(p)},
           NEW to \in Testing, NEW wait \in Nat, Go(p, to, wait),
           Send(p, c, mine) \/ Quietly(p, mine),
           UNCHANGED <<fixed, at, count, BaudCounter, baud, result, lead>>,
           limit' \in [Peers -> Nat], sync' \in [Peers -> Nat], leg' \in [Peers -> Legs],
           leg'[Other(p)] = leg[Other(p)], LegFits(p, to, leg'[p]),
           pc[p] \in Testing,
           to \in Met => pc[p] \in Met \/ (pc[p] = "hi" /\ Byte(p) = "HI"),
           to = "tak2" => pc[p] = "tak" /\ Byte(p) = "TAK" /\ mine = Rest(p),
           c = "TAK" /\ p = "client" => pc[p] = "check" /\ to = "testack",
           pc[p] = "testack" => p # "client"
    PROVE  TypeOK' /\ OtherStays(p) /\ GoesOn(p, c)
<1>1. to \in Places
  BY DEF Testing, Places, Pausing
<1>2. /\ pc' \in [Peers -> Places] /\ left' \in [Peers -> Nat]
      /\ pc'[p] = to /\ pc'[Other(p)] = pc[Other(p)]
  BY <1>1, Going
<1>3. /\ inbox' \in [Peers -> Seq(Chars)] /\ noise' \in 0..MaxNoise
      /\ Takes(p) /\ Says(p, c) /\ inbox'[p] = mine
  BY Speaking
<1>4. UNCHANGED <<was, MaxBaud, at, count, BaudCounter, baud, result, lead>>
  BY DEF fixed
<1>5. TypeOK'
  BY <1>2, <1>3, <1>4, TypesAre, TypesAfter
<1>6. OtherStays(p)
  BY <1>2, <1>4 DEF OtherStays
<1>7. Placed(p)'
  BY <1>2, <1>4, PlacedThen
<1>8. GoesOn(p, c)
  BY <1>2, <1>3, <1>4, <1>7 DEF GoesOn, SpeedStays
<1> QED
  BY <1>5, <1>6, <1>8

LEMMA SlowStep ==
    ASSUME TypeOK, NEW p \in Peers, NEW mine \in {inbox[p], Rest(p)}, NextSlower(p, mine),
           UNCHANGED <<fixed, at, count, lead>>, limit' \in [Peers -> Nat], pc[p] \in Testing
    PROVE  TypeOK' /\ OtherStays(p) /\ Slows(p)
<1>1. mine \in Seq(Chars)
  BY Input
<1>2. UNCHANGED <<was, MaxBaud, at, count, lead>>
  BY DEF fixed
<1>3. TypeOK' /\ OtherStays(p)
  <2>1. /\ pc' \in [Peers -> Places] /\ left' \in [Peers -> Nat] /\ sync' \in [Peers -> Nat]
        /\ baud' \in [Peers -> Bauds] /\ leg' \in [Peers -> Legs]
        /\ BaudCounter' \in [Peers -> Speeds]
        /\ inbox' \in [Peers -> Seq(Chars)] /\ noise' \in 0..MaxNoise
        /\ result' \in [Peers -> {"none", "SUCCESS", "FAIL"}]
    BY <1>1, GoingSlower
  <2>2. TypeOK'
    BY <1>2, <2>1, TypesAre, TypesAfter
  <2>3. OtherStays(p)
    BY <1>1, <1>2, GoingSlower DEF OtherStays
  <2> QED
    BY <2>2, <2>3
<1>4. Slows(p)
  BY <1>1, <1>2, GoingSlower DEF Slows, Takes, Says
<1> QED
  BY <1>3, <1>4

LEMMA SuccessStep ==
    ASSUME TypeOK, NEW p \in Peers, NEW c \in Chars, NEW mine \in {inbox[p], Rest(p)},
           Return(p, "SUCCESS"), Send(p, c, mine) \/ Quietly(p, mine),
           UNCHANGED <<fixed, at, leg, count, limit, sync, BaudCounter, baud, lead>>,
           IF p = "server" THEN pc[p] = "tak2" /\ Byte(p) = "TAK" ELSE pc[p] = "testack"
    PROVE  TypeOK' /\ OtherStays(p) /\ Succeeds(p, c)
<1>1. UNCHANGED <<was, MaxBaud, at, leg, count, limit, sync, BaudCounter, baud, lead>>
  BY DEF fixed
<1>2. /\ pc' \in [Peers -> Places] /\ left' \in [Peers -> Nat]
      /\ result' \in [Peers -> {"none", "SUCCESS", "FAIL"}]
      /\ pc'[p] = "done" /\ pc'[Other(p)] = pc[Other(p)]
      /\ result'[p] = "SUCCESS" /\ result'[Other(p)] = result[Other(p)]
  BY Returning
<1>3. /\ inbox' \in [Peers -> Seq(Chars)] /\ noise' \in 0..MaxNoise
      /\ Takes(p) /\ Says(p, c)
  BY <1>1, Speaking
<1>4. TypeOK'
  BY <1>1, <1>2, <1>3, TypesAre, TypesAfter
<1>5. OtherStays(p)
  BY <1>1, <1>2 DEF OtherStays
<1>6. Succeeds(p, c)
  BY <1>1, <1>2, <1>3 DEF Succeeds, SpeedStays
<1> QED
  BY <1>4, <1>5, <1>6

(* What keeps the invariant, and the types with it.                         *)
Sound(p) == /\ TypeOK' /\ OtherStays(p)
            /\ \E c \in Chars : Opens(p, c) \/ Clears(p) \/ Slows(p) \/ GoesOn(p, c) \/ Succeeds(p, c)

LEMMA SoundKeeps ==
    ASSUME TypeOK, IInv, NEW p \in Peers, Sound(p)
    PROVE  TypeOK' /\ IInv'
BY OpensKeeps, ClearsKeeps, SlowsKeeps, GoesOnKeeps, SucceedsKeeps DEF Sound

LEMMA AtSyncPointSound ==
    ASSUME TypeOK, IInv, NEW p \in Peers, AtSyncPoint(p)
    PROVE  Sound(p)
<1>1. Go(p, "slop", SYNC_SLOP) /\ SYNC_SLOP \in Nat /\ "slop" \in Places
  BY Constants DEF AtSyncPoint, Places, Pausing
<1>2. /\ pc' \in [Peers -> Places] /\ left' \in [Peers -> Nat]
      /\ pc'[p] = "slop" /\ pc'[Other(p)] = pc[Other(p)]
  BY <1>1, Going
<1>3. Quietly(p, <<>>) /\ <<>> \in Seq(Chars)
  BY DEF AtSyncPoint
<1>4. /\ inbox' \in [Peers -> Seq(Chars)] /\ noise' \in 0..MaxNoise
      /\ inbox'[p] = <<>> /\ inbox'[Other(p)] = inbox[Other(p)]
  BY <1>3, NotSending
<1>5. UNCHANGED <<was, MaxBaud, at, count, limit, BaudCounter, sync, baud, leg, result, lead>>
  BY DEF AtSyncPoint, fixed, speedvars
<1>6. TypeOK'
  BY <1>2, <1>4, <1>5, TypesAre, TypesAfter
<1>7. OtherStays(p) /\ Clears(p)
  BY <1>2, <1>4, <1>5 DEF OtherStays, Clears, SpeedStays, Says, AtSyncPoint
<1>8. "junk" \in Chars
  BY DEF Chars
<1> QED
  BY <1>6, <1>7, <1>8 DEF Sound

LEMMA SayHiSound ==
    ASSUME TypeOK, IInv, NEW p \in Peers, SayHi(p)
    PROVE  Sound(p)
<1>1. 2 * SYNC_SLOP \in Nat /\ "hi" \in Testing /\ "HI" \in Chars /\ "hi" \notin Met /\ pc[p] \in Testing
  BY Constants DEF Testing, Reading, Chars, Met, SayHi
<1>2. /\ Go(p, "hi", 2 * SYNC_SLOP) /\ Send(p, "HI", inbox[p])
      /\ UNCHANGED <<fixed, at, count, limit, BaudCounter, sync, baud, leg, result, lead>>
  BY DEF SayHi, speedvars
<1>3. /\ limit' \in [Peers -> Nat] /\ sync' \in [Peers -> Nat] /\ leg' \in [Peers -> Legs]
      /\ leg'[Other(p)] = leg[Other(p)] /\ LegFits(p, "hi", leg'[p])
  BY <1>2, TypesAre DEF LegFits
<1>4. pc[p] # "testack"
  BY DEF SayHi
<1>5. TypeOK' /\ OtherStays(p) /\ GoesOn(p, "HI")
  BY <1>1, <1>2, <1>3, <1>4, TestStep
<1> QED
  BY <1>1, <1>5 DEF Sound

LEMMA Waits ==
    ASSUME TypeOK, NEW p \in Peers
    PROVE  /\ Longer(p, 1) \in Nat /\ Longer(p, 2) \in Nat
           /\ TimeOut(p) => limit' \in [Peers -> Nat]
           /\ count[p] \in Nat /\ sync[p] \in Nat /\ limit[p] \in Nat
           /\ BaudCounter[p] \in 0..MIN_BAUD
           /\ StringTicks[BaudCounter[p]] \in Nat /\ Tested(p) \in Nat
<1>1. Longer(p, 1) \in Nat /\ Longer(p, 2) \in Nat
  BY Constants DEF Longer
<1>2. count[p] \in Nat /\ sync[p] \in Nat /\ limit[p] \in Nat /\ BaudCounter[p] \in 0..MIN_BAUD
  BY TypesAre DEF Speeds
<1>3. StringTicks[BaudCounter[p]] \in Nat /\ TestTicks[BaudCounter[p]] \in Nat
  BY <1>2, Constants
<1>4. count[p] + SYNC_TIME_OUT + Longer(p, 1) \in Nat
  BY <1>1, <1>2, Constants
<1>5. TimeOut(p) => limit' \in [Peers -> Nat]
  BY <1>4, TypesAre DEF TimeOut
<1> QED
  BY <1>1, <1>2, <1>3, <1>5 DEF Tested

(* The places of the tests, and what is said in them.                       *)
LEMMA TestPlaces ==
    /\ {"hi", "sync_byte", "tak", "tak2", "sync_end", "check", "testack", "string", "turn"} \subseteq Testing
    /\ {"sync_byte", "tak", "tak2", "sync_end", "check", "testack", "string", "turn"} \subseteq Met
    /\ {"HI", "SYNC_BYTE", "SYNC_END", "ACK", "TAK", "string", "junk"} \subseteq Chars
BY DEF Testing, Met, Reading, Chars

LEMMA HearHiSound ==
    ASSUME TypeOK, IInv, NEW p \in Peers, HearHi(p)
    PROVE  Sound(p)
<1>1. pc[p] = "hi" /\ pc[p] \in Testing /\ UNCHANGED <<fixed, at, count, lead>>
  BY TestPlaces DEF HearHi
<1>2. CASE Byte(p) # "HI"
  <2>1. NextSlower(p, Rest(p)) /\ limit' = limit
    BY <1>2 DEF HearHi
  <2>2. TypeOK' /\ OtherStays(p) /\ Slows(p)
    BY <1>1, <2>1, TypesAre, SlowStep
  <2> QED
    BY <2>2, TestPlaces DEF Sound
<1>3. CASE Byte(p) = "HI"
  <2>1. /\ sync' = [sync EXCEPT ![p] = Tested(p)] /\ leg' = [leg EXCEPT ![p] = 1] /\ TimeOut(p)
        /\ UNCHANGED <<BaudCounter, baud, result>>
        /\ IF p = "server" THEN BeginReceiver(p, Rest(p)) ELSE BeginSender(p, Rest(p))
    BY <1>3 DEF HearHi, BeginReceiver, BeginSender
  <2>2. /\ limit' \in [Peers -> Nat] /\ sync' \in [Peers -> Nat] /\ leg' \in [Peers -> Legs]
        /\ leg'[Other(p)] = leg[Other(p)] /\ leg'[p] = 1
    <3>1. 1 \in Legs
      BY DEF Legs
    <3> QED
      BY <2>1, <3>1, Waits, TypesAre, PeersAre
  <2>3. CASE p = "server"
    <3>1. Go(p, "sync_end", 1) /\ Quietly(p, Rest(p)) /\ LegFits(p, "sync_end", leg'[p])
      BY <2>1, <2>2, <2>3 DEF BeginReceiver, LegFits
    <3>2. TypeOK' /\ OtherStays(p) /\ GoesOn(p, "junk")
      BY <1>1, <1>3, <2>1, <2>2, <2>3, <3>1, TestPlaces, TestStep
    <3> QED
      BY <3>2, TestPlaces DEF Sound
  <2>4. CASE p # "server"
    <3>1. Go(p, "sync_byte", 1) /\ Send(p, "SYNC_BYTE", Rest(p)) /\ LegFits(p, "sync_byte", leg'[p])
      BY <2>1, <2>2, <2>4 DEF BeginSender, LegFits
    <3>2. TypeOK' /\ OtherStays(p) /\ GoesOn(p, "SYNC_BYTE")
      BY <1>1, <1>3, <2>1, <2>2, <2>4, <3>1, TestPlaces, TestStep
    <3> QED
      BY <3>2, TestPlaces DEF Sound
  <2> QED
    BY <2>3, <2>4
<1> QED
  BY <1>2, <1>3

LEMMA TurnSound ==
    ASSUME TypeOK, IInv, NEW p \in Peers, Turn(p)
    PROVE  Sound(p)
<1>1. /\ pc[p] = "turn" /\ pc[p] \in Testing /\ pc[p] \in Met /\ leg' = [leg EXCEPT ![p] = 2] /\ TimeOut(p)
      /\ UNCHANGED <<fixed, at, count, BaudCounter, sync, baud, result, lead>>
      /\ IF p = "server" THEN BeginSender(p, inbox[p]) ELSE BeginReceiver(p, inbox[p])
  BY TestPlaces DEF Turn, BeginSender, BeginReceiver
<1>2. /\ limit' \in [Peers -> Nat] /\ sync' \in [Peers -> Nat] /\ leg' \in [Peers -> Legs]
      /\ leg'[Other(p)] = leg[Other(p)] /\ leg'[p] = 2
  <2>1. 2 \in Legs
    BY DEF Legs
  <2> QED
    BY <1>1, <2>1, Waits, TypesAre, PeersAre
<1>3. CASE p # "server"
  <2>1. Go(p, "sync_end", 1) /\ Quietly(p, inbox[p]) /\ LegFits(p, "sync_end", leg'[p])
    BY <1>1, <1>2, <1>3 DEF BeginReceiver, LegFits
  <2>2. TypeOK' /\ OtherStays(p) /\ GoesOn(p, "junk")
    BY <1>1, <1>2, <1>3, <2>1, TestPlaces, TestStep
  <2> QED
    BY <2>2, TestPlaces DEF Sound
<1>4. CASE p = "server"
  <2>1. Go(p, "sync_byte", 1) /\ Send(p, "SYNC_BYTE", inbox[p]) /\ LegFits(p, "sync_byte", leg'[p])
    BY <1>1, <1>2, <1>4 DEF BeginSender, LegFits
  <2>2. TypeOK' /\ OtherStays(p) /\ GoesOn(p, "SYNC_BYTE")
    BY <1>1, <1>2, <1>4, <2>1, TestPlaces, TestStep
  <2> QED
    BY <2>2, TestPlaces DEF Sound
<1> QED
  BY <1>3, <1>4

(* A step of a test within one half of SetBaud.                             *)
LEMMA WithinHalf ==
    ASSUME TypeOK, IInv, NEW p \in Peers, NEW c \in Chars, NEW mine \in {inbox[p], Rest(p)},
           NEW to, NEW wait \in Nat, Go(p, to, wait),
           Send(p, c, mine) \/ Quietly(p, mine),
           UNCHANGED <<fixed, at, count, BaudCounter, baud, result, lead, sync, leg>>,
           limit' \in [Peers -> Nat],
           \/ pc[p] \in {"sync_byte", "string", "tak"} /\ to \in {"sync_byte", "string", "tak", "tak2"}
           \/ pc[p] \in {"sync_end", "check"} /\ to \in {"sync_end", "check", "testack"},
           to = "tak2" => pc[p] = "tak" /\ Byte(p) = "TAK" /\ mine = Rest(p),
           c = "TAK" => pc[p] = "check" /\ to = "testack"
    PROVE  Sound(p)
<1>1. to \in Testing /\ pc[p] \in Testing /\ pc[p] \in Met /\ pc[p] # "testack"
  BY TestPlaces
<1>2. sync' \in [Peers -> Nat] /\ leg' \in [Peers -> Legs] /\ leg' = leg
  BY TypesAre
<1>3. LegFits(p, to, leg'[p])
  BY <1>2 DEF IInv, Placed, LegFits
<1>4. TypeOK' /\ OtherStays(p) /\ GoesOn(p, c)
  BY <1>1, <1>2, <1>3, TestStep
<1> QED
  BY <1>4 DEF Sound

LEMMA SlowSound ==
    ASSUME TypeOK, NEW p \in Peers, NEW mine \in {inbox[p], Rest(p)}, NextSlower(p, mine),
           UNCHANGED <<fixed, at, count, limit, lead>>, pc[p] \in Testing
    PROVE  Sound(p)
BY SlowStep, TypesAre, TestPlaces DEF Sound

LEMMA SenderHandshakeSound ==
    ASSUME TypeOK, IInv, NEW p \in Peers, SenderHandshake(p)
    PROVE  Sound(p)
<1>1. pc[p] = "sync_byte" /\ pc[p] \in Testing /\ UNCHANGED <<fixed, at, count, limit, lead>>
  BY TestPlaces DEF SenderHandshake
<1>2. limit' \in [Peers -> Nat]
  BY <1>1, TypesAre
<1>3. CASE Byte(p) = "ACK"
  <2>1. Go(p, "string", StringTicks[BaudCounter[p]]) /\ Send(p, "SYNC_END", Rest(p)) /\ UNCHANGED speedvars
    BY <1>3 DEF SenderHandshake
  <2> QED
    BY <1>1, <1>2, <2>1, Waits, TestPlaces, WithinHalf DEF speedvars
<1>4. CASE Byte(p) = "HI"
  <2>1. Go(p, "sync_byte", 1) /\ Send(p, "HI", Rest(p)) /\ UNCHANGED speedvars
    BY <1>4 DEF SenderHandshake
  <2> QED
    BY <1>1, <1>2, <2>1, TestPlaces, WithinHalf DEF speedvars
<1>5. CASE Byte(p) \notin {"ACK", "HI"}
  <2>1. CASE NextSlower(p, Rest(p))
    BY <1>1, <2>1, SlowSound
  <2>2. CASE Go(p, "sync_byte", 1) /\ Quietly(p, Rest(p)) /\ UNCHANGED speedvars
    BY <1>1, <1>2, <2>2, TestPlaces, WithinHalf DEF speedvars
  <2> QED
    BY <1>5, <2>1, <2>2 DEF SenderHandshake
<1> QED
  BY <1>3, <1>4, <1>5

LEMMA StringSentSound ==
    ASSUME TypeOK, IInv, NEW p \in Peers, StringSent(p)
    PROVE  Sound(p)
<1>1. /\ pc[p] = "string" /\ Send(p, "string", inbox[p]) /\ Go(p, "tak", 1)
      /\ limit' = [limit EXCEPT ![p] = count[p] + SYNC_TIME_OUT + Longer(p, 2)]
      /\ UNCHANGED <<fixed, at, count, lead, speedvars>>
  BY DEF StringSent
<1>2. count[p] + SYNC_TIME_OUT + Longer(p, 2) \in Nat
  BY Waits, Constants
<1>3. limit' \in [Peers -> Nat]
  BY <1>1, <1>2, TypesAre
<1> QED
  BY <1>1, <1>3, TestPlaces, WithinHalf DEF speedvars

LEMMA WaitTakSound ==
    ASSUME TypeOK, IInv, NEW p \in Peers, WaitTak(p)
    PROVE  Sound(p)
<1>1. pc[p] = "tak" /\ pc[p] \in Testing /\ UNCHANGED <<fixed, at, count, limit, lead>>
  BY TestPlaces DEF WaitTak
<1>2. limit' \in [Peers -> Nat]
  BY <1>1, TypesAre
<1>3. CASE Byte(p) = "TAK"
  <2>1. Go(p, "tak2", Second \div 2) /\ Send(p, "ACK", Rest(p)) /\ UNCHANGED speedvars
    BY <1>3 DEF WaitTak
  <2> QED
    BY <1>1, <1>2, <1>3, <2>1, Constants, TestPlaces, WithinHalf DEF speedvars
<1>4. CASE Byte(p) # "TAK"
  <2>1. CASE NextSlower(p, Rest(p))
    BY <1>1, <2>1, SlowSound
  <2>2. CASE Go(p, "tak", 1) /\ Quietly(p, Rest(p)) /\ UNCHANGED speedvars
    BY <1>1, <1>2, <2>2, TestPlaces, WithinHalf DEF speedvars
  <2> QED
    BY <1>4, <2>1, <2>2 DEF WaitTak
<1> QED
  BY <1>3, <1>4

LEMMA ReceiverHandshakeSound ==
    ASSUME TypeOK, IInv, NEW p \in Peers, ReceiverHandshake(p)
    PROVE  Sound(p)
<1>1. pc[p] = "sync_end" /\ pc[p] \in Testing /\ UNCHANGED <<fixed, at, count, limit, lead>>
  BY TestPlaces DEF ReceiverHandshake
<1>2. limit' \in [Peers -> Nat]
  BY <1>1, TypesAre
<1>3. CASE Byte(p) = "SYNC_END"
  <2>1. /\ Go(p, "check", IF Modem(p) THEN 2 * Second ELSE Second \div 4) /\ Quietly(p, Rest(p))
        /\ UNCHANGED speedvars
    BY <1>3 DEF ReceiverHandshake
  <2>2. (IF Modem(p) THEN 2 * Second ELSE Second \div 4) \in Nat
    BY Constants
  <2> QED
    BY <1>1, <1>2, <2>1, <2>2, TestPlaces, WithinHalf DEF speedvars
<1>4. CASE Byte(p) \in {"SYNC_BYTE", "HI"}
  <2>1. PICK c \in {"HI", "ACK"} : Go(p, "sync_end", 1) /\ Send(p, c, Rest(p)) /\ UNCHANGED speedvars
    BY <1>4 DEF ReceiverHandshake
  <2> QED
    BY <1>1, <1>2, <2>1, TestPlaces, WithinHalf DEF speedvars
<1>5. CASE Byte(p) \notin {"SYNC_END", "SYNC_BYTE", "HI"}
  <2>1. CASE NextSlower(p, Rest(p))
    BY <1>1, <2>1, SlowSound
  <2>2. CASE Go(p, "sync_end", 1) /\ Quietly(p, Rest(p)) /\ UNCHANGED speedvars
    BY <1>1, <1>2, <2>2, TestPlaces, WithinHalf DEF speedvars
  <2> QED
    BY <1>5, <2>1, <2>2 DEF ReceiverHandshake
<1> QED
  BY <1>3, <1>4, <1>5

LEMMA CheckSyncStringSound ==
    ASSUME TypeOK, IInv, NEW p \in Peers, CheckSyncString(p)
    PROVE  Sound(p)
<1>1. pc[p] = "check" /\ pc[p] \in Testing /\ UNCHANGED <<fixed, at, count, limit, lead>>
  BY TestPlaces DEF CheckSyncString
<1>2. limit' \in [Peers -> Nat]
  BY <1>1, TypesAre
<1>3. CASE Byte(p) = "string"
  <2>1. /\ Go(p, "testack", IF Modem(p) THEN 2 * Second ELSE Second \div 2)
        /\ Send(p, "TAK", Rest(p)) /\ UNCHANGED speedvars
    BY <1>3 DEF CheckSyncString
  <2>2. (IF Modem(p) THEN 2 * Second ELSE Second \div 2) \in Nat
    BY Constants
  <2> QED
    BY <1>1, <1>2, <2>1, <2>2, TestPlaces, WithinHalf DEF speedvars
<1>4. CASE Byte(p) # "string"
  <2>1. NextSlower(p, Rest(p))
    BY <1>4 DEF CheckSyncString
  <2> QED
    BY <1>1, <2>1, SlowSound
<1> QED
  BY <1>3, <1>4

(* The end of one half of SetBaud: the other half, or SUCCESS.              *)
LEMMA HalfDoneSound ==
    ASSUME TypeOK, IInv, NEW p \in Peers, NEW c \in Chars, HalfDone(p),
           Send(p, c, Rest(p)) \/ Quietly(p, Rest(p)),
           UNCHANGED <<BaudCounter, sync, baud, leg, fixed, at, count, limit, lead>>,
           \/ pc[p] = "tak2" /\ Byte(p) = "TAK" /\ c # "TAK"
           \/ pc[p] = "testack"
    PROVE  Sound(p)
<1>1. pc[p] \in Testing /\ pc[p] \in Met /\ leg[p] = IF (pc[p] = "tak2") = (p = "server") THEN 2 ELSE 1
  BY TestPlaces DEF IInv, Placed
<1>2. CASE leg[p] = 1
  <2>1. Go(p, "turn", 0) /\ UNCHANGED result
    BY <1>2 DEF HalfDone
  <2>2. /\ limit' \in [Peers -> Nat] /\ sync' \in [Peers -> Nat] /\ leg' \in [Peers -> Legs]
        /\ leg' = leg /\ LegFits(p, "turn", leg'[p])
    BY <1>2, TypesAre DEF LegFits
  <2>3. pc[p] = "testack" => p # "client"
    BY <1>1, <1>2
  <2>4. c = "TAK" => p # "client"
    BY <2>3
  <2>5. TypeOK' /\ OtherStays(p) /\ GoesOn(p, c)
    BY <1>1, <2>1, <2>2, <2>3, <2>4, TestPlaces, TestStep
  <2> QED
    BY <2>5 DEF Sound
<1>3. CASE leg[p] # 1
  <2>1. Return(p, "SUCCESS")
    BY <1>3 DEF HalfDone
  <2>2. IF p = "server" THEN pc[p] = "tak2" /\ Byte(p) = "TAK" ELSE pc[p] = "testack"
    BY <1>1, <1>3 DEF Peers
  <2>3. TypeOK' /\ OtherStays(p) /\ Succeeds(p, c)
    BY <2>1, <2>2, SuccessStep
  <2> QED
    BY <2>3 DEF Sound
<1> QED
  BY <1>2, <1>3

LEMMA LastTakSound ==
    ASSUME TypeOK, IInv, NEW p \in Peers, LastTak(p)
    PROVE  Sound(p)
<1>1. pc[p] = "tak2" /\ pc[p] \in Testing /\ UNCHANGED <<fixed, at, count, limit, lead>>
  BY TestPlaces DEF LastTak
<1>2. CASE Byte(p) = "TAK"
  <2>1. HalfDone(p) /\ Quietly(p, Rest(p)) /\ UNCHANGED <<BaudCounter, sync, baud, leg>>
    BY <1>2 DEF LastTak
  <2>2. "junk" \in Chars /\ "junk" # "TAK"
    BY TestPlaces
  <2> QED
    BY <1>1, <1>2, <2>1, <2>2, HalfDoneSound
<1>3. CASE Byte(p) # "TAK"
  <2>1. NextSlower(p, Rest(p))
    BY <1>3 DEF LastTak
  <2> QED
    BY <1>1, <2>1, SlowSound
<1> QED
  BY <1>2, <1>3

LEMMA TestAckSound ==
    ASSUME TypeOK, IInv, NEW p \in Peers, TestAck(p)
    PROVE  Sound(p)
<1>1. pc[p] = "testack" /\ pc[p] \in Testing /\ UNCHANGED <<fixed, at, count, limit, lead>>
  BY TestPlaces DEF TestAck
<1>2. CASE Byte(p) = "ACK"
  <2>1. HalfDone(p) /\ Send(p, "TAK", Rest(p)) /\ UNCHANGED <<BaudCounter, sync, baud, leg>>
    BY <1>2 DEF TestAck
  <2>2. "TAK" \in Chars
    BY TestPlaces
  <2> QED
    BY <1>1, <2>1, <2>2, HalfDoneSound
<1>3. CASE Byte(p) # "ACK"
  <2>1. NextSlower(p, Rest(p))
    BY <1>3 DEF TestAck
  <2> QED
    BY <1>1, <2>1, SlowSound
<1> QED
  BY <1>2, <1>3

----------------------------------------------------------------------------
(* The way to the first speed.                                              *)
LEMMA SpeakingAt ==
    ASSUME TypeOK, NEW p \in Peers, NEW c \in Chars, NEW mine \in {inbox[p], Rest(p)},
           NEW b, b = baud'[p], SendAt(p, c, b, mine) \/ Quietly(p, mine)
    PROVE  /\ inbox' \in [Peers -> Seq(Chars)] /\ noise' \in 0..MaxNoise
           /\ Takes(p) /\ Says(p, c) /\ inbox'[p] = mine
<1>1. mine \in Seq(Chars)
  BY Input
<1>2. CASE SendAt(p, c, b, mine)
  BY <1>1, <1>2, Sending DEF Takes, Says
<1>3. CASE Quietly(p, mine)
  BY <1>1, <1>3, NotSending DEF Takes, Says
<1> QED
  BY <1>2, <1>3

LEMMA OpenStep ==
    ASSUME TypeOK, NEW p \in Peers, NEW c \in {"HI", "LOK", "ACK", "junk"},
           NEW mine \in {inbox[p], Rest(p)}, NEW b, b = baud'[p],
           SendAt(p, c, b, mine) \/ Quietly(p, mine),
           baud' \in [Peers -> Bauds], baud'[Other(p)] = baud[Other(p)],
           NEW to \in Opening, NEW wait \in Nat, Go(p, to, wait), pc[p] \in Opening,
           UNCHANGED <<fixed, leg, limit, sync, BaudCounter, result, lead>>,
           count' \in [Peers -> Nat], at' \in [Peers -> {"time", "speed"}],
           at'[Other(p)] = at[Other(p)], at'[p] = at[p] \/ (resync /\ at'[p] = "speed"),
           to = "exchange" => ~resync, to = "ack" => p = "server", to # "late",
           p = "client" => /\ c = "HI" => Alone
                           /\ c = "ACK" => to = "tick"
                           /\ to = "lok" /\ at'[p] = "time" => Alone,
           p = "server" => /\ c \notin {"HI", "ACK"}
                           /\ at'[p] = "speed" \/ to \in {"tick", "exchange"} => Answered
    PROVE  Sound(p)
<1>1. to \in Places /\ c \in Chars
  BY DEF Opening, Places, Reading, Pausing, Chars
<1>2. /\ pc' \in [Peers -> Places] /\ left' \in [Peers -> Nat]
      /\ pc'[p] = to /\ pc'[Other(p)] = pc[Other(p)]
  BY <1>1, Going
<1>3. /\ inbox' \in [Peers -> Seq(Chars)] /\ noise' \in 0..MaxNoise /\ Takes(p) /\ Says(p, c)
  BY <1>1, SpeakingAt
<1>4. UNCHANGED <<was, MaxBaud, leg, limit, sync, BaudCounter, result, lead>>
  BY DEF fixed
<1>5. TypeOK'
  BY <1>2, <1>3, <1>4, TypesAre, TypesAfter
<1>6. OtherStays(p)
  BY <1>2, <1>4 DEF OtherStays
<1>7. to # "sync" /\ to # "done"
  BY DEF Opening
<1>8. p = "client" => (Alone' => Alone) /\ (c = "ACK" => ~Alone')
  BY <1>2 DEF Alone
<1>9. Opens(p, c)
  BY <1>2, <1>3, <1>4, <1>7, <1>8 DEF Opens
<1> QED
  BY <1>1, <1>5, <1>6, <1>9 DEF Sound

LEMMA GiveUpStep ==
    ASSUME TypeOK, NEW p \in Peers, Return(p, "FAIL"), Quietly(p, Rest(p)), pc[p] \in Opening,
           UNCHANGED <<fixed, at, leg, count, limit, sync, BaudCounter, baud, lead>>,
           p = "server" => Answered \/ at[p] = "time"
    PROVE  Sound(p)
<1>1. UNCHANGED <<was, MaxBaud, at, leg, count, limit, sync, BaudCounter, baud, lead>>
  BY DEF fixed
<1>2. /\ pc' \in [Peers -> Places] /\ left' \in [Peers -> Nat]
      /\ result' \in [Peers -> {"none", "SUCCESS", "FAIL"}]
      /\ pc'[p] = "done" /\ pc'[Other(p)] = pc[Other(p)]
      /\ result'[p] = "FAIL" /\ result'[Other(p)] = result[Other(p)]
  BY Returning
<1>3. "junk" \in Chars
  BY TestPlaces
<1>4. /\ inbox' \in [Peers -> Seq(Chars)] /\ noise' \in 0..MaxNoise /\ Takes(p) /\ Says(p, "junk")
  BY <1>1, <1>3, Speaking
<1>5. TypeOK'
  BY <1>1, <1>2, <1>4, TypesAre, TypesAfter
<1>6. OtherStays(p)
  BY <1>1, <1>2 DEF OtherStays
<1>7. p = "client" => ~Alone'
  BY <1>2 DEF Alone
<1>8. Opens(p, "junk")
  BY <1>1, <1>2, <1>4, <1>7 DEF Opens
<1> QED
  BY <1>3, <1>5, <1>6, <1>8 DEF Sound

LEMMA SetSyncTimeSound ==
    ASSUME TypeOK, NEW p \in Peers, NEW mine \in {inbox[p], Rest(p)}, SetSyncTime(p, mine),
           pc[p] \in Opening, p = "client" => Alone,
           UNCHANGED <<fixed, at, leg, count, limit, sync, BaudCounter, result, lead>>
    PROVE  Sound(p)
<1> DEFINE b == IF Modem(p) THEN baud[p] ELSE LOW_BAUD
<1>1. /\ baud' = [baud EXCEPT ![p] = b]
      /\ IF p = "server" THEN Go(p, "hello", Second \div 10) /\ Quietly(p, mine)
                         ELSE Go(p, "lok", 2 * Second) /\ SendAt(p, "HI", b, mine)
  BY DEF SetSyncTime
<1>2. b \in Bauds /\ baud \in [Peers -> Bauds]
  BY TypesAre, Constants DEF Bauds
<1> HIDE DEF b
<1>3. baud' \in [Peers -> Bauds] /\ baud'[p] = b /\ baud'[Other(p)] = baud[Other(p)]
  BY <1>1, <1>2, PeersAre
<1>4. count' \in [Peers -> Nat] /\ at' \in [Peers -> {"time", "speed"}] /\ at' = at
  BY TypesAre
<1>5. Second \div 10 \in Nat /\ 2 * Second \in Nat
  BY Constants
<1>6. {"hello", "lok"} \subseteq Opening
  BY DEF Opening
<1>7. CASE p = "server"
  <2>1. Go(p, "hello", Second \div 10) /\ Quietly(p, mine)
    BY <1>1, <1>7
  <2>2. at'[p] = "speed" => Answered
    BY <1>4, <1>7 DEF Answered
  <2> QED
    BY <1>3, <1>4, <1>5, <1>6, <1>7, <2>1, <2>2, OpenStep
<1>8. CASE p # "server"
  <2>1. Go(p, "lok", 2 * Second) /\ SendAt(p, "HI", b, mine)
    BY <1>1, <1>8
  <2>2. Alone
    BY <1>8 DEF Peers
  <2> QED
    BY <1>3, <1>4, <1>5, <1>6, <1>8, <2>1, <2>2, OpenStep
<1> QED
  BY <1>7, <1>8

LEMMA TryAgainSound ==
    ASSUME TypeOK, NEW p \in Peers, TryAgain(p), pc[p] \in Opening,
           p = "client" => Alone \/ ~resync,
           UNCHANGED <<fixed, at, leg, count, limit, sync, BaudCounter, lead>>
    PROVE  Sound(p)
<1>1. CASE resync \/ p = "server"
  <2>1. SetSyncTime(p, Rest(p)) /\ UNCHANGED result
    BY <1>1 DEF TryAgain
  <2>2. p = "client" => Alone
    BY <1>1
  <2> QED
    BY <2>1, <2>2, SetSyncTimeSound
<1>2. CASE ~resync /\ p = "client"
  <2>1. Return(p, "FAIL") /\ Quietly(p, Rest(p)) /\ UNCHANGED baud
    BY <1>2 DEF TryAgain
  <2> QED
    BY <1>2, <2>1, GiveUpStep
<1> QED
  BY <1>1, <1>2 DEF Peers

LEMMA StartSound ==
    ASSUME TypeOK, IInv, NEW p \in Peers, Start(p)
    PROVE  Sound(p)
<1>1. /\ pc[p] = "late" /\ SetSyncTime(p, inbox[p])
      /\ UNCHANGED <<fixed, at, leg, count, limit, sync, BaudCounter, result, lead>>
  BY DEF Start
<1>2. pc[p] \in Opening /\ (p = "client" => Alone)
  BY <1>1 DEF Opening, Alone
<1> QED
  BY <1>1, <1>2, SetSyncTimeSound

LEMMA HelloSound ==
    ASSUME TypeOK, IInv, Hello
    PROVE  Sound("server")
<1>1. /\ pc["server"] = "hello" /\ "server" \in Peers /\ "server" # "client"
      /\ UNCHANGED <<fixed, at, leg, count, limit, sync, BaudCounter, lead>>
  BY DEF Hello, Peers
<1>2. {"hello", "ack"} \subseteq Opening
  BY DEF Opening
<1>3. CASE Byte("server") = "HI"
  <2>1. /\ Go("server", "ack", Second \div 2) /\ Send("server", "LOK", Rest("server"))
        /\ UNCHANGED <<baud, result>>
    BY <1>3 DEF Hello
  <2>2. /\ baud' \in [Peers -> Bauds] /\ baud' = baud /\ Second \div 2 \in Nat
        /\ count' \in [Peers -> Nat] /\ at' \in [Peers -> {"time", "speed"}] /\ at' = at
    BY <1>1, <2>1, TypesAre, Constants
  <2>3. SendAt("server", "LOK", baud'["server"], Rest("server"))
    BY <2>1, <2>2 DEF Send
  <2>4. at'["server"] = "speed" => Answered
    BY <2>2 DEF Answered
  <2> QED
    BY <1>1, <1>2, <2>1, <2>2, <2>3, <2>4, OpenStep
<1>4. CASE Byte("server") # "HI"
  <2>1. TryAgain("server")
    BY <1>4 DEF Hello
  <2> QED
    BY <1>1, <1>2, <2>1, TryAgainSound
<1> QED
  BY <1>3, <1>4

LEMMA MarchSound ==
    ASSUME TypeOK, IInv, NEW p \in Peers, March(p)
    PROVE  Sound(p)
<1> DEFINE want == IF p = "client" THEN "LOK" ELSE "ACK"
<1>1. /\ pc[p] \in {"lok", "ack"} /\ {"lok", "ack", "tick"} \subseteq Opening
      /\ UNCHANGED <<fixed, at, leg, count, limit, sync, BaudCounter, lead>>
  BY DEF March, Opening
<1>2. CASE Byte(p) = want
  <2>1. /\ Go(p, "tick", 1) /\ UNCHANGED <<baud, result>>
        /\ IF p = "client" THEN Send(p, "ACK", Rest(p)) ELSE Quietly(p, Rest(p))
    BY <1>2 DEF March
  <2>2. /\ baud' \in [Peers -> Bauds] /\ baud' = baud
        /\ count' \in [Peers -> Nat] /\ at' \in [Peers -> {"time", "speed"}] /\ at' = at
    BY <1>1, <2>1, TypesAre
  <2>3. CASE p = "client"
    <3>1. SendAt(p, "ACK", baud'[p], Rest(p)) /\ p # "server"
      BY <2>1, <2>2, <2>3 DEF Send
    <3> QED
      BY <1>1, <2>1, <2>2, <2>3, <3>1, OpenStep
  <2>4. CASE p = "server"
    <3>1. Quietly(p, Rest(p)) /\ Byte(p) = "ACK"
      BY <1>2, <2>1, <2>4
    <3>2. Answered
      BY <2>4, <3>1, HasTaken DEF Answered
    <3> QED
      BY <1>1, <2>1, <2>2, <2>4, <3>1, <3>2, OpenStep
  <2> QED
    BY <2>3, <2>4 DEF Peers
<1>3. CASE Byte(p) # want /\ at[p] = "time"
  <2>1. TryAgain(p)
    BY <1>3 DEF March
  <2>2. p = "client" => Alone \/ ~resync
    <3>1. p = "client" /\ pc[p] = "ack" => FALSE
      BY DEF IInv, Placed
    <3> QED
      BY <1>1, <1>3, <3>1 DEF Alone
  <2> QED
    BY <1>1, <2>1, <2>2, TryAgainSound
<1>4. CASE Byte(p) # want /\ at[p] = "speed"
  <2>1. Return(p, "FAIL") /\ Quietly(p, Rest(p)) /\ UNCHANGED baud
    BY <1>4 DEF March
  <2>2. p = "server" => Answered \/ at[p] = "time"
    BY <1>4 DEF Answered
  <2> QED
    BY <1>1, <2>1, <2>2, GiveUpStep
<1>5. at[p] \in {"time", "speed"}
  BY TypesAre
<1> QED
  BY <1>2, <1>3, <1>4, <1>5

LEMMA OnTheTickSound ==
    ASSUME TypeOK, IInv, NEW p \in Peers, OnTheTick(p)
    PROVE  Sound(p)
<1>1. /\ pc[p] = "tick" /\ count' = [count EXCEPT ![p] = 0]
      /\ UNCHANGED <<fixed, limit, BaudCounter, result, lead>>
  BY DEF OnTheTick
<1>2. count' \in [Peers -> Nat]
  BY <1>1, TypesAre
<1>3. p = "server" => Answered
  BY <1>1 DEF Answered
<1>4. pc[p] \in Opening /\ {"lok", "ack", "exchange"} \subseteq Opening
  BY <1>1 DEF Opening
<1>5. CASE /\ at[p] = "speed" /\ SetBaud(p, BaudCounter[p], 0, MAX_BAUD_SET_TICKS)
           /\ UNCHANGED <<at, inbox, noise>>
  <2>1. BaudCounter[p] \in Speeds /\ MAX_BAUD_SET_TICKS \in Nat
    BY TypesAre, Constants
  <2>2. /\ pc' \in [Peers -> Places] /\ left' \in [Peers -> Nat] /\ sync' \in [Peers -> Nat]
        /\ baud' \in [Peers -> Bauds] /\ leg' \in [Peers -> Legs]
        /\ pc'[p] = "sync" /\ pc'[Other(p)] = pc[Other(p)]
        /\ baud'[p] = IF BaudCounter[p] = MIN_BAUD THEN baud[p] ELSE BaudCounter[p]
        /\ baud'[Other(p)] = baud[Other(p)] /\ leg'[Other(p)] = leg[Other(p)]
    BY <1>5, <2>1, SettingBaud
  <2>3. UNCHANGED <<was, MaxBaud, limit, BaudCounter, result, lead, at, inbox, noise>>
    BY <1>1, <1>5 DEF fixed
  <2>4. TypeOK'
    BY <1>2, <2>2, <2>3, TypesAre, TypesAfter
  <2>5. OtherStays(p)
    BY <2>2, <2>3 DEF OtherStays
  <2>6. Opens(p, "junk")
    BY <1>3, <1>4, <1>5, <2>2, <2>3 DEF Opens, Takes, Says, Alone
  <2> QED
    BY <2>4, <2>5, <2>6, TestPlaces DEF Sound
<1>6. CASE at[p] = "time" /\ resync /\ BeginSpeed(p) /\ UNCHANGED <<leg, sync, baud>>
  <2>1. at' = [at EXCEPT ![p] = "speed"]
    BY <1>6 DEF BeginSpeed
  <2>2. /\ baud' \in [Peers -> Bauds] /\ baud' = baud
        /\ at' \in [Peers -> {"time", "speed"}] /\ at'[Other(p)] = at[Other(p)] /\ at'[p] = "speed"
    BY <1>6, <2>1, TypesAre, PeersAre
  <2>3. Second \div 2 \in Nat /\ 2 * Second \in Nat
    BY Constants
  <2>4. CASE p = "server"
    <3>1. Go(p, "ack", Second \div 2) /\ SendAt(p, "LOK", baud'[p], inbox[p])
      BY <1>6, <2>2, <2>4 DEF BeginSpeed, Send
    <3> QED
      BY <1>1, <1>2, <1>3, <1>4, <1>6, <2>2, <2>3, <2>4, <3>1, OpenStep
  <2>5. CASE p # "server"
    <3>1. Go(p, "lok", 2 * Second) /\ Quietly(p, inbox[p])
      BY <1>6, <2>5 DEF BeginSpeed
    <3> QED
      BY <1>1, <1>2, <1>3, <1>4, <1>6, <2>2, <2>3, <2>5, <3>1, OpenStep
  <2> QED
    BY <2>4, <2>5
<1>7. CASE /\ at[p] = "time" /\ ~resync /\ Go(p, "exchange", 2 * Second)
           /\ UNCHANGED <<at, leg, sync, baud, inbox, noise>>
  <2>1. /\ baud' \in [Peers -> Bauds] /\ baud' = baud /\ 2 * Second \in Nat
        /\ at' \in [Peers -> {"time", "speed"}] /\ at' = at
    BY <1>7, TypesAre, Constants
  <2>2. Quietly(p, inbox[p])
    BY <1>7, TypesAre DEF Quietly
  <2> QED
    BY <1>1, <1>2, <1>3, <1>4, <1>7, <2>1, <2>2, OpenStep
<1> QED
  BY <1>5, <1>6, <1>7 DEF OnTheTick

LEMMA ExchangeFailsSound ==
    ASSUME TypeOK, IInv, NEW p \in Peers, ExchangeFails(p)
    PROVE  Sound(p)
<1>1. /\ pc[p] = "exchange" /\ TryAgain(p)
      /\ UNCHANGED <<fixed, at, leg, count, limit, sync, BaudCounter, lead>>
  BY DEF ExchangeFails
<1>2. ~resync
  BY <1>1 DEF IInv, Placed
<1>3. pc[p] \in Opening
  BY <1>1 DEF Opening
<1> QED
  BY <1>1, <1>2, <1>3, TryAgainSound

----------------------------------------------------------------------------
(* The steps of both peers, and of time.                                    *)
LEMMA ExchangeKeeps ==
    ASSUME TypeOK, IInv, Exchange
    PROVE  TypeOK' /\ IInv'
<1>1. /\ \A p \in Peers : pc[p] = "exchange" /\ Placed(p)
      /\ "client" \in Peers /\ "server" \in Peers
  BY DEF IInv, Exchange, CanExchange, Peers
<1> DEFINE b == Larger(MaxBaud["client"], MaxBaud["server"])
<1>2. b \in Speeds
  <2>1. MaxBaud["client"] \in MaxBauds /\ MaxBaud["server"] \in MaxBauds
    BY <1>1, TypesAre
  <2> QED
    BY <2>1, ConnectAssumption DEF Larger, Speeds
<1>3. /\ BaudCounter' = [p \in Peers |-> b]
      /\ at' = [p \in Peers |-> "speed"]
      /\ pc' = [p \in Peers |-> IF p = "server" THEN "ack" ELSE "lok"]
      /\ left' = [p \in Peers |-> IF p = "server" THEN Second \div 2 ELSE 2 * Second]
      /\ UNCHANGED <<was, MaxBaud, leg, count, limit, sync, baud, result, lead>>
  BY DEF Exchange, fixed
<1>4. ~resync /\ (b = MIN_BAUD <=> Preset)
  BY <1>1 DEF Placed, Preset
<1> HIDE DEF b
<1>5. inbox' \in [Peers -> Seq(Chars)] /\ noise' \in 0..MaxNoise
  <2>1. PICK hit \in Hits :
            /\ inbox' = [p \in Peers |-> IF p = "server" \/ hit = "lost" THEN <<>>
                                         ELSE IF Intact("server") /\ hit = "none" THEN <<"LOK">>
                                         ELSE <<"junk">>]
            /\ noise' = IF hit = "none" THEN noise ELSE noise + 1
    BY DEF Exchange
  <2>2. <<>> \in Seq(Chars) /\ <<"LOK">> \in Seq(Chars) /\ <<"junk">> \in Seq(Chars)
    BY DEF Chars
  <2>3. noise' \in 0..MaxNoise
    BY <2>1, TypesAre, Constants DEF Hits
  <2> QED
    BY <2>1, <2>2, <2>3
<1>6. TypeOK'
  <2>1. pc' \in [Peers -> Places]
    BY <1>3 DEF Places, Reading
  <2>2. left' \in [Peers -> Nat]
    BY <1>3, Constants
  <2>3. BaudCounter' \in [Peers -> Speeds] /\ at' \in [Peers -> {"time", "speed"}]
    BY <1>2, <1>3
  <2> QED
    BY <1>3, <1>5, <2>1, <2>2, <2>3, TypesAre, TypesAfter
<1>7. \A p \in Peers : /\ pc'[p] \in {"lok", "ack"} /\ result'[p] = "none" /\ at'[p] = "speed"
                       /\ BaudCounter'[p] = b /\ (pc'[p] = "ack" => p = "server")
  BY <1>1, <1>3, TypesAre DEF Placed
<1>8. Preset' = Preset /\ resync' = resync
  BY <1>3 DEF Preset, resync, First
<1>9. \A p \in Peers : pc'[p] \notin Testing /\ pc'[p] \notin Trying
  BY <1>7 DEF Testing, Trying, Reading
<1>10. \A p \in Peers : Placed(p)' /\ SpeedKnown(p)' /\ Heard(p)' /\ Reached(p)'
  <2> SUFFICES ASSUME NEW p \in Peers PROVE Placed(p)' /\ SpeedKnown(p)' /\ Heard(p)' /\ Reached(p)'
    OBVIOUS
  <2>1. Placed(p)'
    BY <1>4, <1>7, <1>8, <1>9 DEF Placed
  <2>2. SpeedKnown(p)'
    BY <1>4, <1>7, <1>8, <1>9 DEF SpeedKnown
  <2>3. Heard(p)' /\ Reached(p)'
    BY <1>7, <1>9 DEF Heard, Reached, Met
  <2> QED
    BY <2>1, <2>2, <2>3
<1>11. ~Alone'
  BY <1>1, <1>7 DEF Alone
<1>12. TakSent' /\ Finished'
  BY <1>1, <1>7, <1>9 DEF TakSent, Finished
<1> QED
  BY <1>6, <1>10, <1>11, <1>12 DEF IInv

LEMMA StillIInv ==
    ASSUME IInv, UNCHANGED <<was, MaxBaud, pc, at, leg, BaudCounter, baud, inbox, result>>
    PROVE  IInv'
<1>1. \A p \in Peers : Placed(p)' /\ SpeedKnown(p)' /\ Heard(p)' /\ Reached(p)'
  BY DEF IInv, Placed, SpeedKnown, Heard, Reached, Preset, resync, First
<1>2. Answered' => ~Alone'
  BY DEF IInv, Answered, Alone
<1>3. TakSent' /\ Finished'
  BY DEF IInv, TakSent, Finished, OneTak, TwoTaks, OneSpeed
<1> QED
  BY <1>1, <1>2, <1>3 DEF IInv

LEMMA TickKeeps ==
    ASSUME TypeOK, IInv, NEW p \in Peers, Tick(p)
    PROVE  TypeOK' /\ IInv'
<1>1. UNCHANGED <<was, MaxBaud, pc, at, leg, limit, sync, BaudCounter, baud, inbox, result, noise>>
  BY DEF Tick, fixed
<1>2. lead' \in -1..1
  BY DEF Tick
<1>3. left' \in [Peers -> Nat]
  <2>1. left \in [Peers -> Nat]
    BY TypesAre
  <2>2. left[p] \in Nat /\ (left[p] # 0 => left[p] - 1 \in Nat)
    BY <2>1
  <2>3. left' = [left EXCEPT ![p] = IF left[p] = 0 THEN 0 ELSE left[p] - 1]
    BY DEF Tick
  <2> QED
    BY <2>1, <2>2, <2>3
<1>4. count' \in [Peers -> Nat]
  <2>1. count \in [Peers -> Nat]
    BY TypesAre
  <2>2. PICK n \in Nat : count' = [count EXCEPT ![p] = n]
    <3>1. count[p] + 1 \in Nat /\ 0 \in Nat
      BY <2>1
    <3> QED
      BY <3>1 DEF Tick
  <2> QED
    BY <2>1, <2>2
<1>5. TypeOK'
  BY <1>1, <1>2, <1>3, <1>4, TypesAre, TypesAfter
<1> QED
  BY <1>1, <1>5, StillIInv

LEMMA InitHolds ==
    ASSUME Init PROVE TypeOK /\ IInv
<1>1. TypeOK
  <2>1. MaxBaud \in [Peers -> MaxBauds] /\ was \in -1..MIN_BAUD
    <3>1. MaxBaud \in [Peers -> MaxBauds]
      BY DEF Init
    <3>2. MaxBaud["client"] \in 0..MIN_BAUD /\ MaxBaud["server"] \in 0..MIN_BAUD
      BY <3>1, ConnectAssumption DEF Peers
    <3>3. Larger(MaxBaud["client"], MaxBaud["server"]) \in 0..MIN_BAUD
      BY <3>2 DEF Larger
    <3>4. was \in {-1} \union (Larger(MaxBaud["client"], MaxBaud["server"]) .. MIN_BAUD)
      BY DEF Init
    <3>5. was \in -1..MIN_BAUD
      BY <3>3, <3>4, ConnectAssumption
    <3> QED
      BY <3>1, <3>5
  <2>2. First \in Speeds
    BY <2>1, Constants DEF First, Speeds
  <2>3. BaudCounter \in [Peers -> Speeds]
    BY <2>2 DEF Init
  <2>4. baud \in [Peers -> Bauds]
    BY <2>1, Constants DEF Init, Bauds
  <2>5. /\ pc \in [Peers -> Places] /\ left \in [Peers -> Nat] /\ at \in [Peers -> {"time", "speed"}]
        /\ leg \in [Peers -> Legs] /\ count \in [Peers -> Nat] /\ limit \in [Peers -> Nat]
        /\ sync \in [Peers -> Nat] /\ inbox \in [Peers -> Seq(Chars)]
        /\ result \in [Peers -> {"none", "SUCCESS", "FAIL"}] /\ lead \in -1..1 /\ noise \in 0..MaxNoise
    BY Constants DEF Init, Places, Legs
  <2> QED
    BY <2>1, <2>3, <2>4, <2>5, TypesAre
<1>2. /\ "client" \in Peers /\ "server" \in Peers
      /\ \A p \in Peers : /\ pc[p] = "late" /\ result[p] = "none" /\ at[p] = "time"
                          /\ inbox[p] = <<>> /\ BaudCounter[p] = First
  BY DEF Init, Peers
<1>3. \A p \in Peers : pc[p] \notin Testing /\ pc[p] \notin Trying
  BY <1>2 DEF Testing, Trying, Reading
<1>4. \A p \in Peers : Placed(p) /\ SpeedKnown(p) /\ Heard(p) /\ Reached(p)
  BY <1>2, <1>3 DEF Placed, SpeedKnown, Heard, Reached, Met, Preset
<1>5. ~Answered
  BY <1>2 DEF Answered, Has
<1>6. TakSent /\ Finished
  BY <1>2, <1>3 DEF TakSent, Finished
<1> QED
  BY <1>1, <1>4, <1>5, <1>6 DEF IInv

LEMMA NextKeeps ==
    ASSUME TypeOK, IInv, [Next]_vars
    PROVE  TypeOK' /\ IInv'
<1>1. CASE UNCHANGED vars
  <2>1. TypeOK'
    BY <1>1 DEF vars, TypeOK
  <2>2. IInv'
    BY <1>1, StillIInv DEF vars
  <2> QED
    BY <2>1, <2>2
<1>2. CASE Hello
  BY <1>2, HelloSound, SoundKeeps DEF Peers
<1>3. CASE Exchange
  BY <1>3, ExchangeKeeps
<1>4. ASSUME NEW p \in Peers, Step(p)
      PROVE  TypeOK' /\ IInv'
  <2>1. Sound(p)
    BY <1>4, StartSound, MarchSound, OnTheTickSound, ExchangeFailsSound, AtSyncPointSound,
       SayHiSound, HearHiSound, TurnSound, SenderHandshakeSound, StringSentSound, WaitTakSound,
       LastTakSound, ReceiverHandshakeSound, CheckSyncStringSound, TestAckSound DEF Step
  <2> QED
    BY <2>1, SoundKeeps
<1>5. ASSUME NEW p \in Peers, Tick(p)
      PROVE  TypeOK' /\ IInv'
  BY <1>5, TickKeeps
<1> QED
  BY <1>1, <1>2, <1>3, <1>4, <1>5 DEF Next

LEMMA BothHold == Spec => [](TypeOK /\ IInv)
<1>1. Init => TypeOK /\ IInv
  BY InitHolds
<1>2. TypeOK /\ IInv /\ [Next]_vars => (TypeOK /\ IInv)'
  BY NextKeeps
<1> QED
  BY <1>1, <1>2, PTL DEF Spec

----------------------------------------------------------------------------
(* The state of both peers and the line between them is of its types        *)
(* (RemoteConnect, ReSync and Speed, serlink.c): in particular no port is   *)
(* ever set to the table's last entry, which is no speed, and BaudCounter   *)
(* does not pass it.                                                        *)
THEOREM TypeCorrect == Spec => []TypeOK
<1>1. TypeOK /\ IInv => TypeOK
  OBVIOUS
<1> QED
  BY <1>1, BothHold, PTL

(* ServerLast: the server takes the link for established (RemoteConnect,    *)
(* serlink.c:921) only after the client has, at the same speed, which the   *)
(* line carries both ways; whatever is lost or damaged, and however late    *)
(* one peer is.                                                             *)
THEOREM EstablishedByBoth == Spec => []ServerLast
<1>1. TypeOK /\ IInv => ServerLast
  <2> SUFFICES ASSUME TypeOK, IInv, result["server"] = "SUCCESS"
               PROVE  /\ result["client"] = "SUCCESS"
                      /\ BaudCounter["client"] = BaudCounter["server"]
                      /\ \A p \in Peers : Intact(p)
    BY DEF ServerLast
  <2>1. result["client"] = "SUCCESS" /\ OneSpeed
    BY DEF IInv, Finished
  <2>2. \A p \in Peers : SpeedKnown(p) /\ Reached(p) /\ result[p] = "SUCCESS" /\ p \in {"client", "server"}
    BY <2>1 DEF IInv, Peers
  <2>3. BaudCounter["client"] = BaudCounter["server"]
    BY <2>1, <2>2 DEF SpeedKnown, OneSpeed, Peers
  <2>4. \A p \in Peers : Intact(p)
    BY <2>1, <2>2 DEF Reached, Intact, IntactAt, OneSpeed, Other, Peers
  <2> QED
    BY <2>1, <2>3, <2>4
<1> QED
  BY <1>1, BothHold, PTL

=============================================================================
