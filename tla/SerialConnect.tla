--------------------------- MODULE SerialConnect ---------------------------
(***************************************************************************)
(* How the two ends of the serial link come to one speed (bld/trap/ser/c/   *)
(* serlink.c): RemoteConnect, ReSync, and the negotiation Speed that both   *)
(* use.  The peers agree on a tick (MarchToTheSameDrummer); from it each    *)
(* counts by its own clock, and at fixed sync points tries the next speed   *)
(* of the table.  Nothing but the clock keeps the tries together.           *)
(*                                                                         *)
(* The clocks tick one after the other, in any order, at most one tick      *)
(* apart.  A character arrives in less than a tick, and a program that has  *)
(* input or whose wait is over runs before the next tick.  A character that *)
(* the line does not carry at its speed, or that meets a port set to        *)
(* another speed, arrives as junk.                                          *)
(***************************************************************************)
EXTENDS Integers, Sequences

CONSTANTS
    MIN_BAUD,            \* the table's last entry: leave the speed as it is
    LOW_BAUD,            \* the speed of the first contact
    TestTicks,           \* full_test_ticks of a speed
    StringTicks,         \* what sending SYNC_LEN characters takes
    MAX_BAUD_SET_TICKS, SYNC_SLOP, SYNC_TIME_OUT,
    Second,              \* SEC(1), in ticks
    MaxBauds,            \* the speeds a port may be limited to
    Carries,             \* the speeds at which what a peer sends arrives intact
    MaxLate,             \* bound: ticks that one program starts after the other
    MaxNoise             \* bound: characters lost or damaged

Peers == {"client", "server"}
Other(p) == IF p = "client" THEN "server" ELSE "client"

ASSUME ConnectAssumption ==
    /\ MIN_BAUD \in Nat /\ LOW_BAUD \in 0..(MIN_BAUD - 1)
    /\ TestTicks \in [0..MIN_BAUD -> Nat] /\ StringTicks \in [0..MIN_BAUD -> Nat]
    /\ {MAX_BAUD_SET_TICKS, SYNC_SLOP, SYNC_TIME_OUT, Second, MaxLate, MaxNoise} \subseteq Nat
    /\ SYNC_SLOP > 0
    /\ MaxBauds \subseteq 0..MIN_BAUD
    /\ Carries \in [Peers -> SUBSET (0..MIN_BAUD)]

VARIABLES
    was,           \* the speed ReSync was called at, or -1: the peers run RemoteConnect
    MaxBaud,       \* the limit of each port
    pc,            \* what each peer is doing
    at,            \* "time" in SetSyncTime, "speed" in Speed
    leg,           \* which half of SetBaud is being done
    left,          \* ticks left of the wait a peer is in
    count,         \* WaitCount, from the ZeroWaitCount of Speed on
    limit,         \* wait_time
    sync,          \* sync_point of Speed: the next one
    BaudCounter,   \* the speed tried, and in the end agreed on
    baud,          \* the speed each port is set to
    inbox,         \* characters received and not read
    result,        \* of the whole: "none", "SUCCESS" or "FAIL"
    lead,          \* how many ticks the client's clock is ahead
    noise          \* what has used up MaxNoise

vars == <<was, MaxBaud, pc, at, leg, left, count, limit, sync, BaudCounter, baud,
          inbox, result, lead, noise>>

Chars == {"HI", "LOK", "ACK", "TAK", "SYNC_BYTE", "SYNC_END", "string", "junk"}

(* WaitByte is called in these places, Wait in those. *)
Reading == {"hello", "lok", "ack", "hi", "sync_byte", "tak", "tak2", "sync_end", "check", "testack"}
Pausing == {"tick", "sync", "slop", "string", "exchange"}

resync   == was >= 0
Modem(p) == MaxBaud[p] = MIN_BAUD
Longer(p, n) == IF Modem(p) THEN n * Second ELSE 0

----------------------------------------------------------------------------
(* The line, when p's port is set to the speed b. *)
IntactAt(p, b) == b = baud[Other(p)] /\ b \in Carries[p]
Intact(p) == IntactAt(p, baud[p])

Arrives(p, c, b, hit) ==
    IF pc[Other(p)] = "done" \/ hit = "lost" THEN inbox[Other(p)]
    ELSE Append(inbox[Other(p)], IF IntactAt(p, b) /\ hit = "none" THEN c ELSE "junk")

Hits == IF noise < MaxNoise THEN {"none", "lost", "junk"} ELSE {"none"}

(* p sends c at the speed b and is left with the input mine. *)
SendAt(p, c, b, mine) ==
    \E hit \in Hits :
        /\ inbox' = [inbox EXCEPT ![p] = mine, ![Other(p)] = Arrives(p, c, b, hit)]
        /\ noise' = IF hit = "none" THEN noise ELSE noise + 1

Send(p, c, mine) == SendAt(p, c, baud[p], mine)

Quietly(p, mine) == inbox' = [inbox EXCEPT ![p] = mine] /\ UNCHANGED noise

(* Mutant: MarchToTheSameDrummer waits for ACK for ever. *)
NeverExpired(p) == left[p] = 0 /\ pc[p] # "ack"

(* The end of a WaitByte: a character, or NO_DATA.  While the other side is *)
(* sending the sync string its characters keep CheckSyncString waiting.     *)
Expired(p) == left[p] = 0 /\ ~(pc[p] = "check" /\ pc[Other(p)] = "string")
Ready(p)   == pc[p] \in Reading /\ (inbox[p] # <<>> \/ Expired(p))
Byte(p)    == IF inbox[p] # <<>> THEN Head(inbox[p]) ELSE "NO_DATA"
Rest(p)    == IF inbox[p] # <<>> THEN Tail(inbox[p]) ELSE <<>>

Go(p, to, wait) == pc' = [pc EXCEPT ![p] = to] /\ left' = [left EXCEPT ![p] = wait]
Return(p, r) ==
    /\ pc' = [pc EXCEPT ![p] = "done"] /\ left' = [left EXCEPT ![p] = 0]
    /\ result' = [result EXCEPT ![p] = r]

fixed == <<was, MaxBaud>>

----------------------------------------------------------------------------
(* SetSyncTime up to its first wait. *)
SetSyncTime(p, mine) ==
    LET b == IF Modem(p) THEN baud[p] ELSE LOW_BAUD IN
    /\ baud' = [baud EXCEPT ![p] = b]
    /\ IF p = "server"
       THEN Go(p, "hello", Second \div 10) /\ Quietly(p, mine)
       ELSE Go(p, "lok", 2 * Second) /\ SendAt(p, "HI", b, mine)

(* A program enters RemoteConnect or ReSync. *)
Start(p) ==
    /\ pc[p] = "late"
    /\ SetSyncTime(p, inbox[p])
    /\ UNCHANGED <<fixed, at, leg, count, limit, sync, BaudCounter, result, lead>>

(* SetSyncTime or the exchange of RemoteConnect has failed: the server's    *)
(* main loop calls RemoteConnect again, ReSync calls SetSyncTime again.     *)
TryAgain(p) ==
    \/ /\ resync \/ p = "server"
       /\ SetSyncTime(p, Rest(p))
       /\ UNCHANGED result
    \/ /\ ~resync /\ p = "client"
       /\ Return(p, "FAIL")
       /\ Quietly(p, Rest(p))
       /\ UNCHANGED baud

(* The wait of the server for the HI of SetSyncTime. *)
Hello ==
    /\ Ready("server") /\ pc["server"] = "hello"
    /\ \/ /\ Byte("server") = "HI"
          /\ Go("server", "ack", Second \div 2)
          /\ Send("server", "LOK", Rest("server"))
          /\ UNCHANGED <<baud, result>>
       \/ /\ Byte("server") # "HI"
          /\ TryAgain("server")
    /\ UNCHANGED <<fixed, at, leg, count, limit, sync, BaudCounter, lead>>

(* MarchToTheSameDrummer: the client waits for LOK, the server for ACK. *)
March(p) ==
    /\ Ready(p) /\ pc[p] \in {"lok", "ack"}
    /\ LET want == IF p = "client" THEN "LOK" ELSE "ACK" IN
       \/ /\ Byte(p) = want
          /\ Go(p, "tick", 1)
          /\ IF p = "client" THEN Send(p, "ACK", Rest(p)) ELSE Quietly(p, Rest(p))
          /\ UNCHANGED <<baud, result>>
       \/ /\ Byte(p) # want /\ at[p] = "time"
          /\ TryAgain(p)
       \/ /\ Byte(p) # want /\ at[p] = "speed"
          /\ Return(p, "FAIL")
          /\ Quietly(p, Rest(p))
          /\ UNCHANGED baud
    /\ UNCHANGED <<fixed, at, leg, count, limit, sync, BaudCounter, lead>>

(* Speed up to its first wait. *)
BeginSpeed(p) ==
    /\ at' = [at EXCEPT ![p] = "speed"]
    /\ IF p = "server" THEN Go(p, "ack", Second \div 2) /\ Send(p, "LOK", inbox[p])
                       ELSE Go(p, "lok", 2 * Second) /\ Quietly(p, inbox[p])

(* Mutant: the last entry of the table is set as a speed. *)
SetAnyBaud(p, b, now, point) ==
    /\ sync' = [sync EXCEPT ![p] = point + MAX_BAUD_SET_TICKS + 3 * SYNC_SLOP]
    /\ baud' = [baud EXCEPT ![p] = b]
    /\ leg' = [leg EXCEPT ![p] = 0]
    /\ Go(p, "sync", IF point > now THEN point - now ELSE 0)

(* SetBaud up to its SyncPoint. *)
SetBaud(p, b, now, point) ==
    /\ sync' = [sync EXCEPT ![p] = point + MAX_BAUD_SET_TICKS + 3 * SYNC_SLOP]
    /\ baud' = [baud EXCEPT ![p] = IF b = MIN_BAUD THEN @ ELSE b]
    /\ leg' = [leg EXCEPT ![p] = 0]
    /\ Go(p, "sync", IF point > now THEN point - now ELSE 0)

(* Wait( 1 ); ZeroWaitCount(), and what follows. *)
OnTheTick(p) ==
    /\ pc[p] = "tick" /\ left[p] = 0
    /\ count' = [count EXCEPT ![p] = 0]
    /\ \/ /\ at[p] = "speed"
          /\ SetBaud(p, BaudCounter[p], 0, MAX_BAUD_SET_TICKS)
          /\ UNCHANGED <<at, inbox, noise>>
       \/ /\ at[p] = "time" /\ resync
          /\ BeginSpeed(p)
          /\ UNCHANGED <<leg, sync, baud>>
       \/ /\ at[p] = "time" /\ ~resync
          /\ Go(p, "exchange", 2 * Second)
          /\ UNCHANGED <<at, leg, sync, baud, inbox, noise>>
    /\ UNCHANGED <<fixed, limit, BaudCounter, result, lead>>

(* The blocks that carry MaxBaud: BlockSend and WaitReceive on both sides,  *)
(* which bring over both limits or time out.  They read what input there is.*)
Smaller(a, b) == IF a < b THEN a ELSE b  \* mutant of Larger
Larger(a, b) == IF a > b THEN a ELSE b

CanExchange == \A p \in Peers : pc[p] = "exchange" /\ Intact(p)

Exchange ==
    /\ CanExchange
    /\ BaudCounter' = [p \in Peers |-> Larger(MaxBaud["client"], MaxBaud["server"])]
    /\ at' = [p \in Peers |-> "speed"]
    /\ pc' = [p \in Peers |-> IF p = "server" THEN "ack" ELSE "lok"]
    /\ left' = [p \in Peers |-> IF p = "server" THEN Second \div 2 ELSE 2 * Second]
    /\ \E hit \in Hits :
         /\ inbox' = [p \in Peers |-> IF p = "server" \/ hit = "lost" THEN <<>>
                                      ELSE IF Intact("server") /\ hit = "none" THEN <<"LOK">>
                                      ELSE <<"junk">>]
         /\ noise' = IF hit = "none" THEN noise ELSE noise + 1
    /\ UNCHANGED <<fixed, leg, count, limit, sync, baud, result, lead>>

ExchangeFails(p) ==
    /\ pc[p] = "exchange" /\ left[p] = 0
    /\ TryAgain(p)
    /\ UNCHANGED <<fixed, at, leg, count, limit, sync, BaudCounter, lead>>

----------------------------------------------------------------------------
(* Speed: SetBaud has failed, try the next slower speed. *)
NextSlower(p, mine) ==
    /\ inbox' = [inbox EXCEPT ![p] = mine] /\ UNCHANGED noise
    /\ IF BaudCounter[p] + 1 >= MIN_BAUD
       THEN /\ BaudCounter' = [BaudCounter EXCEPT ![p] = MIN_BAUD]
            /\ Return(p, "FAIL")
            /\ UNCHANGED <<sync, baud, leg>>
       ELSE /\ BaudCounter' = [BaudCounter EXCEPT ![p] = @ + 1]
            /\ SetBaud(p, BaudCounter[p] + 1, count[p], sync[p])
            /\ UNCHANGED result

speedvars == <<BaudCounter, sync, baud, leg, result>>

(* SyncPoint has been reached: ClearCom, Wait( SYNC_SLOP ). *)
AtSyncPoint(p) ==
    /\ pc[p] = "sync" /\ left[p] = 0
    /\ Go(p, "slop", SYNC_SLOP)
    /\ Quietly(p, <<>>)
    /\ UNCHANGED <<fixed, at, count, limit, speedvars, lead>>

(* Mutant: the HI of the other side must be there at once. *)
SayHiImpatiently(p) ==
    /\ pc[p] = "slop" /\ left[p] = 0
    /\ Go(p, "hi", 0)
    /\ Send(p, "HI", inbox[p])
    /\ UNCHANGED <<fixed, at, count, limit, speedvars, lead>>

SayHi(p) ==
    /\ pc[p] = "slop" /\ left[p] = 0
    /\ Go(p, "hi", 2 * SYNC_SLOP)
    /\ Send(p, "HI", inbox[p])
    /\ UNCHANGED <<fixed, at, count, limit, speedvars, lead>>

(* The beginning of SetBaudSender and of SetBaudReceiver. *)
TimeOut(p) == limit' = [limit EXCEPT ![p] = count[p] + SYNC_TIME_OUT + Longer(p, 1)]
BeginSender(p, mine)   == TimeOut(p) /\ Go(p, "sync_byte", 1) /\ Send(p, "SYNC_BYTE", mine)
BeginReceiver(p, mine) == TimeOut(p) /\ Go(p, "sync_end", 1) /\ Quietly(p, mine)

(* The sync point moves on by the time that a whole test of the speed takes.*)
NotTested(p) == sync[p]                      \* mutant: it does not
Tested(p) == sync[p] + TestTicks[BaudCounter[p]]

HearHi(p) ==
    /\ Ready(p) /\ pc[p] = "hi"
    /\ \/ /\ Byte(p) = "HI"
          /\ sync' = [sync EXCEPT ![p] = Tested(p)]
          /\ leg' = [leg EXCEPT ![p] = 1]
          /\ IF p = "server" THEN BeginReceiver(p, Rest(p)) ELSE BeginSender(p, Rest(p))
          /\ UNCHANGED <<BaudCounter, baud, result>>
       \/ /\ Byte(p) # "HI"
          /\ NextSlower(p, Rest(p))
          /\ UNCHANGED limit
    /\ UNCHANGED <<fixed, at, count, lead>>

(* Mutant: SetBaud returns after its first half. *)
HalfIsEnough(p) == Return(p, "SUCCESS")

(* One half of SetBaud has succeeded. *)
HalfDone(p) ==
    IF leg[p] = 1 THEN Go(p, "turn", 0) /\ UNCHANGED result ELSE Return(p, "SUCCESS")

Turn(p) ==
    /\ pc[p] = "turn"
    /\ leg' = [leg EXCEPT ![p] = 2]
    /\ IF p = "server" THEN BeginSender(p, inbox[p]) ELSE BeginReceiver(p, inbox[p])
    /\ UNCHANGED <<fixed, at, count, BaudCounter, sync, baud, result, lead>>

(* SenderHandshake. *)
SenderHandshake(p) ==
    /\ Ready(p) /\ pc[p] = "sync_byte"
    /\ \/ /\ Byte(p) = "ACK"
          /\ Go(p, "string", StringTicks[BaudCounter[p]])
          /\ Send(p, "SYNC_END", Rest(p))
          /\ UNCHANGED speedvars
       \/ /\ Byte(p) = "HI"
          /\ Go(p, "sync_byte", 1)
          /\ Send(p, "HI", Rest(p))
          /\ UNCHANGED speedvars
       \/ /\ Byte(p) \notin {"ACK", "HI"} /\ count[p] > limit[p]
          /\ NextSlower(p, Rest(p))
       \/ /\ Byte(p) \notin {"ACK", "HI"} /\ count[p] <= limit[p]
          /\ Go(p, "sync_byte", 1) /\ Quietly(p, Rest(p))
          /\ UNCHANGED speedvars
    /\ UNCHANGED <<fixed, at, count, limit, lead>>

(* SetBaudSender: the string is out, wait for the TAK that answers it. *)
StringSent(p) ==
    /\ pc[p] = "string" /\ left[p] = 0
    /\ Send(p, "string", inbox[p])
    /\ Go(p, "tak", 1)
    /\ limit' = [limit EXCEPT ![p] = count[p] + SYNC_TIME_OUT + Longer(p, 2)]
    /\ UNCHANGED <<fixed, at, count, speedvars, lead>>

WaitTak(p) ==
    /\ Ready(p) /\ pc[p] = "tak"
    /\ \/ /\ Byte(p) = "TAK"
          /\ Go(p, "tak2", Second \div 2)
          /\ Send(p, "ACK", Rest(p))
          /\ UNCHANGED speedvars
       \/ /\ Byte(p) # "TAK" /\ count[p] >= limit[p]
          /\ NextSlower(p, Rest(p))
       \/ /\ Byte(p) # "TAK" /\ count[p] < limit[p]
          /\ Go(p, "tak", 1) /\ Quietly(p, Rest(p))
          /\ UNCHANGED speedvars
    /\ UNCHANGED <<fixed, at, count, limit, lead>>

LastTak(p) ==
    /\ Ready(p) /\ pc[p] = "tak2"
    /\ \/ /\ Byte(p) = "TAK"
          /\ HalfDone(p) /\ Quietly(p, Rest(p))
          /\ UNCHANGED <<BaudCounter, sync, baud, leg>>
       \/ /\ Byte(p) # "TAK"
          /\ NextSlower(p, Rest(p))
    /\ UNCHANGED <<fixed, at, count, limit, lead>>

(* ReceiverHandshake. *)
ReceiverHandshake(p) ==
    /\ Ready(p) /\ pc[p] = "sync_end"
    /\ \/ /\ Byte(p) = "SYNC_END"
          /\ Go(p, "check", IF Modem(p) THEN 2 * Second ELSE Second \div 4)
          /\ Quietly(p, Rest(p))
          /\ UNCHANGED speedvars
       \/ /\ Byte(p) \in {"SYNC_BYTE", "HI"}
          /\ Go(p, "sync_end", 1)
          /\ Send(p, IF Byte(p) = "HI" THEN "HI" ELSE "ACK", Rest(p))
          /\ UNCHANGED speedvars
       \/ /\ Byte(p) \notin {"SYNC_END", "SYNC_BYTE", "HI"} /\ count[p] >= limit[p]
          /\ NextSlower(p, Rest(p))
       \/ /\ Byte(p) \notin {"SYNC_END", "SYNC_BYTE", "HI"} /\ count[p] < limit[p]
          /\ Go(p, "sync_end", 1) /\ Quietly(p, Rest(p))
          /\ UNCHANGED speedvars
    /\ UNCHANGED <<fixed, at, count, limit, lead>>

(* CheckSyncString. *)
CheckSyncString(p) ==
    /\ Ready(p) /\ pc[p] = "check"
    /\ \/ /\ Byte(p) = "string"
          /\ Go(p, "testack", IF Modem(p) THEN 2 * Second ELSE Second \div 2)
          /\ Send(p, "TAK", Rest(p))
          /\ UNCHANGED speedvars
       \/ /\ Byte(p) # "string"
          /\ NextSlower(p, Rest(p))
    /\ UNCHANGED <<fixed, at, count, limit, lead>>

TestAck(p) ==
    /\ Ready(p) /\ pc[p] = "testack"
    /\ \/ /\ Byte(p) = "ACK"
          /\ HalfDone(p) /\ Send(p, "TAK", Rest(p))
          /\ UNCHANGED <<BaudCounter, sync, baud, leg>>
       \/ /\ Byte(p) # "ACK"
          /\ NextSlower(p, Rest(p))
    /\ UNCHANGED <<fixed, at, count, limit, lead>>

----------------------------------------------------------------------------
(* Time. *)
Resting(p) ==
    \/ pc[p] = "done"
    \/ pc[p] \in Reading /\ ~Ready(p)
    \/ pc[p] \in Pausing /\ left[p] > 0
    \/ pc[p] = "late" /\ left[p] > 0

Tick(p) ==
    /\ \A q \in Peers : Resting(q)
    /\ \E q \in Peers : pc[q] # "done"
    /\ ~CanExchange
    /\ lead' = IF p = "client" THEN lead + 1 ELSE lead - 1
    /\ lead' \in -1..1
    /\ left' = [left EXCEPT ![p] = IF @ = 0 THEN 0 ELSE @ - 1]
    /\ count' = [count EXCEPT ![p] = IF at[p] = "speed" /\ pc[p] \notin {"lok", "ack", "tick", "done"}
                                     THEN @ + 1 ELSE 0]
    /\ UNCHANGED <<fixed, pc, at, leg, limit, sync, BaudCounter, baud, inbox, result, noise>>

(* Both programs enter the same function at about the same time; ReSync      *)
(* begins with the speed below the one that both ends had.                  *)
First == IF was = MIN_BAUD THEN MIN_BAUD ELSE was + 1     \* RemoteConnect: 0 up to Exchange

Init ==
    /\ MaxBaud \in [Peers -> MaxBauds]
    /\ was \in {-1} \union Larger(MaxBaud["client"], MaxBaud["server"])..MIN_BAUD
    /\ BaudCounter = [p \in Peers |-> First]
    /\ baud = [p \in Peers |-> IF was \in 0..(MIN_BAUD - 1) THEN was ELSE LOW_BAUD]
    /\ pc = [p \in Peers |-> "late"] /\ at = [p \in Peers |-> "time"]
    /\ leg = [p \in Peers |-> 0]
    /\ left = [p \in Peers |-> MaxLate]
    /\ count = [p \in Peers |-> 0] /\ limit = [p \in Peers |-> 0]
    /\ sync = [p \in Peers |-> 0]
    /\ inbox = [p \in Peers |-> <<>>]
    /\ result = [p \in Peers |-> "none"]
    /\ lead = 0 /\ noise = 0

Step(p) ==
    \/ Start(p) \/ March(p) \/ OnTheTick(p) \/ ExchangeFails(p)
    \/ AtSyncPoint(p) \/ SayHi(p) \/ HearHi(p) \/ Turn(p)
    \/ SenderHandshake(p) \/ StringSent(p) \/ WaitTak(p) \/ LastTak(p)
    \/ ReceiverHandshake(p) \/ CheckSyncString(p) \/ TestAck(p)

Next == Hello \/ Exchange \/ \E p \in Peers : Step(p) \/ Tick(p)

Spec     == Init /\ [][Next]_vars
FairSpec == Spec /\ WF_vars(Next)

----------------------------------------------------------------------------
TypeOK ==
    /\ was \in -1..MIN_BAUD /\ MaxBaud \in [Peers -> MaxBauds]
    /\ pc \in [Peers -> Reading \union Pausing \union {"late", "turn", "done"}]
    /\ at \in [Peers -> {"time", "speed"}] /\ leg \in [Peers -> 0..2]
    /\ left \in [Peers -> Nat] /\ count \in [Peers -> Nat]
    /\ limit \in [Peers -> Nat] /\ sync \in [Peers -> Nat]
    /\ BaudCounter \in [Peers -> 0..MIN_BAUD] /\ baud \in [Peers -> 0..(MIN_BAUD - 1)]
    /\ inbox \in [Peers -> Seq(Chars)]
    /\ result \in [Peers -> {"none", "SUCCESS", "FAIL"}]
    /\ lead \in -1..1 /\ noise \in 0..MaxNoise

(* Both ends count a connection from the same event: when the server, which *)
(* is the last, takes the link for established (RemoteConnect returns TRUE, *)
(* serlink.c:921), so has the client, and the ports are at one speed, which *)
(* the line carries in both directions.                                     *)
ServerLast ==
    result["server"] = "SUCCESS" =>
        /\ result["client"] = "SUCCESS"
        /\ BaudCounter["client"] = BaudCounter["server"]
        /\ \A p \in Peers : Intact(p)

(* TEST_TIME (serial.h:82) is enough: however long a try took to fail, its  *)
(* program is back at SyncPoint in time, and never starts the next try      *)
(* later than the other side expects (the difference in SyncPoint would be  *)
(* negative).                                                               *)
OnTime ==
    \A p \in Peers : pc[p] = "sync" =>
        count[p] + left[p] = sync[p] - MAX_BAUD_SET_TICKS - 3 * SYNC_SLOP

(* Without noise the peers try each speed together: when both have passed a *)
(* sync point (serlink.c:238) it is the same one, and of the same speed.    *)
Testing == (Reading \union {"slop", "string", "turn"}) \ {"hello", "lok", "ack"}
InStep ==
    (\A p \in Peers : pc[p] \in Testing) /\ noise = 0 =>
        /\ BaudCounter["client"] = BaudCounter["server"]
        /\ (leg["client"] = leg["server"] => sync["client"] = sync["server"])

AllDone == \A p \in Peers : pc[p] = "done"

(* The speeds that Speed tries, and those of them at which it can succeed.  *)
Tried  == {b \in First..MIN_BAUD :
             /\ \A p \in Peers : b >= MaxBaud[p]
             /\ b = MIN_BAUD => First = MIN_BAUD \/ \E p \in Peers : MaxBaud[p] = MIN_BAUD}
Usable == {b \in Tried : \A p \in Peers :
              (IF b = MIN_BAUD THEN LOW_BAUD ELSE b) \in Carries[p]}

(* "This routine sets up the highest possible baud rate" (serlink.c:306):   *)
(* if nothing but the speed spoils characters, both ends succeed at the     *)
(* fastest speed that the line carries and both ports have, and fail only   *)
(* if there is none.                                                        *)
HighestSpeed ==
    noise = 0 /\ AllDone =>
        \A p \in Peers :
            /\ result[p] = "SUCCESS" <=> Usable # {}
            /\ Usable # {} => /\ BaudCounter[p] \in Usable
                              /\ \A b \in Usable : BaudCounter[p] <= b

(* RemoteConnect comes to an end whatever is lost: both programs have       *)
(* returned, or the client has and the server waits for the next caller.    *)
AtRest == AllDone \/ (pc["client"] = "done" /\ at["server"] = "time")
ConnectEnds == ~resync => <>AtRest

(* "This routine ReSync speed.  Returns:  SUCCESS or FAIL" (serlink.c:609). *)
ReSyncReturns == resync => <>AllDone
=============================================================================
