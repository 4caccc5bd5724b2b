------------------------------ MODULE SerialLink ------------------------------
(***************************************************************************)
(* The serial transport of the remote debugger, bld/trap/ser/c/serlink.c,  *)
(* linked into a trap file on the client side and into a debug server on   *)
(* the other.  A peer sends a numbered block and waits for ACK; NAK asks   *)
(* for the block again, RLR ("request last response") for the last ACK or  *)
(* NAK.  The calls above it follow the client of common/remote.c           *)
(* (DoRequest) and the server of common/servacc.c (Session).               *)
(*                                                                         *)
(* A character sent is in the receive buffer of the other peer at once:    *)
(* every time-out of the code is at least 1/4 second, far longer than a    *)
(* block takes, so a wait times out only when the buffer is empty.  Noise  *)
(* is an action of its own, which strikes characters not yet read.         *)
(***************************************************************************)
EXTENDS Integers, Sequences

CONSTANTS
    WireMod,      \* values of the two-byte block number of a block
    CtrMod,       \* values of the C type unsigned of SendBlkNo, ReceiveBlkNo
    MAX_ERRORS,   \* errors of one BlockSend above which the peers ReSync
    ClearsInput,  \* ClearCom drops unread input (all platforms but NT)
    Prompt,       \* a peer that waits for input reads it before the other's
                  \* wait for an answer times out
    OneWay,       \* the requests that want no answer (Out_Mx_Num = 0)
    MaxRequests,  \* bound: requests of the client
    MaxNoise,     \* bound: characters or blocks struck by noise
    MaxGiveUps,   \* bound: BlockSend calls that time out
    RcvCap        \* bound: an RLR that finds this much unread input is lost

ASSUME LinkAssumption ==
    /\ WireMod \in Nat /\ CtrMod \in Nat /\ 2 <= WireMod /\ WireMod <= CtrMod
    /\ MAX_ERRORS \in Nat
    /\ ClearsInput \in BOOLEAN /\ Prompt \in BOOLEAN
    /\ OneWay \subseteq Nat
    /\ MaxRequests \in Nat /\ MaxNoise \in Nat /\ MaxGiveUps \in Nat
    /\ RcvCap \in Nat

Peers == {"client", "server"}
Other(p) == IF p = "client" THEN "server" ELSE "client"

VARIABLES
    pc,            \* where each peer is in the code
    SendBlkNo, ReceiveBlkNo, LastResponse, Errors, PrevErrors,
    blk,           \* the block BlockSend is sending, or sent last
    buf,           \* characters received by each peer and not read yet
    put,           \* history: RemotePut calls each peer has begun
    sent,          \* history: the calls that did not return REQUEST_FAILED
    got,           \* history: the blocks each peer accepted, in order
    noise, giveups \* history: what has used up MaxNoise and MaxGiveUps

counters == <<SendBlkNo, ReceiveBlkNo>>
vars == <<pc, SendBlkNo, ReceiveBlkNo, LastResponse, Errors, PrevErrors, blk,
          buf, put, sent, got, noise, giveups>>

(***************************************************************************)
(* What travels: control characters; blocks; and what noise leaves, a      *)
(* character that means nothing ("junk"), a block with bytes missing or a  *)
(* bad CRC ("torn"), a block whose length bytes exceed the buffer          *)
(* ("toolong").  The field body is the data: the number of the request,    *)
(* or of the request it answers.  Noise does not turn one control          *)
(* character into another, and the CRC catches every damaged block.        *)
(***************************************************************************)
Ctl(k) == [kind |-> k]
Controls == {Ctl(k) : k \in {"ACK", "NAK", "RLR", "junk", "torn", "toolong"}}
Blocks == [kind : {"STX"}, no : 0..WireMod-1, err : 0..MAX_ERRORS+1,
           id : Nat, body : Nat]

\* ++SendBlkNo and ++ReceiveBlkNo, and the two bytes of it a block carries.
SameNo(n) == n
Succ(n) == IF n + 1 = CtrMod THEN 0 ELSE n + 1
Wire(n) == n % WireMod

\* ++Errors; only "more than MAX_ERRORS" is ever asked of the counter.
Bump(e) == IF e > MAX_ERRORS THEN e ELSE e + 1

\* Counters, buffers and histories of both peers are of their kinds and widths.
TypeOK ==
    /\ pc \in [Peers -> {"app", "send", "drain", "hunt", "putsync", "getsync",
                         "stopped"}]
    /\ SendBlkNo \in [Peers -> 0..CtrMod-1]
    /\ ReceiveBlkNo \in [Peers -> 0..CtrMod-1]
    /\ LastResponse \in [Peers -> {"ACK", "NAK"}]
    /\ Errors \in [Peers -> 0..MAX_ERRORS+1]
    /\ PrevErrors \in [Peers -> 0..MAX_ERRORS+1]
    /\ blk \in [Peers -> Blocks]
    /\ buf \in [Peers -> Seq(Controls \cup Blocks)]
    /\ put \in [Peers -> Nat]
    /\ sent \in [Peers -> SUBSET Nat]
    /\ got \in [Peers -> Seq([id : Nat, body : Nat, kept : BOOLEAN])]
    /\ noise \in Nat
    /\ giveups \in Nat

(***************************************************************************)
(* The state in which RemoteConnect returns 1 on both sides: each peer has *)
(* sent and received one block, its MaxBaud, and Session is waiting.       *)
(***************************************************************************)
Init ==
    /\ pc = [p \in Peers |-> IF p = "client" THEN "app" ELSE "hunt"]
    /\ SendBlkNo = [p \in Peers |-> 1]
    /\ ReceiveBlkNo = [p \in Peers |-> 1]
    /\ LastResponse = [p \in Peers |-> "ACK"]
    /\ Errors = [p \in Peers |-> 0]
    /\ PrevErrors = [p \in Peers |-> 0]
    /\ blk = [p \in Peers |->
                [kind |-> "STX", no |-> 0, err |-> 0, id |-> 0, body |-> 0]]
    /\ buf = [p \in Peers |-> << >>]
    /\ put = [p \in Peers |-> 0]
    /\ sent = [p \in Peers |-> {}]
    /\ got = [p \in Peers |-> << >>]
    /\ noise = 0 /\ giveups = 0

AfterClear(s) == IF ClearsInput THEN << >> ELSE s

\* p's buffer becomes mine, and the other peer receives the sequence out.
Exchange(p, mine, out) ==
    buf' = [buf EXCEPT ![p] = mine, ![Other(p)] = @ \o out]

\* The request served last, whose answer the server owes.
Served == IF got["server"] = << >> THEN 0
          ELSE got["server"][Len(got["server"])].body

-------------------------------------------------------------------------------
(***************************************************************************)
(* RemotePut: BlockSend up to the wait for an answer.                      *)
(***************************************************************************)
StartSend(p, body) ==
    LET b == [kind |-> "STX", no |-> Wire(SendBlkNo[p]),
              err |-> Errors[p], id |-> put[p] + 1, body |-> body]
    IN  /\ put' = [put EXCEPT ![p] = @ + 1]
        /\ blk' = [blk EXCEPT ![p] = b]
        /\ Exchange(p, AfterClear(buf[p]), <<b>>)
        /\ PrevErrors' = [PrevErrors EXCEPT ![p] = Errors[p]]
        /\ Errors' = [Errors EXCEPT ![p] = 0]
        /\ pc' = [pc EXCEPT ![p] = "send"]
        /\ UNCHANGED <<counters, LastResponse, sent, got, noise, giveups>>

\* DoRequest puts the next request.
Request ==
    /\ pc["client"] = "app"
    /\ put["client"] < MaxRequests
    /\ StartSend("client", put["client"] + 1)

\* The server has carried out the request: AccTrap puts the answer ...
Reply ==
    /\ pc["server"] = "app" /\ Served \notin OneWay
    /\ StartSend("server", Served)

\* ... or, when the request wants none, Session goes for the next one.
NextRequest ==
    /\ pc["server"] = "app" /\ Served \in OneWay
    /\ pc' = [pc EXCEPT !["server"] = "hunt"]
    /\ UNCHANGED <<counters, LastResponse, Errors, PrevErrors, blk, buf, put,
                   sent, got, noise, giveups>>

\* Where a peer goes when its RemotePut has returned len.
AfterPut(p) == IF p = "client" /\ blk[p].body \in OneWay THEN "app" ELSE "hunt"

(***************************************************************************)
(* The wait of BlockSend, one action per character it can read.  NAK and   *)
(* RLR send it back to the top of the loop that sends the block.           *)
(***************************************************************************)
ResendNothing(p) == << >>
Resend(p) == <<blk[p]>>

ReadsIn(p, where, kinds) ==
    /\ pc[p] = where
    /\ buf[p] # << >>
    /\ Head(buf[p]).kind \in kinds

AckArrives(p) ==
    /\ ReadsIn(p, "send", {"ACK"})
    /\ Exchange(p, Tail(buf[p]), << >>)
    /\ SendBlkNo' = [SendBlkNo EXCEPT ![p] = Succ(@)]
    /\ sent' = [sent EXCEPT ![p] = @ \cup {put[p]}]
    /\ pc' = [pc EXCEPT ![p] =
                IF PrevErrors[p] > MAX_ERRORS THEN "putsync" ELSE AfterPut(p)]
    /\ UNCHANGED <<ReceiveBlkNo, LastResponse, Errors, PrevErrors, blk, put, got,
                   noise, giveups>>

NakArrives(p) ==
    /\ ReadsIn(p, "send", {"NAK"})
    /\ Exchange(p, Tail(buf[p]), Resend(p))
    /\ Errors' = [Errors EXCEPT ![p] = Bump(@)]
    /\ UNCHANGED <<pc, counters, LastResponse, PrevErrors, blk, put, sent, got,
                   noise, giveups>>

RlrArrives(p) ==
    /\ ReadsIn(p, "send", {"RLR"})
    /\ Exchange(p, Tail(buf[p]), <<Ctl(LastResponse[p])>> \o Resend(p))
    /\ UNCHANGED <<pc, counters, LastResponse, Errors, PrevErrors, blk, put, sent,
                   got, noise, giveups>>

\* "Things are totally messed up": discard what comes until the line is quiet.
MessArrives(p) ==
    /\ \/ ReadsIn(p, "send", {"STX", "junk", "torn", "toolong"})
       \/ pc[p] = "drain" /\ buf[p] # << >>
    /\ Exchange(p, Tail(buf[p]), << >>)
    /\ pc' = [pc EXCEPT ![p] = "drain"]
    /\ UNCHANGED <<counters, LastResponse, Errors, PrevErrors, blk, put, sent, got,
                   noise, giveups>>

\* Nothing has come to p for as long as one of its waits lasts.  The draining
\* loop of the other peer ends before the wait of BlockSend does.
Silence(p) ==
    /\ buf[p] = << >>
    /\ Prompt => /\ \/ buf[Other(p)] = << >>
                    \/ pc[Other(p)] \notin {"send", "drain", "hunt"}
                 /\ pc[p] = "drain" \/ pc[Other(p)] # "drain"

\* A second without an answer, or the quiet that ends the draining loop.
Quiet(p) ==
    /\ pc[p] \in {"send", "drain"}
    /\ Silence(p)
    /\ pc' = [pc EXCEPT ![p] = "send"]
    /\ Errors' = [Errors EXCEPT ![p] = Bump(@)]
    /\ Exchange(p, << >>, IF Len(buf[Other(p)]) < RcvCap THEN <<Ctl("RLR")>>
                          ELSE << >>)
    /\ UNCHANGED <<counters, LastResponse, PrevErrors, blk, put, sent, got, noise,
                   giveups>>

(***************************************************************************)
(* The wait is over after ten seconds: RemotePut returns REQUEST_FAILED.   *)
(* Each of those seconds has counted an error.  Session ignores the        *)
(* failure and waits for the next request; TrapAccess reports it, and the  *)
(* debugger stops while a client without failure callback carries on.      *)
(***************************************************************************)
GiveUp(p) ==
    /\ pc[p] = "send" /\ Silence(p)
    /\ Errors[p] > MAX_ERRORS
    /\ giveups < MaxGiveUps
    /\ giveups' = giveups + 1
    /\ \E to \in IF p = "client" THEN {"app", "stopped"} ELSE {"hunt"} :
          pc' = [pc EXCEPT ![p] = to]
    /\ UNCHANGED <<counters, LastResponse, Errors, PrevErrors, blk, buf, put, sent,
                   got, noise>>

-------------------------------------------------------------------------------
(***************************************************************************)
(* RemoteGet: the WaitReceive loop, with BlockReceive as one step.  A      *)
(* block with more than MAX_ERRORS errors is accepted, acknowledged and    *)
(* then reported to the caller as one of 0 bytes: it is not kept.          *)
(***************************************************************************)
Accept(p) ==
    LET b == Head(buf[p]) IN
    /\ ReadsIn(p, "hunt", {"STX"})
    /\ b.no = ReceiveBlkNo[p]
    /\ Exchange(p, Tail(buf[p]), <<Ctl("ACK")>>)
    /\ LastResponse' = [LastResponse EXCEPT ![p] = "ACK"]
    /\ ReceiveBlkNo' = [ReceiveBlkNo EXCEPT ![p] = Succ(@)]
    /\ got' = [got EXCEPT ![p] = Append(@,
                [id |-> b.id, body |-> b.body, kept |-> b.err <= MAX_ERRORS])]
    /\ pc' = [pc EXCEPT ![p] = IF b.err > MAX_ERRORS THEN "getsync" ELSE "app"]
    /\ UNCHANGED <<SendBlkNo, Errors, PrevErrors, blk, put, sent, noise, giveups>>

\* The answers of WaitReceive to RLR and of BlockReceive to another number.
LastAnswer(p) == LastResponse[p]
RlrAnswer(p) == "NAK"
NakAnswer == "NAK"
OtherNoAnswer == "ACK"

\* A whole block with another number is taken for one received before.
Discard(p) ==
    /\ ReadsIn(p, "hunt", {"STX"})
    /\ Head(buf[p]).no # ReceiveBlkNo[p]
    /\ Exchange(p, AfterClear(Tail(buf[p])), <<Ctl(OtherNoAnswer)>>)
    /\ LastResponse' = [LastResponse EXCEPT ![p] = OtherNoAnswer]
    /\ UNCHANGED <<pc, counters, Errors, PrevErrors, blk, put, sent, got, noise,
                   giveups>>

\* Missing bytes are taken from what follows, which is lost with the block.
TornBlock(p) ==
    /\ ReadsIn(p, "hunt", {"torn"})
    /\ \E n \in 1..Len(buf[p]) :
          Exchange(p, SubSeq(buf[p], n + 1, Len(buf[p])), <<Ctl("NAK")>>)
    /\ LastResponse' = [LastResponse EXCEPT ![p] = "NAK"]
    /\ UNCHANGED <<pc, counters, Errors, PrevErrors, blk, put, sent, got, noise,
                   giveups>>

\* len > max_len: neither answered nor remembered in LastResponse.
OversizeBlock(p) ==
    /\ ReadsIn(p, "hunt", {"toolong"})
    /\ Exchange(p, AfterClear(Tail(buf[p])), << >>)
    /\ UNCHANGED <<pc, counters, LastResponse, Errors, PrevErrors, blk, put, sent,
                   got, noise, giveups>>

\* RLR is answered with NAK whatever LastResponse is; the rest is skipped.
HuntOther(p) ==
    /\ ReadsIn(p, "hunt", {"RLR", "ACK", "NAK", "junk"})
    /\ Exchange(p, Tail(buf[p]),
                IF Head(buf[p]).kind = "RLR" THEN <<Ctl(RlrAnswer(p))>> ELSE << >>)
    /\ UNCHANGED <<pc, counters, LastResponse, Errors, PrevErrors, blk, put, sent,
                   got, noise, giveups>>

(***************************************************************************)
(* ReSync loops on SetSyncTime until the other peer is in ReSync as well;  *)
(* the speed negotiation that follows flushes the input of both and its    *)
(* result is ignored.                                                      *)
(***************************************************************************)
ReSync ==
    /\ \A p \in Peers : pc[p] \in {"putsync", "getsync"}
    /\ pc' = [p \in Peers |-> IF pc[p] = "putsync" THEN AfterPut(p) ELSE "app"]
    /\ buf' = [p \in Peers |-> << >>]
    /\ UNCHANGED <<counters, LastResponse, Errors, PrevErrors, blk, put, sent, got,
                   noise, giveups>>

\* SetSyncTime of a client alone in ReSync sends HI every two seconds; a
\* server in ReSync waits for HI in silence and reads all that comes.
SyncAlone(p) ==
    /\ pc[p] \in {"putsync", "getsync"}
    /\ pc[Other(p)] \notin {"putsync", "getsync"}
    /\ p = "client" \/ buf[p] # << >>
    /\ Exchange(p, << >>, IF p = "client" /\ buf[Other(p)] = << >>
                          THEN <<Ctl("junk")>> ELSE << >>)
    /\ UNCHANGED <<pc, counters, LastResponse, Errors, PrevErrors, blk, put, sent,
                   got, noise, giveups>>

-------------------------------------------------------------------------------
\* What noise can make of an item, an empty sequence when nothing is left.
Damage(x) ==
    IF x.kind \in {"STX", "torn", "toolong"}
    THEN {<< >>, <<Ctl("junk")>>, <<Ctl("torn")>>, <<Ctl("toolong")>>}
    ELSE {<< >>, <<Ctl("junk")>>}

Noise ==
    /\ noise < MaxNoise
    /\ noise' = noise + 1
    /\ \E p \in Peers : \E i \in 1..Len(buf[p]) : \E d \in Damage(buf[p][i]) :
          buf' = [buf EXCEPT ![p] = SubSeq(@, 1, i - 1) \o d
                                    \o SubSeq(@, i + 1, Len(@))]
    /\ UNCHANGED <<pc, counters, LastResponse, Errors, PrevErrors, blk, put, sent,
                   got, giveups>>

Reads(p) == \/ AckArrives(p) \/ NakArrives(p) \/ RlrArrives(p) \/ MessArrives(p)
            \/ Accept(p) \/ Discard(p) \/ TornBlock(p) \/ OversizeBlock(p)
            \/ HuntOther(p)

Next == \/ Request \/ Reply \/ NextRequest \/ ReSync \/ Noise
        \/ \E p \in Peers : Reads(p) \/ Quiet(p) \/ GiveUp(p) \/ SyncAlone(p)

Spec == Init /\ [][Next]_vars

(***************************************************************************)
(* The loops of both programs run as long as the programs do, and a        *)
(* request takes the server finite time.  Nothing makes the client ask,    *)
(* noise strike or a wait time out for good.                               *)
(***************************************************************************)
Fairness ==
    /\ WF_vars(Reply) /\ WF_vars(NextRequest) /\ WF_vars(ReSync)
    /\ \A p \in Peers : WF_vars(Reads(p)) /\ WF_vars(Quiet(p))

FairSpec == Spec /\ Fairness

-------------------------------------------------------------------------------
(***************************************************************************)
(* Properties.                                                             *)
(***************************************************************************)

\* No block is delivered twice or out of order, and only blocks that were
\* sent are delivered: whatever is lost, damaged, resent or given up on, the
\* comparison of ReceiveBlkNo with the number of the block keeps a resent
\* block from reaching the caller of RemoteGet again.
InOrderOnce ==
    \A p \in Peers :
        /\ \A i \in 1..Len(got[p]) : got[p][i].id \in 1..put[Other(p)]
        /\ \A i, j \in 1..Len(got[p]) : i < j => got[p][i].id < got[p][j].id

\* A RemotePut that did not return REQUEST_FAILED has delivered its block: the
\* ACK BlockSend took for its own was the answer to this very block.
AckedIsAccepted ==
    \A p \in Peers : \A n \in sent[p] :
        \E i \in 1..Len(got[Other(p)]) : got[Other(p)][i].id = n

\* Between two sends the peers agree on the number of the next block.  Were
\* they to disagree, every later block would be taken for a repetition, be
\* acknowledged and be thrown away.
NumbersAgree ==
    \A p \in Peers : pc[p] \notin {"send", "drain"} =>
        Wire(SendBlkNo[p]) = ReceiveBlkNo[Other(p)]
===============================================================================
