---------------------------- MODULE SerialOneFault ----------------------------
(***************************************************************************)
(* What the serial link keeps when at most one fault strikes: the          *)
(* inductive invariant FaultInv, which SerialLinkProofs shows that every   *)
(* step keeps.  An exchange goes through five phases, and for each of      *)
(* them the invariant says what one fault can have left on the line.       *)
(***************************************************************************)
EXTENDS MCSerialLink

\* One fault at most; no send is abandoned, input is read before the other
\* peer's wait ends, every request wants an answer, and the number of a block
\* fits in its two bytes.
OneFault ==
    /\ MaxNoise <= 1 /\ MaxGiveUps = 0 /\ Prompt /\ OneWay = {}
    /\ CtrMod = WireMod \/ MaxRequests + 1 < WireMod

-------------------------------------------------------------------------------
\* The blocks that p has accepted are those that were put, in order.
GotAll(p) ==
    \A i \in 1..Len(got[p]) : got[p][i].id = i /\ got[p][i].body = i

\* The block of p is the last it has put, errors are counted after a fault only.
Histories ==
    /\ put["client"] <= MaxRequests
    /\ \A p \in Peers :
          /\ GotAll(p)
          /\ blk[p].id = put[p] /\ blk[p].body = put[p] /\ blk[p].err = PrevErrors[p]
          /\ noise = 0 => Errors[p] = 0 /\ PrevErrors[p] = 0

\* p was the last to send: a request when p is the client, or its answer.
LastTurn(p) ==
    put["client"] = IF p = "client" THEN put["server"] + 1 ELSE put["server"]

\* SendBlkNo counts the blocks, when it does not begin again at 0.
Numbered(p, n) == CtrMod = WireMod \/ SendBlkNo[p] = n

\* All that p has put has been accepted, and p knows.
Settled(p) ==
    /\ ReceiveBlkNo[Other(p)] = SendBlkNo[p] /\ Numbered(p, put[p] + 1)
    /\ Len(got[Other(p)]) = put[p] /\ sent[p] = 1..put[p]

Sending(p) ==
    /\ sent[p] = 1..put[p] - 1 /\ put[p] > 0 /\ Numbered(p, put[p])
    /\ blk[p].no = Wire(SendBlkNo[p])

\* The block that p is sending has not been accepted, or it has and p has not
\* read the ACK.
Open(p) ==
    /\ Sending(p) /\ ReceiveBlkNo[Other(p)] = SendBlkNo[p]
    /\ Len(got[Other(p)]) = put[p] - 1
Taken(p) ==
    /\ Sending(p) /\ ReceiveBlkNo[Other(p)] = Succ(SendBlkNo[p])
    /\ Len(got[Other(p)]) = put[p] /\ LastResponse[Other(p)] = "ACK"

Ruined == {Ctl(k) : k \in {"junk", "torn", "toolong"}}
OnlyRlr(s) == \A i \in 1..Len(s) : s[i] = Ctl("RLR")

-------------------------------------------------------------------------------
\* Between two sends: p is to send next.
Between(p) ==
    /\ pc[p] = "app" /\ pc[Other(p)] = "hunt"
    /\ Settled(p) /\ Settled(Other(p)) /\ LastTurn(Other(p))
    /\ buf[p] = << >> /\ buf[Other(p)] = << >>

\* p sends and the other peer hunts for the block.  One thing is under way,
\* or nothing after a fault.
OnItsWay(mine, theirs, b) ==
    \/ mine = << >> /\ theirs = <<b>>
    \/ noise # 0 /\ theirs = << >> /\ mine \in {<< >>, <<Ctl("NAK")>>}
    \/ noise # 0 /\ mine = << >> /\ theirs \in {<<x>> : x \in Ruined \cup {Ctl("RLR")}}

Asking(p) ==
    /\ pc[p] = "send" /\ pc[Other(p)] = "hunt"
    /\ Open(p) /\ Settled(Other(p)) /\ LastTurn(p)
    /\ OnItsWay(buf[p], buf[Other(p)], blk[p])

\* The block of p is accepted, and the other program is at work.  When the ACK
\* is lost p asks for it, in vain until that program comes to the link again.
AckOnItsWay(mine, theirs, where) ==
    \/ where = "send" /\ mine = <<Ctl("ACK")>> /\ theirs = << >>
    \/ noise # 0 /\ where = "send" /\ mine = <<Ctl("junk")>> /\ theirs = << >>
    \/ noise # 0 /\ mine = << >> /\ OnlyRlr(theirs)

Working(p) ==
    /\ pc[p] \in {"send", "drain"} /\ pc[Other(p)] = "app"
    /\ Taken(p) /\ Settled(Other(p)) /\ LastTurn(p) /\ PrevErrors[p] <= MAX_ERRORS
    /\ AckOnItsWay(buf[p], buf[Other(p)], pc[p])

\* The other peer sends as well: the ACK and its block are under way.  When the
\* ACK is lost p drops what comes, and asks once when the line is quiet.
BothOnTheWay(mine, theirs, where, b) ==
    \/ where = "send" /\ mine = <<Ctl("ACK"), b>> /\ theirs = << >>
    \/ /\ noise # 0 /\ where = "send" /\ theirs = << >>
       /\ mine = <<Ctl("ACK")>> \/ \E x \in Ruined : mine = <<Ctl("ACK"), x>>
    \/ /\ noise # 0 /\ where = "send" /\ mine # << >> /\ OnlyRlr(theirs)
       /\ Head(mine).kind \notin {"ACK", "NAK", "RLR"}
    \/ noise # 0 /\ where = "drain" /\ OnlyRlr(theirs)
    \/ /\ noise # 0 /\ where = "send" /\ mine = << >>
       /\ theirs = IF RcvCap = 0 THEN << >> ELSE <<Ctl("RLR")>>

Crossing(p) ==
    /\ pc[p] \in {"send", "drain"} /\ pc[Other(p)] = "send"
    /\ Taken(p) /\ Open(Other(p)) /\ LastTurn(Other(p)) /\ PrevErrors[p] <= MAX_ERRORS
    /\ BothOnTheWay(buf[p], buf[Other(p)], pc[p], blk[Other(p)])

\* A block of p that says that there were many errors has been accepted.
Syncing(p) ==
    /\ pc[Other(p)] = "getsync" /\ Settled(Other(p)) /\ LastTurn(p)
    /\ noise # 0 /\ buf[Other(p)] = << >>
    /\ \/ /\ pc[p] = "send" /\ Taken(p) /\ PrevErrors[p] > MAX_ERRORS
          /\ buf[p] = <<Ctl("ACK")>>
       \/ pc[p] = "putsync" /\ Settled(p) /\ buf[p] = << >>

Phase(p) == Between(p) \/ Asking(p) \/ Working(p) \/ Crossing(p) \/ Syncing(p)

FaultInv == TypeOK /\ Histories /\ \E p \in Peers : Phase(p)
===============================================================================
