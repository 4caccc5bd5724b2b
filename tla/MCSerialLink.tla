----------------------------- MODULE MCSerialLink -----------------------------
(***************************************************************************)
(* SerialLink for TLC, and the claim that it implements ErrorFreeLink.     *)
(***************************************************************************)
EXTENDS SerialLink

\* The request the last block the client accepted is the answer to.
LastAnswered ==
    LET g == got["client"] IN IF g = << >> THEN 0 ELSE g[Len(g)].body

LinkContract == INSTANCE ErrorFreeLink
    WITH asked <- put["client"], served <- Served, answered <- LastAnswered

\* Seen from the client and the server program, the link is the error-free one
\* of link.doc: requests are carried out once and in order, and every request
\* gets its own answer, eventually.
Contract == LinkContract!Spec
===============================================================================
