---------------------------- MODULE ErrorFreeLink ----------------------------
(***************************************************************************)
(* What the code above a remote link relies on (bld/wv/doc/link.doc: "the  *)
(* connection between the server and client is assumed to be error free"): *)
(* the server carries out the requests of the client, each once and in     *)
(* order, and the client, which asks its next request when the last one is *)
(* answered, gets the answer to the request it asked.  A request in OneWay *)
(* has no answer.                                                          *)
(***************************************************************************)
EXTENDS Naturals

CONSTANT OneWay

VARIABLES asked,    \* the requests asked are 1..asked
          served,   \* those carried out are 1..served
          answered  \* the last request whose answer the client has

vars == <<asked, served, answered>>

Init == asked = 0 /\ served = 0 /\ answered = 0

Ask == /\ answered = asked \/ asked \in OneWay
       /\ asked' = asked + 1
       /\ UNCHANGED <<served, answered>>

Serve == /\ served < asked
         /\ served' = served + 1
         /\ UNCHANGED <<asked, answered>>

Answer == /\ served = asked /\ asked \notin OneWay /\ answered # asked
          /\ answered' = asked
          /\ UNCHANGED <<asked, served>>

Next == Ask \/ Serve \/ Answer

\* The client need not ask; what it has asked is served and answered.
Spec == Init /\ [][Next]_vars /\ WF_vars(Serve) /\ WF_vars(Answer)
===============================================================================
