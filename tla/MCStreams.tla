------------------------------- MODULE MCStreams -------------------------------
(***************************************************************************)
(* Streams for TLC: who has which streams and makes which calls.           *)
(***************************************************************************)
EXTENDS Streams

CONSTANTS t1, t2, s1, d1, d2

Program(given1, may1, given2, may2) ==
    [given |-> t1 :> given1 @@ t2 :> given2, may |-> t1 :> may1 @@ t2 :> may2]

\* One thread opens streams and the other, which has one from the start, makes
\* the calls that concern all streams; or the other opens streams as well, and
\* reopens those it has closed.
Disciplined ==
    {Program({}, {"fopen", "fputc", "fclose"},
             {d1}, {"fputc", "fclose", "freopen", "flushall", "fcloseall"}),
     Program({s1}, {"fputc", "fclose"},
             {d1}, {"fopen", "fputc", "fclose", "freopen", "flushall"})}

ASSUME OneOpens == \A p \in Disciplined : OpensAlone(p)

TwoOpeners == {Program({}, {"fopen"}, {}, {"fopen"})}

FlusherAndReopener == {Program({}, {"flushall"}, {d1}, {"fputc", "freopen"})}
===============================================================================
