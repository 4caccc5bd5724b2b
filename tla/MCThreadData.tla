------------------------------ MODULE MCThreadData ------------------------------
(***************************************************************************)
(* ThreadData for TLC.                                                     *)
(***************************************************************************)
EXTENDS ThreadData
===============================================================================
