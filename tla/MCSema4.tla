-------------------------------- MODULE MCSema4 --------------------------------
(***************************************************************************)
(* Sema4 for TLC.                                                          *)
(***************************************************************************)
EXTENDS Sema4
===============================================================================
