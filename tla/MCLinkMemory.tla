---------------------------- MODULE MCLinkMemory ---------------------------
(* Instance of LinkMemory for TLC: every callback of ScanNodes, PutNulls *)
(* and CompareInfo from the middle of a piece.                              *)
EXTENDS LinkMemory

MCAccesses == {[op |-> "PutInfo",  skip |-> 0], [op |-> "PutNulls",    skip |-> 1],
               [op |-> "ReadInfo", skip |-> 0], [op |-> "CompareInfo", skip |-> 1]}
=============================================================================
