---------------------------- MODULE MCThreadStore ---------------------------
(***************************************************************************)
(* Instances of ThreadStore for TLC.                                       *)
(***************************************************************************)
EXTENDS ThreadStore, TLC

CONSTANTS t1, t2
=============================================================================
