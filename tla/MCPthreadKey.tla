---------------------------- MODULE MCPthreadKey ----------------------------
(***************************************************************************)
(* Instances of PthreadKey for TLC.                                        *)
(***************************************************************************)
EXTENDS PthreadKey

CONSTANTS t1, t2, t3
=============================================================================
