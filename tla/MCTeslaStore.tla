---------------------------- MODULE MCTeslaStore ----------------------------
(***************************************************************************)
(* Instances of TeslaStore for TLC.                                        *)
(***************************************************************************)
EXTENDS TeslaStore, TLC

CONSTANTS t1, t2, t3, a1, a2, a3, a4

\* Hash values that collide in a table of three buckets, the last ones
\* needing to wrap around; and hash values that collide in one of two.
CollidingHash == a1 :> 2 @@ a2 :> 5 @@ a3 :> 1 @@ a4 :> 2
SameHash == a1 :> 1 @@ a2 :> 5

\* Threads are alike, but for who meets the end of a lifetime.
ThreadSymmetry ==
  Permutations(SunsetThreads) \cup Permutations(Threads \ SunsetThreads)

\* The properties except the executions in which a call came while the store
\* was being initialised, so these are followed up to the lock of a class.
Followed == raced => \A t \in Threads : ~Working(t)
=============================================================================
