------------------------------ MODULE MCScheduler ------------------------------
(***************************************************************************)
(* Instances of Scheduler for TLC.                                         *)
(***************************************************************************)
EXTENDS Scheduler, TLC

CONSTANTS t1, t2, c1, c2, daily, once, garbage

\* The request threads are interchangeable.
ClientSymmetry == Permutations(Clients)
=============================================================================
