----------------------------- MODULE MCTaskRefinement -----------------------------
(***************************************************************************)
(* Instances of TaskEngine for TLC: the names the configurations give to   *)
(* tasks and threads.                                                      *)
(***************************************************************************)
EXTENDS TaskRefinement

CONSTANTS t1, t2, c1, c2, w1, w2

\* The request threads are interchangeable.
ClientSymmetry == Permutations(Clients)
=============================================================================
