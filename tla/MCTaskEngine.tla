----------------------------- MODULE MCTaskEngine -----------------------------
(***************************************************************************)
(* Instances of TaskEngine for TLC: the names the configurations give to   *)
(* tasks and threads.                                                      *)
(***************************************************************************)
EXTENDS TaskEngine

CONSTANTS t1, t2, c1, c2, w1, w2

\* The request threads are interchangeable.
ClientSymmetry == Permutations(Clients)

\* A boot on tables that a crash may have left: the automatic task has finished, the
\* manual one was running.
InitAfterCrash ==
  /\ Init
  /\ \A t \in Tasks : db[t].status = IF db[t].auto THEN "Finished" ELSE "Running"

AfterCrash == InitAfterCrash /\ [][Next]_vars /\ Fairness
=============================================================================
