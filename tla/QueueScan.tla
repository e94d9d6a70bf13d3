------------------------------ MODULE QueueScan ------------------------------
(***************************************************************************)
(* TaskQueue.remove, one call on the list at a time.  TaskEngine takes the *)
(* removal for one step; the code scans a copy-on-write list by index, and *)
(* asks it for its size, for an element and for a removal in three calls,  *)
(* between which other threads add and remove entries.                     *)
(***************************************************************************)
EXTENDS Integers, SequencesExt

CONSTANTS
  Entries,   \* Queue objects
  Tasks,
  TaskOf,    \* the task of each Queue object
  None,
  Removers   \* threads that remove: pool threads, vip requests, kills

ConstantsOK == TaskOf \in [Entries -> Tasks] /\ None \notin Entries \cup Tasks

VARIABLES
  line,      \* TaskQueue.queues
  at,        \* where each thread is in its scan
  sought,    \* the task it looks for
  index,     \* its loop variable, from 1
  found,     \* the element it is about to remove
  answer,    \* how its last scan ended: "true", "false", "thrown"
  \* History:
  entered,   \* entries ever added
  yes,       \* scans that answered true
  there,     \* entries of the task sought that were listed when the scan began
  shrunk     \* whether another thread removed an entry during the scan

scanVars == <<line, at, sought, index, found, answer, entered, yes, there, shrunk>>

Init ==
  /\ line = <<>>
  /\ at = [p \in Removers |-> "idle"]
  /\ sought = [p \in Removers |-> None]
  /\ index = [p \in Removers |-> 1]
  /\ found = [p \in Removers |-> None]
  /\ answer = [p \in Removers |-> "none"]
  /\ entered = {}
  /\ yes = 0
  /\ there = [p \in Removers |-> {}]
  /\ shrunk = [p \in Removers |-> FALSE]

\* List.add, by requests, jobs and the boot.
Add(e) ==
  /\ e \notin entered
  /\ line' = Append(line, e)
  /\ entered' = entered \cup {e}
  /\ UNCHANGED <<at, sought, index, found, answer, yes, there, shrunk>>

Begin(p, t) ==
  /\ at[p] = "idle"
  /\ at' = [at EXCEPT ![p] = "size"]
  /\ sought' = [sought EXCEPT ![p] = t]
  /\ index' = [index EXCEPT ![p] = 1]
  /\ answer' = [answer EXCEPT ![p] = "none"]
  /\ there' = [there EXCEPT ![p] = {e \in Range(line) : TaskOf[e] = t}]
  /\ shrunk' = [shrunk EXCEPT ![p] = FALSE]
  /\ UNCHANGED <<line, found, entered, yes>>

End(p, result) ==
  /\ at' = [at EXCEPT ![p] = "idle"]
  /\ answer' = [answer EXCEPT ![p] = result]
  /\ sought' = [sought EXCEPT ![p] = None]
  /\ index' = [index EXCEPT ![p] = 1]
  /\ found' = [found EXCEPT ![p] = None]

\* Mutant: the last element is not looked at.
InRangeShort(i) == i < Len(line)
InRange(i) == i <= Len(line)

\* i < queues.size()
Size(p) ==
  /\ at[p] = "size"
  /\ IF InRange(index[p])
     THEN at' = [at EXCEPT ![p] = "get"] /\ UNCHANGED <<sought, index, found, answer>>
     ELSE End(p, "false")
  /\ UNCHANGED <<line, entered, yes, there, shrunk>>

\* queues.get(i), past the end an exception; the ids are compared.
Get(p) ==
  /\ at[p] = "get"
  /\ \/ /\ index[p] > Len(line)
        /\ End(p, "thrown")
     \/ /\ index[p] <= Len(line)
        /\ TaskOf[line[index[p]]] = sought[p]
        /\ found' = [found EXCEPT ![p] = line[index[p]]]
        /\ at' = [at EXCEPT ![p] = "remove"]
        /\ UNCHANGED <<sought, index, answer>>
     \/ /\ index[p] <= Len(line)
        /\ TaskOf[line[index[p]]] # sought[p]
        /\ index' = [index EXCEPT ![p] = @ + 1]
        /\ at' = [at EXCEPT ![p] = "size"]
        /\ UNCHANGED <<sought, found, answer>>
  /\ UNCHANGED <<line, entered, yes, there, shrunk>>

\* Mutant: the result of List.remove is not what remove returns.
RemovedAlways(e) == TRUE
Removed(e) == Contains(line, e)

\* return queues.remove(q): the element, wherever it is by now.
TakeOut(p) ==
  /\ at[p] = "remove"
  /\ line' = RemoveFirst(line, found[p])
  /\ shrunk' = [q \in Removers |-> shrunk[q] \/ (q # p /\ Contains(line, found[p]))]
  /\ End(p, IF Removed(found[p]) THEN "true" ELSE "false")
  /\ yes' = IF Removed(found[p]) THEN yes + 1 ELSE yes
  /\ UNCHANGED <<entered, there>>

Next ==
  \/ \E e \in Entries : Add(e)
  \/ \E p \in Removers : \/ \E t \in Tasks : Begin(p, t)
                         \/ Size(p) \/ Get(p) \/ TakeOut(p)

Spec == Init /\ [][Next]_scanVars
-----------------------------------------------------------------------------
\* Every variable has its type.
TypeOK ==
  /\ line \in Seq(Entries)
  /\ at \in [Removers -> {"idle", "size", "get", "remove"}]
  /\ sought \in [Removers -> Tasks \cup {None}]
  /\ index \in [Removers -> Nat \ {0}]
  /\ found \in [Removers -> Entries \cup {None}]
  /\ answer \in [Removers -> {"none", "true", "false", "thrown"}]
  /\ entered \subseteq Entries
  /\ yes \in Nat
  /\ there \in [Removers -> SUBSET Entries]
  /\ shrunk \in [Removers -> BOOLEAN]

\* A scan misses an entry that was in the list when it began, or runs past the
\* end, only if another thread has removed an entry in the middle of it: with
\* one removal at a time, which TaskEngine assumes, remove does what it says.
MissesNeedRemovals ==
  \A p \in Removers :
    /\ answer[p] = "thrown" => shrunk[p]
    /\ answer[p] = "false" => shrunk[p] \/ there[p] = {}

\* As many calls answer true as entries have left: of two threads that have found
\* the same entry one only is told so, and common() sends one notice.
OneAnswerPerEntry == Cardinality(entered \ Range(line)) = yes
=============================================================================
