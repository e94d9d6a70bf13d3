------------------------------- MODULE TaskLife -------------------------------
(***************************************************************************)
(* What the task line promises, without its list, its pool, its threads    *)
(* and its database: the life of each accepted execution, and what a user  *)
(* is told of results.                                                     *)
(*                                                                         *)
(* An execution is made for a task, waits at a rank of the line or has its *)
(* turn, and starts.  It may be withdrawn before it starts, and then never *)
(* does.  Those who wait move up together, one place at a time, and who    *)
(* reaches the front starts in that step.                                  *)
(***************************************************************************)
EXTENDS Integers

CONSTANTS Tasks, Entries

VARIABLES
  life,     \* the executions of this life of the process
  done,     \* tasks of which an execution has brought a result
  shown,    \* tasks that are shown as finished
  notices   \* notices of a result sent, per task

vars == <<life, done, shown, notices>>

None == [at |-> "none"]
At(t, place) == [task |-> t, at |-> place, rank |-> 0]
Waiting(t, n) == [task |-> t, at |-> "waiting", rank |-> n]

Init == /\ life = [e \in Entries |-> None]
        /\ done \subseteq Tasks
        /\ shown \subseteq done
        /\ notices = [t \in Tasks |-> 0]

IsAt(e, places) == life[e].at \in places

\* A request is accepted.
Make(e) == /\ IsAt(e, {"none"})
           /\ \E t \in Tasks : life' = [life EXCEPT ![e] = At(t, "made")]

\* It joins the line, with a place in it or with its turn; the boot makes and
\* enters at once.
Enter(e) ==
  \E t \in Tasks :
    /\ life[e] \in {None, At(t, "made")}
    /\ life' = [life EXCEPT ![e] = life'[e]]
    /\ \/ life'[e] = At(t, "turn")
       \/ /\ life'[e].at = "waiting"
          /\ life'[e].rank \in Int \ {0}
          /\ life'[e] = Waiting(t, life'[e].rank)

\* Who has the turn starts, and so does who never stood in line (a vip).
Start(S) ==
  /\ \A e \in S : IsAt(e, {"made", "turn"})
  /\ life' = [e \in Entries |-> IF e \in S THEN At(life[e].task, "started") ELSE life[e]]

\* Everyone who waits moves up.
Up(x) == CASE x.at = "waiting" /\ x.rank = 1 -> At(x.task, "started")
           [] x.at = "waiting" /\ x.rank > 1 -> Waiting(x.task, x.rank - 1)
           [] OTHER -> x

\* Executions that have their turn may start with them.
Promote == life' = [e \in Entries |-> Up(life[e])]

Withdraw(e) ==
  /\ IsAt(e, {"waiting", "turn"})
  /\ life' = [life EXCEPT ![e] = At(life[e].task, "withdrawn")]

Move == /\ \/ \E e \in Entries : Make(e) \/ Enter(e) \/ Withdraw(e)
           \/ \E S \in SUBSET Entries : Start(S)
           \/ Promote
        /\ UNCHANGED <<done, shown, notices>>

\* A result comes from an execution that has started.
Succeed(t) ==
  /\ \E e \in Entries : IsAt(e, {"started"}) /\ life[e].task = t
  /\ done' = done \cup {t}
  /\ UNCHANGED <<life, shown, notices>>

\* Only results are shown, and told of.
Show == /\ shown' \in SUBSET done
        /\ UNCHANGED <<life, done, notices>>

Notify(t) == /\ t \in done
             /\ notices' = [notices EXCEPT ![t] = @ + 1]
             /\ UNCHANGED <<life, done, shown>>

\* A crash forgets the executions, not the results.
Restart == /\ life' = [e \in Entries |-> None]
           /\ UNCHANGED <<done, shown, notices>>

Next == \/ Move
        \/ \E t \in Tasks : Succeed(t) \/ Notify(t)
        \/ Show
        \/ Restart

Spec == Init /\ [][Next]_vars
=============================================================================
