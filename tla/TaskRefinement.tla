---------------------------- MODULE TaskRefinement ----------------------------
(***************************************************************************)
(* TaskEngine implements TaskLife: the life of each Queue object and what  *)
(* users are told, read off the list, the pool, the threads and the table. *)
(***************************************************************************)
EXTENDS TaskEngine

\* The object is known to its client only, before it is added or submitted.
BeforePCs == {"write", "isFull", "rank", "add", "vipWrite", "vipRemove", "vipSubmit"}
Before(e) == \E c \in Clients : own[c] = e /\ pc[c] \in BeforePCs

\* The object of a kill is no execution: it only names the task.
Killing(e) == \E c \in Clients : own[c] = e /\ pc[c] \in {"killWrite", "killRemove"}
Alive(e) == obj[e] # NoQueue /\ ~Killing(e)

\* Out of the list, an object still has its turn if the thread that added it
\* is about to submit it.
Attended(e) == e \in Listed \/ \E c \in Clients : HandlingOwn(c, e)

\* The life of an object, as TaskLife tells it.
LifeOf(e) ==
  LET q == obj[e] IN
  CASE ~Alive(e) -> [at |-> "none"]
    [] Alive(e) /\ e \in handed -> [task |-> q.task, at |-> "started", rank |-> 0]
    [] Alive(e) /\ e \notin handed /\ Before(e) ->
         [task |-> q.task, at |-> "made", rank |-> 0]
    [] Alive(e) /\ e \notin handed /\ ~Before(e) /\ q.rank # 0 /\ e \in Listed ->
         [task |-> q.task, at |-> "waiting", rank |-> q.rank]
    [] Alive(e) /\ e \notin handed /\ ~Before(e) /\ q.rank = 0 /\ Attended(e) ->
         [task |-> q.task, at |-> "turn", rank |-> 0]
    [] OTHER -> [task |-> q.task, at |-> "withdrawn", rank |-> 0]

lives == [e \in Ids |-> LifeOf(e)]
finished == {t \in Tasks : db[t].status = "Finished"}

Life == INSTANCE TaskLife WITH
  Entries <- Ids, life <- lives, done <- succeeded, shown <- finished, notices <- mails

\* Whatever the threads do, and in whatever order: an execution that was taken
\* out of the line never starts, one that waits starts only by moving up to the
\* front with the others, results are shown and reported only after an execution
\* of the task has started and succeeded, and a crash forgets no result.
ImplementsTaskLife == Life!Spec
=============================================================================
