------------------------------ MODULE TaskEngine ------------------------------
(***************************************************************************)
(* The task execution core of Hive Cube: the tasks table, the in-memory    *)
(* list of Queue objects (TaskQueue), the thread pool (ThreadExecutor),    *)
(* the threads of requests and Quartz jobs that run, kill, edit and delete *)
(* tasks (TasksServiceImpl), the pool threads (RunnablePriority), the      *)
(* monitor thread and the boot of the application (StartupListener).       *)
(*                                                                         *)
(* A handler is split at every access to state that threads share: the     *)
(* database, the list, the pool, a Task object that is in the list.  One   *)
(* SQL statement, one call of TaskQueue or of TaskFactory is one step.     *)
(***************************************************************************)
EXTENDS Integers, Sequences, FiniteSets, SequencesExt

CONSTANTS
  Tasks,        \* ids of the tasks table
  NewTasks,     \* ids the table's auto_increment has not handed out yet
  AutoTasks,    \* rows that start with is_auto = 1
  InitStatuses, \* statuses the rows may have when the program first boots
  NoTask,
  Clients,      \* request threads and Quartz job threads
  Workers,      \* core threads of the pool (hive.cube.task.thread.pool)
  MaxSize,      \* CommonClientConfigs.Task.MAX_SIZE_LIMIT
  MaxEntries,   \* bound: Queue objects per life of the process
  MaxCrashes,   \* bound: crashes of the process
  MaxRev,       \* bound: edits of the content of a row
  Ops,          \* operations the clients perform
  Outcomes      \* ways the execution of a query may end

Statuses == {"Unexecuted", "Running", "Queue", "Error", "Finished", "Start", "Stop"}
AllOps == {"private", "export", "vip", "kill", "delete", "edit", "schedule"}
AllOutcomes == {"success", "error", "other", "throw"}

ASSUME TasksAssumption == /\ NewTasks \subseteq Tasks
                          /\ AutoTasks \subseteq Tasks
                          /\ InitStatuses \subseteq Statuses
                          /\ NoTask \notin Tasks
ASSUME ThreadsAssumption == /\ "monitor" \notin Clients
                            /\ "boot" \notin Clients
ASSUME BoundsAssumption == /\ MaxSize \in Nat \ {0}
                           /\ MaxEntries \in Nat
                           /\ MaxCrashes \in Nat
                           /\ MaxRev \in Nat
ASSUME ModesAssumption == Ops \subseteq AllOps /\ Outcomes \subseteq AllOutcomes

TASK_COMMON == 1
TASK_VIP == 5

\* A row of the tasks table, and the Task object read from or written to it.
\* "Queue" stands for "Queue(n)"; rev is the version of content, name, email.
Rows == [status : Statuses, auto : BOOLEAN, rev : 0 .. MaxRev]
NoRow == [status |-> "Absent", auto |-> FALSE, rev |-> 0]

\* A Queue object with the Task object it points to, named by its id.
Ids == 1 .. MaxEntries
Queues == [task : Tasks, row : Rows, rank : Int, status : Statuses,
           vip : {TASK_COMMON, TASK_VIP}]
NoQueue == [status |-> "Absent"]

ClientPCs == {"idle", "created", "start", "stop", "delete", "write", "isFull", "rank", "add",
              "first", "check", "modify", "batch", "submit", "vipWrite", "vipRemove",
              "vipSubmit", "killWrite", "killRemove"}
MonitorPCs == {"off", "wait", "update", "first", "check", "modify", "batch"}
BootPCs == {"down", "addJobs", "enqueue", "first", "check", "modify", "batch", "submit", "up", "failed"}
WorkerPCs == {"idle", "run", "commit", "remove", "report"}
Threads == Clients \cup {"monitor", "boot"}

VARIABLES
  db,        \* the tasks table
  issued,    \* ids auto_increment has handed out
  obj,       \* the Queue objects
  queue,     \* TaskQueue.queues, a copy-on-write list of Queue objects
  pool,      \* submissions of each Queue object waiting in the pool
  pc,        \* where each client, the monitor and the boot are
  arg,       \* the task of an export or a change of schedule under way
  own,       \* the Queue object a client is working on, 0 for none
  snap,      \* the list TaskFactory.modify() returned to a thread
  loading,   \* the boot's list of tasks: rows to enqueue, how many are done, the
             \* one at hand and what isFull has said of it
  wpc, run,  \* where each pool thread is, and the Queue object it runs
  crashes,
  \* History:
  handed,    \* Queue objects given to the pool in this life of the process
  dropped,   \* Queue objects whose run ended by an exception
  succeeded, \* tasks of which some query has succeeded
  added,     \* entries ever added to the list, per task
  mails      \* notices sent, per task

mem == <<obj, queue, pool, handed, dropped, added>>
thr == <<pc, arg, own, snap, loading>>
wrk == <<wpc, run, succeeded, mails>>
vars == <<db, issued, mem, thr, wrk, crashes>>
-----------------------------------------------------------------------------
\* TaskQueue and TaskFactory.

Listed == Range(queue)

\* The entries that hold a slot.
Executing == {e \in Listed : obj[e].rank = 0}

\* Mutant: the slot being freed is counted.
hasFreeLess == Cardinality(Executing) < MaxSize - 1
hasFree == Cardinality(Executing) < MaxSize

isFull == Cardinality(Executing) >= MaxSize

getPrivateRank == Len(queue) + 1 - MaxSize

getRank(i) == i + 1 - MaxSize

\* Mutant: the result of TaskQueue.remove is not looked at.
IsListedAlways(t) == TRUE
IsListed(t) == \E e \in Listed : obj[e].task = t

\* Mutant: the scan starts at index 1.
WithoutHead(t) ==
  IF queue = <<>> THEN queue
  ELSE <<Head(queue)>> \o RemoveFirstMatch(Tail(queue), LAMBDA e : obj[e].task = t)
\* TaskQueue.remove: the first entry with the id of the task.
Without(t) == RemoveFirstMatch(queue, LAMBDA e : obj[e].task = t)

\* updateQueues: who reaches rank 0, and what becomes of an entry.
\* Mutant: off by one.
PromotedLate == {e \in Listed : obj[e].rank = 2}
Promoted == {e \in Listed : obj[e].rank = 1}

\* Mutants: rank 0 is not left alone; a promoted entry keeps its rank.
AdvancedAll(q) == [q EXCEPT !.rank = @ - 1]
AdvancedNever(q) == [q EXCEPT !.status = "Running"]
Advanced(q) ==
  CASE q.rank = 1 -> [q EXCEPT !.rank = 0, !.status = "Running"]
    [] q.rank > 1 -> [q EXCEPT !.rank = @ - 1, !.status = "Queue"]
    [] OTHER -> q

\* TaskFactory.modify: every Task in the list takes the status of its Queue.
Modified == [e \in Ids |-> IF e \in Listed
                           THEN [obj[e] EXCEPT !.row.status = obj[e].status]
                           ELSE obj[e]]

\* batchModifyTaskStatus on the Task objects of s: REPLACE of whole rows.
Replaced(s) ==
  [t \in Tasks |-> LET i == SelectLastInSeq(s, LAMBDA e : obj[e].task = t)
                   IN IF i = 0 THEN db[t] ELSE obj[s[i]].row]

Stored(e) == [db EXCEPT ![obj[e].task] = obj[e].row]

\* Mutant: off by one.
ReadyEarly(e) == obj[e].rank <= 1
Ready(e) == obj[e].rank = 0

\* ThreadExecutor.addTask.
SubmitAll(S) == /\ pool' = [e \in Ids |-> IF e \in S THEN pool[e] + 1 ELSE pool[e]]
                /\ handed' = handed \cup S
Submit(e) == SubmitAll({e})

Fresh(e) == /\ e \in Ids
            /\ obj[e] = NoQueue
            /\ \A f \in Ids : f < e => obj[f] # NoQueue

\* Room is kept for what the boot has still to enqueue: the bound stops calls only.
CallFresh(e) == Fresh(e) /\ e + Cardinality(loading.left) <= MaxEntries

Entry(t, row, rank, status, vip) ==
  [task |-> t, row |-> row, rank |-> rank, status |-> status, vip |-> vip]

\* Mutant: a status the program does not know.
StartedOther(row) == [row EXCEPT !.status = "Executing"]
Started(row) == [row EXCEPT !.status = "Running"]
-----------------------------------------------------------------------------
Loadings == [rows : [Tasks -> Rows \cup {NoRow}], left : SUBSET Tasks, done : Nat,
             next : Tasks \cup {NoTask}, full : BOOLEAN]
LoadingOf(rows, left) ==
  [rows |-> rows, left |-> left, done |-> 0, next |-> NoTask, full |-> FALSE]
NoLoading == LoadingOf([t \in Tasks |-> NoRow], {})

Init ==
  /\ \E s \in [Tasks -> InitStatuses] :
        db = [t \in Tasks |->
                IF t \in NewTasks THEN NoRow
                ELSE [status |-> s[t], auto |-> t \in AutoTasks, rev |-> 0]]
  /\ issued = Tasks \ NewTasks
  /\ obj = [e \in Ids |-> NoQueue]
  /\ queue = <<>>
  /\ pool = [e \in Ids |-> 0]
  /\ pc = [p \in Threads |-> IF p \in Clients THEN "idle"
                             ELSE IF p = "monitor" THEN "off" ELSE "down"]
  /\ arg = [c \in Clients |-> NoTask]
  /\ own = [c \in Clients |-> 0]
  /\ snap = [p \in Threads |-> <<>>]
  /\ loading = NoLoading
  /\ wpc = [w \in Workers |-> "idle"]
  /\ run = [w \in Workers |-> 0]
  /\ crashes = 0
  /\ handed = {} /\ dropped = {}
  /\ succeeded = {t \in Tasks : db[t].status = "Finished"}
  /\ added = [t \in Tasks |-> 0]
  /\ mails = [t \in Tasks |-> 0]

Goto(p, label) == pc' = [pc EXCEPT ![p] = label]
-----------------------------------------------------------------------------
\* TaskFactory.modify() three times and batchModifyTaskStatus, as the handler of
\* a private execution, the monitor and the boot each write it: the first result
\* is never null, the second is looked at for its size, the third is stored.

Done(p) == IF p = "monitor" THEN "wait" ELSE "submit"

\* Nothing in the list: the monitor sleeps, the boot is over with no monitor
\* started, a client goes on.
Skipped(p) == IF p = "boot" THEN "up" ELSE Done(p)

\* No row to replace is a SQL error: it leaves the handler, or the boot.
Failed(p) == CASE p = "monitor" -> "wait"
               [] p = "boot" -> "failed"
               [] OTHER -> "idle"

ModifyFirst(p) ==
  /\ pc[p] = "first"
  /\ obj' = Modified
  /\ Goto(p, "check")
  /\ UNCHANGED <<db, issued, queue, pool, handed, dropped, added,
                 arg, own, snap, loading, wrk, crashes>>

ModifyCheck(p) ==
  /\ pc[p] = "check"
  /\ obj' = Modified
  /\ Goto(p, IF queue = <<>> THEN Skipped(p) ELSE "modify")
  /\ UNCHANGED <<db, issued, queue, pool, handed, dropped, added,
                 arg, own, snap, loading, wrk, crashes>>

ModifyAll(p) ==
  /\ pc[p] = "modify"
  /\ obj' = Modified
  /\ snap' = [snap EXCEPT ![p] = queue]
  /\ Goto(p, IF queue = <<>> THEN Failed(p) ELSE "batch")
  /\ own' = [c \in Clients |-> IF c = p /\ queue = <<>> THEN 0 ELSE own[c]]
  /\ UNCHANGED <<db, issued, queue, pool, handed, dropped, added,
                 arg, loading, wrk, crashes>>

BatchWrite(p) ==
  /\ pc[p] = "batch"
  /\ db' = Replaced(snap[p])
  /\ snap' = [snap EXCEPT ![p] = <<>>]
  /\ Goto(p, Done(p))
  /\ UNCHANGED <<issued, mem, arg, own, loading, wrk, crashes>>

Refresh(p) == ModifyFirst(p) \/ ModifyCheck(p) \/ ModifyAll(p) \/ BatchWrite(p)
-----------------------------------------------------------------------------
\* Clients.  Requests arrive once the application is deployed; the Quartz jobs
\* of the automatic tasks fire from the middle of the boot on.

Deployed == pc["boot"] = "up"
MayFire(t) == Deployed \/ (pc["boot"] # "down" /\ db[t].auto)

\* executorPrivateTaskById, up to its first write.  A task that the table says
\* is running or queued is left alone; one that is not there is an exception.
Find(c, t) ==
  /\ IF db[t] = NoRow \/ db[t].status \in {"Running", "Queue"}
     THEN Goto(c, "idle") /\ UNCHANGED <<obj, own>>
     ELSE \E e \in Ids :
            /\ CallFresh(e)
            /\ obj' = [obj EXCEPT ![e] = Entry(t, Started(db[t]), 0, "Running", TASK_COMMON)]
            /\ own' = [own EXCEPT ![c] = e]
            /\ Goto(c, "write")
  /\ arg' = [arg EXCEPT ![c] = NoTask]
  /\ UNCHANGED <<db, issued, queue, pool, handed, dropped, added, snap, loading, wrk, crashes>>

PrivateFind(c, t) ==
  /\ pc[c] = "idle" /\ "private" \in Ops /\ MayFire(t)
  /\ Find(c, t)

PrivateWrite(c) ==
  /\ pc[c] = "write"
  /\ db' = Stored(own[c])
  /\ Goto(c, "isFull")
  /\ UNCHANGED <<issued, mem, arg, own, snap, loading, wrk, crashes>>

PrivateIsFull(c) ==
  /\ pc[c] = "isFull"
  /\ Goto(c, IF isFull THEN "rank" ELSE "add")
  /\ UNCHANGED <<db, issued, mem, arg, own, snap, loading, wrk, crashes>>

PrivateRank(c) ==
  /\ pc[c] = "rank"
  /\ obj' = [obj EXCEPT ![own[c]].rank = getPrivateRank, ![own[c]].status = "Queue"]
  /\ Goto(c, "add")
  /\ UNCHANGED <<db, issued, queue, pool, handed, dropped, added,
                 arg, own, snap, loading, wrk, crashes>>

PrivateAdd(c) ==
  /\ pc[c] = "add"
  /\ queue' = Append(queue, own[c])
  /\ added' = [added EXCEPT ![obj[own[c]].task] = @ + 1]
  /\ Goto(c, "first")
  /\ UNCHANGED <<db, issued, obj, pool, handed, dropped, arg, own, snap, loading, wrk, crashes>>

PrivateSubmit(c) ==
  /\ pc[c] = "submit"
  /\ IF Ready(own[c]) THEN Submit(own[c]) ELSE UNCHANGED <<pool, handed>>
  /\ own' = [own EXCEPT ![c] = 0]
  /\ Goto(c, "idle")
  /\ UNCHANGED <<db, issued, obj, queue, dropped, added, arg, snap, loading, wrk, crashes>>

\* ExportController: insert a row, then run it as a private task.
ExportInsert(c, t) ==
  /\ pc[c] = "idle" /\ "export" \in Ops /\ Deployed
  /\ t \notin issued
  /\ db' = [db EXCEPT ![t] = [status |-> "Unexecuted", auto |-> FALSE, rev |-> 0]]
  /\ issued' = issued \cup {t}
  /\ arg' = [arg EXCEPT ![c] = t]
  /\ Goto(c, "created")
  /\ UNCHANGED <<mem, own, snap, loading, wrk, crashes>>

ExportFind(c) ==
  /\ pc[c] = "created"
  /\ Find(c, arg[c])

\* executorTaskById: ahead of the list, straight into the pool.
VipFind(c, t) ==
  /\ pc[c] = "idle" /\ "vip" \in Ops /\ Deployed
  /\ db[t] # NoRow /\ db[t].status # "Running"
  /\ \E e \in Ids :
       /\ CallFresh(e)
       /\ obj' = [obj EXCEPT ![e] = Entry(t, Started(db[t]), 0, "Running", TASK_VIP)]
       /\ own' = [own EXCEPT ![c] = e]
  /\ Goto(c, "vipWrite")
  /\ UNCHANGED <<db, issued, queue, pool, handed, dropped, added,
                 arg, snap, loading, wrk, crashes>>

VipWrite(c) ==
  /\ pc[c] = "vipWrite"
  /\ db' = Stored(own[c])
  /\ Goto(c, "vipRemove")
  /\ UNCHANGED <<issued, mem, arg, own, snap, loading, wrk, crashes>>

VipRemove(c) ==
  /\ pc[c] = "vipRemove"
  /\ queue' = Without(obj[own[c]].task)
  /\ Goto(c, "vipSubmit")
  /\ UNCHANGED <<db, issued, obj, pool, handed, dropped, added,
                 arg, own, snap, loading, wrk, crashes>>

VipSubmit(c) ==
  /\ pc[c] = "vipSubmit"
  /\ Submit(own[c])
  /\ own' = [own EXCEPT ![c] = 0]
  /\ Goto(c, "idle")
  /\ UNCHANGED <<db, issued, obj, queue, dropped, added, arg, snap, loading, wrk, crashes>>

\* killTaskById, once YARN has taken the kill: its Queue object only names the
\* task to TaskQueue.remove, and nothing refers to it afterwards.
KillFind(c, t) ==
  /\ pc[c] = "idle" /\ "kill" \in Ops /\ Deployed
  /\ db[t] # NoRow
  /\ \E e \in Ids :
       /\ CallFresh(e)
       /\ obj' = [obj EXCEPT ![e] = Entry(t, [db[t] EXCEPT !.status = "Stop"],
                                          0, "Stop", TASK_COMMON)]
       /\ own' = [own EXCEPT ![c] = e]
  /\ Goto(c, "killWrite")
  /\ UNCHANGED <<db, issued, queue, pool, handed, dropped, added,
                 arg, snap, loading, wrk, crashes>>

KillWrite(c) ==
  /\ pc[c] = "killWrite"
  /\ db' = Stored(own[c])
  /\ Goto(c, "killRemove")
  /\ UNCHANGED <<issued, mem, arg, own, snap, loading, wrk, crashes>>

KillRemove(c) ==
  /\ pc[c] = "killRemove"
  /\ queue' = Without(obj[own[c]].task)
  /\ obj' = [obj EXCEPT ![own[c]] = NoQueue]
  /\ own' = [own EXCEPT ![c] = 0]
  /\ Goto(c, "idle")
  /\ UNCHANGED <<db, issued, pool, handed, dropped, added, arg, snap, loading, wrk, crashes>>
-----------------------------------------------------------------------------
\* Statements that change a row and nothing else.

RowUpdate(c, op) ==
  /\ pc[c] = "idle" /\ op \in Ops /\ Deployed
  /\ UNCHANGED <<issued, mem, thr, wrk, crashes>>

\* deleteTaskById: neither the list nor the pool hears of it.
DeleteTask(c, t) ==
  /\ RowUpdate(c, "delete")
  /\ db[t] # NoRow
  /\ db' = [db EXCEPT ![t] = NoRow]

\* modifyTaskContentByParams.
EditContent(c, t) ==
  /\ RowUpdate(c, "edit")
  /\ db[t] # NoRow /\ db[t].rev < MaxRev
  /\ db' = [db EXCEPT ![t].rev = @ + 1]

\* updateScheduler: convertOrCancleAutoTask, and for some types of request one
\* more statement.  An "add" does what a "start" does.  The Quartz job store is
\* left out: a job of an automatic task may fire at any moment.
ScheduleTypes == {"start", "modify", "stop", "delete", "cancle"}

ConvertAuto(c, t, type) ==
  /\ pc[c] = "idle" /\ "schedule" \in Ops /\ Deployed
  /\ db[t] # NoRow
  /\ db' = [db EXCEPT ![t].auto = type \in {"start", "modify", "stop"}]
  /\ Goto(c, IF type \in {"start", "stop", "delete"} THEN type ELSE "idle")
  /\ arg' = [arg EXCEPT ![c] = IF type \in {"start", "stop", "delete"} THEN t ELSE NoTask]
  /\ UNCHANGED <<issued, mem, own, snap, loading, wrk, crashes>>

\* startTaskById, stopTaskById and deleteTaskById.
Switched(row, s) == IF row = NoRow THEN NoRow ELSE [row EXCEPT !.status = s]

SwitchTask(c) ==
  /\ pc[c] \in {"start", "stop", "delete"}
  /\ db' = [db EXCEPT ![arg[c]] = CASE pc[c] = "start" -> Switched(@, "Start")
                                    [] pc[c] = "stop" -> Switched(@, "Stop")
                                    [] OTHER -> NoRow]
  /\ Goto(c, "idle")
  /\ arg' = [arg EXCEPT ![c] = NoTask]
  /\ UNCHANGED <<issued, mem, own, snap, loading, wrk, crashes>>
-----------------------------------------------------------------------------
\* Pool threads: RunnablePriority.

\* The priority queue of the pool; equal priorities come in any order.
Take(w, e) ==
  /\ wpc[w] = "idle"
  /\ pool[e] > 0
  /\ \A f \in Ids : pool[f] > 0 => obj[f].vip <= obj[e].vip
  /\ pool' = [pool EXCEPT ![e] = @ - 1]
  /\ run' = [run EXCEPT ![w] = e]
  /\ wpc' = [wpc EXCEPT ![w] = "run"]
  /\ UNCHANGED <<db, issued, obj, queue, handed, dropped, added, thr, succeeded, mails, crashes>>

\* Mutant: any answer of the engine is taken for a result.
EndedAlways(row, outcome) == [row EXCEPT !.status = "Finished"]
Ended(row, outcome) ==
  CASE outcome = "success" -> [row EXCEPT !.status = "Finished"]
    [] outcome = "error" -> [row EXCEPT !.status = "Error"]
    [] OTHER -> row

\* run() and executor(): the query ends and the Task takes its status; a type
\* other than "hive" leaves the status alone.
Execute(w, outcome) ==
  /\ wpc[w] = "run" /\ outcome # "throw"
  /\ obj' = [obj EXCEPT ![run[w]].row = Ended(@, outcome)]
  /\ succeeded' = IF outcome = "success" THEN succeeded \cup {obj[run[w]].task} ELSE succeeded
  /\ wpc' = [wpc EXCEPT ![w] = "commit"]
  /\ UNCHANGED <<db, issued, queue, pool, handed, dropped, added, thr, run, mails, crashes>>

\* Content that does not parse, or an error with no message: the exception is
\* swallowed by run() and common() is never called.
ExecuteThrows(w) ==
  /\ wpc[w] = "run"
  /\ dropped' = dropped \cup {run[w]}
  /\ wpc' = [wpc EXCEPT ![w] = "idle"]
  /\ run' = [run EXCEPT ![w] = 0]
  /\ UNCHANGED <<db, issued, obj, queue, pool, handed, added, thr, succeeded, mails, crashes>>

\* common(): write the row, leave the list, send the notice.
Commit(w) ==
  /\ wpc[w] = "commit"
  /\ db' = Stored(run[w])
  /\ wpc' = [wpc EXCEPT ![w] = "remove"]
  /\ UNCHANGED <<issued, mem, thr, run, succeeded, mails, crashes>>

Leave(w) ==
  /\ wpc[w] = "remove"
  /\ queue' = Without(obj[run[w]].task)
  /\ IF IsListed(obj[run[w]].task)
     THEN /\ wpc' = [wpc EXCEPT ![w] = "report"]
          /\ UNCHANGED run
     ELSE /\ wpc' = [wpc EXCEPT ![w] = "idle"]
          /\ run' = [run EXCEPT ![w] = 0]
  /\ UNCHANGED <<db, issued, obj, pool, handed, dropped, added, thr, succeeded, mails, crashes>>

\* Reporter.sender.
Report(w) ==
  /\ wpc[w] = "report"
  /\ mails' = IF obj[run[w]].row.status = "Finished"
              THEN [mails EXCEPT ![obj[run[w]].task] = @ + 1] ELSE mails
  /\ wpc' = [wpc EXCEPT ![w] = "idle"]
  /\ run' = [run EXCEPT ![w] = 0]
  /\ UNCHANGED <<db, issued, mem, thr, succeeded, crashes>>
-----------------------------------------------------------------------------
\* The monitor thread.

MonitorCheck ==
  /\ pc["monitor"] = "wait"
  /\ hasFree
  /\ Goto("monitor", "update")
  /\ UNCHANGED <<db, issued, mem, arg, own, snap, loading, wrk, crashes>>

\* TaskQueue.updateQueues: everyone waiting moves up one place, and those who
\* reach rank 0 go to the pool.
MonitorUpdate ==
  /\ pc["monitor"] = "update"
  /\ obj' = [e \in Ids |-> IF e \in Listed THEN Advanced(obj[e]) ELSE obj[e]]
  /\ SubmitAll(Promoted)
  /\ Goto("monitor", "first")
  /\ UNCHANGED <<db, issued, queue, dropped, added, arg, own, snap, loading, wrk, crashes>>
-----------------------------------------------------------------------------
\* The boot, and the crash of the process: only the database survives it.

\* loadRunningTask; AND binds tighter than OR in its WHERE clause.
\* Mutant: a run that was interrupted is forgotten.
LoadableWaiting(row) == row.status \in {"Unexecuted", "Queue"}
Loadable(row) == \/ row.status \in {"Unexecuted", "Queue"}
                 \/ row.status = "Running" /\ ~row.auto

BootLoad ==
  /\ pc["boot"] = "down"
  /\ loading' = LoadingOf(db, {t \in Tasks : Loadable(db[t])})
  /\ Goto("boot", "addJobs")
  /\ UNCHANGED <<db, issued, mem, arg, own, snap, wrk, crashes>>

\* The jobs come first, and an addJob that throws ends the boot.  Which rows have
\* such an expression is for Scheduler to say: here any automatic one may.
BootAddJobs ==
  /\ pc["boot"] = "addJobs"
  /\ \/ Goto("boot", "enqueue") /\ UNCHANGED loading
     \/ /\ \E t \in Tasks : loading.rows[t].auto
        /\ Goto("boot", "failed")
        /\ loading' = NoLoading
  /\ UNCHANGED <<db, issued, mem, arg, own, snap, wrk, crashes>>

BootIsFull(t) ==
  /\ pc["boot"] = "enqueue"
  /\ loading.next = NoTask
  /\ t \in loading.left
  /\ loading' = [loading EXCEPT !.next = t, !.full = isFull]
  /\ UNCHANGED <<db, issued, mem, pc, arg, own, snap, wrk, crashes>>

BootEnqueue(t) ==
  /\ pc["boot"] = "enqueue"
  /\ t = loading.next
  /\ t \in loading.left
  /\ \E e \in Ids :
       /\ Fresh(e)
       /\ obj' = [obj EXCEPT ![e] =
                    IF loading.full
                    THEN Entry(t, loading.rows[t], getRank(loading.done), "Queue", TASK_COMMON)
                    ELSE Entry(t, loading.rows[t], 0, "Running", TASK_COMMON)]
       /\ queue' = Append(queue, e)
  /\ added' = [added EXCEPT ![t] = @ + 1]
  /\ loading' = [loading EXCEPT !.left = @ \ {t}, !.done = @ + 1, !.next = NoTask]
  /\ UNCHANGED <<db, issued, pool, handed, dropped, pc, arg, own, snap, wrk, crashes>>

BootEnqueued ==
  /\ pc["boot"] = "enqueue"
  /\ loading.left = {}
  /\ loading' = NoLoading
  /\ Goto("boot", "first")
  /\ UNCHANGED <<db, issued, mem, arg, own, snap, wrk, crashes>>

\* Submit what has a slot, start the monitor.
BootSubmit ==
  /\ pc["boot"] = "submit"
  /\ SubmitAll({e \in Listed : Ready(e)})
  /\ pc' = [pc EXCEPT !["boot"] = "up", !["monitor"] = "wait"]
  /\ UNCHANGED <<db, issued, obj, queue, dropped, added, arg, own, snap, loading, wrk, crashes>>

Crash ==
  /\ pc["boot"] # "down"
  /\ crashes < MaxCrashes
  /\ crashes' = crashes + 1
  /\ obj' = [e \in Ids |-> NoQueue]
  /\ queue' = <<>>
  /\ pool' = [e \in Ids |-> 0]
  /\ pc' = [p \in Threads |-> IF p \in Clients THEN "idle"
                              ELSE IF p = "monitor" THEN "off" ELSE "down"]
  /\ arg' = [c \in Clients |-> NoTask]
  /\ own' = [c \in Clients |-> 0]
  /\ snap' = [p \in Threads |-> <<>>]
  /\ loading' = NoLoading
  /\ wpc' = [w \in Workers |-> "idle"]
  /\ run' = [w \in Workers |-> 0]
  /\ handed' = {} /\ dropped' = {}
  /\ UNCHANGED <<db, issued, succeeded, added, mails>>
-----------------------------------------------------------------------------
\* A handler under way, and the arrival of a request.
ClientStep(c) ==
  \/ PrivateWrite(c) \/ PrivateIsFull(c) \/ PrivateRank(c) \/ PrivateAdd(c)
  \/ Refresh(c) \/ PrivateSubmit(c) \/ ExportFind(c) \/ SwitchTask(c)
  \/ VipWrite(c) \/ VipRemove(c) \/ VipSubmit(c)
  \/ KillWrite(c) \/ KillRemove(c)

Request(c) ==
  \E t \in Tasks :
    \/ PrivateFind(c, t) \/ ExportInsert(c, t) \/ VipFind(c, t) \/ KillFind(c, t)
    \/ DeleteTask(c, t) \/ EditContent(c, t)
    \/ \E type \in ScheduleTypes : ConvertAuto(c, t, type)

Worker(w) ==
  \/ \E e \in Ids : Take(w, e)
  \/ \E o \in Outcomes : Execute(w, o)
  \/ "throw" \in Outcomes /\ ExecuteThrows(w)
  \/ Commit(w) \/ Leave(w) \/ Report(w)

MonitorStep ==
  \/ MonitorCheck \/ MonitorUpdate \/ Refresh("monitor")

BootStep ==
  \/ BootLoad \/ BootAddJobs
  \/ (\E t \in Tasks : BootIsFull(t) \/ BootEnqueue(t)) \/ BootEnqueued
  \/ Refresh("boot") \/ BootSubmit

Next ==
  \/ \E c \in Clients : ClientStep(c) \/ Request(c)
  \/ \E w \in Workers : Worker(w)
  \/ MonitorStep
  \/ BootStep
  \/ Crash

Spec == Init /\ [][Next]_vars

\* Threads that have something to do get to run; nobody has to send a request.
Fairness == /\ \A c \in Clients : WF_vars(ClientStep(c))
            /\ \A w \in Workers : WF_vars(Worker(w))
            /\ WF_vars(MonitorStep)
            /\ WF_vars(BootStep)

FairSpec == Spec /\ Fairness
-----------------------------------------------------------------------------
\* Every variable has its type.
TypeOK ==
  /\ db \in [Tasks -> Rows \cup {NoRow}]
  /\ issued \subseteq Tasks
  /\ obj \in [Ids -> Queues \cup {NoQueue}]
  /\ queue \in Seq(Ids)
  /\ pool \in [Ids -> Nat]
  /\ pc \in [Threads -> ClientPCs \cup MonitorPCs \cup BootPCs]
  /\ \A c \in Clients : pc[c] \in ClientPCs
  /\ pc["monitor"] \in MonitorPCs /\ pc["boot"] \in BootPCs
  /\ arg \in [Clients -> Tasks \cup {NoTask}]
  /\ own \in [Clients -> Ids \cup {0}]
  /\ snap \in [Threads -> Seq(Ids)]
  /\ loading \in Loadings
  /\ wpc \in [Workers -> WorkerPCs]
  /\ run \in [Workers -> Ids \cup {0}]
  /\ crashes \in Nat
  /\ handed \subseteq Ids /\ dropped \subseteq Ids
  /\ succeeded \subseteq Tasks
  /\ added \in [Tasks -> Nat]
  /\ mails \in [Tasks -> Nat]

Held(e) == pool[e] > 0 \/ \E w \in Workers : run[w] = e

\* An entry that still has a place in the line (rank > 0) is never in the pool
\* nor in the hands of a pool thread: a queued task does not execute before the
\* monitor has promoted it, whatever the monitor and the request that queued it
\* do between adding the entry, looking at its rank and submitting it.
QueuedNeverExecutes == \A e \in Ids : Held(e) => obj[e] # NoQueue /\ obj[e].rank = 0

\* A slot (an entry of rank 0, which isFull counts) is taken only by a run that
\* the pool has been given or that the thread which added it is about to give:
\* no slot is lost to an entry which nobody will ever run.
HandlingOwn(c, e) == own[c] = e /\ pc[c] \in {"first", "check", "modify", "batch", "submit"}
SlotsAreHandedOver ==
  Deployed => \A e \in Executing : e \in handed \/ \E c \in Clients : HandlingOwn(c, e)

\* A run of t that has still to leave the list.
Outstanding(t) ==
  \E e \in Ids : /\ obj[e] # NoQueue /\ obj[e].task = t
                 /\ \/ pool[e] > 0
                    \/ \E w \in Workers : run[w] = e /\ wpc[w] \in {"run", "commit", "remove"}

\* The submission of an entry of rank 0 that is still to come: by the client that
\* added it, or by the boot, which submits the whole list in the end.
Booting == pc["boot"] \notin {"up", "failed"}
ToSubmit(e) == Booting \/ \E c \in Clients : HandlingOwn(c, e)

\* An entry that was given to the pool and still holds a slot, though nothing under
\* way will take it out: its runs are over, no other run of its task has still to
\* leave, and nobody is about to submit it once more.
Abandoned(e) ==
  /\ e \in Listed \cap handed /\ obj[e].rank = 0
  /\ ~ToSubmit(e) /\ ~Outstanding(obj[e].task)

\* ... although no run of its own has ended by an exception.
Lost(e) == Abandoned(e) /\ e \notin dropped

\* An entry of t that was in the list and left it without a run of its own, or
\* after a run that ended by an exception.
NotYetListed(e) ==
  \E c \in Clients : /\ own[c] = e
                     /\ pc[c] \notin {"first", "check", "modify", "batch", "submit"}
LeftWithoutRun(t) ==
  \E e \in Ids : /\ obj[e] # NoQueue /\ obj[e].task = t
                 /\ e \notin Listed /\ ~NotYetListed(e)
                 /\ e \notin handed \/ e \in dropped

\* Every run takes one entry of its task out of the list.  TaskQueue.remove goes
\* by the id of the task, so it need not be the run's own: a slot is lost only
\* when the run that held it has taken out another entry, which has not run.
SlotsComeBack == \A e \in Ids : Lost(e) => LeftWithoutRun(obj[e].task)

\* An entry is submitted once by the thread that added it and once by the
\* monitor at worst, never again and again while it stays in the list.
AtMostTwice == \A e \in Ids : pool[e] + Cardinality({w \in Workers : run[w] = e}) <= 2

\* A task is Finished in the table only if one of its queries has succeeded, in
\* spite of every stale row that the monitor, a kill or a boot writes back.
NoPhantomFinish == \A t \in Tasks : db[t].status = "Finished" => t \in succeeded

\* No more notices than entries of the task in the list over time, although one
\* entry may be submitted twice and one task may have several runs.
OneNoticePerEntry == \A t \in Tasks : mails[t] <= added[t]

\* A place in the line only gets better and a slot is kept, for as long as the
\* entry is in the list: the monitor and a client never push it back.
RanksOnlyImprove ==
  [][\A e \in Listed \cap Range(queue') :
        IF obj[e].rank > 0 THEN obj'[e].rank \in 0 .. obj[e].rank
        ELSE obj'[e].rank = obj[e].rank]_vars

\* Every manual task that was waiting or running when the process died is back
\* in the list before the boot submits anything, although jobs of automatic
\* tasks fire, run and leave the list in the middle of the boot.
Interrupted(t) == ~db[t].auto /\ db[t].status \in {"Unexecuted", "Queue", "Running"}
InterruptedAreRequeued ==
  pc["boot"] \in {"first", "check", "modify", "batch", "submit"} =>
    \A t \in Tasks : Interrupted(t) => IsListed(t)

\* An entry that stays where it is until a later request for its task.  With a rank
\* below 0, which getPrivateRank gives when entries leave after isFull has answered
\* and getRank when jobs have taken slots during the boot, nobody promotes it.  A
\* slot may be abandoned, and while all of them are nobody moves up.
Stuck(e) ==
  /\ e \in Listed
  /\ \/ obj[e].rank < 0
     \/ Abandoned(e)
     \/ obj[e].rank > 0 /\ Cardinality({f \in Ids : Abandoned(f)}) >= MaxSize

\* ... and it is handed to the pool again, unless addJob ends the boot before, or
\* it is stuck for good because jobs that fire during the boot took its slot.
InterruptedRunAgain ==
  \A t \in Tasks : (pc["boot"] = "down" /\ Interrupted(t))
                     ~> \/ \E e \in handed : obj[e].task = t
                        \/ pc["boot"] = "failed"
                        \/ [](\E e \in Ids : Stuck(e) /\ obj[e].task = t)

\* Once no more requests come and the monitor is started, every entry leaves the
\* list, the waiting ones included, but for those that are stuck for good: no order
\* of requests, jobs, boot, monitor and runs loses a place in any other way.
EntriesLeave == <>[](pc["monitor"] # "off" => \A e \in Listed : Stuck(e))
-----------------------------------------------------------------------------
\* What the code says of itself, and does not keep.

\* executorPrivateTaskById logs "no duplication of execution": two runs of a
\* task never wait in the pool or execute together.
Runs(e) == pool[e] + Cardinality({w \in Workers : run[w] = e /\ wpc[w] = "run"})
NoDuplicateExecution ==
  \A e, f \in Ids : Runs(e) > 0 /\ Runs(f) > 0 /\ obj[e].task = obj[f].task =>
    e = f /\ Runs(e) = 1

\* common() takes the Task out of the list under the comment "remove current task
\* from queues": when the runs of a task are over no slot is held in its name.
CurrentTaskIsRemoved == \A e \in Ids : ~Lost(e)

\* It logs "task executing or queue" when it refuses a task for its status: the
\* task is then in the list, in the pool, or in the hands of a thread.
RefusedOnlyIfAlive ==
  Deployed => \A t \in Tasks : db[t].status \in {"Running", "Queue"} =>
    \/ IsListed(t) \/ Outstanding(t)
    \/ \E c \in Clients : own[c] # 0 /\ obj[own[c]].task = t

\* "Change tasks table status" says the boot of batchModifyTaskStatus: a write
\* of a status undoes no edit of the content and brings back no deleted row.
EditsAndDeletesStick ==
  [][\A t \in issued : IF db[t] = NoRow THEN db'[t] = NoRow
                       ELSE db'[t] = NoRow \/ db'[t].rev >= db[t].rev]_vars
=============================================================================
