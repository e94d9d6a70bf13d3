------------------------------- MODULE Scheduler -------------------------------
(***************************************************************************)
(* The schedules of automatic tasks: the scheduler table and the is_auto   *)
(* column of the tasks table, the Quartz job store (QuartzManager), the    *)
(* request that changes a schedule (SchedulerController,                   *)
(* SchedulerServiceImpl), the boot that loads the jobs (StartupListener),  *)
(* and the runs of tasks, which write back the row they once read.         *)
(*                                                                         *)
(* One SQL statement, one call of Quartz is one step.                      *)
(***************************************************************************)
EXTENDS Integers, FiniteSets

CONSTANTS
  Tasks,      \* ids of the tasks table
  Clients,    \* request threads
  Crons,      \* expressions that always have a next time
  OnceCrons,  \* expressions with a year: one day they have no next time
  BadCrons,   \* texts that are no cron expression
  None,       \* no row, no job, no request
  WithRuns,   \* whether runs of tasks write rows back
  WithDelete, \* whether the pages of manual tasks delete rows
  MaxCrashes  \* bound: crashes of the process

AllCrons == Crons \cup OnceCrons \cup BadCrons

ASSUME CronsAssumption == BadCrons \cap (Crons \cup OnceCrons) = {}
ASSUME ModesAssumption == WithRuns \in BOOLEAN /\ WithDelete \in BOOLEAN
ASSUME BoundAssumption == MaxCrashes \in Nat

\* A row of the scheduler table: switch 0 is run, 1 is stopped.
SchedRows == [cron : AllCrons, switch : {0, 1}]

\* "start" stands for "add" as well: updateScheduler treats them alike.
Types == {"start", "modify", "stop", "delete", "cancle"}
Reqs == [task : Tasks, type : Types, cron : AllCrons]
ASSUME NoneAssumption == None \notin AllCrons \cup SchedRows \cup Reqs

PCs == {"idle", "convert", "start", "modify", "detail", "stop", "remove", "add",
        "deleteTask", "deleteRow"}

VARIABLES
  kind,    \* tasks table: "absent", "manual" or "auto", per task
  sched,   \* scheduler table
  jobs,    \* Quartz job store: the expression of the trigger of each job
  expired, \* expressions that have no next time any more
  pc, req, \* where each request is, and what it asks for
  boot,    \* "down", "adding", "up" or "failed"
  left,    \* tasks that loadAutoTask returned and the boot has still to add
  listed,  \* tasks the pages of automatic tasks have shown
  held,    \* rows that runs have read and may write back: task and is_auto
  crashes,
  \* History, since the last boot:
  overlapped, \* tasks of which two requests have been under way together
  orphaned,   \* tasks deleted by a page that does not know of schedules
  threw       \* tasks whose last request ended by an exception

vars == <<kind, sched, jobs, expired, pc, req, boot, left, listed, held, crashes,
          overlapped, orphaned, threw>>

Busy(c, t) == pc[c] # "idle" /\ req[c].task = t
Quiet(t) == \A c \in Clients : ~Busy(c, t)

\* The rows loadAutoTask returns.
\* Mutant: the stopped ones are loaded, and not the others.
LoadableStopped(t) == kind[t] = "auto" /\ sched[t] # None /\ sched[t].switch = 1
Loadable(t) == kind[t] = "auto" /\ sched[t] # None /\ sched[t].switch = 0

\* CronTrigger.setCronExpression accepts it, and scheduleJob finds a next time.
Schedulable(cron) == cron \notin BadCrons \cup expired
-----------------------------------------------------------------------------
\* Before the first boot each task is manual, or automatic and switched on or off.
Init ==
  /\ \E r \in [Tasks -> {None} \cup [cron : Crons \cup OnceCrons, switch : {0, 1}]] :
       /\ sched = r
       /\ kind = [t \in Tasks |-> IF r[t] = None THEN "manual" ELSE "auto"]
  /\ jobs = [t \in Tasks |-> None]
  /\ expired = {}
  /\ pc = [c \in Clients |-> "idle"]
  /\ req = [c \in Clients |-> None]
  /\ boot = "down"
  /\ left = {}
  /\ listed = {t \in Tasks : kind[t] = "auto"}
  /\ held = {}
  /\ crashes = 0
  /\ overlapped = {} /\ orphaned = {} /\ threw = {}

tables == <<kind, sched>>
process == <<boot, left, crashes>>
others == <<expired, held, overlapped, orphaned>>

Goto(c, label) == /\ pc' = [pc EXCEPT ![c] = label]
                  /\ UNCHANGED <<req, threw>>

\* The end of updateScheduler, by a return or by an exception.
Return(c) == /\ pc' = [pc EXCEPT ![c] = "idle"]
             /\ req' = [req EXCEPT ![c] = None]
             /\ threw' = threw \ {req[c].task}
Throw(c) == /\ pc' = [pc EXCEPT ![c] = "idle"]
            /\ req' = [req EXCEPT ![c] = None]
            /\ threw' = threw \cup {req[c].task}

\* modifyScheduleTask, and the REPLACE that begins updateScheduler.  Only a stop
\* switches a schedule off.  An automatic task is added from a page of manual
\* tasks, the other requests come from a page of automatic ones, maybe an old one.
Switch(type) == IF type = "stop" THEN 1 ELSE 0

Request(c, r) ==
  /\ pc[c] = "idle" /\ boot = "up"
  /\ r.type = "start" \/ r.task \in listed
  /\ sched' = [sched EXCEPT ![r.task] = [cron |-> r.cron, switch |-> Switch(r.type)]]
  /\ pc' = [pc EXCEPT ![c] = "convert"]
  /\ req' = [req EXCEPT ![c] = r]
  /\ overlapped' = IF Quiet(r.task) THEN overlapped ELSE overlapped \cup {r.task}
  /\ UNCHANGED <<kind, jobs, process, expired, listed, held, orphaned, threw>>

\* Where updateScheduler goes by the type of the request.
\* Mutants: the row is deleted before the job is removed; one type is forgotten.
RouteRowFirst(type) ==
  CASE type = "delete" -> "deleteTask" [] type = "cancle" -> "remove" [] OTHER -> type
RouteNoCancle(type) == IF type = "delete" THEN "remove" ELSE type
Route(type) == IF type \in {"delete", "cancle"} THEN "remove" ELSE type

Converted(type) == IF type \in {"start", "modify", "stop"} THEN "auto" ELSE "manual"

\* convertOrCancleAutoTask: a row that is not there ends the request.
Convert(c) ==
  /\ pc[c] = "convert"
  /\ LET r == req[c] IN
       IF kind[r.task] = "absent" THEN Return(c) /\ UNCHANGED <<kind, listed>>
       ELSE /\ kind' = [kind EXCEPT ![r.task] = Converted(r.type)]
            /\ listed' = listed \cup {u \in {r.task} : Converted(r.type) = "auto"}
            /\ Goto(c, Route(r.type))
  /\ UNCHANGED <<sched, jobs, process, others>>

\* startTaskById, stopTaskById: the status is not modelled, whether there is a row is.
StartTask(c) ==
  /\ pc[c] = "start"
  /\ IF kind[req[c].task] = "absent" THEN Return(c) ELSE Goto(c, "add")
  /\ UNCHANGED <<tables, jobs, process, others, listed>>

StopTask(c) ==
  /\ pc[c] = "stop"
  /\ IF kind[req[c].task] = "absent" THEN Return(c) ELSE Goto(c, "remove")
  /\ UNCHANGED <<tables, jobs, process, others, listed>>

\* QuartzManager.addJob refuses a second job of the name, and an expression that
\* does not parse or has no next time.
AddJob(c) ==
  /\ pc[c] = "add"
  /\ LET r == req[c] IN
       IF jobs[r.task] = None /\ Schedulable(r.cron)
       THEN jobs' = [jobs EXCEPT ![r.task] = r.cron] /\ Return(c)
       ELSE UNCHANGED jobs /\ Throw(c)
  /\ UNCHANGED <<tables, process, others, listed>>

\* QuartzManager.modifyJobTime: the trigger, then the job, which may have gone.
\* Mutant: the expressions are compared the wrong way round.
SameTimeInverted(c) == jobs[req[c].task] # req[c].cron
SameTime(c) == jobs[req[c].task] = req[c].cron

ModifyJobTime(c) ==
  /\ pc[c] = "modify"
  /\ IF jobs[req[c].task] = None \/ SameTime(c) THEN Return(c) ELSE Goto(c, "detail")
  /\ UNCHANGED <<tables, jobs, process, others, listed>>

ModifyDetail(c) ==
  /\ pc[c] = "detail"
  /\ IF jobs[req[c].task] = None THEN Throw(c) ELSE Goto(c, "remove")
  /\ UNCHANGED <<tables, jobs, process, others, listed>>

\* QuartzManager.removeJob: no job of the name is no error.
RemoveJob(c) ==
  /\ pc[c] = "remove"
  /\ jobs' = [jobs EXCEPT ![req[c].task] = None]
  /\ CASE req[c].type = "modify" -> Goto(c, "add")
       [] req[c].type = "delete" -> Goto(c, "deleteTask")
       [] req[c].type = "cancle" -> Goto(c, "deleteRow")
       [] OTHER -> Return(c)
  /\ UNCHANGED <<tables, process, others, listed>>

\* deleteTaskById and deleteSchedulerById.
DeleteTask(c) ==
  /\ pc[c] = "deleteTask"
  /\ kind' = [kind EXCEPT ![req[c].task] = "absent"]
  /\ Goto(c, "deleteRow")
  /\ UNCHANGED <<sched, jobs, process, others, listed>>

DeleteRow(c) ==
  /\ pc[c] = "deleteRow"
  /\ sched' = [sched EXCEPT ![req[c].task] = None]
  /\ Return(c)
  /\ UNCHANGED <<kind, jobs, process, others, listed>>

Step(c) ==
  \/ Convert(c) \/ StartTask(c) \/ StopTask(c) \/ AddJob(c) \/ ModifyJobTime(c)
  \/ ModifyDetail(c) \/ RemoveJob(c) \/ DeleteTask(c) \/ DeleteRow(c)
-----------------------------------------------------------------------------
requests == <<pc, req, threw>>

\* TasksController: deleteTaskById alone, from the pages of manual tasks.
DeletePage(t) ==
  /\ WithDelete /\ boot = "up"
  /\ kind[t] # "absent"
  /\ kind' = [kind EXCEPT ![t] = "absent"]
  /\ orphaned' = orphaned \cup {t}
  /\ UNCHANGED <<sched, jobs, expired, requests, process, listed, held, overlapped>>

\* A run reads a row, on request or because its job fires (ScheduleTask), and
\* writes all of it back, is_auto included, as often as it likes until it ends.
RunFind(t) ==
  /\ WithRuns
  /\ boot = "up" \/ jobs[t] # None
  /\ kind[t] # "absent"
  /\ held' = held \cup {[task |-> t, kind |-> kind[t]]}
  /\ UNCHANGED <<tables, jobs, expired, requests, process, listed, overlapped, orphaned>>

RunWrite(h) ==
  /\ kind' = [kind EXCEPT ![h.task] = h.kind]
  /\ listed' = listed \cup {t \in {h.task} : h.kind = "auto"}
  /\ UNCHANGED <<sched, jobs, requests, process, others>>

RunEnd(h) ==
  /\ held' = held \ {h}
  /\ UNCHANGED <<tables, jobs, expired, requests, process, listed, overlapped, orphaned>>

\* Time: the last time of an expression is over, and Quartz drops its triggers,
\* and the jobs with them.
Expire(cron) ==
  /\ cron \notin expired
  /\ expired' = expired \cup {cron}
  /\ jobs' = [t \in Tasks |-> IF jobs[t] = cron THEN None ELSE jobs[t]]
  /\ UNCHANGED <<tables, requests, process, listed, held, overlapped, orphaned>>
-----------------------------------------------------------------------------
\* setApplicationContext: loadAutoTask, then addJob for each row in any order.
BootLoad ==
  /\ boot = "down"
  /\ boot' = "adding"
  /\ left' = {t \in Tasks : Loadable(t)}
  /\ UNCHANGED <<tables, jobs, requests, others, listed, crashes>>

\* Mutant: the loop ends with the first row it has added.
BootAddFirst(t) ==
  /\ boot = "adding"
  /\ t \in left
  /\ IF Schedulable(sched[t].cron)
     THEN jobs' = [jobs EXCEPT ![t] = sched[t].cron] /\ left' = {} /\ UNCHANGED boot
     ELSE boot' = "failed" /\ left' = {} /\ UNCHANGED jobs
  /\ UNCHANGED <<tables, requests, others, listed, crashes>>

\* An expression that cannot be scheduled ends the boot of the application.
BootAdd(t) ==
  /\ boot = "adding"
  /\ t \in left
  /\ IF Schedulable(sched[t].cron)
     THEN jobs' = [jobs EXCEPT ![t] = sched[t].cron] /\ left' = left \ {t} /\ UNCHANGED boot
     ELSE boot' = "failed" /\ left' = {} /\ UNCHANGED jobs
  /\ UNCHANGED <<tables, requests, others, listed, crashes>>

BootDone ==
  /\ boot = "adding"
  /\ left = {}
  /\ boot' = "up"
  /\ UNCHANGED <<tables, jobs, requests, others, listed, left, crashes>>

\* The tables survive, the job store does not.
Crash ==
  /\ boot # "down"
  /\ crashes < MaxCrashes
  /\ crashes' = crashes + 1
  /\ jobs' = [t \in Tasks |-> None]
  /\ pc' = [c \in Clients |-> "idle"]
  /\ req' = [c \in Clients |-> None]
  /\ boot' = "down"
  /\ left' = {}
  /\ held' = {}
  /\ overlapped' = {} /\ orphaned' = {} /\ threw' = {}
  /\ UNCHANGED <<tables, expired, listed>>
-----------------------------------------------------------------------------
Boot == BootLoad \/ (\E t \in Tasks : BootAdd(t)) \/ BootDone

Next ==
  \/ \E c \in Clients : Step(c) \/ \E r \in Reqs : Request(c, r)
  \/ \E t \in Tasks : DeletePage(t) \/ RunFind(t)
  \/ \E h \in held : RunWrite(h) \/ RunEnd(h)
  \/ \E cron \in OnceCrons : Expire(cron)
  \/ Boot
  \/ Crash

Spec == Init /\ [][Next]_vars

\* The boot and the requests under way are threads that run.
FairSpec == /\ Spec
            /\ WF_vars(Boot)
            /\ \A c \in Clients : WF_vars(Step(c))
-----------------------------------------------------------------------------
\* Every variable has its type.
TypeOK ==
  /\ kind \in [Tasks -> {"absent", "manual", "auto"}]
  /\ sched \in [Tasks -> SchedRows \cup {None}]
  /\ jobs \in [Tasks -> AllCrons \cup {None}]
  /\ expired \subseteq OnceCrons
  /\ pc \in [Clients -> PCs]
  /\ req \in [Clients -> Reqs \cup {None}]
  /\ \A c \in Clients : pc[c] # "idle" => req[c] \in Reqs
  /\ boot \in {"down", "adding", "up", "failed"}
  /\ left \subseteq Tasks
  /\ listed \subseteq Tasks
  /\ held \subseteq [task : Tasks, kind : {"manual", "auto"}]
  /\ crashes \in Nat
  /\ overlapped \subseteq Tasks /\ orphaned \subseteq Tasks /\ threw \subseteq Tasks

\* Once a request has ended, a task has a job only if the scheduler table
\* switches it on, and the job keeps the time the table says unless the last
\* request ended by an exception: crashes in the middle of a request, expressions
\* that do not parse, and jobs that Quartz drops by itself leave no job that the
\* table does not know.  Two requests for one task at a time, and a row deleted by
\* a page that does not know of schedules, are outside of what the code keeps.
JobsMatchTable ==
  \A t \in Tasks \ (overlapped \cup orphaned) : Quiet(t) /\ jobs[t] # None =>
    /\ sched[t] # None
    /\ sched[t].switch = 0
    /\ t \notin threw => jobs[t] = sched[t].cron

\* No job fires for a task that is not in the table, not even in the middle of a
\* request or of a boot, with the same two exceptions.
JobsHaveTasks ==
  \A t \in Tasks \ (overlapped \cup orphaned) : jobs[t] # None => kind[t] # "absent"

\* The tables switch the task on.
On(t) == kind[t] = "auto" /\ sched[t] # None /\ sched[t].switch = 0

\* One of them has an expression that ends every boot.
BootBlocked == \E t \in Tasks : On(t) /\ ~Schedulable(sched[t].cron)

\* A boot that comes to its end has given every task that the tables switch on a
\* job with the time of the table, but for times that are over; and a boot fails
\* only by an expression of the tables, which the next boot meets as well.  Runs of
\* the jobs that are there already write rows, and times end, while the others are
\* still to be added.
BootRestores ==
  [][/\ boot = "adding" /\ boot' = "up" =>
          \A t \in Tasks : On(t) => jobs[t] = sched[t].cron \/ sched[t].cron \in expired
     /\ boot' = "failed" => BootBlocked']_vars

\* What the tables switch on when the process dies has a job again, unless the
\* table has an expression that cannot be scheduled, which ends every boot.
SchedulesSurvive ==
  \A t \in Tasks : (boot = "down" /\ On(t)) ~> (jobs[t] # None \/ BootBlocked)
-----------------------------------------------------------------------------
\* What hc.sql says of task_switch, "0:run": once no request is under way and
\* none has failed, a task with switch 0 and a good expression has a job.
SwitchZeroRuns ==
  boot = "up" => \A t \in Tasks \ (overlapped \cup orphaned \cup threw) :
    Quiet(t) /\ sched[t] # None /\ sched[t].switch = 0 => jobs[t] # None
=============================================================================
