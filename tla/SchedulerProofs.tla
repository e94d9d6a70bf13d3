---------------------------- MODULE SchedulerProofs ----------------------------
(***************************************************************************)
(* Theorems about Scheduler, for every set of tasks, request threads and   *)
(* expressions.                                                            *)
(***************************************************************************)
EXTENDS Scheduler, TLAPS

\* Requests are served when the boot is over, and the boot adds only what the
\* tables, which nobody else changes meanwhile, switch on.
BootAlone ==
  /\ boot # "up" => \A c \in Clients : pc[c] = "idle"
  /\ boot # "adding" => left = {}
  /\ \A t \in left : kind[t] # "absent" /\ sched[t] # None /\ sched[t].switch = 0

\* Every step keeps the types.  That the boot finds an expression where it looks
\* for one is not a matter of types, so TypeOK is not inductive without BootAlone.
LEMMA StepType == ASSUME TypeOK, BootAlone, [Next]_vars PROVE TypeOK'
<1> USE CronsAssumption, ModesAssumption, BoundAssumption
<1> USE DEF TypeOK, tables, process, others, requests, vars
<1>1. CASE UNCHANGED vars
  BY <1>1
<1>2. ASSUME NEW c \in Clients, NEW r \in Reqs, Request(c, r) PROVE TypeOK'
  <2>1. sched' \in [Tasks -> SchedRows \cup {None}]
    BY <1>2 DEF Request, SchedRows, Switch, Reqs
  <2>2. pc' \in [Clients -> PCs] /\ req' \in [Clients -> Reqs \cup {None}]
    BY <1>2 DEF Request, PCs
  <2>3. \A d \in Clients : pc'[d] # "idle" => req'[d] \in Reqs
    BY <1>2 DEF Request
  <2> QED  BY <1>2, <2>1, <2>2, <2>3 DEF Request, Reqs
<1>3. ASSUME NEW c \in Clients, Step(c) PROVE TypeOK'
  <2> USE DEF Goto, Return, Throw, PCs
  <2>0. pc[c] # "idle" /\ req[c] \in Reqs
    BY <1>3 DEF Step, Convert, StartTask, StopTask, AddJob, ModifyJobTime, ModifyDetail,
                RemoveJob, DeleteTask, DeleteRow
  <2>1. CASE Convert(c)
    <3>1. Converted(req[c].type) \in {"manual", "auto"} /\ Route(req[c].type) \in PCs
      BY <2>0 DEF Converted, Route, Reqs, Types
    <3> QED  BY <2>0, <2>1, <3>1 DEF Convert, Reqs
  <2>2. CASE StartTask(c)
    BY <2>0, <2>2 DEF StartTask, Reqs
  <2>3. CASE StopTask(c)
    BY <2>0, <2>3 DEF StopTask, Reqs
  <2>4. CASE AddJob(c)
    BY <2>0, <2>4 DEF AddJob, Reqs
  <2>5. CASE ModifyJobTime(c)
    BY <2>0, <2>5 DEF ModifyJobTime, Reqs
  <2>6. CASE ModifyDetail(c)
    BY <2>0, <2>6 DEF ModifyDetail, Reqs
  <2>7. CASE RemoveJob(c)
    BY <2>0, <2>7 DEF RemoveJob, Reqs
  <2>8. CASE DeleteTask(c)
    BY <2>0, <2>8 DEF DeleteTask, Reqs
  <2>9. CASE DeleteRow(c)
    BY <2>0, <2>9 DEF DeleteRow, Reqs
  <2> QED  BY <1>3, <2>1, <2>2, <2>3, <2>4, <2>5, <2>6, <2>7, <2>8, <2>9 DEF Step
<1>4. ASSUME NEW t \in Tasks, DeletePage(t) PROVE TypeOK'
  BY <1>4 DEF DeletePage
<1>5. ASSUME NEW t \in Tasks, RunFind(t) PROVE TypeOK'
  BY <1>5 DEF RunFind
<1>6. ASSUME NEW h \in held, RunWrite(h) PROVE TypeOK'
  BY <1>6 DEF RunWrite
<1>7. ASSUME NEW h \in held, RunEnd(h) PROVE TypeOK'
  BY <1>7 DEF RunEnd
<1>8. ASSUME NEW cron \in OnceCrons, Expire(cron) PROVE TypeOK'
  BY <1>8 DEF Expire
<1>9. CASE Boot
  <2>1. CASE BootLoad
    BY <2>1 DEF BootLoad
  <2>2. ASSUME NEW t \in Tasks, BootAdd(t) PROVE TypeOK'
    BY <2>2 DEF BootAdd, BootAlone, SchedRows
  <2>3. CASE BootDone
    BY <2>3 DEF BootDone
  <2> QED  BY <1>9, <2>1, <2>2, <2>3 DEF Boot
<1>10. CASE Crash
  BY <1>10 DEF Crash, PCs
<1> QED
  BY <1>1, <1>2, <1>3, <1>4, <1>5, <1>6, <1>7, <1>8, <1>9, <1>10 DEF Next

LEMMA InitType == Init => TypeOK
  BY DEF Init, TypeOK, SchedRows, AllCrons, PCs
-----------------------------------------------------------------------------
\* The tasks the code answers for.
Sound(t) == t \notin overlapped \cup orphaned

OneAtATime ==
  \A t \in Tasks : Sound(t) => \A c, d \in Clients : Busy(c, t) /\ Busy(d, t) => c = d

\* Where a request is, given its type.
OnRoute(c) ==
  /\ pc[c] = "start" => req[c].type = "start"
  /\ pc[c] \in {"modify", "detail"} => req[c].type = "modify"
  /\ pc[c] = "stop" => req[c].type = "stop"
  /\ pc[c] = "add" => req[c].type \in {"start", "modify"}

\* What a request under way has established and still relies on.
UnderWay(c, t) ==
  /\ sched[t] = [cron |-> req[c].cron, switch |-> Switch(req[c].type)]
  /\ pc[c] \in {"start", "modify", "detail", "stop", "remove", "add"} => kind[t] # "absent"
  /\ pc[c] \in {"deleteTask", "deleteRow"} => jobs[t] = None
  /\ pc[c] = "add" /\ req[c].type = "modify" => jobs[t] = None

RequestsKeepOrder ==
  \A c \in Clients : OnRoute(c) /\ \A t \in Tasks : Sound(t) /\ Busy(c, t) => UnderWay(c, t)

\* The inductive invariant.
IInv == TypeOK /\ BootAlone /\ OneAtATime /\ RequestsKeepOrder /\ JobsHaveTasks /\ JobsMatchTable

LEMMA InitIInv == Init => IInv
<1> SUFFICES ASSUME Init PROVE IInv
  OBVIOUS
<1>1. TypeOK
  BY InitType
<1>2. BootAlone /\ OneAtATime /\ RequestsKeepOrder
  BY DEF Init, BootAlone, OneAtATime, RequestsKeepOrder, OnRoute, Busy
<1>3. JobsHaveTasks /\ JobsMatchTable
  BY DEF Init, JobsHaveTasks, JobsMatchTable
<1> QED  BY <1>1, <1>2, <1>3 DEF IInv

\* What is left of a task that one request handles: the row of the table is that
\* of the request, or gone, and the others do not touch it.
Matches(t) ==
  jobs[t] # None => /\ sched[t] # None /\ sched[t].switch = 0
                    /\ t \notin threw => jobs[t] = sched[t].cron

\* A step of a request keeps the invariant: it disturbs the task of the request
\* only, and when it ends the request the job matches the table.
LEMMA RequestStep ==
  ASSUME IInv, TypeOK', NEW c \in Clients, Step(c)
  PROVE  IInv'
<1> SUFFICES ASSUME NEW u \in Tasks, u = req[c].task PROVE IInv'
  BY DEF IInv, TypeOK, Reqs, Step, Convert, StartTask, StopTask, AddJob, ModifyJobTime,
         ModifyDetail, RemoveJob, DeleteTask, DeleteRow
<1> USE DEF Sound, Busy, tables, process, others, Goto, Return, Throw
<1>0. /\ pc[c] # "idle" /\ req[c] \in Reqs /\ boot = "up" /\ left = {}
      /\ TypeOK /\ BootAlone /\ OneAtATime /\ RequestsKeepOrder
      /\ JobsHaveTasks /\ JobsMatchTable
  BY DEF IInv, TypeOK, BootAlone, Reqs, Step, Convert, StartTask, StopTask, AddJob,
         ModifyJobTime, ModifyDetail, RemoveJob, DeleteTask, DeleteRow
<1>1. /\ UNCHANGED <<boot, left, overlapped, orphaned>>
      /\ \A t \in Tasks : t # u => kind'[t] = kind[t] /\ sched'[t] = sched[t]
                                    /\ jobs'[t] = jobs[t] /\ (t \in threw' <=> t \in threw)
      /\ \A d \in Clients : d # c => pc'[d] = pc[d] /\ req'[d] = req[d]
      /\ pc'[c] = "idle" \/ req'[c] = req[c]
  BY <1>0 DEF TypeOK, Step, Convert, StartTask, StopTask, AddJob, ModifyJobTime,
              ModifyDetail, RemoveJob, DeleteTask, DeleteRow
<1>2. BootAlone' /\ OneAtATime'
  BY <1>0, <1>1 DEF BootAlone, OneAtATime
<1>3. /\ OnRoute(c)'
      /\ Sound(u) => /\ jobs'[u] # None => kind'[u] # "absent"
                     /\ pc'[c] # "idle" => UnderWay(c, u)'
                     /\ pc'[c] = "idle" => Matches(u)'
  <2>1. OnRoute(c) /\ (Sound(u) => UnderWay(c, u) /\ (jobs[u] # None => kind[u] # "absent"))
    BY <1>0 DEF RequestsKeepOrder, JobsHaveTasks
  <2> USE <1>0, <2>1, NoneAssumption DEF AllCrons, SchedRows, TypeOK, OnRoute, UnderWay, Matches, Switch, Reqs, Types
  <2>2. CASE Convert(c)
    BY <2>2 DEF Convert, Route, Converted
  <2>3. CASE StartTask(c)
    BY <2>3 DEF StartTask
  <2>4. CASE StopTask(c)
    BY <2>4 DEF StopTask
  <2>5. CASE AddJob(c)
    BY <2>5 DEF AddJob
  <2>6. CASE ModifyJobTime(c)
    BY <2>6 DEF ModifyJobTime, SameTime
  <2>7. CASE ModifyDetail(c)
    BY <2>7 DEF ModifyDetail
  <2>8. CASE RemoveJob(c)
    BY <2>8 DEF RemoveJob
  <2>9. CASE DeleteTask(c)
    BY <2>9 DEF DeleteTask
  <2>10. CASE DeleteRow(c)
    BY <2>10 DEF DeleteRow
  <2> QED
    BY <2>2, <2>3, <2>4, <2>5, <2>6, <2>7, <2>8, <2>9, <2>10 DEF Step
<1>4. RequestsKeepOrder'
  <2>1. ASSUME NEW d \in Clients, d # c PROVE OnRoute(d)'
    BY <1>0, <1>1, <2>1 DEF RequestsKeepOrder, OnRoute
  <2>2. ASSUME NEW d \in Clients, d # c, NEW t \in Tasks, Sound(t)', Busy(d, t)'
        PROVE  UnderWay(d, t)'
    <3>1. Sound(t) /\ Busy(d, t) /\ t # u
      BY <1>0, <1>1, <2>2 DEF OneAtATime
    <3> QED  BY <1>0, <1>1, <2>2, <3>1 DEF RequestsKeepOrder, UnderWay
  <2>3. ASSUME NEW t \in Tasks, Sound(t)', Busy(c, t)' PROVE UnderWay(c, t)'
    <3>1. t = u /\ Sound(u)
      BY <1>1, <2>3
    <3> QED  BY <1>3, <2>3, <3>1
  <2> QED  BY <1>3, <2>1, <2>2, <2>3 DEF RequestsKeepOrder
<1>5. JobsHaveTasks'
  BY <1>0, <1>1, <1>3 DEF JobsHaveTasks
<1>6. JobsMatchTable'
  <2> SUFFICES ASSUME NEW t \in Tasks, Sound(t)', Quiet(t)' PROVE Matches(t)'
    BY DEF JobsMatchTable, Matches
  <2>1. CASE t = u
    <3>1. pc'[c] = "idle"
      BY <1>1, <2>1 DEF Quiet
    <3> QED  BY <1>1, <1>3, <2>1, <3>1
  <2>2. CASE t # u
    <3>1. Quiet(t)
      BY <1>1, <2>2 DEF Quiet
    <3>2. Matches(t)
      BY <1>0, <1>1, <3>1 DEF JobsMatchTable, Matches
    <3> QED  BY <1>1, <2>2, <3>2 DEF Matches
  <2> QED  BY <2>1, <2>2
<1> QED  BY <1>2, <1>4, <1>5, <1>6 DEF IInv

\* A new request writes its row first; its task is matched again when it ends.
LEMMA RequestArrives ==
  ASSUME IInv, TypeOK', NEW c \in Clients, NEW r \in Reqs, Request(c, r)
  PROVE  IInv'
<1> USE DEF Sound, Busy, process
<1>0. /\ pc[c] = "idle" /\ boot = "up" /\ left = {} /\ r.task \in Tasks
      /\ TypeOK /\ BootAlone /\ OneAtATime /\ RequestsKeepOrder
      /\ JobsHaveTasks /\ JobsMatchTable
  BY DEF IInv, TypeOK, BootAlone, Request, Reqs
<1>1. /\ UNCHANGED <<boot, left, kind, jobs, threw, orphaned>>
      /\ overlapped \subseteq overlapped'
      /\ r.task \notin overlapped' => Quiet(r.task)
      /\ \A t \in Tasks : t # r.task => sched'[t] = sched[t]
      /\ sched'[r.task] = [cron |-> r.cron, switch |-> Switch(r.type)]
      /\ \A d \in Clients : d # c => pc'[d] = pc[d] /\ req'[d] = req[d]
      /\ pc'[c] = "convert" /\ req'[c] = r
  BY <1>0 DEF TypeOK, Request
<1>2. BootAlone' /\ OneAtATime'
  BY <1>0, <1>1 DEF BootAlone, OneAtATime, Quiet
<1>3. RequestsKeepOrder'
  <2>1. \A d \in Clients : OnRoute(d)'
    BY <1>0, <1>1 DEF RequestsKeepOrder, OnRoute
  <2>2. ASSUME NEW d \in Clients, d # c, NEW t \in Tasks, Sound(t)', Busy(d, t)'
        PROVE  UnderWay(d, t)'
    <3>1. Sound(t) /\ Busy(d, t) /\ t # r.task
      BY <1>0, <1>1, <2>2 DEF Quiet
    <3> QED  BY <1>0, <1>1, <2>2, <3>1 DEF RequestsKeepOrder, UnderWay
  <2>3. ASSUME NEW t \in Tasks, Busy(c, t)' PROVE UnderWay(c, t)'
    BY <1>1, <2>3 DEF UnderWay
  <2> QED  BY <2>1, <2>2, <2>3 DEF RequestsKeepOrder
<1>4. JobsHaveTasks'
  BY <1>0, <1>1 DEF JobsHaveTasks
<1>5. JobsMatchTable'
  <2> SUFFICES ASSUME NEW t \in Tasks, Sound(t)', Quiet(t)' PROVE Matches(t)'
    BY DEF JobsMatchTable, Matches
  <2>1. t # r.task /\ Quiet(t) /\ Sound(t)
    BY <1>0, <1>1 DEF Quiet
  <2> QED  BY <1>0, <1>1, <2>1 DEF JobsMatchTable, Matches
<1> QED  BY <1>2, <1>3, <1>4, <1>5 DEF IInv

\* Steps that touch neither the scheduler table nor the requests, take no row
\* from a task that counts, and only drop jobs.
LEMMA AwayStep ==
  ASSUME IInv, TypeOK', UNCHANGED <<sched, boot, left, pc, req, overlapped, threw>>,
         orphaned \subseteq orphaned',
         \A t \in Tasks : jobs'[t] \in {jobs[t], None},
         \A t \in Tasks : kind'[t] = "absent" /\ kind[t] # "absent" =>
                            t \in orphaned' /\ boot = "up"
  PROVE  IInv'
<1> USE DEF Sound, Busy
<1>0. /\ TypeOK /\ BootAlone /\ OneAtATime /\ RequestsKeepOrder
      /\ JobsHaveTasks /\ JobsMatchTable
  BY DEF IInv
<1>1. BootAlone' /\ OneAtATime'
  BY <1>0 DEF BootAlone, OneAtATime, TypeOK
<1>2. RequestsKeepOrder'
  BY <1>0 DEF RequestsKeepOrder, OnRoute, UnderWay
<1>3. JobsHaveTasks'
  BY <1>0 DEF JobsHaveTasks
<1>4. JobsMatchTable'
  BY <1>0 DEF JobsMatchTable, Quiet
<1> QED  BY <1>1, <1>2, <1>3, <1>4 DEF IInv

LEMMA BootKeeps == ASSUME IInv, TypeOK', Boot PROVE IInv'
<1> USE DEF Sound, Busy, tables, requests, others
<1>0. /\ \A c \in Clients : pc[c] = "idle" /\ pc'[c] = "idle"
      /\ UNCHANGED <<kind, sched, pc, req, threw, overlapped, orphaned>>
      /\ TypeOK /\ BootAlone /\ JobsHaveTasks /\ JobsMatchTable
  BY DEF IInv, BootAlone, Boot, BootLoad, BootAdd, BootDone
<1>1. OneAtATime' /\ RequestsKeepOrder'
  BY <1>0 DEF OneAtATime, RequestsKeepOrder, OnRoute
<1>2. ASSUME NEW t \in Tasks, BootAdd(t) PROVE BootAlone' /\ JobsHaveTasks' /\ JobsMatchTable'
  <2>1. kind[t] # "absent" /\ sched[t] # None /\ sched[t].switch = 0 /\ left' \subseteq left
    BY <1>0, <1>2 DEF BootAdd, BootAlone
  <2>2. \A v \in Tasks : jobs'[v] = jobs[v] \/ (v = t /\ jobs'[v] = sched[t].cron)
    BY <1>0, <1>2 DEF BootAdd, TypeOK
  <2>3. BootAlone'
    BY <1>0, <1>2, <2>1 DEF BootAdd, BootAlone
  <2>4. JobsHaveTasks'
    BY <1>0, <2>1, <2>2 DEF JobsHaveTasks
  <2>5. JobsMatchTable'
    BY <1>0, <2>1, <2>2 DEF JobsMatchTable, Quiet
  <2> QED  BY <2>3, <2>4, <2>5
<1>3. CASE BootLoad
  <2>1. BootAlone'
    BY <1>0, <1>3 DEF BootLoad, BootAlone, Loadable
  <2> QED
    BY <1>0, <1>1, <1>3, <2>1 DEF IInv, BootLoad, JobsHaveTasks, JobsMatchTable, Quiet
<1>4. CASE BootDone
  <2>1. BootAlone'
    BY <1>0, <1>4 DEF BootDone, BootAlone
  <2> QED
    BY <1>0, <1>1, <1>4, <2>1 DEF IInv, BootDone, JobsHaveTasks, JobsMatchTable, Quiet
<1> QED  BY <1>1, <1>2, <1>3, <1>4 DEF IInv, Boot

LEMMA CrashKeeps == ASSUME IInv, TypeOK', Crash PROVE IInv'
<1>1. BootAlone' /\ OneAtATime' /\ RequestsKeepOrder'
  BY DEF IInv, TypeOK, Crash, BootAlone, OneAtATime, RequestsKeepOrder, OnRoute, Busy
<1>2. JobsHaveTasks' /\ JobsMatchTable'
  BY DEF Crash, JobsHaveTasks, JobsMatchTable
<1> QED  BY <1>1, <1>2 DEF IInv

LEMMA StepIInv == IInv /\ [Next]_vars => IInv'
<1> SUFFICES ASSUME IInv, [Next]_vars PROVE IInv'
  OBVIOUS
<1> USE DEF tables, process, others, requests
<1>0. TypeOK /\ TypeOK'
  BY StepType DEF IInv
<1>1. CASE UNCHANGED vars
  BY <1>0, <1>1, AwayStep DEF vars
<1>2. ASSUME NEW c \in Clients, Step(c) PROVE IInv'
  BY <1>0, <1>2, RequestStep
<1>3. ASSUME NEW c \in Clients, NEW r \in Reqs, Request(c, r) PROVE IInv'
  BY <1>0, <1>3, RequestArrives
<1>4. ASSUME NEW t \in Tasks, DeletePage(t) PROVE IInv'
  <2>1. \A v \in Tasks : kind'[v] = "absent" /\ kind[v] # "absent" =>
                           v \in orphaned' /\ boot = "up"
    BY <1>0, <1>4 DEF DeletePage, TypeOK
  <2> QED  BY <1>0, <1>4, <2>1, AwayStep DEF DeletePage
<1>5. ASSUME NEW t \in Tasks, RunFind(t) PROVE IInv'
  BY <1>0, <1>5, AwayStep DEF RunFind
<1>6. ASSUME NEW h \in held, RunWrite(h) PROVE IInv'
  <2>1. \A v \in Tasks : kind'[v] = "absent" => kind[v] = "absent"
    BY <1>0, <1>6 DEF RunWrite, TypeOK
  <2> QED  BY <1>0, <1>6, <2>1, AwayStep DEF RunWrite
<1>7. ASSUME NEW h \in held, RunEnd(h) PROVE IInv'
  BY <1>0, <1>7, AwayStep DEF RunEnd
<1>8. ASSUME NEW cron \in OnceCrons, Expire(cron) PROVE IInv'
  BY <1>0, <1>8, AwayStep DEF Expire
<1>9. CASE Boot
  BY <1>0, <1>9, BootKeeps
<1>10. CASE Crash
  BY <1>0, <1>10, CrashKeeps
<1> QED
  BY <1>1, <1>2, <1>3, <1>4, <1>5, <1>6, <1>7, <1>8, <1>9, <1>10 DEF Next

\* The variables of the schedules keep their types in every behaviour.
THEOREM SchedulerTypeCorrect == Spec => []TypeOK
<1>1. IInv => TypeOK
  BY DEF IInv
<1> QED  BY InitIInv, StepIInv, <1>1, PTL DEF Spec

\* A quiet task has a job only if the scheduler table switches it on, at the time
\* the table says, whatever requests, crashes, expiries and runs there have been.
THEOREM JobsMatchTableHolds == Spec => []JobsMatchTable
<1>1. IInv => JobsMatchTable
  BY DEF IInv
<1> QED  BY InitIInv, StepIInv, <1>1, PTL DEF Spec

\* No job for a task that is not in the table, at any moment.
THEOREM JobsHaveTasksHolds == Spec => []JobsHaveTasks
<1>1. IInv => JobsHaveTasks
  BY DEF IInv
<1> QED  BY InitIInv, StepIInv, <1>1, PTL DEF Spec
-----------------------------------------------------------------------------
\* The boot adds for every task switched on, and while it adds nobody else changes
\* the tables: rows that runs hold are rows of jobs that the boot has added.
Given(t) == jobs[t] = sched[t].cron \/ sched[t].cron \in expired

BootInv ==
  /\ boot = "down" => held = {} /\ \A t \in Tasks : jobs[t] = None
  /\ boot \in {"adding", "failed"} =>
       /\ \A t \in Tasks : jobs[t] # None => On(t)
       /\ \A h \in held : On(h.task) /\ h.kind = "auto"
  /\ boot = "adding" => \A t \in Tasks : On(t) => t \in left \/ Given(t)
  /\ boot = "failed" => BootBlocked
  /\ \A t \in left : On(t)

LEMMA InitBootInv == Init => BootInv
  BY DEF Init, BootInv

\* Every step keeps it.
LEMMA StepBootInv == ASSUME IInv, IInv', BootInv, [Next]_vars PROVE BootInv'
<1> USE DEF tables, process, others, requests, On
<1>0. /\ TypeOK /\ TypeOK' /\ BootAlone /\ BootAlone'
      /\ JobsMatchTable /\ JobsMatchTable'
  BY DEF IInv
<1>1. CASE UNCHANGED vars
  BY <1>1 DEF BootInv, Given, BootBlocked, Schedulable, vars
\* Requests, and deletions, come when the boot is over.
<1>2. ASSUME boot = "up", boot' = "up" PROVE BootInv'
  BY <1>0, <1>2 DEF BootInv, BootAlone
<1>3. ASSUME NEW c \in Clients, Step(c) PROVE BootInv'
  <2>1. pc[c] # "idle" /\ UNCHANGED boot
    BY <1>3 DEF Step, Convert, StartTask, StopTask, AddJob, ModifyJobTime, ModifyDetail,
                RemoveJob, DeleteTask, DeleteRow
  <2> QED  BY <1>0, <1>2, <2>1 DEF BootAlone
<1>4. ASSUME NEW c \in Clients, NEW r \in Reqs, Request(c, r) PROVE BootInv'
  BY <1>2, <1>4 DEF Request
<1>5. ASSUME NEW t \in Tasks, DeletePage(t) PROVE BootInv'
  BY <1>2, <1>5 DEF DeletePage
<1>6. ASSUME NEW t \in Tasks, RunFind(t) PROVE BootInv'
  <2>1. UNCHANGED <<kind, sched, jobs, expired, boot, left>>
    BY <1>6 DEF RunFind
  <2>2. CASE boot = "up"
    BY <1>2, <2>1, <2>2
  <2>3. CASE boot # "up"
    <3>1. boot # "down" /\ jobs[t] # None
      BY <1>6, <2>3 DEF RunFind, BootInv
    <3>2. boot \in {"adding", "failed"} =>
            \A h \in held' : On(h.task) /\ h.kind = "auto"
      BY <1>0, <1>6, <3>1 DEF RunFind, BootInv
    <3> QED  BY <2>1, <3>1, <3>2 DEF BootInv, Given, BootBlocked, Schedulable
  <2> QED  BY <2>2, <2>3
<1>7. ASSUME NEW h \in held, RunWrite(h) PROVE BootInv'
  <2>1. UNCHANGED <<sched, jobs, expired, boot, left, held>>
    BY <1>7 DEF RunWrite
  <2>2. CASE boot = "up"
    BY <1>2, <2>1, <2>2
  \* The row it writes back is the row that is there.
  <2>3. CASE boot # "up"
    <3>1. boot \in {"adding", "failed"}
      BY <1>0, <2>3 DEF TypeOK, BootInv
    <3>2. h.task \in Tasks /\ kind[h.task] = "auto" /\ h.kind = "auto"
      BY <1>0, <3>1 DEF TypeOK, BootInv
    <3>3. \A t \in Tasks : kind'[t] = kind[t]
      BY <1>0, <1>7, <3>2 DEF RunWrite, TypeOK
    <3>4. \A g \in held : g.task \in Tasks
      BY <1>0 DEF TypeOK
    <3>5. left \subseteq Tasks
      BY <1>0 DEF TypeOK
    <3> QED  BY <2>1, <3>1, <3>3, <3>4, <3>5 DEF BootInv, Given, BootBlocked, Schedulable
  <2> QED  BY <2>2, <2>3
<1>8. ASSUME NEW h \in held, RunEnd(h) PROVE BootInv'
  BY <1>8 DEF RunEnd, BootInv, Given, BootBlocked, Schedulable
<1>9. ASSUME NEW cron \in OnceCrons, Expire(cron) PROVE BootInv'
  <2>1. /\ UNCHANGED <<kind, sched, boot, left, held>>
        /\ expired' = expired \cup {cron}
        /\ \A t \in Tasks : jobs'[t] = IF jobs[t] = cron THEN None ELSE jobs[t]
    BY <1>9 DEF Expire
  <2>2. ASSUME NEW t \in Tasks, Given(t) PROVE Given(t)'
    BY <2>1, <2>2 DEF Given
  <2>3. BootBlocked => BootBlocked'
    BY <2>1 DEF BootBlocked, Schedulable
  <2> QED  BY <2>1, <2>2, <2>3 DEF BootInv
<1>10. CASE BootLoad
  BY <1>0, <1>10 DEF BootLoad, Loadable, BootInv
<1>11. ASSUME NEW t \in Tasks, BootAdd(t) PROVE BootInv'
  <2>1. UNCHANGED <<kind, sched, expired, held>> /\ On(t) /\ boot = "adding"
    BY <1>11 DEF BootAdd, BootInv
  <2>2. CASE Schedulable(sched[t].cron)
    <3>1. /\ UNCHANGED boot /\ left' = left \ {t}
          /\ jobs'[t] = sched[t].cron
          /\ \A u \in Tasks : u # t => jobs'[u] = jobs[u]
      BY <1>0, <1>11, <2>2 DEF BootAdd, TypeOK
    <3> QED  BY <2>1, <3>1 DEF BootInv, Given
  <2>3. CASE ~Schedulable(sched[t].cron)
    <3>1. boot' = "failed" /\ left' = {} /\ UNCHANGED jobs
      BY <1>11, <2>3 DEF BootAdd
    <3> QED  BY <2>1, <2>3, <3>1 DEF BootInv, BootBlocked, Schedulable
  <2> QED  BY <2>2, <2>3
<1>12. CASE BootDone
  BY <1>12 DEF BootDone, BootInv
<1>13. CASE Crash
  BY <1>13 DEF Crash, BootInv
<1> QED
  BY <1>1, <1>3, <1>4, <1>5, <1>6, <1>7, <1>8, <1>9, <1>10, <1>11, <1>12, <1>13
  DEF Next, Boot

\* The end of a boot, from the invariant before the step and after it.
LEMMA StepRestores ==
  ASSUME IInv, BootInv, BootInv', [Next]_vars
  PROVE  /\ boot = "adding" /\ boot' = "up" => \A t \in Tasks : On(t) => Given(t)
         /\ boot' = "failed" => BootBlocked'
<1>1. ASSUME boot = "adding", boot' = "up" PROVE left = {}
  <2>1. \A c \in Clients : pc[c] = "idle"
    BY <1>1 DEF IInv, BootAlone
  <2>2. BootDone
    BY <1>1, <2>1
    DEF Next, vars, Step, Request, DeletePage, RunFind, RunWrite, RunEnd, Expire, Boot,
        BootLoad, BootAdd, Crash, process, Convert, StartTask, StopTask, AddJob,
        ModifyJobTime, ModifyDetail, RemoveJob, DeleteTask, DeleteRow
  <2> QED  BY <2>2 DEF BootDone
<1> QED  BY <1>1 DEF BootInv

\* A boot that ends has given every task switched on its job, at the time of the
\* table, but for times that are over; it fails only by an expression of the tables.
THEOREM BootRestoresHolds == Spec => BootRestores
<1>1. Init => IInv /\ BootInv
  BY InitIInv, InitBootInv
<1>2. IInv /\ BootInv /\ [Next]_vars => IInv' /\ BootInv'
  BY StepIInv, StepBootInv
<1>3. IInv /\ BootInv /\ BootInv' /\ [Next]_vars =>
        [/\ boot = "adding" /\ boot' = "up" =>
              \A t \in Tasks : On(t) => jobs[t] = sched[t].cron \/ sched[t].cron \in expired
         /\ boot' = "failed" => BootBlocked']_vars
  BY StepRestores DEF Given
<1> QED  BY <1>1, <1>2, <1>3, PTL DEF Spec, BootRestores
=============================================================================
