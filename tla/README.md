# Hive Cube: a TLA+ verification project

Hive Cube is a web application in which people write Hive queries as *tasks*, run
them by hand or on a schedule, wait for them in a bounded line, and are mailed
when a result is ready. The project models the parts where several threads, requests or
answers share state: the execution of tasks and their schedules, the pages whose dialogs and boxes
are filled by late answers, and the tables behind roles, menus and Hive metadata. Its modules are
translated from the Java, MyBatis and page sources; paths below are relative to
`src/hive-cube-web/src/main/java/org/smartloli/hive/cube/web/` unless they start
with `src/`.

## 1. Inventory

| Component | State | Operations | Talks to |
|---|---|---|---|
| Task line: `task/TaskQueue`, `task/TaskFactory`, `Queue`, `Task` | static copy-on-write list of `Queue` objects (task, rank, status, vip), each pointing to a `Task` object | `hasFree`, `isFull`, `getPrivateRank`, `getRank`, `remove`, `updateQueues`, `modify` | called by requests, Quartz jobs, the monitor, the boot, pool threads |
| Pool: `task/ThreadExecutor`, `task/RunnablePriority` | fixed pool with a priority queue of submissions | `addTask`, `run`, `executor`, `common` | query engine, table, line, mail |
| Task service: `service/impl/TasksServiceImpl`, `dao/TasksDao.xml` | table `tasks` | run (private, vip), kill, delete, edit, replace of rows | line, pool |
| Boot and monitor: `controller/StartupListener` | the monitor thread | reload of tasks after a restart, addition of Quartz jobs, promotion of waiting entries | table, line, pool, Quartz |
| Scheduler: `controller/SchedulerController`, `service/impl/SchedulerServiceImpl`, `QuartzManager`, `task/ScheduleTask` | table `scheduler`, the columns `is_auto` and `status` of `tasks`, the in-memory Quartz job store | add, start, modify, stop, cancel, delete; a job that fires runs a private task | tables, Quartz, task service |
| Export: `controller/ExportController`, `src/hive-cube-web/src/main/webapp/media/js/main/export/common.js` | rows of `tasks` it inserts; in the page: table, boxes, two lists, filters | build a query, insert a task and run it | task service |
| Dialogs: `tasks`, `system/user.js`, `storage/mysql.js` under `media/js/main` | hidden key, inputs, requests under way | open for a row, fill by an answer, submit | task service, scheduler, accounts, storage |
| Query engine: `service/impl/EngineServiceImpl`, `HiveUtils`, `CSVUtils` | a Hive connection, result files | run the statements of a task, turn rows into CSV and JSON | Hive, HDFS |
| Mail: `util/Reporter`, `MailUtils` | none | notice of a finished task | SMTP |
| YARN client: `YarnManager` | none | kill, progress, application list | YARN |
| HBase and MySQL plugins (`src/hive-cube-plugins`) | cache of HBase connections | open, evict, scan, SQL translation | HBase, MySQL |
| Storage and rowkey configuration | plugin rows, rowkey rows | create, replace, page results | plugins |
| Hive metadata: `service/impl/HiveServiceImpl`, `controller/ConfigController` | `hive_table`, `hive_sync_status` | synchronise all tables or one, edit comments | Hive |
| Menu resources: `controller/ResourcesController` and its page | `resources`; selects of the page | add roots and children, delete, build the tree | database |
| Roles: `controller/RoleController`, `sso/SSORealm` and the page | `role_resource`, `user_role`, the authorisation cache, the tree of the page | grant, revoke, change roles, authorise | database, Shiro |
| Accounts: `controller/UserController` | `user` | add, modify, reset, sign in | database |
| Dashboard, metrics, application views | none of its own | read JMX and YARN | Hadoop |

What is hard: a run of a task is a chain of separate SQL statements and calls
on a list that up to five kinds of threads (requests, Quartz jobs, the monitor,
the boot, pool threads) change at the same time, with no lock over two of them.
Task rows are read once, kept in memory and written back whole, so every write
of a status is also a write of stale content. The pool, the line and the job
store live in memory: a crash leaves only the tables.

What makes each part correct:

* line and pool: who waits does not run; a slot taken is backed by a run and is
  given back; a place in the line only improves; everything that is let in
  leaves; nothing is submitted without bound.
* table: Finished means that a query has succeeded; edits and deletions stick.
* boot: whatever was waiting or running is back in the line and runs again.
* scheduler: a job exists for a task exactly when the tables say so, also after a
  restart.
* pages: a submit changes the row of the last click, and never gives a row the content of
  another one; what is sent is what is checked.
* menus, roles: no menu below a child; authorisations follow the tables.
* Hive metadata: the two tables agree, and a synchronisation spares what it finds.
* query engine, paging, plugins: rows and pages are complete and in order.

`PROJECT.json` lists every hazard at its line.

## 2. Modules

| Module | What it is |
|---|---|
| `TaskEngine` | the execution core, its fairness, its properties |
| `TaskLife`, `TaskRefinement` | what the core promises of one execution, and the mapping by which `TaskEngine` implements it |
| `QueueScan` | `TaskQueue.remove` call by call, which `TaskEngine` takes for one step |
| `Scheduler` | schedules: the two tables and the Quartz job store |
| `Dialogs` | the dialogs of the pages of tasks, schedules, users and MySQL servers |
| `ExportPage` | the page that puts a query together |
| `Resources`, `Roles` | menus and their page; grants, the page of the roles and the authorisation cache |
| `HiveSync` | the two listings of Hive tables and the requests that change them |
| `MCTaskEngine`, `MCTaskRefinement`, `MCScheduler` | names of tasks and threads for TLC; the `Task*.cfg` and `Sched*.cfg` files instantiate them |
| `Components`, `MCComponents` | the six components that share no state, composed (`INSTANCE ... WITH`); their small instances for TLC |
| `*Proofs` | theorems about the module of that name, for every value of its constants |

How they compose: `TaskRefinement` extends `TaskEngine` and instantiates `TaskLife`. `TaskEngine`
lets a job of an automatic task fire at any moment, whatever the job store holds, so it
allows every run that `Scheduler` can start. The requests of `Dialogs` and `ExportPage` are the
operations of the clients of `TaskEngine` and `Scheduler`, which may come with any arguments at any
moment. `QueueScan` says what the atomic removal of `TaskEngine` leaves out.

### TaskEngine and the code

| In the model | In the code |
|---|---|
| `db` | table `tasks`: `status`, `is_auto`, and `rev`, a version number that stands for content, name and e-mail |
| `obj[e]` | a `Queue` object and the `Task` it points to (`row`); the `Task` is shared by the list, the pool and the request that made it |
| `queue` | `TaskQueue.queues` |
| `pool`, `run`, `wpc` | submissions of each object that wait in the pool; what each core thread does |
| `pc`, `own`, `arg`, `snap` | where each request thread, Quartz job thread, the monitor and the boot are; the object and the list they hold in local variables |
| `loading` | the list the boot got from `loadRunningTask`, the task at hand, and what `isFull` said of it |
| `handed`, `dropped`, `succeeded`, `added`, `mails` | history, read by properties only |

Each handler is split at every access to shared state: one SQL statement, one
call of `TaskQueue` or `TaskFactory`, one submission is one step.

* `PrivateFind .. PrivateSubmit` is `executorPrivateTaskById`: read the row and test
  the status, write `Running`, `isFull`, `getPrivateRank`, add, three refreshes and a
  batch write, test of the rank, submission. Both requests and Quartz jobs run it;
  the jobs already during the boot (`MayFire`).
* `Refresh` is the idiom `modify() != null && modify().size() > 0` followed by
  `batchModifyTaskStatus(modify())`, shared by the request, the monitor and the
  boot: `modify()` is called three times, and each call changes the `Task` objects.
* `ExportInsert`, `ExportFind` is the insert and the run of an export.
* `VipFind .. VipSubmit` is `executorTaskById`, `KillFind .. KillRemove` is
  `killTaskById` once YARN has answered.
* `DeleteTask`, `EditContent` are single statements; `ConvertAuto` and `SwitchTask`
  are the two statements of `updateScheduler` on the table `tasks`.
* `Take`, `Execute`, `ExecuteThrows`, `Commit`, `Leave`, `Report` are `RunnablePriority` and
  `Reporter`. A query ends with a result (`success`), with an error that the engine
  reports (`error`), with a content type other than `hive` (`other`), or with an
  exception (`throw`).
* `MonitorCheck`, `MonitorUpdate` and `Refresh` are one round of `MonitorTask`.
* `BootLoad .. BootSubmit` is `setApplicationContext`: the load, the additions of the jobs, then for
  each task `isFull` and the add, the refresh, the submissions and the start of the monitor. Jobs fire
  from the additions on, in any order with the steps of the boot. An addition that throws
  (`StartupListener` 68) ends the boot before anything is enqueued: which expressions do is
  modelled in `Scheduler`, here any automatic task may have one. `Crash` may come at any
  step after the boot has begun and leaves the table only.

Abstracted: times, logs, download paths and sizes of a `Task`; `Queue(n)` is the
status `Queue`; `getRank` of the boot reads no list (`TaskQueue` 57), and is part of the step that
adds. A step of `modify`, `updateQueues` and of the submission loop of the
boot covers the whole loop, and `remove` is one step. A row that is not there
makes `executorPrivateTaskById` end with an exception, before any change; for
`executorTaskById` and `killTaskById` that case, and a kill that YARN refuses, changes
nothing and is left out. SQL statements do not fail, except the batch write of
an empty list, which is a syntax error. The process table only feeds the log
view and the kill, and is left out.

### TaskLife, TaskRefinement and QueueScan

`TaskLife` has no list, pool, threads or database. An execution is made for a task, waits at a
rank or has its turn, and starts; it may be withdrawn before it starts, and then never
does; those who wait move up together, one place at a time; results come from executions that
have started; only results are shown and told of; a crash forgets executions, not results.
`TaskRefinement` reads this off `TaskEngine`: `LifeOf(e)` is the life of a `Queue` object (`made`
while only its client knows it, `waiting` or `turn` by its rank while it is listed, or out of
the list while the thread that added it is about to submit it, `started` from its first
submission on, `withdrawn` otherwise), `finished` are the rows with the status Finished. The second
submission of an entry, the refreshes and the database writes are stutters.

`QueueScan` has the loop of `remove` in its three calls, `size()`, `get(i)` and
`remove(Object)`, on a list to which others add and from which others remove. `there`, `shrunk`, `yes`
and `entered` are history.

### Scheduler and the code

| In the model | In the code |
|---|---|
| `kind` | table `tasks`: whether the row is there, and its `is_auto` |
| `sched` | table `scheduler`: expression and `task_switch` |
| `jobs` | the Quartz job store: a job and its trigger have the id of the task as their name |
| `expired` | expressions with a year whose last time is over |
| `pc`, `req` | the request threads in `updateScheduler`, and what they ask for |
| `boot`, `left` | `setApplicationContext` as far as `loadAutoTask` and the additions of its jobs go |
| `held` | rows that runs have read (in `TaskEngine`: the Task objects) |
| `listed`, `overlapped`, `orphaned`, `threw` | history: what pages may offer; what properties leave out |

`Request` is `modifyScheduleTask` and the first statement of `updateScheduler`; `Convert ..
DeleteRow` are its other statements and Quartz calls, routed by the type of the request.
`addJob` refuses a name that is taken and an expression that does not parse or has no
time left; `modifyJobTime` is three steps, since the trigger it has read may be gone when
it asks for the job. `removeJob` is one step. "start" stands for "add" too.
`RunFind`, `RunWrite`, `RunEnd` stand for what `TaskEngine` details: runs write
`is_auto` back as they once read it. `DeletePage` is the deletion from a page of manual
tasks, which knows nothing of schedules. A boot whose `addJob` throws is over
(`failed`): the exception leaves `setApplicationContext`.

### The pages and the tables behind them

| Module | In the model | In the code |
|---|---|---|
| `Dialogs` | `kind` | which page: content of tasks (four pages), time of automatic tasks (two), users, MySQL servers |
| | `rows`, `listed` | the table, and what the page shows of it; other users edit and delete the rows |
| | `dialog`, `form` | the modal, and its inputs with the hidden key and, on the pages of schedules, the type of the request; nothing empties them when the dialog is closed |
| | `flight` | AJAX requests under way: asked, answered, in any order, or lost |
| | `aim` | history: the row of the last click since the page was loaded |
| `ExportPage` | `selected`, `shown`, `checked`, `filters` | the name read from the table select, the table whose boxes are drawn, the boxes, the entries of the filter list that have a condition |
| | `columns`, `headers` | `hiveSubmitColumns`, `hiveSubmitColumnsAlias` of `export/common.js` |
| | `TableIn`, `CommentOf`, `extraHiveColumn`, `extraHiveColumnAlias`, `Readable` | what the page reads back from `alias[table]` and from the box `comment[column]` (118, 147, 188-194) |
| | `Title` | the titles that `EngineServiceImpl` 169 reads in the headers joined by commas |
| `Resources` | `parentId`, `used` | table `resources`, its `auto_increment` |
| | `options`, `chosen`, `calls` | `res_parent_id`, `res_child_root_id`, `res_child_id` and the requests that fill them |
| `Roles` | `granted`, `held` | tables `role_resource`, `user_role` |
| | `tree`, `calls` | the tree of a role, each box of which sends a request of its own |
| | `cache`, `loads` | `authorizationCache` of Shiro, and the threads in `doGetAuthorizationInfo` |
| `HiveSync` | `stored`, `status` | the aliases in `hive_table` and `hive_sync_status` |
| | `step`, `todo`, `subject`, `alias` | the locals of `synchronizeAllTableFromHive`, `synchronizeTableFromHiveByName` and of the change of a comment |

In `ExportPage`, a comment is what the page makes of it: the text before its first bracket, and the
name behind that bracket if it has one. A comment with an apostrophe before any bracket ends the
value of its box (`value='...'`, 147), so that the click ends by an exception: the box is checked or
unchecked and the lists stay. A name in brackets need not be that of a column, nor the one in the
text of a table that of a table: the server then answers with an error (`LoseColumns`). Left out
are what a filter says (`parseen`, 301) and how the request is put into a URL; an alias is taken to have
no empty brackets, whose name would count as none.

In `Dialogs`, the content of a form is whose content it is and which version of it: that is all
that the two properties tell apart. In `HiveSync` the text of the columns is left out: whatever a
describe answers, an error included, changes no step. In `Roles`, a request writes and then
empties the cache key by key, while other threads load statement by statement and put.

## 3. What TLC checks

The code has five slots (`MAX_SIZE_LIMIT`, `CommonClientConfigs` 46). What the number of slots
changes is how many entries must be there before one waits, and which ranks `getPrivateRank` and
`getRank` give to those who do: with one slot the ranks are never below 0, and with two or more
they may be, when entries leave after `isFull` has answered (`TasksServiceImpl` 166, 167) or
when jobs have taken slots before the boot enqueues (`StartupListener` 75, 76). So `TaskLine`, the run
of both liveness properties, has two slots, and the other runs have one, where any
second entry waits and promotion, hand-over and removal all happen with two or three entries.
With two slots an entry of either kind can get a negative rank, wait, be
promoted and leave. Five slots and the entries to fill them are out of reach of TLC: the safety
properties are proved for any number of slots (section 4), the liveness properties are checked for one and two.
There is one pool thread. `MaxEntries` bounds the `Queue`
objects made in one life of the process, `MaxCrashes` the crashes, `MaxRev` the edits. `MaxEntries` stops requests, never
the boot: room is kept for what it has loaded. `CHECK_DEADLOCK` is off because the
system rests when no request comes.

| Run | Instance | What it shows |
|---|---|---|
| `TaskOps` | 2 tasks, one of them inserted later, 1 client, 2 entries, all operations | types; slots belong to runs (`SlotsAreHandedOver`); Finished means success (`NoPhantomFinish`); no more notices than entries (`OneNoticePerEntry`) |
| `TaskRaces` | 1 task, 2 clients, 3 entries, run and kill | with two threads in the handlers at the same time, an entry with a place in the line is never in the pool or executed (`QueuedNeverExecutes`), no entry is submitted more than twice (`AtMostTwice`), and a slot is lost only as often as runs have ended whose own entry is still listed (`SlotsComeBack`). Symmetry of the two clients |
| `TaskLine` | 2 slots; 2 tasks, one automatic and finished, one manual and interrupted; 1 client, 3 entries, the boot, fairness | while jobs and requests meet the boot, no waiting entry executes (`QueuedNeverExecutes`), ranks only improve (`RanksOnlyImprove`), every entry leaves unless it is stuck (`EntriesLeave`), and the interrupted task is submitted again, but for the cases below (`InterruptedRunAgain`) |
| `TaskRestart` | 1 slot; 2 tasks, one automatic, 1 crash, 2 entries, runs that end by an exception, fairness | each manual task that was waiting or running is back in the list before the boot submits (`InterruptedAreRequeued`), although jobs fire in the middle of the boot; every step is a step or a stutter of `TaskLife` (`ImplementsTaskLife`); every entry leaves unless it is stuck (`EntriesLeave`) |
| `SchedJobs` | 1 task, 2 requests at a time, runs, deletions, a lasting, an expiring and a bad expression, 1 crash | once the requests of a task have ended, a job exists only if the scheduler table switches it on, at the stored time unless the last request failed (`JobsMatchTable`); no job for a task without a row, at any moment (`JobsHaveTasks`) |
| `SchedRestart` | 2 tasks, 1 request at a time, runs, an expiring and a bad expression, 1 crash at any step, fairness | what the tables switch on has a job after the boot, unless the table holds an expression that ends every boot (`SchedulesSurvive`); a boot that ends has left out no task whose time is not over, and fails only by such an expression (`BootRestores`) |
| `Components` | six components, one at a time, see below | the properties of `Dialogs`, `ExportPage`, `Resources`, `Roles`, `HiveSync`, `QueueScan` |

One task is enough for `SchedJobs`: requests for different tasks share nothing but the
boot, which `SchedRestart` checks with two. Both job properties leave out tasks of which
two requests have overlapped since the boot, and tasks that a page of manual tasks has
deleted: for these the code keeps nothing in step. One crash is enough: it leaves only the
tables, and a request can bring them to any state before it.

`EntriesLeave` says that once no more requests come and the monitor is started, what is in the list is
`Stuck`, and names the only three ways to be:

* its rank is below 0: the monitor promotes ranks above 0 only (`TaskQueue` 105), and nobody
  submits a rank other than 0;
* its slot is `Abandoned`: it was submitted and has rank 0, but its runs are over without having
  taken it out, because of an exception (`RunnablePriority` 86) or because a run has taken out another entry
  of the task, and nobody is about to submit it again, the boot included;
* it waits, and all slots are abandoned.

`InterruptedRunAgain` says that an interrupted manual task is submitted again after a boot has
begun, unless `addJob` ends that boot (`StartupListener` 68), or the entry of the task is stuck for good in one of these ways.
Each exception was met as a counterexample, on the way from one slot to two and with runs that end by an exception; in the
instance of `TaskLine` both boot and jobs get ranks below 0, and in that of `TaskRestart` slots are
abandoned. The initial states of `TaskLine` (`AfterCrash`) are among those of `TaskEngine`: tables that a crash may have left.

`SlotsComeBack` was first written without its exception, and held with two
manual tasks. An instance with a boot and an automatic task refuted it: a job fires between the
load and the additions of the boot, the task has two entries, and the run of the second takes the
first out of the list. What is left is stated now, and the run `TaskSlotLost` shows the loss. On
the instance of `TaskSlotLost`, which loads both tasks as waiting, `EntriesLeave` and `SlotsComeBack` hold too (181,000 states).

`Components` takes one of six components at a time, since they share no state:

| Component | Instance | Properties |
|---|---|---|
| `Dialogs` | 3 rows, one added later, 2 requests under way, each kind of page | no row takes the content of another (`ContentStays`, users and servers); a submit changes the row of the last click (`AimKept`, tasks and schedules) |
| `Resources` | 3 menus, 1 request under way | no menu below a child (`TreeIsFlat`); only an add below a root that is gone makes an orphan (`DeletesLeaveNoOrphans`) |
| `Roles` | 1 user, 2 roles, 1 menu, 2 requests, 1 loader | a menu is taken only from a role that has had it (`TakesWhatWasGiven`); the cache agrees with the tables, but for what its design misses (`CacheIsCurrent`) |
| `ExportPage` | 3 tables, two with a shared column, one with an alias that names no table; comments that start alike, that name another column, with a comma, with an apostrophe; 2 requests | each name is listed as often as a checked box gives it, so that plain comments send what is checked (`SendsWhatIsChecked`); so is each header, and the columns are under their own ones if names and headers go together (`HeadersFit`) |
| `HiveSync` | 2 tables, 2 requesters, 1 crash | the two listings agree where nobody meets (`ListingsAgree`), status rows have tables (`StatusHasTable`), a synchronisation of all spares existing rows (`SyncAllSparesRows`) |
| `QueueScan` | 3 entries, two of one task, 2 removers | a scan misses or overruns only if others remove (`MissesNeedRemovals`); as many are told true as leave (`OneAnswerPerEntry`) |

Two rows are enough to mix up and the third is new; two answers are enough to overtake each
other; two removers are enough for one to shrink the list under the other. The theorems of
section 4 lift the bounds.

Five runs find what the code says of itself and does not keep:

| Run | Refuted | How |
|---|---|---|
| `TaskDuplicate` | "no duplication of execution" (`TasksServiceImpl` 152) | the monitor promotes and submits an entry between its add (174) and the test of its rank (178); the request submits it again |
| `TaskRefused` | "task executing or queue" (the same log line) | an automatic task that ran when the process died stays `Running` in the table, is not reloaded (`TasksDao.xml` 85-88), and each later job of it is refused as already running |
| `TaskStaleRow` | "Change tasks table status" (`StartupListener` 87, of `batchModifyTaskStatus`) | the statement replaces whole rows by the `Task` read when the run was requested: an edit made during the run is undone, a deleted row comes back |
| `TaskSlotLost` | "remove current task from queues" (`RunnablePriority` 97) | `remove` takes the first entry with the id of the task: a job has asked `isFull`, the boot adds its own entry of the task as waiting, the job adds and submits its entry behind it, and its run takes out the boot's; the job's entry keeps its slot after the last run, and a later run takes it out only in place of its own |
| `SchedSwitch` | "0:run" (comment of `task_switch`, `src/hive-cube-web/src/main/resources/sql/hc.sql` 128) | a new time given to a stopped task writes switch 0 and, as there is no trigger, adds no job; the task starts by itself after the next restart |

Fairness of `TaskEngine` (`FairSpec`) is weak fairness of each thread's next step: a request thread
inside a handler, a pool thread, the monitor and the boot are Java threads that
run when they can. Nothing is assumed of requests or crashes. Queries end:
`Execute` stands for the end of a query, and Hive answers or fails.

Fairness of `Scheduler` is the same for the boot and the requests under way; runs, deletions,
requests and the passing of time are not forced. The other components have safety properties
only: nothing in a page has to happen.

`EntriesLeave` is about the time after the last request: in the model the requests end because
`MaxEntries` bounds them, and in the code a new request takes a free slot ahead of those who wait, so
that nothing is promised while they keep coming. It speaks of lives of the process in which the monitor is
started, which is when the boot has found a task.

## 4. What TLAPS proves

For any sets of tasks, clients and pool threads and any bounds, from the named
assumptions of `TaskEngine` (`TasksAssumption`, `ThreadsAssumption`, `BoundsAssumption`):

| Theorem | Statement |
|---|---|
| `TypeCorrect` | `Spec => []TypeOK` |
| `ReferencesHold` | `Spec => [](TypeOK /\ Refs /\ CallsHaveTasks)`, the inductive invariant |
| `QueuedNeverExecutesHolds` | `Spec => []QueuedNeverExecutes` |
| `SlotsAreHandedOverHolds` | `Spec => []SlotsAreHandedOver` |
| `RanksOnlyImproveHolds` | `Spec => RanksOnlyImprove` |
| `NoPhantomFinishHolds` | `Spec => []NoPhantomFinish` |
| `HandedOverHolds` | `Spec => []HandedInv` |
| `ImplementsTaskLifeHolds` | `Spec => ImplementsTaskLife`, the refinement |
| `AtMostTwiceHolds` | `Spec => []AtMostTwice` |
| `OneNoticePerEntryHolds` | `Spec => []OneNoticePerEntry` |
| `InterruptedAreRequeuedHolds` | `Spec => []InterruptedAreRequeued` |
| `SlotsComeBackHolds` | `Spec => []SlotsComeBack` |

With these every invariant that the runs of `TaskEngine` check is proved, and for any number of slots.

The argument. `TypeOK` is not inductive: that `obj[own[c]]` is an object, and not the
absence of one, depends on who may refer to it. `Refs` says so: whatever is in the
list, in a snapshot of it, or with a client is an object; between its creation and
its add or submission an object is known to its client alone (`OwnIsPrivate`), so the
rank the client gives it in `PrivateRank` surprises nobody; the pool holds objects of
rank 0 (`HeldAreReady`). The last part is inductive because a submission is made
only by those who see or set rank 0, and because no step takes an entry from
rank 0 to another. Most steps keep `Refs` for the same reason, which is the frame
condition `Kept` and the lemma `RefsKept`; the steps that create, rank or forget an object
have lemmas of their own. `CallsHaveTasks` says that a call under way knows its task.

`SlotsAreHandedOver` is inductive given `Refs`. `NoPhantomFinish` is strengthened to
`FinishedAreEarned`: every copy of a row, in the table, in a `Task` object or in the list
the boot loaded, is Finished only if a query of the task has succeeded, and no
`Queue` has the status Finished. `RanksOnlyImprove` is proved step by step from `Refs`.

The refinement rests on `Refs`, on `FinishedAreEarned` and on `HandedInv`: what the pool and its
threads hold was handed over (the history variable that `LifeOf` reads), what was handed over is an
object of rank 0, and no client that could still hold it back owns it. Steps that change neither
the objects' ranks nor who holds them are `Quiet` and keep every life (`Same`); for the others
there is one lemma per step, in which the lives of the objects it does not touch are `Unmoved`.

The last four count, or follow the boot, on top of the same invariant:

- `CopiesInv`: the submissions of an entry that wait in the pool, the pool threads that have
  it, one if a client still owns it and one if its promotion or the boot's submission is
  still due are 2 at most, and every submission uses up one of the last two. It needs that an
  idle pool thread holds nothing and that the monitor starts after the boot.
- `NoticeInv`: no entry is twice in the list, and the notices sent, the pool threads about to
  report and the entries listed are no more than the entries ever added. A thread goes on to
  report only if it has taken one out.
- `BootInv`: until the boot is over every copy of a row agrees with the table on `is_auto`, what
  clients own or the pool was given belongs to automatic tasks, the snapshots have no manual task
  that is not in the list, and an interrupted manual task is in the list or still to be
  enqueued. `BootKept` is what a step of a job may do in the middle of it.
- `SlotInv`: a task has no more entries that hold a slot after they were handed over
  (`SlotsOf`) than entries with a run to come or gone without one (`BackingOf`). The two sides grow
  together at a submission (`BothGrow`); a run that leaves gives up one of the second and takes
  away one of the first (`BothShrink`), or it takes out an entry that has not run, which then counts
  in its place (`OneReplaced`).

About `Scheduler`, from `CronsAssumption`, `NoneAssumption`, `ModesAssumption` and `BoundAssumption`:

| Theorem | Statement |
|---|---|
| `SchedulerTypeCorrect` | `Spec => []TypeOK` |
| `JobsMatchTableHolds` | `Spec => []JobsMatchTable` |
| `JobsHaveTasksHolds` | `Spec => []JobsHaveTasks` |
| `BootRestoresHolds` | `Spec => BootRestores` |

The inductive invariant `IInv` adds three facts to the two properties. `BootAlone`: no request
is under way during a boot, so what the boot has still to add is still what the tables
say; without it not even `TypeOK` is inductive, since `BootAdd` reads the expression of a row that
might be gone. `OneAtATime`: a sound task has at most one request under way.
`RequestsKeepOrder`: where that request is says what it has done already (its row is
written; the row of the task is there until `deleteTask`; the job is gone from then on,
and before the second half of a modify). `RequestStep` proves that the request disturbs its
own task only and leaves it matched when it ends; `AwayStep` handles everything that only
drops jobs.

`BootRestores` is the safety half of `SchedulesSurvive`: what a boot has done when it ends. It
rests on `BootInv`, kept on top of `IInv`: while the boot adds, each task switched on
is still to be added, has its job or its time is over; and the rows that runs hold are the
rows of such tasks as they stand in the table, since a crash ends all runs and only jobs that the
boot has added start new ones. So the write of such a row changes nothing, and what
`loadAutoTask` returned stays true. That a boot ends at all is left to TLC.

About `Components`, from `InstancesOK`, which is the assumption `ConstantsOK` of each component:
`Spec => []X` for the type invariant and every invariant X that the run `Components` checks, and
`Spec => X` for its two action properties (`ComponentsProofs`; the theorem about X is called
`XHolds`). The lemma `EachOne` says that the composition implies the specification of each
component, since a step of another one leaves its variables alone. What a component promises is
proved in the module of its proofs, which `Components` instantiates in place of the bare
component so that its theorems can be cited; the proofs about `ExportPage` and
`HiveSync` are in `ComponentsProofs` itself.

| Component | Where | What makes the invariant inductive |
|---|---|---|
| `Dialogs` | `DialogsProofs` | `ContentInv`: on the pages of users and servers key and content are filled together, from one answer; `AimInv`: on the task pages the hidden key is the row of the last click |
| `Resources` | `ResourcesProofs` | what answers and selects offer as parents have been roots, and a key is never handed out twice |
| `Roles` | `RolesProofs` | `PageInv` and `CallsInv`: boxes that are checked were given to the role of the tree, and requests still to empty the cache are known; `LoadInv` with `HalfRead`: what a thread has read is what the tables hold, unless it was overtaken |
| `QueueScan` | `QueueScanProofs` | `LineInv`: no entry is twice in the list; `ScanInv`: as long as nobody removes, what the scan was to find is `Ahead` of its index |
| `ExportPage` | `ComponentsProofs` | `ExportInv`: a name has as many places in the list of columns (`Places`) as there are checked boxes that give it (`Naming`), and so have the headers (`Heading`): `removeByValue` always finds a place to take, and `CutCounts` says how many are left, by a bijection of the indices. `InStep`: where names and headers go together, each place of the two lists is the `Pair` of some box, so that both removals take the same place |
| `HiveSync` | `ComponentsProofs` | `HiveInv`: where a request is says which of its two statements it has made, on tables at which no other request has met it |

With these every invariant and every action property that a passing run checks is proved. Only
model-checked: the liveness properties `EntriesLeave`, `InterruptedRunAgain` and
`SchedulesSurvive`. The prover cannot reach liveness under fairness,
ENABLED, nor what a definition by recursion over data computes; no module that is proved about
declares a RECURSIVE operator. `MinMaxOfIndices` and the sequence lemmas of `TaskEngineProofs` are
what the proofs need of `RemoveFirstMatch` and `SelectLastInSeq`.

## 5. Observations

Seen while modelling; no line of the code says otherwise, so no run refutes anything.

* After an empty boot the monitor does not run, and a waiting entry stays for ever
  (`StartupListener` 97). More tasks than `MAX_SIZE_LIMIT` may have rank 0, since all entries of rank 1
  are promoted at once.
* A start and a stop of one schedule that overlap may leave a job that the table switches off; a run
  that began before a task was made automatic writes `is_auto` back to 0.
* On the task pages the late answer to an earlier click overwrites the inputs, not the key: the
  submit gives the row of the last click the content of another one. The log view mixes answers the
  same way. A schedule can be submitted before its answer comes, with an empty time.
* "Add New MySql" keeps the hidden key of the last modify. The mail of a user is not stored by the
  modify statement (`dao/UserDao.xml` 59).
* The delete dialog of the menus keeps the children of the root chosen before.
* A deleted menu keeps its rows in `role_resource`: the authorisation of every user with that role
  fails with a null. A change of the roles of a user does not empty the cache.
* The export page selects columns of the table shown from the table selected, and keeps the
  filters when another table's columns come. Of equal comments, `removeByValue` takes
  the first, so headers change their order. A comment such as `amount [USD]` makes the page select the
  column `USD`; one with an apostrophe, such as `buyer's id`, makes its box do nothing;
  one with a comma moves the titles behind it by one; an alias with brackets selects from another
  table, or none.
* An entry with a rank below 0, shown as `Queue(-1)`, is promoted by nobody: it waits until a run of
  another entry of its task, or a kill, takes it out.
* A describe that fails leaves a table without columns that no synchronisation of all tables
  looks at again. A comment and an alias changed at the same time undo each other.
* The HBase plugin builds a configuration for each read, by which its cache never hits.

## 6. Plan and what is not modelled

Done: the execution core, its abstract specification and the refinement, the scan, schedules,
pages, menus, roles, Hive metadata, and their proofs. Left: the rows of
`executeQuery` and their CSV as operators against a reference definition.

Not modelled, and why:

* Vendored JavaScript (editors, charts, pickers), which is most of the JavaScript of the repository;
  listings and charts, which draw what they get and keep nothing; start scripts.
* HBase plugin: its connection cache is a Guava `LoadingCache`; what is concurrent in it is the
  library's. MySQL plugin: a JDBC read for each request.
* YARN, JMX, dashboard and application views: they read, and format what they read. A kill that
  fails leaves `killTaskById` before any change.
* SMTP, HDFS and Hive themselves: their answers are the outcomes of `Execute` and `Describe`.
* Sign-in, password reset, rowkeys and paging: single statements on rows that nothing else shares.
