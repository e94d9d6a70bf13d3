\* A crash at any step, jobs of an automatic task that fire during the boot, and runs
\* that end by an exception.
SPECIFICATION FairSpec
CONSTANTS
  t1 = t1  t2 = t2  c1 = c1  c2 = c2  w1 = w1  w2 = w2
  NoTask = NoTask
  Tasks = {t1, t2}
  NewTasks = {}
  AutoTasks = {t1}
  InitStatuses = {"Unexecuted"}
  Clients = {c1}
  Workers = {w1}
  MaxSize = 1
  MaxEntries = 2
  MaxCrashes = 1
  MaxRev = 0
  Ops = {"private"}
  Outcomes = {"success", "throw"}
INVARIANT InterruptedAreRequeued
PROPERTIES ImplementsTaskLife EntriesLeave
CHECK_DEADLOCK FALSE
