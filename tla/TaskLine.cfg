\* The boot after a crash that found the automatic task finished and the manual one
\* running, with two slots, while jobs of the automatic task fire and requests come.
SPECIFICATION AfterCrash
CONSTANTS
  t1 = t1  t2 = t2  c1 = c1  c2 = c2  w1 = w1  w2 = w2
  NoTask = NoTask
  Tasks = {t1, t2}
  NewTasks = {}
  AutoTasks = {t1}
  InitStatuses = {"Running","Finished"}
  Clients = {c1}
  Workers = {w1}
  MaxSize = 2
  MaxEntries = 3
  MaxCrashes = 0
  MaxRev = 0
  Ops = {"private"}
  Outcomes = {"success"}
INVARIANT QueuedNeverExecutes
PROPERTIES RanksOnlyImprove EntriesLeave InterruptedRunAgain
CHECK_DEADLOCK FALSE
