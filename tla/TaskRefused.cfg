\* An automatic task that runs when the process dies.
SPECIFICATION Spec
CONSTANTS
  t1 = t1  t2 = t2  c1 = c1  c2 = c2  w1 = w1  w2 = w2
  NoTask = NoTask
  Tasks = {t1}
  NewTasks = {}
  AutoTasks = {t1}
  InitStatuses = {"Finished"}
  Clients = {c1}
  Workers = {w1}
  MaxSize = 1
  MaxEntries = 2
  MaxCrashes = 1
  MaxRev = 0
  Ops = {"private"}
  Outcomes = {"success"}
INVARIANT RefusedOnlyIfAlive
CHECK_DEADLOCK FALSE
