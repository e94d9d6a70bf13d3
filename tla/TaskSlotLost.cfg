\* A boot that loads an automatic task while its job fires: two entries of it.
SPECIFICATION Spec
CONSTANTS
  t1 = t1  t2 = t2  c1 = c1  c2 = c2  w1 = w1  w2 = w2
  NoTask = NoTask
  Tasks = {t1, t2}
  NewTasks = {}
  AutoTasks = {t1}
  InitStatuses = {"Unexecuted"}
  Clients = {c1}
  Workers = {w1}
  MaxSize = 1
  MaxEntries = 3
  MaxCrashes = 0
  MaxRev = 0
  Ops = {"private"}
  Outcomes = {"success"}
INVARIANT CurrentTaskIsRemoved
CHECK_DEADLOCK FALSE
