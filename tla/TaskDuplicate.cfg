\* One request is enough to submit an entry twice.
SPECIFICATION Spec
CONSTANTS
  t1 = t1  t2 = t2  c1 = c1  c2 = c2  w1 = w1  w2 = w2
  NoTask = NoTask
  Tasks = {t1, t2}
  NewTasks = {}
  AutoTasks = {}
  InitStatuses = {"Unexecuted", "Finished"}
  Clients = {c1}
  Workers = {w1}
  MaxSize = 1
  MaxEntries = 3
  MaxCrashes = 0
  MaxRev = 0
  Ops = {"private"}
  Outcomes = {"success", "error"}
INVARIANT NoDuplicateExecution
CHECK_DEADLOCK FALSE
