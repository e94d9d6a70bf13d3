\* An edit while the task runs.
SPECIFICATION Spec
CONSTANTS
  t1 = t1  t2 = t2  c1 = c1  c2 = c2  w1 = w1  w2 = w2
  NoTask = NoTask
  Tasks = {t1}
  NewTasks = {}
  AutoTasks = {}
  InitStatuses = {"Finished"}
  Clients = {c1}
  Workers = {w1}
  MaxSize = 1
  MaxEntries = 2
  MaxCrashes = 0
  MaxRev = 1
  Ops = {"private", "edit"}
  Outcomes = {"success"}
PROPERTY EditsAndDeletesStick
CHECK_DEADLOCK FALSE
