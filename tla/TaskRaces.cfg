\* Two request threads that run and kill the same task.
SPECIFICATION Spec
CONSTANTS
  t1 = t1  t2 = t2  c1 = c1  c2 = c2  w1 = w1  w2 = w2
  NoTask = NoTask
  Tasks = {t1}
  NewTasks = {}
  AutoTasks = {}
  InitStatuses = {"Unexecuted"}
  Clients = {c1, c2}
  Workers = {w1}
  MaxSize = 1
  MaxEntries = 3
  MaxCrashes = 0
  MaxRev = 0
  Ops = {"private", "kill"}
  Outcomes = {"success"}
SYMMETRY ClientSymmetry
INVARIANTS QueuedNeverExecutes SlotsAreHandedOver AtMostTwice SlotsComeBack
CHECK_DEADLOCK FALSE
