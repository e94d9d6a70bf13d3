\* Every operation of a client, queries that end in every way.
SPECIFICATION Spec
CONSTANTS
  t1 = t1  t2 = t2  c1 = c1  c2 = c2  w1 = w1  w2 = w2
  NoTask = NoTask
  Tasks = {t1, t2}
  NewTasks = {t2}
  AutoTasks = {}
  InitStatuses = {"Unexecuted"}
  Clients = {c1}
  Workers = {w1}
  MaxSize = 1
  MaxEntries = 2
  MaxCrashes = 0
  MaxRev = 1
  Ops = {"private", "export", "vip", "kill", "delete", "edit", "schedule"}
  Outcomes = {"success", "error", "other", "throw"}
INVARIANTS TypeOK SlotsAreHandedOver NoPhantomFinish OneNoticePerEntry
CHECK_DEADLOCK FALSE
