\* Two requests, runs, deletions and a crash around one task.
SPECIFICATION Spec
CONSTANTS
  t1 = t1  t2 = t2  c1 = c1  c2 = c2
  daily = daily  once = once  garbage = garbage
  None = None
  Tasks = {t1}
  Clients = {c1, c2}
  Crons = {daily}
  OnceCrons = {once}
  BadCrons = {garbage}
  WithRuns = TRUE
  WithDelete = TRUE
  MaxCrashes = 1
SYMMETRY ClientSymmetry
INVARIANTS TypeOK JobsMatchTable JobsHaveTasks
CHECK_DEADLOCK FALSE
