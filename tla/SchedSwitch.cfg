\* One request at a time, expressions that always have a next time.
SPECIFICATION Spec
CONSTANTS
  t1 = t1  t2 = t2  c1 = c1  c2 = c2
  daily = daily  once = once  garbage = garbage
  None = None
  Tasks = {t1}
  Clients = {c1}
  Crons = {daily}
  OnceCrons = {}
  BadCrons = {}
  WithRuns = FALSE
  WithDelete = FALSE
  MaxCrashes = 0
INVARIANT SwitchZeroRuns
CHECK_DEADLOCK FALSE
