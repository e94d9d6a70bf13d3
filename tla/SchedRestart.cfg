\* Two tasks, times that end and a crash at any step.
SPECIFICATION FairSpec
CONSTANTS
  t1 = t1  t2 = t2  c1 = c1  c2 = c2
  daily = daily  once = once  garbage = garbage
  None = None
  Tasks = {t1, t2}
  Clients = {c1}
  Crons = {}
  OnceCrons = {once}
  BadCrons = {garbage}
  WithRuns = TRUE
  WithDelete = FALSE
  MaxCrashes = 1
PROPERTIES SchedulesSurvive BootRestores
CHECK_DEADLOCK FALSE
