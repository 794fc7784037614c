SPECIFICATION FairSpec
CONSTANTS
  Requests = {r1, r2}
  Tasks = {t1, t2}
  Pods = {p1}
  SweepPods = {p1}
  Durable = TRUE
  Capacity = 2
  Timeout = 1
  Grace = 5
  MaxTime = 1
  MaxFaults = 1
  MaxCrashes = 0
  NoTask = NoTask
PROPERTIES
  StaleArchived
CHECK_DEADLOCK FALSE
