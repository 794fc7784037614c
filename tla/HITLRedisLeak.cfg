SPECIFICATION FairSpec
CONSTANTS
  Requests = {r1}
  Tasks = {t1}
  Pods = {p1}
  SweepPods = {p1}
  Durable = TRUE
  Capacity = 1
  Timeout = 1
  Grace = 5
  MaxTime = 1
  MaxFaults = 1
  MaxCrashes = 0
  NoTask = NoTask
PROPERTIES
  StaleLeaves
CHECK_DEADLOCK FALSE
