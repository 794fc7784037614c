SPECIFICATION Spec
CONSTANTS
  Requests = {r1}
  Tasks = {t1, t2}
  Pods = {p1, p2}
  SweepPods = {}
  Durable = TRUE
  Capacity = 1
  Timeout = 1
  Grace = 5
  MaxTime = 1
  MaxFaults = 0
  MaxCrashes = 0
  NoTask = NoTask
INVARIANTS
  OneOutcome
CHECK_DEADLOCK FALSE
