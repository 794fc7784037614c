SPECIFICATION Spec
CONSTANTS
  Requests = {r1, r2}
  Tasks = {t1, t2}
  Pods = {p1}
  SweepPods = {p1}
  Durable = FALSE
  Capacity = 1
  Timeout = 1
  Grace = 1
  MaxTime = 1
  MaxFaults = 1
  MaxCrashes = 1
  NoTask = NoTask
SYMMETRY TaskSymmetry
INVARIANTS
  QueueConsistent
  CapacityRespected
  GaugeNeverOverstates
PROPERTIES
  OutcomeFinal
CHECK_DEADLOCK FALSE
