SPECIFICATION Spec
CONSTANTS
  Requests = {r1}
  Tasks = {t1, t2, t3}
  Pods = {p1}
  SweepPods = {p1}
  Durable = TRUE
  Capacity = 1
  Timeout = 1
  Grace = 1
  MaxTime = 2
  MaxFaults = 1
  MaxCrashes = 1
  NoTask = NoTask
SYMMETRY TaskSymmetry
INVARIANTS
  TypeOK
  OneOutcome
  QueueConsistent
  AuditedBeforeAnnounced
  EveryOutcomeLogged
PROPERTIES
  ImplementsOversight
CHECK_DEADLOCK FALSE
