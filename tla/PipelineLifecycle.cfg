SPECIFICATION Spec
CONSTANTS
  Requests = {r1, r2}
  Consumers = {c1, c2}
  Junk = junk
  Nobody = Nobody
  MaxRetries = 1
  MaxLog = 2
  MaxStoreFaults = 1
  MaxAuditFaults = 2
  MaxBrokerFaults = 1
  MaxCrashes = 1
  MaxRebalances = 0
SYMMETRY Symmetry
INVARIANTS
  TypeOK
  FailedIsOnDLQ
  ApprovalsBounded

  
CHECK_DEADLOCK FALSE
