SPECIFICATION FairSpec
CONSTANTS
  Requests = {r1, r2}
  Consumers = {c1, c2}
  Junk = junk
  Nobody = Nobody
  MaxRetries = 1
  MaxLog = 3
  MaxStoreFaults = 0
  MaxAuditFaults = 0
  MaxBrokerFaults = 2
  MaxCrashes = 0
  MaxRebalances = 0
INVARIANTS
  CommittedIsSettled
PROPERTIES
  SettledUnlessUnread
CHECK_DEADLOCK FALSE
