SPECIFICATION FairSpec
CONSTANTS
  Requests = {r1}
  Consumers = {c1}
  Junk = junk
  Nobody = Nobody
  MaxRetries = 1
  MaxLog = 1
  MaxStoreFaults = 0
  MaxAuditFaults = 0
  MaxBrokerFaults = 0
  MaxCrashes = 1
  MaxRebalances = 0
PROPERTIES
  AcceptedIsSettled
CHECK_DEADLOCK FALSE
