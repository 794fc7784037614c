SPECIFICATION ServicesFairSpec
CONSTANTS
  Callers = {c1, c2, c3}
  Threshold = 3
  Reset = 2
  MaxAttempts = 3
  Keys = {k1, k2}
  Setters = {s1, s2}
  Erasers = {e1}
  Ttls = {1, 2}
  MaxTtl = 2
  Files = {"readme_a", "readme_b"}
  Sprints = {"sprint"}
  Docs = {"spec:README", "rejection:sprint"}
  DocOf <- MCDocOf
  Rows = {row1}
  Jobs = {cron, manual}
  Scheduled = {cron}
  DocDays = 1
  ArchiveDays = 0
  HardDays = 1
  MaxOverdue = 1
INVARIANTS
  ServicesTypeOK
  BreakerCoherent
  GaugeTells
  UnlistedIsExplained
  SuccessMeansClean
PROPERTIES
  OpenSheds
  Recovers
  DocsForgotten
