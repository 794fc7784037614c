SPECIFICATION Spec
CONSTANTS
  MaxSprints = 2
  MaxIterations = 3
INVARIANTS
  TypeOK
  SummaryMatchesTrail
  ResultMatchesSprints
  EscalationJustified
PROPERTIES
  RunProgresses
CHECK_DEADLOCK FALSE
