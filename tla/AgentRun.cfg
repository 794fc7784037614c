SPECIFICATION FairSpec
CONSTANTS
  Workers = {a1, a2}
  Proposals <- MCProposals
  OwnRisks = {0}
  MaxRecords = 50
  Kinds = {"minute", "hour"}
  Span <- MCSpan
  Limit <- MCLimit
  GateAt = 4000
  LowRiskBelow = 3000
  MediumRiskUpTo = 7000
  MinSamples = 1
  RejectAbove = 50
  ApproveAbove = 50
  StepUp = 10
  StepDown = 10
  BiasMax = 10
  MaxTime = 1
  MaxDecisions = 3
  MaxLosses = 1
INVARIANTS
  TypeOK
  ActingWasCleared
  WindowRespected
PROPERTIES
  LoweredOnlyIfApproved
  BiasWearsOff
CHECK_DEADLOCK FALSE
