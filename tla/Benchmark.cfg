SPECIFICATION FairSpec
CONSTANTS
  Requests <- SomeRequests
  OtherFiles <- SomeFiles
  MaxRuns = 2
  MaxFaults = 1
INVARIANTS
  TypeOK
  SessionWhole
  OutcomeShown
CHECK_DEADLOCK FALSE
PROPERTY
  RunEnds
