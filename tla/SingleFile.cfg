SPECIFICATION Spec
CONSTANTS
  Files = {"a", "b"}
  Requests <- SomeRequests
  Outside <- OtherFiles
  Empty <- MCEmpty
  Ragged <- MCRagged
  EndsInZeros <- MCEndsInZeros
  MaxJobs = 2
INVARIANTS
  TypeOK
  SuccessIsWhole
  OneVersionSurvives
  FailureIsHarmless
  NoLitter
  NoNeedlessFailure
CHECK_DEADLOCK FALSE
