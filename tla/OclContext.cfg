SPECIFICATION Spec
CONSTANTS
  Callers = {app}
  Keys = {k1, k2}
  BadKey = BadKey
  Requests <- AllRequests
  None = None
  Undefined = Undefined
  Untouched = Untouched
  Forged = Forged
  k1 = k1
  k2 = k2
  iv = iv
  BlockBytes = 2
  Serialized = TRUE
  TornKeyWrites = FALSE
  SmallChunk = 1
  LargeChunk = 4
  LargeFrom = 4
INVARIANTS
  TypeOK
  HandlesOwned
  InitAllOrNothing
  CacheCoherent
  InBounds
  VerifiedInputStays
PROPERTIES
  FailureExplained
  ImplementsService
