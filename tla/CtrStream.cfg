SPECIFICATION Spec
CONSTANTS
  BlockBytes = 2
  Word = 4
  BlocksPerItem = 2
  MaxLen = 11
  LocalSizes <- Groups
  Starts <- NearLimits
INVARIANTS
  TypeOK
  StoresFit
  StreamIsOneShot
