SPECIFICATION GhashSpec
CONSTANTS
  MaxBlocks = 6
  ChunkSizes <- SmallChunks
  LocalSizes <- WorkGroups
INVARIANTS
  GhashTypeOK
  HashesFit
  PowersMatch
  SameAsCpu
