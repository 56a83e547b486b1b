SPECIFICATION Spec
CONSTANTS
  BlockBytes = 2
  Word = 3
  MinChunk = 2
  MaxLen = 5
  J0s <- CounterStarts
  Aads <- NoneOrOne
  Engines <- Both
  ChunkWishes <- Wishes
INVARIANT
  EncryptsAsOneShotAlways
