SPECIFICATION Spec
CONSTANTS
  BlockBytes = 2
  Marker = 128
  MinChunk = 2
  Iv <- TwoBytes
  Texts <- TinyTexts
  ChunkWishes <- Wishes
INVARIANT
  RoundTripOfAll
