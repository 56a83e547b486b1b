SPECIFICATION Spec
CONSTANTS
  BlockBytes = 2
  Marker = 128
  MinChunk = 2
  Iv <- TwoBytes
  Texts <- ShortTexts
  ChunkWishes <- Wishes
INVARIANTS
  TypeOK
  BuffersFit
  EncryptsAsOneShot
  DecryptsAsOneShot
  RoundTrip
  NothingIgnored
