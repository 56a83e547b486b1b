SPECIFICATION Spec
CONSTANTS
  BlockBytes = 2
  Marker = 128
  Buffer = 4
  Iv <- TwoBytes
  Texts <- ShortTexts
INVARIANTS
  TypeOK
  EncryptsAsOneShot
  DecryptsAsOneShot
  RoundTrip
