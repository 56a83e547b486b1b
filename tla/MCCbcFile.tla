----------------------------- MODULE MCCbcFile -----------------------------
(* A small instance of CbcFile: blocks of two bytes, a buffer of two blocks, *)
(* texts of up to five bytes over the values padding looks at.               *)
EXTENDS CbcFile

TwoBytes   == <<Plain(7), Plain(8)>>
ShortTexts == UNION {[1 .. k -> {0, 1, 2, Marker}] : k \in 0 .. 4}
              \cup {<<a, 1, 0, 2, b>> : a, b \in {0, 1, 2, Marker}}
              \cup {<<1, 2, 0, 1, a, b>> : a, b \in {0, 1, 2, Marker}}
=============================================================================
