----------------------------- MODULE MCCtrFile -----------------------------
(* Small instances of CtrFile: blocks of two bytes, chunks of one and two  *)
(* blocks, texts of up to five bytes over the values padding looks at.     *)
EXTENDS CtrFile

Upto(S, n) == UNION {[1 .. k -> S] : k \in 0 .. n}

TwoBytes   == <<Plain(7), Plain(8)>>
Wishes     == {1, 5}
ShortTexts == Upto({0, 1, 2, Marker}, 5)
TinyTexts  == Upto({1}, 2)
=============================================================================
