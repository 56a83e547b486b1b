----------------------------- MODULE MCGcmFile -----------------------------
(* Small instances of GcmFile: blocks of two bytes, words of three values, *)
(* counter blocks at and away from an overflow of the last word.           *)
EXTENDS GcmFile

CounterStarts == {[hi |-> 1, lo |-> 0], [hi |-> 1, lo |-> 1], [hi |-> 0, lo |-> 8]}
NoneOrOne     == {<<>>, <<[id |-> 9, ks |-> {}]>>}
Both          == {"cpu", "opencl"}
Wishes        == {1, 3, 4}
=============================================================================
