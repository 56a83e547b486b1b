---------------------------- MODULE MCCtrStream ----------------------------
(* A small instance of CtrStream: blocks of two bytes, work items of two   *)
(* blocks, counters just below an overflow of the last word, of the lower  *)
(* half and of both.                                                       *)
EXTENDS CtrStream

Groups     == {1, 2}
NearLimits == {[hi |-> 0, lo |-> 2], [hi |-> 2, lo |-> 15], [hi |-> 15, lo |-> 14]}
=============================================================================
