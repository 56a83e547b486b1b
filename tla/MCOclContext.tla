---------------------------- MODULE MCOclContext ----------------------------
(***************************************************************************)
(* Small instances of OclContext.  With blocks of two bytes the texts have *)
(* no block, one whole block, or one whole and one partial block, and the  *)
(* chunk sizes 1 and 4 make a long message need fewer chunks than a short  *)
(* one, as the code's table does at 2048, 16384 and 262144 blocks.         *)
(***************************************************************************)
EXTENDS OclContext

CONSTANTS k1, k2, iv, Forged

Plain(id, len)      == [id |-> id, len |-> len, ks |-> {}]
Sealed(id, len, key) == Xor(Plain(id, len), Keystream(key, iv, "gcm", 1))
NoAad   == Plain("aad", 0)
LongAad == Plain("aad", 3)

MCRequest(op, key, aad, text, tag) ==
  [op |-> op, key |-> key, iv |-> iv, aad |-> aad, text |-> text, offset |-> 0,
   tag |-> tag, valid |-> TRUE]

TagOf(key, aad, ct) == GcmTag(key, iv, GhashBlocks(aad, ct))

Ctr(key, len) == MCRequest("ctr_xor", key, NoAad, Plain("p", len), None)
Seal(key, aad, len) == MCRequest("gcm_encrypt", key, aad, Plain("p", len), None)
Open(key, aad, ct, tag) == MCRequest("gcm_decrypt", key, aad, ct, tag)

\* Every entry point, both keys, the empty text, and tags that are right, forged, or
\* right for the same ciphertext under another AAD.
AllRequests ==
  {Ctr(k1, 2), Ctr(k2, 3), Ctr(k1, 0), Ctr(BadKey, 2),
   [Ctr(k1, 3) EXCEPT !.valid = FALSE],
   [Ctr(BadKey, 2) EXCEPT !.op = "ctr_xor_round_keys"],
   [Ctr(k1, 2) EXCEPT !.op = "gcm_ctr_xor_round_keys", !.offset = 1],
   Seal(k1, NoAad, 3), Seal(k2, LongAad, 0), Seal(BadKey, NoAad, 2),
   Open(k1, LongAad, Sealed("q", 3, k1), TagOf(k1, LongAad, Sealed("q", 3, k1))),
   Open(k1, NoAad, Sealed("q", 3, k1), TagOf(k1, LongAad, Sealed("q", 3, k1))),
   Open(k2, LongAad, Sealed("q", 2, k2), TagOf(k2, LongAad, Sealed("q", 2, k2))),
   Open(k2, NoAad, Plain("empty", 0), TagOf(k2, NoAad, Plain("empty", 0))),
   Open(k2, LongAad, Plain("empty", 0), Forged)}

\* Two jobs of the program at once: a file and a benchmark, each with its own key.
TwoJobs == {Ctr(k1, 2), Ctr(k2, 2)}
=============================================================================
