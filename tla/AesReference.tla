---------------------------- MODULE AesReference ----------------------------
(***************************************************************************)
(* The values both AES engines compute, as symbolic terms.  The CPU        *)
(* library (aeslib) is the reference the repository's own tests compare    *)
(* the OpenCL library with, so these operators are read off aeslib: which  *)
(* keystream a byte string is combined with, and which 16-byte blocks, in  *)
(* which order, the GCM tag authenticates.  The AES block cipher, the      *)
(* field multiplication and the bytes themselves are abstracted: two terms *)
(* are equal exactly when the code feeds the same inputs to them.          *)
(***************************************************************************)
EXTENDS Integers

CONSTANTS
  BlockBytes,   \* bytes in a cipher block (16 in the code)
  Undefined     \* what a buffer nobody has written holds

ASSUME BlockBytesAssumption == BlockBytes \in Nat \ {0}

(***************************************************************************)
(* A text is [id, len, ks]: len bytes of the string called id combined     *)
(* with the keystreams in ks.  A keystream is named by what generates it:  *)
(* the key, the IV, the counter mode ("ctr": the whole 128-bit counter     *)
(* advances; "gcm": only its low 32 bits) and the first block's offset.    *)
(***************************************************************************)
Keystream(key, iv, mode, offset) ==
  [key |-> key, iv |-> iv, mode |-> mode, offset |-> offset]

\* XOR with a keystream is its own inverse: it toggles membership in ks.
Xor(text, stream) ==
  [text EXCEPT !.ks = (@ \ {stream}) \cup ({stream} \ @)]

\* (len + 15) / 16 and len / 16
BlockCount(len) == (len + BlockBytes - 1) \div BlockBytes
FullBlocks(len) == len \div BlockBytes

\* Block i of a text, a partial last block padded with zeros.
Block(text, i) == [of |-> text, at |-> i]

LengthBlock(aadLen, ctLen) == [aadLen |-> aadLen, ctLen |-> ctLen]

\* The blocks GHASH reads: the AAD, the ciphertext, the two lengths.
GhashBlocks(aad, ct) ==
  LET a == BlockCount(aad.len)
      n == a + BlockCount(ct.len)
  IN  [i \in 0 .. n |-> IF i < a THEN Block(aad, i)
                        ELSE IF i < n THEN Block(ct, i - a)
                        ELSE LengthBlock(aad.len, ct.len)]

\* Y xor E(J0): the hash key and E(J0) both come from the key and the IV.
GcmTag(key, iv, blocks) == [key |-> key, iv |-> iv, blocks |-> blocks]

=============================================================================
