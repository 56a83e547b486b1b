------------------------------- MODULE Bytes -------------------------------
(***************************************************************************)
(* Texts as sequences of bytes cut into blocks, and keystream on bytes.    *)
(* A byte is a record whose field ks is the set of the keystream bytes it  *)
(* is combined with.                                                       *)
(***************************************************************************)
EXTENDS Integers, Sequences, FiniteSetsExt

CONSTANT BlockBytes   \* bytes of a block: 16 in the code

ASSUME BlockAssumption == BlockBytes \in Nat \ {0}

CeilDiv(a, b) == (a + b - 1) \div b

\* The bytes of the whole blocks among n bytes.
FullLen(n) == (n \div BlockBytes) * BlockBytes

Take(s, n) == SubSeq(s, 1, n)
Drop(s, n) == SubSeq(s, n + 1, Len(s))

Toggle(ks, k)    == IF k \in ks THEN ks \ {k} ELSE ks \cup {k}
Combine(byte, k) == [byte EXCEPT !.ks = Toggle(@, k)]
=============================================================================
