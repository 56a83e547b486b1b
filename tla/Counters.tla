------------------------------ MODULE Counters ------------------------------
(***************************************************************************)
(* The counter blocks of CTR and GCM and the three ways the code advances  *)
(* them.  A counter block is [hi, lo], two 64-bit halves; lo is made of    *)
(* two words of 32 bits, the last of which GCM counts with.                *)
(***************************************************************************)
EXTENDS Naturals

CONSTANT Word   \* values of a 32-bit word: 2^32 in the code

ASSUME WordAssumption == Word \in Nat \ {0, 1}

Half == Word * Word

CounterBlocks == [hi : 0 .. Half - 1, lo : 0 .. Half - 1]

\* u128_add_u64, in the CPU library and in aes_ctr_xor.
Add128(c, n) ==
  LET lo    == (c.lo + n) % Half
      carry == IF lo < c.lo THEN 1 ELSE 0
  IN [hi |-> (c.hi + carry) % Half, lo |-> lo]

\* gcm_inc32: the CPU library counts the last word up once per block.
Inc32(c) ==
  [c EXCEPT !.lo = ((@ \div Word) * Word) + (((@ % Word) + 1) % Word)]

Counted(c, n) ==
  LET after[k \in 0 .. n] == IF k = 0 THEN c ELSE Inc32(after[k - 1]) IN after[n]

\* aes_gcm_ctr_xor adds the block's number to the last word at once.
Add32(c, n) ==
  [c EXCEPT !.lo = ((@ \div Word) * Word) + (((@ % Word) + n) % Word)]

\* The last word overflows within the next n blocks, where the two ways part.
Wraps(c, n) == (c.lo % Word) + n >= Word
=============================================================================
