------------------------------ MODULE Padding ------------------------------
(***************************************************************************)
(* crypto_padding.c: the padding modes, what each appends to the last      *)
(* block and what each takes off a decrypted text.  A byte is an integer;  *)
(* a byte decrypted with the wrong keystream is none of those compared     *)
(* here.                                                                   *)
(***************************************************************************)
EXTENDS Bytes

CONSTANT Marker   \* the byte ISO 7816-4 puts after the text: 0x80 in the code

ASSUME MarkerAssumption == Marker \in Nat \ (0 .. BlockBytes)

Paddings == {"PKCS7", "ANSIX923", "ISO7816_4", "ZERO", "NONE"}

Copies(n, b) == [i \in 1 .. n |-> b]

\* What crypto_padding_padded_size returns; not a size for NONE and a partial block.
PaddedSize(n, padding) ==
  LET r == n % BlockBytes IN
  IF padding = "NONE" \/ (padding = "ZERO" /\ r = 0) THEN n ELSE n + BlockBytes - r

SizeStatus(n, padding) ==
  IF padding = "NONE" /\ n % BlockBytes # 0 THEN "INVALID_ARG" ELSE "OK"

\* The last block: tail, which is shorter than a block, and the padding.
ApplyBlock(tail, padding) ==
  LET pad_len == BlockBytes - Len(tail) IN
  tail \o CASE padding = "PKCS7"     -> Copies(pad_len, pad_len)
            [] padding = "ANSIX923"  -> Copies(pad_len - 1, 0) \o <<pad_len>>
            [] padding = "ISO7816_4" -> <<Marker>> \o Copies(pad_len - 1, 0)
            [] OTHER                 -> Copies(pad_len, 0)

LastNonZero(buf) == Max({0} \cup {i \in DOMAIN buf : buf[i] # 0})

Stripped(len) == [status |-> "OK", len |-> len]
BadPadding    == [status |-> "BAD_PADDING", len |-> 0]

RemoveIso(buf) ==
  LET e == LastNonZero(buf) IN
  IF e > 0 /\ buf[e] = Marker /\ e > Len(buf) - BlockBytes
    THEN Stripped(e - 1) ELSE BadPadding

Filler(pad_len, padding) == IF padding = "PKCS7" THEN pad_len ELSE 0

\* Mutant: the filling is not looked at.
RemoveCountedLength(buf, padding) ==
  LET pad_len == buf[Len(buf)] IN
  IF pad_len \in 1 .. BlockBytes THEN Stripped(Len(buf) - pad_len) ELSE BadPadding

\* PKCS#7 and ANSI X9.23: the last byte counts the padding, the others are filler.
RemoveCounted(buf, padding) ==
  LET pad_len == buf[Len(buf)] IN
  IF /\ pad_len \in 1 .. BlockBytes
     /\ \A i \in 1 .. pad_len - 1 : buf[Len(buf) - i] = Filler(pad_len, padding)
    THEN Stripped(Len(buf) - pad_len) ELSE BadPadding

Remove(buf, padding) ==
  IF Len(buf) = 0 \/ Len(buf) % BlockBytes # 0 THEN BadPadding
  ELSE CASE padding = "NONE"      -> Stripped(Len(buf))
         [] padding = "ZERO"      -> Stripped(LastNonZero(buf))
         [] padding = "ISO7816_4" -> RemoveIso(buf)
         [] OTHER                 -> RemoveCounted(buf, padding)
=============================================================================
