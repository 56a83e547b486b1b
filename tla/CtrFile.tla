------------------------------ MODULE CtrFile ------------------------------
(***************************************************************************)
(* CTR encryption and decryption of a file, chunk by chunk, as both        *)
(* libraries do it (crypto_ffi.c and its copy crypto_ffi_opencl.c), next   *)
(* to the one-shot calls on buffers.                                       *)
(*                                                                         *)
(* A byte is [v, ks]: the value v combined with the keystream bytes in ks, *)
(* each named by the IV and the position in the stream.  Xor toggles ks,   *)
(* so a byte decrypted at another position than it was encrypted at has no *)
(* value.                                                                  *)
(***************************************************************************)
EXTENDS Padding, ChunkSize

CONSTANTS
  Iv,           \* a sequence of BlockBytes bytes
  Texts         \* what files contain, before encryption or after decryption

ASSUME IvAssumption ==
  Iv \in [1 .. BlockBytes -> [v : Nat, ks : {{}}]]
ASSUME TextsAssumption == Texts \subseteq Seq(Nat)

VARIABLES
  call,      \* [op, padding, prefix_iv, chunk, file]: the arguments and the input file
  pc,        \* "open", "loop", "last", "returned"
  fin,       \* bytes of the input file not yet read
  broken,    \* a read has failed
  used_iv,
  held,      \* leftover (encryption) or rem (decryption)
  offset,    \* block_offset
  out,       \* the output file's bytes
  created,   \* the output file has been opened
  status,    \* of the last call
  lost,      \* fclose has lost the end of the output
  fault      \* something outside the library failed during the call

fileVars == <<fin, broken, out, created, lost>>
vars == <<call, pc, fileVars, used_iv, held, offset, status, fault>>

-----------------------------------------------------------------------------
(* Bytes, keystream, the one-shot calls *)

Plain(v)     == [v |-> v, ks |-> {}]
PlainText(s) == [i \in DOMAIN s |-> Plain(s[i])]
NoValue      == -1
Value(byte)  == IF byte.ks = {} THEN byte.v ELSE NoValue
Values(s)    == [i \in DOMAIN s |-> Value(s[i])]

\* crypto_aes_ctr_xor_aes: text at block number first of the stream iv.
Xor(text, iv, first) ==
  [i \in DOMAIN text |->
     Combine(text[i], <<iv, first * BlockBytes + i - 1>>)]

\* The last, partial or empty block of a text with its padding.
LastBlock(tail, padding) == PlainText(ApplyBlock(Values(tail), padding))

EncryptAlloc(text, iv, padding) ==
  LET full   == FullLen(Len(text))
      padded == IF PaddedSize(Len(text), padding) > Len(text)
                  THEN Take(text, full) \o LastBlock(Drop(text, full), padding)
                  ELSE text
  IN [status |-> SizeStatus(Len(text), padding), out |-> Xor(padded, iv, 0)]

DecryptAlloc(text, iv, padding) ==
  LET plain == Xor(text, iv, 0)
      strip == Remove(Values(plain), padding)
  IN
  IF Len(text) = 0
    THEN [status |-> IF padding \in {"ZERO", "NONE"} THEN "OK" ELSE "BAD_PADDING",
          out    |-> <<>>]
  ELSE IF Len(text) % BlockBytes # 0
    THEN [status |-> "INVALID_ARG", out |-> <<>>]
  ELSE [status |-> strip.status, out |-> Take(plain, strip.len)]

-----------------------------------------------------------------------------
(* Entry and files *)

\* What a decryption can be given: any text under the IV, with the IV in front or not, or a
\* file that ends within the IV.
InputFiles(op, prefix_iv, text) ==
  IF op = "encrypt" THEN {PlainText(text)}
  ELSE IF prefix_iv THEN {Iv \o Xor(PlainText(text), Iv, 0), Take(Iv, BlockBytes - 1)}
  ELSE {Xor(PlainText(text), Iv, 0)}

Finish(st, failed) ==
  /\ pc' = "returned" /\ status' = st /\ fault' = failed

\* The call: an unsupported padding is refused at once.
Init ==
  /\ \E op \in {"encrypt", "decrypt"}, padding \in Paddings \cup {"other"},
        prefix_iv \in BOOLEAN, wish \in ChunkWishes, text \in Texts :
       /\ \E file \in InputFiles(op, prefix_iv, text) :
            call = [op |-> op, padding |-> padding, prefix_iv |-> prefix_iv,
                    chunk |-> ParseChunk(wish), file |-> file]
       /\ IF padding \in Paddings
            THEN pc = "open" /\ status = "none"
            ELSE pc = "returned" /\ status = "UNSUPPORTED"
  /\ fin = <<>> /\ broken = FALSE /\ held = <<>> /\ offset = 0 /\ used_iv = Iv
  /\ out = <<>> /\ created = FALSE /\ lost = FALSE /\ fault = FALSE

\* One of the files, the IV's write, the key or a buffer fails; a file that cannot be
\* read is noticed before the output is created, anything else after.
OpenFails ==
  /\ pc = "open"
  /\ created' \in BOOLEAN
  /\ \E st \in IF created' THEN {"IO_ERROR", "INVALID_ARG", "INTERNAL_ERROR"}
                           ELSE {"IO_ERROR"} : Finish(st, TRUE)
  /\ out' \in IF created' /\ call.op = "encrypt" /\ call.prefix_iv THEN {<<>>, Iv} ELSE {<<>>}
  /\ UNCHANGED <<call, fin, broken, lost, used_iv, held, offset>>

\* The file is too short to begin with an IV.
NoIv ==
  /\ pc = "open" /\ call.op = "decrypt" /\ call.prefix_iv /\ Len(call.file) < BlockBytes
  /\ Finish("IO_ERROR", FALSE)
  /\ UNCHANGED <<call, fileVars, used_iv, held, offset>>

Open ==
  LET has_iv == call.op = "decrypt" /\ call.prefix_iv IN
  /\ pc = "open"
  /\ has_iv => Len(call.file) >= BlockBytes
  /\ pc' = "loop" /\ created' = TRUE
  /\ used_iv' = IF has_iv THEN Take(call.file, BlockBytes) ELSE Iv
  /\ fin' = IF has_iv THEN Drop(call.file, BlockBytes) ELSE call.file
  /\ out' = IF call.op = "encrypt" /\ call.prefix_iv THEN Iv ELSE <<>>
  /\ UNCHANGED <<call, broken, lost, held, offset, status, fault>>

-----------------------------------------------------------------------------
(* The loop *)

\* fread: a whole chunk or the rest of the file, unless the read fails on the way.
Reads(n) ==
  /\ n \in 1 .. Min({call.chunk, Len(fin)}) /\ ~broken
  /\ fin' = Drop(fin, n)
  /\ broken' = (n < Min({call.chunk, Len(fin)}))
  /\ fault' = broken'

\* fread returns nothing and ferror is set.
ReadFails ==
  /\ pc = "loop"
  /\ broken \/ fin # <<>>
  /\ Finish("IO_ERROR", TRUE)
  /\ UNCHANGED <<call, fileVars, used_iv, held, offset>>

\* fread returns nothing and ferror is not set.
EndOfFile ==
  /\ pc = "loop" /\ Min({call.chunk, Len(fin)}) = 0 /\ ~broken
  /\ pc' = "last"
  /\ UNCHANGED <<call, fileVars, used_iv, held, offset, status, fault>>

\* Mutant: two blocks are kept back.
DecryptLenLate(total) ==
  IF total < 2 * BlockBytes THEN 0 ELSE FullLen(total - 2 * BlockBytes)

\* Mutant: all whole blocks are written at once.
DecryptLenAll(total) == FullLen(total)

\* Decryption keeps a block back: it may be the padded one.
DecryptLen(total) == IF total < BlockBytes THEN 0 ELSE FullLen(total - BlockBytes)

ProcessLen(total) == IF call.op = "encrypt" THEN FullLen(total) ELSE DecryptLen(total)

\* Mutant: the count of blocks read instead of the blocks processed.
AdvanceRead(total) == total \div BlockBytes

Advance(total) == ProcessLen(total) \div BlockBytes

\* One turn of either loop: read behind the bytes held, process whole blocks, keep the rest.
Turn ==
  /\ pc = "loop"
  /\ \E n \in 1 .. call.chunk :
       LET buf == held \o Take(fin, n)
           len == ProcessLen(Len(buf))
       IN
       /\ Reads(n)
       /\ out' = out \o Xor(Take(buf, len), used_iv, offset)
       /\ held' = Drop(buf, len)
       /\ offset' = offset + Advance(Len(buf))
  /\ UNCHANGED <<call, pc, used_iv, created, lost, status>>

\* The engine or the write of the processed blocks fails.
TurnFails ==
  /\ pc = "loop" /\ fin # <<>> /\ ~broken
  /\ ProcessLen(Len(held) + Min({call.chunk, Len(fin)})) > 0
  /\ \E st \in {"IO_ERROR", "INTERNAL_ERROR"} : Finish(st, TRUE)
  /\ UNCHANGED <<call, fileVars, used_iv, held, offset>>

-----------------------------------------------------------------------------
(* The last block *)

\* Mutant: a full block of padding is forgotten.
AddsBlockPartial == held # <<>>

AddsBlock == call.padding \notin {"NONE", "ZERO"} \/ (call.padding = "ZERO" /\ held # <<>>)

EncryptLast ==
  /\ pc = "last" /\ call.op = "encrypt"
  /\ \/ /\ call.padding = "NONE" /\ held # <<>>
        /\ Finish("INVALID_ARG", FALSE)
        /\ UNCHANGED out
     \/ /\ call.padding # "NONE" \/ held = <<>>
        /\ Finish("OK", FALSE)
        /\ out' = out \o IF AddsBlock THEN Xor(LastBlock(held, call.padding), used_iv, offset)
                                      ELSE <<>>
  /\ UNCHANGED <<call, fin, broken, created, lost, used_iv, held, offset>>

OneBlockHeld == Len(held) = BlockBytes

DecryptLast ==
  LET last  == Xor(held, used_iv, offset)
      strip == Remove(Values(last), call.padding)
  IN
  /\ pc = "last" /\ call.op = "decrypt"
  /\ \/ /\ ~OneBlockHeld
        /\ Finish("BAD_PADDING", FALSE)
        /\ UNCHANGED out
     \/ /\ OneBlockHeld
        /\ Finish(strip.status, FALSE)
        /\ out' = out \o Take(last, strip.len)
  /\ UNCHANGED <<call, fin, broken, created, lost, used_iv, held, offset>>

\* The engine or the write of the last block fails.
LastFails ==
  /\ pc = "last"
  /\ IF call.op = "encrypt" THEN AddsBlock ELSE OneBlockHeld
  /\ \E st \in {"IO_ERROR", "INTERNAL_ERROR"} : Finish(st, TRUE)
  /\ UNCHANGED <<call, fileVars, used_iv, held, offset>>

-----------------------------------------------------------------------------

\* fclose, whose result nobody looks at, cannot write what is still buffered.
CloseFails ==
  /\ pc = "returned" /\ status = "OK" /\ ~lost
  /\ \E n \in 0 .. Len(out) - 1 : out' = Take(out, n)
  /\ lost' = TRUE
  /\ UNCHANGED <<call, pc, fin, broken, created, used_iv, held, offset, status, fault>>

\* The call has returned.
Returned == pc = "returned" /\ UNCHANGED vars

Next ==
  \/ OpenFails \/ NoIv \/ Open
  \/ Turn \/ ReadFails \/ EndOfFile \/ TurnFails
  \/ EncryptLast \/ DecryptLast \/ LastFails \/ CloseFails
  \/ Returned

Spec == Init /\ [][Next]_vars

-----------------------------------------------------------------------------
(* Properties *)

TypeOK ==
  /\ call.op \in {"encrypt", "decrypt"} /\ call.padding \in Paddings \cup {"other"}
  /\ call.prefix_iv \in BOOLEAN /\ call.chunk \in Nat \ {0}
  /\ call.chunk % BlockBytes = 0
  /\ pc \in {"returned", "open", "loop", "last"}
  /\ offset \in Nat /\ broken \in BOOLEAN /\ created \in BOOLEAN /\ fault \in BOOLEAN
  /\ lost \in BOOLEAN
  /\ status \in {"none", "OK", "INVALID_ARG", "BAD_PADDING", "IO_ERROR", "UNSUPPORTED",
                 "INTERNAL_ERROR"}

\* leftover[16] and rem[32] hold what the loops keep, and a chunk read behind it fits
\* into the chunk + 16 and chunk + 32 bytes of the buffers.
BuffersFit ==
  Len(held) < IF call.op = "encrypt" THEN BlockBytes ELSE 2 * BlockBytes

\* The call has returned, with the files it needed.
Ended(op) == pc = "returned" /\ call.op = op /\ created

\* And nothing outside the library failed.
Done(op) == Ended(op) /\ ~fault /\ ~lost

\* The output's bytes, but for an end that fclose has lost.
Written(bytes) ==
  out = IF lost /\ Len(out) < Len(bytes) THEN Take(bytes, Len(out)) ELSE bytes

Header == IF call.op = "encrypt" /\ call.prefix_iv THEN Iv ELSE <<>>
Body   == IF call.op = "decrypt" /\ call.prefix_iv THEN Drop(call.file, BlockBytes)
                                                   ELSE call.file

\* Encrypting a file gives the status and the bytes of the one-shot call, for every
\* chunk size.  No failed read, write or engine call ends in OK, and none but a failed
\* fclose leaves OK with an output that is not whole.
EncryptsAsOneShot ==
  LET one == EncryptAlloc(call.file, Iv, call.padding) IN
  Ended("encrypt") =>
    /\ ~fault => status = one.status
    /\ status = "OK" => one.status = "OK" /\ Written(Header \o one.out)

IsZeros(s) == \A i \in DOMAIN s : s[i] = Plain(0)

\* So does decrypting one, with two exceptions of the code: an empty file is refused
\* whatever the padding, and zero padding is removed from the last block only.
DecryptsAsOneShot ==
  LET one == DecryptAlloc(Body, used_iv, call.padding) IN
  Ended("decrypt") =>
    /\ ~fault => (status = "OK" <=> one.status = "OK" /\ Body # <<>>)
    /\ status = "OK" =>
         \/ call.padding # "ZERO" /\ Written(one.out)
         \/ /\ call.padding = "ZERO"
            /\ \E n \in 0 .. Len(Body) :
                 Written(one.out \o [i \in 1 .. n |-> Plain(0)])

\* The encryption of a text that is not empty decrypts to it, less the zeros at its end
\* when zeros are the padding; the chunk sizes of the two calls are independent.
RoundTripOf(text) ==
  Body = EncryptAlloc(text, used_iv, call.padding).out
    => /\ status = "OK"
       /\ IF call.padding = "ZERO"
            THEN /\ out = Take(text, Len(out))
                 /\ IsZeros(Drop(text, Len(out)))
            ELSE out = text

\* The texts whose encryption a body can be: padding is appended.
Origins == {Take(Xor(Body, used_iv, 0), n) : n \in 0 .. Len(Body)}

Encrypts(text) == SizeStatus(Len(text), call.padding) = "OK"

RoundTrip ==
  Done("decrypt") /\ Body # <<>> =>
    \A text \in Origins : Encrypts(text) => RoundTripOf(text)

\* The same of every text, as the test of the one-shot calls has it; the code refuses
\* the empty file it wrote for an empty text.
RoundTripOfAll ==
  Done("decrypt") =>
    \A text \in Origins : Encrypts(text) => RoundTripOf(text)

\* A file is accepted only if it is, byte for byte, the encryption of what comes out:
\* nothing is ignored in it, neither filler nor bytes beyond the last block.
NothingIgnored ==
  Done("decrypt") /\ status = "OK" /\ call.padding # "ZERO" =>
    Body = EncryptAlloc(out, used_iv, call.padding).out
=============================================================================
