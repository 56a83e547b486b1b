------------------------------ MODULE CbcFile ------------------------------
(***************************************************************************)
(* cbc.c: CBC encryption of a file by buffers, with the bytes of a partial *)
(* block carried over; decryption block by block, one block behind because *)
(* of the padding; and the calls on buffers.                               *)
(*                                                                         *)
(* A byte is the set of the values that were added to form it: {} is zero, *)
(* {<<"v", n>>} the number n, {<<"E", b, j>>} byte j of the encryption of  *)
(* the block b and {<<"D", c, j>>} of the decryption of a block that is no *)
(* encryption.                                                             *)
(***************************************************************************)
EXTENDS Padding

CONSTANTS
  Buffer,       \* sizeof(inbuf): 65536 in the code
  Iv,           \* cbc->iv
  Texts         \* sequences of numbers: what files contain

ASSUME BufferAssumption == Buffer \in Nat \ {0} /\ Buffer % BlockBytes = 0
ASSUME TextsAssumption == Texts \subseteq Seq(Nat)

VARIABLES
  call,         \* [op, padding, prefix_iv, file]: the arguments and the input file
  pc,           \* "open", "loop", "last", "returned"
  fin,          \* bytes of the input file not yet read
  prev,         \* the block that is chained to the next
  held,         \* carry (encryption) or last_plain, if have_last (decryption)
  out, created, \* the output file
  status, fault,
  lost          \* fclose has lost the end of the output

vars == <<call, pc, fin, prev, held, out, created, status, fault, lost>>

-----------------------------------------------------------------------------
(* Bytes and blocks *)

Plain(n)  == IF n = 0 THEN {} ELSE {<<"v", n>>}
Bytes(s)  == [i \in DOMAIN s |-> Plain(s[i])]
NoValue   == -1

\* The number a byte is; a byte that is none has no value.
Value(byte) ==
  IF byte = {} THEN 0
  ELSE LET term == CHOOSE t \in byte : TRUE IN
       IF Cardinality(byte) = 1 /\ term[1] = "v" THEN term[2] ELSE NoValue

Values(s) == [i \in DOMAIN s |-> Value(s[i])]

\* The IV's bytes are numbers.
ASSUME IvAssumption ==
  Iv = Bytes(Values(Iv)) /\ Values(Iv) \in [1 .. BlockBytes -> Nat]

XorBlock(a, b) == [j \in 1 .. BlockBytes |-> (a[j] \ b[j]) \cup (b[j] \ a[j])]

\* The image of a block under "E" or "D", which undo each other.
Named(how, block) == [j \in 1 .. BlockBytes |-> {<<how, block, j>>}]

Cipher(how, undoes, block) ==
  IF \E t \in block[1] : t[1] = undoes /\ block = Named(undoes, t[2])
    THEN (CHOOSE t \in block[1] : TRUE)[2]
    ELSE Named(how, block)

EncryptBlock(block) == Cipher("E", "D", block)
DecryptBlock(block) == Cipher("D", "E", block)

BlockAt(s, i) == SubSeq(s, (i - 1) * BlockBytes + 1, i * BlockBytes)
LastBlockOf(s) == Drop(s, Len(s) - BlockBytes)

\* The bytes of the blocks b[1] .. b[n].
Joined(b, n) ==
  [i \in 1 .. n * BlockBytes |-> b[(i - 1) \div BlockBytes + 1][((i - 1) % BlockBytes) + 1]]

\* Whole blocks, chained to the block iv.
Chain(text, iv) ==
  LET c[i \in 0 .. Len(text) \div BlockBytes] ==
        IF i = 0 THEN iv ELSE EncryptBlock(XorBlock(BlockAt(text, i), c[i - 1]))
  IN Joined(c, Len(text) \div BlockBytes)

Unchain(text, iv) ==
  Joined([i \in 1 .. Len(text) \div BlockBytes |->
            XorBlock(DecryptBlock(BlockAt(text, i)),
                     IF i = 1 THEN iv ELSE BlockAt(text, i - 1))],
         Len(text) \div BlockBytes)

\* crypto_padding_apply_block: the tail as it is, and what the mode appends.
Padded(tail, padding) ==
  tail \o Drop(Bytes(ApplyBlock(Values(tail), padding)), Len(tail))

-----------------------------------------------------------------------------
(* The calls on buffers *)

EncryptBuffer(text, iv, padding) ==
  LET full == FullLen(Len(text))
      body == IF PaddedSize(Len(text), padding) > Len(text)
                THEN Take(text, full) \o Padded(Drop(text, full), padding)
                ELSE text
  IN [status |-> SizeStatus(Len(text), padding), out |-> Chain(body, iv)]

DecryptBuffer(text, iv, padding) ==
  LET plain == Unchain(text, iv)
      strip == Remove(Values(plain), padding)
  IN
  IF text = <<>>
    THEN [status |-> IF padding \in {"ZERO", "NONE"} THEN "OK" ELSE "BAD_PADDING",
          out |-> <<>>]
  ELSE IF Len(text) % BlockBytes # 0
    THEN [status |-> "INVALID_ARG", out |-> <<>>]
  ELSE [status |-> strip.status, out |-> Take(plain, strip.len)]

-----------------------------------------------------------------------------
(* Entry and files *)

\* Decryption is given the encryption of any blocks, whole, cut off or with a byte
\* replaced, or a file that ends within the IV.
InputFiles(op, prefix_iv, text) ==
  LET cipher == Chain(Bytes(text), Iv)
      cuts   == {0, 1, Len(cipher) - 1, Len(cipher)} \cap (0 .. Len(cipher))
      bad    == {1, Len(cipher)} \cap DOMAIN cipher
      front  == IF prefix_iv THEN Iv ELSE <<>>
  IN
  IF op = "encrypt" THEN {Bytes(text)}
  ELSE {front \o Take(cipher, n) : n \in cuts}
       \cup {front \o [cipher EXCEPT ![i] = Plain(1)] : i \in bad}
       \cup (IF prefix_iv THEN {Take(Iv, BlockBytes - 1)} ELSE {})

Return(st, failed) == pc' = "returned" /\ status' = st /\ fault' = failed

Init ==
  /\ \E op \in {"encrypt", "decrypt"}, padding \in Paddings \cup {"other"},
        prefix_iv \in BOOLEAN, text \in Texts :
       /\ op = "decrypt" => Len(text) % BlockBytes = 0
       /\ \E file \in InputFiles(op, prefix_iv, text) :
            call = [op |-> op, padding |-> padding, prefix_iv |-> prefix_iv, file |-> file]
       /\ IF padding \in Paddings
            THEN pc = "open" /\ status = "none"
            ELSE pc = "returned" /\ status = "UNSUPPORTED"
  /\ fin = <<>> /\ prev = Iv /\ held = <<>> /\ out = <<>> /\ created = FALSE /\ fault = FALSE
  /\ lost = FALSE

\* The key, one of the files, or the IV's write or read.
OpenFails ==
  /\ pc = "open" /\ created' \in BOOLEAN
  /\ \E st \in IF created' THEN {"IO_ERROR"} ELSE {"INVALID_ARG", "IO_ERROR"} :
       Return(st, TRUE)
  /\ UNCHANGED <<call, fin, prev, held, out, lost>>

HasIv  == call.op = "decrypt" /\ call.prefix_iv
IvFits == HasIv => Len(call.file) >= BlockBytes

\* The file is too short to begin with an IV.
NoIv ==
  /\ pc = "open" /\ ~IvFits
  /\ created' = TRUE /\ Return("IO_ERROR", FALSE)
  /\ UNCHANGED <<call, fin, prev, held, out, lost>>

Open ==
  /\ IvFits
  /\ pc = "open" /\ pc' = "loop" /\ created' = TRUE
  /\ prev' = IF HasIv THEN Take(call.file, BlockBytes) ELSE Iv
  /\ fin' = IF HasIv THEN Drop(call.file, BlockBytes) ELSE call.file
  /\ out' = IF call.op = "encrypt" /\ call.prefix_iv THEN Iv ELSE <<>>
  /\ UNCHANGED <<call, held, status, fault, lost>>

-----------------------------------------------------------------------------
(* The loops *)

EndOfFile ==
  /\ pc = "loop" /\ fin = <<>> /\ pc' = "last"
  /\ UNCHANGED <<call, fin, prev, held, out, created, status, fault, lost>>

\* Mutant: the chain starts over with every buffer.
ChainedIv(blocks) == Iv

\* The block the next one is chained to.
Chained(blocks) == IF blocks = <<>> THEN prev ELSE LastBlockOf(blocks)

\* Mutant: the last whole block waits for the next buffer, as in decryption.
WholeButOne(total) == FullLen(total - 1)

Whole(total) == FullLen(total)

\* What a turn of crypto_cbc_encrypt_file has to encrypt when it has read n bytes, and the
\* whole blocks of it, encrypted.
Gathered(n)   == held \o Take(fin, n)
TurnBlocks(n) == Chain(Take(Gathered(n), Whole(Len(Gathered(n)))), prev)

\* A turn of crypto_cbc_encrypt_file: fill the buffer behind the carry, encrypt whole
\* blocks, carry the rest; a buffer that is not full is the last.
EncryptTurn ==
  LET n == Min({Buffer, Len(fin)}) IN
  /\ pc = "loop" /\ call.op = "encrypt" /\ fin # <<>>
  /\ fin' = Drop(fin, n) /\ held' = Drop(Gathered(n), Whole(Len(Gathered(n))))
  /\ out' = out \o TurnBlocks(n) /\ prev' = Chained(TurnBlocks(n))
  /\ pc' = IF n < Buffer THEN "last" ELSE "loop"
  /\ UNCHANGED <<call, created, status, fault, lost>>

\* Mutant: a block is chained to the decrypted block before it.
UnchainedPlain(block) ==
  XorBlock(DecryptBlock(block), IF held = <<>> THEN prev ELSE held)

Unchained(block) == XorBlock(DecryptBlock(block), prev)

\* A turn of crypto_cbc_decrypt_file: a whole block, written when the next one is there.
DecryptTurn ==
  LET block == Take(fin, BlockBytes) IN
  /\ pc = "loop" /\ call.op = "decrypt" /\ Len(fin) >= BlockBytes
  /\ fin' = Drop(fin, BlockBytes) /\ out' = out \o held
  /\ held' = Unchained(block) /\ prev' = block
  /\ UNCHANGED <<call, pc, created, status, fault, lost>>

RaggedEnd ==
  /\ pc = "loop" /\ call.op = "decrypt" /\ Len(fin) \in 1 .. BlockBytes - 1
  /\ Return("IO_ERROR", FALSE)
  /\ UNCHANGED <<call, fin, prev, held, out, created, lost>>

\* The encryption looks for a read error when it has written the blocks of what the read
\* has delivered; the decryption writes nothing of a block that is not whole.
ReadFails ==
  /\ pc = "loop" /\ Return("IO_ERROR", TRUE)
  /\ IF call.op = "encrypt"
       THEN \E n \in 0 .. Min({Buffer - 1, Len(fin)}) : out' = out \o TurnBlocks(n)
       ELSE UNCHANGED out
  /\ UNCHANGED <<call, fin, prev, held, created, lost>>

\* What a turn writes; no byte, when it has no block to write.
TurnWrites ==
  IF call.op = "encrypt" THEN TurnBlocks(Min({Buffer, Len(fin)}))
  ELSE IF Len(fin) >= BlockBytes THEN held ELSE <<>>

\* The output gets the beginning of it.
WriteFails ==
  /\ pc = "loop" /\ Return("IO_ERROR", TRUE)
  /\ \E n \in 0 .. Len(TurnWrites) - 1 : out' = out \o Take(TurnWrites, n)
  /\ UNCHANGED <<call, fin, prev, held, created, lost>>

-----------------------------------------------------------------------------
(* The last block *)

AddsBlock == call.padding \notin {"NONE", "ZERO"} \/ (call.padding = "ZERO" /\ held # <<>>)

EncryptLast ==
  /\ pc = "last" /\ call.op = "encrypt"
  /\ \/ /\ call.padding = "NONE" /\ held # <<>>
        /\ Return("INVALID_ARG", FALSE) /\ UNCHANGED out
     \/ /\ call.padding # "NONE" \/ held = <<>>
        /\ Return("OK", FALSE)
        /\ out' = out \o IF AddsBlock THEN Chain(Padded(held, call.padding), prev) ELSE <<>>
  /\ UNCHANGED <<call, fin, prev, held, created, lost>>

DecryptLast ==
  LET strip == Remove(Values(held), call.padding) IN
  /\ pc = "last" /\ call.op = "decrypt"
  /\ \/ held = <<>> /\ Return("BAD_PADDING", FALSE) /\ UNCHANGED out
     \/ /\ held # <<>> /\ Return(strip.status, FALSE)
        /\ out' = out \o Take(held, strip.len)
  /\ UNCHANGED <<call, fin, prev, held, created, lost>>

LastFails ==
  /\ pc = "last"
  /\ IF call.op = "encrypt" THEN AddsBlock
     ELSE held # <<>> /\ Remove(Values(held), call.padding).len > 0
  /\ Return("IO_ERROR", TRUE)
  /\ UNCHANGED <<call, fin, prev, held, out, created, lost>>

\* fclose, whose result nobody looks at, cannot write what is still buffered.
CloseFails ==
  /\ pc = "returned" /\ status = "OK" /\ ~lost
  /\ \E n \in 0 .. Len(out) - 1 : out' = Take(out, n)
  /\ lost' = TRUE
  /\ UNCHANGED <<call, pc, fin, prev, held, created, status, fault>>

\* The call has returned.
Returned == pc = "returned" /\ UNCHANGED vars

Next ==
  \/ OpenFails \/ NoIv \/ Open
  \/ ReadFails \/ EndOfFile \/ EncryptTurn \/ DecryptTurn \/ RaggedEnd \/ WriteFails
  \/ EncryptLast \/ DecryptLast \/ LastFails \/ CloseFails
  \/ Returned

Spec == Init /\ [][Next]_vars

-----------------------------------------------------------------------------
(* Properties *)

\* Types; carry[16] and last_plain[16] hold what is kept, and a carry is never a block.
TypeOK ==
  /\ call.op \in {"encrypt", "decrypt"} /\ call.padding \in Paddings \cup {"other"}
  /\ pc \in {"open", "loop", "last", "returned"}
  /\ Len(prev) = BlockBytes
  /\ IF call.op = "encrypt" THEN Len(held) < BlockBytes ELSE Len(held) \in {0, BlockBytes}
  /\ created \in BOOLEAN /\ fault \in BOOLEAN /\ lost \in BOOLEAN

Ended(op) == pc = "returned" /\ call.op = op /\ created
Done(op)  == Ended(op) /\ ~fault /\ ~lost

\* The output's bytes, but for an end that fclose has lost.
Written(bytes) ==
  out = IF lost /\ Len(out) < Len(bytes) THEN Take(bytes, Len(out)) ELSE bytes

UsedIv == IF HasIv THEN Take(call.file, BlockBytes) ELSE Iv
Body   == IF HasIv THEN Drop(call.file, BlockBytes) ELSE call.file

\* A file encrypted by buffers is the one-shot encryption of its contents; only a failed
\* fclose leaves OK with an output that is not whole.
EncryptsAsOneShot ==
  LET one == EncryptBuffer(call.file, Iv, call.padding) IN
  Ended("encrypt") =>
    /\ ~fault => status = one.status
    /\ status = "OK" =>
         /\ one.status = "OK"
         /\ Written((IF call.prefix_iv THEN Iv ELSE <<>>) \o one.out)

IsZeros(s) == \A i \in DOMAIN s : s[i] = Plain(0)

\* A file is decrypted as the one-shot call does it, but that an empty one is refused, a
\* ragged one has another status, and zeros are taken off the last block only.
DecryptsAsOneShot ==
  LET one == DecryptBuffer(Body, UsedIv, call.padding) IN
  Ended("decrypt") /\ IvFits =>
    /\ ~fault => (status = "OK" <=> one.status = "OK" /\ Body # <<>>)
    /\ status = "OK" =>
         \E n \in 0 .. IF call.padding = "ZERO" THEN Len(Body) ELSE 0 :
           Written(one.out \o [i \in 1 .. n |-> Plain(0)])

\* The texts whose encryption the file is.
Origins ==
  LET plain == Unchain(Body, UsedIv) IN
  {t \in {Take(plain, n) : n \in 0 .. Len(plain)} :
     EncryptBuffer(t, UsedIv, call.padding) = [status |-> "OK", out |-> Body]}

\* Decryption accepts exactly the encryptions, and returns the text; of the texts that
\* differ in zeros under zero padding, the one without.
RoundTrip ==
  Done("decrypt") /\ Body # <<>> =>
    IF call.padding = "ZERO"
      THEN \A t \in Origins :
             /\ status = "OK" /\ Take(t, Len(out)) = out
             /\ IsZeros(Drop(t, Len(out)))
      ELSE Origins = IF status = "OK" THEN {out} ELSE {}
=============================================================================
