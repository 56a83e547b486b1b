------------------------------ MODULE GcmFile ------------------------------
(***************************************************************************)
(* GCM encryption and decryption of a file, chunk by chunk, with the       *)
(* streams crypto_ctr_stream.c and crypto_gcm_stream.c; both libraries     *)
(* have the same loop and differ in the callback that encrypts counter     *)
(* blocks.  Next to it, the one-shot calls of aes_gcm.c.                   *)
(*                                                                         *)
(* A byte is [id, ks]: the original byte and the keystream bytes it is     *)
(* combined with, each named by its counter block and its place in it.  A  *)
(* tag is what it was computed from.                                       *)
(***************************************************************************)
EXTENDS Counters, ChunkSize

CONSTANTS
  J0s,          \* the counter blocks an IV may give
  Engines,      \* subset of {"cpu", "opencl"}
  Aads,         \* sequences of bytes
  MaxLen        \* bound: bytes of the texts considered

ASSUME MaxLenAssumption == MaxLen \in Nat
ASSUME J0Assumption == J0s \subseteq CounterBlocks
ASSUME AadsAssumption == Aads \subseteq Seq([id : Nat, ks : {{}}])

VARIABLES
  call,     \* [op, engine, j0, aad, chunk, file, tag]
  pc,       \* "open", "loop", "finalize", "returned"
  fin,      \* bytes not yet read
  broken,   \* a read has failed
  ctr,      \* the CTR stream: [next_block_offset, keystream, keystream_offset]
  gcm,      \* the GHASH stream: [y, ciphertext_len], y the blocks absorbed
  out,      \* the output file's bytes
  exists,   \* the output file exists
  removal,  \* remove(output_path): "none", "done" or "failed"
  result,   \* [status, tag]
  lost,     \* fclose has lost the end of the output
  fault     \* something outside the library failed

streams == <<ctr, gcm>>
outVars == <<out, exists, removal>>
vars == <<call, pc, fin, broken, streams, outVars, result, lost, fault>>

-----------------------------------------------------------------------------
(* Bytes and the one-shot calls *)

Text(n)  == [i \in 1 .. n |-> [id |-> i, ks |-> {}]]
ZeroByte == [id |-> 0, ks |-> {}]

\* ghash_update_bytes: the blocks of s, the last one filled with zeros.
Blocks(s) ==
  [b \in 1 .. CeilDiv(Len(s), BlockBytes) |->
     [i \in 1 .. BlockBytes |->
        LET at == (b - 1) * BlockBytes + i IN IF at <= Len(s) THEN s[at] ELSE ZeroByte]]

TagOf(y, aad_len, ciphertext_len, j0) ==
  [y |-> y, aad_len |-> aad_len, ciphertext_len |-> ciphertext_len, j0 |-> j0]

\* gcm_ctr_xor: block b of the text meets the counter after b + 1 increments.
OneShotXor(text, j0) ==
  [i \in DOMAIN text |->
     Combine(text[i], <<Counted(j0, 1 + (i - 1) \div BlockBytes), (i - 1) % BlockBytes>>)]

OneShotTag(aad, ciphertext, j0) ==
  TagOf(Blocks(aad) \o Blocks(ciphertext), Len(aad), Len(ciphertext), j0)

-----------------------------------------------------------------------------
(* The streams *)

\* The counter block the callback encrypts for a block offset.
CallbackCounter(offset) ==
  IF call.engine = "cpu" THEN Add128(call.j0, offset) ELSE Add32(call.j0, offset)

CallbackXor(text, offset) ==
  [i \in DOMAIN text |->
     Combine(text[i], <<CallbackCounter(offset + (i - 1) \div BlockBytes),
                        (i - 1) % BlockBytes>>)]

\* crypto_ctr_stream_xor: the rest of the last keystream block, whole blocks, and one
\* more keystream block for what is left.
StreamXor(input) ==
  LET head == Take(input, Min({Len(input), BlockBytes - ctr.keystream_offset}))
      rest == Drop(input, Len(head))
      bulk == Take(rest, FullLen(Len(rest)))
      tail == Drop(rest, Len(bulk))
      next == ctr.next_block_offset + Len(bulk) \div BlockBytes
  IN
  [output |->
     [i \in DOMAIN head |->
        Combine(head[i], <<ctr.keystream, ctr.keystream_offset + i - 1>>)]
     \o CallbackXor(bulk, ctr.next_block_offset)
     \o CallbackXor(tail, next),
   state |->
     [next_block_offset |-> next + CeilDiv(Len(tail), BlockBytes),
      keystream         |-> IF tail # <<>> THEN CallbackCounter(next) ELSE ctr.keystream,
      keystream_offset  |-> IF tail # <<>> THEN Len(tail)
                                           ELSE ctr.keystream_offset + Len(head)]]

\* crypto_gcm_stream_update_ciphertext: every update fills its last block with zeros.
StreamHash(text) ==
  [y |-> gcm.y \o Blocks(text), ciphertext_len |-> gcm.ciphertext_len + Len(text)]

NoKeystream == "none"

StreamTag == TagOf(gcm.y, Len(call.aad), gcm.ciphertext_len, call.j0)
NoTag     == TagOf(<<>>, 0, 0, call.j0)

-----------------------------------------------------------------------------
(* Entry and files *)

\* An encrypted file as it was, shorter, longer by a zero, or with a byte changed.
Damaged(file) ==
  {file, file \o <<ZeroByte>>}
    \cup {Take(file, n) : n \in 0 .. Len(file) - 1}
    \cup {[file EXCEPT ![i] = ZeroByte] : i \in DOMAIN file}

Init ==
  /\ \E op \in {"encrypt", "decrypt"}, engine \in Engines, j0 \in J0s, aad \in Aads,
        tag_aad \in Aads, wish \in ChunkWishes, n \in 0 .. MaxLen :
       LET ciphertext == OneShotXor(Text(n), j0) IN
       \E file \in IF op = "encrypt" THEN {Text(n)} ELSE Damaged(ciphertext) :
         call = [op |-> op, engine |-> engine, j0 |-> j0, aad |-> aad,
                 chunk |-> ParseChunk(wish), file |-> file,
                 tag |-> OneShotTag(tag_aad, ciphertext, j0)]
  /\ pc = "open" /\ fin = <<>> /\ broken = FALSE
  /\ ctr = [next_block_offset |-> 0, keystream |-> NoKeystream, keystream_offset |-> 0]
  /\ gcm = [y |-> <<>>, ciphertext_len |-> 0]
  /\ out = <<>> /\ exists = FALSE /\ removal = "none" /\ lost = FALSE /\ fault = FALSE
  /\ result = [status |-> "none", tag |-> NoTag]

\* A file, the key or a buffer: what was created stays, empty.
OpenFails ==
  /\ pc = "open"
  /\ exists' \in BOOLEAN
  /\ \E st \in IF exists' THEN {"INVALID_ARG", "INTERNAL_ERROR"} ELSE {"IO_ERROR"} :
       result' = [status |-> st, tag |-> NoTag]
  /\ pc' = "returned" /\ fault' = TRUE
  /\ UNCHANGED <<call, fin, broken, streams, out, removal, lost>>

\* Mutant: the text begins with the counter block that masks the tag.
FirstOffsetZero == 0

FirstOffset == 1

Open ==
  /\ pc = "open"
  /\ pc' = "loop" /\ exists' = TRUE /\ fin' = call.file
  /\ ctr' = [next_block_offset |-> FirstOffset, keystream |-> NoKeystream,
             keystream_offset  |-> BlockBytes]
  /\ gcm' = [y |-> Blocks(call.aad), ciphertext_len |-> 0]
  /\ UNCHANGED <<call, broken, out, removal, result, lost, fault>>

-----------------------------------------------------------------------------
(* The loop *)

\* Mutant: a file that failed its check is left for the caller to remove.
KeepsAuth(st) == st \in {"OK", "AUTH_FAILED"}

\* After the loop, remove(output_path) unless all went well; nobody looks at its result.
Keeps(st) == st = "OK"

Return(st, tag, failed) ==
  /\ pc' = "returned" /\ fault' = failed
  /\ result' = [status |-> st, tag |-> tag]
  /\ removal' \in IF Keeps(st) THEN {"none"} ELSE {"done", "failed"}
  /\ exists' = (removal' # "done") /\ UNCHANGED lost
  /\ out' = IF removal' = "done" THEN <<>> ELSE out

\* fread returns nothing and ferror is set.
ReadFails ==
  /\ pc = "loop" /\ (broken \/ fin # <<>>)
  /\ Return("IO_ERROR", NoTag, TRUE)
  /\ UNCHANGED <<call, fin, broken, streams>>

EndOfFile ==
  /\ pc = "loop" /\ fin = <<>> /\ ~broken
  /\ pc' = "finalize"
  /\ UNCHANGED <<call, fin, broken, streams, outVars, result, lost, fault>>

\* Mutant: decryption authenticates what it produced.
HashedOutput(input, output) == output

Hashed(input, output) == IF call.op = "encrypt" THEN output ELSE input

\* One turn: a chunk, the rest of the file, or less when the read fails on the way.
Turn ==
  /\ pc = "loop" /\ ~broken
  /\ \E n \in 1 .. Min({call.chunk, Len(fin)}) :
       LET input == Take(fin, n)
           xored == StreamXor(input)
       IN
       /\ fin' = Drop(fin, n)
       /\ broken' = (n < Min({call.chunk, Len(fin)}))
       /\ ctr' = xored.state
       /\ gcm' = StreamHash(Hashed(input, xored.output))
       /\ out' = out \o xored.output
  /\ fault' = broken'
  /\ UNCHANGED <<call, pc, exists, removal, result, lost>>

\* The callback or the write fails.
TurnFails ==
  /\ pc = "loop" /\ ~broken /\ fin # <<>>
  /\ \E st \in {"IO_ERROR", "INTERNAL_ERROR"} : Return(st, NoTag, TRUE)
  /\ UNCHANGED <<call, fin, broken, streams>>

-----------------------------------------------------------------------------
(* The tag *)

EncryptFinalize ==
  /\ pc = "finalize" /\ call.op = "encrypt"
  /\ Return("OK", StreamTag, FALSE)
  /\ UNCHANGED <<call, fin, broken, streams>>

\* Mutant: the lengths are not part of what is compared.
MatchesWithoutLengths == StreamTag.y = call.tag.y

TagMatches == StreamTag = call.tag

DecryptFinalize ==
  /\ pc = "finalize" /\ call.op = "decrypt"
  /\ Return(IF TagMatches THEN "OK" ELSE "AUTH_FAILED", NoTag, FALSE)
  /\ UNCHANGED <<call, fin, broken, streams>>

\* fclose, whose result nobody looks at, cannot write what is still buffered.
CloseFails ==
  /\ pc = "returned" /\ result.status = "OK" /\ ~lost
  /\ \E n \in 0 .. Len(out) - 1 : out' = Take(out, n)
  /\ lost' = TRUE
  /\ UNCHANGED <<call, pc, fin, broken, streams, exists, removal, result, fault>>

\* The call has returned.
Returned == pc = "returned" /\ UNCHANGED vars

Next ==
  \/ OpenFails \/ Open
  \/ Turn \/ ReadFails \/ EndOfFile \/ TurnFails
  \/ EncryptFinalize \/ DecryptFinalize \/ CloseFails
  \/ Returned

Spec == Init /\ [][Next]_vars

-----------------------------------------------------------------------------
(* Properties *)

TypeOK ==
  /\ call.op \in {"encrypt", "decrypt"} /\ call.engine \in Engines
  /\ call.j0 \in CounterBlocks
  /\ call.chunk \in Nat \ {0} /\ call.chunk % BlockBytes = 0
  /\ pc \in {"open", "loop", "finalize", "returned"}
  /\ ctr.next_block_offset \in Nat /\ ctr.keystream_offset \in 0 .. BlockBytes
  /\ gcm.ciphertext_len \in Nat
  /\ broken \in BOOLEAN /\ exists \in BOOLEAN /\ fault \in BOOLEAN
  /\ lost \in BOOLEAN
  /\ removal \in {"none", "done", "failed"} /\ (removal = "done" => ~exists)
  /\ result.status \in {"none", "OK", "INVALID_ARG", "IO_ERROR", "INTERNAL_ERROR",
                        "AUTH_FAILED"}

Ended(op) == pc = "returned" /\ call.op = op

\* The output's bytes, but for an end that fclose has lost.
Written(bytes) ==
  out = IF lost /\ Len(out) < Len(bytes) THEN Take(bytes, Len(out)) ELSE bytes

\* Where the CPU callback's 128-bit counter and GCM's 32-bit one part.
Exempt == call.engine = "cpu" /\ Wraps(call.j0, CeilDiv(Len(call.file), BlockBytes))

EncryptedRight ==
  LET bytes == OneShotXor(call.file, call.j0) IN
  /\ ~fault => result.status = "OK"
  /\ result.status = "OK" =>
       Written(bytes) /\ result.tag = OneShotTag(call.aad, bytes, call.j0)

\* An encrypted file and its tag are those of the one-shot call, for every chunk size.  No
\* failed read, write or engine call ends in OK, and only a failed fclose leaves OK with
\* an output that is not whole.
EncryptsAsOneShot == Ended("encrypt") /\ ~Exempt => EncryptedRight

\* The same for every counter block an IV may give; the CPU callback does not keep it.
EncryptsAsOneShotAlways == Ended("encrypt") => EncryptedRight

\* A file is accepted exactly when its tag is the one-shot tag of these bytes, lengths and
\* AAD, and then the output is the one-shot decryption; a call that could not read or
\* write all of it never accepts.
DecryptsAsOneShot ==
  Ended("decrypt") =>
    LET genuine == call.tag = OneShotTag(call.aad, call.file, call.j0) IN
    /\ ~fault => result.status = IF genuine THEN "OK" ELSE "AUTH_FAILED"
    /\ result.status = "OK" => genuine
    /\ result.status = "OK" /\ ~Exempt => Written(OneShotXor(call.file, call.j0))

\* A call that fails, at any step, leaves nothing of a text in the output file, unless the
\* file cannot be removed.
NothingLeftBehind ==
  pc = "returned" /\ result.status # "OK" => out = <<>> \/ removal = "failed"

\* The stream hashes and counts exactly the bytes read, block by block, and whatever the
\* chunks: a partial block can only be the file's last.
StreamsInStep ==
  pc \in {"loop", "finalize"} /\ ~broken =>
    LET read == Len(call.file) - Len(fin) IN
    /\ gcm.ciphertext_len = read /\ Len(out) = read
    /\ gcm.y = Blocks(call.aad) \o Blocks(IF call.op = "encrypt" THEN out
                                                               ELSE Take(call.file, read))
    /\ ctr.next_block_offset = 1 + CeilDiv(read, BlockBytes)
=============================================================================
