----------------------------- MODULE CtrStream -----------------------------
(***************************************************************************)
(* A CTR stream (crypto_ctr_stream.c) fed with pieces of any length, over  *)
(* the OpenCL engine: its callback launches a kernel whose work items each *)
(* encrypt BlocksPerItem counter blocks, in any order with one another.    *)
(* The whole must be the CPU library's one pass over the same bytes.  The  *)
(* one-shot entry points launch the same kernels.                          *)
(*                                                                         *)
(* A keystream byte is its counter block and its place in it.  The input   *)
(* is left out: what matters is which keystream byte each byte meets.      *)
(***************************************************************************)
EXTENDS Counters, Bytes, NDRange

CONSTANTS
  BlocksPerItem,   \* 4 in the kernels
  Starts,          \* IVs (CTR) and values of j0 (GCM)
  MaxLen           \* bound: bytes of a stream

ASSUME ItemsAssumption == BlocksPerItem \in Nat \ {0}
ASSUME StartsAssumption == Starts \subseteq CounterBlocks /\ MaxLen \in Nat

VARIABLES
  mode,    \* "ctr" or "gcm": which kernel
  start,   \* the counter block of the stream
  first,   \* initial_block_offset: 1 after j0
  strm,    \* [next_block_offset, keystream, keystream_offset]
  out,     \* for each byte of the stream so far, the keystream bytes it met
  piece,   \* bytes of the update still to do
  pc,      \* "idle", "bulk", "tail", "direct", "closed"
  len,     \* total_len of the kernel
  item,    \* item[g]: turns taken, and whether it has returned
  cells    \* cells[i]: what the items stored for byte i of the output buffer

jobVars == <<len, item, cells>>
vars == <<mode, start, first, strm, out, piece, pc, jobVars>>

-----------------------------------------------------------------------------
(* Counter blocks *)

\* The CPU library's counter for block number n of the stream.
CpuCounter(n) == IF mode = "ctr" THEN Add128(start, n) ELSE Counted(start, n)

\* Mutant: GCM's counter carries into the other words.
KernelCounterCarries(block) == Add128(start, strm.next_block_offset + block)

\* The counter of aes_ctr_xor and aes_gcm_ctr_xor for the block of a launch.
KernelCounter(block) ==
  LET n == strm.next_block_offset + block IN
  IF mode = "ctr" THEN Add128(start, n) ELSE Add32(start, n)

-----------------------------------------------------------------------------
(* Launch and work items *)

ItemCount(bytes) == CeilDiv(CeilDiv(bytes, BlockBytes), BlocksPerItem)

Launch(bytes) ==
  /\ len' = bytes
  /\ \E local \in LocalSizes :
       item' = [g \in 0 .. GlobalSize(ItemCount(bytes), local) - 1 |->
                  [turn |-> 0, done |-> FALSE]]
  /\ cells' = [i \in 0 .. bytes - 1 |-> {}]

NoLaunch == UNCHANGED jobVars

Stored(block, i) == <<KernelCounter(block), i>>

\* Mutant: a block is stored as if it were whole.
StoredLen(from) == BlockBytes

\* How many bytes of the block that begins at byte from are stored.
StoreLen(from) == Min({BlockBytes, len - from})

\* One turn of work item g: a block, or the return.
ItemStep(g) ==
  LET block == g * BlocksPerItem + item[g].turn
      from  == block * BlockBytes
  IN
  /\ pc \in {"bulk", "tail", "direct"} /\ ~item[g].done
  /\ \/ /\ item[g].turn = BlocksPerItem \/ from >= len
        /\ item' = [item EXCEPT ![g].done = TRUE]
        /\ UNCHANGED cells
     \/ /\ item[g].turn < BlocksPerItem /\ from < len
        /\ item' = [item EXCEPT ![g].turn = @ + 1]
        /\ LET stored == from .. from + StoreLen(from) - 1 IN
           cells' = [i \in DOMAIN cells \cup stored |->
                       (IF i \in DOMAIN cells THEN cells[i] ELSE {})
                         \cup (IF i \in stored THEN {Stored(block, i - from)} ELSE {})]
  /\ UNCHANGED <<mode, start, first, strm, out, piece, pc, len>>

AllDone == \A g \in DOMAIN item : item[g].done

\* What is read back from the device, as a sequence.
ReadBack == [i \in 1 .. len |-> cells[i - 1]]

-----------------------------------------------------------------------------
(* The stream *)

\* Mutant: a new stream begins inside a keystream block it does not have.
FreshAtStart(n) == [next_block_offset |-> n, keystream |-> <<>>, keystream_offset |-> 0]

Fresh(n) == [next_block_offset |-> n, keystream |-> <<>>, keystream_offset |-> BlockBytes]

\* crypto_ctr_stream_init
Restart ==
  /\ pc \in {"idle", "closed"}
  /\ mode' \in {"ctr", "gcm"} /\ start' \in Starts /\ first' \in {0, 1}
  /\ strm' = Fresh(first')
  /\ out' = <<>> /\ piece' = 0 /\ pc' = "idle"
  /\ NoLaunch

\* crypto_ctr_stream_xor begins: what is left of the last keystream block is used first.
Update(n) ==
  LET head == Min({n, BlockBytes - strm.keystream_offset})
      rest == n - head
  IN
  /\ pc = "idle"
  /\ out' = out \o SubSeq(strm.keystream, strm.keystream_offset + 1,
                          strm.keystream_offset + head)
  /\ strm' = [strm EXCEPT !.keystream_offset = @ + head]
  /\ piece' = rest
  /\ IF rest = 0 THEN pc' = "idle" /\ NoLaunch
     ELSE IF FullLen(rest) > 0 THEN pc' = "bulk" /\ Launch(FullLen(rest))
     ELSE pc' = "tail" /\ Launch(BlockBytes)
  /\ UNCHANGED <<mode, start, first>>

\* The whole blocks are back; a partial one needs a keystream block of its own.
BulkDone ==
  /\ pc = "bulk" /\ AllDone
  /\ out' = out \o ReadBack
  /\ strm' = [strm EXCEPT !.next_block_offset = @ + len \div BlockBytes]
  /\ piece' = piece - len
  /\ IF piece' = 0 THEN pc' = "idle" /\ NoLaunch
                   ELSE pc' = "tail" /\ Launch(BlockBytes)
  /\ UNCHANGED <<mode, start, first>>

AfterTail(n) == n + 1

TailDone ==
  /\ pc = "tail" /\ AllDone
  /\ strm' = [next_block_offset |-> AfterTail(strm.next_block_offset),
              keystream         |-> ReadBack,
              keystream_offset  |-> piece]
  /\ out' = out \o Take(ReadBack, piece)
  /\ piece' = 0 /\ pc' = "idle"
  /\ NoLaunch
  /\ UNCHANGED <<mode, start, first>>

\* A one-shot entry point launches the whole text, which may end inside a block.
Direct(n) ==
  /\ pc = "idle" /\ out = <<>>
  /\ pc' = "direct" /\ Launch(n)
  /\ UNCHANGED <<mode, start, first, strm, out, piece>>

DirectDone ==
  /\ pc = "direct" /\ AllDone
  /\ out' = ReadBack /\ pc' = "closed"
  /\ UNCHANGED <<mode, start, first, strm, piece, jobVars>>

\* The engine fails; the callers give the stream up.
EngineFails ==
  /\ pc \in {"bulk", "tail", "direct"}
  /\ pc' = "closed"
  /\ UNCHANGED <<mode, start, first, strm, out, piece, jobVars>>

-----------------------------------------------------------------------------

Init ==
  /\ mode \in {"ctr", "gcm"} /\ start \in Starts /\ first \in {0, 1}
  /\ strm = Fresh(first)
  /\ out = <<>> /\ piece = 0 /\ pc = "idle"
  /\ len = 0 /\ item = [g \in {} |-> [turn |-> 0, done |-> TRUE]] /\ cells = [i \in {} |-> {}]

Next ==
  \/ Restart
  \/ \E n \in 1 .. MaxLen - Len(out) : Update(n) \/ Direct(n)
  \/ \E g \in DOMAIN item : ItemStep(g)
  \/ BulkDone \/ TailDone \/ DirectDone \/ EngineFails

Spec == Init /\ [][Next]_vars

-----------------------------------------------------------------------------
(* Properties *)

TypeOK ==
  /\ mode \in {"ctr", "gcm"} /\ start \in CounterBlocks /\ first \in {0, 1}
  /\ strm.next_block_offset \in Nat /\ strm.keystream_offset \in 0 .. BlockBytes
  /\ strm.keystream_offset < BlockBytes => Len(strm.keystream) = BlockBytes
  /\ piece \in Nat /\ len \in Nat
  /\ pc \in {"idle", "bulk", "tail", "direct", "closed"}
  /\ \A g \in DOMAIN item : item[g].turn \in 0 .. BlocksPerItem

\* No work item stores beyond the bytes of the call.
StoresFit == DOMAIN cells = 0 .. len - 1

\* The bytes of the stream meet the keystream of the CPU library's single pass over them:
\* for every division into pieces and work groups and every order of the work items.
StreamIsOneShot ==
  \A i \in DOMAIN out :
    out[i] = {<<CpuCounter(first + (i - 1) \div BlockBytes), (i - 1) % BlockBytes>>}
=============================================================================
