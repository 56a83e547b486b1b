---------------------------- MODULE GhashChunks ----------------------------
(***************************************************************************)
(* GHASH on the device.  The blocks are cut into chunks; one work item of  *)
(* gcm_ghash_chunk hashes each chunk, in any order with the others, and a  *)
(* single item of gcm_ghash_reduce combines the chunks with two powers of  *)
(* H that the host computed.  The CPU library's loop over the same blocks  *)
(* runs beside it, and the two must end with the same value.               *)
(*                                                                         *)
(* The field GF(2^128) is symbolic.  A hash is the polynomial in H it      *)
(* stands for, the set of its terms <<j, e>>: block j times H^e.           *)
(* External: the in-order command queue, which starts the reduction after  *)
(* every item of the chunk kernel has returned.                            *)
(***************************************************************************)
EXTENDS NDRange

CONSTANTS
  MaxBlocks,    \* bound: blocks of the messages considered
  ChunkSizes    \* what gcm_choose_chunk_blocks may return

ASSUME BlocksAssumption == MaxBlocks \in Nat \ {0}
ASSUME SizesAssumption == ChunkSizes \subseteq Nat \ {0}

VARIABLES
  num_blocks, chunk_blocks, chunk_count,
  global,         \* work items of the chunk kernel, after rounding
  phase,          \* "idle", "pow_full", "pow_last", "chunks", "reduce", "done"
  pow,            \* crypto_gf128_pow's exponent, base and result; powers of H by exponent
  pow_full, pow_last,
  worker,         \* worker[g]: blocks item g has taken and its y; done when it has returned
  chunk_hashes,   \* the device buffer
  reduced,        \* the reduction's i and y
  final_hash,
  cpu             \* the CPU library's block counter and y

hostVars   == <<num_blocks, chunk_blocks, chunk_count, global>>
powVars    == <<pow, pow_full, pow_last>>
deviceVars == <<worker, chunk_hashes, reduced, final_hash>>
ghashVars  == <<hostVars, phase, powVars, deviceVars, cpu>>

-----------------------------------------------------------------------------
(* The field *)

Zero      == {}
Term(j)   == {<<j, 0>>}
Add(a, b) == (a \ b) \cup (b \ a)
Times(a, e) == {<<t[1], t[2] + e>> : t \in a}

\* Chunk hashes an earlier message left: terms of no block of this one.
Leftover == {<<-1, 0>>}

-----------------------------------------------------------------------------
(* gcm_ghash_opencl: sizes, the NDRange, two powers *)

ChunkCount(n, k) == (n + k - 1) \div k

\* Mutant: the remainder, which is zero for a whole number of chunks.
LastRemainder == num_blocks % chunk_blocks

\* Mutant: what the whole chunks leave over.
LastSurplus == num_blocks - chunk_count * chunk_blocks

\* The blocks of the last chunk.
LastLen == num_blocks - (chunk_count - 1) * chunk_blocks

Begin ==
  /\ phase \in {"idle", "done"}
  /\ \E n \in 1 .. MaxBlocks, k \in ChunkSizes, local \in LocalSizes :
       LET count == ChunkCount(n, k)
           items == GlobalSize(count, local)
       IN
       /\ num_blocks' = n /\ chunk_blocks' = k /\ chunk_count' = count
       /\ global' = items
       /\ worker' = [g \in 0 .. items - 1 |-> [taken |-> 0, y |-> Zero, done |-> FALSE]]
       /\ chunk_hashes' = [i \in 0 .. count - 1 |-> Leftover]
       /\ pow' = [exponent |-> k, base |-> 1, result |-> 0]
  /\ phase' = "pow_full"
  /\ reduced' = [i |-> 0, y |-> Zero]
  /\ cpu' = [taken |-> 0, y |-> Zero]
  /\ UNCHANGED <<pow_full, pow_last, final_hash>>

\* One turn of crypto_gf128_pow's loop: multiply by the base for a set bit, square it.
PowStep ==
  /\ phase \in {"pow_full", "pow_last"} /\ pow.exponent > 0
  /\ pow' = [exponent |-> pow.exponent \div 2,
             base     |-> IF pow.exponent > 1 THEN 2 * pow.base ELSE pow.base,
             result   |-> IF pow.exponent % 2 = 1 THEN pow.result + pow.base
                                                  ELSE pow.result]
  /\ UNCHANGED <<hostVars, phase, pow_full, pow_last, deviceVars, cpu>>

PowFullDone ==
  /\ phase = "pow_full" /\ pow.exponent = 0
  /\ phase' = "pow_last"
  /\ pow_full' = pow.result
  /\ pow' = [exponent |-> LastLen, base |-> 1, result |-> 0]
  /\ UNCHANGED <<hostVars, pow_last, deviceVars, cpu>>

PowLastDone ==
  /\ phase = "pow_last" /\ pow.exponent = 0
  /\ phase' = "chunks"
  /\ pow_last' = pow.result
  /\ UNCHANGED <<hostVars, pow, pow_full, deviceVars, cpu>>

-----------------------------------------------------------------------------
(* The kernels *)

\* Mutant: a surplus item is not sent home.
InRangeAlways(g) == TRUE

\* A surplus item's chunk would begin beyond the last block.
InRange(g) == g * chunk_blocks < num_blocks

\* What item g would take next, while it has something to take.
NextBlock(g) == g * chunk_blocks + worker[g].taken

\* Mutant: the last chunk is taken to be full.
HasNextFull(g) == worker[g].taken < chunk_blocks

HasNext(g) == worker[g].taken < chunk_blocks /\ NextBlock(g) < num_blocks

Absorb(y, j) == Times(Add(y, Term(j)), 1)

\* One turn of gcm_ghash_chunk's loop.
ChunkStep(g) ==
  /\ phase = "chunks" /\ ~worker[g].done /\ InRange(g) /\ HasNext(g)
  /\ worker' = [worker EXCEPT ![g] = [taken |-> @.taken + 1, y |-> Absorb(@.y, NextBlock(g)),
                                      done |-> FALSE]]
  /\ UNCHANGED <<hostVars, phase, powVars, chunk_hashes, reduced, final_hash, cpu>>

\* The item returns: with nothing to do, or after it has stored its hash.
ChunkDone(g) ==
  /\ phase = "chunks" /\ ~worker[g].done
  /\ \/ /\ ~InRange(g)
        /\ UNCHANGED chunk_hashes
     \/ /\ InRange(g) /\ ~HasNext(g)
        /\ chunk_hashes' = [i \in DOMAIN chunk_hashes \cup {g} |->
                              IF i = g THEN worker[g].y ELSE chunk_hashes[i]]
  /\ worker' = [worker EXCEPT ![g].done = TRUE]
  /\ UNCHANGED <<hostVars, phase, powVars, reduced, final_hash, cpu>>

\* The queue is in order: the reduction starts when every item has returned.
ReduceStart ==
  /\ phase = "chunks" /\ \A g \in 0 .. global - 1 : worker[g].done
  /\ phase' = "reduce"
  /\ UNCHANGED <<hostVars, powVars, deviceVars, cpu>>

\* One turn of gcm_ghash_reduce's loop.
ReduceStep ==
  LET power == IF reduced.i + 1 = chunk_count THEN pow_last ELSE pow_full IN
  /\ phase = "reduce" /\ reduced.i < chunk_count
  /\ reduced' = [i |-> reduced.i + 1,
                 y |-> Add(Times(reduced.y, power), chunk_hashes[reduced.i])]
  /\ UNCHANGED <<hostVars, phase, powVars, worker, chunk_hashes, final_hash, cpu>>

ReduceDone ==
  /\ phase = "reduce" /\ reduced.i = chunk_count
  /\ phase' = "done"
  /\ final_hash' = reduced.y
  /\ UNCHANGED <<hostVars, powVars, worker, chunk_hashes, reduced, cpu>>

\* One turn of the CPU library's ghash loop over the same blocks.
CpuStep ==
  /\ phase # "idle" /\ cpu.taken < num_blocks
  /\ cpu' = [taken |-> cpu.taken + 1, y |-> Absorb(cpu.y, cpu.taken)]
  /\ UNCHANGED <<hostVars, phase, powVars, deviceVars>>

-----------------------------------------------------------------------------

GhashInit ==
  /\ num_blocks = 0 /\ chunk_blocks = 1 /\ chunk_count = 0 /\ global = 0
  /\ phase = "idle"
  /\ pow = [exponent |-> 0, base |-> 1, result |-> 0] /\ pow_full = 0 /\ pow_last = 0
  /\ worker = [g \in {} |-> [taken |-> 0, y |-> Zero, done |-> TRUE]]
  /\ chunk_hashes = [i \in {} |-> Zero]
  /\ reduced = [i |-> 0, y |-> Zero] /\ final_hash = Zero
  /\ cpu = [taken |-> 0, y |-> Zero]

GhashNext ==
  \/ Begin
  \/ PowStep \/ PowFullDone \/ PowLastDone
  \/ \E g \in 0 .. global - 1 : ChunkStep(g) \/ ChunkDone(g)
  \/ ReduceStart \/ ReduceStep \/ ReduceDone
  \/ CpuStep

GhashSpec == GhashInit /\ [][GhashNext]_ghashVars

-----------------------------------------------------------------------------
(* Properties *)

GhashTypeOK ==
  /\ num_blocks \in Nat /\ chunk_blocks \in Nat \ {0}
  /\ chunk_count \in Nat /\ global \in Nat
  /\ phase \in {"idle", "pow_full", "pow_last", "chunks", "reduce", "done"}
  /\ pow \in [exponent : Nat, base : Nat, result : Nat]
  /\ pow_full \in Nat /\ pow_last \in Nat
  /\ worker \in [0 .. global - 1 ->
                   [taken : Nat, y : SUBSET (Int \X Int), done : BOOLEAN]]
  /\ reduced \in [i : Nat, y : SUBSET (Int \X Int)]
  /\ final_hash \in SUBSET (Int \X Int)
  /\ cpu \in [taken : Nat, y : SUBSET (Int \X Int)]

\* No work item stores a hash beyond the chunk_count entries the buffer was sized for,
\* though the kernel is not told the count and the NDRange is rounded up.
HashesFit == DOMAIN chunk_hashes = 0 .. chunk_count - 1

\* Each power the reduction multiplies by is as high as the chunk it shifts the hash over
\* is long, the last chunk's being from 1 to chunk_blocks blocks.
PowersMatch ==
  phase \in {"chunks", "reduce", "done"} =>
    /\ pow_full = chunk_blocks
    /\ pow_last = num_blocks - (chunk_count - 1) * chunk_blocks
    /\ pow_last \in 1 .. chunk_blocks

\* The device's hash is the CPU library's, in whatever order the work items ran, for
\* every division into chunks, and with nothing of an earlier message in it.
SameAsCpu == phase = "done" /\ cpu.taken = num_blocks => final_hash = cpu.y
=============================================================================
