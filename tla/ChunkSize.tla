----------------------------- MODULE ChunkSize -----------------------------
(* parse_chunk_size: how many bytes the file loops read at a time.         *)
EXTENDS Bytes

CONSTANTS
  ChunkWishes,   \* values of CRYPTO_CTR_CHUNK_BYTES
  MinChunk       \* the smallest chunk: 4096 in the code

ASSUME ChunkAssumption ==
  ChunkWishes \subseteq Nat /\ MinChunk \in Nat /\ MinChunk >= BlockBytes

\* Mutant: no smallest chunk.
ParseChunkAny(wish) == FullLen(wish)

\* Mutant: the chunk need not be a whole number of blocks.
ParseChunkOdd(wish) == IF wish < MinChunk THEN MinChunk ELSE wish

ParseChunk(wish) == FullLen(IF wish < MinChunk THEN MinChunk ELSE wish)
=============================================================================
