--------------------------- MODULE MCGhashChunks ---------------------------
(***************************************************************************)
(* Messages of up to six blocks in chunks of one to three: one chunk or    *)
(* several, the last of them full, short or a single block; work groups    *)
(* that divide the number of items, or leave surplus items.                *)
(***************************************************************************)
EXTENDS GhashChunks

SmallChunks == 1 .. 3
WorkGroups  == {1, 2, 4}
=============================================================================
