---------------------------- MODULE MCChunkBytes ----------------------------
(* ChunkBytes on three nodes, numbered because repair prefers the lowest id. *)
EXTENDS ChunkBytes

MCNode == 1..3
=============================================================================
