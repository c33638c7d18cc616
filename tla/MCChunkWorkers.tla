--------------------------- MODULE MCChunkWorkers ---------------------------
(* Instances of ChunkWorkers for TLC.                                       *)
EXTENDS ChunkWorkers
=============================================================================
