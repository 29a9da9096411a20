-------------------------- MODULE MCChunkTransfer --------------------------
(***************************************************************************)
(* ChunkTransfer for TLC.  SmallFrames has packets shorter than, equal to, *)
(* one byte past and several times a ChunkSize of 2.                       *)
(***************************************************************************)
EXTENDS ChunkTransfer

SmallFrames == UNION {[1..n -> Byte] : n \in 1..5}
=============================================================================
