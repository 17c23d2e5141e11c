---------------------------- MODULE MCLZ4Stream -----------------------------
(***************************************************************************)
(* The FAST streaming compressor with a window of 32 bytes (64 KB), a     *)
(* table of 8 slots, and a caller whose memory is a dictionary buffer at  *)
(* 16 (50 bytes: a 34-byte dictionary and a block after it), a safe       *)
(* buffer at 66 (32 bytes) and a ring buffer at 100.  MCLZ4Stream.cfg     *)
(* gives the ring room for two 14-byte blocks, so that a window spans    *)
(* blocks in prefix and external-dictionary mode and a wrapped block      *)
(* overwrites the head of the window; MCLZ4Stream_OneBlockRing.cfg gives  *)
(* it room for one, so that each block is written over the previous one. *)
(* The dictionaries and blocks are distinct bytes, short periodic runs    *)
(* and a run with one byte changed, so that window matches, stale         *)
(* entries and dictSmall rejections all occur.                            *)
(***************************************************************************)
EXTENDS LZ4Stream, LZ4Inputs

MCDicts == { Rep(<< 65, 66, 67 >>, 5), Distinct(34) }

MCBlocks == { Distinct(14), Distinct(13), Rep(<< 65, 66, 67 >>, 14), Rep(<< 67 >>, 6) }

\* blocks of one ring slot: a run over {A, B} and the same run with one byte changed
MCRingBlocks == { Rep(<< 65, 66 >>, 14), Flip(Rep(<< 65, 66 >>, 14), 7) }

\* output buffers that always fit the block
MCBoundCapacity(len) == { LZ4_compressBound(len) }

MCStreamCapacity(len) == { LZ4_compressBound(len), len \div 2 }

====
