---------------------------- MODULE MCLZ4HCStream ----------------------------
(***************************************************************************)
(* The HC streaming compressor with 64 KB scaled to 16 bytes, 1 GB to 32   *)
(* and 2 GB to 40, so that a third 14-byte block in a row passes the       *)
(* overflow threshold and a fast reset after one block keeps the tables    *)
(* while one after two clears them.  The caller's memory is a dictionary   *)
(* buffer at 16 (a 20-byte dictionary, clamped to its last 16 bytes, and a *)
(* block after it), a safe buffer at 60 and a ring of 27 bytes at 100: a   *)
(* 14-byte block after a 7-byte one does not fit before the ring's end,    *)
(* so it is written over the first block and the overlap trim cuts the     *)
(* external dictionary, down to nothing when fewer than 4 bytes remain.   *)
(* The blocks are 14 distinct bytes, the same with byte 7 changed, and     *)
(* their first 7 bytes, which share 4 bytes with the dictionary, and a     *)
(* run of 9 bytes A: the dictionary ends with 8 bytes A, so that at level  *)
(* 10 pattern analysis measures the run across the boundary between the   *)
(* external dictionary and the prefix, both forward and backward.  Level 4 *)
(* is the hash-chain parser, level 10 the optimal one.                     *)
(***************************************************************************)
EXTENDS LZ4HCStream, LZ4Inputs

\* 12 distinct bytes, then a run of A that a block's run continues
MCDicts == { Distinct(12) \o Rep(<< 65 >>, 8) }

MCBlocks == { Distinct(14), Flip(Distinct(14), 7), Distinct(7), Rep(<< 65 >>, 9) \o Distinct(5) }

\* an unlimited output, and one of 8 bytes, on which limitedOutput fails
MCHCStreamCapacity(len) == { LZ4_compressBound(len), 8 }

\* destSize targets that take the whole block
MCWholeTargets(len) == { LZ4_compressBound(len) }

\* a destSize target on which the block is consumed in part
MCPartTargets(len) == { 8 }

====
