--------------------------- MODULE MCLZ4DestSize ---------------------------
(***************************************************************************)
(* LZ4_compress_destSize on the input families of LZ4Inputs, with every   *)
(* target from 1 below compressBound down to 0.                            *)
(***************************************************************************)
EXTENDS LZ4DestSizeRoundTrip, LZ4Inputs

MCTargets(len) == 0 .. (LZ4_compressBound(len) - 1)

=============================================================================
