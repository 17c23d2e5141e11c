--------------------------- MODULE MCLZ4RoundTrip --------------------------
(***************************************************************************)
(* The encoder and the safe decoder composed, on the input families of     *)
(* LZ4Inputs, with accelerations 0 (taken as 1, the default) and 2.       *)
(***************************************************************************)
EXTENDS LZ4RoundTrip, LZ4Inputs

MCAccelerations == {0, 2}

=============================================================================
