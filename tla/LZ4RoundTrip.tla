---------------------------- MODULE LZ4RoundTrip ---------------------------
(***************************************************************************)
(* The FAST block encoder composed with the safe decoder: an input block   *)
(* is compressed by LZ4_compress_fast_extState (LZ4Compress); when that    *)
(* succeeds, the result[0 .. r-1] bytes of dest are given to               *)
(* LZ4_decompress_safe with maxDecompressedSize = inputSize (LZ4Decode),   *)
(* the call sequence of a caller that stores the block and its size.      *)
(***************************************************************************)
EXTENDS Integers, Sequences

CONSTANTS Inputs, OutCapacity(_), Accelerations, HashLog

VARIABLES src, dst, hashTable, enc, written,   \* the encoder
          csrc, out, dec                        \* the decoder

cvars == << src, dst, hashTable, enc, written >>
dvars == << csrc, out, dec >>
vars  == << cvars, dvars >>

C == INSTANCE LZ4Compress
D == INSTANCE LZ4Decode WITH Blocks <- {}, DstCapacities <- {}, Dictionaries <- {}

\* the decoder is idle until the compressed block is handed over
Init ==
    /\ C!Init
    /\ csrc = << >> /\ out = << >>
    /\ dec = [D!InitialDec(0, 0) EXCEPT !.pc = "idle"]

\* LZ4_decompress_safe(dest, regenerated, result, inputSize)
Handoff ==
    /\ enc.pc = "done" /\ enc.result > 0
    /\ dec.pc = "idle"
    /\ csrc' = [i \in 0 .. (enc.result - 1) |-> dst[i]]
    /\ out' = D!OutBuffer(enc.inputSize)
    /\ dec' = D!InitialDec(enc.result, enc.inputSize)
    /\ UNCHANGED cvars

Next ==
    \/ C!Next /\ UNCHANGED dvars
    \/ Handoff
    \/ D!Next /\ UNCHANGED cvars

Spec == Init /\ [][Next]_vars /\ WF_vars(Next)

TypeOK == C!TypeOK /\ (dec.pc # "idle" => D!TypeOK)

(* Whatever the input and the capacity, a block the encoder produced       *)
(* decodes, with the safe decoder, to exactly the input: the decoder       *)
(* returns inputSize and the regenerated bytes equal the source.  This     *)
(* covers the token nibbles, both length extensions, the offsets, the      *)
(* last-literals and MFLIMIT rules the encoder must respect for the        *)
(* decoder's end-of-block tests to accept the block.                       *)
RoundTrip ==
    dec.pc = "done" =>
        /\ dec.result = enc.inputSize
        /\ \A i \in 0 .. (enc.inputSize - 1) : out[i] = src[i]

(* The encoder's own bound, checked on the composed runs: every byte it  *)
(* writes, wild-copy overruns and match-length LZ4_write32s included, is  *)
(* below maxOutputSize in limitedOutput mode and below compressBound     *)
(* otherwise (LZ4Compress).                                               *)
EncoderWritesWithinCapacity == C!EncoderWritesWithinCapacity

(* Every compression ends, and every block it produced is decoded.         *)
RoundTripCompletes ==
    <>(dec.pc = "done" \/ (enc.pc = "done" /\ enc.result = 0))

=============================================================================
