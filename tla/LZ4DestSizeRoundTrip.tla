------------------------ MODULE LZ4DestSizeRoundTrip ------------------------
(***************************************************************************)
(* LZ4_compress_destSize (LZ4DestSize) composed with the safe decoder     *)
(* (LZ4Decode): the block it returns is given to LZ4_decompress_safe with *)
(* maxDecompressedSize = *srcSizePtr, the consumed size the caller gets   *)
(* back, as spec.md (section 8, property 7) states the contract.          *)
(***************************************************************************)
EXTENDS Integers, Sequences

CONSTANTS Inputs, Targets(_), HashLog

VARIABLES src, dst, hashTable, ds, written,   \* the encoder
          csrc, out, dec                       \* the decoder

svars == << src, dst, hashTable, ds, written >>
dvars == << csrc, out, dec >>
vars  == << svars, dvars >>

E == INSTANCE LZ4DestSize
D == INSTANCE LZ4Decode WITH Blocks <- {}, DstCapacities <- {}, Dictionaries <- {}

Init ==
    /\ E!Init
    /\ csrc = << >> /\ out = << >>
    /\ dec = [D!InitialDec(0, 0) EXCEPT !.pc = "idle"]

\* LZ4_decompress_safe(dst, regenerated, result, *srcSizePtr)
Handoff ==
    /\ ds.pc = "done" /\ ds.result > 0
    /\ dec.pc = "idle"
    /\ csrc' = [i \in 0 .. (ds.result - 1) |-> dst[i]]
    /\ out' = D!OutBuffer(ds.consumed)
    /\ dec' = D!InitialDec(ds.result, ds.consumed)
    /\ UNCHANGED svars

Next ==
    \/ E!Next /\ UNCHANGED dvars
    \/ Handoff
    \/ D!Next /\ UNCHANGED svars

Spec == Init /\ [][Next]_vars /\ WF_vars(Next)

TypeOK == E!TypeOK /\ (dec.pc # "idle" => D!TypeOK)

(* LZ4_compress_destSize writes no byte at or past targetDstSize: not    *)
(* the literal wild-copy overrun, the offset, the match-length field nor  *)
(* the last run trimmed to fill dst.                                      *)
DestSizeWritesWithinTarget == E!DestSizeWritesWithinTarget

(* The block LZ4_compress_destSize returns fits targetDstSize and          *)
(* decodes, with the safe decoder and the consumed size as capacity, to   *)
(* exactly the consumed prefix of the input: the trimmed last run and the *)
(* reduced match length still satisfy the decoder's MFLIMIT and           *)
(* LASTLITERALS tests.                                                     *)
DestSizeRoundTrip ==
    dec.pc = "done" =>
        /\ ds.result <= ds.target
        /\ dec.result = ds.consumed
        /\ \A i \in 0 .. (ds.consumed - 1) : out[i] = src[i]

=============================================================================
