---------------------------- MODULE LZ4HCRoundTrip --------------------------
(***************************************************************************)
(* The HC block encoder (LZ4HC) composed with the safe decoder            *)
(* (LZ4Decode): the result bytes of dst are given to LZ4_decompress_safe  *)
(* with maxDecompressedSize = *srcSizePtr, which is srcSize for            *)
(* LZ4_compress_HC and the consumed size for LZ4_compress_HC_destSize.    *)
(***************************************************************************)
EXTENDS Integers, Sequences

CONSTANTS Inputs, OutCapacity(_), Levels, HCHashLog

VARIABLES src, dst, hashTable, chainTable, nextToUpdate, hc, written,  \* the encoder
          csrc, out, dec                                               \* the decoder

hvars == << src, dst, hashTable, chainTable, nextToUpdate, hc, written >>
dvars == << csrc, out, dec >>
vars  == << hvars, dvars >>

H == INSTANCE LZ4HC
D == INSTANCE LZ4Decode WITH Blocks <- {}, DstCapacities <- {}, Dictionaries <- {}

Init ==
    /\ H!Init
    /\ csrc = << >> /\ out = << >>
    /\ dec = [D!InitialDec(0, 0) EXCEPT !.pc = "idle"]

\* LZ4_decompress_safe(dst, regenerated, result, *srcSizePtr)
Handoff ==
    /\ hc.pc = "done" /\ hc.result > 0
    /\ dec.pc = "idle"
    /\ csrc' = [i \in 0 .. (hc.result - 1) |-> dst[i]]
    /\ out' = D!OutBuffer(hc.srcSize)
    /\ dec' = D!InitialDec(hc.result, hc.srcSize)
    /\ UNCHANGED hvars

Next ==
    \/ H!Next /\ UNCHANGED dvars
    \/ Handoff
    \/ D!Next /\ UNCHANGED hvars

Spec == Init /\ [][Next]_vars /\ WF_vars(Next)

TypeOK == H!TypeOK /\ (dec.pc # "idle" => D!TypeOK)

(* A block the HC encoder produced, in any of its three output modes,     *)
(* fits dstCapacity and decodes with the safe decoder to exactly the      *)
(* *srcSizePtr bytes it reports consumed, all of the input for            *)
(* LZ4_compress_HC: the matches the chain walk chose (backward extensions, *)
(* the OPTIMAL_ML cuts, ML2 clipped to ML1's end), the length fields,     *)
(* the offsets and the last run trimmed by fillOutput.                    *)
HCRoundTrip ==
    dec.pc = "done" =>
        /\ hc.result <= hc.cap
        /\ hc.limit # "fillOutput" => hc.srcSize = hc.inputSize
        /\ dec.result = hc.srcSize
        /\ \A i \in 0 .. (hc.srcSize - 1) : out[i] = src[i]

(* The encoder's own properties, checked on the composed run (LZ4HC):    *)
(* every byte written lies within dstCapacity (or compressBound when the  *)
(* output is not limited); the hash and chain tables link exactly the    *)
(* inserted positions of equal hash; and every step of the hash-chain    *)
(* parser makes progress on the variant that bounds its loop.            *)
HCWritesWithinCapacity == H!HCWritesWithinCapacity
HashChainsExact        == H!HashChainsExact
ParseAdvances          == H!ParseAdvances

=============================================================================
