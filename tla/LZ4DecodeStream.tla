--------------------------- MODULE LZ4DecodeStream --------------------------
(***************************************************************************)
(* The decoder stream (src/src/sanitized/lz4.c:1388-1430): a caller that   *)
(* decodes a sequence of blocks with LZ4_decompress_safe_continue into one *)
(* memory, the stream state lz4sd (prefixSize, prefixEnd, externalDict,    *)
(* extDictSize) that tells each call where the earlier output is, and      *)
(* LZ4_setStreamDecode, with which the caller points the stream at a       *)
(* dictionary or at data it has saved.                                     *)
(*                                                                         *)
(* Each call runs the safe decoder of LZ4Decode in usingExtDict mode on    *)
(* the shared memory `out`.  The ghost `hist` is the stream's history: the *)
(* dictionary, then every block decoded so far, which is the window the   *)
(* block format lets a block refer to.                                     *)
(***************************************************************************)
EXTENDS LZ4Common

CONSTANTS
    Dict,              \* the bytes of the initial dictionary, at address 0
    DictSizes,         \* the dictSize values given to LZ4_setStreamDecode
    StreamBlocks,      \* the compressed blocks a call may be given
    Dests,             \* destinations other than prefixEnd
    Caps,              \* maxOutputSize values
    SaveBuf,           \* where the caller saves the tail of the output
    SaveSizes,         \* how many bytes it saves
    MemTop,            \* the last address of the memory
    MaxCalls,          \* bound on the number of _continue calls
    ContinueAfterError \* whether the caller keeps using a stream after an error

VARIABLES
    csrc, out, dec,   \* the decoder (LZ4Decode); out is the whole memory
    sd,               \* lz4sd
    hist,             \* ghost: the bytes decoded by the stream so far
    calls             \* the number of _continue calls made

dvars == << csrc, out, dec >>
vars  == << dvars, sd, hist, calls >>

D == INSTANCE LZ4Decode WITH Blocks <- {}, DstCapacities <- {}, Dictionaries <- {}

NULL == -1

\* LZ4_setStreamDecode(lz4sd, dictionary, dictSize) (lz4.c:1388-1395)
LZ4_setStreamDecode(dictionary, dictSize) ==
    [prefixSize |-> dictSize, prefixEnd |-> dictionary + dictSize,
     externalDict |-> NULL, extDictSize |-> 0]

Region(start, size) == start .. (start + size - 1)

\* The call writes at lz4sd->prefixEnd: the prefix is in front of dest
PrefixMode(dest) == sd.prefixEnd = dest

\* (mutant) externalDict computed before extDictSize is assigned
CallDictStaleSize(dest) ==
    IF PrefixMode(dest) THEN [start |-> sd.externalDict, size |-> sd.extDictSize]
    ELSE [start |-> sd.prefixEnd - sd.extDictSize, size |-> sd.prefixSize]

\* The dictionary and lowPrefix the call passes to LZ4_decompress_generic;
\* in the else branch lz4sd->externalDict and extDictSize are set first.
CallDict(dest) ==
    IF PrefixMode(dest) THEN [start |-> sd.externalDict, size |-> sd.extDictSize]
    ELSE [start |-> sd.prefixEnd - sd.prefixSize, size |-> sd.prefixSize]
CallLowPrefix(dest) ==
    IF PrefixMode(dest) THEN sd.prefixEnd - sd.prefixSize ELSE dest

\* "Previously decoded blocks must still be available at the memory
\* position where they were decoded" (lz4.c:1400): the output region of a
\* call does not overlap the window the call reads.
WindowAddrs(dest) ==
    Region(CallDict(dest).start, CallDict(dest).size)
      \cup CallLowPrefix(dest) .. (dest - 1)

Init ==
    \E k \in DictSizes :
        /\ out = [a \in 0 .. MemTop |-> IF a < k THEN Dict[a + 1] ELSE 0]
        /\ sd = LZ4_setStreamDecode(0, k)
        /\ hist = SubSeq(Dict, 1, k)
        /\ csrc = << >>
        /\ dec = [D!InitialDec(0, 0) EXCEPT !.pc = "idle"]
        /\ calls = 0

(***************************************************************************)
(* LZ4_decompress_safe_continue(lz4sd, source, dest, compressedSize,       *)
(* maxOutputSize) up to the call of LZ4_decompress_generic (lz4.c:1406-    *)
(* 1425): at prefixEnd the prefix and the external dictionary are passed  *)
(* on; elsewhere the prefix becomes the external dictionary first.        *)
(***************************************************************************)
DecompressSafeContinue(b, dest, cap) ==
    LET dict == CallDict(dest)
    IN  /\ dec.pc = "idle"
        /\ calls < MaxCalls
        /\ Region(dest, cap) \cap WindowAddrs(dest) = {}
        /\ dest + cap <= MemTop + 1
        /\ csrc' = [i \in 0 .. (Len(b) - 1) |-> b[i + 1]]
        /\ sd' = IF PrefixMode(dest) THEN sd
                 ELSE [sd EXCEPT !.extDictSize = dict.size, !.externalDict = dict.start]
        /\ dec' = D!InitialDecAt(Len(b), dest, cap, CallLowPrefix(dest),
                                 dict.start, dict.size, TRUE, hist)
        /\ calls' = calls + 1
        /\ UNCHANGED << out, hist >>

\* (mutant) the error return dropped
ReturnsErrorNever(result) == FALSE

\* if (result <= 0) return result; (lz4.c:1413, 1423)
ReturnsError(result) == result <= 0

\* (mutant) the else branch adds result to the old prefix, like the first
StreamUpdateAccumulates(dest, result) ==
    [sd EXCEPT !.prefixSize = @ + result, !.prefixEnd = dest + result]

\* The prefix grows by result, or becomes the block just decoded
\* (lz4.c:1414-1415, 1424-1425).
StreamUpdate(dest, result) ==
    IF sd.prefixEnd = dest
    THEN [sd EXCEPT !.prefixSize = @ + result, !.prefixEnd = @ + result]
    ELSE [sd EXCEPT !.prefixSize = result, !.prefixEnd = dest + result]

(* After LZ4_decompress_generic returns (lz4.c:1413-1429).                *)
ContinueReturn ==
    /\ dec.pc = "done"
    /\ IF ReturnsError(dec.result)
       THEN /\ sd' = sd /\ hist' = hist
            /\ dec' = [dec EXCEPT !.pc = IF ContinueAfterError THEN "idle" ELSE "failed"]
       ELSE /\ sd' = StreamUpdate(dec.dst, dec.result)
            /\ hist' = dec.ref
            /\ dec' = [dec EXCEPT !.pc = "idle"]
    /\ UNCHANGED << csrc, out, calls >>

(* The caller copies the last k bytes of the output to SaveBuf and calls  *)
(* LZ4_setStreamDecode(lz4sd, SaveBuf, k), as lz4.c:1401-1402 tells it    *)
(* to; this is also how it starts again after an error.                   *)
SaveAndSetStreamDecode(k) ==
    /\ dec.pc \in {"idle", "failed"}
    /\ k <= sd.prefixSize
    /\ out' = CopyBytes(out, SaveBuf, out, sd.prefixEnd - k, k)
    /\ sd' = LZ4_setStreamDecode(SaveBuf, k)
    /\ dec' = [dec EXCEPT !.pc = "idle"]
    /\ UNCHANGED << csrc, hist, calls >>

Next ==
    \/ \E b \in StreamBlocks, dest \in Dests \cup {sd.prefixEnd}, cap \in Caps :
           DecompressSafeContinue(b, dest, cap)
    \/ D!Next /\ UNCHANGED << sd, hist, calls >>
    \/ ContinueReturn
    \/ \E k \in SaveSizes : SaveAndSetStreamDecode(k)

Spec == Init /\ [][Next]_vars /\ WF_vars(Next)

(***************************************************************************)
(* Properties                                                              *)
(***************************************************************************)
TypeOK ==
    /\ dec.pc \in {"idle", "failed", "start", "loop", "lits", "offset", "match",
                   "wild", "bytes", "done"}
    /\ sd.prefixSize \in Nat /\ sd.extDictSize \in Nat
    /\ hist \in Seq(0 .. 255)
    /\ calls \in 0 .. MaxCalls

(* Every byte a _continue call has produced is the byte the block format  *)
(* defines against the stream's history: offsets that reach into the      *)
(* prefix, across lowPrefix into the external dictionary, or across the   *)
(* dictionary's end back into the prefix (the memmove, memcpy and byte    *)
(* loop of lz4.c:1285-1302) resolve to the right earlier byte, in every   *)
(* order of prefix-mode calls, external-dictionary calls and               *)
(* LZ4_setStreamDecode.                                                   *)
StreamDecodedExact == D!DecodedPrefixExact

(* Between calls, lz4sd describes the stream's history: the prefixSize    *)
(* bytes before prefixEnd are its last bytes, and the extDictSize bytes   *)
(* at externalDict are the ones just before them.                         *)
WindowHoldsHistory ==
    dec.pc = "idle" =>
        LET p == sd.prefixSize
            e == sd.extDictSize
            h == Len(hist)
        IN  /\ p + e <= h
            /\ \A i \in 1 .. p : out[sd.prefixEnd - p + i - 1] = hist[h - p + i]
            /\ \A i \in 1 .. e : out[sd.externalDict + i - 1] = hist[h - p - e + i]

=============================================================================
