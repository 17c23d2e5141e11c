----------------------------- MODULE LZ4HCStream -----------------------------
(***************************************************************************)
(* The HC streaming compressor of src/src/sanitized/lz4hc.c:               *)
(* LZ4_resetStreamHC, LZ4_resetStreamHC_fast, LZ4_loadDictHC,              *)
(* LZ4_compress_HC_continue and LZ4_compress_HC_continue_destSize (through *)
(* LZ4_compressHC_continue_generic, LZ4HC_setExternalDict and             *)
(* LZ4HC_compress_generic_internal) and LZ4_saveDictHC, driven by a caller *)
(* that keeps its blocks in a ring buffer, may load a dictionary from its  *)
(* own buffer and may save the window to a safe buffer.                    *)
(*                                                                         *)
(* The stream calls are atomic steps; the compression inside a continue   *)
(* call is the parser of LZ4HC the level selects (LZ4HC_compress_hashChain *)
(* or LZ4HC_compress_optimal), instantiated over the caller's memory and   *)
(* the stream's tables, and stepped label by label between the call's     *)
(* setup (CompressContinue) and its return (Return).                      *)
(*                                                                         *)
(* Pointers are integer addresses of the caller's memory `src`; NULL is 0, *)
(* and the end pointer -1 of LZ4_initStreamHC is -1, so that end - base  *)
(* negative exactly when the unsigned difference of the code wraps to a    *)
(* value above every threshold.  The constants 64 KB, 1 GB and 2 GB of the *)
(* stream functions are parameters, so that clamps, table clears and the  *)
(* overflow reload occur on blocks of a few bytes; LZ4_DISTANCE_MAX and    *)
(* the 16-bit chain slots stay as in the code.                             *)
(***************************************************************************)
EXTENDS LZ4Common

CONSTANTS
    KB64,            \* 64 KB: dictionary clamps, LZ4HC_init_internal's offset
    GB1,             \* 1 GB: LZ4HC_init_internal clears the tables past it
    GB2,             \* 2 GB: LZ4_compressHC_continue_generic reloads past it
    HCHashLog,       \* LZ4HC_HASH_LOG
    IdxCap,          \* bound on the indices the model's chain table holds
    SafeStart, SafeCap,  \* the caller's safeBuffer for LZ4_saveDictHC
    DictStart, DictCap,  \* the caller's buffer holding a dictionary
    RingStart, RingCap,  \* the caller's ring buffer of input blocks
    Dicts,           \* the dictionaries the caller loads
    BlockInputs,     \* the input blocks the caller compresses
    OutCapacity(_),  \* the dstCapacity values of LZ4_compress_HC_continue
    DestSizeTargets(_),  \* the targetDestSize values of _continue_destSize
    Levels,          \* compression levels, 1 .. 12
    SaveSizes,       \* the dictSize arguments of LZ4_saveDictHC
    MaxCalls         \* bound on the number of stream calls

VARIABLES
    src, dst, hashTable, chainTable, nextToUpdate, hc, written,  \* as in LZ4HC
    ctx,      \* LZ4HC_CCtx_internal: base, end, dictBase, dictLimit, lowLimit, dirty, level
    hist,     \* the stream's bytes since the last reset or load, as a decoder holds them
    win,      \* the decoder's history when the current call began
    phase,    \* "idle", or where a continue call is: its setup steps, "compress"
    ringPos,  \* where the caller writes its next block in the ring
    calls     \* the number of stream calls made

vars == << src, dst, hashTable, chainTable, nextToUpdate, hc, written,
          ctx, hist, win, phase, ringPos, calls >>

H == INSTANCE LZ4HC WITH Inputs <- BlockInputs

NULL == 0
LZ4HC_CLEVEL_DEFAULT == 9
LZ4HC_CLEVEL_MAX == 12

Addrs == (SafeStart .. (SafeStart + SafeCap - 1)) \cup (DictStart .. (DictStart + DictCap - 1))
           \cup (RingStart .. (RingStart + RingCap - 1))

Min2(a, b) == IF a < b THEN a ELSE b

\* the last k bytes of s
LastBytes(s, k) == IF Len(s) <= k THEN s ELSE SubSeq(s, Len(s) - k + 1, Len(s))

\* (uptrval)(end - base); a negative value is one that wrapped
EndIdx(c) == c.end - c.base
Past(c, limit) == EndIdx(c) < 0 \/ EndIdx(c) > limit

\* LZ4HC_clearTables (lz4hc.c:93-97)
ClearedHT == [h \in H!HashSlots |-> 0]
ClearedCT == [i \in 0 .. IdxCap |-> 65535]

(***************************************************************************)
(* The stream functions below act on s = [c, ht, ct, next]: the context,   *)
(* hashTable, chainTable and nextToUpdate.                                 *)
(***************************************************************************)
\* LZ4_initStreamHC (lz4hc.c:968-990): end = -1, base = NULL
InitStreamHC(c) == [c EXCEPT !.end = -1, !.base = NULL, !.dirty = 0, !.level = LZ4HC_CLEVEL_DEFAULT]

\* LZ4_setCompressionLevel (lz4hc.c:1012-1018)
SetCompressionLevel(c, l) ==
    [c EXCEPT !.level = IF l < 1 THEN LZ4HC_CLEVEL_DEFAULT ELSE Min2(l, LZ4HC_CLEVEL_MAX)]

\* LZ4HC_init_internal(hc4, start) (lz4hc.c:99-115)
InitInternal(s, start) ==
    LET clear == Past(s.c, GB1)
        off   == (IF clear THEN 0 ELSE EndIdx(s.c)) + KB64
    IN  [s EXCEPT !.ht = IF clear THEN ClearedHT ELSE @,
                  !.ct = IF clear THEN ClearedCT ELSE @,
                  !.next = off,
                  !.c = [@ EXCEPT !.base = start - off, !.end = start,
                                  !.dictBase = start - off, !.dictLimit = off, !.lowLimit = off]]

\* LZ4HC_Insert(hc4, ip) on the memory m (lz4hc.c:117-135)
Insert(s, m, ip) ==
    LET r == H!InsertFrom(m, s.ht, s.ct, s.c.base, s.next, ip - s.c.base)
    IN  [s EXCEPT !.ht = r.ht, !.ct = r.ct, !.next = ip - s.c.base]

\* LZ4_loadDictHC(stream, dictionary, dictSize) (lz4hc.c:1027-1046)
LoadDictHC(s, m, dictionary, dictSize) ==
    LET d  == IF dictSize > KB64 THEN dictionary + dictSize - KB64 ELSE dictionary
        k  == Min2(dictSize, KB64)
        s1 == InitInternal([s EXCEPT !.c = SetCompressionLevel(InitStreamHC(@), s.c.level)], d)
        s2 == [s1 EXCEPT !.c.end = d + k]
    IN  IF k >= 4 THEN Insert(s2, m, s2.c.end - 3) ELSE s2

\* LZ4HC_setExternalDict(ctx, newBlock) (lz4hc.c:1054-1070)
SetExternalDict(s, m, newBlock) ==
    LET s1 == IF s.c.end >= s.c.base + s.c.dictLimit + 4 THEN Insert(s, m, s.c.end - 3) ELSE s
        dl == EndIdx(s1.c)
    IN  [s1 EXCEPT !.c.lowLimit = s1.c.dictLimit, !.c.dictLimit = dl, !.c.dictBase = s1.c.base,
                   !.c.base = newBlock - dl, !.c.end = newBlock, !.next = dl]

\* Check overflow (lz4hc.c:1082-1087): reload the last 64 KB of the prefix
Reload(s, m) ==
    IF EndIdx(s.c) > GB2
    THEN LET dictSize == Min2(EndIdx(s.c) - s.c.dictLimit, KB64)
         IN  LoadDictHC(s, m, s.c.end - dictSize, dictSize)
    ELSE s

\* (mutant) the whole dictionary kept when the new block overlaps it
TrimOverlapKeepsDict(s, source, size) == s

\* Check overlapping input/dictionary space (lz4hc.c:1093-1101)
TrimOverlap(s, source, size) ==
    LET sourceEnd == source + size
        dictBegin == s.c.dictBase + s.c.lowLimit
        dictEnd   == s.c.dictBase + s.c.dictLimit
        low       == Min2(sourceEnd, dictEnd) - s.c.dictBase
    IN  IF sourceEnd > dictBegin /\ source < dictEnd
        THEN [s EXCEPT !.c.lowLimit = IF s.c.dictLimit - low < 4 THEN s.c.dictLimit ELSE low]
        ELSE s

(***************************************************************************)
(* Where the caller writes a block: "ring" at its next ring position, or   *)
(* at the ring's start when the block does not fit before its end;        *)
(* "follow" right after the window's end when that is in the dictionary   *)
(* or the safe buffer and the block fits there.  0: no room.               *)
(***************************************************************************)
Placements == {"ring", "follow"}
Place(pl, size) ==
    LET fits(start, capa) == ctx.end \in (start + 1) .. (start + capa) /\ ctx.end + size <= start + capa
    IN  CASE pl = "ring" -> IF ringPos + size <= RingStart + RingCap THEN ringPos ELSE RingStart
          [] ctx.base # NULL /\ (fits(SafeStart, SafeCap) \/ fits(DictStart, DictCap)) -> ctx.end
          [] OTHER -> 0

Tables == [c |-> ctx, ht |-> hashTable, ct |-> chainTable, next |-> nextToUpdate]
SetTables(s) == /\ ctx' = s.c /\ hashTable' = s.ht /\ chainTable' = s.ct /\ nextToUpdate' = s.next

Phases == {"idle", "autoInit", "overflow", "follow", "overlap", "compress"}

StreamVars == << ctx, hist, win, phase, ringPos, calls >>
CallVars == << dst, hc, written >>

\* LZ4_createStreamHC, then LZ4_setCompressionLevel (lz4hc.c:951-957); the
\* tables are not read before the first LZ4HC_init_internal clears them
Init ==
    /\ src = [a \in Addrs |-> 0]
    /\ hashTable = ClearedHT /\ chainTable = ClearedCT /\ nextToUpdate = 0
    /\ \E level \in Levels :
         ctx = SetCompressionLevel(InitStreamHC([base |-> 0, end |-> 0, dictBase |-> 0,
                                    dictLimit |-> 0, lowLimit |-> 0, dirty |-> 0, level |-> 0]), level)
    /\ hc = [H!CallLocals(ctx, 0, 0, 0, 1, "notLimited") EXCEPT !.pc = "done"]
    /\ dst = << >> /\ written = 0
    /\ hist = << >> /\ win = << >> /\ phase = "idle"
    /\ ringPos = RingStart /\ calls = 0

\* LZ4_resetStreamHC(stream, level) (lz4hc.c:992-996); the decoder starts anew
ResetStreamHC ==
    /\ phase = "idle" /\ calls < MaxCalls
    /\ \E level \in Levels : ctx' = SetCompressionLevel(InitStreamHC(ctx), level)
    /\ hist' = << >>
    /\ calls' = calls + 1
    /\ UNCHANGED << src, hashTable, chainTable, nextToUpdate, win, phase, ringPos, CallVars >>

\* (mutant) end rebased to an index, base left as it was
FastResetKeepsBase(c) ==
    IF c.dirty # 0 THEN InitStreamHC(c) ELSE [c EXCEPT !.end = @ - c.base]

\* LZ4_resetStreamHC_fast's context (lz4hc.c:1000-1008): a dirty stream is
\* fully reset; otherwise end becomes the index end - base and base NULL
FastReset(c) ==
    IF c.dirty # 0 THEN InitStreamHC(c) ELSE [c EXCEPT !.end = @ - c.base, !.base = NULL]

\* LZ4_resetStreamHC_fast(stream, level) (lz4hc.c:998-1010)
ResetStreamHCFast ==
    /\ phase = "idle" /\ calls < MaxCalls
    /\ \E level \in Levels : ctx' = SetCompressionLevel(FastReset(ctx), level)
    /\ hist' = << >>
    /\ calls' = calls + 1
    /\ UNCHANGED << src, hashTable, chainTable, nextToUpdate, win, phase, ringPos, CallVars >>

(* The caller copies a dictionary d to its buffer and calls              *)
(* LZ4_loadDictHC(stream, buffer, |d|); the decoder is given d.           *)
LoadDict ==
    /\ phase = "idle" /\ calls < MaxCalls
    /\ \E d \in Dicts :
         LET m == Store(src, DictStart, d)
         IN  /\ src' = m
             /\ SetTables(LoadDictHC(Tables, m, DictStart, Len(d)))
             /\ hist' = d
    /\ calls' = calls + 1
    /\ UNCHANGED << win, phase, ringPos, CallVars >>

(***************************************************************************)
(* The caller writes a block b where Place puts it and calls              *)
(* LZ4_compress_HC_continue (lz4hc.c:1109-1115), which takes limitedOutput *)
(* when dstCapacity < LZ4_compressBound(srcSize), or _continue_destSize   *)
(* (1117-1121), which takes fillOutput.  hc holds the arguments until the *)
(* setup of LZ4_compressHC_continue_generic (1079-1103) is done, one step *)
(* per check.                                                             *)
(***************************************************************************)
CompressContinue ==
    /\ phase = "idle" /\ calls < MaxCalls
    /\ \E b \in BlockInputs, pl \in Placements, entry \in {"HC", "destSize"} :
       \E cap \in IF entry = "HC" THEN OutCapacity(Len(b)) ELSE DestSizeTargets(Len(b)) :
       LET source == Place(pl, Len(b))
       IN  /\ source # 0
           /\ src' = Store(src, source, b)
           /\ hc' = [H!CallLocals(ctx, source, Len(b), cap, ctx.level,
                                  H!LimitOf(entry, cap, Len(b))) EXCEPT !.pc = "setup"]
           /\ dst' = [i \in H!DstSpan(Len(b), cap) |-> 0]
           /\ ringPos' = IF pl = "ring" THEN source + Len(b) ELSE ringPos
    /\ written' = 0
    /\ win' = hist
    /\ phase' = "autoInit"
    /\ calls' = calls + 1
    /\ UNCHANGED << hashTable, chainTable, nextToUpdate, ctx, hist >>

\* a setup step from one check to the next, leaving the tables as s says
SetupStep(from, to, s) ==
    /\ phase = from
    /\ SetTables(s)
    /\ phase' = to
    /\ UNCHANGED << src, hc, dst, written, hist, win, ringPos, calls >>

\* auto-init if forgotten (lz4hc.c:1079)
AutoInit ==
    SetupStep("autoInit", "overflow",
              IF ctx.base = NULL THEN InitInternal(Tables, hc.source) ELSE Tables)

\* Check overflow (lz4hc.c:1082-1087)
CheckOverflow == SetupStep("overflow", "follow", Reload(Tables, src))

\* Check if blocks follow each other (lz4hc.c:1089-1091)
CheckFollow ==
    SetupStep("follow", "overlap",
              IF hc.source # ctx.end THEN SetExternalDict(Tables, src, hc.source) ELSE Tables)

(* Check overlapping input/dictionary space (lz4hc.c:1093-1101), then      *)
(* LZ4HC_compress_generic_internal (793-796) up to the parser: its        *)
(* fillOutput early return, `ctx->end += *srcSizePtr`, the level's        *)
(* nbSearches, and the context's pointers as the parser reads them.       *)
CheckOverlap ==
    /\ phase = "overlap"
    /\ LET s     == TrimOverlap(Tables, hc.source, hc.inputSize)
           early == hc.limit = "fillOutput" /\ hc.cap < 1
       IN  /\ SetTables([s EXCEPT !.c.end = IF early THEN @ ELSE @ + hc.inputSize])
           /\ hc' = H!CallLocals(s.c, hc.source, hc.inputSize, hc.cap, s.c.level, hc.limit)
    /\ phase' = "compress"
    /\ UNCHANGED << src, dst, written, hist, win, ringPos, calls >>

\* one step of the level's parser (LZ4HC_compress_hashChain or
\* LZ4HC_compress_optimal) on the stream's tables
Parse ==
    /\ phase = "compress"
    /\ H!Next
    /\ UNCHANGED StreamVars

(* LZ4HC_compress_generic_internal's return (lz4hc.c:814-816): dirty when *)
(* the result is not positive.  The decoder receives the bytes the block  *)
(* consumed, or the whole input, sent raw, when the result is 0.          *)
Return ==
    /\ phase = "compress" /\ hc.pc = "done"
    /\ ctx' = [ctx EXCEPT !.dirty = IF hc.result <= 0 /\ ~(hc.limit = "fillOutput" /\ hc.cap < 1)
                                     THEN 1 ELSE @]
    /\ hist' = hist \o Bytes(src, hc.source, IF hc.result > 0 THEN hc.srcSize ELSE hc.inputSize)
    /\ phase' = "idle"
    /\ UNCHANGED << src, hashTable, chainTable, nextToUpdate, win, ringPos, calls, CallVars >>

\* (mutant) the dictionary size not clamped to the prefix
SavedSizeNoPrefixClamp(k, prefixSize) ==
    LET k1 == IF k > KB64 THEN KB64 ELSE k
    IN  IF k1 < 4 THEN 0 ELSE k1
\* LZ4_saveDictHC's dictSize (lz4hc.c:1130-1133)
SavedSize(k, prefixSize) ==
    LET k1 == IF k > KB64 THEN KB64 ELSE k
        k2 == IF k1 < 4 THEN 0 ELSE k1
    IN  IF k2 > prefixSize THEN prefixSize ELSE k2

(* LZ4_saveDictHC(stream, safeBuffer, k) (lz4hc.c:1126-1147), on a stream  *)
(* that has a window (base is not NULL: after a reset, end - base is not  *)
(* a window and the memmove would read from no buffer).                   *)
SaveDictHC ==
    /\ phase = "idle" /\ calls < MaxCalls /\ ctx.base # NULL
    /\ \E k \in SaveSizes :
       LET dictSize == SavedSize(k, ctx.end - (ctx.base + ctx.dictLimit))
           endIndex == EndIdx(ctx)
           newEnd   == SafeStart + dictSize
       IN  /\ src' = CopyBytes(src, SafeStart, src, ctx.end - dictSize, dictSize)
           /\ ctx' = [ctx EXCEPT !.end = newEnd, !.base = newEnd - endIndex,
                                 !.dictLimit = endIndex - dictSize, !.lowLimit = endIndex - dictSize]
           /\ nextToUpdate' = H!Max2(nextToUpdate, endIndex - dictSize)
    /\ calls' = calls + 1
    /\ UNCHANGED << hashTable, chainTable, hist, win, phase, ringPos, CallVars >>

Next ==
    \/ ResetStreamHC
    \/ ResetStreamHCFast
    \/ LoadDict
    \/ CompressContinue
    \/ AutoInit
    \/ CheckOverflow
    \/ CheckFollow
    \/ CheckOverlap
    \/ Parse
    \/ Return
    \/ SaveDictHC

\* a call, once made, runs to its return
CallSteps == AutoInit \/ CheckOverflow \/ CheckFollow \/ CheckOverlap \/ Parse \/ Return

Spec == Init /\ [][Next]_vars /\ WF_vars(CallSteps)

(***************************************************************************)
(* Properties                                                              *)
(***************************************************************************)
TypeOK ==
    /\ src \in [DOMAIN src -> 0 .. 255]
    /\ hashTable \in [H!HashSlots -> Nat]
    /\ chainTable \in [0 .. IdxCap -> 0 .. 65535]
    /\ nextToUpdate \in 0 .. IdxCap
    /\ ctx.dirty \in {0, 1} /\ ctx.level \in Levels \cup {LZ4HC_CLEVEL_DEFAULT}
    /\ ctx.base # NULL => EndIdx(ctx) \in 0 .. IdxCap
    /\ phase \in Phases /\ calls \in 0 .. MaxCalls

\* the bytes the context's window covers: dictBase + [lowLimit, dictLimit),
\* then base + [dictLimit, end - base)
Window(c) ==
    Bytes(src, c.dictBase + c.lowLimit, c.dictLimit - c.lowLimit)
      \o Bytes(src, c.base + c.dictLimit, EndIdx(c) - c.dictLimit)

(* Between calls, the context's window is the end of the stream: the      *)
(* external dictionary followed by the prefix, read where dictBase and    *)
(* base put them in the caller's memory, are the last bytes the decoder   *)
(* holds.  It is kept by LZ4HC_setExternalDict, the overlap trim, the      *)
(* overflow reload of the last 64 KB of the prefix, LZ4_loadDictHC's       *)
(* clamp, LZ4_saveDictHC's memmove and clamps, and `ctx->end += srcSize`   *)
(* set before the parser says how much of the input it consumed.  And,    *)
(* as spec.md 3 states, nextToUpdate lies in the prefix: insertion resumes *)
(* neither inside the external dictionary nor past the window's end.      *)
WindowIsHistory ==
    phase = "idle" /\ ctx.base # NULL =>
        /\ ctx.lowLimit <= ctx.dictLimit /\ ctx.dictLimit <= nextToUpdate
        /\ nextToUpdate <= EndIdx(ctx)
        /\ Window(ctx) = LastBytes(hist, Len(Window(ctx)))
        /\ Len(Window(ctx)) <= Len(hist)

\* The block format, read over the current call's block with the decoder's
\* history when the call began
Sent == INSTANCE LZ4Block WITH
    block <- [i \in 1 .. hc.result |-> dst[i - 1]], window <- win, cap <- hc.srcSize,
    produced <- << >>, result <- 0, status <- "running"

(* spec.md 8, property 2, for an HC stream: every block that a continue    *)
(* call returns decodes, against the stream's earlier bytes, to exactly    *)
(* the bytes it consumed, and meets a safe decoder's end-of-block rules.  *)
(* It fails if the chain walk takes a match at an index whose bytes are    *)
(* not the decoder's: a window that is not the stream's history, a stale   *)
(* chain after LZ4_resetStreamHC_fast, a dictionary index read past        *)
(* dictLimit or a prefix index below it.                                  *)
HCStreamRoundTrip ==
    phase = "compress" /\ hc.pc = "done" /\ hc.result > 0 =>
        Sent!Decodable /\ Sent!Decoded = Bytes(src, hc.source, hc.srcSize)

====
