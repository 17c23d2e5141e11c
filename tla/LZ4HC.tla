-------------------------------- MODULE LZ4HC --------------------------------
(***************************************************************************)
(* The HC block encoder: LZ4_compress_HC and LZ4_compress_HC_destSize on  *)
(* a fresh state, at every level, with both parsers (src/src/sanitized/   *)
(* lz4hc.c: LZ4HC_Insert 117-135, LZ4HC_countBack 140-152, the pattern    *)
(* counts 161-229, LZ4HC_InsertAndGetWiderMatch 235-441 with pattern      *)
(* analysis and chainSwap, LZ4HC_encodeSequence 462-530, LZ4HC_compress_  *)
(* hashChain 532-746, LZ4HC_compress_generic_internal 758-818, the        *)
(* optimal parser LZ4HC_compress_optimal 1214-1537 and the entry points   *)
(* 896-943).                                                               *)
(*                                                                         *)
(* A step is one pass from one label of LZ4HC_compress_hashChain to the    *)
(* next, or one turn of a loop of LZ4HC_compress_optimal: each search     *)
(* (LZ4HC_Insert, then the chain walk) is part of the step that calls it, *)
(* and each encoded sequence part of the step that writes it.  Positions  *)
(* are addresses of `src`, the caller's memory.                            *)
(* Indices are those of the C code: hc holds the context's base,          *)
(* dictBase, dictLimit and lowLimit, so the address p has index p - base   *)
(* in the prefix, and an index below dictLimit is read at dictBase + idx   *)
(* (the external dictionary).  The chain-table entry of idx is            *)
(* chainTable[(ushort)idx].  A fresh context puts the source at index     *)
(* 64 KB (LZ4HC_init_internal).  favorDecSpeed (set only by                *)
(* LZ4_favorDecompressionSpeed) and the dictCtx search are not modelled.  *)
(***************************************************************************)
EXTENDS LZ4Common

CONSTANTS
    Inputs,          \* the input blocks, as sequences of byte values
    OutCapacity(_),  \* the dstCapacity values tried for an input length
    Levels,          \* compression levels, 1 .. 12
    HCHashLog        \* LZ4HC_HASH_LOG (2^HCHashLog hash-table slots)

VARIABLES
    src,           \* the input buffer, addresses 0 .. inputSize-1
    dst,           \* the output buffer
    hashTable,     \* hc4->hashTable: the latest index inserted per hash
    chainTable,    \* hc4->chainTable: delta to the previous same-hash index
    nextToUpdate,  \* hc4->nextToUpdate
    hc,            \* the locals of the parser and its result
    written        \* ghost: one past the highest dst address written

hvars == << src, dst, hashTable, chainTable, nextToUpdate, hc, written >>

\* LZ4_DISTANCE_MAX (lz4.h)
LZ4_DISTANCE_MAX == 65535

\* (int)((ML_MASK-1)+MINMATCH)
OPTIMAL_ML == (ML_MASK - 1) + MINMATCH

\* LZ4_OPT_NUM (lz4hc.c:75) and TRAILING_LITERALS (1290)
LZ4_OPT_NUM == 4096
TRAILING_LITERALS == 3

(* clTable (lz4hc.c:775-789): the strategy, nbSearches and targetLength  *)
(* of each level 0 .. 12.                                                  *)
Strategy(level) == IF level < 10 THEN "lz4hc" ELSE "lz4opt"
NbSearches(level) ==
    << 2, 2, 2, 4, 8, 16, 32, 64, 128, 256, 96, 512, 16384 >>[level + 1]
TargetLength(level) == IF level < 10 THEN 16 ELSE << 64, 128, LZ4_OPT_NUM >>[level - 9]

\* LZ4HC_init_internal on a fresh state: startingOffset = 64 KB
StartIdx == 65536

\* ip - base, and base + idx, of the prefix
Idx(p) == p - hc.base
Pos(idx) == hc.base + idx

\* DELTANEXTU16(chainTable, idx) is chainTable[(ushort)idx]
Slot(idx) == idx % 65536

Min2(a, b) == IF a < b THEN a ELSE b
Max2(a, b) == IF a > b THEN a ELSE b

n          == hc.inputSize
iend       == hc.source + n
mflimit    == iend - MFLIMIT
matchlimit == iend - LASTLITERALS

\* LZ4HC_hashPtr(base + idx): HASH_FUNCTION(LZ4_read32(p))
HCHashIn(buf, p) == Mul32Top(Bytes(buf, p, 4), PRIME32, HCHashLog)
HCHash(p) == HCHashIn(src, p)

HashSlots == 0 .. (2 ^ HCHashLog - 1)

\* chainTable entries of the block's positions
ChainSlots == { Slot(Idx(p)) : p \in hc.source .. (iend - 1) }

DstSpan(len, cap) ==
    0 .. ((IF cap > LZ4_compressBound(len) THEN cap ELSE LZ4_compressBound(len)) + 16)

(***************************************************************************)
(* LZ4HC_Insert(hc4, ip) (lz4hc.c:117-135): every index from nextToUpdate  *)
(* up to ip's is linked to the previous one of its hash, the delta        *)
(* saturating at LZ4_DISTANCE_MAX; then nextToUpdate = target.  The loop  *)
(* is given by its result: the head of a hash is its last index inserted, *)
(* and an index's predecessor the one before it in the loop, or the head  *)
(* the table held when the loop began.                                    *)
(***************************************************************************)
\* (mutant) the delta stored without saturation, truncated to 16 bits
InsertDeltaUnsaturated(idx, head) == (idx - head) % 65536

InsertDelta(idx, head) == Min2(idx - head, LZ4_DISTANCE_MAX)

InsertFrom(buf, ht, ct, base, from, target) ==
    LET new    == from .. (target - 1)
        hs     == [i \in new |-> HCHashIn(buf, base + i)]
        prev(i) == { j \in new : j < i /\ hs[j] = hs[i] }
        head(i) == IF prev(i) = {} THEN ht[hs[i]] ELSE Max(prev(i))
    IN  [ht |-> [h \in DOMAIN ht |->
                   IF \E i \in new : hs[i] = h THEN Max({ i \in new : hs[i] = h }) ELSE ht[h]],
         ct |-> [s \in DOMAIN ct |->
                   IF \E i \in new : Slot(i) = s
                   THEN LET i == CHOOSE i \in new : Slot(i) = s IN InsertDelta(i, head(i))
                   ELSE ct[s]]]

\* LZ4HC_countBack(ip, match, iMin, mMin) (lz4hc.c:140-152)
CountBack(ip, match, iMin, mMin) ==
    LET min == Max2(iMin - ip, mMin - match)
        RECURSIVE B(_)
        B(back) == IF back > min /\ At(src, ip + back - 1) = At(src, match + back - 1)
                   THEN B(back - 1) ELSE back
    IN  B(0)

(***************************************************************************)
(* The chain walk of LZ4HC_InsertAndGetWiderMatch (lz4hc.c:235-410) for    *)
(* noDictCtx and favorCompressionRatio.  While matchIndex >=              *)
(* lowestMatchIndex and attempts remain, a candidate is counted forward    *)
(* with LZ4_count and backward with LZ4HC_countBack and kept if longer;   *)
(* then chainSwap may jump to a farther chain, pattern analysis may skip   *)
(* along a run of one repeated byte, or the chain is followed.  w holds    *)
(* ip, iLowLimit, iHighLimit, lookBackLength, lowestMatchIndex and the    *)
(* patternAnalysis and chainSwap arguments; the loop state s holds        *)
(* matchIndex (mi), nbAttempts (att), matchChainPos (mcp), repeat (rep),  *)
(* srcPatternLength (spl), a break (stop) and best: longest, *matchpos    *)
(* and *startpos.                                                          *)
(***************************************************************************)
\* within the current prefix (279-293): the two bytes at longest-1 and the
\* four first bytes agree; countBack stops at lowPrefixPtr.  The result
\* holds the candidate's matchLength (0 when not counted) and the best match.
PrefixCandidate(w, matchIndex, best) ==
    LET m    == Pos(matchIndex)
        back == IF w.lookBack # 0 THEN CountBack(w.ip, m, w.iLow, Pos(hc.dictLimit)) ELSE 0
        len  == MINMATCH + LZ4_count(src, w.ip + MINMATCH, m + MINMATCH, w.iHigh) - back
    IN  IF /\ Bytes(src, w.iLow + best.longest - 1, 2)
              = Bytes(src, m - w.lookBack + best.longest - 1, 2)
           /\ Bytes(src, m, 4) = Bytes(src, w.ip, 4)
        THEN [len |-> len,
              best |-> IF len > best.longest
                       THEN [longest |-> len, matchpos |-> m + back, startpos |-> w.ip + back]
                       ELSE best]
        ELSE [len |-> 0, best |-> best]

\* in the external dictionary (294-310): counted up to its end, then on in
\* the prefix from lowPrefixPtr; countBack stops at dictStart; the match
\* position is virtual, base + matchIndex
ExtDictCandidate(w, matchIndex, best) ==
    LET m      == hc.dictBase + matchIndex
        vLimit == Min2(w.ip + (hc.dictLimit - matchIndex), w.iHigh)
        ml0    == LZ4_count(src, w.ip + MINMATCH, m + MINMATCH, vLimit) + MINMATCH
        ml1    == IF w.ip + ml0 = vLimit /\ vLimit < w.iHigh
                  THEN ml0 + LZ4_count(src, w.ip + ml0, Pos(hc.dictLimit), w.iHigh) ELSE ml0
        back   == IF w.lookBack # 0
                  THEN CountBack(w.ip, m, w.iLow, hc.dictBase + hc.lowLimit) ELSE 0
    IN  IF Bytes(src, m, 4) = Bytes(src, w.ip, 4)
        THEN [len |-> ml1 - back,
              best |-> IF ml1 - back > best.longest
                       THEN [longest |-> ml1 - back, matchpos |-> Pos(matchIndex) + back,
                             startpos |-> w.ip + back]
                       ELSE best]
        ELSE [len |-> 0, best |-> best]

(* chainSwap (312-329): over the positions of the match just counted, the *)
(* largest chain distance (above 1) and its position matchChainPos; the   *)
(* step grows by one every 16 positions without a better distance.        *)
RECURSIVE SwapScan(_, _, _, _, _, _)
SwapScan(ct, matchIndex, end, pos, accel, r) ==
    IF pos >= end THEN r
    ELSE LET candidateDist == ct[Slot(matchIndex + pos)]
             step          == accel \div 16
         IN  IF candidateDist > r.dist
             THEN SwapScan(ct, matchIndex, end, pos + step, 16, [dist |-> candidateDist, mcp |-> pos])
             ELSE SwapScan(ct, matchIndex, end, pos + step, accel + 1, r)

(* The repeat test of lz4hc.c:341-342 on pattern = LZ4_read32(ip):        *)
(* (pattern & 0xFFFF) == (pattern >> 16) & (pattern & 0xFF) ==             *)
(* (pattern >> 24), true exactly when its four bytes are one byte.  For    *)
(* such a pattern LZ4HC_rotatePattern (161-167) is the identity, and the   *)
(* two counts below are runs of that byte.                                 *)
IsRepeat(pattern) ==
    pattern[1] = pattern[3] /\ pattern[2] = pattern[4] /\ pattern[1] = pattern[4]

\* LZ4HC_countPattern(ip, iEnd, pattern) (171-199): the bytes from ip equal
\* to the pattern's byte b, up to iEnd
RECURSIVE CountPattern(_, _, _)
CountPattern(p, iEnd, b) ==
    IF p < iEnd /\ At(src, p) = b THEN 1 + CountPattern(p + 1, iEnd, b) ELSE 0

\* LZ4HC_reverseCountPattern(ip, iLow, pattern) (204-219): the bytes
\* before ip equal to b, down to iLow
RECURSIVE ReverseCountPattern(_, _, _)
ReverseCountPattern(p, iLow, b) ==
    IF p > iLow /\ At(src, p - 1) = b THEN 1 + ReverseCountPattern(p - 1, iLow, b) ELSE 0

\* LZ4HC_protectDictEnd(dictLimit, matchIndex) (226-229): the uint
\* (dictLimit - 1) - matchIndex is at least 3, a negative difference
\* wrapping to a large value
ProtectDictEnd(dictLimit, matchIndex) ==
    LET d == (dictLimit - 1) - matchIndex IN d < 0 \/ d >= 3

(* A confirmed repeat whose candidate matchIndex-1, at mp, reads the      *)
(* pattern (348-402): the run around it is measured, forward into the     *)
(* prefix and backward into the external dictionary where it crosses      *)
(* their boundary, the backward part cut at lowestMatchIndex.             *)
ForwardOn(w, ext, mp, iLimit, fwd, b) ==
    IF ext /\ mp + fwd = iLimit THEN fwd + CountPattern(Pos(hc.dictLimit), w.iHigh, b) ELSE fwd

\* forwardPatternLength (353-359)
RunForward(w, cand, mp, b) ==
    LET ext    == cand < hc.dictLimit
        iLimit == IF ext THEN hc.dictBase + hc.dictLimit ELSE w.iHigh
    IN  ForwardOn(w, ext, mp, iLimit, CountPattern(mp + 4, iLimit, b) + 4, b)

BackOn(cand, mp, back, b) ==
    IF cand >= hc.dictLimit /\ mp - back = Pos(hc.dictLimit) /\ hc.lowLimit < hc.dictLimit
    THEN back + ReverseCountPattern(hc.dictBase + hc.dictLimit, hc.dictBase + hc.lowLimit, b)
    ELSE back

\* backLength (360-369), cut at lowestMatchIndex
RunBackward(w, cand, mp, b) ==
    LET lowestMatchPtr == IF cand < hc.dictLimit THEN hc.dictBase + hc.lowLimit
                          ELSE Pos(hc.dictLimit)
    IN  cand - Max2(cand - BackOn(cand, mp, ReverseCountPattern(mp, lowestMatchPtr, b), b),
                    w.lowest)

(* matchIndex moves to where the source's run fits in the segment, or to  *)
(* the segment's start; from the start, with no look-back, the segment is *)
(* a match of min(segment, source run) and the walk goes on from that      *)
(* index's chain entry (370-402).                                          *)
PatternMove(ct, w, s, cand, fwd, back) ==
    LET seg     == back + fwd
        toEnd   == cand + fwd - s.spl
        toStart == cand - back
        better  == s.best.longest < Min2(seg, s.spl)
        best    == IF better
                   THEN [longest |-> Min2(seg, s.spl), matchpos |-> Pos(toStart), startpos |-> w.ip]
                   ELSE s.best
    IN  CASE seg >= s.spl /\ fwd <= s.spl ->
               [s EXCEPT !.mi = IF ProtectDictEnd(hc.dictLimit, toEnd) THEN toEnd ELSE hc.dictLimit]
          [] ~ProtectDictEnd(hc.dictLimit, toStart) -> [s EXCEPT !.mi = hc.dictLimit]
          [] w.lookBack # 0 -> [s EXCEPT !.mi = toStart]
          [] better /\ Idx(w.ip) - toStart > LZ4_DISTANCE_MAX -> [s EXCEPT !.mi = toStart, !.stop = TRUE]
          [] ct[Slot(toStart)] > toStart -> [s EXCEPT !.mi = toStart, !.best = best, !.stop = TRUE]
          [] OTHER -> [s EXCEPT !.mi = toStart - ct[Slot(toStart)], !.best = best]

PatternSkip(ct, w, s, mp, b) ==
    PatternMove(ct, w, s, s.mi - 1, RunForward(w, s.mi - 1, mp, b), RunBackward(w, s.mi - 1, mp, b))

\* the repeat test, made once per search (340-347)
RepeatTested(w, s) ==
    IF s.rep # "untested" THEN s
    ELSE IF IsRepeat(Bytes(src, w.ip, 4))
         THEN [s EXCEPT !.rep = "confirmed",
                        !.spl = CountPattern(w.ip + 4, w.iHigh, At(src, w.ip)) + 4]
         ELSE [s EXCEPT !.rep = "not"]

(* After the candidate (336-408): pattern analysis when the chain steps   *)
(* by 1 and no chain was swapped; a good candidate skips along the run.   *)
(* Otherwise matchIndex -= DELTANEXTU16(chainTable, matchIndex +          *)
(* matchChainPos).                                                         *)
PatternOrFollowTested(ct, w, s, tested) ==
    LET cand      == s.mi - 1
        mp        == IF cand < hc.dictLimit THEN hc.dictBase + cand ELSE Pos(cand)
        follow(x) == [x EXCEPT !.mi = @ - ct[Slot(@ + x.mcp)]]
    IN  IF w.patternAnalysis /\ ct[Slot(s.mi)] = 1 /\ s.mcp = 0
        THEN IF /\ tested.rep = "confirmed" /\ cand >= w.lowest
                /\ ProtectDictEnd(hc.dictLimit, cand) /\ Bytes(src, mp, 4) = Bytes(src, w.ip, 4)
             THEN PatternSkip(ct, w, tested, mp, At(src, w.ip))
             ELSE follow(tested)
        ELSE follow(s)

PatternOrFollow(ct, w, s) == PatternOrFollowTested(ct, w, s, RepeatTested(w, s))

(* chainSwap (312-334): when the candidate is as long as the best match   *)
(* and lies wholly before ip, the walk jumps by the largest chain         *)
(* distance found along it, if above 1, or stops where that would pass    *)
(* index 0.                                                                *)
SwapOrFollow(ct, w, s, swap, r) ==
    CASE swap /\ r.dist > 1 /\ r.dist > s.mi -> [s EXCEPT !.stop = TRUE]
      [] swap /\ r.dist > 1 -> [s EXCEPT !.mi = @ - r.dist, !.mcp = r.mcp]
      [] OTHER -> PatternOrFollow(ct, w, s)

\* one turn of the loop after the candidate c was counted
AfterCandidate(ct, w, s, c) ==
    SwapOrFollow(ct, w, [s EXCEPT !.att = @ - 1, !.best = c.best],
                 w.chainSwap /\ c.len = c.best.longest /\ s.mi + c.best.longest <= Idx(w.ip),
                 SwapScan(ct, s.mi, c.best.longest - MINMATCH + 1, 0, 16,
                          [dist |-> 1, mcp |-> s.mcp]))

WalkStep(ct, w, s) ==
    AfterCandidate(ct, w, s, IF s.mi >= hc.dictLimit THEN PrefixCandidate(w, s.mi, s.best)
                             ELSE ExtDictCandidate(w, s.mi, s.best))

\* the loop; the next state is bound through a one-element set, so that
\* TLC computes it once rather than at every use
RECURSIVE ChainWalk(_, _, _)
ChainWalk(ct, w, s) ==
    IF s.stop \/ s.mi < w.lowest \/ s.att = 0 THEN s.best
    ELSE CHOOSE best \in { ChainWalk(ct, w, next) : next \in { WalkStep(ct, w, s) } } : TRUE

(* LZ4HC_InsertAndGetWiderMatch(hc4, ip, iLowLimit, iHighLimit, longest,  *)
(* matchpos, startpos, maxNbAttempts, patternAnalysis, chainSwap, ...)    *)
(* (lz4hc.c:235-441): LZ4HC_Insert up to ip, then the walk from           *)
(* HashTable[hash(ip)].  The result carries the tables the insertion      *)
(* leaves.                                                                 *)
WalkAfterInsert(ins, w, best) ==
    ChainWalk(ins.ct, w, [mi |-> ins.ht[HCHash(w.ip)], att |-> hc.nbSearches, mcp |-> 0,
                          rep |-> "untested", spl |-> 0, stop |-> FALSE, best |-> best])
      @@ [ht |-> ins.ht, ct |-> ins.ct, next |-> Idx(w.ip)]

GetWiderMatch(ip, iLow, iHigh, longest, matchpos, startpos, pa, cs) ==
    WalkAfterInsert(
        InsertFrom(src, hashTable, chainTable, hc.base, nextToUpdate, Idx(ip)),
        [ip |-> ip, iLow |-> iLow, iHigh |-> iHigh, lookBack |-> ip - iLow,
         lowest |-> IF hc.lowLimit + (LZ4_DISTANCE_MAX + 1) > Idx(ip) THEN hc.lowLimit
                    ELSE Idx(ip) - LZ4_DISTANCE_MAX,
         patternAnalysis |-> pa, chainSwap |-> cs],
        [longest |-> longest, matchpos |-> matchpos, startpos |-> startpos])

\* the tables a search leaves
SearchTables(r) ==
    /\ hashTable' = r.ht /\ chainTable' = r.ct /\ nextToUpdate' = r.next

(***************************************************************************)
(* LZ4HC_encodeSequence(ip, op, anchor, matchLength, match, limit, oend)  *)
(* (lz4hc.c:462-530) on the buffer buf: the token, the literal-length     *)
(* bytes, LZ4_wildCopy8 of the literals, the offset and the match-length  *)
(* bytes, with the two output checks of limited modes; it returns 1 after *)
(* what it wrote before the failing check.                                *)
(***************************************************************************)
\* (mutant) the check without the 2+1+LASTLITERALS bytes that follow
LitOverflowNoMargin(op, length, oend) == op + length \div 255 + length > oend

\* (*op + (length / 255) + length + (2 + 1 + LASTLITERALS)) > oend
LitOverflow(op, length, oend) == op + length \div 255 + length + (2 + 1 + LASTLITERALS) > oend

\* (mutant) *token += (byte)(length) without the ML_MASK clamp
MatchNibbleUnclamped(mlen) == mlen

\* the low nibble of the token: ML_MASK, or the match length code itself
MatchNibble(mlen) == Min2(mlen, ML_MASK)

EncodeSequence(buf, wr, ip, op, anchor, matchLength, match) ==
    LET limited == hc.limit # "notLimited"
        length  == ip - anchor
        o1      == op + 1
        litFail == limited /\ LitOverflow(o1, length, hc.oend)
        litExt  == IF length >= RUN_MASK THEN ExtBytes(length - RUN_MASK) ELSE << >>
        tokLit  == 16 * Min2(length, RUN_MASK)
        o2      == o1 + Len(litExt)
        b2      == WildCopyFrom(Store(Store(buf, op, << tokLit >>), o1, litExt),
                                o2, src, anchor, o2 + length)
        o3      == o2 + length
        b3      == Store(b2, o3, LE16(ip - match))
        o4      == o3 + 2
        mlen    == matchLength - MINMATCH
        mlFail  == limited /\ o4 + mlen \div 255 + (1 + LASTLITERALS) > hc.oend
        mlExt   == IF mlen >= ML_MASK THEN ExtBytes(mlen - ML_MASK) ELSE << >>
        wr3     == Max2(wr, Max2(WildCopyEnd(o2, o3), o4))
    IN  CASE litFail -> [fail |-> TRUE, dst |-> buf, written |-> wr]
          [] mlFail  -> [fail |-> TRUE, dst |-> b3, written |-> wr3]
          [] OTHER   -> [fail |-> FALSE,
                         dst |-> Store(Store(b3, op, << tokLit + MatchNibble(mlen) >>),
                                       o4, mlExt),
                         written |-> Max2(wr3, o4 + Len(mlExt)),
                         op |-> o4 + Len(mlExt), ip |-> ip + matchLength,
                         anchor |-> ip + matchLength]

(***************************************************************************)
(* The call.  LZ4_compress_HC (lz4hc.c:920-933, via _extStateHC and        *)
(* _fastReset) limits the output only when dstCapacity <                   *)
(* LZ4_compressBound(srcSize); LZ4_compress_HC_destSize (936-943) uses     *)
(* fillOutput.  A fresh state (LZ4_initStreamHC, LZ4HC_init_internal)      *)
(* has cleared tables: hashTable 0, chainTable 0xFFFF.                     *)
(***************************************************************************)
\* the limit directive of LZ4_compress_HC / _continue (dstCapacity <
\* LZ4_compressBound(srcSize)) and of the destSize entry points
LimitOf(entry, cap, size) ==
    CASE entry = "destSize" -> "fillOutput"
      [] cap < LZ4_compressBound(size) -> "limitedOutput"
      [] OTHER -> "notLimited"

\* the locals of LZ4HC_compress_generic(ctx, source, dst, &size, cap, level,
\* limit) and the pointers of the context x it reads, those of
\* LZ4HC_compress_hashChain
\* and of LZ4HC_compress_optimal, for the level as clamped at 797-798
CallLocals(x, source, size, cap, level, limit) ==
    LET cLevel == IF level < 1 THEN 9 ELSE Min2(level, 12)
    IN
    [pc |-> "start", source |-> source, inputSize |-> size, cap |-> cap,
     nbSearches |-> NbSearches(cLevel), limit |-> limit,
     strat |-> Strategy(cLevel), sufficient |-> TargetLength(cLevel),
     fullUpdate |-> cLevel = 12,
     opt |-> << >>, cur |-> 0, lastPos |-> 0, rPos |-> 0,
     base |-> x.base, dictBase |-> x.dictBase, dictLimit |-> x.dictLimit,
     lowLimit |-> x.lowLimit,
     oend |-> cap, ip |-> source, anchor |-> source, op |-> 0, optr |-> 0,
     ml |-> 0, ref |-> 0, start0 |-> 0, ref0 |-> 0, ml0 |-> 0,
     ml2 |-> 0, start2 |-> 0, ref2 |-> 0,
     ml3 |-> 0, start3 |-> 0, ref3 |-> 0,
     result |-> 0, srcSize |-> 0]

\* LZ4HC_init_internal(hc4, start) on a fresh state: startingOffset 64 KB
FreshContext(start) ==
    [base |-> start - StartIdx, dictBase |-> start - StartIdx,
     dictLimit |-> StartIdx, lowLimit |-> StartIdx]

Init ==
    \E s \in Inputs, level \in Levels, entry \in {"HC", "destSize"} :
      \E cap \in OutCapacity(Len(s)) :
        /\ src = [i \in 0 .. (Len(s) - 1) |-> s[i + 1]]
        /\ dst = [i \in DstSpan(Len(s), cap) |-> 0]
        /\ hashTable = [h \in HashSlots |-> 0]
        /\ chainTable = [p \in 0 .. (Len(s) - 1) |-> 65535]
        /\ nextToUpdate = StartIdx
        /\ written = 0
        /\ hc = CallLocals(FreshContext(0), 0, Len(s), cap, level,
                           LimitOf(entry, cap, Len(s)))

(* LZ4HC_compress_generic_internal (lz4hc.c:793-799) and the init of the  *)
(* parser its strategy selects: LZ4HC_compress_hashChain (548-568), or     *)
(* LZ4HC_compress_optimal (1301-1306), which clamps sufficient_len and     *)
(* has no early exit for small inputs.                                     *)
(* The fillOutput return 0 at 793 leaves *srcSizePtr at the caller's size. *)
Start ==
    /\ hc.pc = "start"
    /\ hc' = IF hc.limit = "fillOutput" /\ hc.cap < 1
             THEN [hc EXCEPT !.pc = "done", !.result = 0, !.srcSize = hc.inputSize]
             ELSE [hc EXCEPT !.oend = IF hc.limit = "fillOutput" THEN @ - LASTLITERALS ELSE @,
                             !.sufficient = Min2(@, LZ4_OPT_NUM - 1),
                             !.pc = CASE hc.strat = "lz4opt" -> "omain"
                                      [] hc.inputSize < LZ4_minLength -> "last"
                                      [] OTHER -> "main"]
    /\ UNCHANGED << src, dst, hashTable, chainTable, nextToUpdate, written >>

(* _dest_overflow (lz4hc.c:740-745): in fillOutput mode op goes back to   *)
(* optr and the last literals are written from anchor; otherwise 0.       *)
Overflow(h, e, optr) ==
    /\ dst' = e.dst /\ written' = e.written
    /\ hc' = IF h.limit = "fillOutput" THEN [h EXCEPT !.op = optr, !.pc = "last"]
             ELSE [h EXCEPT !.result = 0, !.pc = "done"]

\* an encoded sequence: the pointers it advances, then the next label
Encoded(h, e, pc) ==
    /\ dst' = e.dst /\ written' = e.written
    /\ hc' = [h EXCEPT !.ip = e.ip, !.op = e.op, !.anchor = e.anchor, !.pc = pc]

\* if (LZ4HC_encodeSequence(...)) goto _dest_overflow;
EncodeThen(h, e, optr, pc) == IF e.fail THEN Overflow(h, e, optr) ELSE Encoded(h, e, pc)

\* LZ4HC_encodeSequence(UPDATABLE(ip, op, anchor), ml, ref, limit, oend)
EncodeML(h) == EncodeSequence(dst, written, h.ip, h.op, h.anchor, h.ml, h.ref)

TableVars == << hashTable, chainTable, nextToUpdate >>

\* a search with its longest, *matchpos and *startpos left as they were
NoSearch(longest, matchpos, startpos) ==
    [longest |-> longest, matchpos |-> matchpos, startpos |-> startpos]

\* the tables after a search, or untouched where none was made
Tables(r) == IF r.searched THEN SearchTables(r) ELSE UNCHANGED TableVars

\* int patternAnalysis = (maxNbAttempts > 128), levels 9+ (lz4hc.c:544)
PatternAnalysis == hc.nbSearches > 128

(* One turn of the main loop up to its search (lz4hc.c:571-576):          *)
(* LZ4HC_InsertAndFindBestMatch(ip, matchlimit), i.e. the wider search    *)
(* with iLowLimit = ip and longest = MINMATCH-1.                          *)
MainFound(r) ==
    /\ SearchTables(r)
    /\ hc' = IF r.longest < MINMATCH THEN [hc EXCEPT !.ip = @ + 1]
             ELSE [hc EXCEPT !.ml = r.longest, !.ref = r.matchpos,
                             !.start0 = hc.ip, !.ref0 = r.matchpos,
                             !.ml0 = r.longest, !.pc = "search2"]

MainSearch ==
    /\ hc.pc = "main" /\ hc.ip <= mflimit
    /\ MainFound(GetWiderMatch(hc.ip, hc.ip, matchlimit, MINMATCH - 1, hc.ref, hc.ip,
                            PatternAnalysis, FALSE))
    /\ UNCHANGED << src, dst, written >>

MainEnd ==
    /\ hc.pc = "main" /\ hc.ip > mflimit
    /\ hc' = [hc EXCEPT !.pc = "last"]
    /\ UNCHANGED << src, dst, hashTable, chainTable, nextToUpdate, written >>

(***************************************************************************)
(* _Search2 (lz4hc.c:578-585): a wider match around ip+ml-2 while that     *)
(* leaves room before mflimit.                                             *)
(***************************************************************************)
Search2Of(h) ==
    IF h.ip + h.ml <= mflimit
    THEN GetWiderMatch(h.ip + h.ml - 2, h.ip, matchlimit, h.ml, h.ref2, h.start2,
                       PatternAnalysis, FALSE)
           @@ [searched |-> TRUE]
    ELSE NoSearch(h.ml, h.ref2, h.start2) @@ [searched |-> FALSE]

\* No better match: encode ML1 and go round the main loop (587-591).
Search2SameML(r) ==
    /\ r.longest = hc.ml
    /\ Tables(r)
    /\ EncodeThen([hc EXCEPT !.optr = hc.op], EncodeML(hc), hc.op, "main")

Search2EncodeML1 ==
    /\ hc.pc = "search2"
    /\ Search2SameML(Search2Of(hc))
    /\ UNCHANGED src

\* ML1 was skipped and ML2 starts inside ML0: ML0 is restored (593-596)
RestoreML0(h) ==
    IF h.start0 < h.ip /\ h.start2 < h.ip + h.ml0
    THEN [h EXCEPT !.ip = h.start0, !.ref = h.ref0, !.ml = h.ml0]
    ELSE h

\* a first match shorter than 3 is dropped for ML2 (598-604)
DropOrSearch3(h) ==
    IF h.start2 - h.ip < 3
    THEN [h EXCEPT !.ml = h.ml2, !.ip = h.start2, !.ref = h.ref2]
    ELSE [h EXCEPT !.pc = "search3"]

Search2Longer(r) ==
    /\ r.longest # hc.ml
    /\ Tables(r)
    /\ hc' = DropOrSearch3(RestoreML0([hc EXCEPT !.ml2 = r.longest, !.start2 = r.startpos,
                                                 !.ref2 = r.matchpos]))

(* A better match: ML0 restored if need be, then ML2 becomes ML1 or the    *)
(* parser goes on to _Search3.                                             *)
Search2Better ==
    /\ hc.pc = "search2"
    /\ Search2Longer(Search2Of(hc))
    /\ UNCHANGED << src, dst, written >>

(***************************************************************************)
(* _Search3 (lz4hc.c:606-630): ML2 is cut to start at ip + min(ml,        *)
(* OPTIMAL_ML), then a wider match around start2+ml2-3 is looked for.     *)
(***************************************************************************)
\* new_ml: min(ml, OPTIMAL_ML), kept at least MINMATCH short of ML2's end
OptimalCut(h) ==
    IF h.ip + Min2(h.ml, OPTIMAL_ML) > h.start2 + h.ml2 - MINMATCH
    THEN (h.start2 - h.ip) + h.ml2 - MINMATCH
    ELSE Min2(h.ml, OPTIMAL_ML)

\* (mutant) ref2 left behind when start2 moves
ShiftML2NoRef(h, correction) ==
    IF correction > 0
    THEN [h EXCEPT !.start2 = @ + correction, !.ml2 = @ - correction]
    ELSE h

\* start2 += correction; ref2 += correction; ml2 -= correction
ShiftML2(h, correction) ==
    IF correction > 0
    THEN [h EXCEPT !.start2 = @ + correction, !.ref2 = @ + correction, !.ml2 = @ - correction]
    ELSE h

Search3Cut(h) ==
    IF h.start2 - h.ip < OPTIMAL_ML THEN ShiftML2(h, OptimalCut(h) - (h.start2 - h.ip)) ELSE h

Search3Search(c) ==
    IF c.start2 + c.ml2 <= mflimit
    THEN GetWiderMatch(c.start2 + c.ml2 - 3, c.start2, matchlimit, c.ml2, c.ref3, c.start3,
                       PatternAnalysis, FALSE)
           @@ [searched |-> TRUE]
    ELSE NoSearch(c.ml2, c.ref3, c.start3) @@ [searched |-> FALSE]

\* the locals after the cut and the search (.h), and the search (.r)
Search3Record(c, r) ==
    [h |-> [c EXCEPT !.ml3 = r.longest, !.start3 = r.startpos, !.ref3 = r.matchpos], r |-> r]

Search3Of(h) == Search3Record(Search3Cut(h), Search3Search(Search3Cut(h)))

\* ML2 is encoded after ML1 (h1: ip = start2, optr = op)
SecondSeq(h, e1) ==
    IF e1.fail THEN Overflow(h, e1, h.op)
    ELSE LET h1 == [h EXCEPT !.ip = h.start2, !.op = e1.op, !.anchor = e1.anchor, !.optr = e1.op]
         IN  EncodeThen(h1, EncodeSequence(e1.dst, e1.written, h.start2, e1.op, e1.anchor,
                                           h.ml2, h.ref2), e1.op, "main")

\* if (start2 < ip+ml) ml = start2 - ip; optr = op
CutML1(g) == [g EXCEPT !.ml = IF g.start2 < g.ip + g.ml THEN g.start2 - g.ip ELSE @,
                       !.optr = g.op]

TwoSeqs(h) == SecondSeq(h, EncodeML(h))

(* No better ML3: ML1 is cut at start2, then ML1 and ML2 are encoded      *)
(* (632-642).                                                              *)
Encode2SeqsWith(s) ==
    /\ s.h.ml3 = s.h.ml2
    /\ Tables(s.r)
    /\ TwoSeqs(CutML1(s.h))

Encode2Seqs ==
    /\ hc.pc = "search3"
    /\ Encode2SeqsWith(Search3Of(hc))
    /\ UNCHANGED src

\* ML2 cut to begin at ML1's end, replaced by ML3 if too short (646-655)
CutML2ToML1End(g) ==
    LET c == IF g.start2 < g.ip + g.ml THEN ShiftML2(g, g.ip + g.ml - g.start2) ELSE g
        d == IF c.ml2 < MINMATCH
             THEN [c EXCEPT !.start2 = c.start3, !.ref2 = c.ref3, !.ml2 = c.ml3]
             ELSE c
    IN  [d EXCEPT !.optr = d.op]

\* ML1 encoded, ML3 becomes ML1 and ML2 becomes ML0 (657-666)
ML3First(h, e) ==
    IF e.fail THEN Overflow(h, e, h.op)
    ELSE Encoded([h EXCEPT !.ref = h.ref3, !.ml = h.ml3,
                           !.start0 = h.start2, !.ref0 = h.ref2, !.ml0 = h.ml2],
                 [e EXCEPT !.ip = h.start3], "search2")

Seq3AfterML1With(s) ==
    /\ s.h.ml3 # s.h.ml2
    /\ s.h.start3 < s.h.ip + s.h.ml + 3 /\ s.h.start3 >= s.h.ip + s.h.ml
    /\ Tables(s.r)
    /\ LET h == CutML2ToML1End(s.h) IN ML3First(h, EncodeML(h))

(* ML3 starts less than 3 after ML1's end, but not before it: ML1 is      *)
(* encoded and ML3 becomes ML1 for _Search2 (644-667).                     *)
Seq3AfterML1 ==
    /\ hc.pc = "search3"
    /\ Seq3AfterML1With(Search3Of(hc))
    /\ UNCHANGED src

\* (mutant) ML3's start and ref taken over, its length forgotten
Seq3ReplacesML2KeepsML2(s) ==
    /\ s.h.ml3 # s.h.ml2
    /\ s.h.start3 < s.h.ip + s.h.ml
    /\ Tables(s.r)
    /\ hc' = [s.h EXCEPT !.start2 = s.h.start3, !.ref2 = s.h.ref3]

Seq3ReplacesML2With(s) ==
    /\ s.h.ml3 # s.h.ml2
    /\ s.h.start3 < s.h.ip + s.h.ml
    /\ Tables(s.r)
    /\ hc' = [s.h EXCEPT !.start2 = s.h.start3, !.ref2 = s.h.ref3, !.ml2 = s.h.ml3]

(* ML3 starts inside ML1: ML2 is dropped and ML3 becomes ML2 (669-673).   *)
Seq3ReplacesML2 ==
    /\ hc.pc = "search3"
    /\ Seq3ReplacesML2With(Search3Of(hc))
    /\ UNCHANGED << src, dst, written >>

\* ML1 cut to end where ML2 starts, or ML2 cut as at _Search3 (681-694)
CutML1Of3(g) ==
    LET c == IF g.start2 < g.ip + g.ml
             THEN IF g.start2 - g.ip < OPTIMAL_ML
                  THEN ShiftML2([g EXCEPT !.ml = OptimalCut(g)], OptimalCut(g) - (g.start2 - g.ip))
                  ELSE [g EXCEPT !.ml = g.start2 - g.ip]
             ELSE g
    IN  [c EXCEPT !.optr = c.op]

\* ML1 encoded; ML2 becomes ML1 and ML3 becomes ML2 (695-706)
ShiftMatches(h, e) ==
    IF e.fail THEN Overflow(h, e, h.op)
    ELSE Encoded([h EXCEPT !.ref = h.ref2, !.ml = h.ml2,
                           !.start2 = h.start3, !.ref2 = h.ref3, !.ml2 = h.ml3],
                 [e EXCEPT !.ip = h.start2], "search3")

EncodeML1Of3With(s) ==
    /\ s.h.ml3 # s.h.ml2
    /\ s.h.start3 >= s.h.ip + s.h.ml + 3
    /\ Tables(s.r)
    /\ LET h == CutML1Of3(s.h) IN ShiftMatches(h, EncodeML(h))

(* Three ascending matches: ML1 is encoded, ML2 becomes ML1 and ML3       *)
(* becomes ML2 (676-706).                                                  *)
EncodeML1Of3 ==
    /\ hc.pc = "search3"
    /\ EncodeML1Of3With(Search3Of(hc))
    /\ UNCHANGED src

(***************************************************************************)
(* LZ4HC_compress_optimal (lz4hc.c:1281-1537), levels 10 .. 12.  A turn    *)
(* of the main loop finds the first match at ip; a short one sets the      *)
(* prices of opt[] (hc.opt, over the positions set in this turn), the loop *)
(* over cur (hc.cur) takes one step per position, the reverse traversal    *)
(* picks the cheapest path, and the encoding loop (hc.rPos) writes its     *)
(* sequences one step each.  opSaved is hc.optr, so _dest_overflow is the  *)
(* hash-chain parser's.                                                    *)
(***************************************************************************)
\* LZ4HC_literalsPrice(litlen) (1224-1231)
LiteralsPrice(litlen) ==
    litlen + (IF litlen >= RUN_MASK THEN 1 + (litlen - RUN_MASK) \div 255 ELSE 0)

\* LZ4HC_sequencePrice(litlen, mlen) (1235-1247): token, offset, literals
\* and the match-length bytes
SequencePrice(litlen, mlen) ==
    3 + LiteralsPrice(litlen)
      + (IF mlen >= ML_MASK + MINMATCH THEN 1 + (mlen - (ML_MASK + MINMATCH)) \div 255 ELSE 0)

(* LZ4HC_FindLongerMatch(ctx, ip, matchlimit, minLen, nbSearches, ...)    *)
(* (1255-1276): the wider search with iLowLimit = ip, pattern analysis    *)
(* and chainSwap; {0, 0} unless longer than minLen.  *matchpos starts as  *)
(* NULL, address 0 here, and is set whenever the length exceeds minLen.   *)
\* the match of a wider search r, {0, 0} unless longer than minLen
LongerMatch(minLen, r) ==
    IF r.longest <= minLen
    THEN [len |-> 0, off |-> 0, ht |-> r.ht, ct |-> r.ct, next |-> r.next]
    ELSE [len |-> r.longest, off |-> r.startpos - r.matchpos, ht |-> r.ht, ct |-> r.ct,
          next |-> r.next]

FindLongerMatch(ip, minLen) ==
    LongerMatch(minLen, GetWiderMatch(ip, ip, matchlimit, minLen, 0, ip, TRUE, TRUE))

\* an opt[] cell coded as a literal
Literal(litlen, price) == [mlen |-> 1, off |-> 0, litlen |-> litlen, price |-> price]

\* opt[last+addLit] for addLit in 1 .. TRAILING_LITERALS (1356-1365, 1449-1457)
TrailingLiterals(opt, last) ==
    [p \in DOMAIN opt \cup (last + 1 .. last + TRAILING_LITERALS) |->
        IF p \in last + 1 .. last + TRAILING_LITERALS THEN Literal(p - last, opt[last].price + LiteralsPrice(p - last))
        ELSE opt[p]]

(* The prices from the first match m (1328-1365): literals at rPos <      *)
(* MINMATCH, the match cut at every length up to m.len, then trailing     *)
(* literals.                                                               *)
FirstPrices(llen, m) ==
    TrailingLiterals(
        [p \in 0 .. m.len |->
            IF p < MINMATCH THEN Literal(llen + p, LiteralsPrice(llen + p))
            ELSE [mlen |-> p, off |-> m.off, litlen |-> llen, price |-> SequencePrice(llen, p)]],
        m.len)

(* The updates from a match m found at cur (1400-1457): literals after    *)
(* cur where cheaper, then the match at each length ml, taken where it    *)
(* lies past last_match_pos + TRAILING_LITERALS or is no dearer; the      *)
(* full match moves last_match_pos; then trailing literals again.  The    *)
(* price of a match after literals counts from where the literals start.  *)
CurPrices(h, m) ==
    LET cur      == h.cur
        o        == h.opt
        baseLit  == o[cur].litlen
        litPrice(l) == o[cur].price - LiteralsPrice(baseLit) + LiteralsPrice(baseLit + l)
        o1       == [p \in DOMAIN o |->
                       IF p \in cur + 1 .. cur + MINMATCH - 1 /\ litPrice(p - cur) < o[p].price
                       THEN Literal(baseLit + p - cur, litPrice(p - cur)) ELSE o[p]]
        ll       == IF o[cur].mlen = 1 THEN o[cur].litlen ELSE 0
        price(ml) == IF o[cur].mlen = 1
                     THEN (IF cur > ll THEN o[cur - ll].price ELSE 0) + SequencePrice(ll, ml)
                     ELSE o[cur].price + SequencePrice(0, ml)
        takes(ml) == cur + ml > h.lastPos + TRAILING_LITERALS \/ price(ml) <= o1[cur + ml].price
        last     == IF takes(m.len) /\ h.lastPos < cur + m.len THEN cur + m.len ELSE h.lastPos
        o2       == [p \in DOMAIN o1 \cup (cur + MINMATCH .. cur + m.len) |->
                       IF p - cur \in MINMATCH .. m.len /\ takes(p - cur)
                       THEN [mlen |-> p - cur, off |-> m.off, litlen |-> ll,
                             price |-> price(p - cur)]
                       ELSE o1[p]]
    IN  [opt |-> TrailingLiterals(o2, last), lastPos |-> last]

(* The reverse traversal (1467-1484): from candidate_pos back to the      *)
(* start, each cell takes the length and offset of the step after it, so  *)
(* that the cells on the cheapest path hold the sequences in order.        *)
RECURSIVE Reverse(_, _, _, _)
Reverse(opt, pos, ml, off) ==
    LET o == [opt EXCEPT ![pos].mlen = ml, ![pos].off = off]
    IN  IF opt[pos].mlen > pos THEN o
        ELSE CHOOSE r \in { Reverse(x, pos - opt[pos].mlen, opt[pos].mlen, opt[pos].off)
                            : x \in { o } } : TRUE

\* encode: the traversal from cur, then the encoding loop from rPos 0
ToEncode(h, cur, ml, off) ==
    [h EXCEPT !.opt = Reverse(h.opt, cur, ml, off), !.rPos = 0, !.pc = "oenc"]

\* the first match of a turn of the main loop (1313)
FirstMatch == FindLongerMatch(hc.ip, MINMATCH - 1)

OptMainEnd ==
    /\ hc.pc = "omain" /\ hc.ip > mflimit
    /\ hc' = [hc EXCEPT !.pc = "last"]
    /\ UNCHANGED << src, dst, hashTable, chainTable, nextToUpdate, written >>

\* no match at ip: ip++ (1314)
OptNoMatchWith(m) ==
    /\ m.len = 0
    /\ SearchTables(m)
    /\ hc' = [hc EXCEPT !.ip = @ + 1]

OptNoMatch ==
    /\ hc.pc = "omain" /\ hc.ip <= mflimit
    /\ OptNoMatchWith(FirstMatch)
    /\ UNCHANGED << src, dst, written >>

\* a first match longer than sufficient_len is encoded at once (1316-1324)
OptImmediateWith(m) ==
    /\ m.len > hc.sufficient
    /\ SearchTables(m)
    /\ EncodeThen([hc EXCEPT !.optr = hc.op],
                  EncodeSequence(dst, written, hc.ip, hc.op, hc.anchor, m.len, hc.ip - m.off),
                  hc.op, "omain")

OptImmediate ==
    /\ hc.pc = "omain" /\ hc.ip <= mflimit
    /\ OptImmediateWith(FirstMatch)
    /\ UNCHANGED src

\* otherwise the prices are set from it and the loop over cur begins
OptFirstPricesWith(m) ==
    /\ m.len > 0 /\ m.len <= hc.sufficient
    /\ SearchTables(m)
    /\ hc' = [hc EXCEPT !.opt = FirstPrices(hc.ip - hc.anchor, m), !.lastPos = m.len,
                        !.cur = 1, !.pc = "ocur"]

OptFirstPrices ==
    /\ hc.pc = "omain" /\ hc.ip <= mflimit
    /\ OptFirstPricesWith(FirstMatch)
    /\ UNCHANGED << src, dst, written >>

\* the last step of the path: the cell at last_match_pos (1461-1464)
LastStep(h, best) == ToEncode(h, h.lastPos - best.mlen, best.mlen, best.off)

\* the loop over cur is left, at its end or past mflimit (1370-1374)
OptCurEnd ==
    /\ hc.pc = "ocur"
    /\ hc.cur >= hc.lastPos \/ hc.ip + hc.cur > mflimit
    /\ hc' = LastStep(hc, hc.opt[hc.lastPos])
    /\ UNCHANGED << src, dst, hashTable, chainTable, nextToUpdate, written >>

\* the cur loop goes on at cur
InCurLoop == hc.pc = "ocur" /\ hc.cur < hc.lastPos /\ hc.ip + hc.cur <= mflimit

\* not useful to search where the next position costs no more (1377-1387)
SkipPosition(h) ==
    /\ h.opt[h.cur + 1].price <= h.opt[h.cur].price
    /\ h.fullUpdate => h.opt[h.cur + MINMATCH].price < h.opt[h.cur].price + 3

OptSkip ==
    /\ InCurLoop /\ SkipPosition(hc)
    /\ hc' = [hc EXCEPT !.cur = @ + 1]
    /\ UNCHANGED << src, dst, hashTable, chainTable, nextToUpdate, written >>

\* the search at cur: any match (fullUpdate) or one longer than the
\* positions already priced (1390-1393)
CurMatch(h) ==
    FindLongerMatch(h.ip + h.cur, IF h.fullUpdate THEN MINMATCH - 1 ELSE h.lastPos - h.cur)

OptCurNoMatchWith(m) ==
    /\ m.len = 0
    /\ SearchTables(m)
    /\ hc' = [hc EXCEPT !.cur = @ + 1]

OptCurNoMatch ==
    /\ InCurLoop /\ ~SkipPosition(hc)
    /\ OptCurNoMatchWith(CurMatch(hc))
    /\ UNCHANGED << src, dst, written >>

\* a match longer than sufficient_len, or reaching past opt[], ends the
\* turn: it is the last step, at cur (1395-1402)
OptCurImmediateWith(m) ==
    /\ m.len > hc.sufficient \/ m.len + hc.cur >= LZ4_OPT_NUM
    /\ SearchTables(m)
    /\ hc' = ToEncode([hc EXCEPT !.lastPos = hc.cur + 1], hc.cur, m.len, m.off)

OptCurImmediate ==
    /\ InCurLoop /\ ~SkipPosition(hc)
    /\ OptCurImmediateWith(CurMatch(hc))
    /\ UNCHANGED << src, dst, written >>

\* otherwise the prices are updated from the match, and cur++
Priced(u) == [hc EXCEPT !.opt = u.opt, !.lastPos = u.lastPos, !.cur = @ + 1]

OptCurPricesWith(m) ==
    /\ m.len > 0 /\ m.len <= hc.sufficient /\ m.len + hc.cur < LZ4_OPT_NUM
    /\ SearchTables(m)
    /\ hc' = Priced(CurPrices(hc, m))

OptCurPrices ==
    /\ InCurLoop /\ ~SkipPosition(hc)
    /\ OptCurPricesWith(CurMatch(hc))
    /\ UNCHANGED << src, dst, written >>

\* the encoding loop (1487-1499): a literal cell moves ip on
OptEncodeLiteral ==
    /\ hc.pc = "oenc" /\ hc.rPos < hc.lastPos /\ hc.opt[hc.rPos].mlen = 1
    /\ hc' = [hc EXCEPT !.ip = @ + 1, !.rPos = @ + 1]
    /\ UNCHANGED << src, dst, hashTable, chainTable, nextToUpdate, written >>

\* a match cell is encoded, with opSaved = op
EncodeCell(cell) ==
    EncodeThen([hc EXCEPT !.rPos = @ + cell.mlen, !.optr = hc.op],
               EncodeSequence(dst, written, hc.ip, hc.op, hc.anchor, cell.mlen, hc.ip - cell.off),
               hc.op, "oenc")

OptEncodeMatch ==
    /\ hc.pc = "oenc" /\ hc.rPos < hc.lastPos /\ hc.opt[hc.rPos].mlen # 1
    /\ EncodeCell(hc.opt[hc.rPos])
    /\ UNCHANGED << src, hashTable, chainTable, nextToUpdate >>

OptEncodeDone ==
    /\ hc.pc = "oenc" /\ hc.rPos >= hc.lastPos
    /\ hc' = [hc EXCEPT !.pc = "omain"]
    /\ UNCHANGED << src, dst, hashTable, chainTable, nextToUpdate, written >>

(***************************************************************************)
(* _last_literals (lz4hc.c:709-738): the run from anchor to iend, with     *)
(* oend restored in fillOutput mode; when it does not fit, limitedOutput   *)
(* returns 0 and fillOutput keeps as many literals as fill dest.  Then     *)
(* *srcSizePtr = ip - source and the result is op - dest.                  *)
(***************************************************************************)
LastRunLitLength(lastRunSize) == (lastRunSize + 255 - RUN_MASK) \div 255

LastLiterals ==
    /\ hc.pc = "last"
    /\ LET oend        == IF hc.limit = "fillOutput" THEN hc.oend + LASTLITERALS ELSE hc.oend
           fullRun     == iend - hc.anchor
           fits        == hc.op + 1 + LastRunLitLength(fullRun) + fullRun <= oend
           room        == (oend - hc.op) - 1
           lastRunSize == IF fits \/ hc.limit = "notLimited" THEN fullRun
                          ELSE room - LastRunLitLength(room)
           header      == IF lastRunSize >= RUN_MASK
                          THEN << RUN_MASK * 16 >> \o ExtBytes(lastRunSize - RUN_MASK)
                          ELSE << lastRunSize * 16 >>
           opEnd       == hc.op + Len(header) + lastRunSize
       IN  IF ~fits /\ hc.limit = "limitedOutput"
           THEN /\ hc' = [hc EXCEPT !.oend = oend, !.result = 0, !.pc = "done"]
                /\ UNCHANGED << dst, written >>
           ELSE /\ dst' = CopyBytes(Store(dst, hc.op, header), hc.op + Len(header),
                                    src, hc.anchor, lastRunSize)
                /\ written' = Max2(written, opEnd)
                /\ hc' = [hc EXCEPT !.oend = oend, !.ip = hc.anchor + lastRunSize, !.op = opEnd,
                                    !.srcSize = hc.anchor + lastRunSize - hc.source, !.result = opEnd,
                                    !.pc = "done"]
    /\ UNCHANGED << src, hashTable, chainTable, nextToUpdate >>

Next ==
    \/ Start
    \/ MainSearch
    \/ MainEnd
    \/ Search2EncodeML1
    \/ Search2Better
    \/ Encode2Seqs
    \/ Seq3AfterML1
    \/ Seq3ReplacesML2
    \/ EncodeML1Of3
    \/ LastLiterals
    \/ OptMainEnd
    \/ OptNoMatch
    \/ OptImmediate
    \/ OptFirstPrices
    \/ OptCurEnd
    \/ OptSkip
    \/ OptCurNoMatch
    \/ OptCurImmediate
    \/ OptCurPrices
    \/ OptEncodeLiteral
    \/ OptEncodeMatch
    \/ OptEncodeDone

Spec == Init /\ [][Next]_hvars /\ WF_hvars(Next)

(***************************************************************************)
(* Properties                                                              *)
(***************************************************************************)
TypeOK ==
    /\ hc.pc \in {"start", "main", "search2", "search3", "omain", "ocur", "oenc", "last", "done"}
    /\ hc.limit \in {"notLimited", "limitedOutput", "fillOutput"}
    /\ hashTable \in [HashSlots -> {0} \cup (StartIdx .. (StartIdx + n))]
    /\ chainTable \in [ChainSlots -> 0 .. 65535]
    /\ hc.anchor \in hc.source .. iend /\ hc.op \in Nat /\ written \in Nat
    /\ dst \in [DOMAIN dst -> 0 .. 255]

(* Every byte the HC encoder writes, the LZ4_wildCopy8 overrun of the     *)
(* literals included, lies below dstCapacity in limitedOutput and         *)
(* fillOutput modes (whose checks in LZ4HC_encodeSequence reserve room    *)
(* against oend, itself LASTLITERALS short in fillOutput), and below      *)
(* LZ4_compressBound(srcSize) when the output is not limited.             *)
HCWritesWithinCapacity ==
    written <= IF hc.limit = "notLimited" THEN LZ4_compressBound(n) ELSE hc.cap

\* the positions LZ4HC_Insert has linked in
Inserted == { p \in hc.source .. (iend - 1) : Idx(p) < nextToUpdate }

(* The hash chains are exact: hashTable holds, for each hash, the index   *)
(* of the last inserted position with that hash, and the chainTable entry *)
(* of an inserted position is the distance to the previous one of the     *)
(* same hash, or LZ4_DISTANCE_MAX when there is none.  LZ4HC_Insert       *)
(* starts from nextToUpdate and sets it to ip; this holds only if no      *)
(* search of LZ4HC_compress_hashChain (at ip, ip+ml-2 or start2+ml2-3,    *)
(* after the restorations and corrections between them) starts before a   *)
(* position already inserted.  (The hashes of the inserted positions are  *)
(* bound once, as a set of pairs.)                                         *)
HashChainsExact ==
    \A hashed \in { { << p, HCHash(p) >> : p \in Inserted } } :
        LET samePositions(h) == { e[1] : e \in { e \in hashed : e[2] = h } }
        IN  /\ \A e \in hashed :
                 LET before == { q \in samePositions(e[2]) : q < e[1] }
                 IN  chainTable[Slot(Idx(e[1]))] = IF before = {} THEN LZ4_DISTANCE_MAX
                                    ELSE Min2(e[1] - Max(before), LZ4_DISTANCE_MAX)
            /\ \A h \in HashSlots :
                 hashTable[h] = IF samePositions(h) = {} THEN 0 ELSE Idx(Max(samePositions(h)))

\* the labels of each parser
ChainLabels == {"main", "search2", "search3"}
OptLabels   == {"omain", "ocur", "oenc"}

\* the label the hash-chain parser is at, in the order the gotos go forward
Phase(h) == CASE h.pc = "main" -> 0 [] h.pc = "search2" -> 1 [] OTHER -> 2

\* how far the match under consideration reaches: ip, ML1's end or ML2's end
Reach(h) == CASE h.pc = "main" -> h.ip
              [] h.pc = "search2" -> h.ip + h.ml
              [] OTHER -> h.start2 + h.ml2

\* the optimal parser's progress: where its turn starts (ip, from which the
\* encoding loop moves on by rPos), its label, and cur or rPos
OptProgress(h) == CASE h.pc = "omain" -> << h.ip, 0, 0 >>
                    [] h.pc = "ocur"  -> << h.ip, 1, h.cur >>
                    [] OTHER          -> << h.ip - h.rPos, 2, h.rPos >>

LexLess(a, b) == \E i \in DOMAIN a : a[i] < b[i] /\ \A j \in 1 .. (i - 1) : a[j] = b[j]

(* Neither parser can loop for ever.  In LZ4HC_compress_hashChain every   *)
(* step either encodes (anchor grows), or moves forward from the main     *)
(* loop to _Search2 to _Search3, or, at the same label, reaches further:  *)
(* the main loop's ip++, a first match shorter than 3 dropped for ML2     *)
(* (after ML0 may have been restored, lz4hc.c:593-604), ML2 replaced by   *)
(* a longer ML3 after the OPTIMAL_ML cut (606-673).  In                   *)
(* LZ4HC_compress_optimal a turn goes from the first match to the loop    *)
(* over cur to the encoding loop, and the encoding of the cells up to     *)
(* last_match_pos (1487-1499) must leave ip past where the turn began, so *)
(* that the next turn starts further on.  With every quantity bounded by  *)
(* the input size, this is the variant that makes the parse terminate.    *)
ParseAdvances ==
    [][ \/ hc.pc = "start"
        \/ hc'.pc \in {"last", "done"}
        \/ hc'.anchor > hc.anchor
        \/ /\ hc.pc \in ChainLabels /\ hc'.anchor = hc.anchor
           /\ \/ Phase(hc') > Phase(hc)
              \/ Phase(hc') = Phase(hc) /\ Reach(hc') > Reach(hc)
        \/ hc.pc \in OptLabels /\ LexLess(OptProgress(hc), OptProgress(hc')) ]_hvars

====
