---------------------------- MODULE LZ4DestSize ----------------------------
(***************************************************************************)
(* LZ4_compress_destSize (src/src/sanitized/lz4.c:798-990): the FAST      *)
(* parser that fills a target output size, consuming as much input as     *)
(* fits and reporting it in *srcSizePtr.  Modelled for targets below      *)
(* compressBound, where LZ4_compress_destSize_extState calls the byU16    *)
(* instance of LZ4_compress_destSize_generic (a target of compressBound   *)
(* or more goes to LZ4_compress_fast_extState, modelled by LZ4Compress).   *)
(*                                                                         *)
(* Steps are as in LZ4Compress: a probe, the literal run, the offset and  *)
(* count, the match length with the end tests and the next-position test, *)
(* and the last literal run.                                               *)
(***************************************************************************)
EXTENDS LZ4Common

CONSTANTS
    Inputs,        \* the input blocks, as sequences of byte values
    Targets(_),    \* the targetDstSize values tried for an input length
    HashLog        \* LZ4_HASHLOG

VARIABLES
    src,        \* the input buffer, addresses 0 .. inputSize-1
    dst,        \* the output buffer, with room past the target
    hashTable,  \* ctx->hashTable (byU16)
    ds,         \* the locals of LZ4_compress_destSize_generic, *srcSizePtr
                \* (consumed) and the return value
    written     \* ghost: one past the highest dst address written so far

svars == << src, dst, hashTable, ds, written >>

HashSlots == 0 .. (2 ^ (HashLog + 1) - 1)

n          == ds.inputSize
mflimit    == n - MFLIMIT
matchlimit == n - LASTLITERALS
oend       == ds.target
\* (mutant) the literal limit without the room reserved for MFLIMIT
oMaxLitNoMFLimit == ds.target - 2 - 1

\* the output limits of lz4.c:816-818
oMaxLit    == ds.target - 2 - 8 - 1
oMaxMatch  == ds.target - (LASTLITERALS + 1)
oMaxSeq    == oMaxLit - 1

HashAt(p) == LZ4_hash4U16(Bytes(src, p, 4), HashLog)
Read32(p) == Bytes(src, p, 4)

Max2(a, b) == IF a > b THEN a ELSE b

\* bytes of the length field of a run or match code of len >= 15
\* ((len + 240) / 255 extension bytes)
ExtLen(len) == (len + 240) \div 255

\* "Find a match" entry, with acceleration 1 (lz4.c:840-842)
EnterSearch(e, ip) ==
    [e EXCEPT !.ip = ip, !.forwardIp = ip, !.step = 1,
              !.searchMatchNb = 2 ^ LZ4_skipTrigger, !.pc = "search"]

Init ==
    \E s \in Inputs :
      \E t \in Targets(Len(s)) :
        /\ t < LZ4_compressBound(Len(s))
        /\ src = [i \in 0 .. (Len(s) - 1) |-> s[i + 1]]
        /\ dst = [i \in 0 .. (t + 16) |-> 0]
        /\ hashTable = [h \in HashSlots |-> 0]
        /\ written = 0
        /\ ds = [pc |-> "start", inputSize |-> Len(s), target |-> t,
                 ip |-> 0, anchor |-> 0, op |-> 0, token |-> 0, match |-> 0,
                 forwardIp |-> 0, step |-> 1, searchMatchNb |-> 0,
                 forwardH |-> 0, matchLength |-> 0, consumed |-> 0, result |-> 0]

\* Init conditions and the first byte (lz4.c:824-832)
Start ==
    /\ ds.pc = "start"
    /\ \/ /\ ds.target < 1
          /\ ds' = [ds EXCEPT !.result = 0, !.consumed = n, !.pc = "done"]
          /\ UNCHANGED hashTable
       \/ /\ ds.target >= 1 /\ n < LZ4_minLength
          /\ ds' = [ds EXCEPT !.pc = "last"]
          /\ UNCHANGED hashTable
       \/ /\ ds.target >= 1 /\ n >= LZ4_minLength
          /\ hashTable' = [hashTable EXCEPT ![HashAt(0)] = 0]
          /\ ds' = [EnterSearch(ds, 1) EXCEPT !.forwardH = HashAt(1)]
    /\ UNCHANGED << src, dst, written >>

(* One probe of the match search (lz4.c:844-857) *)
ProbeNext == ds.forwardIp + ds.step
Probed    == [ds EXCEPT !.ip = ds.forwardIp, !.forwardIp = ProbeNext,
                        !.step = ds.searchMatchNb \div (2 ^ LZ4_skipTrigger),
                        !.searchMatchNb = @ + 1]

SearchGiveUp ==
    /\ ds.pc = "search"
    /\ ProbeNext > mflimit
    /\ ds' = [Probed EXCEPT !.pc = "last"]
    /\ UNCHANGED << src, dst, hashTable, written >>

SearchProbe ==
    /\ ds.pc = "search"
    /\ ProbeNext <= mflimit
    /\ LET cand == hashTable[ds.forwardH]
       IN  /\ hashTable' = [hashTable EXCEPT ![ds.forwardH] = ds.forwardIp]
           /\ ds' = [Probed EXCEPT !.match = cand, !.forwardH = HashAt(ProbeNext),
                                   !.pc = IF Read32(cand) = Read32(ds.forwardIp)
                                          THEN "literals" ELSE "search"]
    /\ UNCHANGED << src, dst, written >>

(* Catch up, then the literal run if a last match still fits after it,    *)
(* else op is given back and the last literals follow (lz4.c:860-882).    *)
RECURSIVE CatchUp(_, _)
CatchUp(ip, m) ==
    IF ip > ds.anchor /\ m > 0 /\ src[ip - 1] = src[m - 1]
    THEN CatchUp(ip - 1, m - 1) ELSE << ip, m >>

\* (mutant) the token of a run without the RUN_MASK clamp
LitHeaderUnclamped(len) == << len * 16 >>

LitHeader(len) == IF len >= RUN_MASK THEN << RUN_MASK * 16 >> \o ExtBytes(len - RUN_MASK)
                  ELSE << len * 16 >>

EncodeLiterals ==
    /\ ds.pc = "literals"
    /\ LET c   == CatchUp(ds.ip, ds.match)
           lit == c[1] - ds.anchor
           hdr == LitHeader(lit)
           lop == ds.op + Len(hdr)
       IN IF ds.op + 1 + ExtLen(lit) + lit > oMaxLit
          THEN /\ ds' = [ds EXCEPT !.ip = c[1], !.match = c[2], !.pc = "last"]
               /\ UNCHANGED << dst, written >>
          ELSE /\ dst' = WildCopyFrom(Store(dst, ds.op, hdr), lop, src, ds.anchor, lop + lit)
               /\ written' = Max2(written, WildCopyEnd(lop, lop + lit))
               /\ ds' = [ds EXCEPT !.ip = c[1], !.match = c[2], !.token = ds.op,
                                   !.op = lop + lit, !.pc = "match"]
    /\ UNCHANGED << src, hashTable >>

(* _next_match: the offset, the match length, reduced when its length     *)
(* field would pass oMaxMatch (lz4.c:884-895)                             *)
ReducedLength(op, ml) == IF op + ExtLen(ml) > oMaxMatch THEN (15 - 1) + (oMaxMatch - op) * 255
                         ELSE ml

\* (mutant) ip advanced by the count before its reduction
NextMatchIpUnreduced ==
    /\ ds.pc = "match"
    /\ dst' = Store(dst, ds.op, LE16(ds.ip - ds.match))
    /\ written' = Max2(written, ds.op + 2)
    /\ LET mc == LZ4_count(src, ds.ip + MINMATCH, ds.match + MINMATCH, matchlimit)
       IN  ds' = [ds EXCEPT !.op = @ + 2, !.matchLength = ReducedLength(ds.op + 2, mc),
                            !.ip = @ + MINMATCH + mc, !.pc = "matchLength"]
    /\ UNCHANGED << src, hashTable >>

NextMatch ==
    /\ ds.pc = "match"
    /\ dst' = Store(dst, ds.op, LE16(ds.ip - ds.match))
    /\ written' = Max2(written, ds.op + 2)
    /\ LET ml == ReducedLength(ds.op + 2,
                   LZ4_count(src, ds.ip + MINMATCH, ds.match + MINMATCH, matchlimit))
       IN  ds' = [ds EXCEPT !.op = @ + 2, !.matchLength = ml,
                            !.ip = @ + MINMATCH + ml, !.pc = "matchLength"]
    /\ UNCHANGED << src, hashTable >>

(* The match-length field (lz4.c:897-903), anchor = ip, the end tests     *)
(* (909-910), the table fill and the next-position test (913-923)         *)
MLBytes == IF ds.matchLength >= ML_MASK THEN ExtBytes(ds.matchLength - ML_MASK) ELSE << >>
MatchDst == [Store(dst, ds.op, MLBytes) EXCEPT
               ![ds.token] = dst[ds.token] + (IF ds.matchLength >= ML_MASK
                                               THEN ML_MASK ELSE ds.matchLength)]
MatchOp == ds.op + Len(MLBytes)

EncodeMatchEnd ==
    /\ ds.pc = "matchLength"
    /\ ds.ip > mflimit \/ MatchOp > oMaxSeq
    /\ dst' = MatchDst
    /\ written' = Max2(written, MatchOp)
    /\ ds' = [ds EXCEPT !.anchor = ds.ip, !.op = MatchOp, !.pc = "last"]
    /\ UNCHANGED << src, hashTable >>

EncodeMatchNext ==
    /\ ds.pc = "matchLength"
    /\ ds.ip <= mflimit /\ MatchOp <= oMaxSeq
    /\ LET filled == [hashTable EXCEPT ![HashAt(ds.ip - 2)] = ds.ip - 2]
           cand   == filled[HashAt(ds.ip)]
       IN  /\ hashTable' = [filled EXCEPT ![HashAt(ds.ip)] = ds.ip]
           /\ IF cand + MAX_DISTANCE >= ds.ip /\ Read32(cand) = Read32(ds.ip)
              THEN /\ dst' = [MatchDst EXCEPT ![MatchOp] = 0]
                   /\ written' = Max2(written, MatchOp + 1)
                   /\ ds' = [ds EXCEPT !.anchor = ds.ip, !.match = cand,
                                       !.token = MatchOp, !.op = MatchOp + 1, !.pc = "match"]
              ELSE /\ dst' = MatchDst
                   /\ written' = Max2(written, MatchOp)
                   /\ ds' = [EnterSearch([ds EXCEPT !.anchor = ds.ip, !.op = MatchOp],
                                         ds.ip + 1)
                               EXCEPT !.forwardH = HashAt(ds.ip + 1)]
    /\ UNCHANGED src

(* _last_literals: the run is trimmed to fill dst (lz4.c:926-950)         *)
\* (mutant) the trim without the room of the extension bytes
TrimmedRunNoExt(op, run) ==
    IF op + 1 + ExtLen(run) + run > oend THEN (oend - op) - 1 ELSE run

TrimmedRun(op, run) ==
    IF op + 1 + ExtLen(run) + run > oend
    THEN LET r == (oend - op) - 1 IN r - ExtLen(r)
    ELSE run

LastLiterals ==
    /\ ds.pc = "last"
    /\ LET run == TrimmedRun(ds.op, n - ds.anchor)
           hdr == LitHeader(run)
           end == ds.op + Len(hdr) + run
       IN  /\ dst' = CopyBytes(Store(dst, ds.op, hdr), ds.op + Len(hdr), src, ds.anchor, run)
           /\ written' = Max2(written, end)
           /\ ds' = [ds EXCEPT !.ip = ds.anchor + run, !.op = end, !.result = end,
                               !.consumed = ds.anchor + run, !.pc = "done"]
    /\ UNCHANGED << src, hashTable >>

Next ==
    \/ Start
    \/ SearchGiveUp
    \/ SearchProbe
    \/ EncodeLiterals
    \/ NextMatch
    \/ EncodeMatchEnd
    \/ EncodeMatchNext
    \/ LastLiterals

Spec == Init /\ [][Next]_svars /\ WF_svars(Next)

TypeOK ==
    /\ hashTable \in [HashSlots -> 0 .. n]
    /\ ds.pc \in {"start", "search", "literals", "match", "matchLength", "last", "done"}
    /\ ds.anchor \in 0 .. n /\ ds.consumed \in 0 .. n
    /\ dst \in [DOMAIN dst -> 0 .. 255]

(* Whatever the input and the target, LZ4_compress_destSize writes no     *)
(* byte at or past targetDstSize: literal wild copies, offsets, match     *)
(* length fields and the trimmed last run all stay within dst.            *)
DestSizeWritesWithinTarget == written <= ds.target

=============================================================================
