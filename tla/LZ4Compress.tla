---------------------------- MODULE LZ4Compress ----------------------------
(***************************************************************************)
(* The FAST block encoder: LZ4_compress_fast_extState and the noDict,      *)
(* byU16 instance of LZ4_compress_generic (src/src/sanitized/lz4.c).       *)
(*                                                                         *)
(* One step of this specification is one iteration of a loop of the C      *)
(* function: one probe of the match-search do/while, the catch-up and      *)
(* literal encoding of a found match, the encoding of one match together   *)
(* with the table fill and next-position test that follow it, and the      *)
(* final literal run.  Positions are offsets from `source`, which is also  *)
(* `base` in noDict mode, so a hash-table entry is a position.             *)
(***************************************************************************)
EXTENDS LZ4Common, FiniteSets

CONSTANTS
    Inputs,          \* the input blocks, as sequences of byte values
    OutCapacity(_),  \* the maxOutputSize values tried for an input length
    Accelerations,   \* the acceleration arguments tried
    HashLog          \* LZ4_HASHLOG (the byU16 table has 2^(HashLog+1) slots)

VARIABLES
    src,        \* the input buffer, addresses 0 .. inputSize-1
    dst,        \* the output buffer
    hashTable,  \* cctx->hashTable (byU16: positions relative to base)
    enc,        \* the locals of LZ4_compress_generic and its return value
    written     \* ghost: one past the highest dst address written so far

cvars == << src, dst, hashTable, enc, written >>

HashSlots == 0 .. (2 ^ (HashLog + 1) - 1)

\* Addresses of dst kept in the model: the capacity, or compressBound when
\* the output is not limited, and room for an overrun beyond it.
DstSpan(n, cap) ==
    0 .. ((IF cap > LZ4_compressBound(n) THEN cap ELSE LZ4_compressBound(n)) + 16)

n          == enc.inputSize
mflimit    == n - MFLIMIT
matchlimit == n - LASTLITERALS

\* LZ4_hashPosition(p, byU16) and LZ4_read32(p)
HashAt(p) == LZ4_hash4U16(Bytes(src, p, 4), HashLog)
Read32(p) == Bytes(src, p, 4)

Max2(a, b) == IF a > b THEN a ELSE b

\* The search loop's registers as set on entry to "Find a match" (lz4.c:593-595)
EnterSearch(e, ip) ==
    [e EXCEPT !.ip = ip, !.forwardIp = ip, !.step = 1,
              !.searchMatchNb = e.accel * (2 ^ LZ4_skipTrigger), !.pc = "search"]

(***************************************************************************)
(* LZ4_compress_fast_extState: reset the state, pick limitedOutput when    *)
(* maxOutputSize < compressBound(inputSize).  Inputs are below 64KB, so    *)
(* the byU16 table is selected.                                            *)
(***************************************************************************)
Init ==
    \E s \in Inputs, a \in Accelerations :
      \E cap \in OutCapacity(Len(s)) :
        /\ src = [i \in 0 .. (Len(s) - 1) |-> s[i + 1]]
        /\ dst = [i \in DstSpan(Len(s), cap) |-> 0]
        /\ hashTable = [h \in HashSlots |-> 0]
        /\ written = 0
        /\ enc = [pc |-> "start", inputSize |-> Len(s), cap |-> cap,
                  limited |-> cap < LZ4_compressBound(Len(s)),
                  accel |-> IF a < 1 THEN 1 ELSE a,
                  ip |-> 0, anchor |-> 0, op |-> 0, token |-> 0, match |-> 0,
                  forwardIp |-> 0, step |-> 1, searchMatchNb |-> 0,
                  forwardH |-> 0, matchCode |-> 0, result |-> 0]

\* Init conditions, and the first byte (lz4.c:562-584)
Start ==
    /\ enc.pc = "start"
    /\ IF n < LZ4_minLength
       THEN /\ enc' = [enc EXCEPT !.pc = "last"]
            /\ UNCHANGED hashTable
       ELSE /\ hashTable' = [hashTable EXCEPT ![HashAt(0)] = 0]
            /\ enc' = [EnterSearch(enc, 1) EXCEPT !.forwardH = HashAt(1)]
    /\ UNCHANGED << src, dst, written >>

(***************************************************************************)
(* One probe of the match search (lz4.c:596-618).  The probe either gives  *)
(* up at mflimit, misses and loops, or finds a candidate with equal first  *)
(* four bytes.  The byU16 table needs no distance test.                    *)
(***************************************************************************)
ProbeIp   == enc.forwardIp
ProbeNext == enc.forwardIp + enc.step
Probed    == [enc EXCEPT !.ip = ProbeIp, !.forwardIp = ProbeNext,
                         !.step = enc.searchMatchNb \div (2 ^ LZ4_skipTrigger),
                         !.searchMatchNb = @ + 1]
Candidate == hashTable[enc.forwardH]

SearchGiveUp ==
    /\ enc.pc = "search"
    /\ ProbeNext > mflimit
    /\ enc' = [Probed EXCEPT !.pc = "last"]
    /\ UNCHANGED << src, dst, hashTable, written >>

SearchProbe ==
    /\ enc.pc = "search"
    /\ ProbeNext <= mflimit
    /\ hashTable' = [hashTable EXCEPT ![enc.forwardH] = ProbeIp]
    /\ enc' = [Probed EXCEPT !.match = Candidate, !.forwardH = HashAt(ProbeNext),
                             !.pc = IF Read32(Candidate) = Read32(ProbeIp)
                                    THEN "literals" ELSE "search"]
    /\ UNCHANGED << src, dst, written >>

(***************************************************************************)
(* Catch up, then encode the literal run before the match (lz4.c:621-641). *)
(***************************************************************************)
RECURSIVE CatchUp(_, _)
CatchUp(ip, m) ==
    IF ip > enc.anchor /\ m > 0 /\ src[ip - 1] = src[m - 1]
    THEN CatchUp(ip - 1, m - 1) ELSE << ip, m >>

CaughtIp  == CatchUp(enc.ip, enc.match)[1]
LitLength == CaughtIp - enc.anchor

\* (mutant) the token of a run without the RUN_MASK clamp
LitHeaderUnclamped(len) == << len * 16 >>

\* token byte and literal-length extension bytes of a run
LitHeader(len) == IF len >= RUN_MASK THEN << RUN_MASK * 16 >> \o ExtBytes(len - RUN_MASK)
                  ELSE << len * 16 >>

\* (mutant) the output check without the room for the offset and last literals
LiteralsOverflowNoReserve(lit) == enc.limited /\ enc.op + 1 + lit + lit \div 255 > enc.cap

\* the output check before a literal run (lz4.c:627-628)
LiteralsOverflow(lit) ==
    enc.limited /\ enc.op + 1 + lit + (2 + 1 + LASTLITERALS) + lit \div 255 > enc.cap

EncodeLiterals ==
    /\ enc.pc = "literals"
    /\ LET lit == LitLength
           hdr == LitHeader(lit)
           lop == enc.op + Len(hdr)
       IN IF LiteralsOverflow(lit)
          THEN /\ enc' = [enc EXCEPT !.result = 0, !.pc = "done"]
               /\ UNCHANGED << dst, written >>
          ELSE /\ dst' = WildCopyFrom(Store(dst, enc.op, hdr), lop, src, enc.anchor, lop + lit)
               /\ written' = Max2(written, WildCopyEnd(lop, lop + lit))
               /\ enc' = [enc EXCEPT !.ip = CaughtIp, !.match = CatchUp(enc.ip, enc.match)[2],
                                     !.token = enc.op, !.op = lop + lit, !.pc = "match"]
    /\ UNCHANGED << src, hashTable >>

(***************************************************************************)
(* _next_match: the offset, then the match length (lz4.c:643-665).         *)
(***************************************************************************)
\* (mutant) the match counted from ip rather than ip + MINMATCH
NextMatchCountFromIp ==
    /\ enc.pc = "match"
    /\ dst' = Store(dst, enc.op, LE16(enc.ip - enc.match))
    /\ written' = Max2(written, enc.op + 2)
    /\ LET mc == LZ4_count(src, enc.ip, enc.match, matchlimit)
       IN  enc' = [enc EXCEPT !.op = @ + 2, !.matchCode = mc,
                              !.ip = @ + MINMATCH + mc, !.pc = "matchLength"]
    /\ UNCHANGED << src, hashTable >>

NextMatch ==
    /\ enc.pc = "match"
    /\ dst' = Store(dst, enc.op, LE16(enc.ip - enc.match))
    /\ written' = Max2(written, enc.op + 2)
    /\ LET mc == LZ4_count(src, enc.ip + MINMATCH, enc.match + MINMATCH, matchlimit)
       IN  enc' = [enc EXCEPT !.op = @ + 2, !.matchCode = mc,
                              !.ip = @ + MINMATCH + mc, !.pc = "matchLength"]
    /\ UNCHANGED << src, hashTable >>

(***************************************************************************)
(* The output check and the match-length encoding, then the end-of-block   *)
(* test, the table fill at ip-2 and the test of the next position         *)
(* (lz4.c:667-710).                                                        *)
(***************************************************************************)
MatchCode == enc.matchCode

\* Bytes from op for a match code mc >= ML_MASK: LZ4_write32 of 0xFFFFFFFF
\* every 4 bytes, then the last byte at op + r/255.
MLFill(mc) == LET q == (mc - ML_MASK) \div 1020
                  r == (mc - ML_MASK) % 1020
              IN  [k \in 1 .. (4 * q + 4) |-> IF k = 4 * q + r \div 255 + 1 THEN r % 255 ELSE 255]
MLEnd(mc)  == LET q == (mc - ML_MASK) \div 1020
                  r == (mc - ML_MASK) % 1020
              IN  enc.op + 4 * q + r \div 255 + 1

MatchDst ==
    IF MatchCode >= ML_MASK
    THEN [Store(dst, enc.op, MLFill(MatchCode)) EXCEPT ![enc.token] = dst[enc.token] + ML_MASK]
    ELSE [dst EXCEPT ![enc.token] = @ + MatchCode]
MatchOp      == IF MatchCode >= ML_MASK THEN MLEnd(MatchCode) ELSE enc.op
MatchWritten == IF MatchCode >= ML_MASK
                THEN Max2(written, enc.op + 4 * ((MatchCode - ML_MASK) \div 1020) + 4)
                ELSE written

MatchOverflow ==
    enc.limited /\ enc.op + (1 + LASTLITERALS) + (MatchCode \div 256) > enc.cap

\* the table after LZ4_putPosition(ip-2), and the candidate for ip
Filled   == [hashTable EXCEPT ![HashAt(enc.ip - 2)] = enc.ip - 2]
NextCand == Filled[HashAt(enc.ip)]

EncodeMatchOverflow ==
    /\ enc.pc = "matchLength"
    /\ MatchOverflow
    /\ enc' = [enc EXCEPT !.result = 0, !.pc = "done"]
    /\ UNCHANGED << src, dst, hashTable, written >>

EncodeMatchLast ==
    /\ enc.pc = "matchLength"
    /\ ~MatchOverflow
    /\ enc.ip > mflimit
    /\ dst' = MatchDst
    /\ written' = MatchWritten
    /\ enc' = [enc EXCEPT !.anchor = enc.ip, !.op = MatchOp, !.pc = "last"]
    /\ UNCHANGED << src, hashTable >>

EncodeMatchNext ==
    /\ enc.pc = "matchLength"
    /\ ~MatchOverflow
    /\ enc.ip <= mflimit
    /\ hashTable' = [Filled EXCEPT ![HashAt(enc.ip)] = enc.ip]
    /\ IF NextCand + MAX_DISTANCE >= enc.ip /\ Read32(NextCand) = Read32(enc.ip)
       THEN \* an immediate match: a zero token, then _next_match again
            /\ dst' = [MatchDst EXCEPT ![MatchOp] = 0]
            /\ written' = Max2(MatchWritten, MatchOp + 1)
            /\ enc' = [enc EXCEPT !.anchor = enc.ip, !.match = NextCand,
                                  !.token = MatchOp, !.op = MatchOp + 1, !.pc = "match"]
       ELSE /\ dst' = MatchDst
            /\ written' = MatchWritten
            /\ enc' = [EnterSearch([enc EXCEPT !.anchor = enc.ip, !.op = MatchOp], enc.ip + 1)
                         EXCEPT !.forwardH = HashAt(enc.ip + 1)]
    /\ UNCHANGED src

(***************************************************************************)
(* _last_literals (lz4.c:713-732)                                          *)
(***************************************************************************)
LastRun == n - enc.anchor

LastLiterals ==
    /\ enc.pc = "last"
    /\ IF enc.limited /\ enc.op + LastRun + 1 + (LastRun + 255 - RUN_MASK) \div 255 > enc.cap
       THEN /\ enc' = [enc EXCEPT !.result = 0, !.pc = "done"]
            /\ UNCHANGED << dst, written >>
       ELSE LET hdr == LitHeader(LastRun)
                end == enc.op + Len(hdr) + LastRun
            IN  /\ dst' = CopyBytes(Store(dst, enc.op, hdr), enc.op + Len(hdr), src, enc.anchor, LastRun)
                /\ written' = Max2(written, end)
                /\ enc' = [enc EXCEPT !.op = end, !.result = end, !.pc = "done"]
    /\ UNCHANGED << src, hashTable >>

Next ==
    \/ Start
    \/ SearchGiveUp
    \/ SearchProbe
    \/ EncodeLiterals
    \/ NextMatch
    \/ EncodeMatchOverflow
    \/ EncodeMatchLast
    \/ EncodeMatchNext
    \/ LastLiterals

Spec == Init /\ [][Next]_cvars /\ WF_cvars(Next)

(***************************************************************************)
(* Properties                                                              *)
(***************************************************************************)
TypeOK ==
    /\ hashTable \in [HashSlots -> 0 .. n]
    /\ enc.pc \in {"start", "search", "literals", "match", "matchLength", "last", "done"}
    /\ enc.anchor \in 0 .. n
    /\ enc.op \in Nat /\ written \in Nat
    /\ dst \in [DOMAIN dst -> 0 .. 255]

(* Every byte the encoder writes, literal wild-copy overruns and the 4-byte *)
(* LZ4_write32 of match-length extensions included, lies below            *)
(* maxOutputSize in limitedOutput mode and below compressBound(inputSize) *)
(* when the output is not limited (the slack compressBound reserves).      *)
EncoderWritesWithinCapacity ==
    written <= IF enc.limited THEN enc.cap ELSE LZ4_compressBound(n)

=============================================================================
