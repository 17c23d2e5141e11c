----------------------------- MODULE LZ4Decode -----------------------------
(***************************************************************************)
(* The safe block decoder: LZ4_decompress_generic with endOnInputSize     *)
(* and full decoding (src/src/sanitized/lz4.c:1169-1344), as called by     *)
(* LZ4_decompress_safe (lz4.c:1348: noDict, lowPrefix = dst) and by the    *)
(* dictionary and stream functions (usingExtDict, a prefix before dst).    *)
(*                                                                         *)
(* A step is one pass of the sequence loop up to the literal copy, one     *)
(* LZ4_copy8 of a wild copy, the offset and match length, the first 8      *)
(* bytes of a match, or the byte loop at the end of a match.  The output   *)
(* buffer `out` extends past oend so that an overrunning copy is recorded. *)
(***************************************************************************)
EXTENDS LZ4Common

CONSTANTS
    Blocks,        \* compressed inputs for the stand-alone decoder
    DstCapacities, \* the maxDecompressedSize values tried
    Dictionaries   \* the dictionaries given to LZ4_decompress_safe_forceExtDict

VARIABLES
    csrc,    \* the compressed input, addresses 0 .. srcSize-1
    out,     \* the output buffer
    dec      \* the decoder's locals (ip, op, token, cpy, match, length, the
             \* cursors wd, ws, we of a wild copy and bs, bm of the byte
             \* loop), the call's dst, lowPrefix, dictStart, dictSize and dict
             \* mode, its result, and ghost fields:
             \*   maxWrite: one past the highest out address written
             \*   overread: an input byte at or past iend was read
             \*   ref: the window the block may refer to (win bytes: the
             \*        dictionary, then the prefix), followed by the bytes the
             \*        block format says the sequences decoded so far stand for
             \*   zeroOffset: a match with offset 0 was accepted

dvars == << csrc, out, dec >>

\* Room modelled beyond oend
OutSlack == 40

iend == dec.srcSize
oend == dec.dst + dec.outputSize
lowPrefix == dec.lowPrefix
dictSize  == dec.dictSize
dictEnd   == dec.dictStart + dec.dictSize

\* (mutant) a wrong entry for offset 4
inc32tableWrong == << 0, 1, 2, 1, 4, 4, 4, 4 >>

\* 0 <= offset < 8: how the match pointer is moved around the second 4 bytes
inc32table == << 0, 1, 2, 1, 0, 4, 4, 4 >>
dec64table == << 0, 0, 0, -1, -4, 1, 2, 3 >>

\* Entering LZ4_decompress_generic (lz4.c:1184-1197) with output at dst,
\* the prefix from lowPrefix to dst, and in usingExtDict mode the dictionary
\* at dictStart; window is what these hold.
InitialDecAt(srcSize, dst, cap, lowP, dStart, dSize, extDict, window) ==
           [pc |-> "start", srcSize |-> srcSize, outputSize |-> cap, dst |-> dst,
              lowPrefix |-> lowP, dictStart |-> dStart, dictSize |-> dSize,
              extDict |-> extDict,
              ip |-> 0, op |-> dst, token |-> 0, cpy |-> 0, match |-> 0, length |-> 0,
              wd |-> 0, ws |-> 0, we |-> 0, bs |-> 0, bm |-> 0,
              result |-> 0, maxWrite |-> dst, overread |-> FALSE,
              win |-> Len(window), ref |-> window, zeroOffset |-> FALSE]

\* LZ4_decompress_safe(source, dest, compressedSize, maxDecompressedSize)
\* (lz4.c:1348-1351): noDict, lowPrefix = dest, dictSize = 0
OutBuffer(cap) == [i \in 0 .. (cap + OutSlack) |-> 0]
InitialDec(srcSize, cap) == InitialDecAt(srcSize, 0, cap, 0, 0, 0, FALSE, << >>)

DecoderAt(bytes, cap) ==
    /\ csrc = [i \in 0 .. (Len(bytes) - 1) |-> bytes[i + 1]]
    /\ out = OutBuffer(cap)
    /\ dec = InitialDec(Len(bytes), cap)

\* LZ4_decompress_safe_forceExtDict(source, dest, compressedSize,
\* maxOutputSize, dictStart, dictSize) (lz4.c:1494-1497): usingExtDict,
\* lowPrefix = dest, with the dictionary d at address 0 and dest at ExtDst
ExtDst == 16

ForceExtDictAt(bytes, cap, d) ==
    /\ csrc = [i \in 0 .. (Len(bytes) - 1) |-> bytes[i + 1]]
    /\ out = [i \in 0 .. (ExtDst + cap + OutSlack) |-> IF i < Len(d) THEN d[i + 1] ELSE 0]
    /\ dec = InitialDecAt(Len(bytes), ExtDst, cap, ExtDst, 0, Len(d), TRUE, d)

Init ==
    \E b \in Blocks, cap \in DstCapacities :
        \/ DecoderAt(b, cap)
        \/ \E d \in Dictionaries : ForceExtDictAt(b, cap, d)

Max2(a, b) == IF a > b THEN a ELSE b

(***************************************************************************)
(* Reference semantics of a sequence (the block format): the literals,     *)
(* then len bytes each equal to the byte off positions before it.          *)
(***************************************************************************)
RefMatch(s, off, len) ==
    s \o [k \in 1 .. len |->
            IF off \in 1 .. Len(s) THEN s[Len(s) - off + 1 + ((k - 1) % off)] ELSE 0]

RefLits(litStart, litLen) == [k \in 1 .. litLen |-> At(csrc, litStart + k - 1)]

\* _output_error: return -(ip - src) - 1
Fail(ip) == [dec EXCEPT !.ip = ip, !.result = -ip - 1, !.pc = "done"]

\* one past the last address written by a store of n bytes at a
Wrote(a, n) == Max2(dec.maxWrite, a + n)

(* Special case: an empty output buffer (lz4.c:1202) *)
EmptyOutput ==
    /\ dec.pc = "start"
    /\ dec.outputSize = 0
    /\ dec' = [dec EXCEPT !.pc = "done",
                          !.result = IF iend = 1 /\ csrc[0] = 0 THEN 0 ELSE -1]
    /\ UNCHANGED << csrc, out >>

BeginLoop ==
    /\ dec.pc = "start"
    /\ dec.outputSize # 0
    /\ dec' = [dec EXCEPT !.pc = "loop"]
    /\ UNCHANGED << csrc, out >>

(***************************************************************************)
(* The token and the literal length (lz4.c:1211, 1232-1240).  The length   *)
(* extension loop reads a byte before it tests ip < iend - RUN_MASK.       *)
(***************************************************************************)
Token == At(csrc, dec.ip)

RECURSIVE LitExt(_, _)
LitExt(ip, len) ==
    LET s == At(csrc, ip)
    IN  IF (ip + 1 < iend - RUN_MASK) /\ s = 255
        THEN LitExt(ip + 1, len + s) ELSE [ip |-> ip + 1, len |-> len + s]

Lit == IF Token \div 16 = RUN_MASK THEN LitExt(dec.ip + 1, RUN_MASK)
       ELSE [ip |-> dec.ip + 1, len |-> Token \div 16]

LitCpy == dec.op + Lit.len
LitEnd == Lit.ip + Lit.len
\* the token and the length bytes were read up to Lit.ip
LitOverread == dec.overread \/ Lit.ip > iend

(* Shortcut for a small literal run and a small, non-overlapping match     *)
(* (lz4.c:1217-1228).                                                      *)
ShortLL  == Token \div 16
ShortML  == (Token % 16) + MINMATCH
ShortOff == ReadLE16(csrc, dec.ip + 1 + ShortLL)
\* (mutant) the output room for the match only, without the literals
ShortcutTakenNoLL ==
    /\ dec.ip + 1 + 14 + 2 <= iend
    /\ dec.op + 18 <= oend
    /\ Token < 15 * 16 /\ (Token % 16) # 15
    /\ ShortOff >= 18 /\ dec.op + ShortLL - ShortOff >= lowPrefix

ShortcutTaken ==
    /\ dec.ip + 1 + 14 + 2 <= iend
    /\ dec.op + 14 + 18 <= oend
    /\ Token < 15 * 16 /\ (Token % 16) # 15
    /\ ShortOff >= 18 /\ dec.op + ShortLL - ShortOff >= lowPrefix

Shortcut ==
    /\ dec.pc = "loop"
    /\ ShortcutTaken
    /\ LET o1 == dec.op + ShortLL
           b  == CopyBytes(out, dec.op, csrc, dec.ip + 1, 16)
       IN  /\ out' = CopyBytes(b, o1, b, o1 - ShortOff, 18)
           /\ dec' = [dec EXCEPT !.ip = dec.ip + 1 + ShortLL + 2,
                                 !.op = o1 + ShortML,
                                 !.maxWrite = Max2(@, Max2(dec.op + 16, o1 + 18)),
                                 !.ref = RefMatch(@ \o RefLits(dec.ip + 1, ShortLL),
                                                  ShortOff, ShortML)]
    /\ UNCHANGED csrc

\* (mutant) >= for > in the output test
IsLastRunOffByOne == LitCpy >= oend - MFLIMIT \/ LitEnd > iend - (2 + 1 + LASTLITERALS)

\* The literal run is the last one of the block (lz4.c:1244-1245)
IsLastRun == LitCpy > oend - MFLIMIT \/ LitEnd > iend - (2 + 1 + LASTLITERALS)

\* (mutant) the final run checked for consuming the input only
LastRunBadNoCap == LitEnd # iend

\* the final run does not end exactly at iend, or overruns oend (lz4.c:1252)
LastRunBad == LitEnd # iend \/ LitCpy > oend

(* The final literal run: it must end exactly at iend, within oend        *)
(* (lz4.c:1246-1257); then the decoded size is returned (lz4.c:1337).     *)
LastLiterals ==
    /\ dec.pc = "loop"
    /\ ~ShortcutTaken
    /\ IsLastRun
    /\ IF LastRunBad
       THEN /\ dec' = [Fail(Lit.ip) EXCEPT !.overread = LitOverread]
            /\ UNCHANGED out
       ELSE /\ out' = CopyBytes(out, dec.op, csrc, Lit.ip, Lit.len)
            /\ dec' = [dec EXCEPT !.ip = LitEnd, !.op = LitCpy, !.result = LitCpy - dec.dst,
                                  !.pc = "done", !.maxWrite = Wrote(dec.op, Lit.len),
                                  !.overread = LitOverread,
                                  !.ref = @ \o RefLits(Lit.ip, Lit.len)]
    /\ UNCHANGED csrc

(* Any other literal run starts LZ4_wildCopy(op, ip, cpy) (lz4.c:1259).   *)
Literals ==
    /\ dec.pc = "loop"
    /\ ~ShortcutTaken
    /\ ~IsLastRun
    /\ dec' = [dec EXCEPT !.pc = "lits", !.token = Token, !.ip = Lit.ip,
                          !.cpy = LitCpy, !.length = Lit.len,
                          !.wd = dec.op, !.ws = Lit.ip, !.we = LitCpy,
                          !.overread = LitOverread]
    /\ UNCHANGED << csrc, out >>

\* (mutant) a literal wild copy whose cursors do not advance
LiteralChunkStuck ==
    /\ dec.pc = "lits"
    /\ out' = CopyBytes(out, dec.wd, csrc, dec.ws, 8)
    /\ dec' = [dec EXCEPT !.maxWrite = Wrote(dec.wd, 8),
                          !.overread = @ \/ dec.ws + 8 > iend,
                          !.pc = IF dec.wd < dec.we THEN "lits" ELSE "offset",
                          !.ip = IF dec.wd < dec.we THEN @ ELSE @ + dec.length,
                          !.op = IF dec.wd < dec.we THEN @ ELSE dec.cpy]
    /\ UNCHANGED csrc

(* One LZ4_copy8 of the literal wild copy; after the last one,             *)
(* ip += length and op = cpy (lz4.c:1259-1260).                            *)
LiteralChunk ==
    /\ dec.pc = "lits"
    /\ out' = CopyBytes(out, dec.wd, csrc, dec.ws, 8)
    /\ dec' = [dec EXCEPT !.wd = @ + 8, !.ws = @ + 8,
                          !.maxWrite = Wrote(dec.wd, 8),
                          !.overread = @ \/ dec.ws + 8 > iend,
                          !.pc = IF dec.wd + 8 < dec.we THEN "lits" ELSE "offset",
                          !.ip = IF dec.wd + 8 < dec.we THEN @ ELSE @ + dec.length,
                          !.op = IF dec.wd + 8 < dec.we THEN @ ELSE dec.cpy,
                          !.ref = IF dec.wd + 8 < dec.we THEN @
                                  ELSE @ \o RefLits(dec.ip, dec.length)]
    /\ UNCHANGED csrc

(***************************************************************************)
(* The offset, its check, and the match length (lz4.c:1262-1279).  The     *)
(* extension loop reads a byte, then fails if ip > iend - LASTLITERALS.    *)
(***************************************************************************)
Offset    == ReadLE16(csrc, dec.ip)
OffsetBad == dictSize < 65536 /\ dec.op - Offset + dictSize < lowPrefix

RECURSIVE MLExt(_, _)
MLExt(ip, len) ==
    LET s == At(csrc, ip)
    IN  IF ip + 1 > iend - LASTLITERALS THEN [ip |-> ip + 1, len |-> len, err |-> TRUE]
        ELSE IF s = 255 THEN MLExt(ip + 1, len + s)
        ELSE [ip |-> ip + 1, len |-> len + s, err |-> FALSE]

ML == IF dec.token % 16 = ML_MASK THEN MLExt(dec.ip + 2, ML_MASK)
      ELSE [ip |-> dec.ip + 2, len |-> dec.token % 16, err |-> FALSE]

\* LZ4_write32(op, offset)
OffsetWritten == Store(out, dec.op, LE16(Offset) \o << 0, 0 >>)

OffsetError ==
    /\ dec.pc = "offset"
    /\ OffsetBad
    /\ dec' = [Fail(dec.ip + 2) EXCEPT !.overread = @ \/ dec.ip + 2 > iend]
    /\ UNCHANGED << csrc, out >>

MatchLengthError ==
    /\ dec.pc = "offset"
    /\ ~OffsetBad
    /\ ML.err
    /\ out' = OffsetWritten
    /\ dec' = [Fail(ML.ip) EXCEPT !.maxWrite = Wrote(dec.op, 4),
                                  !.overread = @ \/ ML.ip > iend]
    /\ UNCHANGED csrc

DecodeOffset ==
    /\ dec.pc = "offset"
    /\ ~OffsetBad
    /\ ~ML.err
    /\ out' = OffsetWritten
    /\ dec' = [dec EXCEPT !.pc = "match", !.ip = ML.ip, !.match = dec.op - Offset,
                          !.length = ML.len + MINMATCH,
                          !.maxWrite = Wrote(dec.op, 4),
                          !.overread = @ \/ ML.ip > iend,
                          !.ref = RefMatch(@, Offset, ML.len + MINMATCH),
                          !.zeroOffset = @ \/ Offset = 0]
    /\ UNCHANGED csrc

(***************************************************************************)
(* A match before lowPrefix in usingExtDict mode (lz4.c:1282-1303): the    *)
(* part in the dictionary is copied from its end, and a rest that runs    *)
(* into the prefix is copied from lowPrefix, byte by byte when it         *)
(* overlaps the bytes it is producing.                                    *)
(***************************************************************************)
InExtDict == dec.extDict /\ dec.match < lowPrefix

ExtDictMatchError ==
    /\ dec.pc = "match"
    /\ InExtDict
    /\ dec.op + dec.length > oend - LASTLITERALS
    /\ dec' = Fail(dec.ip)
    /\ UNCHANGED << csrc, out >>

\* while (op < endOfMatch) *op++ = *copyFrom++, from copyFrom = lowPrefix
PrefixBytes(buf, o, rest) ==
    [x \in DOMAIN buf |->
        IF x >= o /\ x < o + rest THEN buf[lowPrefix + ((x - o) % (o - lowPrefix))]
        ELSE buf[x]]

ExtDictMatch ==
    /\ dec.pc = "match"
    /\ InExtDict
    /\ ~(dec.op + dec.length > oend - LASTLITERALS)
    /\ LET copySize == lowPrefix - dec.match
           rest     == dec.length - copySize
           b        == CopyBytes(out, dec.op, out, dictEnd - copySize, copySize)
           o2       == dec.op + copySize
       IN  out' = CASE dec.length <= copySize ->
                         CopyBytes(out, dec.op, out, dictEnd - copySize, dec.length)
                    [] rest > o2 - lowPrefix -> PrefixBytes(b, o2, rest)
                    [] OTHER -> CopyBytes(b, o2, b, lowPrefix, rest)
    /\ dec' = [dec EXCEPT !.op = @ + dec.length, !.pc = "loop",
                          !.maxWrite = Wrote(dec.op, dec.length)]
    /\ UNCHANGED csrc

(***************************************************************************)
(* The first 8 bytes of a match (lz4.c:1307-1317): for an offset below 8,  *)
(* four single-byte copies, then 4 bytes from match + inc32table[offset];  *)
(* the match pointer then moves back by dec64table[offset].                *)
(***************************************************************************)
MOffset == dec.op - dec.match

\* op[0] = match[0]; ... op[3] = match[3]: each byte read after the one
\* before it was written
Bytewise4(buf, d, s) ==
    [x \in DOMAIN buf |->
        IF x >= d /\ x < d + 4
        THEN IF s < d THEN At(buf, s + ((x - d) % (d - s))) ELSE At(buf, s + x - d)
        ELSE buf[x]]

First8Out ==
    IF MOffset < 8
    THEN LET b4 == Bytewise4(out, dec.op, dec.match)
         IN  CopyBytes(b4, dec.op + 4, b4, dec.match + inc32table[MOffset + 1], 4)
    ELSE CopyBytes(out, dec.op, out, dec.match, 8)

First8Match ==
    IF MOffset < 8
    THEN dec.match + inc32table[MOffset + 1] - dec64table[MOffset + 1]
    ELSE dec.match + 8

MatchCpy  == dec.op + dec.length
OCopyLimit == oend - (WILDCOPYLENGTH - 1)

(* The last LASTLITERALS bytes must be literals (lz4.c:1319-1321): the     *)
(* test comes after the first 8 bytes of the match were written.          *)
MatchTailError ==
    /\ dec.pc = "match"
    /\ ~InExtDict
    /\ MatchCpy > oend - 12 /\ MatchCpy > oend - LASTLITERALS
    /\ out' = First8Out
    /\ dec' = [Fail(dec.ip) EXCEPT !.maxWrite = Wrote(dec.op, 8)]
    /\ UNCHANGED csrc

(* The rest of the match: near oend, a wild copy up to oCopyLimit and a    *)
(* byte loop (lz4.c:1322-1327); elsewhere LZ4_copy8 and, for a match      *)
(* longer than 16, LZ4_wildCopy(op+8, match+8, cpy) (lz4.c:1329-1330),    *)
(* which together are 8-byte chunks from op while below cpy.              *)
MatchFirst8 ==
    /\ dec.pc = "match"
    /\ ~InExtDict
    /\ ~(MatchCpy > oend - 12 /\ MatchCpy > oend - LASTLITERALS)
    /\ out' = First8Out
    /\ LET op == dec.op + 8
           m  == First8Match
           nearEnd == MatchCpy > oend - 12
           wild == ~nearEnd \/ op < OCopyLimit
       IN  dec' = [dec EXCEPT !.cpy = MatchCpy, !.maxWrite = Wrote(dec.op, 8),
                              !.pc = IF wild THEN "wild" ELSE "bytes",
                              !.wd = op, !.ws = m,
                              !.we = IF nearEnd THEN OCopyLimit ELSE MatchCpy,
                              !.bs = IF ~nearEnd THEN MatchCpy
                                     ELSE IF op < OCopyLimit THEN OCopyLimit ELSE op,
                              !.bm = IF nearEnd /\ op < OCopyLimit
                                     THEN m + (OCopyLimit - op) ELSE m]
    /\ UNCHANGED csrc

(* One LZ4_copy8 of a match wild copy, within the output buffer            *)
MatchChunk ==
    /\ dec.pc = "wild"
    /\ out' = CopyBytes(out, dec.wd, out, dec.ws, 8)
    /\ dec' = [dec EXCEPT !.wd = @ + 8, !.ws = @ + 8,
                          !.maxWrite = Wrote(dec.wd, 8),
                          !.pc = IF dec.wd + 8 < dec.we THEN "wild" ELSE "bytes"]
    /\ UNCHANGED csrc

(* while (op < cpy) *op++ = *match++; then op = cpy (lz4.c:1327, 1332)    *)
MatchBytes ==
    /\ dec.pc = "bytes"
    /\ out' = [x \in DOMAIN out |->
                 IF x >= dec.bs /\ x < dec.cpy
                 THEN At(out, dec.bm + ((x - dec.bs) % (dec.bs - dec.bm)))
                 ELSE out[x]]
    /\ dec' = [dec EXCEPT !.op = dec.cpy, !.pc = "loop",
                          !.maxWrite = Max2(@, dec.cpy)]
    /\ UNCHANGED csrc

Next ==
    \/ EmptyOutput
    \/ BeginLoop
    \/ Shortcut
    \/ LastLiterals
    \/ Literals
    \/ LiteralChunk
    \/ OffsetError
    \/ MatchLengthError
    \/ DecodeOffset
    \/ ExtDictMatchError
    \/ ExtDictMatch
    \/ MatchTailError
    \/ MatchFirst8
    \/ MatchChunk
    \/ MatchBytes

Spec == Init /\ [][Next]_dvars /\ WF_dvars(Next)

(***************************************************************************)
(* Properties                                                              *)
(***************************************************************************)
TypeOK ==
    /\ dec.pc \in {"start", "loop", "lits", "offset", "match", "wild", "bytes", "done"}
    /\ dec.ip \in Nat /\ dec.op \in dec.dst .. oend
    /\ dec.result \in Int
    /\ dec.overread \in BOOLEAN
    /\ dec.ref \in Seq(0 .. 255)
    /\ out \in [DOMAIN out -> 0 .. 255]

(* Whatever the input, the safe decoder writes no byte at or past oend:    *)
(* not with the wild copies of literals and matches, the 16- and 18-byte  *)
(* copies of the shortcut, the LZ4_write32 of the offset, nor the first   *)
(* 8 bytes of a match written before the tail test.                        *)
DecoderWritesWithinCapacity == dec.maxWrite <= oend

(* Whatever the input, every byte the decoder has produced below op is    *)
(* the byte the block format defines, as long as no offset was 0: the     *)
(* short-offset copy through inc32table/dec64table, the overlapping wild  *)
(* copies of a match and the shortcut's fixed-size copies never leave a   *)
(* wrong byte behind, nor overwrite one decoded earlier.                  *)
DecodedPrefixExact ==
    /\ dec.pc = "loop" \/ (dec.pc = "done" /\ dec.result >= 0)
    /\ ~dec.zeroOffset
    =>
        \A i \in 0 .. (dec.op - dec.dst - 1) : out[dec.dst + i] = dec.ref[dec.win + i + 1]

(* Whatever the input, the safe decoder reads no byte at or past iend.     *)
DecoderReadsWithinInput == ~dec.overread

(* The safe decoder returns an error for a block in which an offset is 0  *)
(* (spec.md, block format; scenario "Corrupt offset").                     *)
SafeDecoderRejectsZeroOffset ==
    (dec.pc = "done" /\ dec.result >= 0) => ~dec.zeroOffset

(* The decoder returns on every input.                                     *)
DecoderTerminates == <>(dec.pc = "done")

=============================================================================
