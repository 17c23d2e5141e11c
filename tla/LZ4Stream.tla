------------------------------ MODULE LZ4Stream ------------------------------
(***************************************************************************)
(* The FAST streaming compressor of src/src/sanitized/lz4.c:               *)
(* LZ4_resetStream, LZ4_loadDict, LZ4_renormDictT, LZ4_compress_fast_      *)
(* continue with the byU32 withPrefix64k and usingExtDict instances of     *)
(* LZ4_compress_generic, and LZ4_saveDict, driven by a caller that keeps   *)
(* its input blocks in a ring buffer, may load a dictionary from its own   *)
(* buffer and may save the window to a safe buffer.                       *)
(*                                                                         *)
(* One step is one call of the API, as the code runs it without suspending *)
(* (spec.md 5): the call of LZ4_compress_generic inside                   *)
(* LZ4_compress_fast_continue is the operator Compress, whose loop is the  *)
(* recursion of Run over the labels of the C function.                     *)
(*                                                                         *)
(* Pointers are integer addresses of the caller's memory `mem`; NULL is 0. *)
(* The constants 64 KB, 1 GB and 0x80000000 of the code are parameters,   *)
(* so that a window, a reload overflow and a rescale occur on blocks of a *)
(* few bytes; MAX_DISTANCE stays 64 KB - 1.                                *)
(***************************************************************************)
EXTENDS LZ4Common

CONSTANTS
    KB64,            \* 64 KB: the window
    GB1,             \* 1 GB: LZ4_loadDict resets a stream past this offset
    RenormAbove,     \* 0x80000000: LZ4_renormDictT rescales past this offset
    HashLog,         \* LZ4_HASHLOG: the byU32 table has 2^HashLog slots
    SafeStart, SafeCap,  \* the caller's safeBuffer for LZ4_saveDict
    DictStart, DictCap,  \* the caller's buffer holding a dictionary
    RingStart, RingCap,  \* the caller's ring buffer of input blocks
    Dicts,           \* the dictionaries the caller loads
    BlockInputs,     \* the input blocks the caller compresses
    OutCapacity(_),  \* the maxOutputSize values tried for an input length
    Accelerations,   \* the acceleration arguments tried
    SaveSizes,       \* the dictSize arguments of LZ4_saveDict
    MaxCalls         \* bound on the number of calls

VARIABLES
    mem,      \* the caller's memory: safeBuffer, dictionary buffer, ring
    stream,   \* LZ4_stream_t_internal
    hist,     \* the stream's bytes since the last reset or loadDict, as a decoder holds them
    last,     \* the last LZ4_compress_fast_continue: input, block, result, the decoder's window
    ringPos,  \* where the caller writes its next block in the ring
    calls     \* the number of calls made

vars == << mem, stream, hist, last, ringPos, calls >>

NULL        == 0
HASH_UNIT   == STEPSIZE              \* sizeof(reg_t)
MaxDistance == KB64 - 1              \* MAX_DISTANCE
ACCELERATION_DEFAULT == 1

Slots == 0 .. (2 ^ HashLog - 1)
Addrs == (SafeStart .. (SafeStart + SafeCap - 1)) \cup (DictStart .. (DictStart + DictCap - 1))
           \cup (RingStart .. (RingStart + RingCap - 1))

\* LZ4_resetStream: the whole state set to 0 (initCheck is never set by any
\* function of lz4.c, so the tests of it are always false and it is left out)
ZeroStream == [hashTable |-> [h \in Slots |-> 0], currentOffset |-> 0,
               dictionary |-> NULL, dictSize |-> 0]

NoCall == [input |-> << >>, block |-> << >>, result |-> 0, window |-> << >>]

\* the last k bytes of s
LastBytes(s, k) == IF Len(s) <= k THEN s ELSE SubSeq(s, Len(s) - k + 1, Len(s))

Min2(a, b) == IF a < b THEN a ELSE b

(***************************************************************************)
(* LZ4_compress_generic(cctx, source, dest, inputSize, maxOutputSize,      *)
(* limitedOutput, byU32, withPrefix64k | usingExtDict, dictSmall |         *)
(* noDictIssue, acceleration).  g holds the arguments and the pointers    *)
(* set on entry (lz4.c:545-577); s the locals that change.                 *)
(***************************************************************************)
HashAt(m, p) == LZ4_hash5(Bytes(m, p, HASH_UNIT), HashLog)

\* LZ4_putPosition(p, hashTable, byU32, base)
PutPos(g, t, p) == [t EXCEPT ![HashAt(g.mem, p)] = p - g.base]

\* usingExtDict: a candidate below source lies in the dictionary, read at
\* match + dictDelta, and catch-up stops at its start (lz4.c:605-612, again at 695-702)
RefDelta(g, match) == IF g.ext /\ match < g.source THEN g.dictDelta ELSE 0
LowLimit(g, match, low) ==
    IF ~g.ext THEN low ELSE IF match < g.source THEN g.dictionary ELSE g.source

\* (mutant) the candidate test without the dictSmall bound
RejectedNoDictSmall(g, match, ip) ==
    \/ match + MaxDistance < ip
    \/ Bytes(g.mem, match + RefDelta(g, match), 4) # Bytes(g.mem, ip, 4)

\* the candidate is rejected (lz4.c:616-618, and negated at 704-706)
Rejected(g, match, ip) ==
    \/ g.small /\ match < g.lowRefLimit
    \/ match + MaxDistance < ip
    \/ Bytes(g.mem, match + RefDelta(g, match), 4) # Bytes(g.mem, ip, 4)

\* token byte and literal-length extension bytes of a run
LitHeader(len) == IF len >= RUN_MASK THEN << RUN_MASK * 16 >> \o ExtBytes(len - RUN_MASK)
                  ELSE << len * 16 >>

\* Entering "Find a match" at ip, with forwardH = hash(ip)
EnterSearch(g, s, ip) ==
    [s EXCEPT !.ip = ip, !.fwdIp = ip, !.step = 1, !.fh = HashAt(g.mem, ip),
              !.nb = g.accel * (2 ^ LZ4_skipTrigger), !.pc = "search"]

\* Init conditions and the first byte (lz4.c:561-583)
Begin(g, t) ==
    LET s0 == [t |-> t, ip |-> g.source, anchor |-> g.source, out |-> << >>,
               fwdIp |-> g.source, step |-> 1, nb |-> 0, fh |-> 0, match |-> 0,
               refDelta |-> 0, low |-> g.lowLimit, token |-> 0, pc |-> "last", result |-> 0]
    IN  IF g.n < LZ4_minLength THEN s0
        ELSE EnterSearch(g, [s0 EXCEPT !.t = PutPos(g, t, g.source)], g.source + 1)

\* One probe of the do/while of "Find a match" (lz4.c:596-618)
Probe(g, s) ==
    LET ip    == s.fwdIp
        fwd   == s.fwdIp + s.step
        match == s.t[s.fh] + g.base
        s1    == [s EXCEPT !.ip = ip, !.fwdIp = fwd, !.step = s.nb \div (2 ^ LZ4_skipTrigger),
                           !.nb = @ + 1]
    IN  IF fwd > g.mflimit THEN [s1 EXCEPT !.pc = "last"]
        ELSE [s1 EXCEPT !.match = match, !.refDelta = RefDelta(g, match),
                        !.low = LowLimit(g, match, s.low), !.fh = HashAt(g.mem, fwd),
                        !.t = [s.t EXCEPT ![s.fh] = ip - g.base],
                        !.pc = IF Rejected(g, match, ip) THEN "search" ELSE "literals"]

\* Catch up (lz4.c:622)
RECURSIVE CatchUp(_, _, _, _)
CatchUp(g, s, ip, m) ==
    IF ip > s.anchor /\ m + s.refDelta > s.low
       /\ At(g.mem, ip - 1) = At(g.mem, m + s.refDelta - 1)
    THEN CatchUp(g, s, ip - 1, m - 1) ELSE << ip, m >>

\* Encode Literals (lz4.c:625-641): the token, the output check, the run
EncodeLiterals(g, s) ==
    LET cu  == CatchUp(g, s, s.ip, s.match)
        lit == cu[1] - s.anchor
        op  == Len(s.out) + 1
    IN  IF op + lit + (2 + 1 + LASTLITERALS) + lit \div 255 > g.cap
        THEN [s EXCEPT !.result = 0, !.pc = "done"]
        ELSE [s EXCEPT !.ip = cu[1], !.match = cu[2], !.token = Len(s.out) + 1,
                       !.out = @ \o LitHeader(lit) \o Bytes(g.mem, s.anchor, lit),
                       !.pc = "match"]

(***************************************************************************)
(* The end of an iteration (lz4.c:687-711): end-of-chunk test, table fill *)
(* at ip-2, and the test of the next position, which either starts a      *)
(* match with a zero token or returns to the search at ip+1.              *)
(***************************************************************************)
AfterMatch(g, s) ==
    IF s.ip > g.mflimit THEN [s EXCEPT !.pc = "last"]
    ELSE
    LET t1    == PutPos(g, s.t, s.ip - 2)
        match == t1[HashAt(g.mem, s.ip)] + g.base
        s1    == [s EXCEPT !.t = PutPos(g, t1, s.ip), !.match = match,
                           !.refDelta = RefDelta(g, match), !.low = LowLimit(g, match, s.low)]
    IN  IF ~Rejected(g, match, s.ip)
        THEN [s1 EXCEPT !.token = Len(s.out) + 1, !.out = @ \o << 0 >>, !.pc = "match"]
        ELSE EnterSearch(g, s1, s.ip + 1)

(***************************************************************************)
(* _next_match (lz4.c:643-685): the offset, the match length (counted in  *)
(* the dictionary up to its end and then on from source when the match    *)
(* lies there), the output check and the length fields.                   *)
(***************************************************************************)
NextMatch(g, s) ==
    LET out1   == s.out \o LE16(s.ip - s.match)
        inDict == g.ext /\ s.low = g.dictionary
        real   == s.match + s.refDelta
        limit  == IF inDict THEN Min2(s.ip + (g.dictEnd - real), g.matchlimit) ELSE g.matchlimit
        mc0    == LZ4_count(g.mem, s.ip + MINMATCH, real + MINMATCH, limit)
        ip0    == s.ip + MINMATCH + mc0
        more   == IF inDict /\ ip0 = limit THEN LZ4_count(g.mem, ip0, g.source, g.matchlimit) ELSE 0
        mc     == mc0 + more
        out2   == IF mc >= ML_MASK
                  THEN [out1 EXCEPT ![s.token] = @ + ML_MASK] \o ExtBytes(mc - ML_MASK)
                  ELSE [out1 EXCEPT ![s.token] = @ + mc]
    IN  IF Len(out1) + (1 + LASTLITERALS) + mc \div 256 > g.cap
        THEN [s EXCEPT !.out = out1, !.result = 0, !.pc = "done"]
        ELSE AfterMatch(g, [s EXCEPT !.out = out2, !.ip = ip0 + more, !.anchor = ip0 + more])

\* _last_literals (lz4.c:713-732)
LastLiterals(g, s) ==
    LET run == g.source + g.n - s.anchor
        out == s.out \o LitHeader(run) \o Bytes(g.mem, s.anchor, run)
    IN  IF Len(s.out) + run + 1 + (run + 255 - RUN_MASK) \div 255 > g.cap
        THEN [s EXCEPT !.result = 0, !.pc = "done"]
        ELSE [s EXCEPT !.out = out, !.result = Len(out), !.pc = "done"]

RECURSIVE Run(_, _)
Run(g, s) ==
    CASE s.pc = "search"   -> Run(g, Probe(g, s))
      [] s.pc = "literals" -> Run(g, EncodeLiterals(g, s))
      [] s.pc = "match"    -> Run(g, NextMatch(g, s))
      [] s.pc = "last"     -> Run(g, LastLiterals(g, s))
      [] OTHER             -> s

Compress(g, t) == Run(g, Begin(g, t))

\* The arguments and entry pointers of the call from LZ4_compress_fast_continue
\* on the context x (lz4.c:545-577, 1094-1107)
Ctx(m, x, src, n, cap, accel, prefix) ==
    [mem |-> m, source |-> src, n |-> n, cap |-> cap, accel |-> accel, ext |-> ~prefix,
     small |-> x.dictSize < KB64 /\ x.dictSize < x.currentOffset,
     base |-> src - x.currentOffset,
     lowLimit |-> IF prefix THEN src - x.dictSize ELSE src,
     lowRefLimit |-> src - x.dictSize,
     dictionary |-> x.dictionary, dictEnd |-> x.dictionary + x.dictSize,
     dictDelta |-> x.dictionary + x.dictSize - src,
     mflimit |-> src + n - MFLIMIT, matchlimit |-> src + n - LASTLITERALS]

(***************************************************************************)
(* LZ4_renormDictT (lz4.c:1047-1063): when currentOffset passes           *)
(* 0x80000000 or the address src, entries below delta = currentOffset -  *)
(* 64 KB become 0 and the others move down by delta.  delta is unsigned:  *)
(* below 64 KB it wraps and every entry is below it.                      *)
(***************************************************************************)
\* (mutant) the rescale subtracting delta from every entry
RenormDictTNoClamp(st, src) ==
    IF st.currentOffset > RenormAbove \/ st.currentOffset > src
    THEN LET delta   == st.currentOffset - KB64
             dictEnd == st.dictionary + st.dictSize
             ds      == IF st.dictSize > KB64 THEN KB64 ELSE st.dictSize
         IN  [hashTable |-> [h \in DOMAIN st.hashTable |-> st.hashTable[h] - delta],
              currentOffset |-> KB64, dictSize |-> ds, dictionary |-> dictEnd - ds]
    ELSE st

RenormDictT(st, src) ==
    IF st.currentOffset > RenormAbove \/ st.currentOffset > src
    THEN LET delta   == st.currentOffset - KB64
             dictEnd == st.dictionary + st.dictSize
             ds      == IF st.dictSize > KB64 THEN KB64 ELSE st.dictSize
         IN  [hashTable |-> [h \in DOMAIN st.hashTable |->
                               IF st.currentOffset < KB64 \/ st.hashTable[h] < delta THEN 0
                               ELSE st.hashTable[h] - delta],
              currentOffset |-> KB64, dictSize |-> ds, dictionary |-> dictEnd - ds]
    ELSE st

\* Check overlapping input/dictionary space (lz4.c:1077-1085)
TrimOverlap(st, dictEnd, sourceEnd) ==
    IF sourceEnd > st.dictionary /\ sourceEnd < dictEnd
    THEN LET d0 == dictEnd - sourceEnd
             d1 == IF d0 > KB64 THEN KB64 ELSE d0
             d2 == IF d1 < 4 THEN 0 ELSE d1
         IN  [st EXCEPT !.dictSize = d2, !.dictionary = dictEnd - d2]
    ELSE st

\* LZ4_loadDict's loop: one position every 3 bytes while p <= dictEnd - HASH_UNIT
RECURSIVE SeedTable(_, _, _, _, _)
SeedTable(m, t, p, dictEnd, base) ==
    IF p > dictEnd - HASH_UNIT THEN t
    ELSE SeedTable(m, [t EXCEPT ![HashAt(m, p)] = p - base], p + 3, dictEnd, base)

(***************************************************************************)
(* Where the caller writes a block of n bytes: "ring" at its next ring    *)
(* position, or at the ring's start when the block does not fit before   *)
(* its end; "afterDict" right after the dictionary, when that is in the   *)
(* dictionary buffer or the safe buffer and the block fits there.  0: no  *)
(* room.                                                                  *)
(***************************************************************************)
Placements == {"ring", "afterDict"}
Place(pl, n) ==
    LET dictEnd == stream.dictionary + stream.dictSize
        fits(start, capa) == stream.dictionary \in start .. (start + capa - 1)
                             /\ dictEnd + n <= start + capa
    IN  CASE pl = "ring" -> IF ringPos + n <= RingStart + RingCap THEN ringPos ELSE RingStart
          [] stream.dictSize > 0 /\ (fits(SafeStart, SafeCap) \/ fits(DictStart, DictCap))
               -> dictEnd
          [] OTHER -> 0

Init ==
    /\ mem = [a \in Addrs |-> 0]
    /\ stream = ZeroStream
    /\ hist = << >>
    /\ last = NoCall
    /\ ringPos = RingStart
    /\ calls = 0

\* LZ4_resetStream (lz4.c:998-1002); the decoder starts a new stream too
ResetStream ==
    /\ calls < MaxCalls
    /\ stream' = ZeroStream
    /\ hist' = << >>
    /\ last' = NoCall
    /\ calls' = calls + 1
    /\ UNCHANGED << mem, ringPos >>

(***************************************************************************)
(* The caller copies a dictionary d to its buffer and calls               *)
(* LZ4_loadDict(stream, buffer, |d|) (lz4.c:1015-1044); the decoder is    *)
(* given d as its dictionary.                                             *)
(***************************************************************************)
LoadDict ==
    /\ calls < MaxCalls
    /\ \E d \in Dicts :
       LET m       == Store(mem, DictStart, d)
           st      == IF stream.currentOffset > GB1 THEN ZeroStream ELSE stream
           dictEnd == DictStart + Len(d)
           p       == IF Len(d) > KB64 THEN dictEnd - KB64 ELSE DictStart
           co      == st.currentOffset + KB64
       IN  /\ mem' = m
           /\ stream' = IF Len(d) < HASH_UNIT
                        THEN [st EXCEPT !.dictionary = NULL, !.dictSize = 0]
                        ELSE [hashTable |-> SeedTable(m, st.hashTable, p, dictEnd, p - co),
                              currentOffset |-> co + (dictEnd - p),
                              dictionary |-> p, dictSize |-> dictEnd - p]
           /\ hist' = d
    /\ last' = NoCall
    /\ calls' = calls + 1
    /\ UNCHANGED ringPos

(***************************************************************************)
(* The caller writes a block b where Place puts it and calls              *)
(* LZ4_compress_fast_continue(stream, source, dest, |b|, cap, a)          *)
(* (lz4.c:1066-1111); the block, or the input when the result is 0, goes  *)
(* to the decoder, whose window is the last 64 KB of the stream.          *)
(***************************************************************************)
CompressContinue ==
    /\ calls < MaxCalls
    /\ \E b \in BlockInputs, pl \in Placements, a \in Accelerations :
       \E cap \in OutCapacity(Len(b)) :
       LET n        == Len(b)
           src      == Place(pl, n)
           m        == Store(mem, src, b)
           dictEnd  == stream.dictionary + stream.dictSize
           smallest == IF stream.dictSize > 0 /\ src > dictEnd THEN dictEnd ELSE src
           x        == TrimOverlap(RenormDictT(stream, smallest), dictEnd, src + n)
           prefix   == dictEnd = src
           accel    == IF a < 1 THEN ACCELERATION_DEFAULT ELSE a
           res      == Compress(Ctx(m, x, src, n, cap, accel, prefix), x.hashTable)
       IN  /\ src # 0
           /\ mem' = m
           /\ stream' = [hashTable |-> res.t, currentOffset |-> x.currentOffset + n,
                         dictionary |-> IF prefix THEN x.dictionary ELSE src,
                         dictSize |-> IF prefix THEN x.dictSize + n ELSE n]
           /\ hist' = hist \o b
           /\ last' = [input |-> b, block |-> res.out, result |-> res.result,
                       window |-> LastBytes(hist, KB64)]
           /\ ringPos' = IF pl = "ring" THEN src + n ELSE ringPos
    /\ calls' = calls + 1

\* (mutant) the saved size clamped to 64 KB only
SavedSizeTo64K(k) == IF k > KB64 THEN KB64 ELSE k

\* LZ4_saveDict's dictSize: at most 64 KB and at most the window
SavedSize(k) ==
    LET k1 == IF k > KB64 THEN KB64 ELSE k
    IN  IF k1 > stream.dictSize THEN stream.dictSize ELSE k1

\* LZ4_saveDict(stream, safeBuffer, k) (lz4.c:1141-1155)
SaveDict ==
    /\ calls < MaxCalls
    /\ \E k \in SaveSizes :
       LET ds      == SavedSize(k)
           prevEnd == stream.dictionary + stream.dictSize
       IN  /\ mem' = CopyBytes(mem, SafeStart, mem, prevEnd - ds, ds)
           /\ stream' = [stream EXCEPT !.dictionary = SafeStart, !.dictSize = ds]
    /\ last' = NoCall
    /\ calls' = calls + 1
    /\ UNCHANGED << hist, ringPos >>

Next == ResetStream \/ LoadDict \/ CompressContinue \/ SaveDict

Spec == Init /\ [][Next]_vars

(***************************************************************************)
(* Properties                                                              *)
(***************************************************************************)
TypeOK ==
    /\ mem \in [Addrs -> 0 .. 255]
    /\ stream.hashTable \in [Slots -> Nat]
    /\ stream.currentOffset \in Nat /\ stream.dictSize \in Nat
    /\ last.result \in Nat
    /\ calls \in 0 .. MaxCalls

\* The block format, read over the last block with the decoder's window
Sent == INSTANCE LZ4Block WITH
    block <- last.block, window <- last.window, cap <- Len(last.input),
    produced <- << >>, result <- 0, status <- "running"

(* spec.md 8, property 2, for a stream: every block that                  *)
(* LZ4_compress_fast_continue returns decodes, against the last 64 KB of  *)
(* what the stream compressed before it (the loaded dictionary and the    *)
(* earlier blocks, wherever the caller keeps them), to exactly its input, *)
(* and meets the end-of-block rules of a safe decoder.  It fails if a      *)
(* hash-table entry left by an earlier block, by LZ4_loadDict or by a      *)
(* rescale is taken for a match in bytes that are no longer the stream's  *)
(* (LZ4_renormDictT, the overlap trim, LZ4_saveDict, dictSmall).          *)
StreamRoundTrip ==
    last.result > 0 => Sent!Decodable /\ Sent!Decoded = last.input

(* The stream's window is where the context says: the dictSize bytes at   *)
(* dictionary in the caller's memory are the last dictSize bytes of the   *)
(* stream, after every call (the prefix-mode growth, the rescale's clamp, *)
(* the overlap trim, LZ4_saveDict's memmove and its clamps).              *)
DictionaryIsHistory ==
    /\ stream.dictSize <= Len(hist)
    /\ Bytes(mem, stream.dictionary, stream.dictSize) = LastBytes(hist, stream.dictSize)

=============================================================================
