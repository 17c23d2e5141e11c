----------------------------- MODULE LZ4Common -----------------------------
(***************************************************************************)
(* Constants and byte-level helpers shared by the LZ4 block encoder and    *)
(* decoder models (src/src/sanitized/lz4.c).                               *)
(*                                                                         *)
(* A buffer is a function from addresses (integers) to byte values 0..255. *)
(* Memory that a copy may touch beyond the logical end of a buffer is part *)
(* of its domain, so that overruns are visible to the invariants.  Words   *)
(* are kept as tuples of bytes in little-endian order: TLC integers are 32 *)
(* bits wide, so 32- and 64-bit words are never formed as integers.        *)
(***************************************************************************)
EXTENDS Integers, Sequences, FiniteSetsExt, TLC

MINMATCH       == 4
WILDCOPYLENGTH == 8
LASTLITERALS   == 5
MFLIMIT        == WILDCOPYLENGTH + MINMATCH
LZ4_minLength  == MFLIMIT + 1
MAX_DISTANCE   == 65535
ML_BITS        == 4
ML_MASK        == 15
RUN_MASK       == 15
LZ4_skipTrigger == 6
LZ4_64Klimit   == 65536 + (MFLIMIT - 1)
LZ4_MAX_INPUT_SIZE == 2113929216
\* sizeof(reg_t) on a 64-bit host
STEPSIZE       == 8

\* LZ4_COMPRESSBOUND from lz4.h
LZ4_compressBound(isize) ==
    IF isize > LZ4_MAX_INPUT_SIZE THEN 0 ELSE isize + (isize \div 255) + 16

\* Byte at address a, or 0 where the buffer does not extend (the invariants
\* of the models record such accesses separately).
At(buf, a) == IF a \in DOMAIN buf THEN buf[a] ELSE 0

\* n bytes starting at a, as a tuple (LZ4_read32, LZ4_read_ARCH on a
\* little-endian host)
Bytes(buf, a, n) == [k \in 1..n |-> At(buf, a + k - 1)]

\* Store the tuple s at address a (memcpy of |s| bytes from a register copy).
Store(buf, a, s) == [x \in a .. (a + Len(s) - 1) |-> s[x - a + 1]] @@ buf

\* memcpy(dst + d, src + s, n) between distinct buffers, or within one
\* buffer when the ranges do not overlap
CopyBytes(to, d, from, s, n) == Store(to, d, Bytes(from, s, n))

\* Last address (exclusive) that LZ4_wildCopy(d, s, e) writes
WildCopyEnd(d, e) == IF e <= d THEN d + 8 ELSE d + 8 * ((e - d + 7) \div 8)

\* LZ4_wildCopy(d, s, e) from another buffer: LZ4_copy8 of 8-byte chunks
\* while d < e, so whole chunks up to WildCopyEnd(d, e) are copied
WildCopyFrom(to, d, from, s, e) == CopyBytes(to, d, from, s, WildCopyEnd(d, e) - d)

\* LZ4_writeLE16
LE16(v) == << v % 256, (v \div 256) % 256 >>

\* LZ4_readLE16
ReadLE16(buf, a) == At(buf, a) + 256 * At(buf, a + 1)

\* Length field bytes following a token for a run of length len >= 15:
\* 255 repeated, then the remainder (the loops at lz4.c:633-634 and 722-723).
RECURSIVE ExtBytes(_)
ExtBytes(len) == IF len >= 255 THEN <<255>> \o ExtBytes(len - 255) ELSE <<len>>

(***************************************************************************)
(* LZ4_NbCommonBytes on a little-endian host: the index of the first byte  *)
(* in which two words differ (trailing zero bits of the XOR, divided by    *)
(* 8).  Only called on words that differ.                                  *)
(***************************************************************************)
NbCommonBytes(w1, w2) ==
    CHOOSE k \in 0..(Len(w1) - 1) :
        /\ w1[k + 1] # w2[k + 1]
        /\ \A j \in 0..(k - 1) : w1[j + 1] = w2[j + 1]

(***************************************************************************)
(* LZ4_count(pIn, pMatch, pInLimit) over one buffer (lz4.c:416-436): word  *)
(* steps while pIn < pInLimit - (STEPSIZE-1), returning at the first word  *)
(* that differs, then 4-, 2- and 1-byte steps.                             *)
(***************************************************************************)

\* (mutant) the 4-byte step allowed to end one byte past pInLimit
CountTailPastLimit(buf, p, m, pInLimit) ==
    LET s4 == IF p <= pInLimit - 3
                 /\ Bytes(buf, m, 4) = Bytes(buf, p, 4) THEN 4 ELSE 0
        s2 == IF p + s4 < pInLimit - 1
                 /\ Bytes(buf, m + s4, 2) = Bytes(buf, p + s4, 2) THEN 2 ELSE 0
        s1 == IF p + s4 + s2 < pInLimit
                 /\ At(buf, m + s4 + s2) = At(buf, p + s4 + s2) THEN 1 ELSE 0
    IN  s4 + s2 + s1

\* the 4-, 2- and 1-byte steps after the word loop, from p and m
CountTail(buf, p, m, pInLimit) ==
    LET s4 == IF p < pInLimit - 3
                 /\ Bytes(buf, m, 4) = Bytes(buf, p, 4) THEN 4 ELSE 0
        s2 == IF p + s4 < pInLimit - 1
                 /\ Bytes(buf, m + s4, 2) = Bytes(buf, p + s4, 2) THEN 2 ELSE 0
        s1 == IF p + s4 + s2 < pInLimit
                 /\ At(buf, m + s4 + s2) = At(buf, p + s4 + s2) THEN 1 ELSE 0
    IN  s4 + s2 + s1

LZ4_count(buf, pIn, pMatch, pInLimit) ==
    LET \* the number of word steps the loop condition allows
        nW == IF pInLimit - (STEPSIZE - 1) > pIn
              THEN (pInLimit - (STEPSIZE - 1) - pIn + STEPSIZE - 1) \div STEPSIZE ELSE 0
        word(p, j) == Bytes(buf, p + STEPSIZE * j, STEPSIZE)
        differ == { j \in 0 .. (nW - 1) : word(pMatch, j) # word(pIn, j) }
        \* the word step that returns, or nW when the loop runs out
        k == IF differ = {} THEN nW ELSE Min(differ)
        d == STEPSIZE * k
    IN  IF differ # {} THEN d + NbCommonBytes(word(pMatch, k), word(pIn, k))
        ELSE d + CountTail(buf, pIn + d, pMatch + d, pInLimit)

\* Reference definition: the length of the common prefix of the bytes at
\* pIn and pMatch, not reaching pInLimit.
CommonPrefix(buf, pIn, pMatch, pInLimit) ==
    LET n == IF pInLimit > pIn THEN pInLimit - pIn ELSE 0
    IN  CHOOSE k \in 0..n :
            /\ \A j \in 0..(k - 1) : At(buf, pIn + j) = At(buf, pMatch + j)
            /\ k < n => At(buf, pIn + k) # At(buf, pMatch + k)

(***************************************************************************)
(* The multiplicative hashes.  Mul32Top(a, p, bits) is the top `bits` bits *)
(* of (a * p) mod 2^32, where a is a 4-byte little-endian tuple and p a    *)
(* 32-bit constant given by its 4 little-endian bytes; the product is      *)
(* formed limb by limb so that no intermediate exceeds 2^31.               *)
(***************************************************************************)
Mul32Top(a, p, bits) ==
    LET c(k) == LET RECURSIVE S(_)
                    S(i) == IF i > k THEN 0 ELSE a[i + 1] * p[k - i + 1] + S(i + 1)
                IN  S(0)
        t0 == c(0)
        t1 == c(1) + t0 \div 256
        t2 == c(2) + t1 \div 256
        t3 == c(3) + t2 \div 256
        \* the top 24 bits of the 32-bit product
        top24 == (t3 % 256) * 65536 + (t2 % 256) * 256 + (t1 % 256)
    IN  top24 \div (2 ^ (24 - bits))

\* 2654435761 = 0x9E3779B1
PRIME32 == << 177, 121, 55, 158 >>

\* LZ4_hash4(sequence, byU16): hashLog + 1 bits of the product
LZ4_hash4U16(seq4, hashLog) == Mul32Top(seq4, PRIME32, hashLog + 1)

(***************************************************************************)
(* Mul64Top(a, p, bits): the top `bits` bits of (a * p) mod 2^64 for      *)
(* 8-byte little-endian tuples a and p, formed limb by limb with the      *)
(* carries of each byte position.                                         *)
(***************************************************************************)
Mul64Top(a, p, bits) ==
    LET c(k) == LET RECURSIVE S(_)
                    S(i) == IF i > k THEN 0 ELSE a[i + 1] * p[k - i + 1] + S(i + 1)
                IN  S(0)
        RECURSIVE T(_)
        \* byte position k of the product, with the carry into it
        T(k) == c(k) + (IF k = 0 THEN 0 ELSE T(k - 1) \div 256)
        top24 == (T(7) % 256) * 65536 + (T(6) % 256) * 256 + (T(5) % 256)
    IN  top24 \div (2 ^ (24 - bits))

\* prime5bytes = 889523592379 = 0xCF1BBCDCBB
PRIME5BYTES == << 187, 220, 188, 27, 207, 0, 0, 0 >>

\* LZ4_hash5(sequence, byU32) on a little-endian host, for the 8 bytes read
\* by LZ4_read_ARCH: (sequence << 24) keeps the low 5 bytes, moved up 3.
LZ4_hash5(seq8, hashLog) ==
    Mul64Top(<< 0, 0, 0 >> \o SubSeq(seq8, 1, 5), PRIME5BYTES, hashLog)

=============================================================================
