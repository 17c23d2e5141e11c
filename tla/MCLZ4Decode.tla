---------------------------- MODULE MCLZ4Decode ----------------------------
(***************************************************************************)
(* Model of the safe decoder on well-formed and malformed blocks.          *)
(*                                                                         *)
(* Blocks are built from one or two sequences and a final literal run,     *)
(* with the token nibbles, extension bytes and offsets at the values where *)
(* the decoder's branches change (0, the short offsets 1..7, 8, 18, a      *)
(* nibble of 15, an extension of 255), then truncated at every length.     *)
(* Very short blocks over the bytes that matter cover the token and        *)
(* length loops at the end of the input.                                   *)
(***************************************************************************)
EXTENDS LZ4Decode

Lits(n) == [k \in 1 .. n |-> 96 + k]

\* a sequence with literal nibble ll (< 15), match nibble ml, offset off
\* and, when ml = 15, the extension bytes ext
SeqOf(ll, ml, off, ext) ==
    << ll * 16 + ml >> \o Lits(ll) \o LE16(off) \o (IF ml = 15 THEN ext ELSE << >>)

\* the final literal run of n < 15 bytes
LastRun(n) == << n * 16 >> \o Lits(n)

Prefixes(b) == { [k \in 1 .. m |-> b[k]] : m \in 0 .. Len(b) }

OneMatch ==
    { SeqOf(ll, ml, off, ext) \o LastRun(last) :
        ll \in {0, 2, 7}, ml \in {0, 5, 15}, off \in 0 .. 9,
        ext \in { << 0 >>, << 255, 1 >> }, last \in {5, 6} }

\* a second sequence that can take the shortcut: 14 literals and a match
\* of 18 at offset 18, or an overlapping one at offset 2
TwoMatches ==
    { SeqOf(14, 0, 1, << >>) \o SeqOf(ll, 14, off, << >>) \o LastRun(6) :
        ll \in {0, 14}, off \in {2, 18} }

\* a literal nibble of 15 followed by its extension
LongLiterals ==
    { << 240 + ml, e >> \o Lits(15 + e) \o LE16(1) \o LastRun(5) :
        ml \in {0, 1}, e \in {0, 1} }

Short == UNION { [1 .. m -> {0, 15, 16, 240, 255}] : m \in 0 .. 2 }

\* blocks of a single final literal run
Literal == { LastRun(k) : k \in {0, 5, 9} }

MCBlocks ==
    Short \cup Literal \cup OneMatch \cup TwoMatches \cup LongLiterals
      \cup UNION { Prefixes(b) : b \in OneMatch \cup LongLiterals }

MCDstCapacities == {0, 6, 14, 20, 24, 36, 50}

\* an 8-byte dictionary of its own bytes, for LZ4_decompress_safe_forceExtDict
MCDictionaries == { [k \in 1 .. 8 |-> k] }

(***************************************************************************)
(* The safe decoder implements the block-format promise of LZ4Block.  The *)
(* refinement mapping reads the compressed input, the dictionary bytes    *)
(* and the output below op from the decoder's buffers, and its status and *)
(* result from pc and dec.result; the ghost dec.ref is not used.  It is   *)
(* checked on the blocks above without an offset of 0, which the safe     *)
(* decoder accepts (run decode_zero_offset), and on blocks at the edge of *)
(* the end-of-block rules.                                                *)
(***************************************************************************)
ByteSeq(f, start, len) == [i \in 1 .. len |-> f[start + i - 1]]

Block == INSTANCE LZ4Block WITH
    block    <- ByteSeq(csrc, 0, dec.srcSize),
    window   <- ByteSeq(out, dec.dictStart, dec.dictSize),
    cap      <- dec.outputSize,
    produced <- ByteSeq(out, dec.dst, dec.op - dec.dst),
    result   <- IF dec.pc = "done" THEN dec.result ELSE 0,
    status   <- IF dec.pc # "done" THEN "running"
                ELSE IF dec.result >= 0 THEN "ok" ELSE "error"

HasZeroOffset(b) ==
    \E e \in Range(Block!Parse(b, 0).els) : e.kind = "match" /\ e.off = 0

\* blocks whose last match starts exactly MFLIMIT bytes before the end of
\* a 14-byte output (capacity 14 is one of MCDstCapacities)
EdgeBlocks ==
    { SeqOf(2, 3, off, << >>) \o LastRun(5) : off \in {1, 2} }
      \cup { SeqOf(2, 2, 1, << >>) \o LastRun(6) }

NonZeroOffsetBlocks == { b \in MCBlocks \cup EdgeBlocks : ~HasZeroOffset(b) }

(* The decoder's output below op is always the block's decoding up to an  *)
(* element's end, written once and never changed (the wild copies, the    *)
(* shortcut and the short-offset copy write only at and beyond op); it    *)
(* succeeds only on a block that parses completely with offsets inside    *)
(* the history and fits the capacity, returning the decoded size; and it   *)
(* fails only on a block that breaks the format, the end-of-block rules   *)
(* or the capacity.                                                       *)
DecoderRefinesBlock == Block!Spec

=============================================================================
