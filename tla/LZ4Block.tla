------------------------------ MODULE LZ4Block ------------------------------
(***************************************************************************)
(* What a safe block decoder promises, stated over the block format of    *)
(* spec.md 4.3 ("Block format (wire)") and 4.9, independently of how any   *)
(* decoder copies bytes.                                                   *)
(*                                                                         *)
(* A block is parsed into its elements: the literal run and the match of  *)
(* each sequence, and the final literal run.  Decoding appends a literal  *)
(* run, or a match of ml bytes each equal to the byte `off` positions     *)
(* before it, to the window (the dictionary) and what was decoded so far. *)
(*                                                                         *)
(* The decoder produces the decoded bytes in order, an element at a time  *)
(* (the bytes it has produced are a prefix of the block's decoding that   *)
(* ends where an element ends).  It returns their number only when the    *)
(* whole block parses, every offset is in 1 .. the history and the result *)
(* fits the capacity; it returns an error only when that is not so or the *)
(* block breaks the end-of-block rules.                                   *)
(***************************************************************************)
EXTENDS Integers, Sequences

VARIABLES
    block,     \* the compressed bytes, block[1 .. compressedSize]
    window,    \* the bytes before the output the block may refer to
    cap,       \* the output capacity
    produced,  \* the bytes the decoder has produced so far
    result,    \* the value returned
    status     \* "running", "ok" or "error"

vars == << block, window, cap, produced, result, status >>

LASTLITERALS == 5
MFLIMIT      == 12
MINMATCH     == 4

\* A length nibble of 15 followed by extension bytes, from position i
\* (0-based): each 255 adds 255 and continues, the first byte < 255 ends.
RECURSIVE ExtLength(_, _, _)
ExtLength(b, i, len) ==
    IF i >= Len(b) THEN [ok |-> FALSE, i |-> i, len |-> len]
    ELSE IF b[i + 1] = 255 THEN ExtLength(b, i + 1, len + 255)
    ELSE [ok |-> TRUE, i |-> i + 1, len |-> len + b[i + 1]]

NibbleLength(b, i, nibble) ==
    IF nibble = 15 THEN ExtLength(b, i, 15) ELSE [ok |-> TRUE, i |-> i, len |-> nibble]

LitElem(start, len) == [kind |-> "lit", start |-> start, len |-> len]
MatchElem(off, len) == [kind |-> "match", off |-> off, len |-> len]

(* The elements of the sequences from position i: a sequence whose        *)
(* literals end at the end of the block is the final literal run.  ok is  *)
(* FALSE when the block ends inside a sequence; the elements read before  *)
(* that point are kept.  nib is the match nibble of the final token.      *)
RECURSIVE Parse(_, _)
Parse(b, i) ==
    IF i >= Len(b) THEN [els |-> << >>, ok |-> FALSE, nib |-> 0]
    ELSE
    LET token  == b[i + 1]
        lit    == NibbleLength(b, i + 1, token \div 16)
        litEnd == lit.i + lit.len
        off    == b[litEnd + 1] + 256 * b[litEnd + 2]
        ml     == NibbleLength(b, litEnd + 2, token % 16)
        rest   == Parse(b, ml.i)
    IN  CASE ~lit.ok \/ litEnd > Len(b) -> [els |-> << >>, ok |-> FALSE, nib |-> 0]
          [] litEnd = Len(b) ->
                 [els |-> << LitElem(lit.i, lit.len) >>, ok |-> TRUE, nib |-> token % 16]
          [] litEnd + 2 > Len(b) \/ ~ml.ok ->
                 [els |-> << LitElem(lit.i, lit.len) >>, ok |-> FALSE, nib |-> 0]
          [] OTHER ->
                 [els |-> << LitElem(lit.i, lit.len), MatchElem(off, ml.len + MINMATCH) >>
                           \o rest.els,
                  ok  |-> rest.ok, nib |-> rest.nib]

Elements == Parse(block, 0)

(* Decoding elements k .. Len(els) after the history h (the window and    *)
(* the bytes decoded so far).  ends collects the output length after each *)
(* element; ok is FALSE from the first match whose offset is not in       *)
(* 1 .. Len(h), which has no meaning.                                     *)
RECURSIVE DecodeFrom(_, _, _, _)
DecodeFrom(els, k, h, ends) ==
    IF k > Len(els) THEN [bytes |-> h, ends |-> ends, ok |-> TRUE]
    ELSE
    LET e == els[k]
        next == IF e.kind = "lit"
                THEN h \o SubSeq(block, e.start + 1, e.start + e.len)
                ELSE h \o [j \in 1 .. e.len |-> h[Len(h) - e.off + 1 + ((j - 1) % e.off)]]
    IN  IF e.kind = "match" /\ e.off \notin 1 .. Len(h)
        THEN [bytes |-> h, ends |-> ends, ok |-> FALSE]
        ELSE DecodeFrom(els, k + 1, next, ends \cup {Len(next) - Len(window)})

Decoding == DecodeFrom(Elements.els, 1, window, {0})

\* The block's decoded bytes, without the window
Decoded == LET d == Decoding.bytes IN SubSeq(d, Len(window) + 1, Len(d))

\* The block parses and every offset points into the history
FormatOK == Elements.ok /\ Decoding.ok

(* The end-of-block rules as the decoder's tests enforce them: the final  *)
(* run declares no match, the last LASTLITERALS bytes are literals and    *)
(* the last match starts at least MFLIMIT bytes before the end.           *)
EndRulesOK ==
    LET els == Elements.els
        n   == Len(els)
    IN  /\ Elements.nib = 0
        /\ n >= 3 =>
          /\ els[n].len >= LASTLITERALS
          /\ els[n - 1].len + els[n].len >= MFLIMIT

\* A block every safe decoder must decode
Decodable == FormatOK /\ EndRulesOK /\ Len(Decoded) <= cap

Init ==
    /\ produced = << >>
    /\ result = 0
    /\ status = "running"

(* The decoder has produced the block's bytes up to the end of a later    *)
(* element.                                                               *)
Emit ==
    /\ status = "running"
    /\ \E k \in Decoding.ends :
          /\ k > Len(produced)
          /\ produced' = SubSeq(Decoded, 1, k)
    /\ UNCHANGED << block, window, cap, result, status >>

\* It returns the decoded size, having produced (up to) the last element.
Accept ==
    /\ status = "running"
    /\ FormatOK
    /\ Len(Decoded) <= cap
    /\ produced' = Decoded
    /\ result' = Len(Decoded)
    /\ status' = "ok"
    /\ UNCHANGED << block, window, cap >>

Reject ==
    /\ status = "running"
    /\ ~Decodable
    /\ result' < 0
    /\ status' = "error"
    /\ UNCHANGED << block, window, cap, produced >>

Next == Emit \/ Accept \/ Reject

Spec == Init /\ [][Next]_vars

=============================================================================
