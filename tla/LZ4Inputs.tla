---------------------------- MODULE LZ4Inputs -----------------------------
(***************************************************************************)
(* Input blocks for the encoder models, in families chosen to reach its    *)
(* branches:                                                               *)
(*  - short periodic strings over {A, B} with one byte changed: matches at *)
(*    offsets 1 to 3 and beyond, catch-up, immediate next matches, misses  *)
(*    and hash collisions in a table of 4 slots;                           *)
(*  - inputs below LZ4_minLength (all literals);                           *)
(*  - a run of 17 or 20 distinct bytes before repeats (literal length      *)
(*    >= 15, literal-length extension bytes);                              *)
(*  - long runs of one byte (match-length extension bytes and the          *)
(*    LZ4_write32 loop of 1020-byte groups);                               *)
(* with output capacities that are unlimited or limited at various points, *)
(* 10 being the one at which the match-length check fails after the       *)
(* literal check of a long match passed.                                   *)
(***************************************************************************)
EXTENDS LZ4Common

Rep(p, len) == [k \in 1 .. len |-> p[((k - 1) % Len(p)) + 1]]

\* change byte k (A <-> B); k = 0 changes nothing
Flip(s, k) == IF k = 0 THEN s ELSE [s EXCEPT ![k] = 131 - s[k]]

Patterns == UNION { [1 .. m -> {65, 66}] : m \in 1 .. 3 }

Periodic ==
    UNION { { Flip(Rep(p, len), k) : p \in Patterns, k \in 0 .. len } : len \in {16, 22} }

Short == { Rep(<< 65 >>, len) : len \in {0, 1, 5, 12, 13} }

Distinct(len) == [k \in 1 .. len |-> 66 + k]

LongLiterals == { Distinct(17) \o Rep(<< 65 >>, 12), Distinct(20) \o Distinct(9) \o Rep(<< 66 >>, 6) }

LongRuns == { Rep(<< 65 >>, len) : len \in {40, 300, 1100} }

MCInputs == Periodic \cup Short \cup LongLiterals \cup LongRuns

MCOutCapacity(len) ==
    { c \in { LZ4_compressBound(len), len \div 2 + 1, len - 1, 10, 3 } : c >= 0 }

=============================================================================
