--------------------------- MODULE MCLZ4HCRoundTrip ---------------------------
(***************************************************************************)
(* The HC encoder and the safe decoder composed, at levels 1 and 4 (the  *)
(* hash-chain parser), 9 (with pattern analysis), 10 and 12 (the optimal  *)
(* parser, without and with fullUpdate).  The inputs are periodic blocks  *)
(* with one byte changed, short and long-literal blocks, blocks that take *)
(* the parser's branches, and two blocks longer than 64 + MFLIMIT whose   *)
(* match exceeds sufficient_len at level 10 (64): at the first position   *)
(* of a turn, and at its cur = 2, and a block with two runs of one byte  *)
(* that takes pattern analysis's match from the counts alone.            *)
(***************************************************************************)
EXTENDS LZ4HCRoundTrip, LZ4Inputs

MCLevels == {1, 4, 9, 10, 12}

BranchInputs == {
    << 67, 68, 65, 67, 68, 65, 68, 65, 67, 68, 65, 67, 68, 65, 67, 68, 65, 68, 65, 67, 66, 65, 67, 66, 67, 68, 65, 67, 68, 65, 68, 65 >>,
    << 65, 65, 66, 66, 66, 65, 65, 66, 66, 66, 66, 66, 66, 66, 66, 66, 66, 66, 66, 67, 66, 66, 66, 67 >>,
    << 67, 66, 67, 66, 68, 67, 68, 66, 67, 66, 67, 66, 67, 66, 68, 67, 68, 66, 67, 66, 67, 66, 67, 66 >>,
    << 66, 68, 68, 66, 68, 68, 68, 66, 68, 68, 68, 68, 68, 68, 68, 68, 68, 68, 66, 68, 68, 68, 68, 67, 68, 68, 68, 66, 68, 68, 67, 68 >>,
    << 65, 65, 65, 68, 68, 65, 65, 68, 68, 65, 68, 68, 68, 68, 68, 65, 68, 68, 65, 68, 68, 65, 68, 68, 68, 68, 68, 68, 65, 68, 68, 68, 68, 68, 65, 65, 65, 68, 68, 65 >>,
    << 67, 68, 67, 68, 68, 67, 68, 67, 68, 67, 68, 68, 67, 68, 66, 67, 68, 66, 67, 68, 67, 68, 67, 68 >>,
    << 67, 66, 66, 66, 66, 66, 66, 67, 66, 66, 66, 66, 66, 67, 66, 66, 66, 66, 66, 66, 67, 66, 66, 66, 66, 66, 67, 66, 66, 66, 66, 66, 67, 66, 66, 66, 66, 66, 67, 66, 66, 66, 67, 66, 66, 66, 66, 66, 67, 66, 66, 66, 67, 66, 66, 67, 66, 66, 66, 67, 66, 66, 66, 66 >> }

\* a run whose match at ip 1 is 66 bytes long
RunImmediate == Rep(<< 65 >>, 72)

\* "xAAAAq" then "x" and a run: the first match at 6 is 5 long, and the
\* search at cur = 2 finds the run's match of 69
CurImmediate == << 120, 65, 65, 65, 65, 113, 120 >> \o Rep(<< 65 >>, 75)

\* a run of 6 and a longer one: at the second, the first candidate is 4
\* long, and pattern analysis takes the first run whole (6) from its
\* counts alone (lz4hc.c:389-398)
SplitRun == << 120 >> \o Rep(<< 65 >>, 6) \o << 113 >> \o Rep(<< 65 >>, 16)

HCInputs ==
    { Flip(Rep(p, 16), k) : p \in Patterns, k \in 0 .. 16 } \cup Short \cup BranchInputs
      \cup LongLiterals \cup { Distinct(17) \o Rep(<< 65 >>, 30), RunImmediate, CurImmediate,
         SplitRun }

====
