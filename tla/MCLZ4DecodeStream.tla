------------------------- MODULE MCLZ4DecodeStream -------------------------
(***************************************************************************)
(* A stream of up to three blocks decoded after an 8-byte dictionary, or  *)
(* none, into two buffers and contiguously.  The blocks are a literal run *)
(* and single matches whose offsets stay in the prefix, cross lowPrefix   *)
(* into the external dictionary with a rest shorter or longer than the    *)
(* prefix already written, lie wholly in the dictionary, or reach past    *)
(* it; a 16-byte match that ends within LASTLITERALS of oend; and a       *)
(* truncated block.  Each block has its own literal bytes, so that a byte *)
(* taken from the wrong place shows.                                      *)
(***************************************************************************)
EXTENDS LZ4DecodeStream

LitsFrom(base, n) == [k \in 1 .. n |-> base + k]

\* ll literals, a match of ml + 4 at offset off, and 5 final literals
Blk(ll, ml, off, base) ==
    << ll * 16 + ml >> \o LitsFrom(base, ll) \o LE16(off)
      \o << 5 * 16 >> \o LitsFrom(base + ll, 5)

MCDict == [k \in 1 .. 8 |-> k]

MCStreamBlocks ==
    { << 5 * 16 >> \o LitsFrom(100, 5), << 0, 3, 0 >> }
      \cup { Blk(0, 0, off, 110) : off \in {1, 2, 6, 9} }
      \cup { Blk(2, 1, off, 120) : off \in {3, 12} }
      \cup { Blk(0, 12, 6, 130) }

=============================================================================
