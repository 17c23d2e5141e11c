# TLA+ models of the LZ4 block codec

These modules model the C implementation in `src/src/sanitized/lz4.c` (the FAST
encoder, the decoder and their stream facades) and `src/src/sanitized/lz4hc.c`
(the HC encoder). They are checked with TLC. Each definition is translated from
the C source, and `PROJECT.json` maps each one to the lines it models.

## The system

The code is strictly sequential: no call suspends, and a stream object belongs to
one call at a time. What makes it hard is not concurrency. It is how pointers
near the ends of buffers behave, and the contract between encoder and decoder.

* **Byte primitives** (lz4.c:192-287): little-endian 16-, 32- and 64-bit reads and
  writes, `LZ4_copy8`, and `LZ4_wildCopy`, which copies whole 8-byte chunks and
  can write up to 7 bytes past its end.
* **`LZ4_count`** (lz4.c:416-436) measures how long a match is. It compares one
  word at a time, finds the first differing byte with `LZ4_NbCommonBytes`, then
  takes 4-, 2- and 1-byte steps near the limit.
* **FAST encoder** (`LZ4_compress_generic`, lz4.c:532-733, entered through
  `LZ4_compress_fast_extState`, lz4.c:736). It is a greedy parser with a
  single-entry hash table. The probe step grows on data that does not compress,
  and each match found is first extended backwards (catch-up). It emits a token,
  the literal-length extension bytes, the literals, the offset and the
  match-length extension bytes for each match, then a final literal run.
  * In limitedOutput mode, used when the capacity is below `compressBound`, it
    returns 0 once the output does not fit.
  * Two rules make the block decodable: the last 5 bytes are always literals,
    and no match starts within 12 bytes of the end (MFLIMIT).
* **destSize encoder** (lz4.c:798-951): a variant that fills a given output size,
  shortening the last match and the last literal run to fit.
* **FAST streams** (lz4.c:1000-1160): a dictionary window kept across calls, in
  prefix or external-dictionary mode, with index rebasing and `LZ4_saveDict`.
* **Decoder** (`LZ4_decompress_generic`, lz4.c:1169-1344). One function
  specialised by its arguments:
  * safe or fast;
  * full or partial;
  * no dictionary, a 64 KB prefix, or an external dictionary.

  Its main loop reads a sequence at a time. A shortcut handles small
  sequences. Literals and matches are copied with wild copies. Offsets below 8
  get a special first copy through `inc32table`/`dec64table`, and the end of the
  output is copied a byte at a time. The stream and dictionary variants are at
  lz4.c:1374-1500.
* **HC encoder** (lz4hc.c): a hash-chain match finder (`LZ4HC_Insert`, widening
  and pattern counting) used by two parsers, the hash-chain parser and the
  optimal, price-based parser, plus its own streams.

The encoder and the decoder interact only through the block format. What matters
is that every block the encoder emits is accepted by the decoder's end-of-block
tests and decodes to the input. The round-trip model checks exactly that.

## Modules

| Module | Models | State and steps |
|---|---|---|
| `LZ4Common` | byte primitives, `LZ4_count`, `LZ4_NbCommonBytes`, `LZ4_hash4` (byU16) | Operators only. A buffer is a function from address to byte. Words are byte tuples, because TLC integers are 32 bits wide. The hash multiplies in 8-bit limbs and keeps the top bits of the 32-bit product. |
| `LZ4Compress` | `LZ4_compress_fast_extState` and the noDict, byU16 instance of `LZ4_compress_generic` | Variables `src`, `dst`, `hashTable`, `enc` (the C locals ip, anchor, op, token, match, forwardIp, step, searchMatchNb, forwardH, matchCode, pc) and `written`, a ghost holding one past the highest `dst` byte written. |
| `LZ4Decode` | `LZ4_decompress_safe` (noDict) and `LZ4_decompress_safe_forceExtDict` (usingExtDict, a dictionary at address 0 and dest at 16): the safe/full instances of `LZ4_decompress_generic` | Variables `csrc`, `out` (longer than the capacity, so that overruns show) and `dec`. `dec` holds the C locals, the cursors of a wild copy in progress and ghosts: `maxWrite`, `overread`, `ref` (the bytes the block format defines) and `zeroOffset`. |
| `LZ4DestSize` | `LZ4_compress_destSize`, byU16 instance of `LZ4_compress_destSize_generic` (lz4.c:798-990) | Like `LZ4Compress`, with `ds` holding the locals and `consumed` (`*srcSizePtr`). The output limits oMaxLit, oMaxMatch and oMaxSeq are definitions. `EncodeMatchEnd` is the two `break`s of lz4.c:909-910. `LastLiterals` includes the trim of 929-933. |
| `LZ4DestSizeRoundTrip` | a caller of `LZ4_compress_destSize` that decodes with `LZ4_decompress_safe(dst, regen, result, *srcSizePtr)` | `INSTANCE`s `LZ4DestSize` and `LZ4Decode`. |
| `LZ4DecodeStream` | `LZ4_setStreamDecode` and `LZ4_decompress_safe_continue` (lz4.c:1388-1430) | Variables `sd` (lz4sd: prefixSize, prefixEnd, externalDict, extDictSize), `calls`, and the ghost `hist`, the stream's history (the dictionary, then every block decoded). `out` is one memory shared by all calls. Each call runs `LZ4Decode` in usingExtDict mode with `ref` starting from `hist`. |
| `LZ4HC` | `LZ4_compress_HC` and `LZ4_compress_HC_destSize` at every level: the level table, `LZ4HC_Insert`, `LZ4HC_InsertAndGetWiderMatch` with its prefix and external-dictionary candidates, chainSwap and pattern analysis (`LZ4HC_countPattern`, `LZ4HC_reverseCountPattern`, `LZ4HC_protectDictEnd`), `LZ4HC_countBack`, `LZ4HC_encodeSequence`, `LZ4HC_compress_hashChain` and `LZ4HC_compress_optimal` (lz4hc.c:74-943, 1214-1537) | Variables `src`, `dst`, `hashTable`, `chainTable` (16-bit deltas indexed by `(ushort)idx`), `nextToUpdate`, `hc` (the parsers' locals: ip, anchor, op, optr, ml/ref, start0/ref0/ml0, ml2/start2/ref2, ml3/start3/ref3 of the hash-chain parser; the price table `opt` over the positions set in a turn, cur, last_match_pos and rPos of the optimal one; the level's strategy, nbSearches, sufficient_len and fullUpdate; the limit mode and the label as `pc`) and the ghost `written`. Indices start at 64 KB as `LZ4HC_init_internal` sets them. A search is one operator, `GetWiderMatch`, run inside the parser step that calls it; its chain walk is a recursive operator with one step per turn of the C loop (`WalkStep`). |
| `LZ4HCStream` | `LZ4_initStreamHC`, `LZ4_resetStreamHC`, `LZ4_resetStreamHC_fast`, `LZ4_setCompressionLevel`, `LZ4_loadDictHC`, `LZ4_compress_HC_continue`, `LZ4_compress_HC_continue_destSize` (through `LZ4_compressHC_continue_generic`, `LZ4HC_setExternalDict`, `LZ4HC_init_internal` and `LZ4HC_compress_generic_internal`) and `LZ4_saveDictHC` (lz4hc.c:93-135, 790-815, 951-1145) | `H == INSTANCE LZ4HC` over the caller's memory `src` (a dictionary buffer, a safe buffer and a ring of input blocks), with `hashTable`, `chainTable` and `nextToUpdate` kept across calls. `ctx` is the context: base, end, dictBase, dictLimit, lowLimit, dirty and level, with NULL as 0 and the end pointer -1 of `LZ4_initStreamHC` as -1. The ghosts are `hist` (the bytes a decoder holds) and `win` (`hist` when the current call began). `phase` is where a continue call is, then `ringPos` and `calls`. |
| `LZ4HCRoundTrip` | a caller of `LZ4_compress_HC` or `LZ4_compress_HC_destSize` that decodes with `LZ4_decompress_safe` | `INSTANCE`s `LZ4HC` and `LZ4Decode`. |
| `LZ4Stream` | `LZ4_resetStream`, `LZ4_loadDict`, `LZ4_renormDictT`, `LZ4_compress_fast_continue` with the byU32 withPrefix64k/usingExtDict instances of `LZ4_compress_generic`, and `LZ4_saveDict` (lz4.c:483-755, 998-1155) | Variables `mem` (the caller's memory: a dictionary buffer, a safe buffer and a ring of input blocks), `stream` (hashTable, currentOffset, dictionary, dictSize), the ghosts `hist` (the bytes since the last reset or loadDict, as a decoder holds them) and `last` (the last call's input, block, result and the decoder's window), `ringPos` and `calls`. One API call is one step. `LZ4_compress_generic` is the operator `Compress`, a recursion `Run` over the labels of the C function (search, literals, match, last literals) with the arguments and entry pointers in a record `g`. The byU32 hash is `LZ4_hash5`, computed in 8-bit limbs. `initCheck` is left out: no function of lz4.c sets it. |
| `LZ4Block` | the block format of spec.md 4.3 and 4.9, as the promise of a safe decoder (abstract) | Variables `block`, `window`, `cap`, `produced`, `result`, `status`. `Parse` (RECURSIVE) splits a block into literal runs and matches; `DecodeFrom` (RECURSIVE) is the reference decoding and the element boundaries. `Emit` appends up to a later boundary, `Accept` returns the decoded size of a complete, in-window block that fits, `Reject` is allowed only for a block that is not `Decodable`. |
| `MCLZ4Decode` (refinement part) | the refinement of `LZ4Block` by `LZ4Decode` | `Block == INSTANCE LZ4Block WITH` the compressed bytes from `csrc`, the window from the dictionary bytes in `out`, `produced` from `out[dst .. op-1]`, and status and result from `pc` and `dec.result`. The decoder's ghost `ref` is not used. |
| `LZ4RoundTrip` | a caller that compresses a block, then decodes it with `LZ4_decompress_safe(dest, regen, result, inputSize)` | `INSTANCE`s `LZ4Compress` and `LZ4Decode`. `Handoff` passes `dst[0..result-1]` to the decoder. |

The compressor's actions are one step per loop iteration of the C function:

| Action | lz4.c lines | What the C code does |
|---|---|---|
| `Start` | 562-584 | Init conditions and the first byte. |
| `SearchProbe` / `SearchGiveUp` | 596-618 | One probe of the do/while. |
| `EncodeLiterals` | 621-641 | Catch-up, the output check, the token and extension bytes, and the literal wild copy. |
| `NextMatch` | 643-665 | The offset and `LZ4_count`. |
| `EncodeMatchOverflow` / `EncodeMatchLast` / `EncodeMatchNext` | 667-710 | The output check, the match-length bytes, the end test, the table fill at ip-2, and the next-position test, including the immediate-match path with a zero token. |
| `LastLiterals` | 713-732 | The final literal run. |

The HC parser's actions are the labels and gotos of `LZ4HC_compress_hashChain`
(lz4hc.c). Each one includes the search it calls and the sequences it encodes:

| Action | lz4hc.c lines | What the C code does |
|---|---|---|
| `Start` | 565-569, 793-813, 1305-1306 | fillOutput with no room, the level's parser, the `oend -= LASTLITERALS` hack, the minLength test (hash chain) or the clamp of sufficient_len (optimal). |
| `MainSearch` / `MainEnd` | 571-576 | `LZ4HC_InsertAndFindBestMatch` at ip; ip++ on no match; the loop end. |
| `Search2SameML` / `Search2Longer` | 578-604 | `_Search2`: the wider search from ip+ml-2, then encode ML1, restore ML0, or drop ML1 and `goto _Search2`. |
| `Search3Of` | 606-630 | `_Search3`: the OPTIMAL_ML correction of ML2, and the search from start2+ml2-3. |
| `Encode2Seqs` | 632-642 | ML3 is no better: encode ML1 (cut at start2) and ML2. |
| `Seq3AfterML1` | 644-667 | ML1 can be written now; ML2 is cut or replaced by ML3; `goto _Search2`. |
| `Seq3ReplacesML2` | 669-673 | ML3 replaces ML2; `goto _Search3`. |
| `EncodeML1Of3` | 676-706 | Three ascending matches: cut and encode ML1, shift the matches down. |
| `LastLiterals` | 709-738 | The final literal run, with the fillOutput trim. |
| `Overflow` (inside the encoding steps) | 740-745 | `_dest_overflow`: op = optr and the last literals in fillOutput mode, else 0. |

The optimal parser's actions (`LZ4HC_compress_optimal`, levels 10-12) take one
step per turn of each of its loops. Every search is `LZ4HC_FindLongerMatch`, the
wider search with iLowLimit = ip, pattern analysis and chainSwap:

| Action | lz4hc.c lines | What the C code does |
|---|---|---|
| `OptMainEnd` / `OptNoMatch` | 1310-1316 | The main loop's end; no first match at ip: ip++. |
| `OptImmediate` | 1318-1326 | A first match longer than sufficient_len is encoded at once. |
| `OptFirstPrices` | 1328-1365 | `opt[]` from the first match: literal prices below MINMATCH, the match at every length, three trailing literals (`FirstPrices`). |
| `OptCurEnd` | 1365-1369, 1461-1466 | The cur loop ends at last_match_pos or past mflimit; the last cell is the path's last step, then the reverse traversal (`Reverse`, 1470-1484). |
| `OptSkip` | 1372-1381 | Not useful to search at cur: the next position costs no more (and, with fullUpdate, cur+MINMATCH is cheap). |
| `OptCurNoMatch` / `OptCurImmediate` | 1383-1398 | The search at cur finds nothing; or a match past sufficient_len or LZ4_OPT_NUM ends the turn with last_match_pos = cur+1. |
| `OptCurPrices` | 1400-1458 | Literal prices after cur, the match at each length where it is cheaper or past last_match_pos + 3, then trailing literals (`CurPrices`). |
| `OptEncodeLiteral` / `OptEncodeMatch` / `OptEncodeDone` | 1486-1500 | The encoding loop over the path: a literal cell moves ip; a match cell is encoded with opSaved = op. |

The decoder takes one step per pass of its loop or per `LZ4_copy8`:

| Action | lz4.c lines |
|---|---|
| `EmptyOutput` | 1202 |
| `Shortcut` | 1217-1228 |
| `LastLiterals` | 1244-1257 |
| `Literals` / `LiteralChunk` | 1243-1260 |
| `OffsetError`, `MatchLengthError`, `DecodeOffset` | 1262-1279 |
| `MatchTailError` / `MatchFirst8` | 1306-1321 |
| `MatchChunk` | 1322-1330 |
| `MatchBytes` | 1327-1332 |
| `ExtDictMatchError` / `ExtDictMatch` | 1281-1304 (usingExtDict only: a match before lowPrefix, copied from the dictionary's end and then from lowPrefix) |

The stream's actions:

| Action | lz4.c lines |
|---|---|
| `DecompressSafeContinue` | 1406-1423: the choice of prefix or external-dictionary mode, with lz4sd's dictionary fields set first in the latter, and the call |
| `ContinueReturn` | 1415-1429: the error return, or the update of prefixSize/prefixEnd |
| `SaveAndSetStreamDecode` | the caller saves the last k bytes and calls `LZ4_setStreamDecode` (1388-1395), as 1398-1403 tell it to |

The FAST stream's actions (`LZ4Stream`):

| Action | lz4.c lines |
|---|---|
| `ResetStream` | 998-1002 |
| `LoadDict` | 1015-1044: the reset past 1 GB, the short-dictionary case, the last 64 KB, the `currentOffset += 64 KB` bias and the seeding every 3 bytes (`SeedTable`) |
| `CompressContinue` | 1066-1111: `smallest`, `LZ4_renormDictT` (1047-1063), the overlap trim (1077-1085), prefix or external-dictionary mode with dictSmall or noDictIssue, the call of `LZ4_compress_generic` (545-755), and the dictionary update |
| `SaveDict` | 1141-1155: the two clamps, the memmove and the re-pointing |

The HC stream's actions (`LZ4HCStream`). A continue call is one step per check
of `LZ4_compressHC_continue_generic`, then the parser's steps, then the return:

| Action | lz4hc.c lines |
|---|---|
| `ResetStreamHC` / `ResetStreamHCFast` | 992-1010: a full init, or, on a clean stream, end rebased to the index end - base and base NULL (`FastReset`) |
| `LoadDict` | 1027-1046: the last 64 KB, a full re-init keeping the level, `LZ4HC_init_internal` and `LZ4HC_Insert` up to end - 3 |
| `CompressContinue` | 1109-1121: limitedOutput, notLimited or fillOutput, and the arguments |
| `AutoInit` | 1079 with `LZ4HC_init_internal` (99-113), which clears the tables past 1 GB |
| `CheckOverflow` | 1082-1087: past 2 GB, `LZ4_loadDictHC` of the last 64 KB of the prefix |
| `CheckFollow` | 1089-1091 with `LZ4HC_setExternalDict` (1054-1070) |
| `CheckOverlap` | 1093-1101 (the trim and its `< 4` rule), then 790-797 (the fillOutput early return and `ctx->end += *srcSizePtr`) |
| `Parse` | 801-804: one step of the level's parser, `LZ4HC_compress_hashChain` or `LZ4HC_compress_optimal` (the `LZ4HC` actions) |
| `Return` | 813-815: `dirty` when the result is not positive |
| `SaveDictHC` | 1126-1145: the three clamps, the memmove and the re-pointing, `nextToUpdate` raised to dictLimit |

The caller writes each block either at its next ring position (wrapping to the
ring's start) or right after the dictionary when that lies in the dictionary or
safe buffer, so both prefix and external-dictionary calls happen. A block whose
result is 0 is still part of the stream, as the code counts it.

A decoder-stream call's output region may not overlap the window it reads. This is the
contract at lz4.c:1398-1403.

Closed forms stand for loops whose effect is a fixed function of their inputs:

* the word loop of `LZ4_count` (the first differing word);
* the byte loop at the end of a match (a periodic copy);
* the wild copy of literals from another buffer.

Each is an exact translation of what the loop computes.

## Runs

| Run | Checks | Result |
|---|---|---|
| `decode` | Blocks decoded without a dictionary and after an 8-byte external dictionary. `DecoderWritesWithinCapacity`: no byte is written at or past oend. `DecoderRefinesBlock`: `LZ4Decode` implements `LZ4Block`. The output below op is always the reference decoding up to an element boundary. A success happens only on a complete block whose offsets stay in the history and that fits, and it returns the decoded size. A failure happens only on a block that breaks the format, the end-of-block rules or the capacity, so the decoder accepts every block it must. The blocks exclude offset 0 (see `decode_zero_offset`) and include blocks whose last match starts exactly MFLIMIT bytes before a 14-byte output. `DecoderTerminates`. | pass, 89,729 states |
| `decode_overread` | `DecoderReadsWithinInput` | violation (finding) |
| `decode_zero_offset` | `SafeDecoderRejectsZeroOffset` | violation (finding) |
| `destsize` | `DestSizeWritesWithinTarget`: nothing is written past targetDstSize. `DestSizeRoundTrip`: the block fits, and decoding it with the consumed size as capacity gives back exactly the consumed prefix. Every target from 0 up to compressBound - 1 is tried. | pass, 383,591 states |
| `decode_stream` | `StreamDecodedExact`: over up to three `_continue` calls, every decoded byte is the block format's byte against the stream's history. `WindowHoldsHistory`: between calls, the prefixSize bytes before prefixEnd are the last bytes of the history, and the extDictSize bytes at externalDict come just before them. The caller stops, or re-points the stream, after an error. | pass, 1,717,899 states, about 90 s |
| `decode_stream_continue_after_error` | `StreamDecodedExact`, for a caller that keeps decoding after an error | violation (finding) |
| `hc_roundtrip` | Levels 1, 4 and 9 (hash-chain parser; pattern analysis at 9) and 10 and 12 (optimal parser; fullUpdate at 12), every limit mode. `HCRoundTrip`: the block fits the capacity, the consumed size is the whole input unless fillOutput, and decoding gives back exactly the consumed bytes. `HCWritesWithinCapacity`: no byte past the capacity (or compressBound when not limited). `HashChainsExact`: after every step, each chain entry is the saturated distance to the previous inserted position with the same hash, and each hash head is the last inserted position. `ParseAdvances`: every parser step moves the anchor forward, or keeps it and moves to a later label, or keeps both and moves the match end forward; in the optimal parser, every step increases (ip, loop, position) in lexicographic order, where the position is cur in the cur loop and rPos in the encoding loop (whose ip is counted from the turn's start); it stands for termination of the goto loops and of the optimal parser's three loops. | pass, 121,715 states, about 65 s |
| `roundtrip` | Accelerations 0 (the default, 1) and 2. `RoundTrip`: the decoded block equals the input. `EncoderWritesWithinCapacity`: no byte is written past maxOutputSize (limited) or compressBound (unlimited), wild-copy overruns and `LZ4_write32` 0xFF runs included. `RoundTripCompletes`. | pass, 44,184 states |
| `stream` | Up to five calls of reset, loadDict, compress_fast_continue and saveDict. `StreamRoundTrip`: every block a call returns decodes, by `LZ4Block`, against the last 64 KB of the stream before it, to exactly its input. `DictionaryIsHistory`: after every call, the dictSize bytes at `dictionary` are the last dictSize bytes of the stream. | pass, 48,914 states, about 2 min |
| `hc_stream` | At levels 4 (hash-chain parser) and 10 (optimal parser), up to four calls of resetStreamHC, resetStreamHC_fast, loadDictHC, compress_HC_continue (limited and not), continue_destSize with a target that takes the whole block, and saveDictHC. `HCStreamRoundTrip`: every block a call returns decodes, by `LZ4Block`, against the stream's earlier bytes to exactly the bytes it consumed. `WindowIsHistory`: between calls, lowLimit <= dictLimit <= nextToUpdate <= end - base (spec.md 3), and the external dictionary followed by the prefix, read where dictBase and base place them, are the last bytes of the stream. | pass, 195,879 states, about 190 s |
| `hc_stream_destsize_window` | `HCStreamRoundTrip`, for a caller that uses `LZ4_compress_HC_continue_destSize` with a target that consumes part of a block | violation (finding) |
| `stream_block_over_previous` | `StreamRoundTrip`, for a caller whose ring holds one block, so each block is written over the previous one | violation (finding) |

Each property of a passing run has a mutant in `PROJECT.json`: a plausible bug in
the mapped code that TLC catches. Examples are a literal check without the
reserve for the offset and last literals, a shortcut that ignores the literal
room, a wrong `inc32table` entry, `LZ4_count` started at ip rather than
ip + MINMATCH, and a 4-byte count step that may reach the limit (caught by
`RoundTrip`). For the HC stream they are a fast reset that leaves base set, an
overlap trim that keeps the whole dictionary, and `LZ4_saveDictHC` without its
clamp to the prefix size.

### Bounds, and why they are enough

* **Hash table:** `HashLog = 1`, so the byU16 table has 4 slots. Collisions and
  stale entries are therefore frequent, which is the case the candidate check
  must handle.
* **Encoder inputs** (`LZ4Inputs`):
  * lengths 0, 1, 5, 12 and 13, around LZ4_minLength;
  * periodic inputs of 16 and 22 bytes with one byte changed at every position;
  * distinct bytes;
  * runs of 40, 300 and 1100 bytes, which take the 15-, 255- and 1020-byte
    length extensions and the `LZ4_write32` loop;
  * a 131-byte literal run.
* **Encoder capacities:** compressBound, about half of it, len - 1, 10 and 3, so
  each output check fails somewhere.
* **Decoder blocks** (`MCLZ4Decode`):
  * every token/offset shape where a branch changes: offsets 0..9, 18 and 2,
    nibbles 0/5/15, extensions 0 and 255+1, literal runs of 0, 2, 7 and 14;
  * every truncation of those blocks;
  * all strings of up to 2 bytes over the boundary byte values.
* **Decoder capacities:** 0, 6, 14, 20, 24, 36 and 50, which put oend on each
  side of the shortcut, MFLIMIT and tail tests.
* **Decoder stream** (`MCLZ4DecodeStream`):
  * an 8-byte dictionary, or none;
  * destinations 16 and 40, and prefixEnd;
  * capacities 8 and 20;
  * up to three calls;
  * saves of 0 or 3 bytes to address 64.

  Its blocks have matches at offsets 1, 2, 6, 9 and 3, 12 after two literals.
  Starting a block in a new buffer after the dictionary, these take each of the
  three copy cases of lz4.c:1285-1302 and the offset error. A 16-byte match
  reaches the parsing-restriction error at 1283, and a truncated block
  fails. Each block has its own literal bytes, so a byte copied from the wrong
  place is seen.

* **HC** (`MCLZ4HCRoundTrip`):
  * `HCHashLog = 2`: a 4-slot hash table, so chains mix positions of
    different 4-byte sequences, and the read32 check must reject them;
  * levels 1 and 4 (2 and 8 attempts), so the attempt budget runs out on some
    chains and not on others; 9 (256 attempts), where pattern analysis is on;
    10 (sufficient_len 64) and 12 (fullUpdate, sufficient_len 4096, so only
    the 64-byte and longer inputs reach the immediate encodings at level 10);
  * periodic 16-byte inputs with one byte changed at every position, the short
    and long-literal inputs, and seven inputs found by searching random
    structured inputs with a C-faithful simulator, one for each branch of
    `_Search2`/`_Search3` (drop ML1, restore ML0, ML3 after ML1, ML3 replaces
    ML2, the three-match cut, the OPTIMAL_ML cut, a 64-byte input whose match
    is clipped);
  * for the optimal parser, a run of 72 bytes whose first match (66) exceeds
    sufficient_len at level 10, and "xAAAAqx" before a run of 75, whose first
    match is short and whose search at cur = 2 finds the run's match, so
    `OptCurImmediate` fires;
  * "x", six A, "q", sixteen A: at the second run the first candidate is 4
    long, and pattern analysis takes the first run whole from its counts
    alone (lz4hc.c:389-398), the one place where a match is set without
    comparing bytes. An overcount of one byte in `RunForward` then breaks
    `HCRoundTrip`, where it goes unseen on the other inputs.

  Every action of both parsers fires in the `hc_roundtrip` run. The LZ4_OPT_NUM
  exit of the cur loop (1392) needs a match reaching 4096 positions past the
  turn's start and is not reached; its action is the same as the
  sufficient_len exit's.

* **FAST stream** (`MCLZ4Stream`):
  * 64 KB is 32, 1 GB is 32 and 0x80000000 is 64, so the window limit, the
    reload reset and both renormalisation triggers (the threshold, and
    currentOffset above the address `smallest`) occur within five calls;
  * an 8-slot byU32 table (`HashLog = 3`), so entries of earlier blocks and of
    the dictionary stay in the table and are met as candidates;
  * a 5-byte dictionary, below HASH_UNIT, which `LZ4_loadDict` refuses, and a
    34-byte one of distinct bytes, longer than the window and cut to its
    last 32 bytes;
  * blocks of 14 and 13 distinct bytes, a periodic 14-byte block and a
    6-byte block below LZ4_minLength; capacities compressBound and half the
    length, so calls fail as well;
  * a ring of 28 bytes: two 14-byte blocks, so a wrapped block overwrites
    the head of the window and is trimmed, and windows of 14 bytes (below
    the 32-byte window) make dictSmall matter. With a 16-byte window the
    dictSmall test never decides anything, because the stale entries it
    rejects are also beyond MAX_DISTANCE;
  * saveDict sizes 6 and 40 (above the window, so both clamps act).

* **HC stream** (`MCLZ4HCStream`):
  * 64 KB is 16, 1 GB is 32 and 2 GB is 40, so a third 14-byte block in a row
    passes the overflow threshold and is reloaded, and a fast reset after two
    blocks clears the tables while one after a single block keeps them;
    `LZ4_DISTANCE_MAX` and the 16-bit chain slots are as in the code;
  * a 4-slot hash table (`HCHashLog = 2`), level 4 (8 attempts) and level 10
    (the optimal parser, with pattern analysis and chainSwap), so chains cross
    from the prefix into the external dictionary;
  * a 20-byte dictionary, 12 distinct bytes and 8 A, clamped to its last 16
    bytes, whose distinct part occurs in the 14-byte blocks;
  * blocks of 14 distinct bytes, the same with byte 7 changed, their first
    7 bytes, and 9 A then 5 distinct bytes: after the dictionary in external
    mode, pattern analysis measures this run forward from the dictionary into
    the prefix and backward from the prefix into the dictionary
    (lz4hc.c:356-366), both of which fire at level 10; capacities
    compressBound and 8 (limitedOutput fails);
  * a ring of 27 bytes at 100: a 14-byte block after a 7-byte one wraps over
    the first block, and the overlap trim cuts the dictionary, to nothing when
    fewer than 4 bytes would remain;
  * saveDictHC sizes 6 and 20 (above 64 KB, and clamped to the prefix);
  * up to four calls.

  Probes of this configuration reached the overflow reload, the table clear,
  the `< 4` trim, external-dictionary matches, a failed limited call (dirty)
  and a fast reset of a dirty stream.

  Probes of the FAST stream configuration reached prefix, external-dictionary and
  dictSmall matches, both renormalisation triggers, the overlap trim and the
  loadDict reset.

### Fairness

The specifications assume weak fairness of `Next`. The code is a single thread
that runs a call to completion, and nothing else can take a step, so a call that
can go on does go on. The runs set `CHECK_DEADLOCK FALSE` because every call
ends in a final state ("done") where nothing is enabled. The stream runs
bound the number of calls by `MaxCalls`, and a caller may stop at any point.

`LZ4HCStream` assumes weak fairness of `CallSteps`, the steps of a continue
call after its entry: the caller makes no further call before one returns,
so a call that has begun runs to its return, and the caller may stop between
calls. A liveness property over this specification (every call returns)
costs TLC's temporal checking more than eight times the safety run here. The
stream setup is straight-line code, and the parser's termination is
`ParseAdvances` of `hc_roundtrip`, so the property is not checked.

`LZ4HC` states termination of the parser as the action property
`ParseAdvances` (a variant that decreases on every step) instead of a
temporal property. The variant is exactly what the gotos need: `_Search2` and
`_Search3` are re-entered only with a match that starts later or is longer. For the optimal parser the variant is (ip, loop, position): the main loop
moves ip, the cur loop moves cur, and the encoding loop moves rPos and ip by the
same amount, so ip - rPos, the turn's start, stays fixed while rPos grows.

While modelling, one branch of `LZ4HC_compress_hashChain` turned out to be
unreachable: the `(start2 - ip) < OPTIMAL_ML` case of the three-match cut
(lz4hc.c:682-691). `_Search3` has already moved start2 to at least
ip + min(ml, OPTIMAL_ML), unless ML2 was cut to exactly MINMATCH, and in that
case the new ML3 starts before ip + ml + 3 and the code takes line 644
instead. The model keeps the branch; no reachable state takes it.

## Findings

1. **Zero offset accepted** (spec_code_divergence, lz4.c:1265). The safe decoder
   only checks `match + dictSize < lowPrefix`. A block whose offset is 0 is
   decoded, copying the 4 bytes `LZ4_write32(op, offset)` just wrote. spec.md
   (sections 6 and 7, and the "Corrupt offset" scenario) requires a negative
   result.
2. **Input over-read** (code_bug, lz4.c:1211). The token is read before ip is
   compared with iend, so `LZ4_decompress_safe(src, dst, 0, 6)` reads `src[0]`.
   A block truncated after a match likewise reads one byte past the input. The
   literal-length loop (1234-1237) also reads before it tests. spec.md 4.9 says
   the safe mode validates every cursor against the input bounds. TLC's trace
   is the first case: srcSize 0 and outputSize 6, so the empty-output return
   of 1202 (a test of `outputSize==0`, which `EmptyOutput` guards on) does not
   apply and `BeginLoop` goes on to read the token at `src[0]`.
3. **A failed call leaves the stream's dictionary changed** (spec_gap,
   lz4.c:1420). In external-dictionary mode, `LZ4_decompress_safe_continue`
   sets `extDictSize` and `externalDict` from the prefix before decoding, and an
   error returns without undoing that. The external dictionary then aliases the
   prefix. TLC's trace:
   * an 8-byte dictionary;
   * a block that fails at another destination;
   * a block at prefixEnd with an offset that reaches before the start of the
     stream. The decoder accepts the offset and copies dictionary bytes for it.

   spec.md makes recovery a non-goal. It does not say that a stream is
   unusable after an error.
4. **A block written exactly over the previous one is compressed against
   itself** (code_bug, lz4.c:1080). `LZ4_compress_fast_continue` trims the
   dictionary when the new input overwrites its head, but only when
   `sourceEnd < dictEnd`. A block of the same length at the same address
   (a caller reusing one input buffer without `LZ4_saveDict`) keeps the
   whole overwritten dictionary in usingExtDict mode. TLC's trace compresses
   ABAB...AB (14 bytes) and then the same bytes with byte 7 changed, at the
   same address. The second block is one 9-byte match at offset 14, which
   the encoder verified against the new bytes themselves; decoded against
   the first block it gives ABABABABA... The comment at 1079 and the partial
   trim say an overwritten dictionary is dropped. `LZ4_saveDict`'s comment
   asks callers to keep earlier blocks in place, so the boundary case only
   bites callers who break that.

5. **A destSize call leaves unconsumed bytes in the HC stream's window**
   (code_bug, lz4hc.c:796). `LZ4HC_compress_generic_internal` advances
   `ctx->end` by the whole input size before the parser runs. In fillOutput
   mode the parser then consumes only `*srcSizePtr` bytes. The window ends
   with input bytes that no returned block carries. `LZ4_saveDictHC` copies
   them to the safe buffer, and the next block matches against them. TLC's
   trace:
   * a 14-byte block is compressed by `LZ4_compress_HC_continue_destSize` into
     8 bytes, consuming 7;
   * `LZ4_saveDictHC` saves the window;
   * a 14-byte block at the ring's start gets a match at offset 14, into the
     7 bytes the decoder never received.

   spec.md section 3 says `end` is "the next input position to be consumed".
   Section 8 property 2 asks that a stream's block decode with the
   dictionary it was compressed against.

While modelling the FAST encoder, a difference of wording also showed. spec.md
4.3 says the last 12 bytes of a block "MUST NOT be covered by a match". The
encoder extends matches up to `matchlimit = iend - LASTLITERALS` (lz4.c:663),
and only the start of the last match lies MFLIMIT bytes before the end. On 16
equal bytes it emits 1 literal, a 10-byte match and 5 literals. The decoder's
tests (1244-1245, 1319-1321) enforce the code's rule, and `LZ4Block`'s
`EndRulesOK` states it; no run checks spec.md's wording.

While stating `LZ4Block`, TLC also showed a small inconsistency in the decoder.
The one-byte block `<<5>>` (a final run of length 0 whose token declares a
match) decodes to the empty output when the capacity is at least 1. With
capacity 0 it is rejected, because lz4.c:1202 accepts only the byte 0. The
abstract spec counts a final token with a match nibble as not `Decodable`, so
the decoder may reject it.

## Not modelled (yet), and the plan

Not modelled:

* The pointer-wrap tests (lz4.c:1238-1239, 1277) and the 64 KB input limit,
  because buffer sizes are bounded.
* The byU32/byPtr tables, used only for inputs of 64 KB or more, in both the FAST
  and destSize encoders.
* Big-endian hosts and 32-bit hosts (STEPSIZE 4).
* Allocation and the obsolete wrappers, and `LZ4_compress_forceExtDict`
  (lz4.c:1114-1132), a hidden debug entry point.
* In the HC encoder: `favorDecSpeed` (set only by
  `LZ4_favorDecompressionSpeed`, off by default: the shortcut of
  lz4hc.c:1269-1271 and the price bias of 1438), `LZ4_attach_HC_dictionary`
  and the dictCtx branch of the chain walk (412-439). The optimal parser's
  price table is modelled only over the positions a turn sets, at inputs of
  at most 82 bytes; level 11 is the optimal parser of level 10 with other
  numbers, and is not run.
* The separate check that `LZ4_count` equals a byte-by-byte common prefix. A
  wrong count step breaks `RoundTrip`, which is checked instead.
* `LZ4_decompress_fast_continue` and the `*_usingDict` functions, which forward
  to decoder instances with fixed arguments, and the withPrefix64k and
  endOnOutputSize (fast) decoder instances.

Later sittings, in order:

1. (Done: `LZ4DestSize`, for the byU16 table.)
2. (Done: `LZ4Stream`, checked against `LZ4Block` with the stream's history as
   the window.) Next, compose it with `LZ4DecodeStream`, so that the decoder
   stream's own window bookkeeping decodes what the encoder stream emits.
3. (Done: `LZ4Block`, with `LZ4Decode` shown to refine it.) Next, the stream
   decoder against the same promise, with the stream's history as the window.
4. (Done: `LZ4HC`, both parsers with pattern analysis and chainSwap, with its
   round trip, and `LZ4HCStream`, the HC streams with the extDict branch of
   the chain walk, at a hash-chain and an optimal level.)
   Next, compose `LZ4HCStream` with `LZ4DecodeStream`, as for the FAST
   stream.
