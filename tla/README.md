# Verification of cmpr

`src/` holds a library of compression codecs in Rust (`crates/codecs`), a
command-line tool over it (`crates/cli`) and a test kit. This directory holds
TLA+ modules translated from that code, TLC configurations that check them on
small instances, and TLAPS proofs of what matters most for all instances.
Paths in this file are relative to `src/crates/codecs/src/` unless they start
with `src/`.

The library does no input or output and starts no threads. Each codec is a pair
of pure functions, `compress` and `decompress`, tied together by one promise:
for every input `x`, `decompress(compress(x))` is `x`, and `decompress` on
anything else returns an error or some other bytes, but neither panics nor
produces more than `expected_len`. What is hard is inside the functions. An encoder and
a decoder, written apart, keep state in step over a stream that carries none of
it. Search structures live in rings that overwrite themselves. Arithmetic is
exact only because of a bound proved in a comment. Error paths are taken only on
streams no test writes. Those are what the modules model, loop iteration by loop
iteration, so that the interesting states *between* iterations are checked too.

Contents: [inventory](#inventory) · [modules](#modules) · [runs](#runs) ·
[fairness](#fairness) · [proofs](#proofs) · [findings](#findings) ·
[not modelled](#not-modelled) · [plan](#plan)

## Inventory

| component | source | state | operations | talks to |
|---|---|---|---|---|
| codec contract | `lib.rs` | none | `compress`, `decompress(expected_len)`, registry by id and name | every codec implements it |
| LZ77 parser | `lz77.rs` | `head`, `prev` (ring), `indexed`, `pending` match | `parse`, `MatchFinder::find`, `index_until`, `copy_match` | LZSS, Deflate |
| LZSS | `codecs/lzss.rs` | bit stream, output | `compress`, `decompress` | LZ77, bits |
| bits | `bits.rs` | accumulator, count, position of writer and reader | fields, gamma codes, peek and consume, alignment, byte position | every codec but rANS and range |
| Huffman coding | `huffman.rs`, `codecs/huffman.rs` | heap, parents, lengths; decode table | `code_lengths`, `limit_lengths`, `canonical_codes`, `Encoder`, `Decoder` | bits; Deflate |
| Deflate | `deflate/*`, `codecs/deflate.rs` | block of tokens, counts | `deflate`, block type choice, dynamic header, `inflate` | LZ77, Huffman, bits; gzip |
| gzip | `gzip.rs` | position, remaining limit | members, trailers | Deflate, CRC |
| range coder | `range.rs` | `low`, `range`, `cache`, pending bytes; `code`; probabilities | bits, direct bits, bit trees, `finish` | LZMA, range codecs |
| LZMA token coder | `lzma/mod.rs`, `encode.rs`, `decode.rs` | state machine, four repeat distances, contexts, position | `emit`, `finish`, `decompress` | range coder, match finders |
| LZMA match finder | `lzma/matchfinder.rs` | three hash heads, chain or binary tree in a ring, `next` | `find`, `index_until` | parsers |
| LZMA parsers | `lzma/encode.rs` (`parse_fast`), `lzma/optimal.rs` | look-ahead match; shortest-path arrays, carried matches | choose the operations | match finder, prices |
| rANS | `ans.rs`, `codecs/rans.rs` | frequencies; four lane states, words | `normalize`, `encode`, `decode`, block headers | BWT |
| BWT | `bwt/*`, `codecs/bwt.rs` | rotation ranks; move-to-front table; runs | `forward`, `inverse`, `split_runs`, `join_runs`, blocks | rANS, bits |
| run-length codecs | `codecs/rle.rs`, `packbits.rs` | position | packets | |
| adaptive range codecs | `codecs/range.rs` | probabilities | one bit tree per byte | range coder |
| frame | `frame.rs`, `crc32.rs`, `error.rs` | none | header, length and checksum checks | registry |
| command line | `src/crates/cli/src/main.rs` | files | read, (de)compress, write | frame, gzip |

What makes each correct, and why it is hard:

- **LZ77.** `prev` is a ring of `WINDOW` links indexed by position: the link of
  one window back disappears under a search that may still want it. The
  look-ahead of the lazy parse indexes positions early and keeps a match for
  later. Right means: tokens tile the input, links met are the true ones, a
  search with effort left finds the longest match, and both loops end.
- **LZSS.** Fields keep the low bits only; a copy overlaps itself; the checks of
  a damaged match come before the copy. Right means round trip, no read or
  write out of bounds, cuts noticed.
- **Bits.** The reader loads ahead. Right means that after any mixture of peeks,
  reads and alignments it stands exactly where the writer stood.
- **Huffman.** Squashing long codes must keep the code complete, or the decoder
  rejects it or the table has holes.
- **Range coder.** A carry must reach bytes held back, through any run of 0xFF,
  and encoder and decoder must adapt the same probability at the same moment.
- **LZMA.** Two state machines in two files with different code for the same
  permutations; unchecked access to `out[pos - reps[0] - 1]` that rests on every
  check before it; three ways for a stream to end.
- **LZMA match finder.** A search *rebuilds* the tree it walks. It skips bytes
  that sortedness says are equal; a wrong link shows up many searches later.
- **rANS.** "Once is always enough": one word per symbol renormalizes a state,
  by a bound that is exactly tight. Lanes are interleaved and everything runs
  backwards.
- **BWT.** Doubling over wrapped-around rotations; equal rotations of periodic
  inputs; lengths read from the stream and added before they are compared.
- **LZMA parsers.** Each position may be searched once and in order, yet both
  parsers look ahead and keep matches for later. The optimal parser works on a
  stretch at a time: it carries matches over the end of one stretch into the
  next, and repeat distances along the cheapest path to each node. What an
  operation is priced at must be what the coder will spend on it.
- **Deflate.** Three encodings of a block are priced before one is written, and
  a price has to agree with a writer elsewhere. Code lengths of two alphabets
  are one sequence for the run-length code, whose repeats cross the border; the
  decoder must stop exactly at the end and not before.
- **gzip.** The next member starts behind what the bit reader loaded ahead, and
  all members share one limit on the output.
- **Frame.** It is the only protection of codecs that keep no length: packbits cut
  between two packets is a valid shorter stream, and rle does not look at what
  follows its last token.

`PROJECT.json` lists every hazard at its line with the properties that would
catch it going wrong.

## Modules

`Codec` is the abstract specification. The others are one per component, each
action one iteration of a loop or one decision of the code; names follow the
source, and `PROJECT.json` maps every definition to its lines. Positions are
0-based as in the code. The modules `MC*` give constants small values.

```
Codec  <-- refined by -- Lzss, LzmaCoder, Rans, Bwt, Huffman, Containers

Lz77          <- Lzss
RangeCoder    <- RangeCallers
LzmaState     <- LzmaCoder, LzmaParse, RangeCallers
RansFreqs     <- Rans
CanonicalCode <- HuffmanCode <- Huffman
CanonicalCode <- Deflate <- Inflate <- Gzip, RunLength <- Frame <- Containers
LzmaMatchFinder, BitIO, Bwt: components of their own

LzssProofs (on Lz77 and Lzss), LzmaProofs (on LzmaCoder), MatchFinderProofs (on
LzmaMatchFinder), LzmaParseProofs (on LzmaParse), RansProofs, RangeProofs (on
RangeCoder), BitProofs (on BitIO): theorems; NatLemmas: induction, recursion and
remainders for them
```

`A <- B`: `B` extends `A`, directly or by way of the module named between.

- **Codec**: one call of `decompress` seen from outside. The output grows
  (`Produce`), while the stream is intact it stays a prefix of the input, and
  the call ends in `Succeed`, then with all of the input, or in `Fail`,
  never while the stream is intact. Once damage has been read the output may be
  anything that is no longer than `expected_len`.
- **Lz77**: `index_until` (`IndexPosition`), `find` (`StartWalk`, `Examine`,
  `StopWalk`) and the lazy `parse` (`Search`, `TakePending`,
  `ChooseLookAhead`, `ChooseLiteral`, `ChooseMatch`, `Defer`, `TakeFirst`,
  `Finish`). Hash function, window, length limits and the parameters of a level
  are constants, so all presets of `Params::level` are instances.
- **Lzss**: extends `Lz77` by the writer, by a transport that cuts the stream or
  replaces it from some token on by arbitrary fields, and by `decompress` with
  its copy loop byte by byte.
- **RangeCoder**: encoder, stream and decoder, for all kinds of operations. The
  base of a digit is a constant (256 in the code), as are the probability bits.
  The interval has four digits and `low` one more, as in the code. What is coded
  and what the decoder asks for are operators of the caller.
- **RangeCallers**: the callers. `codecs/range.rs` codes each byte in a bit tree
  chosen by the previous byte or not; `lzma/encode.rs` and `lzma/decode.rs` turn
  operations into bits: literals, also against a match byte, repeats, lengths in
  three trees, distances with slots, direct bits and reverse trees. Decoding is
  translated apart from encoding: the next question follows from the answers so
  far. `lzma/price.rs` is the list of bits, each with its probability,
  that a price adds up.
- **LzmaState**: transitions of the state machine and of the repeat distances.
- **LzmaCoder**: `emit` (one action, `Emit(op)`), the three forms of the end,
  the header and the loop of `decompress`. `coded` is a history variable: the operations coded and
  the encoder before each; no guard reads it, `InStep` does. A context takes the place of a probability: a symbol decodes to
  what was encoded if the decoder asks in the same context, which is what
  `RangeCoder` establishes (`InStep`), and to anything otherwise. Any legal
  choice of operations is encoded, so every parser is covered. A literal, a
  length and a distance are one symbol each; the match byte is part of the
  context of a literal, and `RangeCallers` takes them apart.
- **LzmaMatchFinder**: `new`, `index_until`, the chain and tree walks and `find`.
- **LzmaParse**: `parse_fast` with its look-ahead and `Optimal::parse` node by
  node: settle a node, offer literals, short repeats, repeats, matches and the
  combined edges, stop at a long match or at the horizon, trace back, carry
  matches over. The finder is its interface (what `LzmaMatchFinder` shows of
  it); prices are any function of context and operation.
- **RansFreqs**, **Rans**: `normalize` one unit at a time; blocks encoded from
  their end over `LANES` states, with the frequencies of `normalize` or those of
  another encoder that `from_freqs` accepts (`OtherTable`); a file is the sequence
  of the numbers of its headers, their padding, which the decoder does not look
  at, and the bytes of its words. It arrives whole, cut, cut under a length
  that hides it, longer, or with any of the `Changes` made to its numbers.
  `written` is a history of the blocks, for the property.
- **BitIO**: both accumulators, with `BYTE` bits to a byte. The writer runs a
  program of fields, gamma codes and alignments, the reader repeats it with
  peeks anywhere.
- **Bwt**: the sort pass by pass, last column and primary row, move-to-front
  with `split_runs`, blocks transported, lost, replaced or added, and all error
  paths back. The entropy coder of the tokens is taken for what `Rans` and
  `BitIO` show: the header and the sections of a block can be read or not.
- **CanonicalCode**: `validate` and `canonical_codes`, as sequences of bits.
- **HuffmanCode**, **Huffman**: `code_lengths` merge by merge, `limit_lengths`
  slot by slot; the decode table pattern by pattern; `compress`, transport and
  `decompress` of the codec on the bits themselves.
- **Deflate**: blocks over any tokens: code lengths of both alphabets run-length
  coded, prices, choice, and stored blocks in chunks. The codes of a dynamic
  block are any complete ones, shorter for more frequent symbols.
- **Inflate**: block headers, the code lengths of a dynamic block, tokens and
  stored bytes, with each error path, reading bits.
- **Gzip**: header with every optional field, members in a row, trailers, the
  limit. **RunLength**: both run-length codecs and their decompressors.
  **Frame**: header, codec by id, checks of length and checksum.
- **Containers**: composes these. A file is written, arrives whole or damaged,
  and is read by `inflate`, `gunzip` or the frame.

Abstractions used throughout: a byte is a member of a small set; widths and
bases that only set the size of the state space are constants; where the code
relies on a width (wrapping sums, the shift out of `code`) the modulus is kept
(`BASE`, `WORD`). Tables of a format (`LENGTH_BASE`, `CL_ORDER`, the
fixed codes) are constants too.
A checksum is a small function of all bytes. Capacity hints, preallocation and text are left out.

## Runs

| run | instance | distinct states | shows |
|---|---|---|---|
| `Lzss` | binary inputs to 6 bytes and eight of 8, window 3, matches 2 to 5, four efforts, colliding hash; every cut and any garbage after any token | 1.1 million | chains stay exact in an overwritten ring; a search with effort left finds the longest match; tokens tile the input; no copy out of bounds; cuts noticed; the call returns; LZSS implements `Codec` |
| `RangeCoder` | base 4; all pairs of operations, all quintuples of extreme ones; inputs to 3 bytes with one context and with eight; LZMA operations with every byte, repeat, length and distance; every cut | 990,000 | carries reach held-back bytes; decoder asks for what was coded, in step; whole streams, and no others, are used exactly; an operation is priced as the bits it is coded with |
| `LzmaCoder` | all ways to encode inputs to 2 bytes and two of 7 and 10 with distances to 4; all three forms of the end; for short inputs damage anywhere and any other header | 910,000 | state, repeats and contexts in step; match byte exists; implements `Codec` |
| `LzmaParse` | binary inputs of 1 and 8 bytes and five longer; both parsers, two depths, two nice lengths, two models of prices | 180,000 | each position searched once and in order; matches kept for later still hold; operations describe the input, priced as they will be coded; least price at each node; carried matches are taken |
| `LzmaMatchFinder` | binary inputs of 1, 4 and 9 bytes and two of 10, chain and tree, three efforts and windows | 700,000 | matches exact, nothing closer missed, links go back, trees sorted as far as can be told |
| `Rans` | inputs to 4 of three symbols and longer ones with skewed counts, in blocks of 3 or in one, two lanes, any frequencies from a small set; whole, cut, longer, or one or two numbers changed | 5.8 million | one word is enough; cuts noticed; one stream per block and table; implements `Codec` |
| `BitIO` | programs of three operations out of eleven, bytes of 2 bits, every cut, peeks anywhere | 74,000 | reader where the writer was; read to the end if and only if whole |
| `Bwt` | inputs to 7 bytes over 3 values, blocks of 6; for five of them a block lost, replaced or added, or nothing readable after it | 352,000 | ranks exact each round; implements `Codec` |
| `Huffman` | counts of all inputs to 6 of six symbols and three steep distributions, limits 3 and 4; every cut, any bit changed | 138,000 | squashed codes complete; optimal when the limit does not bite; cuts noticed; implements `Codec` |
| `Containers` | sequences of tokens to 3 and seven long ones, raw, in gzip files of one to three members with every set of optional fields, and frames of store, packbits, rle and deflate; every cut, a byte too many, any bit changed | 202,000 | blocks take what they were priced at; a wrong end never passes with other data; each container implements `Codec` |
| `BwtLongRuns` | a block with runs near the width | to the violation | the first [finding](#findings) |
| `DeflateSmallest` | the instance of `Containers` | to the violation | the second [finding](#findings) |

The passing runs explore their whole state space; none uses a state constraint
or symmetry (hashes, sort orders and bit values distinguish the bytes). The
only bounds are in the constants of the `.cfg` files and the named operators of
the `MC*` modules. Deadlock is not an error in any run: every module models
calls that return. That they do return is a liveness property (`Returns`) of
LZSS and its parser: the mutant leaves out the step to the next candidate where
`find` rejects one early, and the search spins. In both searches it also follows from
invariants: links go back (`ChainsExact`, `LinksGoBack`), so a chain ends.

Why the bounds are enough to be interesting:

- `Lzss`: 6 to 8 positions in a window of 3 overwrite each slot of the ring, and
  matches of 5 are cut by the limit and by the end of the input. Two hash slots
  make chains of candidates that do not match. Matches with distance 1 to 3 and
  length to 5 overlap their source in all ways. `LenField` and `DistField` are
  exactly as wide as needed, as in the code: an encoding without the bias
  overflows. The inputs of 8 bytes use a match found by the look-ahead more than
  once.
- `RangeCoder`: five extreme operations in base 4 produce runs of held-back
  digits with and without a carry, and every cut from nothing to one digit.
  A byte has 3 bits, `lc`, `lp` and `pb` are 1, the three length trees
  1, 1 and 2 bits, a distance 8 bits with a slot of 4: all ways to
  code a distance occur (slot only, reverse tree, direct bits with alignment,
  end marker). An operation starts from two contexts, one after a literal and
  one after a match, with fresh probabilities.
- `LzmaCoder`: the longer inputs repeat at every distance and at some only, so
  that all four repeat distances come into use and mistaking one shows.
- `LzmaParse`: `OPT_LEN` is 5, so stretches end at the horizon; matches reach
  `nice_len` 3 and 6, so they also end at long matches; five inputs were chosen
  for combined edges and for matches carried over. A price is at most `MaxPrice`
  (40) and `Infinity` is a million in place of `u32::MAX`: `PriceAssumption`
  says that a path through a stretch costs less, as it does by far in the code,
  whose stretches have some 4600 nodes.
- `LzmaMatchFinder`: windows shorter and longer than the input, so that slots
  are reused or not; hashes that collide for 3 and 4 bytes; two inputs whose
  last string takes over a node it cannot be told apart from.
- `Rans`: the frequencies include the tight case, one symbol with all of `M`. A
  change puts any number up to `M` in one place, so also the padding or a length
  and each byte of a state or word, or in two: any two frequencies, which
  so stay a table of total `M`, or two bytes in a row. Files that are
  accepted with other frequencies or other padding and decode to the input occur.
- `BitIO`: fields up to twice the byte, gamma codes of one and of two fields.
- `Bwt`: all inputs to 7, so all periodic ones; a last block of one byte.
- `Huffman`: up to six symbols with a limit of 3, and Fibonacci-like counts
  of six with a depth of 5, so the limit takes several slots.
- `Containers`: a byte has 3 bits: eight literals, an end, two lengths, one unused;
  codes have at most 4 bits, repeats of code lengths are cut at 4 and at 6
  in place of 6, 10 and 138, `BLOCK_TOKENS` is 34, so that long inputs take two
  blocks, and a stored chunk is at most 7 bytes, so that they take several. The long
  inputs were chosen so that each kind of block is the cheapest of one.

Every property of a passing run has a mutant in `PROJECT.json`: a definition
kept beside the one it would replace, changed the way a plausible bug would,
under which TLC finds the property violated.

## Fairness

Each function modelled is a loop run by the one thread that called it: it takes
its next step until it returns. The specifications with liveness therefore
assume weak fairness of the whole next-state relation. There is no fairness of
single actions, so a loop that could choose to go on forever would be found. The
transport between the two halves is a step like any other: `decompress` is
called on whatever arrives. Only `Lzss`
states a liveness property and fairness. In the other modules each step moves
through data that is finite, the specifications have no fairness, and in
`BitIO` and `LzmaMatchFinder` the caller may stop at any time.

## Proofs

The theorems are checked by TLAPS for **every** value of the constants that
satisfies the assumptions of their modules: any byte set, inputs, window, length
limits, effort and hash function, any width of field that holds what the parser
may emit (`Lzss`), for LZMA any distances, contexts, forms of the end and
damage, for rANS any base, block size, number of lanes and damage, with a
total of the frequencies that is at least the number of symbols and divides `L`,
for the range coder any base from 2, probability bits up to those of `TOP`, speed
of adaption and callers that keep their contract (below), for the bit reader and
writer any programs of fields and gamma codes that fit, any widths of byte and
field, any peeks and any cut,
and for the parsers of LZMA any input, matches, horizon, preset and prices under which a
whole path stays below `Infinity`.

| theorem | says | rests on |
|---|---|---|
| `TypeCorrect` | `[]TypeOK` of the parser | `Invariance` |
| `TokensCorrect` | tokens tile the input and describe it | `Invariance` |
| `ChainsCorrect` | links within the window lead to the previous position of their hash | `ChainInvariance` |
| `LinksGoBack` | a search never follows an overwritten link | `ChainInvariance` |
| `LongestCorrect` | a search with effort left found the longest match in the window | `StepLongest` |
| `RoundTripCorrect` | what arrives as written decompresses to the input | `LzssInvariance` |
| `CopyStaysInBounds` | whatever is read, the output stays within `expected_len` | `LzssInvariance` |
| `CutAlwaysNoticed` | a stream that lost its end does not decompress | `LzssInvariance` |
| `LzssImplementsCodec` | LZSS with its parser refines `Codec` | `LzssInvariance`, step simulation |
| `AlwaysInStep` | the LZMA decoder asks for each symbol in the context it was coded in and ends in the state of the encoder | `Invariance` |
| `MatchByteAlwaysExists` | no literal is coded or decoded against a match byte that is not there, whatever was read | `Invariance` |
| `LzmaImplementsCodec` | LZMA refines `Codec` | `Invariance`, step simulation |
| `LinksAlwaysGoBack` | links of the LZMA match finder in use lead strictly back | `LinkInv` |
| `TreesAlwaysOrdered` | its trees stay search trees | `TreeInv` |
| `MatchesAlwaysExact` | what `find` reports is in the window, as long as it says, longer and further each time | `MatchInv` |
| `NothingCloserEverMissed` | for each earlier position in the window `find` reports a match as long and as close: of 2 bytes always, of 3 if their hash tells them apart, of more if the effort suffices for every position | `NearInv` |
| `OneWordAlwaysEnough` | one word out or in keeps each rANS state within its bits, whatever is read | `Invariance` |
| `RansImplementsCodec` | rANS refines `Codec` | `TripInvariance`, step simulation |
| `CutAlwaysRefused` | a file of rANS, or a block in it, that lost bytes is not accepted | `TripInvariance` |
| `OneStreamAlwaysPerTable` | a block of rANS that ends cleanly, with the frequencies it was written with and the right symbols, has the bytes that were written, whatever else was changed | `StreamInvariance` |
| `EachSearchedOnce` | both parsers of LZMA search each position once and in order | `Invariant` |
| `DecidesFromMatchesHere` | a parser decides from matches of the position it is at, never from those of another | `Invariant` |
| `EmitsWhatIsThere` | operations handed to the coder describe the input, one after the other | `Invariant` |
| `PathCostsWhatItTook` | what a path was priced at is what its operations cost in the contexts they are coded in | `Invariant` |
| `NothingCheaperMissed` | no operation leads from a node passed to another one for less than the price found for that | `Invariant` |
| `CarryAlwaysExact` | no carry of the range coder is lost or leaves the first byte | `Invariance` |
| `DecoderInStep` | its decoder goes through the intervals, operations and probabilities of the encoder | `Invariance` |
| `StreamUsedExactly` | a whole stream gives what was coded and is read to its last byte; a stream without its end is refused | `Invariance` |
| `NothingLostAhead` | the bit reader, however far it looked ahead, is where the writer was before the operation to be read | `Invariance` |
| `ValuesReturn` | fields and gamma codes read are those written | `Invariance` |
| `CutsAreSeen` | a stream of bits is read to its end if and only if it is whole | `Invariance` |
| `LongOpIsTaken` | the long operation that ended a stretch is still there, at the distances of the encoder, when the next stretch starts with it | `Invariant` |

The arguments:

1. `IInv == TypeOK /\ Control /\ TokensTile` is inductive. `TokensTile`
   alone is not: that the match a search returns is a match has to be known at
   each point between the search and the token. `Control` says what
   every program counter implies, in particular that `pending` and the match
   held by the look-ahead are matches at the position they will be used for.
2. `ChainInv` adds to `ChainsExact` that a walk in progress stands on the chain
   of its position (`OnChain`). The step that needs work is
   `IndexPosition`: the slot it overwrites belongs to a position exactly one
   window back, by `SlotsDiffer`, a fact about remainders.
3. `LongestInv` says that no candidate the walk has passed is longer than the
   best so far; at the end of the chain, passed candidates are all there are,
   because strings that agree share a hash (`MatchSameHash`).
4. For LZSS, `DecodeInv` says where in the stream `decompress` is, that its
   output is the tokens read so far (`Faithful`) and what a copy in progress
   still may write (`Bounds`). `LzssInvariance` carries it along the parser's
   `IInv`, and under both each step is a step of `Codec` or a stutter.

5. For LZMA, `IInv` says for each operation coded that its symbols are on the
   wire from where the encoder stood, what it left of the encoder (`Recorded`),
   and that the match byte existed (`Encoded`). For the decoder `InSync` says
   that, while the stream is intact, some operation `j` is being read: the
   symbols read so far are the first of it, state and repeats are those of the
   encoder before it or half way through it, and the output is a prefix of the
   input. `coded` exists for this: without it the
   operation a symbol belongs to is lost. `dreps[1] < Len(out)` after a match is
   part of it whatever was read, and is why the unchecked access of the decoder
   is in bounds.
6. In the LZMA match finder links live in a ring, and a walk rewires the tree it
   descends. `LinkInv`: during a walk the two loose ends are links of nodes
   `b` and `a` on the way down, and the candidate is older than both
   (`LooseEnds`), so whatever is tied to them goes back. `Nodes` are the
   positions in the window; a slot taken again belonged to a position that
   just left it.
7. `Trees`: there is an assignment `D` of sets of positions to nodes, with each
   node's subtrees in its set, in which every subtree is on its side (`Sorted`);
   during a walk everything below the candidate that sorts before the root is
   in the set of `b`, and the rest in the set of `a` (`Pending`). An
   existential `D` takes the place of the set of positions reachable, which
   is recursive: `D` need not shrink when a position leaves the window. That
   bytes agreed on with both ends need not be compared (`Agreed`) follows by
   sandwiching: what lies between two strings with a common prefix has it.
8. `Exact`: whatever is not yet reported and longer is further away than the last
   match reported. `Latest` supplies this for the heads of short strings, and the
   order of links for chains and trees. That nothing closer is missed takes
   three more parts (`NearInv`). `Complete`: with effort enough for every position, each one
   in the window is reached from the head of its string, or from the candidate
   of the walk under way, or else another one is that stands for it: later, and
   the same as far as any later position is compared (`Rep`; it took over the
   children). What is reached is what every set of nodes closed under links
   contains (`Reaches`), which again needs no recursion, and both loose ends of
   a walk stay within reach of the new root. `Search`: at each step of a search
   a position was seen, by a match as long and as close, or is still ahead. A
   step down a tree that leaves one subtree aside leaves only strings that agree
   with `at` no further than the node just passed does (`FarSide`), and the walk
   cannot run out of budget, since the candidate never exceeds it. `Named`: a
   head of a short string holds a position with this string, which makes the
   match it gives long enough.

9. In rANS, a symbol takes a state from `L .. L * WORD - 1` back into it, if its
   frequency is not zero. Both directions are one fact (`Grows`): with
   `q = L / M`, which is whole, a state in `q * f .. q * f * K - 1` becomes one in
   `L .. L * K - 1` by `f` slots of `M` each; `StateMax` is `q * f * WORD`, hence
   the word that goes out brings a state exactly there. Backwards, one word
   repairs a state that came out below `L` because `f` is at least 1 for the
   symbol of a slot, and there is one for every slot because
   frequencies add up to `M` (`SlotsCover`). `IInv` therefore says
   that every symbol of the block keeps a frequency from `Scale` through each
   `Adjust`. The latter always finds a symbol to adjust: with all frequencies at
   1 they add up to at most `SYMBOLS`, which is at most `M`.

10. For the round trip of rANS the encoder's history has to be kept, though the
   code forgets it. `Trace(block, f, k, T, W)`: `T` and `W` are states and words
   before each symbol from the end of the block down to `k`, one a step of the
   encoder from the next (`EncStep`). A block is `Stored` if its
   bytes are those of some trace down to 0. `Back` is the
   same for the decoder, forwards through bytes that need not be the encoder's.
   `InStep` compares the two: while the bytes agree, the decoder's states are
   those of the trace at its symbol and its position is behind the words that
   were written later (`WordIsThere`), or it is past the end of a block that is
   shorter. That gives the round trip by `DecodeUndoes`. The other
   direction is what `OneStreamPerTable` needs: a decoder that ends cleanly with
   the symbols of the block went through states which, read from the end, are a
   trace (`EncodeUndoes`, `BackMeets`), so its states and words, and with them its
   bytes (`StreamUnique`), are those the encoder writes with these frequencies.
   `StreamInv` keeps what this takes: of each block written its trace, of
   whatever arrived and is decoded the way `Back`, damaged or not. A truncated
   block would have to use more bytes than it has. `TripInv` says
   for each block that starts before `begin` where it is stored, and of the
   decoder that it is at the start of a block of a file that is the same up to
   there, within one, or has gone wrong because a number was changed
   (`Lost`).

11. For the parsers of LZMA, `IInv` of `LzmaParseProofs` says, phase by phase, what
   holds between any two steps of `Optimal::parse`. In a stretch
   (`InStretch(n)`) every node up to `n` is settled: the node it was reached from
   lies before it, and state, repeats and price there are what the operations of
   the edge (`Applied`) make of those at the node they come from; all that came by
   was offered and none is cheaper (`Passed`). Later nodes have only the arrivals offered so far
   (`ReachedFrom`). The trace goes back through the same edges and builds the list
   from its end: `Chain` and `Codes` say that the operations collected lead from the node
   reached back to the end of the stretch, so that, when the trace stands at node 0,
   they lead from the position of the stretch to its end (`InEmit`).
   Between stretches the matches kept are those of the position (`Ready`).
   An arrival at a node already reached overwrites it only if it is cheaper:
   that nodes are settled in order, hence that no later arrival disturbs
   a settled one, is what makes price and path agree. `Chain` is an existential
   where the code walks; the operators that were recursive became recursive
   functions so that one step of them can be cited.

12. For the range coder the way of the encoder is kept, as for rANS: `History` is
   the list of entries (bits done, node, interval, digits shifted out, operations done,
   probabilities) from the start to where the encoder is, one `EncStep` from
   the next, and the interval of each entry contains the last one (`Within`).
   For the encoder the invariant says that what is written and held back,
   `Held`, is a number with `Held * SPAN + low = exact`, and that no carry comes
   where it would do harm: while nothing is written, when it would reach the
   first byte, or while the cached byte is `BASE - 1`, when it would have to go into bytes
   already written (`NoCarry`), `low + range` stays within `SPAN`. `ShiftLowIs` is the step that needs work: a carry
   turns the run of `BASE - 1` into zeros and adds one to the byte before it,
   which is one more on the number they all are (`NumberRun`). Five calls in `finish`
   make `low` a multiple of `BASE^5` below `SPAN`, so it is 0 and the stream is
   `exact`. The decoder is at some entry of the way (`Synced`) as long as its
   bytes have arrived: `code` is what was read so far less the bottom of the
   interval, which lies within the range because all later digits do
   (`ReadWithin`, `CodeRange`); hence the bit it reads off `code >= bound` is the one
   coded, and its next entry is the encoder's next. Only the last entry has
   every operation done and a range of at least `TOP`, and there the bytes
   read are all there are, which makes the check of `Decoder::finish` exact.
   What is asked of a caller is `CallersAssumption`: operations the encoder takes
   (`Possible`, the debug assertions of `encode_with`), and a decoding side
   that asks for the operation coded next when it got those before, and
   for nothing more after the last. TLC evaluates it for each caller in the run
   `RangeCoder`, that is for the translations of `codecs/range.rs`,
   `lzma/encode.rs` and `lzma/decode.rs` in `RangeCallers`.

13. For the bit reader and writer the invariant is about one number, `v`: all bits
   written, the first one lowest. `Field(v, c, n)` is its `n` bits from bit `c`. The
   writer `Holds` `v` if its bytes are the fields of a byte's width and its
   accumulator is the rest; each operation adds bits at the top and
   changes no field below (`Keeps`), and between the marks in `lens` stands what
   the program says (`Coded`). When the bytes are cut off, `v` stays and the
   data are fields of it as far as they go. A reader is a `Cursor` at bit `c`
   if its accumulator is the field from `c` up to the byte it takes next, so loading
   more of the future or dropping the past keeps the fact, and a field
   of `peek_bits` past the end is a field with zeros in place of what is missing. A gamma code is
   read bit by bit; `Reached` says where its run of zeros is, by induction. That reading
   fails only when bits are missing (`Past`) is the other half: the last mark
   is less than a byte before the end of the whole stream, so any byte that is
   missing ends before it. `ReadIffWhole` holds for a program whose last field is
   padded for the same reason.

Where an argument goes by induction over positions or operations, `NatLemmas`
provides it: the least element of a set of naturals (`LeastNat`), proved by
counting, and from it induction in which the property is a set. A recursive
function is used by its equation, which `Recursion` gives for each domain
`0 .. n`, and two of them that take the same steps are equal (`SameSteps`).

What a proof attempt taught: `TreesOrdered` first said that a left subtree sorts
strictly before its root, as TLC had confirmed on inputs to 9 bytes. It is not
so. A position near the end of the data is compared over fewer bytes than
`nice_len`; when all of them agree it takes over the children of the
candidate, among which there may be strings it cannot be told apart from
(`AlikeToEnd`), on either side. That is harmless, because every later position
is compared over fewer bytes still. The invariant now says so, two inputs
in the run of `LzmaMatchFinder` show the case, and the theorem is for all.

Only model-checked: `PricedAsCoded` of `RangeCallers` and that its callers keep the
contract, the properties of the containers, and those of `Bwt` and of Huffman
coding. Liveness (`Returns`) stays with TLC, since fairness and `ENABLED` are
outside the prover's reach, and so do facts about values computed by recursion
over data (the optimality of a Huffman code, the walk of the inverse transform
over a permutation).

## Findings

`BwtLongRuns`: `bwt/pipeline.rs:199` adds a run length from the stream to the
output length in 64 bits before it compares. A run close to 2^64 wraps
(panics with overflow checks), is accepted and truncates the ranks joined so
far, where the comment promises that a run past `n` is rejected "instead of
panicking". The property quotes that comment. In the run `Bwt`, whose damage
includes such runs, everything else holds: the harm stays within the block.

`DeflateSmallest`: `deflate/encode.rs:228` prices each stored chunk as if its
padding were always 7 bits, where it is 0 to 7 and known. A block whose price
with codes lies within those bits is written with codes although storing it is
shorter, where the comment at the head of the file says that the exact sizes are
compared and the smallest is written. `PricedExactly`, which holds, says the
rest: the other prices are exact, and a stored block takes at most its price.

Seen on the way and without consequence: `codecs/rle.rs` stops at the length it
expects and ignores what follows, so a frame of rle with a byte too many is
read, with the right data. `codecs/packbits.rs` cut between packets is a valid
stream of fewer bytes; the check of the length finds it. `inverse` returns a column of at most
one byte before it looks at `primary_index` (`bwt/mod.rs:88`), where its comment
says that it fails if the index is out of range. The model returns as the code
does (`InverseShort`).

## Not modelled

- The cost of a bit in floating point, the table behind `lzma/price.rs`
  (`range.rs`), and `stats.rs`. Prices are lists of bits in `RangeCallers` and
  arbitrary in `LzmaParse`; when tables are refreshed only makes prices older.
- CRC-32: arithmetic without state that a small instance says nothing about. In
  its place there is a checksum of a few bits. A changed bit may
  collide there as it would, more rarely, in the code: the properties claim
  nothing of the data when a bit was changed, except that the output keeps its
  limit, and `EndsWhole` is about files cut or with a byte too many. (A gzip
  file with a whole member after it is another file, which is accepted.)
- The command line: parsing, printing, whole files read and written. It checks
  for its output before it writes and leaves part of a file when a write fails;
  readers of such files are in `Containers`.
- Benchmarks and the test kit: they change no state of the library.
- The numbers in the header of a BWT block one by one: that they, the sections
  they give the lengths of and the coded tokens can be read is one condition
  (`codes`). Tables of frequencies and their coder are in `Rans`.
- The dictionary size in the header of LZMA: the decoder does not use it.
- LZMA options with `nice_len` below 2, the shortest match. The field is public
  (`encode.rs:37`); no caller in the repository sets it lower than its default of 64.
- The bits of a token of LZSS that a cut leaves behind: `Lzss` counts the token as
  missing, since its bits are never a whole shorter one. That the reader
  does not take bits left over for a field is `ReadIffWhole` of `BitIO`.
- The registry (`lib.rs`): a constant list.
- Memory: allocation sizes from headers.

## Plan

Done, in this order: `Lz77` and its proofs, `Codec`, `Lzss` and its proofs
(refinement included), `RangeCoder`, `LzmaCoder`, `RansFreqs`, `Rans`,
`LzmaMatchFinder`, `BitIO`, `Bwt`, `HuffmanCode`, `Huffman`, `Deflate`,
`Inflate`, `Gzip`, `RunLength`, `Frame`, `Containers`, `LzmaParse`,
`RangeCallers`, the blocks of `Rans`.

Proofs of `LzmaCoder`, `LzmaMatchFinder`, `Rans`, `LzmaParse`, `RangeCoder` and
`BitIO` followed. Next, the most valuable first:

1. `Bwt`: bounds of `join_runs` for runs below the width.
2. `Frame`: what passes has the length and the checksum of the header.
3. `RangeCallers`: that each caller keeps the contract, for any depth of its trees.
