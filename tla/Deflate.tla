------------------------------ MODULE Deflate ------------------------------
(***************************************************************************)
(* The Deflate encoder of crates/codecs/src/deflate/encode.rs.             *)
(*                                                                         *)
(* Tokens are cut into blocks; a block is written as it is priced          *)
(* cheapest: stored, with the fixed codes, or with codes of its own, sent  *)
(* run-length coded and Huffman coded before it.  The sizes of alphabets   *)
(* and fields are constants.                                               *)
(*                                                                         *)
(* The tokens are any that stand for the data (Lz77 models the parser),    *)
(* and code_lengths gives any complete code with shorter codes for more    *)
(* frequent symbols (HuffmanCode models it).                               *)
(***************************************************************************)
EXTENDS CanonicalCode, SequencesExt

CONSTANTS
    BYTE,          \* bits of a byte
    LEN_BITS,      \* bits of the length of a stored block
    BLOCK_TOKENS,  \* tokens per block
    LENGTH_BASE, LENGTH_EXTRA,  \* smallest length and extra bits of each code
    DIST_BASE, DIST_EXTRA,      \* the same for distances
    FixedLit, FixedDist,        \* the lengths of the fixed codes
    HLIT_BITS, HDIST_BITS, HCLEN_BITS, CL_BITS,  \* fields of a header
    CL_ORDER,      \* order in which code length code lengths are sent
    MIN_HCLEN,     \* 4
    MIN_REPEAT,    \* 3
    REPEAT_BITS, ZEROS_BITS, LONG_BITS  \* 2, 3 and 7

END_OF_BLOCK == Pow(BYTE)
NUM_LITLEN == END_OF_BLOCK + 1 + Len(LENGTH_BASE)
NUM_DIST == Len(DIST_BASE)
MAX_STORED == Pow(LEN_BITS) - 1
CL_MAX == Pow(CL_BITS) - 1

\* The symbols of code lengths above the lengths themselves.
REPEAT == MAX_CODE_LEN + 1
ZEROS == MAX_CODE_LEN + 2
LONG_ZEROS == MAX_CODE_LEN + 3
ClSymbol == 0 .. LONG_ZEROS

ASSUME DeflateAssumption ==
    /\ BLOCK_TOKENS \in Nat \ {0} /\ LEN_BITS \in Nat \ {0} /\ LEN_BITS % BYTE = 0
    /\ CL_BITS \in Nat /\ CL_MAX <= MAX_CODE_LEN /\ Cardinality(ClSymbol) <= Pow(CL_MAX)
    /\ NUM_LITLEN <= END_OF_BLOCK + Pow(HLIT_BITS) /\ NUM_DIST <= Pow(HDIST_BITS)
    /\ ToSet(CL_ORDER) = ClSymbol /\ Len(CL_ORDER) = MIN_HCLEN + Pow(HCLEN_BITS) - 1

VARIABLES
    bits,    \* the stream so far
    done,    \* tokens written
    blocks,  \* history: how each block was written
    pc       \* where compress and decompress are

writeVars == <<bits, done, blocks>>

-----------------------------------------------------------------------------
(* Tokens. *)

Literal(b) == [kind |-> "literal", byte |-> b]
Match(len, dist) == [kind |-> "match", len |-> len, dist |-> dist]

\* len bytes from dist back, over and over if there are fewer.
copy_match(out, dist, len) ==
    out \o [i \in 1 .. len |-> out[Len(out) - dist + 1 + ((i - 1) % dist)]]

\* The data that tokens stand for.
Expanded(tokens) ==
    LET after[k \in 0 .. Len(tokens)] ==
          IF k = 0 THEN <<>>
          ELSE LET before == after[k - 1]
                   t == tokens[k]
               IN IF t.kind = "literal" THEN Append(before, t.byte)
                  ELSE copy_match(before, t.dist, t.len)
    IN after[Len(tokens)]

split(value, base, extra) ==
    LET i == Cardinality({j \in DOMAIN base : base[j] <= value})
    IN [index |-> i - 1, extra |-> value - base[i], extra_bits |-> extra[i]]

length_code(len) == split(len, LENGTH_BASE, LENGTH_EXTRA)
dist_code(dist) == split(dist, DIST_BASE, DIST_EXTRA)

LitSymbol(t) ==
    IF t.kind = "literal" THEN t.byte ELSE END_OF_BLOCK + 1 + length_code(t.len).index

-----------------------------------------------------------------------------
(* Counts and prices. *)

Times(S, s, f) == Cardinality({i \in S : f[i] = s})

LitCounts(tokens) ==
    LET symbol == [i \in DOMAIN tokens |-> LitSymbol(tokens[i])]
    IN [s \in 0 .. NUM_LITLEN - 1 |->
          IF s = END_OF_BLOCK THEN 1 ELSE Times(DOMAIN tokens, s, symbol)]

DistCounts(tokens) ==
    LET matches == {i \in DOMAIN tokens : tokens[i].kind = "match"}
        symbol == [i \in matches |-> dist_code(tokens[i].dist).index]
    IN [s \in 0 .. NUM_DIST - 1 |-> Times(matches, s, symbol)]

\* Mutant: the extra bits of distances are forgotten.
costNoExtra(tokens, lit, dist) ==
    LET lits == LitCounts(tokens)
        dists == DistCounts(tokens)
    IN SumOver(DOMAIN lits, LAMBDA s : lits[s] * lit[s])
         + SumOver(DOMAIN LENGTH_EXTRA, LAMBDA i : lits[END_OF_BLOCK + i] * LENGTH_EXTRA[i])
         + SumOver(DOMAIN dists, LAMBDA s : dists[s] * dist[s])
cost(tokens, lit, dist) ==
    LET lits == LitCounts(tokens)
        dists == DistCounts(tokens)
    IN SumOver(DOMAIN lits, LAMBDA s : lits[s] * lit[s])
         + SumOver(DOMAIN LENGTH_EXTRA, LAMBDA i : lits[END_OF_BLOCK + i] * LENGTH_EXTRA[i])
         + SumOver(DOMAIN dists, LAMBDA s : dists[s] * (dist[s] + DIST_EXTRA[s + 1]))

\* What code_lengths may return: how many codes have each length, handed out
\* to the most frequent symbols first.
code_lengths(counts, max) ==
    LET used == {s \in DOMAIN counts : counts[s] > 0}
        many == Cardinality(used)
        Complete(per) == SumOver(1 .. max, LAMBDA l : per[l] * Pow(max - l)) = Pow(max)
        Enough(per) == SumOver(1 .. max, LAMBDA l : per[l]) = many
        per_len == IF many <= 1 THEN {[l \in 1 .. max |-> IF l = 1 THEN many ELSE 0]}
                   ELSE {per \in [1 .. max -> 0 .. many] : Complete(per) /\ Enough(per)}
        Before(t, s) == counts[t] > counts[s] \/ (counts[t] = counts[s] /\ t < s)
        Rank(s) == Cardinality({t \in used : Before(t, s)})
        Length(per, s) ==
            Min({l \in 1 .. max : SumOver(1 .. l, LAMBDA k : per[k]) > Rank(s)})
    IN {[s \in DOMAIN counts |-> IF s \in used THEN Length(per, s) ELSE 0] : per \in per_len}

-----------------------------------------------------------------------------
(* The header of a dynamic block. *)

extra_bits_for_cl(s) ==
    CASE s = REPEAT -> REPEAT_BITS [] s = ZEROS -> ZEROS_BITS [] s = LONG_ZEROS -> LONG_BITS
      [] OTHER -> 0

\* The least and the most that one symbol repeats.
Least(s) == IF s = LONG_ZEROS THEN MIN_REPEAT + Pow(ZEROS_BITS) ELSE MIN_REPEAT
Most(s) == Least(s) + Pow(extra_bits_for_cl(s)) - 1

\* A run is cut into the most that s repeats and a rest; a rest too short
\* for s is left.
LeftOver(s, run) == IF run % Most(s) >= Least(s) THEN 0 ELSE run % Most(s)
Repeats(s, run) ==
    [i \in 1 .. run \div Most(s) |-> <<s, Most(s) - Least(s)>>]
      \o IF run % Most(s) >= Least(s) THEN <<<<s, (run % Most(s)) - Least(s)>>>> ELSE <<>>

Plain(value, times) == [i \in 1 .. times |-> <<value, 0>>]

\* Mutant: what is left of a run of zeros is dropped.
ZeroSymbolsCut(run) ==
    Repeats(LONG_ZEROS, run) \o Repeats(ZEROS, LeftOver(LONG_ZEROS, run))
ZeroSymbols(run) ==
    LET short == LeftOver(LONG_ZEROS, run)
    IN Repeats(LONG_ZEROS, run) \o Repeats(ZEROS, short) \o Plain(0, LeftOver(ZEROS, short))

LengthSymbols(value, run) ==
    <<<<value, 0>>>> \o Repeats(REPEAT, run - 1) \o Plain(value, LeftOver(REPEAT, run - 1))

rle_code_lengths(ls) ==
    LET Starts(i) == IF i = 1 THEN TRUE ELSE ls[i - 1] # ls[i]
        Run(i) == Min({j \in i + 1 .. Len(ls) : ls[j] # ls[i]} \cup {Len(ls) + 1}) - i
    IN FlattenSeq([i \in DOMAIN ls |->
            CASE ~Starts(i)              -> <<>>
              [] Starts(i) /\ ls[i] = 0  -> ZeroSymbols(Run(i))
              [] Starts(i) /\ ls[i] # 0  -> LengthSymbols(ls[i], Run(i))])

\* No matches: one distance code is sent all the same.
DistSent(dist) == IF Coded(dist) = {} THEN [dist EXCEPT ![0] = 1] ELSE dist

\* The headers of the codes lit and dist, one for each code of code lengths.
DynamicHeaders(lit, dist) ==
    LET hlit == Max({END_OF_BLOCK} \cup Coded(lit)) + 1
        hdist == Max({0} \cup Coded(dist)) + 1
        symbols == rle_code_lengths([i \in 1 .. hlit + hdist |->
                        IF i <= hlit THEN lit[i - 1] ELSE dist[i - hlit - 1]])
        counts == [s \in ClSymbol |-> Cardinality({i \in DOMAIN symbols : symbols[i][1] = s})]
        Spare(cl) == IF cl[0] = 0 THEN 0 ELSE 1
        Completed(cl) ==
            IF Cardinality(Coded(cl)) = 1 THEN [cl EXCEPT ![Spare(cl)] = 1] ELSE cl
        Sent(cl) == Max({MIN_HCLEN} \cup {p \in DOMAIN CL_ORDER : cl[CL_ORDER[p]] > 0})
    IN {[hlit |-> hlit, hdist |-> hdist, symbols |-> symbols, cl |-> Completed(cl),
         hclen |-> Sent(Completed(cl))] : cl \in code_lengths(counts, CL_MAX)}

HeaderBits(h) ==
    HLIT_BITS + HDIST_BITS + HCLEN_BITS + CL_BITS * h.hclen
      + SumOver(DOMAIN h.symbols,
                LAMBDA i : h.cl[h.symbols[i][1]] + extra_bits_for_cl(h.symbols[i][1]))

WrittenHeader(h) ==
    Bits(h.hlit - END_OF_BLOCK - 1, HLIT_BITS) \o Bits(h.hdist - 1, HDIST_BITS)
      \o Bits(h.hclen - MIN_HCLEN, HCLEN_BITS)
      \o FlattenSeq([p \in 1 .. h.hclen |-> Bits(h.cl[CL_ORDER[p]], CL_BITS)])
      \o FlattenSeq([i \in DOMAIN h.symbols |->
            Code(h.cl, h.symbols[i][1])
              \o Bits(h.symbols[i][2], extra_bits_for_cl(h.symbols[i][1]))])

-----------------------------------------------------------------------------
(* Blocks. *)

\* BitWriter::align_to_byte and finish.
Padded(written) == written \o [i \in 1 .. (BYTE - (Len(written) % BYTE)) % BYTE |-> 0]

Type(last, kind) == Bits(IF last THEN 1 ELSE 0, 1) \o Bits(kind, 2)

TokenBits(t, lit, dist) ==
    IF t.kind = "literal" THEN Code(lit, t.byte)
    ELSE LET l == length_code(t.len)
             d == dist_code(t.dist)
         IN Code(lit, LitSymbol(t)) \o Bits(l.extra, l.extra_bits)
              \o Code(dist, d.index) \o Bits(d.extra, d.extra_bits)

WrittenTokens(tokens, lit, dist) ==
    FlattenSeq([i \in DOMAIN tokens |-> TokenBits(tokens[i], lit, dist)])
      \o Code(lit, END_OF_BLOCK)

Chunks(raw) == (Len(raw) + MAX_STORED - 1) \div MAX_STORED

\* The stream after raw is stored: bytes start on byte boundaries.
write_stored(written, raw, last) ==
    LET Chunk(k) == SubSeq(raw, (k - 1) * MAX_STORED + 1, Min({k * MAX_STORED, Len(raw)}))
        Stored(chunk) ==
            Bits(Len(chunk), LEN_BITS) \o Bits(MAX_STORED - Len(chunk), LEN_BITS)
              \o FlattenSeq([i \in DOMAIN chunk |-> Bits(chunk[i], BYTE)])
        after[k \in 0 .. Chunks(raw)] ==
            IF k = 0 THEN written
            ELSE LET before == after[k - 1]
                 IN Padded(before \o Type(last /\ k = Chunks(raw), 0)) \o Stored(Chunk(k))
    IN after[Chunks(raw)]

StoredPrice(raw) == Chunks(raw) * (BYTE - 1 + 2 * LEN_BITS) + Len(raw) * BYTE

\* The block last written, and what storing it would have taken.
Block(how, price, raw, last, stream) ==
    [how |-> how, price |-> price, stream |-> stream, size |-> Len(stream) - Len(bits),
     chunks |-> Chunks(raw), stored |-> Len(write_stored(bits, raw, last)) - Len(bits)]

\* The ways write_block may write a block, one for each code.
WaysToWrite(tokens, raw, last) ==
    LET stored == StoredPrice(raw)
        fixed == cost(tokens, FixedLit, FixedDist)
        Way(h, lit, dist, dynamic) ==
            CASE stored < Min({dynamic, fixed}) ->
                    Block("stored", stored, raw, last, write_stored(bits, raw, last))
              [] stored >= Min({dynamic, fixed}) /\ fixed <= dynamic ->
                    Block("fixed", fixed, raw, last, bits \o Type(last, 1)
                            \o WrittenTokens(tokens, FixedLit, FixedDist))
              [] OTHER ->
                    Block("dynamic", dynamic, raw, last, bits \o Type(last, 2)
                            \o WrittenHeader(h) \o WrittenTokens(tokens, lit, dist))
    IN UNION {{Way(h, lit, dist, HeaderBits(h) + cost(tokens, lit, dist)) :
                    h \in DynamicHeaders(lit, dist)} :
                lit \in code_lengths(LitCounts(tokens), MAX_CODE_LEN),
                dist \in {DistSent(d) : d \in code_lengths(DistCounts(tokens), MAX_CODE_LEN)}}

-----------------------------------------------------------------------------
(* deflate *)

Ending(last, stream) == IF last THEN Padded(stream) ELSE stream

\* One final fixed block with just the end of block.
DeflateEmpty(tokens) ==
    /\ tokens = <<>>
    /\ bits' = Padded(bits \o Type(TRUE, 1) \o Code(FixedLit, END_OF_BLOCK))
    /\ pc' = "deflated"
    /\ UNCHANGED <<done, blocks>>

\* Level 0.
DeflateStored(tokens) ==
    /\ tokens # <<>>
    /\ bits' = Padded(write_stored(bits, Expanded(tokens), TRUE))
    /\ pc' = "deflated"
    /\ UNCHANGED <<done, blocks>>

WriteBlock(tokens) ==
    /\ done < Len(tokens)
    /\ LET next == Min({done + BLOCK_TOKENS, Len(tokens)})
           before == Len(Expanded(SubSeq(tokens, 1, done)))
           upTo == Expanded(SubSeq(tokens, 1, next))
           raw == SubSeq(upTo, before + 1, Len(upTo))
           last == next = Len(tokens)
       IN /\ \E way \in WaysToWrite(SubSeq(tokens, done + 1, next), raw, last) :
               /\ bits' = Ending(last, way.stream)
               /\ blocks' = Append(blocks, [f \in DOMAIN way \ {"stream"} |-> way[f]])
          /\ done' = next
          /\ pc' = IF last THEN "deflated" ELSE "deflate"

-----------------------------------------------------------------------------
(***************************************************************************)
(* What a block is priced at is what it takes, its three bits of type      *)
(* apart: the prices and the bits are worked out by different code.  A     *)
(* stored block is priced before its padding is known, and its further     *)
(* chunks a bit too low.                                                   *)
(***************************************************************************)
PricedExactly ==
    \A b \in Range(blocks) :
        IF b.how = "stored"
        THEN b.size \in b.price + 3 - (BYTE - 1) .. b.price + 3 + (b.chunks - 1)
        ELSE b.size = b.price + 3

\* "we compute the exact size as dynamic, fixed and stored, and write
\* whichever is smallest"
SmallestChosen == \A b \in Range(blocks) : b.size <= b.stored
=============================================================================
