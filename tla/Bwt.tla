-------------------------------- MODULE Bwt --------------------------------
(***************************************************************************)
(* The Burrows-Wheeler codec: crates/codecs/src/bwt/mod.rs (forward,       *)
(* inverse), mtf.rs and pipeline.rs (blocks, split_runs, join_runs).       *)
(*                                                                         *)
(* One action is one pass of the sort, one token rejoined, one step of the *)
(* walk back.  The tokens are carried as they are: Rans has their coder,   *)
(* BitIO the gamma codes.                                                  *)
(***************************************************************************)
EXTENDS Integers, Sequences, FiniteSets, TLC

CONSTANTS
    MAX_BYTE,     \* bytes are 0 .. MAX_BYTE
    Inputs,       \* the inputs compress may be called with
    BLOCK_SIZE,   \* bytes of original data per block
    WORD,         \* lengths and gamma codes are below WORD (2^64 in the code)
    Damage(_)     \* the blocks that may arrive instead of the ones written, for an input

Byte == 0 .. MAX_BYTE

ASSUME BwtAssumption ==
    /\ MAX_BYTE \in Nat /\ BLOCK_SIZE \in Nat \ {0} /\ WORD \in Nat
    /\ Inputs \subseteq Seq(Byte)
    /\ \A d \in Inputs : Len(d) < WORD

VARIABLES
    data,       \* the input
    pc,
    \* compress
    start,      \* bytes encoded
    order,      \* the rotations of the block, sorted by their first k bytes
    rank,       \* the rank of each rotation by those bytes
    k,
    \* the stream
    blocks,     \* the blocks written, or those that arrive
    whole,      \* history: they arrive as they were written
    \* decompress
    pos,        \* blocks decoded
    token,      \* tokens of the block rejoined
    run,        \* run lengths read
    ranks,      \* move-to-front ranks, to split or rejoined
    column,     \* the last column
    table,      \* the move-to-front table
    row,        \* row of the walk back
    block,      \* the part of the block the walk has read
    out

encoder == <<start, order, rank, k>>
stream  == <<blocks, whole>>
decoder == <<pos, token, run, ranks, column, table, row, block, out>>
vars == <<data, pc, start, order, rank, k, blocks, whole, pos, token, run, ranks, column,
          table, row, block, out>>

N == Len(data)
Smaller(a, b) == IF a <= b THEN a ELSE b

\* The move-to-front table, and the table after its entry r was used.
ToFront(t, r) == <<t[r + 1]>> \o SubSeq(t, 1, r) \o SubSeq(t, r + 2, Len(t))
FirstTable == [i \in 1 .. MAX_BYTE + 1 |-> i - 1]

-----------------------------------------------------------------------------
(* forward. *)

BlockLen == Smaller(BLOCK_SIZE, N - start)
Positions == 0 .. BlockLen - 1
BlockByte(i) == data[start + i + 1]

\* Sorted by key; what has equal keys stays in the order it has in source.
counting_sort(source, key) ==
    LET places == SortSeq([i \in DOMAIN source |-> i],
                          LAMBDA i, j : \/ key[source[i]] < key[source[j]]
                                        \/ key[source[i]] = key[source[j]] /\ i < j)
    IN [p \in DOMAIN source |-> source[places[p]]]

\* Equal keys share a rank; every other neighbour in the order is one more.
RanksOf(sorted, key) ==
    [x \in Positions |->
        Cardinality({j \in 2 .. CHOOSE i \in DOMAIN sorted : sorted[i] = x :
                       key[sorted[j - 1]] # key[sorted[j]]})]

Init ==
    /\ data \in Inputs
    /\ pc = "block"
    /\ start = 0 /\ order = <<>> /\ rank = <<>> /\ k = 0
    /\ blocks = <<>> /\ whole = TRUE
    /\ pos = 0 /\ token = 0 /\ run = 0 /\ ranks = <<>> /\ column = <<>> /\ table = <<>>
    /\ row = 0 /\ block = <<>> /\ out = <<>>

\* The rotations are sorted by one byte.
SortFirst ==
    /\ pc = "block" /\ start < N /\ BlockLen > 1
    /\ LET bytes == [i \in Positions |-> BlockByte(i)] IN
         /\ order' = counting_sort([i \in 1 .. BlockLen |-> i - 1], bytes)
         /\ rank' = RanksOf(order', bytes)
    /\ k' = 1
    /\ pc' = "sort"
    /\ UNCHANGED <<data, start, stream, decoder>>

\* The rank of what follows the first k bytes.
\* Mutant: the block does not wrap around.
key2Flat(i) == IF i + k < BlockLen THEN rank[i + k] ELSE 0
key2(i) == rank[(i + k) % BlockLen]

\* One round doubles k: a stable sort by the second k bytes ...
SortSecondHalf ==
    /\ pc = "sort" /\ k < BlockLen
    /\ order' = counting_sort(order, [i \in Positions |-> key2(i)])
    /\ pc' = "halfway"
    /\ UNCHANGED <<data, start, rank, k, stream, decoder>>

\* ... and then by the first k, until every rotation has a rank of its own.
SortFirstHalf ==
    /\ pc = "halfway"
    /\ order' = counting_sort(order, rank)
    /\ rank' = RanksOf(order', [i \in Positions |-> <<rank[i], key2(i)>>])
    /\ k' = 2 * k
    /\ pc' = IF rank'[order'[BlockLen]] = BlockLen - 1 THEN "sorted" ELSE "sort"
    /\ UNCHANGED <<data, start, stream, decoder>>

Sorted == pc = "sorted" \/ (pc = "sort" /\ k >= BlockLen)

LastColumn == [p \in 1 .. BlockLen |-> BlockByte((order[p] + BlockLen - 1) % BlockLen)]
Primary == (CHOOSE p \in 1 .. BlockLen : order[p] = 0) - 1

\* A block of one byte is its own last column.
TakeColumn ==
    /\ pc' = "encode"
    /\ table' = FirstTable
    /\ UNCHANGED <<data, encoder, stream, pos, token, run, ranks, row, block, out>>

TakeShort ==
    /\ pc = "block" /\ start < N /\ BlockLen = 1
    /\ column' = <<BlockByte(0)>>
    /\ TakeColumn

TakeSorted ==
    /\ Sorted
    /\ column' = LastColumn
    /\ TakeColumn

-----------------------------------------------------------------------------
(* encode_block: mtf::encode, split_runs, and the block is written. *)

\* mtf::encode: the rank of the next byte of the last column.
EncodeRank ==
    /\ pc = "encode" /\ Len(ranks) < BlockLen
    /\ LET r == (CHOOSE i \in DOMAIN table : table[i] = column[Len(ranks) + 1]) - 1 IN
         /\ ranks' = Append(ranks, r)
         /\ table' = ToFront(table, r)
    /\ UNCHANGED <<data, pc, encoder, stream, pos, token, run, column, row, block, out>>

\* A run of zeros is one token 0 and its length, any other rank a token.
TokenStarts ==
    SelectSeq([i \in DOMAIN ranks |-> i],
              LAMBDA i : ranks[i] # 0 \/ i = 1 \/ ranks[i - 1] # 0)
RunFrom(i) == Cardinality({m \in i .. Len(ranks) : \A j \in i .. m : ranks[j] = 0})

\* split_runs, then the block is written.
WriteBlock ==
    /\ pc = "encode" /\ Len(ranks) = BlockLen
    /\ LET runStarts == SelectSeq(TokenStarts, LAMBDA i : ranks[i] = 0) IN
         blocks' = Append(blocks,
           [primary |-> IF BlockLen = 1 THEN 0 ELSE Primary,
            n |-> BlockLen,
            codes |-> TRUE,
            tokens |-> [i \in DOMAIN TokenStarts |-> ranks[TokenStarts[i]]],
            runs |-> [i \in DOMAIN runStarts |-> RunFrom(runStarts[i])]])
    /\ start' = start + BlockLen
    /\ pc' = "block"
    /\ order' = <<>> /\ rank' = <<>> /\ k' = 0
    /\ ranks' = <<>> /\ column' = <<>> /\ table' = <<>>
    /\ UNCHANGED <<data, whole, pos, token, run, row, block, out>>

-----------------------------------------------------------------------------
(* The stream arrives: whole, cut short, or with other blocks in it.  A    *)
(* stream cut inside a block is as one cut before it: both lack its end.   *)
(* If a changed block states other lengths of its sections, the next is    *)
(* looked for where there is none.                                         *)

\* A block that is not one.
Unreadable == [primary |-> 0, n |-> 1, codes |-> FALSE, tokens |-> <<0>>, runs |-> <<1>>]

Transport ==
    /\ pc = "block" /\ start = N
    /\ \/ UNCHANGED blocks
       \/ \E m \in 0 .. Len(blocks) - 1 : blocks' = SubSeq(blocks, 1, m)
       \/ \E b \in Damage(data) :
            \/ blocks' = Append(blocks, b)
            \/ \E i \in DOMAIN blocks :
                 \/ blocks' = [blocks EXCEPT ![i] = b]
                 \/ blocks' = Append(SubSeq(blocks, 1, i - 1), b)
                 \/ blocks' = SubSeq(blocks, 1, i - 1) \o <<b, Unreadable>>
    /\ whole' = (blocks' = blocks)
    /\ pc' = "decode"
    /\ UNCHANGED <<data, encoder, decoder>>

-----------------------------------------------------------------------------
(* decompress(stream, N). *)

Fail ==
    /\ pc' = "error"
    /\ UNCHANGED <<data, encoder, stream, decoder>>

Here == blocks[pos + 1]

\* The end of the stream, or of the output.
MissingBlock == pc = "decode" /\ Len(out) < N /\ pos = Len(blocks) /\ Fail
DataAfterLast == pc = "decode" /\ Len(out) >= N /\ pos # Len(blocks) /\ Fail
Complete ==
    /\ pc = "decode" /\ Len(out) >= N /\ pos = Len(blocks)
    /\ pc' = "ok"
    /\ UNCHANGED <<data, encoder, stream, decoder>>

BadHeader == Here.n = 0 \/ Here.n > N - Len(out) \/ Len(Here.tokens) > Here.n

\* codes: all numbers of the header are there and fit their types, so do both
\* sections of the lengths it gives, the frequencies are a table of ans, and
\* ans::decode turns the coded section into as many tokens as stated.
RejectBlock ==
    /\ pc = "decode" /\ Len(out) < N /\ pos < Len(blocks)
    /\ BadHeader \/ ~Here.codes
    /\ Fail

DecodeTokens ==
    /\ pc = "decode" /\ Len(out) < N /\ pos < Len(blocks)
    /\ ~BadHeader /\ Here.codes
    /\ pc' = "join"
    /\ token' = 0 /\ run' = 0 /\ ranks' = <<>>
    /\ UNCHANGED <<data, encoder, stream, pos, column, table, row, block, out>>

Joining == pc = "join" /\ token < Len(Here.tokens)
Token == Here.tokens[token + 1]

\* join_runs: a run of zeros.  The new length is a sum in 64 bits.
RunMissing == Joining /\ Token = 0 /\ run = Len(Here.runs) /\ Fail

RunLen == Here.runs[run + 1]
Sum == (Len(ranks) + RunLen) % WORD
TooLong == RunLen = 0 \/ Sum > Here.n
RunTooLong == Joining /\ Token = 0 /\ run < Len(Here.runs) /\ TooLong /\ Fail

\* Vec::resize to the sum: the vector grows, or is cut.
JoinRun ==
    /\ Joining /\ Token = 0 /\ run < Len(Here.runs) /\ ~TooLong
    /\ ranks' = [i \in 1 .. Sum |-> IF i <= Len(ranks) THEN ranks[i] ELSE 0]
    /\ run' = run + 1
    /\ token' = token + 1
    /\ UNCHANGED <<data, encoder, stream, pc, pos, column, table, row, block, out>>

Overrun == Joining /\ Token # 0 /\ Len(ranks) >= Here.n /\ Fail

JoinLiteral ==
    /\ Joining /\ Token # 0 /\ Len(ranks) < Here.n
    /\ ranks' = Append(ranks, Token)
    /\ token' = token + 1
    /\ UNCHANGED <<data, encoder, stream, pc, pos, run, column, table, row, block, out>>

JoinEnds == pc = "join" /\ token = Len(Here.tokens)
WrongLength == JoinEnds /\ Len(ranks) # Here.n /\ Fail

StartColumn ==
    /\ JoinEnds /\ Len(ranks) = Here.n
    /\ pc' = "column"
    /\ column' = <<>> /\ table' = FirstTable
    /\ UNCHANGED <<data, encoder, stream, pos, token, run, ranks, row, block, out>>

\* Mutant: the table stays as it is.
DecodeRankStill ==
    /\ pc = "column" /\ Len(column) < Here.n
    /\ column' = Append(column, table[ranks[Len(column) + 1] + 1])
    /\ UNCHANGED <<data, pc, encoder, stream, pos, token, run, ranks, table, row, block, out>>

\* mtf::decode: the byte the next rank stands for.
DecodeRank ==
    /\ pc = "column" /\ Len(column) < Here.n
    /\ LET r == ranks[Len(column) + 1] IN
         /\ column' = Append(column, table[r + 1])
         /\ table' = ToFront(table, r)
    /\ UNCHANGED <<data, pc, encoder, stream, pos, token, run, ranks, row, block, out>>

ColumnDone == pc = "column" /\ Len(column) = Here.n

BlockDone(bytes) ==
    /\ out' = out \o bytes
    /\ pos' = pos + 1
    /\ pc' = "decode"
    /\ token' = 0 /\ run' = 0 /\ ranks' = <<>> /\ column' = <<>> /\ table' = <<>>
    /\ row' = 0 /\ block' = <<>>
    /\ UNCHANGED <<data, encoder, stream>>

\* inverse: one byte needs no walk, whatever the primary index.
InverseShort == ColumnDone /\ Here.n = 1 /\ BlockDone(column)

BadPrimary == Here.primary >= Here.n
RejectPrimary == ColumnDone /\ Here.n > 1 /\ BadPrimary /\ Fail

StartInverse ==
    /\ ColumnDone /\ Here.n > 1 /\ ~BadPrimary
    /\ row' = Here.primary
    /\ block' = <<>>
    /\ pc' = "walk"
    /\ UNCHANGED <<data, encoder, stream, pos, token, run, ranks, column, table, out>>

\* The row whose first byte is the last byte of row i: the bytes below it, then
\* its equals in the order of the last column.
lf(i) ==
    Cardinality({j \in DOMAIN column : column[j] < column[i + 1]
                                        \/ (column[j] = column[i + 1] /\ j <= i)})

InverseStep ==
    /\ pc = "walk" /\ Len(block) < Here.n
    /\ block' = <<column[row + 1]>> \o block
    /\ row' = lf(row)
    /\ UNCHANGED <<data, encoder, stream, pc, pos, token, run, ranks, column, table, out>>

InverseDone == pc = "walk" /\ Len(block) = Here.n /\ BlockDone(block)

-----------------------------------------------------------------------------
Compress == SortFirst \/ SortSecondHalf \/ SortFirstHalf \/ TakeShort \/ TakeSorted
            \/ EncodeRank \/ WriteBlock
JoinRuns == RunMissing \/ RunTooLong \/ JoinRun \/ Overrun \/ JoinLiteral \/ WrongLength
MoveToFront == StartColumn \/ DecodeRank
InverseBlock == InverseShort \/ RejectPrimary \/ StartInverse \/ InverseStep \/ InverseDone
Decompress ==
    \/ MissingBlock \/ DataAfterLast \/ Complete \/ RejectBlock \/ DecodeTokens
    \/ JoinRuns \/ MoveToFront \/ InverseBlock

Next == Compress \/ Transport \/ Decompress

Spec == Init /\ [][Next]_vars

-----------------------------------------------------------------------------
(* Properties. *)

\* Byte m of the rotation that starts at i.
Rotated(i, m) == BlockByte((i + m) % BlockLen)
SameBytes(i, j, len) == \A m \in 0 .. len - 1 : Rotated(i, m) = Rotated(j, m)
SortsBefore(i, j, len) ==
    \E m \in 0 .. len - 1 : SameBytes(i, j, m) /\ Rotated(i, m) < Rotated(j, m)

\* Before each round the ranks compare the rotations by exactly their first k
\* bytes, around the end of the block, and the order is sorted by these bytes
\* and then by the start of the rotation; k bytes are as good as BlockLen once
\* the sort stops.  Rotations that are equal all around stay in order of their
\* start: inverse assumes nothing else.
RanksExact ==
    pc \in {"sort", "sorted"} =>
        /\ \A i, j \in Positions :
             /\ rank[i] < rank[j] <=> SortsBefore(i, j, k)
             /\ rank[i] = rank[j] <=> SameBytes(i, j, k)
        /\ \A p, q \in 1 .. BlockLen :
             p < q => \/ SortsBefore(order[p], order[q], k)
                      \/ SameBytes(order[p], order[q], k) /\ order[p] < order[q]
        /\ Sorted => \A i, j \in Positions :
             SameBytes(i, j, k) <=> SameBytes(i, j, BlockLen)

Outcome == IF pc \in {"ok", "error"} THEN pc ELSE "running"

\* The block sorter keeps the promise of the trait Codec.
C == INSTANCE Codec WITH input <- data, intact <- whole, output <- out, result <- Outcome

ImplementsCodec == C!Spec

\* join_runs "Rejects malformed input (a run past `n`, ...)": a run that is
\* joined ends within the block.  (pipeline.rs:190.)
RunsStayInside == [][JoinRun => Len(ranks) + RunLen <= Here.n]_vars

=============================================================================
