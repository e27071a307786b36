------------------------------ MODULE Inflate ------------------------------
(***************************************************************************)
(* The Deflate decoder of crates/codecs/src/deflate/decode.rs: one action  *)
(* is one block header, one code length or one token read.  It may be      *)
(* given any stream; every error is the outcome "error".                   *)
(***************************************************************************)
EXTENDS Deflate

VARIABLES
    stream,  \* the bits it is given
    at,      \* bits read
    start,   \* length of out when inflate was called
    room,    \* how long out may become: the limit
    last,    \* this is the last block
    code,    \* the codes of the block, or its header while it is read
    out

readVars == <<stream, start, room>>
inflateVars == <<stream, at, start, room, last, code, out>>

Reject ==
    /\ pc' = "error"
    /\ UNCHANGED inflateVars

\* check_room
Fits(n) == Len(out) + n <= room

\* The code at a place of the stream is there.
Readable(e, place) == e.len > 0 /\ Has(stream, place, e.len)

AfterBlock == IF last THEN "inflated" ELSE "block"

Aligned(place) == ((place + BYTE - 1) \div BYTE) * BYTE

FixedCodes == [lit |-> Decoder(FixedLit), dist |-> Decoder(FixedDist)]

\* read_bit and read_bits(2).
BlockStart ==
    /\ pc = "block" /\ Has(stream, at, 3)
    /\ LET kind == Peek(stream, at + 1, 2) IN
       /\ kind < 3
       /\ pc' = CASE kind = 0 -> "stored" [] kind = 1 -> "symbol" [] kind = 2 -> "header"
       /\ code' = IF kind = 1 THEN FixedCodes ELSE <<>>
    /\ last' = (Peek(stream, at, 1) = 1)
    /\ at' = at + 3
    /\ UNCHANGED <<readVars, out>>

RejectBlock ==
    /\ pc = "block" /\ (Has(stream, at, 3) => Peek(stream, at + 1, 2) = 3)
    /\ Reject

\* stored_block
StoredFrom == Aligned(at) + 2 * LEN_BITS
StoredLen == Peek(stream, Aligned(at), LEN_BITS)
StoredIntact ==
    /\ Has(stream, Aligned(at), 2 * LEN_BITS)
    /\ StoredLen + Peek(stream, Aligned(at) + LEN_BITS, LEN_BITS) = MAX_STORED
    /\ Fits(StoredLen)
    /\ Has(stream, StoredFrom, StoredLen * BYTE)

StoredBlock ==
    /\ pc = "stored" /\ StoredIntact
    /\ out' = out \o [i \in 1 .. StoredLen |-> Peek(stream, StoredFrom + (i - 1) * BYTE, BYTE)]
    /\ at' = StoredFrom + StoredLen * BYTE
    /\ pc' = AfterBlock
    /\ UNCHANGED <<readVars, last, code>>

RejectStored == pc = "stored" /\ ~StoredIntact /\ Reject

\* read_dynamic_header: the counts and the code of code lengths.
CountsBits == HLIT_BITS + HDIST_BITS + HCLEN_BITS
Counted ==
    [hlit |-> Peek(stream, at, HLIT_BITS) + END_OF_BLOCK + 1,
     hdist |-> Peek(stream, at + HLIT_BITS, HDIST_BITS) + 1,
     hclen |-> Peek(stream, at + HLIT_BITS + HDIST_BITS, HCLEN_BITS) + MIN_HCLEN]
ClLengths ==
    [s \in ClSymbol |->
        LET p == CHOOSE i \in DOMAIN CL_ORDER : CL_ORDER[i] = s
        IN IF p > Counted.hclen THEN 0
           ELSE Peek(stream, at + CountsBits + (p - 1) * CL_BITS, CL_BITS)]
CountsUsable ==
    /\ Has(stream, at, CountsBits)
    /\ Counted.hlit <= NUM_LITLEN /\ Counted.hdist <= NUM_DIST
    /\ Has(stream, at, CountsBits + Counted.hclen * CL_BITS)
    /\ Valid(ClLengths)

ReadCounts ==
    /\ pc = "header" /\ CountsUsable
    /\ code' = [hlit |-> Counted.hlit, total |-> Counted.hlit + Counted.hdist,
                cl |-> Decoder(ClLengths), lengths |-> <<>>]
    /\ at' = at + CountsBits + Counted.hclen * CL_BITS
    /\ pc' = "lengths"
    /\ UNCHANGED <<readVars, last, out>>

RejectCounts == pc = "header" /\ ~CountsUsable /\ Reject

\* One symbol of the code of code lengths: a length, or a run of them.
ClEntry == Entry(code.cl, stream, at)
ClValue ==
    IF ClEntry.sym <= MAX_CODE_LEN THEN ClEntry.sym
    ELSE IF ClEntry.sym = REPEAT THEN Last(code.lengths) ELSE 0
ClRepeat ==
    IF ClEntry.sym <= MAX_CODE_LEN THEN 1
    ELSE Least(ClEntry.sym) + Peek(stream, at + ClEntry.len, extra_bits_for_cl(ClEntry.sym))
LengthUsable ==
    /\ Readable(ClEntry, at)
    /\ ClEntry.sym = REPEAT => code.lengths # <<>>
    /\ Has(stream, at, ClEntry.len + extra_bits_for_cl(ClEntry.sym))
    /\ Len(code.lengths) + ClRepeat <= code.total

ReadLength ==
    /\ pc = "lengths" /\ Len(code.lengths) < code.total /\ LengthUsable
    /\ code' = [code EXCEPT !.lengths = @ \o [i \in 1 .. ClRepeat |-> ClValue]]
    /\ at' = at + ClEntry.len + extra_bits_for_cl(ClEntry.sym)
    /\ UNCHANGED <<readVars, last, out, pc>>

RejectLength ==
    pc = "lengths" /\ Len(code.lengths) < code.total /\ ~LengthUsable /\ Reject

LitLengths == [s \in 0 .. code.hlit - 1 |-> code.lengths[s + 1]]
DistLengths == [s \in 0 .. code.total - code.hlit - 1 |-> code.lengths[code.hlit + s + 1]]
CodesUsable == LitLengths[END_OF_BLOCK] > 0 /\ Valid(LitLengths) /\ Valid(DistLengths)

HeaderRead ==
    /\ pc = "lengths" /\ Len(code.lengths) = code.total /\ CodesUsable
    /\ code' = [lit |-> Decoder(LitLengths), dist |-> Decoder(DistLengths)]
    /\ pc' = "symbol"
    /\ UNCHANGED <<readVars, at, last, out>>

RejectCodes == pc = "lengths" /\ Len(code.lengths) = code.total /\ ~CodesUsable /\ Reject

\* huffman_block
LitEntry == Entry(code.lit, stream, at)
AtSymbol == pc = "symbol" /\ Readable(LitEntry, at)

ReadLiteral ==
    /\ AtSymbol /\ LitEntry.sym < END_OF_BLOCK /\ Fits(1)
    /\ out' = Append(out, LitEntry.sym)
    /\ at' = at + LitEntry.len
    /\ UNCHANGED <<readVars, last, code, pc>>

EndOfBlock ==
    /\ AtSymbol /\ LitEntry.sym = END_OF_BLOCK
    /\ at' = at + LitEntry.len
    /\ pc' = AfterBlock
    /\ UNCHANGED <<readVars, last, code, out>>

\* The fields of a match, each after the one before.
LengthIndex == LitEntry.sym - END_OF_BLOCK
DistAt == at + LitEntry.len + LENGTH_EXTRA[LengthIndex]
DistEntry == Entry(code.dist, stream, DistAt)
MatchEnd == DistAt + DistEntry.len + DIST_EXTRA[DistEntry.sym + 1]
MatchLen ==
    LENGTH_BASE[LengthIndex] + Peek(stream, at + LitEntry.len, LENGTH_EXTRA[LengthIndex])
Distance ==
    DIST_BASE[DistEntry.sym + 1]
      + Peek(stream, DistAt + DistEntry.len, DIST_EXTRA[DistEntry.sym + 1])

MatchUsable ==
    /\ LengthIndex <= Len(LENGTH_BASE)
    /\ Readable(DistEntry, DistAt)
    /\ DistEntry.sym < NUM_DIST
    /\ Has(stream, 0, MatchEnd)
    /\ Distance <= Len(out) - start /\ Fits(MatchLen)

ReadMatch ==
    /\ AtSymbol /\ LitEntry.sym > END_OF_BLOCK /\ MatchUsable
    /\ out' = copy_match(out, Distance, MatchLen)
    /\ at' = MatchEnd
    /\ UNCHANGED <<readVars, last, code, pc>>

RejectSymbol ==
    /\ pc = "symbol"
    /\ \/ ~Readable(LitEntry, at)
       \/ Readable(LitEntry, at) /\ LitEntry.sym < END_OF_BLOCK /\ ~Fits(1)
       \/ Readable(LitEntry, at) /\ LitEntry.sym > END_OF_BLOCK /\ ~MatchUsable
    /\ Reject

Inflate ==
    \/ BlockStart \/ StoredBlock \/ ReadCounts \/ ReadLength \/ HeaderRead
    \/ ReadLiteral \/ EndOfBlock \/ ReadMatch
    \/ RejectBlock \/ RejectStored \/ RejectCounts \/ RejectLength \/ RejectCodes \/ RejectSymbol
=============================================================================
