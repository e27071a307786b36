---------------------------- MODULE MCRangeCoder ----------------------------
(* Small instances of RangeCallers for TLC. *)
EXTENDS RangeCallers

CONSTANTS
    MaxMixed,   \* bound: operations of a sequence of all kinds
    MaxCarry,   \* bound: operations of a sequence that provokes carries
    MaxBytes    \* bound: bytes coded with a context

Single(kind, v, p0, slot) == Call(kind, 1, v, p0, <<"given">>, slot)

\* Every kind and every value.
Mixed ==
    {Single("bit", b, 0, 1) : b \in 0 .. 1}
        \cup {Single("with", b, 5, 0) : b \in 0 .. 1}
        \cup {Call(kind, 2, v, 0, <<"given">>, 0) : kind \in {"direct", "tree", "reverse"}, v \in 0 .. 3}

\* Steps to the very top and the very bottom of the interval, and small ones.
Extreme ==
    {Single("with", 1, WITH_ONE - 1, 0), Single("with", 0, 1, 0), Single("with", 1, 1, 0),
     Single("direct", 1, 0, 0), Single("bit", 1, 0, 1)}

Given ==
    {[user |-> "given", at |-> 0, means |-> s] :
        s \in SeqOf(Mixed, MaxMixed) \cup SeqOf(Extreme, MaxCarry)}

\* Order-0 and order-1.
Bytes ==
    {[user |-> "bytes", at |-> n, means |-> s] :
        n \in {1, 2^BYTE_BITS}, s \in SeqOf(0 .. 2^BYTE_BITS - 1, MaxBytes) \ {<<>>}}

\* Where an operation is coded: two of its contexts at a time.
At(state, pos, prev, matchByte) ==
    [state |-> state, pos |-> pos, prev |-> prev, matchByte |-> matchByte]
After0 == At(0, 1, 5, 0)
After10 == At(10, 0, 0, 0)
Start(at, op, byte) == [user |-> "lzma", at |-> at, means |-> <<op, byte>>]

AnyByte == 0 .. 2^BYTE_BITS - 1
LongestLen == 2 * 2^LOW_BITS + 2^HIGH_BITS - 1
Lens == MATCH_MIN_LEN .. MATCH_MIN_LEN + LongestLen
\* Of every kind of slot; the last is the end marker's.
SomeDists == {1, 4, 5, 8, 14, 17, 30, 97, 2^DIST_BITS}

Tokens ==
    {Start(At(0, pos, prev, 0), Literal, b) : pos \in 0 .. 1, prev \in AnyByte, b \in AnyByte}
        \cup {Start(At(7, 0, 0, match), Literal, b) : match \in AnyByte, b \in AnyByte}
        \cup {Start(at, ShortRep, 0) : at \in {After0, After10}}
        \cup {Start(at, Rep(index, len), 0) : at \in {After0, After10}, index \in 0 .. 3, len \in Lens}
        \cup {Start(After0, Match(dist, MATCH_MIN_LEN), 0) : dist \in 1 .. 2^DIST_BITS}
        \cup {Start(After10, Match(dist, len), 0) : dist \in SomeDists, len \in Lens}

MCCallers == Given \cup Bytes \cup Tokens
=============================================================================
