------------------------------ MODULE MCContainers ------------------------------
(* Small instances of Containers for TLC. *)
EXTENDS Containers

CONSTANTS
    MaxTokens,  \* bound: the longest of all short sequences of tokens
    MaxFramed   \* bound: the longest of all short frames

\* The tables of tables.rs, for bytes of 3 bits; the last length has a code of
\* its own and the last fixed symbol stands for nothing, as there.
MCLengthBase == <<3, 4>>
MCLengthExtra == <<1, 0>>
MCDistBase == <<1, 2, 3>>
MCDistExtra == <<0, 0, 1>>
MCFixedLit == [s \in 0 .. 11 |-> IF s < 8 THEN 4 ELSE 3]
MCFixedDist == [s \in 0 .. 2 |-> 2]
MCClOrder == <<5, 6, 7, 0, 2, 1, 3, 4>>

MCCrc(bytes) ==
    LET crc[i \in 0 .. Len(bytes)] ==
          IF i = 0 THEN 1 ELSE (crc[i - 1] * 3 + bytes[i] + 1) % Pow(BYTE)
    IN crc[Len(bytes)]

Tokens == {Literal(1), Literal(6), Match(3, 1), Match(4, 3)}

\* Every match has its source.
Possible(tokens) ==
    \A i \in DOMAIN tokens : tokens[i].kind = "match" =>
        tokens[i].dist <= Len(Expanded(SubSeq(tokens, 1, i - 1)))

Short == {t \in UNION {[1 .. k -> Tokens] : k \in 0 .. MaxTokens} : Possible(t)}

\* Long enough for codes of their own, for two blocks and for two chunks.
Lits(n, b) == [i \in 1 .. n |-> Literal(b)]
AllLits(n) == [i \in 1 .. n |-> Literal(i - 1)]
Runs(k, n) == FlattenSeq([i \in 1 .. k |-> <<Literal(i % n), Match(4, 1)>>])
Dists == AllLits(4) \o FlattenSeq([i \in 1 .. 6 |->
            <<Match(3, 4), Match(4, 3), Match(4, 1), Match(3, 2), Match(3, 3)>>])
Long == {
    Lits(20, 6),
    Lits(9, 0) \o Lits(9, 7) \o <<Match(4, 4)>>,
    AllLits(8) \o AllLits(6),
    AllLits(5),
    <<Literal(7)>> \o [i \in 1 .. 21 |-> Match(4, 1)],
    Runs(17, 5) \o Runs(5, 2),
    Dists}

Made(tokens) == [tokens |-> tokens, stored |-> FALSE, flags |-> {}]
MadeStored(tokens) == [tokens |-> tokens, stored |-> TRUE, flags |-> {}]
Named(tokens, flags) == [tokens |-> tokens, stored |-> FALSE, flags |-> flags]

MCRaw ==
    {Made(t) : t \in Short \cup Long}
      \cup {MadeStored(t) : t \in {<<>>, Lits(2, 3), Lits(16, 6)}}

Second == <<Literal(3), Match(3, 1)>>
MCFiles ==
    {<<Named(Lits(2, 6), flags)>> : flags \in SUBSET (FHCRC .. FCOMMENT)}
      \cup {<<Made(t), Made(Second)>> : t \in {<<>>, Lits(1, 2), Lits(20, 6)}}
      \cup {<<MadeStored(Lits(2, 3)), Named(Second, {FNAME}), Made(<<>>)>>}

MCCodecIds == [store |-> 0, packbits |-> 1, rle |-> 2, deflate |-> 5]

\* Runs and literals up to the largest packets and past them.
LongFramed ==
    {Lits(n, 6) : n \in 5 .. 9} \cup {AllLits(4) \o AllLits(n) : n \in 1 .. 4}
      \cup {AllLits(2) \o Lits(n, 3) \o AllLits(3) : n \in 2 .. 6}

In(codec, tokens) == [codec |-> codec] @@ Made(tokens)
MCFramed ==
    {In(codec, t) : codec \in Codecs \ {"deflate"},
        t \in UNION {[1 .. k -> {Literal(0), Literal(5)}] : k \in 0 .. MaxFramed} \cup LongFramed}
      \cup {In("deflate", t) : t \in {<<>>, Lits(1, 2), Second, Lits(20, 6)}}

MCDamageable ==
    {<<m>> : m \in {Made(t) : t \in Long \cup {Second}} \cup MCFramed}
      \cup {<<Made(Lits(1, 2)), Made(Second)>>, <<Named(Lits(2, 6), FHCRC .. FCOMMENT)>>}
=============================================================================
