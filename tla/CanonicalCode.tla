--------------------------- MODULE CanonicalCode ---------------------------
(***************************************************************************)
(* The code given by code lengths, as crates/codecs/src/huffman.rs writes  *)
(* it (canonical_codes, Encoder) and reads it (validate, Decoder), and the *)
(* fields of bits.rs around it: lowest bit first.  A stream is a sequence  *)
(* of bits, a place in it the number of bits before it.                    *)
(***************************************************************************)
EXTENDS Naturals, Sequences, FiniteSets, FiniteSetsExt

CONSTANT MAX_CODE_LEN   \* 15

ASSUME CodeAssumption == MAX_CODE_LEN \in Nat \ {0}

Pow(k) == 2 ^ k
SumOver(S, F(_)) == MapThenSumSet(F, S)

-----------------------------------------------------------------------------
(* Bits. *)

\* write_bits
Bits(value, n) == [i \in 1 .. n |-> (value \div Pow(i - 1)) % 2]

\* peek_bits: zeros past the end.
Peek(bits, at, n) ==
    SumOver(1 .. n, LAMBDA i : IF at + i <= Len(bits) THEN bits[at + i] * Pow(i - 1) ELSE 0)

Has(bits, at, n) == at + n <= Len(bits)

-----------------------------------------------------------------------------
(* The code of lengths ls. *)

Coded(ls) == {s \in DOMAIN ls : ls[s] > 0}
MaxLen(ls) == Max({0} \cup {ls[s] : s \in DOMAIN ls})
OfLen(ls, len) == {s \in Coded(ls) : ls[s] = len}

\* The first code of each length: the codes before it, moved up by a bit.
\* Mutant: the codes before it are not moved along.
FirstCodeAlone(ls) ==
    LET first[len \in 0 .. MaxLen(ls)] ==
          IF len = 0 THEN 0 ELSE first[len - 1] * 2 + Cardinality(OfLen(ls, len - 1))
    IN first
FirstCode(ls) ==
    LET first[len \in 0 .. MaxLen(ls)] ==
          IF len = 0 THEN 0 ELSE (first[len - 1] + Cardinality(OfLen(ls, len - 1))) * 2
    IN first

\* Codes of the same length are consecutive in symbol order.
canonical_code(ls, s) ==
    FirstCode(ls)[ls[s]] + Cardinality({t \in OfLen(ls, ls[s]) : t < s})

\* Codes are defined highest bit first, the stream is lowest bit first.
reverse_bits(code, len) ==
    SumOver(1 .. len, LAMBDA i : ((code \div Pow(len - i)) % 2) * Pow(i - 1))

Reversed(ls, s) == reverse_bits(canonical_code(ls, s), ls[s])

\* What Encoder::write appends for s.
Code(ls, s) == Bits(Reversed(ls, s), ls[s])

\* validate: no length above the largest, Kraft sum at most 1.
Valid(ls) ==
    /\ \A s \in DOMAIN ls : ls[s] <= MAX_CODE_LEN
    /\ SumOver(Coded(ls), LAMBDA s : Pow(MAX_CODE_LEN - ls[s])) <= Pow(MAX_CODE_LEN)

\* What Decoder peeks at.
Width(ls) == Max({1, MaxLen(ls)})

\* The decode table: the symbol and length of every bit pattern; length 0 if
\* no code starts it.
NoCode == [sym |-> 0, len |-> 0]
Table(ls) ==
    LET reversed == {[sym |-> s, len |-> ls[s], code |-> Reversed(ls, s)] : s \in Coded(ls)}
        Starts(pattern) == {e \in reversed : pattern % Pow(e.len) = e.code}
    IN [p \in 0 .. Pow(Width(ls)) - 1 |->
          IF Starts(p) = {} THEN NoCode
          ELSE LET e == CHOOSE x \in Starts(p) : \A y \in Starts(p) : y.sym <= x.sym
               IN [sym |-> e.sym, len |-> e.len]]

\* A Decoder, and the entry it finds at a place: Decoder::read then consumes
\* len bits if there are so many.
Decoder(ls) == [width |-> Width(ls), table |-> Table(ls)]
Entry(decoder, bits, at) == decoder.table[Peek(bits, at, decoder.width)]
=============================================================================
