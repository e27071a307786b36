----------------------------- MODULE MCHuffman -----------------------------
(* Small instances of Huffman for TLC. *)
EXTENDS Huffman

CONSTANTS
    MaxSymbol,  \* bound: the last symbol
    MaxInput,   \* bound: the longest of all inputs in ascending order
    MaxChanged  \* bound: the longest input whose stream is changed

MCSymbol == 0 .. MaxSymbol

\* Counts that make codes longer than the limit.
Steep == {<<1, 1, 2, 3, 5, 8>>, <<8, 5, 3, 2, 1, 1>>, <<2, 1, 1, 4, 16, 8>>}

\* Equal symbols together: code lengths depend on the counts only.
BlockOf(c) == FlattenSeq([s \in DOMAIN c |-> [k \in 1 .. c[s] |-> s - 1]])

Ascending == {d \in UNION {[1 .. size -> MCSymbol] : size \in 0 .. MaxInput} :
                \A i \in 1 .. Len(d) - 1 : d[i] <= d[i + 1]}

MCInputs == Ascending \cup {BlockOf(c) : c \in Steep}
MCChanged == {d \in Ascending : Len(d) <= MaxChanged}
=============================================================================
