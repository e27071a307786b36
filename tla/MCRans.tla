------------------------------- MODULE MCRans -------------------------------
(* Small instances of Rans for TLC. *)
EXTENDS Rans

CONSTANTS
    MaxInput,       \* bound: longest input with every order of its symbols
    LongCounts,     \* bound: how often a symbol occurs in a longer block
    MaxPlace,       \* bound: how far from its start a file is changed
    MaxPairPlace    \* bound: the same for two numbers in a row

\* A block of the counts c, all equal symbols together.
BlockOf(c) ==
    FlattenSeq([s \in 1 .. SYMBOLS |-> [k \in 1 .. c[s - 1] |-> s - 1]])

\* Every short input; longer ones where the counts are not near a fraction of M.
MCInputs ==
    SeqOf(Symbols, MaxInput)
      \cup {BlockOf(c) : c \in {d \in [Symbols -> LongCounts] : Total(d) > MaxInput}}

\* A frequency for each symbol, none of them what its count asks for.
MCTables == {f \in [Symbols -> {1, M - SYMBOLS + 1}] : Total(f) = M}

\* Any number, any two frequencies of the first block, any two bytes in a row.
MCChanges ==
    UNION {[{k} -> 0 .. M] : k \in 1 .. MaxPlace}
      \cup UNION {[{j, k} -> 0 .. M] : j, k \in 1 .. SYMBOLS}
      \cup UNION {[{k, k + 1} -> 0 .. BYTE - 1] : k \in 1 .. MaxPairPlace}
=============================================================================
