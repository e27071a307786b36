------------------------------ MODULE MCLzss ------------------------------
(* Small instances of Lz77 and Lzss for TLC. *)
EXTENDS Lzss, TLC

CONSTANT MaxInput   \* bound: longest input

MCByte == 0 .. 1

\* Bound: the rotations of a longer input that use the match the look-ahead found
\* more than once.
Long == <<0, 0, 1, 0, 0, 0, 0, 1>>
Longer == {SubSeq(Long, k + 1, 8) \o SubSeq(Long, 1, k) : k \in 0 .. 7}

MCInputs == UNION {[1 .. n -> MCByte] : n \in 0 .. MaxInput} \cup Longer

Effort4(c, n, l, g) == [max_chain |-> c, nice_len |-> n, lazy_len |-> l, good_len |-> g]

\* Greedy with one candidate; greedy; lazy; lazy that always looks ahead.
MCParamSet ==
    {Effort4(1, 3, 0, 2), Effort4(4, 3, 0, 3), Effort4(2, 4, 3, 2), Effort4(5, 5, 5, 3)}

\* Collides on purpose: runs of either byte share a slot.
MCHashSlots == 0 .. 1
MCHash == [b \in [1 .. MIN_MATCH -> MCByte] |-> (b[1] + b[MIN_MATCH]) % 2]
=============================================================================
