------------------------- MODULE MCLzmaMatchFinder -------------------------
(* Small instances of LzmaMatchFinder for TLC. *)
EXTENDS LzmaMatchFinder, TLC

CONSTANT MaxInput   \* bound: longest of the inputs taken exhaustively

MCByte == 0 .. 1
MCShortInputs == UNION {[1 .. n -> MCByte] : n \in {1, 4, MaxInput}}

\* The last four bytes occur twice before, and what followed differs: the
\* position that takes over in the tree is too short to tell them apart.
MCLongInputs == {<<0, 0, 0, 0, 0, 1, 0, 0, 0, 0>>, <<1, 1, 1, 1, 1, 0, 1, 1, 1, 1>>}

MCInputs == MCShortInputs \cup MCLongInputs

Finder(k, w, d, n) == [kind |-> k, window |-> w, depth |-> d, nice_len |-> n]

\* Thorough and hasty, of a window shorter than the input and a longer one.
MCFinders ==
    {Finder(k, w[1], w[2], w[3]) :
        k \in Kind, w \in {<<4, MaxInput, 4>>, <<MaxInput + 1, MaxInput, 5>>, <<5, 2, 6>>}}

\* Collides on purpose: strings that agree in the middle share a slot.
MCSlots == 0 .. 1
MCSlots3 == MCSlots \X MCSlots
MChash3 == [b \in [1 .. 3 -> MCByte] |-> <<b[1], (b[2] + b[3]) % 2>>]
MChash4 == [b \in [1 .. 4 -> MCByte] |-> b[3]]
=============================================================================
