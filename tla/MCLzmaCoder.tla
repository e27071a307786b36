---------------------------- MODULE MCLzmaCoder ----------------------------
(* Small instances of LzmaCoder for TLC. *)
EXTENDS LzmaCoder, TLC

CONSTANTS
    MaxInput,   \* bound: longest input of those taken all
    LongInputs  \* longer inputs, taken for the repeats in them

MCByte == 0 .. 1
MCHighBits == [b \in MCByte |-> b]

MCShortInputs == UNION {[1 .. n -> MCByte] : n \in 0 .. MaxInput}

\* Repeats at every distance, and at some only, so that all four repeat
\* distances come into use and mistaking one for another shows.
MCLongInputs ==
    {<<0, 0, 0, 0, 0, 0, 0>>, <<0, 0, 1, 0, 0, 1, 0, 0, 1, 0>>}

MCInputs == MCShortInputs \cup LongInputs
=============================================================================
