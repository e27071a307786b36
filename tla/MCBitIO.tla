------------------------------ MODULE MCBitIO ------------------------------
(* Small instances of BitIO for TLC. *)
EXTENDS BitIO, TLC

CONSTANT MaxOps   \* bound: operations of a program

Field(v, n) == [kind |-> "bits", value |-> v, n |-> n]
Gamma(v) == [kind |-> "gamma", value |-> v, n |-> 0]

\* Fields of no bits, a bit, a byte and more, and of the most bits; gamma codes
\* without rest, of one field and of two.
MCOps ==
    {Field(0, 0), Field(1, 1), Field(2, 2), Field(5, 3), Field(9, 4), Field(0, 4),
     Gamma(1), Gamma(5), Gamma(37), Gamma(200), [kind |-> "align", value |-> 0, n |-> 0]}

MCPrograms == UNION {[1 .. n -> MCOps] : n \in 0 .. MaxOps}
=============================================================================
