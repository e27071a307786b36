------------------------------- MODULE MCBwt -------------------------------
(* Small instances of Bwt for TLC. *)
EXTENDS Bwt

CONSTANT MaxInput   \* bound: longest input

MCInputs == UNION {[1 .. n -> Byte] : n \in 0 .. MaxInput}

Words(S, n) == UNION {[1 .. m -> S] : m \in 0 .. n}

\* Bound: the inputs whose streams are damaged.  Of no, one and many blocks,
\* periodic, of one byte, with a last block of one byte.
Damaged == {<<>>, <<0>>, <<1, 1, 1>>, <<2, 0, 1, 0>>, <<0, 1, 0, 1, 2, 2, 0>>}

\* Blocks that do not hold together; lengths that overflow.
MCDamage(d) ==
    IF d \notin Damaged THEN {}
    ELSE [primary: {0}, n: {1, 3}, codes: {FALSE}, tokens: {<<0>>}, runs: {<<1>>}]
           \cup [primary: 0 .. 3, n: 0 .. 4, codes: {TRUE}, tokens: Words(Byte, 2),
                  runs: Words({1, 2, WORD - 1}, 1)]

\* Runs whose sum overflows, for one input of a few bytes.
MCFewInputs == {<<1, 1, 1>>}
MCLongRuns(d) ==
    [primary: {0}, n: {3}, codes: {TRUE}, tokens: Words({0, 1}, 3), runs: Words({1, 3, WORD - 1}, 2)]
=============================================================================
