---------------------------- MODULE MCLzmaParse ----------------------------
(* Small instances of LzmaParse for TLC. *)
EXTENDS LzmaParse, TLC

CONSTANT MaxInput   \* bound: longest of all binary inputs

MCInputs ==
    UNION {[1 .. n -> 0 .. 1] : n \in {1, MaxInput}}
      \cup {<<0, 1, 2, 0, 1, 2, 0, 3, 2, 0, 1, 2>>, <<0, 1, 0, 2, 0, 1, 0, 3, 0, 1, 0, 2>>,
            <<0, 1, 2, 3, 0, 1, 4, 3, 0, 1, 2, 3, 0>>, <<0, 0, 0, 0, 0, 0, 1, 0, 0, 0, 0, 0>>,
            <<1, 1, 5, 0, 1, 2, 3, 1, 2, 4, 0, 1, 1, 2, 3>>}

MCEfforts == [parse: {"Fast", "Optimal"}, depth: {1, 20}, nice_len: {3, 6}]

\* What an operation of each kind costs; repeats and matches by length or
\* by distance too, literals against a match byte less if they differ.
MCModels == {"even", "reps"}
MCPrice(m, s, p, op, against) ==
    CASE op.kind = "Literal"  -> 9 + (s % 3) - (IF against = NoMatchByte THEN 0 ELSE 2 + against)
      [] op.kind = "ShortRep" -> (IF m = "even" THEN 4 ELSE 11) + (s % 2) + (p % 2)
      [] op.kind = "Rep"      -> (IF m = "even" THEN 7 ELSE 5) + op.index + (s % 4) + (p % 2) + op.len
      [] op.kind = "Match"    -> (IF m = "even" THEN 8 ELSE 12) + (s % 5) + op.len + op.dist \div 4
=============================================================================
