------------------------------ MODULE LzmaState ------------------------------
(***************************************************************************)
(* What the parsers, the token coder and the decoder of LZMA share: the    *)
(* operations (enum Op), the state machine (State) and the four repeat     *)
(* distances.  crates/codecs/src/lzma/mod.rs and encode.rs.                *)
(***************************************************************************)
EXTENDS Naturals, Sequences

LIT_STATES == 7
States == 0 .. 11

IsLiteral(s) == s < LIT_STATES

AfterLiteral(s) == IF s <= 3 THEN 0 ELSE IF s <= 9 THEN s - 3 ELSE s - 6
AfterMatch(s) == IF IsLiteral(s) THEN 7 ELSE 10
AfterRep(s) == IF IsLiteral(s) THEN 8 ELSE 11
AfterShortRep(s) == IF IsLiteral(s) THEN 9 ELSE 11

\* reps[..=index].rotate_right(1)
MovedToFront(r, index) ==
    [j \in 1 .. 4 |-> IF j = 1 THEN r[index + 1] ELSE IF j <= index + 1 THEN r[j - 1] ELSE r[j]]

NewFront(r, dist) == <<dist, r[1], r[2], r[3]>>

\* l bytes of data at p repeat what is dist bytes before them.
Repeats(data, p, dist, l) ==
    /\ dist <= p /\ p + l <= Len(data)
    /\ \A k \in 1 .. l : data[p + k] = data[p - dist + k]

-----------------------------------------------------------------------------
(* Op.  dist is 1-based; the other fields are 0 where they do not apply.   *)

Op(kind, index, dist, len) == [kind |-> kind, index |-> index, dist |-> dist, len |-> len]
Literal == Op("Literal", 0, 0, 1)
ShortRep == Op("ShortRep", 0, 0, 1)
Rep(index, len) == Op("Rep", index, 0, len)
Match(dist, len) == Op("Match", 0, dist, len)

\* Encoder::emit: state machine and distances once op is coded.
Emitted(coder, op) ==
    [state |-> CASE op.kind = "Literal"  -> AfterLiteral(coder.state)
                 [] op.kind = "ShortRep" -> AfterShortRep(coder.state)
                 [] op.kind = "Rep"      -> AfterRep(coder.state)
                 [] op.kind = "Match"    -> AfterMatch(coder.state),
     reps  |-> CASE op.kind = "Rep"   -> MovedToFront(coder.reps, op.index)
                 [] op.kind = "Match" -> NewFront(coder.reps, op.dist - 1)
                 [] OTHER             -> coder.reps]

\* op says what data holds at p: what a decoder with these distances puts
\* there is right.
Describes(data, p, r, op) ==
    CASE op.kind = "Literal"  -> p < Len(data)
      [] op.kind = "ShortRep" -> Repeats(data, p, r[1] + 1, 1)
      [] op.kind = "Rep"      -> Repeats(data, p, r[op.index + 1] + 1, op.len)
      [] op.kind = "Match"    -> Repeats(data, p, op.dist, op.len)
=============================================================================
