----------------------------- MODULE LzmaProofs -----------------------------
(* Proofs about LzmaCoder: whatever legal operations a parser chooses, the *)
(* decoder stays in step with the encoder, never lacks a match byte, and   *)
(* keeps the promise of Codec.                                             *)
EXTENDS LzmaCoder, NatLemmas, SequenceTheorems

-----------------------------------------------------------------------------
(* The inductive invariant: types.                                         *)

Models == {"is_match", "is_rep", "is_rep_g0", "is_rep0_long", "is_rep_g1", "is_rep_g2",
           "rep_len", "len", "dist", "literal"}
Ctxs == Models \X (Nat \cup (Nat \X Nat)) \X (Nat \cup Byte \cup {NoMatchByte})
Symbols == [ctx : Ctxs, value : Nat \cup Byte]
Reps == [1 .. 4 -> Nat]
Coders == [at : Nat, pos : Nat, state : States, reps : Reps]
AllOps == Ops \cup {EndMarker}
Entries == [op : AllOps, coder : Coders]

EncoderTypeOK ==
    /\ data \in Inputs /\ form \in Forms
    /\ pos \in 0 .. N /\ state \in States /\ reps \in Reps
    /\ wire \in Seq(Symbols)
    /\ coded \in Seq(Entries)

Inside == Decoding \cup {"copy"}

DecoderTypeOK ==
    /\ size \in {Unknown, Bad} \cup Nat /\ good \in 0 .. Len(wire) /\ tail \in Nat
    /\ pc \in {"encoding", "header", "finish"} \cup Inside \cup Results
    /\ dstate \in States /\ dreps \in Reps
    /\ len \in Nat /\ read \in Nat
    /\ where \in {"inside", "end", "past"}
    /\ out \in Seq(Byte) /\ Len(out) <= N

-----------------------------------------------------------------------------
(* The inductive invariant: what the encoder has coded.                    *)

\* The coder before operation j, or after the last.
Coder(j) == IF j <= Len(coded) THEN coded[j].coder ELSE Here

\* The number of symbols of an operation.
Width(op) ==
    CASE op.kind = "Literal"  -> 2
      [] op.kind = "ShortRep" -> 4
      [] op.kind = "Rep"      -> IF op.index < 2 THEN 5 ELSE 6
      [] op.kind = "Match"    -> 4

\* c2 is what coding op leaves of c.
Leaves(c, op, c2) ==
    /\ c2.pos = c.pos + op.len
    /\ c2.state = Emitted(c, op).state
    /\ c2.reps = Emitted(c, op).reps

\* The symbols of operation j are on the wire and the coder went on.
Recorded(j) ==
    LET c == Coder(j)
        op == coded[j].op
    IN  /\ Coder(j + 1).at = c.at + Width(op)
        /\ \A k \in 1 .. Width(op) : wire[c.at + k] = CodedOp(c, op)[k]
        /\ op # EndMarker =>
            /\ c.pos < N
            /\ Describes(data, c.pos, c.reps, op)
            /\ Leaves(c, op, Coder(j + 1))
        /\ op = EndMarker => j = Len(coded) /\ c.pos = N /\ pos = N /\ form # "size"

\* A coder that is not after a literal has a match byte.
HasMatchByte(c) == ~IsLiteral(c.state) => c.reps[1] < c.pos

Encoded ==
    /\ Coder(1) = [at |-> 0, pos |-> 0, state |-> 0, reps |-> <<0, 0, 0, 0>>]
    /\ \A j \in 1 .. Len(coded) + 1 :
        Coder(j).at <= Len(wire) /\ Coder(j).pos <= N /\ HasMatchByte(Coder(j))
    /\ \A j \in 1 .. Len(coded) : Recorded(j)
    /\ pc # "encoding" => pos = N /\ (form = "size" \/ Marked)

-----------------------------------------------------------------------------
(* The inductive invariant: how far the decoder is.                        *)

\* k symbols of operation j are read.
At(j, k) == read = Coder(j).at + k

\* The decoder has what the encoder had before operation j.
Same(j) == dstate = Coder(j).state /\ dreps = Coder(j).reps

OpAt(j) == coded[j].op

\* Where the decoder is in operation j, by what it decodes next.
InOp(j) ==
    /\ pc = "token" => At(j, 0) /\ Same(j) /\ ~(j = Len(coded) + 1 /\ Marked)
    /\ pc # "token" => j <= Len(coded)
    /\ pc = "literal" => At(j, 1) /\ Same(j) /\ OpAt(j).kind = "Literal"
    /\ pc = "is_rep"  => At(j, 1) /\ Same(j) /\ OpAt(j).kind # "Literal"
    /\ pc = "len"     => At(j, 2) /\ Same(j) /\ OpAt(j).kind = "Match"
    /\ pc = "dist" =>
        /\ At(j, 3) /\ OpAt(j).kind = "Match" /\ len = OpAt(j).len
        /\ dstate = AfterMatch(Coder(j).state) /\ dreps = Coder(j).reps
    /\ pc = "is_rep_g0" => At(j, 2) /\ Same(j) /\ OpAt(j).kind \in {"ShortRep", "Rep"}
    /\ pc = "is_rep0_long" =>
        /\ At(j, 3) /\ Same(j)
        /\ OpAt(j).kind \in {"ShortRep", "Rep"} /\ OpAt(j).index = 0
    /\ pc = "is_rep_g1" => At(j, 3) /\ Same(j) /\ OpAt(j).kind = "Rep" /\ OpAt(j).index >= 1
    /\ pc = "is_rep_g2" => At(j, 4) /\ Same(j) /\ OpAt(j).kind = "Rep" /\ OpAt(j).index >= 2
    /\ pc = "rep_len" =>
        /\ At(j, Width(OpAt(j)) - 1) /\ OpAt(j).kind = "Rep"
        /\ dstate = Coder(j).state /\ dreps = MovedToFront(Coder(j).reps, OpAt(j).index)
    /\ pc = "copy" =>
        /\ At(j, Width(OpAt(j))) /\ OpAt(j).kind \in {"Rep", "Match"}
        /\ OpAt(j) # EndMarker /\ len = OpAt(j).len
        /\ dstate = Coder(j + 1).state /\ dreps = Coder(j + 1).reps

OutIsPrefix == \A i \in 1 .. Len(out) : out[i] = data[i]

\* While all it read was as coded, the decoder is somewhere in an operation.
InSync ==
    pc \in Inside /\ read <= good =>
        /\ OutIsPrefix
        /\ \E j \in 1 .. Len(coded) + 1 : Len(out) = Coder(j).pos /\ InOp(j)

\* Whatever it read.
Started ==
    /\ pc \in {"encoding", "header"} =>
        /\ dstate = 0 /\ dreps = <<0, 0, 0, 0>> /\ read = 0 /\ out = <<>>
        /\ pc = "header" /\ good = Len(wire) => where = IF tail >= Len(wire) THEN "end" ELSE "inside"
    /\ pc \in Inside \cup {"finish"} => size \in {Unknown} \cup 0 .. N
    /\ pc \in {"token", "literal"} /\ ~IsLiteral(dstate) => dreps[1] < Len(out)

\* A stream that arrived whole.
Arrived ==
    pc # "encoding" /\ Whole =>
        /\ read <= Len(wire)
        /\ where = IF read >= Len(wire) - tail THEN "end" ELSE "inside"
        /\ pc \notin {"eof", "corrupt"}
        /\ pc \in {"finish", "ok"} =>
            /\ Len(out) = N /\ OutIsPrefix /\ where = "end"
            /\ form = "size" => dstate = state /\ dreps = reps

DecoderInv == DecoderTypeOK /\ Started /\ InSync /\ Arrived
IInv == EncoderTypeOK /\ Encoded /\ DecoderInv

-----------------------------------------------------------------------------
(* Facts about the operators.                                              *)

LEMMA InputType == ASSUME data \in Inputs PROVE data \in Seq(Byte) /\ N \in Nat
  BY LimitsAssumption DEF N

\* The operations by kind.
LEMMA OpKinds ==
    ASSUME NEW op \in AllOps
    PROVE  /\ op.kind \in {"Literal", "ShortRep", "Rep", "Match"}
           /\ op.len \in Nat \ {0} /\ op.index \in 0 .. 3 /\ op.dist \in Nat
           /\ op.kind = "Literal" => op = Literal
           /\ op.kind = "ShortRep" => op = ShortRep
           /\ op.kind \in {"Literal", "ShortRep"} => op.len = 1 /\ op.index = 0
           /\ op.kind \in {"Rep", "Match"} => op.len \in Lens
           /\ op.kind = "Match" => op.dist \in 1 .. MaxDist + 2
           /\ op.kind = "Match" /\ op # EndMarker => op.dist \in 1 .. MaxDist + 1
           /\ op = EndMarker => op.kind = "Match" /\ op.dist = END_MARKER_DIST + 1
<1>1. /\ MATCH_MIN_LEN \in Nat \ {0} /\ MATCH_MAX_LEN \in Nat /\ MaxDist \in Nat
      /\ MATCH_MIN_LEN <= MATCH_MAX_LEN
  BY LimitsAssumption
<1>2. MATCH_MIN_LEN \in Lens /\ \A l \in Lens : l \in Nat \ {0}
  BY <1>1 DEF Lens
<1>3. CASE op = EndMarker
  BY <1>1, <1>2, <1>3 DEF EndMarker, Match, Op, END_MARKER_DIST
<1>4. CASE op \in {Literal, ShortRep}
  BY <1>4 DEF Literal, ShortRep, Op, EndMarker, Match
<1>5. ASSUME NEW index \in 0 .. 3, NEW l \in Lens, op = Rep(index, l)
      PROVE  /\ op.kind = "Rep" /\ op.index = index /\ op.len = l /\ op.dist = 0
             /\ op # EndMarker
  BY <1>5 DEF Rep, Op, EndMarker, Match
<1>6. ASSUME NEW dist \in 1 .. MaxDist + 1, NEW l \in Lens, op = Match(dist, l)
      PROVE  op.kind = "Match" /\ op.index = 0 /\ op.len = l /\ op.dist = dist
  BY <1>6 DEF Match, Op
<1>7. \/ op = EndMarker \/ op \in {Literal, ShortRep}
      \/ \E index \in 0 .. 3, l \in Lens : op = Rep(index, l)
      \/ \E dist \in 1 .. MaxDist + 1, l \in Lens : op = Match(dist, l)
  BY DEF AllOps, Ops
<1>8. CASE \E index \in 0 .. 3, l \in Lens : op = Rep(index, l)
  BY <1>1, <1>2, <1>5, <1>8
<1>9. CASE \E dist \in 1 .. MaxDist + 1, l \in Lens : op = Match(dist, l)
  <2>1. PICK dist \in 1 .. MaxDist + 1, l \in Lens : op = Match(dist, l)
    BY <1>9
  <2>2. op = EndMarker => dist = END_MARKER_DIST + 1
    BY <2>1 DEF EndMarker, Match, Op
  <2>3. dist # END_MARKER_DIST + 1
    BY <1>1 DEF END_MARKER_DIST
  <2> QED
    BY <1>1, <1>2, <1>6, <2>1, <2>2, <2>3
<1> QED
  BY <1>3, <1>4, <1>7, <1>8, <1>9

\* The widths.
LEMMA WidthType ==
    ASSUME NEW op \in AllOps
    PROVE  /\ Width(op) \in 2 .. 6
           /\ op.kind = "Literal" => Width(op) = 2
           /\ op.kind = "ShortRep" => Width(op) = 4
           /\ op.kind = "Rep" => Width(op) = IF op.index < 2 THEN 5 ELSE 6
           /\ op.kind = "Match" => Width(op) = 4
  BY OpKinds DEF Width

LEMMA RepsType ==
    ASSUME NEW r \in Reps
    PROVE  /\ \A i \in 1 .. 4 : r[i] \in Nat
           /\ \A i \in 0 .. 3 : MovedToFront(r, i) \in Reps
           /\ \A d \in Nat : NewFront(r, d) \in Reps /\ NewFront(r, d)[1] = d
           /\ \A i \in 0 .. 3 : MovedToFront(r, i)[1] = r[i + 1]
           /\ MovedToFront(r, 0) = r
           /\ RepsAfterG1(r, 0) = MovedToFront(r, 1) /\ RepsAfterG1(r, 1) = r
           /\ RepsAfterG2(r, 0) = MovedToFront(r, 2)
           /\ RepsAfterG2(r, 1) = MovedToFront(r, 3)
<1>1. \A i \in 1 .. 4 : r[i] \in Nat
  BY DEF Reps
<1>2. \A i \in 0 .. 3 : MovedToFront(r, i) \in Reps /\ MovedToFront(r, i)[1] = r[i + 1]
  BY <1>1 DEF MovedToFront, Reps
<1>3. ASSUME NEW a \in Nat, NEW b \in Nat, NEW c \in Nat, NEW d \in Nat
      PROVE  /\ <<a, b, c, d>> \in Reps
             /\ <<a, b, c, d>>[1] = a /\ <<a, b, c, d>>[2] = b
             /\ <<a, b, c, d>>[3] = c /\ <<a, b, c, d>>[4] = d
  BY DEF Reps
<1>4. ASSUME NEW s \in Reps, NEW t \in Reps,
             s[1] = t[1], s[2] = t[2], s[3] = t[3], s[4] = t[4]
      PROVE  s = t
  <2>1. \A i \in 1 .. 4 : s[i] = t[i]
    BY <1>4
  <2> QED
    BY <2>1 DEF Reps
<1>5. ASSUME NEW i \in 0 .. 3
      PROVE  /\ MovedToFront(r, i)[2] = IF i >= 1 THEN r[1] ELSE r[2]
             /\ MovedToFront(r, i)[3] = IF i >= 2 THEN r[2] ELSE r[3]
             /\ MovedToFront(r, i)[4] = IF i >= 3 THEN r[3] ELSE r[4]
  BY DEF MovedToFront
<1>6. MovedToFront(r, 0) = r
  <2>1. MovedToFront(r, 0) \in Reps
    BY <1>2
  <2>2. /\ MovedToFront(r, 0)[1] = r[1] /\ MovedToFront(r, 0)[2] = r[2]
        /\ MovedToFront(r, 0)[3] = r[3] /\ MovedToFront(r, 0)[4] = r[4]
    BY <1>2, <1>5
  <2> QED
    BY <2>1, <2>2, <1>4
<1>7. RepsAfterG1(r, 0) = MovedToFront(r, 1)
  <2>1. MovedToFront(r, 1) \in Reps /\ <<r[2], r[1], r[3], r[4]>> \in Reps
    BY <1>1, <1>2, <1>3
  <2>2. /\ MovedToFront(r, 1)[1] = r[2] /\ MovedToFront(r, 1)[2] = r[1]
        /\ MovedToFront(r, 1)[3] = r[3] /\ MovedToFront(r, 1)[4] = r[4]
    BY <1>2, <1>5
  <2>3. MovedToFront(r, 1) = <<r[2], r[1], r[3], r[4]>>
    BY <2>1, <2>2, <1>1, <1>3, <1>4
  <2> QED
    BY <2>3 DEF RepsAfterG1
<1>8. RepsAfterG2(r, 0) = MovedToFront(r, 2)
  <2>1. MovedToFront(r, 2) \in Reps /\ <<r[3], r[1], r[2], r[4]>> \in Reps
    BY <1>1, <1>2, <1>3
  <2>2. /\ MovedToFront(r, 2)[1] = r[3] /\ MovedToFront(r, 2)[2] = r[1]
        /\ MovedToFront(r, 2)[3] = r[2] /\ MovedToFront(r, 2)[4] = r[4]
    BY <1>2, <1>5
  <2>3. MovedToFront(r, 2) = <<r[3], r[1], r[2], r[4]>>
    BY <2>1, <2>2, <1>1, <1>3, <1>4
  <2> QED
    BY <2>3 DEF RepsAfterG2
<1>9. RepsAfterG2(r, 1) = MovedToFront(r, 3)
  <2>1. MovedToFront(r, 3) \in Reps /\ <<r[4], r[1], r[2], r[3]>> \in Reps
    BY <1>1, <1>2, <1>3
  <2>2. /\ MovedToFront(r, 3)[1] = r[4] /\ MovedToFront(r, 3)[2] = r[1]
        /\ MovedToFront(r, 3)[3] = r[2] /\ MovedToFront(r, 3)[4] = r[3]
    BY <1>2, <1>5
  <2>3. MovedToFront(r, 3) = <<r[4], r[1], r[2], r[3]>>
    BY <2>1, <2>2, <1>1, <1>3, <1>4
  <2> QED
    BY <2>3 DEF RepsAfterG2
<1>10. \A d \in Nat : NewFront(r, d) \in Reps /\ NewFront(r, d)[1] = d
  BY <1>1, <1>3 DEF NewFront
<1>11. RepsAfterG1(r, 1) = r
  BY DEF RepsAfterG1
<1> QED
  BY <1>1, <1>2, <1>6, <1>7, <1>8, <1>9, <1>10, <1>11

LEMMA StateTypes ==
    ASSUME NEW s \in States
    PROVE  /\ AfterLiteral(s) \in States /\ IsLiteral(AfterLiteral(s))
           /\ AfterMatch(s) \in States /\ AfterRep(s) \in States
           /\ AfterShortRep(s) \in States
  BY DEF States, AfterLiteral, AfterMatch, AfterRep, AfterShortRep, IsLiteral, LIT_STATES

-----------------------------------------------------------------------------
(* The symbols of an operation.                                            *)

LEMMA SymbolType ==
    ASSUME NEW m \in Models, NEW a \in Nat \cup (Nat \X Nat),
           NEW b \in Nat \cup Byte \cup {NoMatchByte}, NEW v \in Nat \cup Byte
    PROVE  Symbol(Ctx(m, a, b), v) \in Symbols
<1>1. <<m, a, b>> \in Ctxs
  BY DEF Ctxs
<1> QED
  BY <1>1 DEF Symbol, Ctx, Symbols

LEMMA CoderTypes ==
    ASSUME NEW c \in Coders
    PROVE  /\ c.pos \in Nat /\ c.state \in States /\ c.state \in Nat /\ c.at \in Nat
           /\ c.reps \in Reps /\ PosState(c.pos) \in Nat
           /\ \A v \in Nat : IsMatch(c, v) \in Symbols /\ IsRep(c, v) \in Symbols
<1>1. c.pos \in Nat /\ c.state \in States /\ c.at \in Nat /\ c.reps \in Reps
  BY DEF Coders
<1>2. c.state \in Nat
  BY <1>1 DEF States
<1>3. PosState(c.pos) \in Nat
  BY <1>1, LimitsAssumption DEF PosState
<1>4. ASSUME NEW v \in Nat PROVE IsMatch(c, v) \in Symbols
  BY <1>2, <1>3, SymbolType DEF IsMatch, Models
<1>5. ASSUME NEW v \in Nat PROVE IsRep(c, v) \in Symbols
  BY <1>2, SymbolType DEF IsRep, Models
<1> QED
  BY <1>1, <1>2, <1>3, <1>4, <1>5

\* A coder at which an operation is coded.
Ready(c, op) ==
    /\ c.pos <= N /\ HasMatchByte(c)
    /\ op.kind = "Literal" => c.pos < N

Prev(c) == IF c.pos = 0 THEN 0 ELSE data[c.pos]

LEMMA LiteralSymbols ==
    ASSUME data \in Inputs, NEW c \in Coders, Ready(c, Literal)
    PROVE  /\ CodedLiteral(c) \in Seq(Symbols) /\ Len(CodedLiteral(c)) = 2
           /\ CodedLiteral(c)[1] = IsMatch(c, 0)
           /\ CodedLiteral(c)[2] =
                Symbol(LiteralCtx(c.pos, Prev(c), EncoderMatchByte(c)), data[c.pos + 1])
<1> USE InputType, CoderTypes
<1>1. c.pos < N /\ N = Len(data) /\ data \in Seq(Byte) /\ N \in Nat /\ 0 \in Byte
  BY LimitsAssumption DEF Ready, Literal, Op, N
<1>2. Prev(c) \in Byte /\ data[c.pos + 1] \in Byte
  BY <1>1 DEF Prev
<1>3. EncoderMatchByte(c) \in Byte \cup {NoMatchByte}
  <2>1. CASE IsLiteral(c.state)
    BY <2>1 DEF EncoderMatchByte
  <2>2. CASE ~IsLiteral(c.state)
    <3>1. c.reps[1] < c.pos /\ c.reps[1] \in Nat
      BY <2>2, RepsType DEF Ready, HasMatchByte
    <3>2. c.pos - c.reps[1] \in 1 .. Len(data)
      BY <3>1, <1>1
    <3> QED
      BY <3>2, <2>2, <1>1 DEF EncoderMatchByte
  <2> QED
    BY <2>1, <2>2
<1>4. c.pos % LitPositions \in Nat /\ HighBits[Prev(c)] \in Nat
  BY <1>2, LimitsAssumption
<1>5. LiteralCtx(c.pos, Prev(c), EncoderMatchByte(c)) \in Ctxs
  <2>1. <<c.pos % LitPositions, HighBits[Prev(c)]>> \in Nat \X Nat
    BY <1>4
  <2>2. <<"literal", <<c.pos % LitPositions, HighBits[Prev(c)]>>, EncoderMatchByte(c)>> \in Ctxs
    BY <1>3, <2>1 DEF Ctxs, Models
  <2> QED
    BY <2>2 DEF LiteralCtx, Ctx
<1> DEFINE s1 == IsMatch(c, 0)
           s2 == Symbol(LiteralCtx(c.pos, Prev(c), EncoderMatchByte(c)), data[c.pos + 1])
<1>6. s1 \in Symbols /\ s2 \in Symbols
  BY <1>2, <1>5 DEF Symbol, Symbols
<1>7. CodedLiteral(c) = <<s1, s2>>
  BY DEF CodedLiteral, Prev
<1> HIDE DEF s1, s2
<1>8. <<s1, s2>> \in Seq(Symbols) /\ Len(<<s1, s2>>) = 2 /\ <<s1, s2>>[1] = s1 /\ <<s1, s2>>[2] = s2
  BY <1>6
<1> QED
  BY <1>7, <1>8 DEF s1, s2

LEMMA ShortRepSymbols ==
    ASSUME NEW c \in Coders
    PROVE  /\ CodedShortRep(c) \in Seq(Symbols) /\ Len(CodedShortRep(c)) = 4
           /\ CodedShortRep(c)[1] = IsMatch(c, 1) /\ CodedShortRep(c)[2] = IsRep(c, 1)
           /\ CodedShortRep(c)[3] = Symbol(Ctx("is_rep_g0", c.state, 0), 0)
           /\ CodedShortRep(c)[4] = Symbol(Ctx("is_rep0_long", c.state, PosState(c.pos)), 0)
<1> DEFINE s1 == IsMatch(c, 1)
           s2 == IsRep(c, 1)
           s3 == Symbol(Ctx("is_rep_g0", c.state, 0), 0)
           s4 == Symbol(Ctx("is_rep0_long", c.state, PosState(c.pos)), 0)
<1>1. s1 \in Symbols /\ s2 \in Symbols /\ s3 \in Symbols /\ s4 \in Symbols
  BY CoderTypes, SymbolType DEF Models
<1>2. CodedShortRep(c) = <<s1, s2, s3, s4>>
  BY DEF CodedShortRep
<1> HIDE DEF s1, s2, s3, s4
<1>3. /\ <<s1, s2, s3, s4>> \in Seq(Symbols) /\ Len(<<s1, s2, s3, s4>>) = 4
      /\ <<s1, s2, s3, s4>>[1] = s1 /\ <<s1, s2, s3, s4>>[2] = s2
      /\ <<s1, s2, s3, s4>>[3] = s3 /\ <<s1, s2, s3, s4>>[4] = s4
  BY <1>1
<1> QED
  BY <1>2, <1>3 DEF s1, s2, s3, s4

LEMMA MatchSymbols ==
    ASSUME NEW c \in Coders, NEW l \in Lens, NEW dist \in Nat
    PROVE  /\ CodedMatch(c, l, dist) \in Seq(Symbols) /\ Len(CodedMatch(c, l, dist)) = 4
           /\ CodedMatch(c, l, dist)[1] = IsMatch(c, 1)
           /\ CodedMatch(c, l, dist)[2] = IsRep(c, 0)
           /\ CodedMatch(c, l, dist)[3] = Symbol(Ctx("len", PosState(c.pos), 0), l)
           /\ CodedMatch(c, l, dist)[4] = Symbol(Ctx("dist", LenState(l), 0), dist)
<1> DEFINE s1 == IsMatch(c, 1)
           s2 == IsRep(c, 0)
           s3 == Symbol(Ctx("len", PosState(c.pos), 0), l)
           s4 == Symbol(Ctx("dist", LenState(l), 0), dist)
<1>1. l \in Nat /\ LenState(l) \in Nat
  BY LimitsAssumption DEF LenState, Lens, LEN_TO_POS_STATES
<1>2. s1 \in Symbols /\ s2 \in Symbols /\ s3 \in Symbols /\ s4 \in Symbols
  BY CoderTypes, SymbolType, <1>1 DEF Models
<1>3. CodedMatch(c, l, dist) = <<s1, s2, s3, s4>>
  BY DEF CodedMatch
<1> HIDE DEF s1, s2, s3, s4
<1>4. /\ <<s1, s2, s3, s4>> \in Seq(Symbols) /\ Len(<<s1, s2, s3, s4>>) = 4
      /\ <<s1, s2, s3, s4>>[1] = s1 /\ <<s1, s2, s3, s4>>[2] = s2
      /\ <<s1, s2, s3, s4>>[3] = s3 /\ <<s1, s2, s3, s4>>[4] = s4
  BY <1>2
<1> QED
  BY <1>3, <1>4 DEF s1, s2, s3, s4

LEMMA RepSymbols ==
    ASSUME NEW c \in Coders, NEW index \in 0 .. 3, NEW l \in Lens,
           NEW w \in Nat, w = IF index < 2 THEN 5 ELSE 6
    PROVE  /\ CodedRep(c, index, l) \in Seq(Symbols) /\ Len(CodedRep(c, index, l)) = w
           /\ CodedRep(c, index, l)[1] = IsMatch(c, 1) /\ CodedRep(c, index, l)[2] = IsRep(c, 1)
           /\ CodedRep(c, index, l)[3] =
                Symbol(Ctx("is_rep_g0", c.state, 0), IF index = 0 THEN 0 ELSE 1)
           /\ index = 0 => CodedRep(c, index, l)[4] =
                Symbol(Ctx("is_rep0_long", c.state, PosState(c.pos)), 1)
           /\ index >= 1 => CodedRep(c, index, l)[4] =
                Symbol(Ctx("is_rep_g1", c.state, 0), IF index = 1 THEN 0 ELSE 1)
           /\ index >= 2 => CodedRep(c, index, l)[5] =
                Symbol(Ctx("is_rep_g2", c.state, 0), index - 2)
           /\ CodedRep(c, index, l)[w] = Symbol(Ctx("rep_len", PosState(c.pos), 0), l)
<1> DEFINE s1 == IsMatch(c, 1)
           s2 == IsRep(c, 1)
           sl == Symbol(Ctx("rep_len", PosState(c.pos), 0), l)
           g0(v) == Symbol(Ctx("is_rep_g0", c.state, 0), v)
           g1(v) == Symbol(Ctx("is_rep_g1", c.state, 0), v)
           g2(v) == Symbol(Ctx("is_rep_g2", c.state, 0), v)
           long == Symbol(Ctx("is_rep0_long", c.state, PosState(c.pos)), 1)
<1>1. l \in Nat
  BY LimitsAssumption DEF Lens
<1>2. s1 \in Symbols /\ s2 \in Symbols /\ sl \in Symbols
      /\ \A v \in Nat : g0(v) \in Symbols /\ g1(v) \in Symbols /\ g2(v) \in Symbols
  BY CoderTypes, SymbolType, <1>1 DEF Models
<1>3. long \in Symbols
  BY CoderTypes, SymbolType DEF Models
<1>4. CodedRep(c, index, l) = (<<s1, s2>> \o RepIndex(c, index)) \o <<sl>>
  BY DEF CodedRep
<1>5. RepIndex(c, index) = IF index = 0 THEN <<g0(0), long>>
                           ELSE IF index = 1 THEN <<g0(1), g1(0)>>
                           ELSE <<g0(1), g1(1), g2(index - 2)>>
  BY DEF RepIndex
<1>6. ASSUME NEW x \in Symbols, NEW y \in Symbols
      PROVE  LET s == (<<s1, s2>> \o <<x, y>>) \o <<sl>>
             IN  /\ s \in Seq(Symbols) /\ Len(s) = 5
                 /\ s[1] = s1 /\ s[2] = s2 /\ s[3] = x /\ s[4] = y /\ s[5] = sl
  BY <1>2
<1>7. ASSUME NEW x \in Symbols, NEW y \in Symbols, NEW z \in Symbols
      PROVE  LET s == (<<s1, s2>> \o <<x, y, z>>) \o <<sl>>
             IN  /\ s \in Seq(Symbols) /\ Len(s) = 6
                 /\ s[1] = s1 /\ s[2] = s2 /\ s[3] = x /\ s[4] = y /\ s[5] = z /\ s[6] = sl
  BY <1>2
<1>8. /\ g0(0) \in Symbols /\ g0(1) \in Symbols /\ g1(0) \in Symbols /\ g1(1) \in Symbols
      /\ index >= 2 => g2(index - 2) \in Symbols
  BY <1>2
<1> HIDE DEF s1, s2, sl, g0, g1, g2, long
<1>9. CASE index = 0
  <2>1. CodedRep(c, index, l) = (<<s1, s2>> \o <<g0(0), long>>) \o <<sl>> /\ w = 5
    BY <1>4, <1>5, <1>9
  <2>2. /\ CodedRep(c, index, l) \in Seq(Symbols) /\ Len(CodedRep(c, index, l)) = 5
        /\ CodedRep(c, index, l)[1] = s1 /\ CodedRep(c, index, l)[2] = s2
        /\ CodedRep(c, index, l)[3] = g0(0) /\ CodedRep(c, index, l)[4] = long
        /\ CodedRep(c, index, l)[5] = sl
    BY <2>1, <1>3, <1>6, <1>8
  <2> QED
    BY <2>1, <2>2, <1>9 DEF s1, s2, sl, g0, long
<1>10. CASE index = 1
  <2>1. CodedRep(c, index, l) = (<<s1, s2>> \o <<g0(1), g1(0)>>) \o <<sl>> /\ w = 5
    BY <1>4, <1>5, <1>10
  <2>2. /\ CodedRep(c, index, l) \in Seq(Symbols) /\ Len(CodedRep(c, index, l)) = 5
        /\ CodedRep(c, index, l)[1] = s1 /\ CodedRep(c, index, l)[2] = s2
        /\ CodedRep(c, index, l)[3] = g0(1) /\ CodedRep(c, index, l)[4] = g1(0)
        /\ CodedRep(c, index, l)[5] = sl
    BY <2>1, <1>6, <1>8
  <2> QED
    BY <2>1, <2>2, <1>10 DEF s1, s2, sl, g0, g1
<1>11. CASE index >= 2
  <2>1. CodedRep(c, index, l) = (<<s1, s2>> \o <<g0(1), g1(1), g2(index - 2)>>) \o <<sl>> /\ w = 6
    BY <1>4, <1>5, <1>11
  <2>2. /\ CodedRep(c, index, l) \in Seq(Symbols) /\ Len(CodedRep(c, index, l)) = 6
        /\ CodedRep(c, index, l)[1] = s1 /\ CodedRep(c, index, l)[2] = s2
        /\ CodedRep(c, index, l)[3] = g0(1) /\ CodedRep(c, index, l)[4] = g1(1)
        /\ CodedRep(c, index, l)[5] = g2(index - 2) /\ CodedRep(c, index, l)[6] = sl
    BY <2>1, <1>7, <1>8, <1>11
  <2> QED
    BY <2>1, <2>2, <1>11 DEF s1, s2, sl, g0, g1, g2
<1> QED
  BY <1>9, <1>10, <1>11

LEMMA CodedOpType ==
    ASSUME data \in Inputs, NEW c \in Coders, NEW op \in AllOps, Ready(c, op)
    PROVE  CodedOp(c, op) \in Seq(Symbols) /\ Len(CodedOp(c, op)) = Width(op)
<1>1. CASE op.kind = "Literal"
  BY <1>1, OpKinds, LiteralSymbols, WidthType DEF CodedOp
<1>2. CASE op.kind = "ShortRep"
  BY <1>2, ShortRepSymbols, WidthType DEF CodedOp
<1>3. CASE op.kind = "Rep"
  <2>1. op.index \in 0 .. 3 /\ op.len \in Lens
    BY <1>3, OpKinds
  <2>2. PICK w \in Nat : w = IF op.index < 2 THEN 5 ELSE 6
    OBVIOUS
  <2>3. CodedRep(c, op.index, op.len) \in Seq(Symbols) /\ Len(CodedRep(c, op.index, op.len)) = w
    BY <2>1, <2>2, RepSymbols
  <2> QED
    BY <1>3, <2>2, <2>3, WidthType DEF CodedOp
<1>4. CASE op.kind = "Match"
  <2>1. op.len \in Lens /\ op.dist - 1 \in Nat
    BY <1>4, OpKinds, LimitsAssumption
  <2> QED
    BY <1>4, <2>1, MatchSymbols, WidthType DEF CodedOp
<1> QED
  BY <1>1, <1>2, <1>3, <1>4, OpKinds
-----------------------------------------------------------------------------
(* Encoding.                                                               *)

LEMMA HereType == ASSUME EncoderTypeOK PROVE Here \in Coders
<1>1. N \in Nat /\ wire \in Seq(Symbols) /\ pos \in 0 .. N /\ state \in States /\ reps \in Reps
  BY InputType DEF EncoderTypeOK
<1>2. Len(wire) \in Nat /\ pos \in Nat
  BY <1>1
<1> QED
  BY <1>1, <1>2 DEF Here, Coders

LEMMA CoderType ==
    ASSUME EncoderTypeOK
    PROVE  /\ Len(coded) \in Nat /\ Len(wire) \in Nat
           /\ \A j \in Nat \ {0} : Coder(j) \in Coders
           /\ \A j \in 1 .. Len(coded) : OpAt(j) \in AllOps
           /\ Coder(Len(coded) + 1) = Here
<1>1. coded \in Seq(Entries) /\ wire \in Seq(Symbols)
  BY DEF EncoderTypeOK
<1>2. Len(coded) \in Nat /\ Len(wire) \in Nat
  BY <1>1
<1>3. \A j \in 1 .. Len(coded) : coded[j] \in Entries
  BY <1>1
<1>4. \A j \in 1 .. Len(coded) : coded[j].op \in AllOps /\ coded[j].coder \in Coders
  BY <1>3 DEF Entries
<1> QED
  BY <1>2, <1>4, HereType DEF Coder, OpAt

\* What is coded does not depend on what follows.
LEMMA CodedOpStable == ASSUME data' = data
                       PROVE  \A c, op : CodedOp(c, op)' = CodedOp(c, op)
  BY DEF CodedOp, CodedLiteral, EncoderMatchByte, CodedShortRep, CodedRep, RepIndex, CodedMatch,
         IsMatch, IsRep

\* One operation more.
OneMore(op) ==
    /\ wire' = wire \o CodedOp(Here, op)
    /\ coded' = Append(coded, [op |-> op, coder |-> Here])
    /\ data' = data

LEMMA Coded ==
    ASSUME EncoderTypeOK, NEW op \in AllOps, Ready(Here, op), OneMore(op),
           NEW m \in Nat, m = Len(coded)
    PROVE  /\ wire' \in Seq(Symbols) /\ Len(wire') = Len(wire) + Width(op)
           /\ coded' \in Seq(Entries) /\ Len(coded') = m + 1
           /\ \A j \in 1 .. m + 1 : Coder(j)' = Coder(j)
           /\ \A j \in 1 .. m : OpAt(j)' = OpAt(j)
           /\ OpAt(m + 1)' = op /\ Coder(m + 2)' = Here'
           /\ \A i \in 1 .. Len(wire) : wire'[i] = wire[i]
           /\ \A k \in 1 .. Width(op) : wire'[Len(wire) + k] = CodedOp(Here, op)[k]
<1>1. /\ coded \in Seq(Entries) /\ wire \in Seq(Symbols)
      /\ data \in Inputs /\ Here \in Coders
  BY HereType DEF EncoderTypeOK
<1>2. CodedOp(Here, op) \in Seq(Symbols) /\ Len(CodedOp(Here, op)) = Width(op)
  BY <1>1, CodedOpType
<1>3. PICK w \in Nat : w = Width(op)
  BY WidthType
<1>4. PICK s \in Seq(Symbols) : s = CodedOp(Here, op) /\ Len(s) = w
  BY <1>2, <1>3
<1>5. PICK n \in Nat : n = Len(wire)
  BY <1>1
<1>6. /\ wire \o s \in Seq(Symbols) /\ Len(wire \o s) = n + w
      /\ \A i \in 1 .. n + w : (wire \o s)[i] = IF i <= n THEN wire[i] ELSE s[i - n]
  BY <1>1, <1>4, <1>5, ConcatProperties
<1>7. /\ wire' = wire \o s
      /\ \A i \in 1 .. n : wire'[i] = wire[i]
      /\ \A k \in 1 .. w : wire'[n + k] = s[k]
  <2>1. wire' = wire \o s
    BY <1>4 DEF OneMore
  <2>2. \A i \in 1 .. n : i \in 1 .. n + w /\ i <= n
    OBVIOUS
  <2>3. \A k \in 1 .. w : n + k \in 1 .. n + w /\ ~(n + k <= n) /\ (n + k) - n = k
    OBVIOUS
  <2> QED
    BY <2>1, <2>2, <2>3, <1>6
<1>8. PICK e \in Entries : e = [op |-> op, coder |-> Here]
  BY <1>1 DEF Entries
<1>9. /\ coded' \in Seq(Entries) /\ Len(coded') = Len(coded) + 1
      /\ \A j \in 1 .. Len(coded) : coded'[j] = coded[j]
      /\ coded'[Len(coded) + 1] = e
  <2>1. coded' = Append(coded, e)
    BY <1>8 DEF OneMore
  <2> QED
    BY <2>1, <1>1
<1>10. Len(coded') = m + 1
  BY <1>1, <1>9
<1>11. \A j \in 1 .. m + 1 : Coder(j)' = Coder(j)
  <2>1. ASSUME NEW j \in 1 .. m PROVE Coder(j)' = Coder(j)
    BY <1>9, <1>10 DEF Coder
  <2>2. Coder(m + 1)' = Coder(m + 1)
    BY <1>8, <1>9, <1>10 DEF Coder
  <2>3. \A j \in 1 .. m + 1 : j \in 1 .. m \/ j = m + 1
    OBVIOUS
  <2> QED
    BY <2>1, <2>2, <2>3
<1>12. Coder(m + 2)' = Here'
  BY <1>10 DEF Coder
<1>13. OpAt(m + 1)' = op /\ \A j \in 1 .. m : OpAt(j)' = OpAt(j)
  BY <1>8, <1>9, <1>10 DEF OpAt
<1>14. /\ wire' \in Seq(Symbols) /\ Len(wire') = Len(wire) + Width(op)
       /\ \A i \in 1 .. Len(wire) : wire'[i] = wire[i]
  BY <1>3, <1>5, <1>6, <1>7
<1>15. \A k \in 1 .. Width(op) : wire'[Len(wire) + k] = CodedOp(Here, op)[k]
  BY <1>3, <1>4, <1>5, <1>7
<1> QED
  BY <1>9, <1>10, <1>11, <1>12, <1>13, <1>14, <1>15

\* It is recorded, and what was recorded stays.
LEMMA RecordedMore ==
    ASSUME EncoderTypeOK, Encoded, NEW op \in AllOps, Ready(Here, op), OneMore(op),
           ~Marked, form' = form, pos' >= pos, pos' \in 0 .. N,
           op # EndMarker => /\ pos < N /\ Describes(data, pos, reps, op)
                             /\ pos' = pos + op.len
                             /\ state' = Emitted(Here, op).state
                             /\ reps' = Emitted(Here, op).reps,
           op = EndMarker => pos = N /\ pos' = N /\ form # "size",
           HasMatchByte(Here')
    PROVE  /\ Coder(1)' = [at |-> 0, pos |-> 0, state |-> 0, reps |-> <<0, 0, 0, 0>>]
           /\ \A j \in 1 .. Len(coded') + 1 :
                Coder(j).at' <= Len(wire') /\ Coder(j).pos' <= N' /\ HasMatchByte(Coder(j))'
           /\ \A j \in 1 .. Len(coded') : Recorded(j)'
<1>1. PICK m \in Nat : m = Len(coded) /\ Len(coded') = m + 1
  <2>1. PICK m \in Nat : m = Len(coded)
    BY CoderType
  <2> QED
    BY <2>1, Coded
<1>2. PICK n \in Nat, w \in 2 .. 6 : n = Len(wire) /\ w = Width(op) /\ Len(wire') = n + w
  BY Coded, CoderType, WidthType
<1>3. /\ \A j \in 1 .. m + 1 : Coder(j)' = Coder(j)
      /\ \A j \in 1 .. m : OpAt(j)' = OpAt(j)
      /\ OpAt(m + 1)' = op /\ Coder(m + 2)' = Here' /\ Coder(m + 1) = Here
      /\ \A i \in 1 .. n : wire'[i] = wire[i]
      /\ \A k \in 1 .. w : wire'[n + k] = CodedOp(Here, op)[k]
  <2>1. /\ \A j \in 1 .. m + 1 : Coder(j)' = Coder(j)
        /\ \A j \in 1 .. m : OpAt(j)' = OpAt(j)
        /\ OpAt(m + 1)' = op
        /\ Coder(m + 2)' = Here' /\ Coder(m + 1) = Here
    BY <1>1, Coded, CoderType
  <2>2. /\ \A i \in 1 .. Len(wire) : wire'[i] = wire[i]
        /\ \A k \in 1 .. Width(op) : wire'[Len(wire) + k] = CodedOp(Here, op)[k]
    BY <1>1, Coded
  <2> QED
    BY <1>1, <1>2, <2>1, <2>2
<1>4. N' = N /\ data' = data /\ N \in Nat
  BY InputType DEF OneMore, N, EncoderTypeOK
<1>5. /\ \A j \in 1 .. m + 1 : Coder(j).at <= n /\ Coder(j).pos <= N /\ HasMatchByte(Coder(j))
      /\ \A j \in 1 .. m : Recorded(j)
      /\ \A j \in 1 .. m + 2 : Coder(j) \in Coders
      /\ Coder(1) = [at |-> 0, pos |-> 0, state |-> 0, reps |-> <<0, 0, 0, 0>>]
  BY <1>1, <1>2, CoderType DEF Encoded
<1>6. Coder(1)' = [at |-> 0, pos |-> 0, state |-> 0, reps |-> <<0, 0, 0, 0>>]
  BY <1>3, <1>5
<1>7. Here'.at = n + w /\ Here'.pos = pos' /\ Here'.state = state' /\ Here'.reps = reps'
  BY <1>2 DEF Here
<1>8. ASSUME NEW j \in 1 .. m + 2
      PROVE  Coder(j)'.at <= n + w /\ Coder(j)'.pos <= N /\ HasMatchByte(Coder(j))'
  <2>1. CASE j \in 1 .. m + 1
    <3>1. /\ Coder(j)' = Coder(j) /\ Coder(j).at \in Nat /\ Coder(j).at <= n
          /\ Coder(j).pos <= N /\ HasMatchByte(Coder(j))
      BY <2>1, <1>3, <1>5, CoderTypes
    <3>2. HasMatchByte(Coder(j))'
      BY <3>1 DEF HasMatchByte
    <3> QED
      BY <3>1, <3>2
  <2>2. CASE j = m + 2
    <3>1. Coder(j)' = Here'
      BY <2>2, <1>3
    <3>2. HasMatchByte(Coder(j))'
      BY <3>1 DEF HasMatchByte
    <3> QED
      BY <3>1, <3>2, <1>4, <1>7
  <2> QED
    BY <2>1, <2>2
<1>9. \A c, o : CodedOp(c, o)' = CodedOp(c, o)
  BY <1>4, CodedOpStable
<1>10. ASSUME NEW j \in 1 .. m PROVE Recorded(j)'
  <2>1. PICK c \in Coders, c2 \in Coders, o \in AllOps :
          /\ c = Coder(j) /\ c2 = Coder(j + 1) /\ o = coded[j].op
          /\ Coder(j)' = c /\ Coder(j + 1)' = c2 /\ coded'[j].op = o
    <3>1. j \in 1 .. m + 1 /\ j + 1 \in 1 .. m + 1 /\ j \in 1 .. m + 2 /\ j + 1 \in 1 .. m + 2
      OBVIOUS
    <3>2. OpAt(j) \in AllOps /\ OpAt(j)' = OpAt(j)
      BY <1>1, <1>3, CoderType
    <3> QED
      BY <3>1, <3>2, <1>3, <1>5 DEF OpAt
  <2>2. PICK v \in 2 .. 6 : v = Width(o)
    BY WidthType
  <2>3. /\ c2.at = c.at + v /\ c2.at \in Nat /\ c.at \in Nat /\ c2.at <= n
        /\ \A k \in 1 .. v : wire[c.at + k] = CodedOp(c, o)[k]
        /\ o # EndMarker => /\ c.pos < N
                            /\ Describes(data, c.pos, c.reps, o)
                            /\ Leaves(c, o, c2)
    <3>1. j \in 1 .. m + 1 /\ j + 1 \in 1 .. m + 1
      OBVIOUS
    <3> QED
      BY <3>1, <2>1, <2>2, <1>5, CoderTypes DEF Recorded
  <2>4. \A k \in 1 .. v : wire'[c.at + k] = CodedOp(c, o)[k]
    <3>1. \A k \in 1 .. v : c.at + k \in 1 .. n
      BY <2>3
    <3> QED
      BY <3>1, <2>3, <1>3
  <2>5. o # EndMarker
    <3>1. o = EndMarker => j = m
      BY <2>1, <1>1, <1>5 DEF Recorded
    <3>2. coded # <<>>
      BY <1>1
    <3>4. coded \in Seq(Entries)
      BY DEF EncoderTypeOK
    <3>3. j = m => Last(coded) = coded[j]
      BY <1>1, <3>4 DEF Last
    <3> QED
      BY <3>1, <3>2, <3>3, <2>1 DEF Marked
  <2> QED
    BY <2>1, <2>2, <2>3, <2>4, <2>5, <1>4, <1>9 DEF Recorded, Leaves, Emitted
<1>11. Recorded(m + 1)'
  <2>1. Coder(m + 1)' = Here /\ Coder(m + 2)' = Here' /\ coded'[m + 1].op = op
    BY <1>3 DEF OpAt
  <2>2. Here.at = n /\ Here.pos = pos /\ Here.state = state /\ Here.reps = reps
    BY <1>2 DEF Here
  <2>3. op # EndMarker => Leaves(Here, op, Here')
    BY <1>7, <2>2 DEF Leaves
  <2>4. (m + 1) + 1 = m + 2
    OBVIOUS
  <2>5. \A k \in 1 .. w : wire'[n + k] = CodedOp(Here, op)[k]
    BY <1>3
  <2> QED
    BY <2>1, <2>2, <2>3, <2>4, <2>5, <1>1, <1>2, <1>4, <1>7, <1>9 DEF Recorded, Leaves, Emitted
<1>12. \A j \in 1 .. m + 1 : j \in 1 .. m \/ j = m + 1
  OBVIOUS
<1> QED
  BY <1>1, <1>2, <1>4, <1>6, <1>8, <1>10, <1>11, <1>12

\* Where an operation that describes the input reaches, and what it leaves.
LEMMA OpFits ==
    ASSUME data \in Inputs, NEW c \in Coders, NEW op \in AllOps,
           Describes(data, c.pos, c.reps, op)
    PROVE  /\ c.pos + op.len <= N
           /\ Emitted(c, op).state \in States /\ Emitted(c, op).reps \in Reps
           /\ op.kind = "Literal" => IsLiteral(Emitted(c, op).state)
           /\ op.kind # "Literal" => Emitted(c, op).reps[1] < c.pos
           /\ op.kind \in {"Rep", "Match"} =>
                Repeats(data, c.pos, Emitted(c, op).reps[1] + 1, op.len)
<1>1. /\ c.pos \in Nat /\ c.state \in States /\ c.reps \in Reps /\ N \in Nat
      /\ N = Len(data)
  BY InputType, CoderTypes DEF N
<1>2. CASE op.kind = "Literal"
  BY <1>1, <1>2, OpKinds, StateTypes DEF Describes, Emitted
<1>3. CASE op.kind = "ShortRep"
  <2>1. Repeats(data, c.pos, c.reps[1] + 1, 1) /\ op.len = 1
    BY <1>3, OpKinds DEF Describes
  <2>2. c.reps[1] \in Nat
    BY <1>1 DEF Reps
  <2> QED
    BY <1>1, <1>3, <2>1, <2>2, StateTypes DEF Emitted, Repeats
<1>4. CASE op.kind = "Rep"
  <2>1. op.index \in 0 .. 3 /\ op.len \in Nat
    BY OpKinds
  <2>2. Repeats(data, c.pos, c.reps[op.index + 1] + 1, op.len)
    BY <1>4 DEF Describes
  <2>3. c.reps[op.index + 1] \in Nat
    BY <1>1, <2>1 DEF Reps
  <2>4. /\ Emitted(c, op).reps = MovedToFront(c.reps, op.index)
        /\ Emitted(c, op).state = AfterRep(c.state)
    BY <1>4 DEF Emitted
  <2>5. /\ Emitted(c, op).reps \in Reps /\ Emitted(c, op).state \in States
        /\ Emitted(c, op).reps[1] = c.reps[op.index + 1]
    <3>1. \A i \in 0 .. 3 : /\ MovedToFront(c.reps, i) \in Reps
                            /\ MovedToFront(c.reps, i)[1] = c.reps[i + 1]
      BY <1>1, RepsType
    <3> QED
      BY <1>1, <2>1, <2>4, <3>1, StateTypes
  <2>6. c.reps[op.index + 1] + 1 <= c.pos /\ c.pos + op.len <= N
    BY <2>2, <1>1 DEF Repeats
  <2>7. Emitted(c, op).reps[1] < c.pos
    BY <2>3, <2>5, <2>6, <1>1
  <2> QED
    BY <1>4, <2>2, <2>5, <2>6, <2>7
<1>5. CASE op.kind = "Match"
  <2>1. op.dist - 1 \in Nat /\ op.len \in Nat /\ op.dist \in Nat
    BY <1>5, OpKinds, LimitsAssumption
  <2>2. Repeats(data, c.pos, op.dist, op.len)
    BY <1>5 DEF Describes
  <2>3. /\ Emitted(c, op).reps = NewFront(c.reps, op.dist - 1)
        /\ Emitted(c, op).state = AfterMatch(c.state)
    BY <1>5 DEF Emitted
  <2>4. /\ Emitted(c, op).reps \in Reps /\ Emitted(c, op).state \in States
        /\ Emitted(c, op).reps[1] = op.dist - 1
    BY <1>1, <2>1, <2>3, RepsType, StateTypes
  <2>5. op.dist <= c.pos /\ c.pos + op.len <= N
    BY <2>2, <1>1 DEF Repeats
  <2>6. Emitted(c, op).reps[1] < c.pos /\ Emitted(c, op).reps[1] + 1 = op.dist
    BY <2>1, <2>4, <2>5, <1>1
  <2> QED
    BY <1>5, <2>2, <2>4, <2>5, <2>6
<1> QED
  BY <1>2, <1>3, <1>4, <1>5, OpKinds

\* While it encodes, the decoder has not begun.
LEMMA NotBegun ==
    ASSUME DecoderInv, pc = "encoding", UNCHANGED <<data, stream, decoder>>,
           NEW n \in Nat, NEW m \in Nat, Len(wire) = n, Len(wire') = m, m >= n
    PROVE  DecoderInv'
<1>1. /\ UNCHANGED <<data, size, good, tail, pc, dstate, dreps, len, read, where, out>>
      /\ N' = N
  BY DEF stream, decoder, N
<1>2. good' \in 0 .. m
  BY <1>1 DEF DecoderInv, DecoderTypeOK
<1>3. DecoderTypeOK'
  BY <1>1, <1>2 DEF DecoderInv, DecoderTypeOK, Inside, Results, Decoding
<1>4. Started'
  BY <1>1 DEF DecoderInv, Started, Inside, Decoding
<1>5. InSync' /\ Arrived'
  BY <1>1 DEF InSync, Arrived, Inside, Decoding
<1> QED
  BY <1>3, <1>4, <1>5 DEF DecoderInv

LEMMA EmitStep == ASSUME IInv, NEW op \in Ops, Emit(op) PROVE IInv'
<1>1. /\ EncoderTypeOK /\ Encoded /\ DecoderInv /\ op \in AllOps /\ pc = "encoding"
      /\ OneMore(op) /\ UNCHANGED <<data, form, stream, decoder>> /\ pos < N
      /\ Describes(data, pos, reps, op)
      /\ pos' = pos + op.len /\ state' = Emitted(Here, op).state
      /\ reps' = Emitted(Here, op).reps
  BY DEF IInv, Emit, OneMore, AllOps
<1>2. /\ Here \in Coders /\ Here.pos = pos /\ Here.state = state /\ Here.reps = reps
      /\ data \in Inputs /\ N \in Nat /\ pos \in Nat
  BY <1>1, HereType, InputType DEF Here, EncoderTypeOK
<1>3. op.len \in Nat \ {0} /\ op \in AllOps /\ op # EndMarker
  <2>1. op = EndMarker => op.kind = "Match" /\ op.dist = MaxDist + 2 /\ op.index = 0
    BY LimitsAssumption DEF EndMarker, Match, Op, END_MARKER_DIST
  <2>2. op.kind = "Match" => op.dist \in 1 .. MaxDist + 1
    BY DEF Ops, Literal, ShortRep, Rep, Match, Op
  <2>3. MaxDist \in Nat
    BY LimitsAssumption
  <2> QED
    BY <2>1, <2>2, <2>3, <1>1, OpKinds
<1>4. /\ pos + op.len <= N /\ pos' \in 0 .. N /\ pos' >= pos /\ pos' > pos
      /\ state' \in States /\ reps' \in Reps
      /\ IsLiteral(state') \/ reps'[1] < pos
  <2>1. Describes(data, Here.pos, Here.reps, op)
    BY <1>1, <1>2
  <2>2. pos + op.len <= N
    BY <2>1, <1>1, <1>2, OpFits
  <2>3. state' \in States /\ reps' \in Reps /\ (IsLiteral(state') \/ reps'[1] < pos)
    BY <2>1, <1>1, <1>2, OpFits
  <2> QED
    BY <2>2, <2>3, <1>1, <1>2, <1>3
<1>5. ~Marked
  <2>1. SUFFICES ASSUME Marked PROVE FALSE
    OBVIOUS
  <2>2. coded \in Seq(Entries) /\ coded # <<>> /\ coded[Len(coded)].op = EndMarker
    BY <1>1, <2>1 DEF EncoderTypeOK, Marked, Last
  <2>3. Len(coded) \in 1 .. Len(coded)
    BY <2>2
  <2>4. Recorded(Len(coded))
    BY <1>1, <2>3 DEF Encoded
  <2>5. pos = N
    BY <2>2, <2>4 DEF Recorded
  <2> QED
    BY <2>5, <1>1, <1>2
<1>6. Ready(Here, op)
  <2>1. HasMatchByte(Here)
    BY <1>1, CoderType DEF Encoded
  <2> QED
    BY <2>1, <1>1, <1>2 DEF Ready
<1>7. HasMatchByte(Here')
  <2>1. Here'.state = state' /\ Here'.reps = reps' /\ Here'.pos = pos'
    BY DEF Here
  <2>2. reps'[1] \in Nat
    BY <1>4, RepsType
  <2> QED
    BY <2>1, <2>2, <1>2, <1>4 DEF HasMatchByte
<1>8. /\ Coder(1)' = [at |-> 0, pos |-> 0, state |-> 0, reps |-> <<0, 0, 0, 0>>]
      /\ \A j \in 1 .. Len(coded') + 1 :
            Coder(j).at' <= Len(wire') /\ Coder(j).pos' <= N' /\ HasMatchByte(Coder(j))'
      /\ \A j \in 1 .. Len(coded') : Recorded(j)'
  BY <1>1, <1>3, <1>4, <1>5, <1>6, <1>7, RecordedMore
<1>9. Encoded'
  BY <1>8, <1>1 DEF Encoded, decoder
<1>10. PICK n \in Nat, w \in 2 .. 6, k \in Nat : n = Len(wire) /\ w = Width(op) /\ k = Len(coded)
  BY <1>1, CoderType, WidthType
<1>11. wire' \in Seq(Symbols) /\ coded' \in Seq(Entries) /\ Len(wire') = n + w
  BY <1>1, <1>6, <1>10, Coded
<1>12. EncoderTypeOK'
  <2>1. data' \in Inputs /\ form' \in Forms /\ N' = N
    BY <1>1 DEF EncoderTypeOK, N
  <2> QED
    BY <2>1, <1>4, <1>11 DEF EncoderTypeOK
<1>13. DecoderInv'
  <2>1. n + w \in Nat /\ n + w >= n
    OBVIOUS
  <2> QED
    BY <2>1, <1>1, <1>10, <1>11, NotBegun
<1> QED
  BY <1>9, <1>12, <1>13 DEF IInv

LEMMA EmitMarkerStep == ASSUME IInv, EmitMarker PROVE IInv'
<1> DEFINE op == EndMarker
<1>1. /\ EncoderTypeOK /\ Encoded /\ DecoderInv /\ op \in AllOps /\ pc = "encoding"
      /\ OneMore(op) /\ UNCHANGED <<data, form, pos, state, reps, stream, decoder>> /\ pos = N
      /\ form # "size" /\ ~Marked
  BY DEF IInv, EmitMarker, OneMore, AllOps
<1>2. /\ Here \in Coders /\ Here.pos = pos /\ Here.state = state /\ Here.reps = reps
      /\ Here'.pos = pos /\ Here'.state = state /\ Here'.reps = reps
      /\ data \in Inputs /\ N \in Nat /\ pos \in Nat /\ op.kind = "Match"
  BY <1>1, HereType, InputType, OpKinds DEF Here, EncoderTypeOK
<1>3. HasMatchByte(Here) /\ HasMatchByte(Here')
  <2>1. HasMatchByte(Here)
    BY <1>1, CoderType DEF Encoded
  <2> QED
    BY <2>1, <1>2 DEF HasMatchByte
<1>4. Ready(Here, op)
  BY <1>1, <1>2, <1>3 DEF Ready
<1>5. pos' \in 0 .. N /\ pos' >= pos
  BY <1>1, <1>2
<1>6. /\ Coder(1)' = [at |-> 0, pos |-> 0, state |-> 0, reps |-> <<0, 0, 0, 0>>]
      /\ \A j \in 1 .. Len(coded') + 1 :
            Coder(j).at' <= Len(wire') /\ Coder(j).pos' <= N' /\ HasMatchByte(Coder(j))'
      /\ \A j \in 1 .. Len(coded') : Recorded(j)'
  BY <1>1, <1>3, <1>4, <1>5, RecordedMore
<1>7. Encoded'
  BY <1>6, <1>1 DEF Encoded, decoder
<1>8. PICK n \in Nat, w \in 2 .. 6, k \in Nat : n = Len(wire) /\ w = Width(op) /\ k = Len(coded)
  BY <1>1, CoderType, WidthType
<1>9. wire' \in Seq(Symbols) /\ coded' \in Seq(Entries) /\ Len(wire') = n + w
  BY <1>1, <1>4, <1>8, Coded
<1>10. EncoderTypeOK'
  <2>1. data' \in Inputs /\ form' \in Forms /\ N' = N /\ pos' \in 0 .. N
        /\ state' \in States /\ reps' \in Reps
    BY <1>1, <1>5 DEF EncoderTypeOK, N
  <2> QED
    BY <2>1, <1>9 DEF EncoderTypeOK
<1>11. DecoderInv'
  <2>1. n + w \in Nat /\ n + w >= n
    OBVIOUS
  <2> QED
    BY <2>1, <1>1, <1>8, <1>9, NotBegun
<1> QED
  BY <1>7, <1>10, <1>11 DEF IInv
-----------------------------------------------------------------------------
(* The stream arrives.                                                     *)

LEMMA InitInductive == Init => IInv
<1> SUFFICES ASSUME Init PROVE IInv
  OBVIOUS
<1>1. /\ data \in Inputs /\ form \in Forms /\ pos = 0 /\ state = 0 /\ reps = <<0, 0, 0, 0>>
      /\ wire = <<>> /\ coded = <<>> /\ size = Unknown /\ good = 0 /\ tail = 0
      /\ pc = "encoding" /\ dstate = 0 /\ dreps = <<0, 0, 0, 0>> /\ len = 0 /\ read = 0
      /\ where = "inside" /\ out = <<>>
  BY DEF Init
<1>2. N \in Nat /\ 0 \in 0 .. N /\ 0 \in States
  BY <1>1, InputType DEF States
<1>3. Len(wire) = 0 /\ Len(coded) = 0 /\ Len(out) = 0
      /\ wire \in Seq(Symbols) /\ coded \in Seq(Entries) /\ out \in Seq(Byte)
  BY <1>1
<1>4. <<0, 0, 0, 0>> \in Reps
  BY DEF Reps
<1>5. EncoderTypeOK
  BY <1>1, <1>2, <1>3, <1>4 DEF EncoderTypeOK
<1>6. DecoderTypeOK
  <2>1. 0 \in 0 .. Len(wire) /\ Len(out) <= N
    BY <1>2, <1>3
  <2> QED
    BY <1>1, <1>2, <1>3, <1>4, <2>1 DEF DecoderTypeOK
<1>7. Encoded
  <2>1. Coder(1) = Here /\ Here = [at |-> 0, pos |-> 0, state |-> 0, reps |-> <<0, 0, 0, 0>>]
    BY <1>1, <1>3 DEF Coder, Here
  <2>2. HasMatchByte(Coder(1)) /\ Coder(1).at <= Len(wire) /\ Coder(1).pos <= N
    BY <2>1, <1>2, <1>3 DEF HasMatchByte, IsLiteral, LIT_STATES
  <2>3. \A j \in 1 .. Len(coded) + 1 : j = 1
    BY <1>3
  <2>4. \A j \in 1 .. Len(coded) : Recorded(j)
    BY <1>3
  <2> QED
    BY <2>1, <2>2, <2>3, <2>4, <1>1 DEF Encoded
<1>8. Started /\ InSync /\ Arrived
  BY <1>1 DEF Started, InSync, Arrived, Inside, Decoding
<1> QED
  BY <1>5, <1>6, <1>7, <1>8 DEF IInv, DecoderInv

\* Once the stream is on its way the encoder is done.
LEMMA EncoderDone ==
    ASSUME EncoderTypeOK, Encoded, UNCHANGED <<data, form, encoder>>,
           pos = N /\ (form = "size" \/ Marked)
    PROVE  /\ EncoderTypeOK' /\ Encoded'
           /\ UNCHANGED <<data, form, pos, state, reps, wire, coded>> /\ N' = N
           /\ \A j : Coder(j)' = Coder(j) /\ OpAt(j)' = OpAt(j)
           /\ Marked' = Marked /\ Stated' = Stated
<1>1. UNCHANGED <<data, form, pos, state, reps, wire, coded>> /\ N' = N
  BY DEF encoder, N
<1>2. EncoderTypeOK'
  BY <1>1 DEF EncoderTypeOK
<1>3. \A j : Coder(j)' = Coder(j) /\ OpAt(j)' = OpAt(j)
  BY <1>1 DEF Coder, Here, OpAt
<1>4. Marked' = Marked /\ Stated' = Stated
  BY <1>1 DEF Marked, Stated
<1>5. \A c, op : CodedOp(c, op)' = CodedOp(c, op)
  BY <1>1, CodedOpStable
<1>6. \A j \in 1 .. Len(coded) : Recorded(j)'
  <2> SUFFICES ASSUME NEW j \in 1 .. Len(coded) PROVE Recorded(j)'
    BY <1>1
  <2>1. Recorded(j)
    BY DEF Encoded
  <2> QED
    BY <2>1, <1>1, <1>3, <1>5 DEF Recorded, Leaves, Emitted
<1>7. \A j : HasMatchByte(Coder(j))' <=> HasMatchByte(Coder(j))
  BY <1>3 DEF HasMatchByte
<1>8. Encoded'
  BY <1>1, <1>3, <1>4, <1>6, <1>7 DEF Encoded
<1> QED
  BY <1>1, <1>2, <1>3, <1>4, <1>8

LEMMA TransportStep == ASSUME IInv, Transport PROVE IInv'
<1>1. /\ EncoderTypeOK /\ Encoded /\ DecoderInv
      /\ pc = "encoding" /\ pos = N /\ (form = "size" \/ Marked) /\ pc' = "header"
      /\ UNCHANGED <<data, form, encoder, dstate, dreps, len, read, out>>
  BY DEF IInv, Transport
<1>2. EncoderTypeOK' /\ Encoded' /\ wire' = wire /\ N' = N /\ Stated' = Stated
  BY <1>1, EncoderDone
<1>3. N \in Nat /\ Len(wire) \in Nat /\ wire \in Seq(Symbols)
  BY <1>1, InputType, CoderType DEF EncoderTypeOK
<1>4. /\ size' \in {Unknown, Bad} \cup Nat /\ good' \in 0 .. Len(wire) /\ tail' \in Nat
      /\ good' = Len(wire) =>
            where' = IF tail' >= Len(wire) THEN "end" ELSE "inside"
      /\ where' \in {"inside", "end", "past"}
  <2>1. size' \in {Unknown, Bad} \cup Nat
    <3>1. Stated \in {Unknown} \cup Nat /\ \A i \in 0 .. N + 1 : i \in Nat
      BY <1>3 DEF Stated
    <3> QED
      BY <3>1, Zenon DEF Transport
  <2>2. good' \in 0 .. Len(wire) /\ good' \in Nat
    BY <1>3 DEF Transport
  <2>3. tail' \in Nat
    BY LimitsAssumption DEF Transport
  <2>4. /\ good' = Len(wire) => where' = IF tail' >= Len(wire) THEN "end" ELSE "inside"
        /\ where' \in {"inside", "end", "past"}
    BY <2>2, <1>3 DEF Transport
  <2> QED
    BY <2>1, <2>2, <2>3, <2>4
<1>5. dstate = 0 /\ dreps = <<0, 0, 0, 0>> /\ read = 0 /\ out = <<>>
  BY <1>1 DEF DecoderInv, Started
<1>6. DecoderTypeOK'
  BY <1>1, <1>2, <1>4 DEF DecoderInv, DecoderTypeOK
<1>7. Started' /\ InSync'
  BY <1>1, <1>2, <1>4, <1>5 DEF Started, InSync, Inside, Decoding
<1>8. Arrived'
  <2> SUFFICES ASSUME Whole'
               PROVE  /\ read' <= Len(wire')
                      /\ where' = IF read' >= Len(wire') - tail' THEN "end" ELSE "inside"
    BY <1>1 DEF Arrived
  <2>1. good' = Len(wire)
    BY <1>2 DEF Whole
  <2>2. where' = IF tail' >= Len(wire) THEN "end" ELSE "inside"
    BY <2>1, <1>4
  <2>3. 0 >= Len(wire) - tail' <=> tail' >= Len(wire)
    BY <1>3, <1>4
  <2> QED
    BY <2>2, <2>3, <1>1, <1>2, <1>3, <1>5
<1> QED
  BY <1>2, <1>6, <1>7, <1>8 DEF IInv, DecoderInv

\* What decompress leaves alone.
LEMMA AllElse ==
    ASSUME IInv, pc # "encoding", UNCHANGED <<data, form, encoder, stream>>
    PROVE  /\ EncoderTypeOK' /\ Encoded'
           /\ UNCHANGED <<data, form, pos, state, reps, wire, coded, size, good, tail>>
           /\ \A j : Coder(j)' = Coder(j) /\ OpAt(j)' = OpAt(j)
           /\ N' = N /\ Marked' = Marked /\ Whole' = Whole /\ Stated' = Stated
           /\ KnownSize' = KnownSize /\ limit' = limit
           /\ N \in Nat /\ Len(wire) \in Nat /\ Len(coded) \in Nat /\ data \in Inputs
           /\ data \in Seq(Byte) /\ DecoderTypeOK /\ Started /\ InSync /\ Arrived
<1>1. EncoderTypeOK /\ Encoded /\ pos = N /\ (form = "size" \/ Marked)
  BY DEF IInv, Encoded
<1>2. /\ EncoderTypeOK' /\ Encoded'
      /\ UNCHANGED <<data, form, pos, state, reps, wire, coded>> /\ N' = N
      /\ \A j : Coder(j)' = Coder(j) /\ OpAt(j)' = OpAt(j)
      /\ Marked' = Marked /\ Stated' = Stated
  BY <1>1, EncoderDone
<1>3. UNCHANGED <<size, good, tail>>
  BY DEF stream
<1>4. N \in Nat /\ Len(wire) \in Nat /\ Len(coded) \in Nat /\ data \in Seq(Byte) /\ data \in Inputs
  BY <1>1, InputType, CoderType DEF EncoderTypeOK
<1>5. Whole' = Whole
  BY <1>2, <1>3 DEF Whole
<1>6. KnownSize' = KnownSize /\ limit' = limit
  BY <1>2, <1>3 DEF limit, KnownSize
<1>7. DecoderTypeOK /\ Started /\ InSync /\ Arrived
  BY DEF IInv, DecoderInv
<1> QED
  BY <1>2, <1>3, <1>4, <1>5, <1>6, <1>7

LEMMA RejectHeaderStep == ASSUME IInv, RejectHeader PROVE IInv'
<1>1. /\ pc = "header" /\ pc' = "corrupt" /\ (size = Bad \/ size > N)
      /\ UNCHANGED <<data, form, encoder, stream, dstate, dreps, len, read, where, out>>
  BY DEF RejectHeader
<1>2. /\ EncoderTypeOK' /\ Encoded' /\ N' = N /\ wire' = wire /\ Whole' = Whole
      /\ UNCHANGED <<size, good, tail>> /\ DecoderTypeOK /\ N \in Nat
  BY <1>1, AllElse
<1>3. DecoderTypeOK'
  BY <1>1, <1>2 DEF DecoderTypeOK, Results
<1>4. Started' /\ InSync'
  BY <1>1 DEF Started, InSync, Inside, Decoding
<1>5. ~Whole
  <2>1. Stated \in {Unknown, N}
    BY DEF Stated
  <2>2. Unknown # Bad /\ ~(Unknown > N) /\ Bad # N /\ ~(N > N)
    BY <1>2 DEF Unknown, Bad
  <2> QED
    BY <1>1, <2>1, <2>2 DEF Whole
<1>6. Arrived'
  BY <1>2, <1>5 DEF Arrived
<1> QED
  BY <1>2, <1>3, <1>4, <1>6 DEF IInv, DecoderInv

LEMMA ReadHeaderStep == ASSUME IInv, ReadHeader PROVE IInv'
<1>1. /\ pc = "header" /\ pc' = "token" /\ size \in {Unknown} \cup 0 .. N
      /\ UNCHANGED <<data, form, encoder, stream, dstate, dreps, len, read, where, out>>
  BY DEF ReadHeader
<1>2. /\ EncoderTypeOK' /\ Encoded' /\ N' = N /\ wire' = wire /\ Whole' = Whole
      /\ UNCHANGED <<data, form, pos, coded, state, reps, size, good, tail>>
      /\ DecoderTypeOK /\ N \in Nat /\ Started /\ Arrived /\ Marked' = Marked
      /\ Len(coded) \in Nat
      /\ \A j : Coder(j)' = Coder(j) /\ OpAt(j)' = OpAt(j)
  BY <1>1, AllElse
<1>3. DecoderTypeOK'
  BY <1>1, <1>2 DEF DecoderTypeOK, Inside, Decoding
<1>4. dstate = 0 /\ dreps = <<0, 0, 0, 0>> /\ read = 0 /\ out = <<>>
  BY <1>1, <1>2 DEF Started
<1>5. Started'
  BY <1>1, <1>2, <1>4 DEF Started, IsLiteral, LIT_STATES
<1>6. InSync'
  <2>1. Coder(1) = [at |-> 0, pos |-> 0, state |-> 0, reps |-> <<0, 0, 0, 0>>]
    BY DEF IInv, Encoded
  <2>2. Len(out) = 0
    BY <1>4
  <2>3. ~(1 = Len(coded) + 1 /\ Marked)
    <3>1. Marked => coded # <<>>
      BY DEF Marked
    <3>2. coded \in Seq(Entries)
      BY DEF IInv, EncoderTypeOK
    <3> QED
      BY <3>1, <3>2
  <2>4. InOp(1)'
    BY <1>1, <1>2, <1>4, <2>1, <2>3 DEF InOp, At, Same
  <2>5. Len(out') = Coder(1).pos' /\ 1 \in 1 .. Len(coded') + 1 /\ OutIsPrefix'
    BY <1>1, <1>2, <1>4, <2>1, <2>2 DEF OutIsPrefix
  <2> QED
    BY <2>4, <2>5 DEF InSync
<1>7. Arrived'
  BY <1>1, <1>2 DEF Arrived
<1> QED
  BY <1>2, <1>3, <1>5, <1>6, <1>7 DEF IInv, DecoderInv
-----------------------------------------------------------------------------
(* The next symbol is asked for as it was coded.                           *)

\* The symbols of operation j, where they are.
LEMMA OnWire ==
    ASSUME EncoderTypeOK, Encoded, NEW j \in 1 .. Len(coded)
    PROVE  /\ Coder(j) \in Coders /\ Coder(j + 1) \in Coders /\ OpAt(j) \in AllOps
           /\ data \in Inputs /\ Ready(Coder(j), OpAt(j)) /\ HasMatchByte(Coder(j))
           /\ Coder(j + 1).at = Coder(j).at + Width(OpAt(j))
           /\ Coder(j + 1).at <= Len(wire)
           /\ \A k \in 1 .. Width(OpAt(j)) :
                wire[Coder(j).at + k] = CodedOp(Coder(j), OpAt(j))[k]
           /\ OpAt(j) # EndMarker =>
                /\ Coder(j).pos < N
                /\ Describes(data, Coder(j).pos, Coder(j).reps, OpAt(j))
                /\ Leaves(Coder(j), OpAt(j), Coder(j + 1))
           /\ OpAt(j) = EndMarker => Coder(j).pos = N /\ j = Len(coded) /\ form # "size"
<1>1. Len(coded) \in Nat /\ j \in Nat \ {0} /\ j + 1 \in Nat \ {0}
      /\ j \in 1 .. Len(coded) + 1 /\ j + 1 \in 1 .. Len(coded) + 1
  BY CoderType
<1>2. Coder(j) \in Coders /\ Coder(j + 1) \in Coders /\ OpAt(j) \in AllOps /\ data \in Inputs
  BY <1>1, CoderType DEF EncoderTypeOK
<1>3. Recorded(j)
  BY DEF Encoded
<1>4. Coder(j + 1).at <= Len(wire) /\ HasMatchByte(Coder(j)) /\ Coder(j).pos <= N
  BY <1>1 DEF Encoded
<1>5. OpAt(j).kind = "Literal" => OpAt(j) # EndMarker
  BY <1>2, OpKinds
<1>6. Ready(Coder(j), OpAt(j))
  BY <1>3, <1>4, <1>5 DEF Ready, Recorded, OpAt
<1> QED
  BY <1>2, <1>3, <1>4, <1>6 DEF Recorded, OpAt

\* What the decoder is about to read, in operation j.
Coming(j) ==
    CASE pc = "token"        -> IF OpAt(j).kind = "Literal" THEN 0 ELSE 1
      [] pc = "literal"      -> data[Coder(j).pos + 1]
      [] pc = "is_rep"       -> IF OpAt(j).kind = "Match" THEN 0 ELSE 1
      [] pc \in {"len", "rep_len"} -> OpAt(j).len
      [] pc = "dist"         -> OpAt(j).dist - 1
      [] pc = "is_rep_g0"    -> IF OpAt(j).index = 0 THEN 0 ELSE 1
      [] pc = "is_rep0_long" -> IF OpAt(j).kind = "ShortRep" THEN 0 ELSE 1
      [] pc = "is_rep_g1"    -> IF OpAt(j).index = 1 THEN 0 ELSE 1
      [] pc = "is_rep_g2"    -> OpAt(j).index - 2

\* The decoder is in operation j, and has the output before it.
Within(j) ==
    /\ j \in 1 .. Len(coded) /\ Len(out) = Coder(j).pos /\ InOp(j) /\ OutIsPrefix

LEMMA LiteralAsked ==
    ASSUME DecoderTypeOK, data \in Inputs, NEW c \in Coders, Ready(c, Literal),
           Len(out) = c.pos, OutIsPrefix, dstate = c.state, dreps = c.reps, pc = "literal"
    PROVE  Asks = LiteralCtx(c.pos, Prev(c), EncoderMatchByte(c))
<1>1. /\ c.pos \in Nat /\ c.pos <= N /\ N \in Nat /\ out \in Seq(Byte) /\ HasMatchByte(c)
      /\ \A i \in 1 .. c.pos : out[i] = data[i]
  BY CoderTypes, InputType DEF Ready, DecoderTypeOK, OutIsPrefix
<1>2. (IF out = <<>> THEN 0 ELSE Last(out)) = Prev(c)
  <2>1. out = <<>> <=> c.pos = 0
    BY <1>1
  <2>2. c.pos # 0 => Last(out) = data[c.pos]
    BY <1>1 DEF Last
  <2> QED
    BY <2>1, <2>2 DEF Prev
<1>3. DecoderMatchByte = EncoderMatchByte(c)
  <2>1. CASE IsLiteral(c.state)
    BY <2>1 DEF DecoderMatchByte, EncoderMatchByte
  <2>2. CASE ~IsLiteral(c.state)
    <3>1. c.reps[1] \in Nat /\ c.reps[1] < c.pos
      BY <2>2, <1>1, CoderTypes DEF HasMatchByte, Reps
    <3>2. c.pos - (c.reps[1] + 1) + 1 = c.pos - c.reps[1] /\ c.pos - c.reps[1] \in 1 .. c.pos
          /\ c.reps[1] + 1 <= c.pos
      BY <3>1, <1>1
    <3>3. Back(c.reps[1] + 1) = data[c.pos - c.reps[1]]
      BY <3>2, <1>1 DEF Back
    <3> QED
      BY <3>3, <2>2 DEF DecoderMatchByte, EncoderMatchByte
  <2> QED
    BY <2>1, <2>2
<1> QED
  BY <1>2, <1>3 DEF Asks

LEMMA NextSymbol ==
    ASSUME IInv, NEW j, Within(j), pc \in Decoding
    PROVE  /\ read + 1 \in 1 .. Len(wire)
           /\ wire[read + 1].ctx = Asks /\ wire[read + 1].value = Coming(j)
<1>1. PICK c \in Coders, op \in AllOps : c = Coder(j) /\ op = OpAt(j)
  BY OnWire DEF IInv, Within
<1>2. /\ Ready(c, op) /\ data \in Inputs /\ Coder(j + 1).at = c.at + Width(op)
      /\ Coder(j + 1).at <= Len(wire) /\ DecoderTypeOK
      /\ \A k \in 1 .. Width(op) : wire[c.at + k] = CodedOp(c, op)[k]
  BY <1>1, OnWire DEF IInv, Within, DecoderInv
<1>3. PICK w \in 2 .. 6 : w = Width(op)
  BY WidthType
<1>4. c.at \in Nat /\ c.pos \in Nat /\ c.at + w <= Len(wire) /\ Len(wire) \in Nat /\ read \in Nat
      /\ Len(out) = c.pos /\ OutIsPrefix
  BY <1>1, <1>2, <1>3, CoderTypes, CoderType DEF IInv, DecoderTypeOK, Within
<1>5. ASSUME NEW k \in 0 .. 5, read = c.at + k, k < w,
             NEW ctx, NEW v, CodedOp(c, op)[k + 1] = Symbol(ctx, v), ctx = Asks, v = Coming(j)
      PROVE  /\ read + 1 \in 1 .. Len(wire)
             /\ wire[read + 1].ctx = Asks /\ wire[read + 1].value = Coming(j)
  <2>1. read + 1 = c.at + (k + 1) /\ k + 1 \in 1 .. w /\ read + 1 \in 1 .. Len(wire)
    BY <1>4, <1>5
  <2>2. wire[c.at + (k + 1)] = Symbol(ctx, v)
    BY <2>1, <1>2, <1>3, <1>5
  <2> QED
    BY <2>1, <2>2, <1>5 DEF Symbol
<1>6. /\ op.kind = "Literal" => w = 2 /\ CodedOp(c, op) = CodedLiteral(c)
      /\ op.kind = "ShortRep" => w = 4 /\ CodedOp(c, op) = CodedShortRep(c) /\ op.index = 0
      /\ op.kind = "Rep" => /\ w = IF op.index < 2 THEN 5 ELSE 6
                            /\ CodedOp(c, op) = CodedRep(c, op.index, op.len)
      /\ op.kind = "Match" => w = 4 /\ CodedOp(c, op) = CodedMatch(c, op.len, op.dist - 1)
  BY <1>3, WidthType, OpKinds DEF CodedOp
<1>7. /\ op.kind \in {"Literal", "ShortRep", "Rep", "Match"} /\ op.index \in 0 .. 3
      /\ op.kind \in {"Rep", "Match"} => op.len \in Lens
      /\ op.kind = "Match" => op.dist - 1 \in Nat
  BY OpKinds, LimitsAssumption
<1>8. op.kind = "Literal" =>
        /\ CodedOp(c, op)[1] = IsMatch(c, 0)
        /\ CodedOp(c, op)[2] =
                Symbol(LiteralCtx(c.pos, Prev(c), EncoderMatchByte(c)), data[c.pos + 1])
        /\ Ready(c, Literal)
  <2> SUFFICES ASSUME op.kind = "Literal"
               PROVE  /\ CodedOp(c, op)[1] = IsMatch(c, 0)
                      /\ CodedOp(c, op)[2] =
                          Symbol(LiteralCtx(c.pos, Prev(c), EncoderMatchByte(c)), data[c.pos + 1])
                      /\ Ready(c, Literal)
    OBVIOUS
  <2>1. op = Literal
    BY OpKinds
  <2> QED
    BY <2>1, <1>2, <1>6, LiteralSymbols
<1>9. op.kind = "ShortRep" =>
        /\ CodedOp(c, op)[1] = IsMatch(c, 1) /\ CodedOp(c, op)[2] = IsRep(c, 1)
        /\ CodedOp(c, op)[3] = Symbol(Ctx("is_rep_g0", c.state, 0), 0)
        /\ CodedOp(c, op)[4] = Symbol(Ctx("is_rep0_long", c.state, PosState(c.pos)), 0)
  BY <1>6, ShortRepSymbols
<1>10. op.kind = "Match" =>
        /\ CodedOp(c, op)[1] = IsMatch(c, 1) /\ CodedOp(c, op)[2] = IsRep(c, 0)
        /\ CodedOp(c, op)[3] = Symbol(Ctx("len", PosState(c.pos), 0), op.len)
        /\ CodedOp(c, op)[4] = Symbol(Ctx("dist", LenState(op.len), 0), op.dist - 1)
  BY <1>6, <1>7, MatchSymbols
<1>11. op.kind = "Rep" =>
        /\ CodedOp(c, op)[1] = IsMatch(c, 1) /\ CodedOp(c, op)[2] = IsRep(c, 1)
        /\ CodedOp(c, op)[3] =
             Symbol(Ctx("is_rep_g0", c.state, 0), IF op.index = 0 THEN 0 ELSE 1)
        /\ op.index = 0 => CodedOp(c, op)[4] =
             Symbol(Ctx("is_rep0_long", c.state, PosState(c.pos)), 1)
        /\ op.index >= 1 => CodedOp(c, op)[4] =
             Symbol(Ctx("is_rep_g1", c.state, 0), IF op.index = 1 THEN 0 ELSE 1)
        /\ op.index >= 2 => CodedOp(c, op)[5] =
             Symbol(Ctx("is_rep_g2", c.state, 0), op.index - 2)
        /\ CodedOp(c, op)[w] = Symbol(Ctx("rep_len", PosState(c.pos), 0), op.len)
  BY <1>6, <1>7, RepSymbols
<1>12. CASE pc = "token"
  <2>1. read = c.at + 0 /\ dstate = c.state
    BY <1>1, <1>4, <1>12 DEF Within, InOp, At, Same
  <2>2. CodedOp(c, op)[0 + 1] = IsMatch(c, Coming(j))
    BY <1>1, <1>7, <1>8, <1>9, <1>10, <1>11, <1>12 DEF Coming
  <2>3. Asks = Ctx("is_match", c.state, PosState(c.pos))
    BY <2>1, <1>4, <1>12 DEF Asks
  <2> QED
    BY <2>1, <2>2, <2>3, <1>5 DEF IsMatch
<1>13. CASE pc = "literal"
  <2>1. read = c.at + 1 /\ dstate = c.state /\ dreps = c.reps /\ op.kind = "Literal"
    BY <1>1, <1>4, <1>13 DEF Within, InOp, At, Same
  <2>2. Coming(j) = data[c.pos + 1]
    BY <1>1, <1>13 DEF Coming
  <2>3. Asks = LiteralCtx(c.pos, Prev(c), EncoderMatchByte(c))
    BY <2>1, <1>2, <1>4, <1>8, <1>13, LiteralAsked
  <2>4. CodedOp(c, op)[1 + 1] = Symbol(Asks, Coming(j))
    BY <2>1, <2>2, <2>3, <1>8
  <2> QED
    BY <2>1, <2>4, <1>5, <1>6
<1>14. CASE pc = "is_rep"
  <2>1. read = c.at + 1 /\ dstate = c.state /\ op.kind # "Literal"
    BY <1>1, <1>14 DEF Within, InOp, At, Same
  <2>2. CodedOp(c, op)[1 + 1] = IsRep(c, Coming(j))
    BY <2>1, <1>1, <1>7, <1>9, <1>10, <1>11, <1>14 DEF Coming
  <2>3. Asks = Ctx("is_rep", c.state, 0)
    BY <2>1, <1>14 DEF Asks
  <2> QED
    BY <2>1, <2>2, <2>3, <1>5 DEF IsRep
<1>15. CASE pc = "len"
  <2>1. read = c.at + 2 /\ op.kind = "Match"
    BY <1>1, <1>15 DEF Within, InOp, At, Same
  <2>2. Coming(j) = op.len /\ Asks = Ctx("len", PosState(c.pos), 0)
    BY <1>1, <1>4, <1>15 DEF Coming, Asks
  <2>3. CodedOp(c, op)[2 + 1] = Symbol(Asks, Coming(j))
    BY <2>1, <2>2, <1>10
  <2> QED
    BY <2>1, <2>3, <1>5, <1>6
<1>16. CASE pc = "dist"
  <2>1. read = c.at + 3 /\ op.kind = "Match" /\ len = op.len
    BY <1>1, <1>16 DEF Within, InOp, At
  <2>2. Coming(j) = op.dist - 1 /\ Asks = Ctx("dist", LenState(op.len), 0)
    BY <2>1, <1>1, <1>16 DEF Coming, Asks
  <2>3. CodedOp(c, op)[3 + 1] = Symbol(Asks, Coming(j))
    BY <2>1, <2>2, <1>10
  <2> QED
    BY <2>1, <2>3, <1>5, <1>6
<1>17. CASE pc = "is_rep_g0"
  <2>1. read = c.at + 2 /\ dstate = c.state /\ op.kind \in {"ShortRep", "Rep"}
    BY <1>1, <1>17 DEF Within, InOp, At, Same
  <2>2. Coming(j) = (IF op.index = 0 THEN 0 ELSE 1) /\ Asks = Ctx("is_rep_g0", c.state, 0)
    BY <2>1, <1>1, <1>17 DEF Coming, Asks
  <2>3. CodedOp(c, op)[2 + 1] = Symbol(Asks, Coming(j))
    BY <2>1, <2>2, <1>6, <1>9, <1>11
  <2> QED
    BY <2>1, <2>3, <1>5, <1>6
<1>18. CASE pc = "is_rep0_long"
  <2>1. read = c.at + 3 /\ dstate = c.state /\ op.kind \in {"ShortRep", "Rep"} /\ op.index = 0
    BY <1>1, <1>18 DEF Within, InOp, At, Same
  <2>2. /\ Coming(j) = (IF op.kind = "ShortRep" THEN 0 ELSE 1)
        /\ Asks = Ctx("is_rep0_long", c.state, PosState(c.pos))
    BY <2>1, <1>1, <1>4, <1>18 DEF Coming, Asks
  <2>3. CodedOp(c, op)[3 + 1] = Symbol(Asks, Coming(j))
    BY <2>1, <2>2, <1>9, <1>11
  <2> QED
    BY <2>1, <2>3, <1>5, <1>6
<1>19. CASE pc = "is_rep_g1"
  <2>1. read = c.at + 3 /\ dstate = c.state /\ op.kind = "Rep" /\ op.index >= 1
    BY <1>1, <1>19 DEF Within, InOp, At, Same
  <2>2. Coming(j) = (IF op.index = 1 THEN 0 ELSE 1) /\ Asks = Ctx("is_rep_g1", c.state, 0)
    BY <2>1, <1>1, <1>19 DEF Coming, Asks
  <2>3. CodedOp(c, op)[3 + 1] = Symbol(Asks, Coming(j))
    BY <2>1, <2>2, <1>11
  <2> QED
    BY <2>1, <2>3, <1>5, <1>6
<1>20. CASE pc = "is_rep_g2"
  <2>1. read = c.at + 4 /\ dstate = c.state /\ op.kind = "Rep" /\ op.index >= 2
    BY <1>1, <1>20 DEF Within, InOp, At, Same
  <2>2. Coming(j) = op.index - 2 /\ Asks = Ctx("is_rep_g2", c.state, 0)
    BY <2>1, <1>1, <1>20 DEF Coming, Asks
  <2>3. CodedOp(c, op)[4 + 1] = Symbol(Asks, Coming(j))
    BY <2>1, <2>2, <1>11
  <2> QED
    BY <2>1, <2>3, <1>5, <1>6
<1>21. CASE pc = "rep_len"
  <2>1. read = c.at + (w - 1) /\ op.kind = "Rep"
    BY <1>1, <1>3, <1>4, <1>21 DEF Within, InOp, At
  <2>2. Coming(j) = op.len /\ Asks = Ctx("rep_len", PosState(c.pos), 0)
    BY <1>1, <1>4, <1>21 DEF Coming, Asks
  <2>3. CodedOp(c, op)[(w - 1) + 1] = Symbol(Asks, Coming(j)) /\ w - 1 \in 0 .. 5 /\ w - 1 < w
    <3>1. (w - 1) + 1 = w
      OBVIOUS
    <3> QED
      BY <3>1, <2>1, <2>2, <1>11
  <2> QED
    BY <2>1, <2>3, <1>5
<1> QED
  BY <1>12, <1>13, <1>14, <1>15, <1>16, <1>17, <1>18, <1>19, <1>20, <1>21 DEF Decoding
-----------------------------------------------------------------------------
(* One symbol read.                                                        *)

\* A decoder that has read what was coded is in an operation still to end.
LEMMA SomewhereWithin ==
    ASSUME IInv, pc \in Inside, read <= good, pc = "token" => read < Len(wire)
    PROVE  \E j \in 1 .. Len(coded) : Within(j)
<1>1. Len(coded) \in Nat /\ Len(wire) \in Nat /\ Coder(Len(coded) + 1) = Here
  BY CoderType DEF IInv
<1>2. PICK j \in 1 .. Len(coded) + 1 : Len(out) = Coder(j).pos /\ InOp(j)
  BY DEF IInv, DecoderInv, InSync
<1>3. OutIsPrefix
  BY DEF IInv, DecoderInv, InSync
<1>4. j <= Len(coded)
  <2>1. CASE pc # "token"
    BY <2>1, <1>2 DEF InOp
  <2>2. CASE pc = "token"
    <3>1. read = Coder(j).at
      BY <2>2, <1>2, CoderType, CoderTypes DEF InOp, At, IInv
    <3>2. j = Len(coded) + 1 => Coder(j).at = Len(wire)
      BY <1>1 DEF Here
    <3> QED
      BY <2>2, <3>1, <3>2, <1>1
  <2> QED
    BY <2>1, <2>2
<1>5. j \in 1 .. Len(coded)
  BY <1>1, <1>4
<1> QED
  BY <1>2, <1>3, <1>5 DEF Within

\* A stream that arrived whole never runs out.
LEMMA WholeMore ==
    ASSUME IInv, Whole, pc \in Decoding, pc = "token" => ~Complete
    PROVE  read + 1 <= Len(wire) /\ good = Len(wire)
<1>1. /\ Len(coded) \in Nat /\ Len(wire) \in Nat /\ Coder(Len(coded) + 1) = Here
      /\ good = Len(wire) /\ read \in Nat /\ N \in Nat
  BY CoderType, InputType DEF IInv, Whole, DecoderInv, DecoderTypeOK, EncoderTypeOK
<1>2. /\ pc # "encoding" /\ pc \in Inside /\ read <= good
      /\ where = IF read >= Len(wire) - tail THEN "end" ELSE "inside"
  BY <1>1 DEF IInv, DecoderInv, Arrived, Inside, Decoding
<1>3. CASE pc = "token" => read < Len(wire)
  <2>1. PICK j \in 1 .. Len(coded) : Within(j)
    BY <1>2, <1>3, SomewhereWithin
  <2>2. read + 1 \in 1 .. Len(wire)
    BY <2>1, NextSymbol
  <2> QED
    BY <2>2, <1>1
<1>4. ASSUME pc = "token", read = Len(wire) PROVE FALSE
  <2>1. PICK j \in 1 .. Len(coded) + 1 : Len(out) = Coder(j).pos /\ InOp(j)
    BY <1>2 DEF IInv, DecoderInv, InSync
  <2>2. CASE j <= Len(coded)
    <3>1. j \in 1 .. Len(coded) /\ OutIsPrefix
      BY <2>2, <1>1, <1>2 DEF IInv, DecoderInv, InSync
    <3>2. Within(j)
      BY <3>1, <2>1 DEF Within
    <3>3. read + 1 \in 1 .. Len(wire)
      BY <3>2, NextSymbol
    <3> QED
      BY <3>3, <1>1, <1>4
  <2>3. CASE j = Len(coded) + 1
    <3>1. ~Marked /\ Len(out) = pos
      BY <2>1, <2>3, <1>1, <1>4 DEF InOp, Here
    <3>2. pos = N /\ form = "size"
      BY <3>1, <1>2 DEF IInv, Encoded
    <3>3. size = N /\ size # Unknown
      BY <3>2, <1>1 DEF Whole, Stated, Unknown
    <3>4. where = "end"
      <4>1. tail \in Nat
        BY DEF IInv, DecoderInv, DecoderTypeOK
      <4>2. read >= Len(wire) - tail
        BY <4>1, <1>1, <1>4
      <4> QED
        BY <4>2, <1>2
    <3>5. Complete
      BY <3>1, <3>2, <3>3, <3>4 DEF Complete, KnownSize, limit
    <3> QED
      BY <3>5, <1>4
  <2> QED
    BY <2>1, <2>2, <2>3, <1>1
<1> QED
  BY <1>1, <1>2, <1>3, <1>4

\* What reading a symbol does, whatever it is.
LEMMA DecodeFrame ==
    ASSUME IInv, pc \in Decoding, pc = "token" => ~Complete, NEW v, Decode(v)
    PROVE  /\ read \in Nat /\ read' = read + 1 /\ where' \in {"inside", "end", "past"}
           /\ UNCHANGED <<data, form, encoder, stream>> /\ pc # "encoding"
           /\ read' <= good => \E j \in 1 .. Len(coded) : Within(j) /\ v = Coming(j)
           /\ Whole =>
                /\ read' <= good /\ read' <= Len(wire)
                /\ where' = IF read' >= Len(wire) - tail THEN "end" ELSE "inside"
<1>1. /\ read \in Nat /\ good \in 0 .. Len(wire) /\ Len(wire) \in Nat
      /\ pc # "encoding" /\ pc \in Inside
  BY CoderType DEF IInv, DecoderInv, DecoderTypeOK, Decoding, Inside
<1>2. /\ read' = read + 1 /\ where' \in {"inside", "end", "past"} /\ Reaches(where')
      /\ UNCHANGED <<data, form, encoder, stream>>
      /\ read < good /\ wire[read + 1].ctx = Asks => v = wire[read + 1].value
  BY DEF Decode
<1>3. ASSUME read' <= good PROVE \E j \in 1 .. Len(coded) : Within(j) /\ v = Coming(j)
  <2>1. read < good /\ read < Len(wire) /\ read <= good
    BY <1>1, <1>2, <1>3
  <2>2. PICK j \in 1 .. Len(coded) : Within(j)
    BY <2>1, <1>1, SomewhereWithin
  <2>3. wire[read + 1].ctx = Asks /\ wire[read + 1].value = Coming(j)
    BY <2>2, NextSymbol
  <2> QED
    BY <2>1, <2>2, <2>3, <1>2
<1>4. ASSUME Whole
      PROVE  /\ read' <= good /\ read' <= Len(wire)
             /\ where' = IF read' >= Len(wire) - tail THEN "end" ELSE "inside"
  <2>1. read + 1 <= Len(wire) /\ good = Len(wire)
    BY <1>4, WholeMore
  <2>2. read < Len(wire)
    BY <2>1, <1>1
  <2>3. where' = IF read + 1 >= Len(wire) - tail THEN "end" ELSE "inside"
    BY <2>1, <2>2, <1>2 DEF Reaches
  <2> QED
    BY <2>1, <2>3, <1>1, <1>2
<1> QED
  BY <1>1, <1>2, <1>3, <1>4

\* A symbol read on the way through an operation keeps the invariant.
LEMMA DecodeStep ==
    ASSUME IInv, pc \in Decoding, pc = "token" => ~Complete, NEW v, Decode(v),
           pc' \in Inside, dstate' \in States, dreps' \in Reps, len' \in Nat,
           out' \in Seq(Byte), Len(out') <= N,
           pc' \in {"token", "literal"} /\ ~IsLiteral(dstate') => dreps'[1] < Len(out'),
           \A j \in 1 .. Len(coded) : Within(j) /\ v = Coming(j) =>
                /\ OutIsPrefix'
                /\ \E i \in 1 .. Len(coded) + 1 : Len(out') = Coder(i).pos /\ InOp(i)'
    PROVE  IInv'
<1>1. /\ read \in Nat /\ read' = read + 1 /\ where' \in {"inside", "end", "past"}
      /\ UNCHANGED <<data, form, encoder, stream>> /\ pc # "encoding"
      /\ read' <= good => \E j \in 1 .. Len(coded) : Within(j) /\ v = Coming(j)
      /\ Whole =>
            /\ read' <= good /\ read' <= Len(wire)
            /\ where' = IF read' >= Len(wire) - tail THEN "end" ELSE "inside"
  BY DecodeFrame
<1>2. /\ EncoderTypeOK' /\ Encoded' /\ UNCHANGED <<wire, coded, size, good, tail>>
      /\ N' = N /\ Whole' = Whole /\ DecoderTypeOK /\ Started
      /\ \A j : Coder(j)' = Coder(j)
  BY <1>1, AllElse
<1>3. pc \in Inside /\ pc' \notin {"encoding", "header", "finish"} \cup Results
  BY DEF Inside, Decoding, Results
<1>4. DecoderTypeOK'
  <2>1. read' \in Nat
    BY <1>1
  <2> QED
    BY <2>1, <1>1, <1>2 DEF DecoderTypeOK
<1>5. Started'
  <2>1. size \in {Unknown} \cup 0 .. N
    BY <1>2, <1>3 DEF Started
  <2> QED
    BY <2>1, <1>2, <1>3 DEF Started
<1>6. InSync'
  <2> SUFFICES ASSUME read' <= good
               PROVE  /\ OutIsPrefix'
                      /\ \E i \in 1 .. Len(coded) + 1 : Len(out') = Coder(i).pos /\ InOp(i)'
    BY <1>2 DEF InSync
  <2> QED
    BY <1>1
<1>7. Arrived'
  BY <1>1, <1>2, <1>3 DEF Arrived, Results
<1> QED
  BY <1>2, <1>4, <1>5, <1>6, <1>7 DEF IInv, DecoderInv

\* Past an operation that is not a marker.
LEMMA Advance ==
    ASSUME EncoderTypeOK, Encoded, NEW j \in 1 .. Len(coded), OpAt(j) # EndMarker
    PROVE  /\ j + 1 \in 1 .. Len(coded) + 1
           /\ ~(j + 1 = Len(coded) + 1 /\ Marked)
           /\ Coder(j + 1).pos = Coder(j).pos + OpAt(j).len
           /\ Coder(j + 1).state = Emitted(Coder(j), OpAt(j)).state
           /\ Coder(j + 1).reps = Emitted(Coder(j), OpAt(j)).reps
           /\ Coder(j + 1).at = Coder(j).at + Width(OpAt(j))
<1>1. Len(coded) \in Nat
  BY CoderType
<1>2. j = Len(coded) => ~Marked
  BY <1>1 DEF Marked, Last, OpAt
<1> QED
  BY <1>1, <1>2, OnWire DEF Leaves
-----------------------------------------------------------------------------
(* Each step of decompress.                                                *)

LEMMA DecoderTypes ==
    ASSUME IInv
    PROVE  /\ dstate \in States /\ dreps \in Reps /\ len \in Nat /\ read \in Nat
           /\ out \in Seq(Byte) /\ Len(out) \in Nat /\ Len(out) <= N /\ N \in Nat
           /\ \A i \in 1 .. 4 : dreps[i] \in Nat
           /\ data \in Inputs /\ data \in Seq(Byte)
           /\ pc \in Inside \cup {"finish"} => limit \in Nat /\ limit <= N
<1>1. /\ dstate \in States /\ dreps \in Reps /\ len \in Nat /\ read \in Nat
      /\ out \in Seq(Byte) /\ Len(out) \in Nat /\ Len(out) <= N /\ N \in Nat
      /\ data \in Inputs /\ data \in Seq(Byte)
  BY InputType DEF IInv, EncoderTypeOK, DecoderInv, DecoderTypeOK
<1>2. \A i \in 1 .. 4 : dreps[i] \in Nat
  BY <1>1 DEF Reps
<1>3. pc \in Inside \cup {"finish"} => limit \in Nat /\ limit <= N
  BY <1>1 DEF IInv, DecoderInv, Started, limit, KnownSize
<1> QED
  BY <1>1, <1>2, <1>3

\* What Within says of operation j.
LEMMA WithinTypes ==
    ASSUME IInv, NEW j \in 1 .. Len(coded), Within(j)
    PROVE  /\ j \in 1 .. Len(coded) + 1 /\ Coder(j) \in Coders /\ OpAt(j) \in AllOps
           /\ Coder(j).at \in Nat /\ Coder(j).pos \in Nat /\ Coder(j).state \in States
           /\ Coder(j).reps \in Reps /\ Len(out) = Coder(j).pos
           /\ OpAt(j).kind \in {"Literal", "ShortRep", "Rep", "Match"}
           /\ OpAt(j).index \in 0 .. 3 /\ OpAt(j).len \in Nat \ {0}
           /\ OutIsPrefix /\ Width(OpAt(j)) \in 2 .. 6
           /\ OpAt(j).kind = "Match" => OpAt(j).dist \in Nat
<1>1. Len(coded) \in Nat
  BY CoderType DEF IInv
<1>2. Coder(j) \in Coders /\ OpAt(j) \in AllOps
  BY OnWire DEF IInv
<1> QED
  BY <1>1, <1>2, CoderTypes, OpKinds, WidthType DEF Within

LEMMA IsMatchStep == ASSUME IInv, DecodeIsMatch PROVE IInv'
<1>1. PICK bit \in 0 .. 1 : Decode(bit) /\ pc' = IF bit = 0 THEN "literal" ELSE "is_rep"
  BY DEF DecodeIsMatch
<1>2. /\ pc = "token" /\ ~Complete /\ UNCHANGED <<dstate, dreps, len, out>>
      /\ pc \in Decoding /\ pc' \in Inside
  BY <1>1 DEF DecodeIsMatch, Decoding, Inside
<1>3. /\ dstate \in States /\ dreps \in Reps /\ len \in Nat /\ out \in Seq(Byte)
      /\ Len(out) <= N /\ (~IsLiteral(dstate) => dreps[1] < Len(out))
  BY <1>2, DecoderTypes DEF IInv, DecoderInv, Started
<1>4. /\ \A i : Coder(i)' = Coder(i) /\ OpAt(i)' = OpAt(i)
      /\ data' = data /\ coded' = coded /\ read' = read + 1
  BY <1>1, <1>2, DecodeFrame, AllElse
<1>5. ASSUME NEW j \in 1 .. Len(coded), Within(j), bit = Coming(j)
      PROVE  /\ OutIsPrefix'
             /\ \E i \in 1 .. Len(coded) + 1 : Len(out') = Coder(i).pos /\ InOp(i)'
  <2>1. bit = IF OpAt(j).kind = "Literal" THEN 0 ELSE 1
    BY <1>2, <1>5 DEF Coming
  <2>2. read = Coder(j).at /\ Same(j) /\ j <= Len(coded)
    BY <1>2, <1>5, WithinTypes DEF Within, InOp, At
  <2>3. InOp(j)'
    BY <2>1, <2>2, <1>1, <1>2, <1>4 DEF InOp, At, Same
  <2> QED
    BY <2>3, <1>2, <1>4, <1>5, WithinTypes DEF OutIsPrefix
<1> QED
  BY <1>1, <1>2, <1>3, <1>5, DecodeStep

LEMMA IsRepStep == ASSUME IInv, DecodeIsRep PROVE IInv'
<1>1. PICK bit \in 0 .. 1 : Decode(bit) /\ pc' = IF bit = 0 THEN "len" ELSE "is_rep_g0"
  BY DEF DecodeIsRep
<1>2. /\ pc = "is_rep" /\ UNCHANGED <<dstate, dreps, len, out>>
      /\ pc \in Decoding /\ pc' \in Inside
  BY <1>1 DEF DecodeIsRep, Decoding, Inside
<1>3. /\ dstate \in States /\ dreps \in Reps /\ len \in Nat /\ out \in Seq(Byte)
      /\ Len(out) <= N
  BY DecoderTypes
<1>4. /\ \A i : Coder(i)' = Coder(i) /\ OpAt(i)' = OpAt(i)
      /\ data' = data /\ coded' = coded /\ read' = read + 1
  BY <1>1, <1>2, DecodeFrame, AllElse
<1>5. ASSUME NEW j \in 1 .. Len(coded), Within(j), bit = Coming(j)
      PROVE  /\ OutIsPrefix'
             /\ \E i \in 1 .. Len(coded) + 1 : Len(out') = Coder(i).pos /\ InOp(i)'
  <2>1. bit = IF OpAt(j).kind = "Match" THEN 0 ELSE 1
    BY <1>2, <1>5 DEF Coming
  <2>2. read = Coder(j).at + 1 /\ Same(j) /\ j <= Len(coded) /\ OpAt(j).kind # "Literal"
    BY <1>2, <1>5, WithinTypes DEF Within, InOp, At
  <2>3. read' = Coder(j).at + 2 /\ OpAt(j).kind \in {"ShortRep", "Rep", "Match"}
    BY <2>2, <1>4, <1>5, WithinTypes
  <2>4. InOp(j)'
    BY <2>1, <2>2, <2>3, <1>1, <1>2, <1>4 DEF InOp, At, Same
  <2> QED
    BY <2>4, <1>2, <1>4, <1>5, WithinTypes DEF OutIsPrefix
<1> QED
  BY <1>1, <1>2, <1>3, <1>5, DecodeStep

LEMMA LenStep == ASSUME IInv, DecodeLen PROVE IInv'
<1>1. PICK l \in MATCH_MIN_LEN .. MATCH_MAX_LEN : l = len' /\ Decode(l)
  BY DEF DecodeLen
<1>2. /\ pc = "len" /\ UNCHANGED <<dreps, out>> /\ pc' = "dist" /\ len' = l
      /\ dstate' = AfterMatch(dstate) /\ pc \in Decoding /\ pc' \in Inside
  BY <1>1 DEF DecodeLen, Decoding, Inside
<1>3. /\ dstate' \in States /\ dreps \in Reps /\ len' \in Nat /\ out \in Seq(Byte)
      /\ Len(out) <= N
  BY <1>2, DecoderTypes, StateTypes, LimitsAssumption
<1>4. /\ \A i : Coder(i)' = Coder(i) /\ OpAt(i)' = OpAt(i)
      /\ data' = data /\ coded' = coded /\ read' = read + 1
  BY <1>1, <1>2, DecodeFrame, AllElse
<1>5. ASSUME NEW j \in 1 .. Len(coded), Within(j), l = Coming(j)
      PROVE  /\ OutIsPrefix'
             /\ \E i \in 1 .. Len(coded) + 1 : Len(out') = Coder(i).pos /\ InOp(i)'
  <2>1. l = OpAt(j).len
    BY <1>2, <1>5 DEF Coming
  <2>2. read = Coder(j).at + 2 /\ Same(j) /\ j <= Len(coded) /\ OpAt(j).kind = "Match"
    BY <1>2, <1>5, WithinTypes DEF Within, InOp, At
  <2>3. read' = Coder(j).at + 3
    BY <2>2, <1>4, <1>5, WithinTypes
  <2>4. InOp(j)'
    BY <2>1, <2>2, <2>3, <1>1, <1>2, <1>4 DEF InOp, At, Same
  <2> QED
    BY <2>4, <1>2, <1>4, <1>5, WithinTypes DEF OutIsPrefix
<1> QED
  BY <1>1, <1>2, <1>3, <1>5, DecodeStep

LEMMA RepG0Step == ASSUME IInv, DecodeRepG0 PROVE IInv'
<1>1. PICK bit \in 0 .. 1 : Decode(bit) /\ pc' = IF bit = 0 THEN "is_rep0_long" ELSE "is_rep_g1"
  BY DEF DecodeRepG0
<1>2. /\ pc = "is_rep_g0" /\ UNCHANGED <<dstate, dreps, len, out>>
      /\ pc \in Decoding /\ pc' \in Inside
  BY <1>1 DEF DecodeRepG0, Decoding, Inside
<1>3. /\ dstate \in States /\ dreps \in Reps /\ len \in Nat /\ out \in Seq(Byte)
      /\ Len(out) <= N
  BY DecoderTypes
<1>4. /\ \A i : Coder(i)' = Coder(i) /\ OpAt(i)' = OpAt(i)
      /\ data' = data /\ coded' = coded /\ read' = read + 1
  BY <1>1, <1>2, DecodeFrame, AllElse
<1>5. ASSUME NEW j \in 1 .. Len(coded), Within(j), bit = Coming(j)
      PROVE  /\ OutIsPrefix'
             /\ \E i \in 1 .. Len(coded) + 1 : Len(out') = Coder(i).pos /\ InOp(i)'
  <2>1. bit = IF OpAt(j).index = 0 THEN 0 ELSE 1
    BY <1>2, <1>5 DEF Coming
  <2>2. /\ read = Coder(j).at + 2 /\ Same(j) /\ j <= Len(coded)
        /\ OpAt(j).kind \in {"ShortRep", "Rep"}
    BY <1>2, <1>5, WithinTypes DEF Within, InOp, At
  <2>3. read' = Coder(j).at + 3
    BY <2>2, <1>4, <1>5, WithinTypes
  <2>4. OpAt(j).index # 0 => OpAt(j).kind = "Rep" /\ OpAt(j).index >= 1
    <3>1. OpAt(j) \in AllOps /\ OpAt(j).index \in 0 .. 3
      BY <1>5, WithinTypes
    <3> QED
      BY <3>1, <2>2, OpKinds
  <2>5. InOp(j)'
    BY <2>1, <2>2, <2>3, <2>4, <1>1, <1>2, <1>4 DEF InOp, At, Same
  <2> QED
    BY <2>5, <1>2, <1>4, <1>5, WithinTypes DEF OutIsPrefix
<1> QED
  BY <1>1, <1>2, <1>3, <1>5, DecodeStep

LEMMA RepG1Step == ASSUME IInv, DecodeRepG1 PROVE IInv'
<1>1. PICK bit \in 0 .. 1 : /\ Decode(bit) /\ pc' = IF bit = 0 THEN "rep_len" ELSE "is_rep_g2"
                            /\ dreps' = RepsAfterG1(dreps, bit)
  BY DEF DecodeRepG1
<1>2. /\ pc = "is_rep_g1" /\ UNCHANGED <<dstate, len, out>>
      /\ pc \in Decoding /\ pc' \in Inside
  BY <1>1 DEF DecodeRepG1, Decoding, Inside
<1>3. /\ dstate \in States /\ dreps \in Reps /\ len \in Nat /\ out \in Seq(Byte)
      /\ Len(out) <= N
  BY DecoderTypes
<1>4. /\ \A i : Coder(i)' = Coder(i) /\ OpAt(i)' = OpAt(i)
      /\ data' = data /\ coded' = coded /\ read' = read + 1
  BY <1>1, <1>2, DecodeFrame, AllElse
<1>5. /\ dreps' = IF bit = 0 THEN MovedToFront(dreps, 1) ELSE dreps
      /\ dreps' \in Reps
  <2>1. /\ RepsAfterG1(dreps, 0) = MovedToFront(dreps, 1) /\ RepsAfterG1(dreps, 1) = dreps
        /\ \A i \in 0 .. 3 : MovedToFront(dreps, i) \in Reps
    BY <1>3, RepsType
  <2> QED
    BY <2>1, <1>1, <1>3
<1>6. ASSUME NEW j \in 1 .. Len(coded), Within(j), bit = Coming(j)
      PROVE  /\ OutIsPrefix'
             /\ \E i \in 1 .. Len(coded) + 1 : Len(out') = Coder(i).pos /\ InOp(i)'
  <2>1. bit = IF OpAt(j).index = 1 THEN 0 ELSE 1
    BY <1>2, <1>6 DEF Coming
  <2>2. /\ read = Coder(j).at + 3 /\ Same(j) /\ j <= Len(coded)
        /\ OpAt(j).kind = "Rep" /\ OpAt(j).index >= 1
    BY <1>2, <1>6, WithinTypes DEF Within, InOp, At
  <2>3. read' = Coder(j).at + 4 /\ Coder(j).at \in Nat /\ OpAt(j).index \in 0 .. 3
    BY <2>2, <1>4, <1>6, WithinTypes
  <2>4. OpAt(j).index = 1 => Width(OpAt(j)) = 5
    <3>1. OpAt(j) \in AllOps
      BY <1>6, WithinTypes
    <3> QED
      BY <3>1, <2>2, WidthType
  <2>5. CASE OpAt(j).index = 1
    <3>1. pc' = "rep_len" /\ dreps' = MovedToFront(dreps, OpAt(j).index)
          /\ read' = Coder(j).at + (Width(OpAt(j)) - 1)
      BY <2>1, <2>3, <2>4, <2>5, <1>1, <1>5
    <3>2. InOp(j)'
      BY <3>1, <2>2, <1>2, <1>4 DEF InOp, At, Same
    <3> QED
      BY <3>2, <1>2, <1>4, <1>6, WithinTypes DEF OutIsPrefix
  <2>6. CASE OpAt(j).index # 1
    <3>1. pc' = "is_rep_g2" /\ dreps' = dreps /\ OpAt(j).index >= 2
      BY <2>1, <2>2, <2>3, <2>6, <1>1, <1>5
    <3>2. InOp(j)'
      BY <3>1, <2>2, <2>3, <1>2, <1>4 DEF InOp, At, Same
    <3> QED
      BY <3>2, <1>2, <1>4, <1>6, WithinTypes DEF OutIsPrefix
  <2> QED
    BY <2>5, <2>6
<1> QED
  BY <1>1, <1>2, <1>3, <1>5, <1>6, DecodeStep

LEMMA RepG2Step == ASSUME IInv, DecodeRepG2 PROVE IInv'
<1>1. PICK bit \in 0 .. 1 : Decode(bit) /\ dreps' = RepsAfterG2(dreps, bit)
  BY DEF DecodeRepG2
<1>2. /\ pc = "is_rep_g2" /\ UNCHANGED <<dstate, len, out>> /\ pc' = "rep_len"
      /\ pc \in Decoding /\ pc' \in Inside
  BY <1>1 DEF DecodeRepG2, Decoding, Inside
<1>3. /\ dstate \in States /\ dreps \in Reps /\ len \in Nat /\ out \in Seq(Byte)
      /\ Len(out) <= N
  BY DecoderTypes
<1>4. /\ \A i : Coder(i)' = Coder(i) /\ OpAt(i)' = OpAt(i)
      /\ data' = data /\ coded' = coded /\ read' = read + 1
  BY <1>1, <1>2, DecodeFrame, AllElse
<1>5. dreps' = MovedToFront(dreps, bit + 2) /\ dreps' \in Reps
  <2>1. /\ RepsAfterG2(dreps, 0) = MovedToFront(dreps, 2)
        /\ RepsAfterG2(dreps, 1) = MovedToFront(dreps, 3)
        /\ \A i \in 0 .. 3 : MovedToFront(dreps, i) \in Reps
    BY <1>3, RepsType
  <2>2. bit = 0 \/ bit = 1
    OBVIOUS
  <2> QED
    BY <2>1, <2>2, <1>1
<1>6. ASSUME NEW j \in 1 .. Len(coded), Within(j), bit = Coming(j)
      PROVE  /\ OutIsPrefix'
             /\ \E i \in 1 .. Len(coded) + 1 : Len(out') = Coder(i).pos /\ InOp(i)'
  <2>1. bit = OpAt(j).index - 2
    BY <1>2, <1>6 DEF Coming
  <2>2. /\ read = Coder(j).at + 4 /\ Same(j) /\ j <= Len(coded)
        /\ OpAt(j).kind = "Rep" /\ OpAt(j).index >= 2
    BY <1>2, <1>6, WithinTypes DEF Within, InOp, At
  <2>3. Coder(j).at \in Nat /\ OpAt(j).index \in 0 .. 3 /\ OpAt(j) \in AllOps
    BY <1>6, WithinTypes
  <2>4. Width(OpAt(j)) = 6
    BY <2>2, <2>3, WidthType
  <2>5. read' = Coder(j).at + (Width(OpAt(j)) - 1) /\ bit + 2 = OpAt(j).index
    BY <2>1, <2>2, <2>3, <2>4, <1>4
  <2>6. InOp(j)'
    BY <2>2, <2>5, <1>2, <1>4, <1>5 DEF InOp, At, Same
  <2> QED
    BY <2>6, <1>2, <1>4, <1>6, WithinTypes DEF OutIsPrefix
<1> QED
  BY <1>1, <1>2, <1>3, <1>5, <1>6, DecodeStep

LEMMA RepLenStep == ASSUME IInv, DecodeRepLen PROVE IInv'
<1>1. PICK l \in MATCH_MIN_LEN .. MATCH_MAX_LEN : l = len' /\ Decode(l)
  BY DEF DecodeRepLen
<1>2. /\ pc = "rep_len" /\ UNCHANGED <<dreps, out>> /\ pc' = "copy" /\ len' = l
      /\ dstate' = AfterRep(dstate) /\ pc \in Decoding /\ pc' \in Inside
  BY <1>1 DEF DecodeRepLen, Decoding, Inside
<1>3. /\ dstate' \in States /\ dreps \in Reps /\ len' \in Nat /\ out \in Seq(Byte)
      /\ Len(out) <= N
  BY <1>2, DecoderTypes, StateTypes, LimitsAssumption
<1>4. /\ \A i : Coder(i)' = Coder(i) /\ OpAt(i)' = OpAt(i)
      /\ data' = data /\ coded' = coded /\ read' = read + 1
  BY <1>1, <1>2, DecodeFrame, AllElse
<1>5. ASSUME NEW j \in 1 .. Len(coded), Within(j), l = Coming(j)
      PROVE  /\ OutIsPrefix'
             /\ \E i \in 1 .. Len(coded) + 1 : Len(out') = Coder(i).pos /\ InOp(i)'
  <2>1. l = OpAt(j).len
    BY <1>2, <1>5 DEF Coming
  <2>2. /\ read = Coder(j).at + (Width(OpAt(j)) - 1) /\ j <= Len(coded)
        /\ OpAt(j).kind = "Rep" /\ dstate = Coder(j).state
        /\ dreps = MovedToFront(Coder(j).reps, OpAt(j).index)
    BY <1>2, <1>5 DEF Within, InOp, At
  <2>3. /\ read' = Coder(j).at + Width(OpAt(j)) /\ OpAt(j) # EndMarker
    <3>1. Coder(j).at \in Nat /\ Width(OpAt(j)) \in 2 .. 6 /\ OpAt(j) \in AllOps
      BY <1>5, WithinTypes
    <3>2. OpAt(j) # EndMarker
      BY <3>1, <2>2, OpKinds
    <3> QED
      BY <3>1, <3>2, <2>2, <1>4
  <2>4. Coder(j + 1).state = AfterRep(dstate) /\ Coder(j + 1).reps = dreps
    BY <2>2, <2>3, Advance DEF IInv, Emitted
  <2>5. (j + 1)' = j + 1 /\ Coder(j + 1)' = Coder(j + 1)
    BY <1>4
  <2>6. InOp(j)'
    BY <2>1, <2>2, <2>3, <2>4, <2>5, <1>2, <1>4 DEF InOp, At, Same
  <2> QED
    BY <2>6, <1>2, <1>4, <1>5, WithinTypes DEF OutIsPrefix
<1> QED
  BY <1>1, <1>2, <1>3, <1>5, DecodeStep
-----------------------------------------------------------------------------
(* copy_match: what overlaps what it copies repeats with period dist.      *)

LEMMA ModBelow ==
    ASSUME NEW d \in Nat \ {0}, NEW x \in Nat, x >= d PROVE (x - d) % d = x % d
<1>1. PICK q \in Nat, r \in 0 .. d - 1 : x = d * q + r
  <2>1. x = d * (x \div d) + (x % d) /\ x \div d \in Nat /\ x % d \in 0 .. d - 1
    OBVIOUS
  <2> QED
    BY <2>1
<1>2. q >= 1
  <2> SUFFICES ASSUME q = 0 PROVE FALSE
    OBVIOUS
  <2> QED
    BY <1>1
<1>3. PICK p \in Nat : q = p + 1
  <2>1. q - 1 \in Nat /\ q = (q - 1) + 1
    BY <1>2
  <2> QED
    BY <2>1
<1>4. d * q = d * p + d
  BY <1>3
<1>5. x - d = d * p + r
  BY <1>1, <1>4
<1>6. (d * p + r) % d = r /\ (d * q + r) % d = r
  OBVIOUS
<1> QED
  BY <1>1, <1>5, <1>6

LEMMA Period ==
    ASSUME NEW p \in Nat, NEW d \in Nat \ {0}, NEW l \in Nat, Repeats(data, p, d, l),
           NEW k \in 0 .. l - 1
    PROVE  data[p + (k + 1)] = data[p - (d - (k % d)) + 1]
<1> DEFINE Periodic(x) == data[p + (x + 1)] = data[p - (d - (x % d)) + 1]
           S == {x \in Nat : x < l /\ ~Periodic(x)}
<1> SUFFICES ASSUME k \in S PROVE FALSE
  OBVIOUS
<1>1. S \in SUBSET Nat
  OBVIOUS
<1>2. PICK x \in S : \A y \in S : x <= y
  <2> HIDE DEF S
  <2> QED
    BY <1>1, LeastNat
<1>3. x \in Nat /\ x < l /\ ~Periodic(x) /\ \A y \in Nat : y < x => Periodic(y)
  <2> HIDE DEF Periodic
  <2>1. x \in Nat /\ x < l /\ ~Periodic(x)
    BY <1>2
  <2>2. ASSUME NEW y \in Nat, y < x PROVE Periodic(y)
    BY <1>2, <2>1, <2>2
  <2> QED
    BY <2>1, <2>2
<1>4. d <= p /\ \A i \in 1 .. l : data[p + i] = data[p - d + i]
  BY DEF Repeats
<1>5. data[p + (x + 1)] = data[p - d + (x + 1)]
  <2>1. x + 1 \in 1 .. l
    BY <1>3
  <2> QED
    BY <1>4, <2>1
<1>6. CASE x < d
  <2>1. x % d = x
    BY <1>3, <1>6
  <2>2. p - (d - x) + 1 = p - d + (x + 1)
    BY <1>3
  <2> QED
    BY <1>3, <1>5, <2>1, <2>2
<1>7. CASE x >= d
  <2>1. PICK y \in Nat : y = x - d /\ y < x
    BY <1>3, <1>7
  <2>2. y % d = x % d
    BY <2>1, <1>3, <1>7, ModBelow
  <2>3. data[p + (y + 1)] = data[p - (d - (y % d)) + 1]
    BY <1>3, <2>1
  <2>4. p - d + (x + 1) = p + (y + 1)
    BY <2>1, <1>3
  <2> QED
    BY <1>3, <1>5, <2>2, <2>3, <2>4
<1> QED
  BY <1>3, <1>6, <1>7

\* The bytes copied are those of the output, whatever was read.
LEMMA CopiedType ==
    ASSUME NEW n \in Nat, out \in Seq(Byte), Len(out) = n,
           NEW d \in Nat \ {0}, d <= n, NEW l \in Nat
    PROVE  /\ Copied(d, l) \in Seq(Byte) /\ Len(Copied(d, l)) = l
           /\ \A k \in 1 .. l : Copied(d, l)[k] = out[n - (d - ((k - 1) % d)) + 1]
<1>1. ASSUME NEW k \in 1 .. l
      PROVE  /\ Back(d - ((k - 1) % d)) = out[n - (d - ((k - 1) % d)) + 1]
             /\ Back(d - ((k - 1) % d)) \in Byte
  <2>1. (k - 1) % d \in 0 .. d - 1
    OBVIOUS
  <2>2. PICK b \in 1 .. d : b = d - ((k - 1) % d)
    BY <2>1
  <2>3. n - b + 1 \in 1 .. n /\ b <= n
    BY <2>2
  <2>4. Back(b) = out[n - b + 1] /\ out[n - b + 1] \in Byte
    BY <2>3 DEF Back
  <2> QED
    BY <2>2, <2>4
<1>2. Copied(d, l) \in [1 .. l -> Byte] /\ \A k \in 1 .. l : Copied(d, l)[k] = Back(d - ((k - 1) % d))
  BY <1>1 DEF Copied
<1>3. Copied(d, l) \in Seq(Byte) /\ Len(Copied(d, l)) = l
  BY <1>2
<1> QED
  BY <1>1, <1>2, <1>3

\* They are right if the operation was.
LEMMA CopyRight ==
    ASSUME NEW n \in Nat, out \in Seq(Byte), Len(out) = n, OutIsPrefix,
           NEW d \in Nat \ {0}, NEW l \in Nat, Repeats(data, n, d, l)
    PROVE  \A k \in 1 .. l : Copied(d, l)[k] = data[n + k]
<1> SUFFICES ASSUME NEW k \in 1 .. l PROVE Copied(d, l)[k] = data[n + k]
  OBVIOUS
<1>1. d <= n
  BY DEF Repeats
<1>2. Copied(d, l)[k] = out[n - (d - ((k - 1) % d)) + 1]
  BY <1>1, CopiedType
<1>3. PICK j \in 0 .. l - 1 : j = k - 1
  OBVIOUS
<1>4. j % d \in 0 .. d - 1
  OBVIOUS
<1>5. n - (d - (j % d)) + 1 \in 1 .. n
  BY <1>1, <1>4
<1>6. out[n - (d - (j % d)) + 1] = data[n - (d - (j % d)) + 1]
  BY <1>5 DEF OutIsPrefix
<1>7. data[n + (j + 1)] = data[n - (d - (j % d)) + 1]
  BY Period
<1>8. n + (j + 1) = n + k
  BY <1>3
<1> QED
  BY <1>2, <1>3, <1>6, <1>7, <1>8
-----------------------------------------------------------------------------
(* The steps that produce output or end it.                                *)

\* What the output is after a byte more.
LEMMA OneByte ==
    ASSUME IInv, OutIsPrefix, NEW n \in Nat, Len(out) = n, n < N, NEW b \in Byte,
           out' = Append(out, b), data' = data
    PROVE  /\ out' \in Seq(Byte) /\ Len(out') = n + 1
           /\ b = data[n + 1] => OutIsPrefix'
<1>1. out \in Seq(Byte)
  BY DecoderTypes
<1>2. /\ out' \in Seq(Byte) /\ Len(out') = n + 1 /\ out'[n + 1] = b
      /\ \A i \in 1 .. n : out'[i] = out[i]
  BY <1>1
<1>3. ASSUME b = data[n + 1] PROVE OutIsPrefix'
  <2>1. \A i \in 1 .. n + 1 : i \in 1 .. n \/ i = n + 1
    OBVIOUS
  <2> QED
    BY <2>1, <1>2, <1>3 DEF OutIsPrefix
<1> QED
  BY <1>2, <1>3

LEMMA LiteralStep == ASSUME IInv, DecodeLiteral PROVE IInv'
<1>1. PICK b \in Byte : Decode(b) /\ out' = Append(out, b)
  BY DEF DecodeLiteral
<1>2. /\ pc = "literal" /\ UNCHANGED <<dreps, len>> /\ pc' = "token"
      /\ dstate' = AfterLiteral(dstate) /\ Len(out) < limit
      /\ pc \in Decoding /\ pc \in Inside /\ pc' \in Inside
  BY DEF DecodeLiteral, Decoding, Inside
<1>3. PICK n \in Nat : n = Len(out) /\ n < N
  BY <1>2, DecoderTypes
<1>4. /\ \A i : Coder(i)' = Coder(i) /\ OpAt(i)' = OpAt(i)
      /\ data' = data /\ coded' = coded /\ read' = read + 1 /\ Marked' = Marked
  BY <1>1, <1>2, DecodeFrame, AllElse
<1>5. /\ dstate' \in States /\ dreps' \in Reps /\ len' \in Nat /\ IsLiteral(dstate')
  BY <1>2, DecoderTypes, StateTypes
<1>6. out' \in Seq(Byte) /\ Len(out') = n + 1 /\ n + 1 <= N
  <2>1. out \in Seq(Byte) /\ N \in Nat
    BY DecoderTypes
  <2> QED
    BY <2>1, <1>1, <1>3
<1>7. ASSUME NEW j \in 1 .. Len(coded), Within(j), b = Coming(j)
      PROVE  /\ OutIsPrefix'
             /\ \E i \in 1 .. Len(coded) + 1 : Len(out') = Coder(i).pos /\ InOp(i)'
  <2>1. b = data[n + 1] /\ OutIsPrefix /\ Coder(j).pos = n
    BY <1>2, <1>3, <1>7 DEF Coming, Within
  <2>2. OutIsPrefix'
    BY <2>1, <1>1, <1>3, <1>4, OneByte
  <2>3. /\ read = Coder(j).at + 1 /\ Same(j) /\ OpAt(j).kind = "Literal"
        /\ OpAt(j) \in AllOps /\ Coder(j).at \in Nat
    BY <1>2, <1>7, WithinTypes DEF Within, InOp, At
  <2>4. OpAt(j) # EndMarker /\ OpAt(j).len = 1 /\ Width(OpAt(j)) = 2
    BY <2>3, OpKinds, WidthType
  <2>5. /\ j + 1 \in 1 .. Len(coded) + 1
        /\ ~(j + 1 = Len(coded) + 1 /\ Marked)
        /\ Coder(j + 1).pos = n + 1 /\ Coder(j + 1).state = AfterLiteral(dstate)
        /\ Coder(j + 1).reps = dreps /\ Coder(j + 1).at = Coder(j).at + 2
    BY <2>1, <2>3, <2>4, Advance DEF IInv, Emitted, Same
  <2>6. read' = Coder(j + 1).at
    BY <2>3, <2>5, <1>4
  <2>7. (j + 1)' = j + 1 /\ Coder(j + 1)' = Coder(j + 1) /\ Coder(j + 1).at + 0 = Coder(j + 1).at
    BY <2>3, <2>5, <1>4
  <2>8. InOp(j + 1)'
    BY <2>5, <2>6, <2>7, <1>2, <1>4 DEF InOp, At, Same
  <2> QED
    BY <2>2, <2>5, <2>8, <1>6
<1> QED
  BY <1>1, <1>2, <1>5, <1>6, <1>7, DecodeStep

\* It ends without the output: not what became of a stream that arrived whole.
LEMMA EndedBadly ==
    ASSUME IInv, pc # "encoding", pc' \in {"corrupt", "eof"}, ~Whole,
           UNCHANGED <<data, form, encoder, stream, dstate, dreps, len, out>>,
           read' \in Nat, where' \in {"inside", "end", "past"}
    PROVE  IInv'
<1>1. /\ EncoderTypeOK' /\ Encoded' /\ UNCHANGED <<wire, size, good, tail>>
      /\ N' = N /\ Whole' = Whole /\ DecoderTypeOK
  BY AllElse
<1>2. DecoderTypeOK'
  BY <1>1 DEF DecoderTypeOK, Results
<1>3. Started' /\ InSync' /\ Arrived'
  BY <1>1 DEF Started, InSync, Arrived, Inside, Decoding
<1> QED
  BY <1>1, <1>2, <1>3 DEF IInv, DecoderInv

\* Where a whole stream is: the operation being decoded.
LEMMA WholeWithin ==
    ASSUME IInv, Whole, pc \in Inside, pc # "token"
    PROVE  \E j \in 1 .. Len(coded) : Within(j)
<1>1. read <= good
  BY DEF IInv, DecoderInv, Arrived, Whole, Inside, Decoding
<1> QED
  BY <1>1, SomewhereWithin

LEMMA WholeLimit == ASSUME IInv, Whole PROVE limit = N
  BY DecoderTypes DEF Whole, Stated, limit, KnownSize, Unknown

LEMMA LiteralTooFarStep == ASSUME IInv, LiteralTooFar PROVE IInv'
<1>1. /\ pc = "literal" /\ Len(out) >= limit /\ pc' = "corrupt"
      /\ UNCHANGED <<data, form, encoder, stream, dstate, dreps, len, read, where, out>>
      /\ pc \in Inside
  BY DEF LiteralTooFar, NoDecode, Inside, Decoding
<1>2. ~Whole
  <2> SUFFICES ASSUME Whole PROVE FALSE
    OBVIOUS
  <2>1. PICK j \in 1 .. Len(coded) : Within(j)
    BY <1>1, WholeWithin
  <2>2. OpAt(j).kind = "Literal" /\ OpAt(j) \in AllOps /\ Len(out) = Coder(j).pos
    BY <2>1, <1>1, WithinTypes DEF Within, InOp
  <2>3. Coder(j).pos < N
    BY <2>2, OpKinds, OnWire DEF IInv
  <2>4. limit = N /\ N \in Nat /\ Len(out) \in Nat
    BY WholeLimit, DecoderTypes
  <2> QED
    BY <2>2, <2>3, <2>4, <1>1
<1>3. read' \in Nat /\ where' \in {"inside", "end", "past"}
  BY <1>1 DEF IInv, DecoderInv, DecoderTypeOK
<1> QED
  BY <1>1, <1>2, <1>3, EndedBadly

LEMMA OverrunStep == ASSUME IInv, Overrun PROVE IInv'
<1>1. /\ pc = "token" /\ where = "past" /\ pc' = "eof"
      /\ UNCHANGED <<data, form, encoder, stream, dstate, dreps, len, read, where, out>>
  BY DEF Overrun, NoDecode
<1>2. ~Whole
  BY <1>1 DEF IInv, DecoderInv, Arrived
<1>3. read' \in Nat /\ where' \in {"inside", "end", "past"}
  BY <1>1 DEF IInv, DecoderInv, DecoderTypeOK
<1> QED
  BY <1>1, <1>2, <1>3, EndedBadly

\* A match about to be copied, in a stream read as it was coded.
LEMMA CopyFits ==
    ASSUME IInv, pc = "copy", NEW j \in 1 .. Len(coded), Within(j)
    PROVE  /\ Repeats(data, Len(out), dreps[1] + 1, len) /\ Len(out) + len <= N
           /\ dreps[1] + 1 <= Len(out)
<1>1. PICK c \in Coders, op \in AllOps : c = Coder(j) /\ op = OpAt(j)
  BY WithinTypes
<1>2. /\ op # EndMarker /\ op.kind \in {"Rep", "Match"} /\ len = op.len
      /\ dreps = Coder(j + 1).reps /\ Len(out) = c.pos
  BY <1>1 DEF Within, InOp
<1>3. dreps = Emitted(c, op).reps /\ Describes(data, c.pos, c.reps, op)
  BY <1>1, <1>2, OnWire DEF IInv, Leaves
<1>4. /\ Repeats(data, c.pos, dreps[1] + 1, len) /\ c.pos + op.len <= N
  BY <1>2, <1>3, OpFits, DecoderTypes
<1> QED
  BY <1>2, <1>4 DEF Repeats

LEMMA RejectMatchStep == ASSUME IInv, RejectMatch PROVE IInv'
<1>1. /\ pc = "copy" /\ BadMatch /\ pc' = "corrupt"
      /\ UNCHANGED <<data, form, encoder, stream, dstate, dreps, len, read, where, out>>
      /\ pc \in Inside
  BY DEF RejectMatch, NoDecode, Inside
<1>2. ~Whole
  <2> SUFFICES ASSUME Whole PROVE FALSE
    OBVIOUS
  <2>1. PICK j \in 1 .. Len(coded) : Within(j)
    BY <1>1, WholeWithin
  <2>2. Len(out) + len <= N /\ dreps[1] + 1 <= Len(out)
    BY <2>1, <1>1, CopyFits
  <2>3. limit = N /\ N \in Nat /\ Len(out) \in Nat /\ len \in Nat /\ dreps[1] \in Nat
    BY WholeLimit, DecoderTypes
  <2> QED
    BY <2>2, <2>3, <1>1 DEF BadMatch
<1>3. read' \in Nat /\ where' \in {"inside", "end", "past"}
  BY <1>1 DEF IInv, DecoderInv, DecoderTypeOK
<1> QED
  BY <1>1, <1>2, <1>3, EndedBadly

LEMMA CopyMatchStep == ASSUME IInv, CopyMatch PROVE IInv'
<1>1. /\ pc = "copy" /\ ~BadMatch /\ pc' = "token" /\ out' = out \o Copied(dreps[1] + 1, len)
      /\ UNCHANGED <<data, form, encoder, stream, dstate, dreps, len, read, where>>
      /\ pc \in Inside /\ pc # "encoding"
  BY DEF CopyMatch, NoDecode, Inside
<1>2. /\ EncoderTypeOK' /\ Encoded' /\ UNCHANGED <<data, wire, coded, size, good, tail>>
      /\ N' = N /\ Whole' = Whole /\ DecoderTypeOK /\ Started /\ Arrived /\ N \in Nat
      /\ \A j : Coder(j)' = Coder(j) /\ OpAt(j)' = OpAt(j)
      /\ Marked' = Marked
  BY <1>1, AllElse
<1>3. PICK n \in Nat, l \in Nat, d \in Nat \ {0} :
        /\ n = Len(out) /\ l = len /\ d = dreps[1] + 1 /\ d <= n /\ n + l <= N
  <2>1. /\ limit \in Nat /\ limit <= N /\ Len(out) \in Nat /\ len \in Nat /\ dreps[1] \in Nat
    BY <1>1, DecoderTypes
  <2>2. dreps[1] + 1 \in Nat \ {0} /\ dreps[1] + 1 <= Len(out) /\ Len(out) + len <= N
    BY <2>1, <1>1, <1>2 DEF BadMatch
  <2> QED
    BY <2>1, <2>2
<1>4. PICK s \in Seq(Byte) : s = Copied(d, l) /\ Len(s) = l
  BY <1>2, <1>3, CopiedType DEF DecoderTypeOK
<1>5. /\ out' \in Seq(Byte) /\ Len(out') = n + l
      /\ \A i \in 1 .. n : out'[i] = out[i]
      /\ \A k \in 1 .. l : out'[n + k] = s[k]
  <2>1. out \in Seq(Byte) /\ out' = out \o s
    BY <1>1, <1>2, <1>3, <1>4 DEF DecoderTypeOK
  <2>2. /\ out \o s \in Seq(Byte) /\ Len(out \o s) = n + l
        /\ \A i \in 1 .. n + l : (out \o s)[i] = IF i <= n THEN out[i] ELSE s[i - n]
    <3>1. /\ out \o s \in Seq(Byte) /\ Len(out \o s) = Len(out) + Len(s)
          /\ \A i \in 1 .. Len(out) + Len(s) :
                (out \o s)[i] = IF i <= Len(out) THEN out[i] ELSE s[i - Len(out)]
      BY <2>1, ConcatProperties
    <3> QED
      BY <3>1, <1>3, <1>4
  <2>3. \A i \in 1 .. n : i \in 1 .. n + l /\ i <= n
    OBVIOUS
  <2>4. \A k \in 1 .. l : n + k \in 1 .. n + l /\ ~(n + k <= n) /\ (n + k) - n = k
    OBVIOUS
  <2> QED
    BY <2>1, <2>2, <2>3, <2>4
<1>6. DecoderTypeOK'
  BY <1>1, <1>2, <1>3, <1>5 DEF DecoderTypeOK, Inside, Decoding
<1>7. Started'
  <2>1. size \in {Unknown} \cup 0 .. N
    BY <1>1, <1>2 DEF Started
  <2>2. dreps[1] < n + l
    <3>1. dreps[1] \in Nat
      BY DecoderTypes
    <3> QED
      BY <3>1, <1>3
  <2> QED
    BY <2>1, <2>2, <1>1, <1>2, <1>5 DEF Started
<1>8. InSync'
  <2> SUFFICES ASSUME read <= good
               PROVE  /\ OutIsPrefix'
                      /\ \E i \in 1 .. Len(coded) + 1 : Len(out') = Coder(i).pos /\ InOp(i)'
    BY <1>1, <1>2 DEF InSync
  <2>1. PICK j \in 1 .. Len(coded) : Within(j)
    BY <1>1, SomewhereWithin
  <2>2. Repeats(data, n, d, l) /\ OutIsPrefix
    BY <2>1, <1>1, <1>3, CopyFits, WithinTypes
  <2>3. \A k \in 1 .. l : s[k] = data[n + k]
    <3>1. out \in Seq(Byte) /\ Len(out) = n
      BY <1>2, <1>3 DEF DecoderTypeOK
    <3>2. \A k \in 1 .. l : Copied(d, l)[k] = data[n + k]
      BY <2>2, <3>1, CopyRight
    <3> QED
      BY <3>2, <1>4
  <2>4. OutIsPrefix'
    <3> SUFFICES ASSUME NEW i \in 1 .. n + l PROVE out'[i] = data[i]
      BY <1>2, <1>5 DEF OutIsPrefix
    <3>1. CASE i <= n
      BY <3>1, <2>2, <1>3, <1>5 DEF OutIsPrefix
    <3>2. CASE i > n
      <4>1. PICK k \in 1 .. l : i = n + k
        <5>1. i - n \in 1 .. l /\ i = n + (i - n)
          BY <3>2
        <5> QED
          BY <5>1
      <4> QED
        BY <4>1, <2>3, <1>5
    <3> QED
      BY <3>1, <3>2
  <2>5. /\ OpAt(j) # EndMarker /\ len = OpAt(j).len /\ read = Coder(j).at + Width(OpAt(j))
        /\ dstate = Coder(j + 1).state /\ dreps = Coder(j + 1).reps /\ Len(out) = Coder(j).pos
    BY <2>1, <1>1 DEF Within, InOp, At
  <2>6. /\ j + 1 \in 1 .. Len(coded) + 1
        /\ ~(j + 1 = Len(coded) + 1 /\ Marked)
        /\ Coder(j + 1).pos = n + l /\ Coder(j + 1).at = read
    BY <2>5, <1>3, Advance DEF IInv
  <2>7. (j + 1)' = j + 1 /\ Coder(j + 1)' = Coder(j + 1) /\ Coder(j + 1).at + 0 = Coder(j + 1).at
    BY <2>6, <1>2 DEF DecoderTypeOK
  <2>8. InOp(j + 1)'
    BY <2>5, <2>6, <2>7, <1>1, <1>2 DEF InOp, At, Same
  <2> QED
    BY <2>4, <2>6, <2>8, <1>5
<1>9. Arrived'
  BY <1>1, <1>2 DEF Arrived
<1> QED
  BY <1>2, <1>6, <1>7, <1>8, <1>9 DEF IInv, DecoderInv

\* A byte dist back, when there is one.
LEMMA BackType ==
    ASSUME NEW n \in Nat, out \in Seq(Byte), Len(out) = n, NEW d \in Nat \ {0}, d <= n
    PROVE  /\ Back(d) \in Byte /\ Back(d) = out[n - d + 1] /\ n - d + 1 \in 1 .. n
           /\ OutIsPrefix => Back(d) = data[n - d + 1]
<1>1. n - d + 1 \in 1 .. n
  OBVIOUS
<1> QED
  BY <1>1 DEF Back, OutIsPrefix

\* The distance of a short repeat that describes the input.
LEMMA ShortRepFits ==
    ASSUME IInv, pc = "is_rep0_long", NEW j \in 1 .. Len(coded), Within(j),
           OpAt(j).kind = "ShortRep"
    PROVE  /\ dreps[1] < Len(out) /\ Len(out) < N
           /\ data[Len(out) + 1] = data[Len(out) - (dreps[1] + 1) + 1]
<1>1. PICK c \in Coders, op \in AllOps : c = Coder(j) /\ op = OpAt(j)
  BY WithinTypes
<1>2. op # EndMarker /\ dreps = c.reps /\ Len(out) = c.pos
  BY <1>1, OpKinds DEF Within, InOp, Same
<1>3. Repeats(data, c.pos, c.reps[1] + 1, 1) /\ c.pos < N
  BY <1>1, <1>2, OnWire DEF IInv, Describes
<1>4. /\ Len(out) \in Nat /\ dreps[1] \in Nat /\ dreps[1] + 1 <= Len(out)
      /\ \A k \in 1 .. 1 : data[Len(out) + k] = data[Len(out) - (dreps[1] + 1) + k]
  BY <1>2, <1>3, DecoderTypes DEF Repeats
<1> QED
  BY <1>2, <1>3, <1>4

LEMMA Rep0LongStep == ASSUME IInv, DecodeRep0Long PROVE IInv'
<1>1. PICK bit \in 0 .. 1 :
        /\ Decode(bit)
        /\ IF bit = 1
           THEN pc' = "rep_len" /\ UNCHANGED <<dstate, out>>
           ELSE IF BadShortRep
           THEN pc' = "corrupt" /\ UNCHANGED <<dstate, out>>
           ELSE /\ pc' = "token"
                /\ dstate' = AfterShortRep(dstate)
                /\ out' = Append(out, Back(dreps[1] + 1))
  BY DEF DecodeRep0Long
<1>2. /\ pc = "is_rep0_long" /\ UNCHANGED <<dreps, len>>
      /\ pc \in Decoding /\ pc \in Inside
  BY DEF DecodeRep0Long, Decoding, Inside
<1>3. /\ dstate \in States /\ dreps \in Reps /\ len \in Nat /\ out \in Seq(Byte)
      /\ Len(out) <= N /\ Len(out) \in Nat /\ N \in Nat /\ dreps[1] \in Nat
      /\ limit \in Nat /\ limit <= N
  BY <1>2, DecoderTypes
<1>4. /\ \A i : Coder(i)' = Coder(i) /\ OpAt(i)' = OpAt(i)
      /\ data' = data /\ coded' = coded /\ read' = read + 1 /\ Marked' = Marked
  BY <1>1, <1>2, DecodeFrame, AllElse
<1>5. ASSUME NEW j \in 1 .. Len(coded), Within(j), bit = Coming(j)
      PROVE  /\ bit = IF OpAt(j).kind = "ShortRep" THEN 0 ELSE 1
             /\ read = Coder(j).at + 3 /\ Coder(j).at \in Nat /\ Same(j) /\ j <= Len(coded)
             /\ OpAt(j).kind \in {"ShortRep", "Rep"} /\ OpAt(j).index = 0 /\ OpAt(j) \in AllOps
  BY <1>2, <1>5, WithinTypes DEF Coming, Within, InOp, At
<1>6. CASE bit = 1
  <2>1. pc' = "rep_len" /\ UNCHANGED <<dstate, out>> /\ pc' \in Inside
    BY <1>1, <1>6 DEF Inside, Decoding
  <2>2. ASSUME NEW j \in 1 .. Len(coded), Within(j), bit = Coming(j)
        PROVE  /\ OutIsPrefix'
               /\ \E i \in 1 .. Len(coded) + 1 : Len(out') = Coder(i).pos /\ InOp(i)'
    <3>1. /\ OpAt(j).kind = "Rep" /\ OpAt(j).index = 0 /\ OpAt(j) \in AllOps
          /\ read = Coder(j).at + 3 /\ Coder(j).at \in Nat /\ Same(j)
      BY <1>5, <1>6, <2>2
    <3>2. Width(OpAt(j)) = 5
      BY <3>1, WidthType
    <3>3. read' = Coder(j).at + (Width(OpAt(j)) - 1)
      BY <3>1, <3>2, <1>4
    <3>4. dreps = MovedToFront(Coder(j).reps, OpAt(j).index)
      BY <3>1, <1>3, RepsType DEF Same
    <3>5. InOp(j)'
      BY <3>1, <3>3, <3>4, <2>1, <1>2, <1>4 DEF InOp, At, Same
    <3> QED
      BY <3>5, <2>1, <2>2, <1>4, WithinTypes DEF OutIsPrefix
  <2> QED
    BY <1>1, <1>2, <1>3, <2>1, <2>2, DecodeStep
<1>7. CASE bit = 0 /\ BadShortRep
  <2>1. pc' = "corrupt" /\ UNCHANGED <<dstate, out>>
    BY <1>1, <1>7
  <2>2. /\ read \in Nat /\ read' \in Nat /\ where' \in {"inside", "end", "past"}
        /\ UNCHANGED <<data, form, encoder, stream>> /\ pc # "encoding"
        /\ Whole => \E j \in 1 .. Len(coded) : Within(j) /\ bit = Coming(j)
    BY <1>1, <1>2, DecodeFrame
  <2>3. ~Whole
    <3> SUFFICES ASSUME Whole PROVE FALSE
      OBVIOUS
    <3>1. PICK j \in 1 .. Len(coded) : Within(j) /\ bit = Coming(j)
      BY <2>2
    <3>2. OpAt(j).kind = "ShortRep"
      <4>1. bit = IF OpAt(j).kind = "ShortRep" THEN 0 ELSE 1
        BY <3>1, <1>5
      <4> QED
        BY <4>1, <1>7
    <3>3. dreps[1] < Len(out) /\ Len(out) < N
      BY <3>1, <3>2, <1>2, ShortRepFits
    <3>4. limit = N
      BY WholeLimit
    <3> QED
      BY <3>3, <3>4, <1>3, <1>7 DEF BadShortRep
  <2> QED
    BY <1>2, <2>1, <2>2, <2>3, EndedBadly
<1>8. CASE bit = 0 /\ ~BadShortRep
  <2>1. /\ pc' = "token" /\ dstate' = AfterShortRep(dstate) /\ pc' \in Inside
        /\ out' = Append(out, Back(dreps[1] + 1))
    BY <1>1, <1>8 DEF Inside, Decoding
  <2>2. PICK n \in Nat, d \in Nat \ {0} : n = Len(out) /\ d = dreps[1] + 1 /\ d <= n /\ n < N
    <3>1. dreps[1] + 1 \in Nat \ {0} /\ dreps[1] + 1 <= Len(out) /\ Len(out) < N
      BY <1>3, <1>8 DEF BadShortRep
    <3> QED
      BY <3>1, <1>3
  <2>3. PICK b \in Byte : b = Back(dreps[1] + 1) /\ (OutIsPrefix => b = data[n - d + 1])
    <3>1. Back(d) \in Byte /\ (OutIsPrefix => Back(d) = data[n - d + 1])
      BY <2>2, <1>3, BackType
    <3> QED
      BY <3>1, <2>2
  <2>4. out' = Append(out, b) /\ out' \in Seq(Byte) /\ Len(out') = n + 1 /\ n + 1 <= N
    <3>1. out' = Append(out, b)
      BY <2>1, <2>3
    <3> QED
      BY <3>1, <2>2, <1>3
  <2>5. dstate' \in States /\ dreps[1] < n + 1
    BY <2>1, <2>2, <1>3, StateTypes
  <2>6. ASSUME NEW j \in 1 .. Len(coded), Within(j), bit = Coming(j)
        PROVE  /\ OutIsPrefix'
               /\ \E i \in 1 .. Len(coded) + 1 : Len(out') = Coder(i).pos /\ InOp(i)'
    <3>1. /\ OpAt(j).kind = "ShortRep" /\ OpAt(j) \in AllOps
          /\ read = Coder(j).at + 3 /\ Coder(j).at \in Nat /\ Same(j)
      BY <1>5, <1>8, <2>6
    <3>2. OpAt(j) # EndMarker /\ OpAt(j).len = 1 /\ Width(OpAt(j)) = 4
      BY <3>1, OpKinds, WidthType
    <3>3. data[n + 1] = data[n - d + 1] /\ OutIsPrefix /\ Coder(j).pos = n
      BY <3>1, <2>2, <2>6, <1>2, ShortRepFits, WithinTypes
    <3>4. OutIsPrefix'
      BY <3>3, <2>2, <2>3, <2>4, <1>4, OneByte
    <3>5. /\ j + 1 \in 1 .. Len(coded) + 1
          /\ ~(j + 1 = Len(coded) + 1 /\ Marked)
          /\ Coder(j + 1).pos = n + 1 /\ Coder(j + 1).state = AfterShortRep(dstate)
          /\ Coder(j + 1).reps = dreps /\ Coder(j + 1).at = Coder(j).at + 4
      BY <3>1, <3>2, <3>3, Advance DEF IInv, Emitted, Same
    <3>6. read' = Coder(j + 1).at
      BY <3>1, <3>5, <1>4
    <3>7. (j + 1)' = j + 1 /\ Coder(j + 1)' = Coder(j + 1) /\ Coder(j + 1).at + 0 = Coder(j + 1).at
      BY <3>1, <3>5, <1>4
    <3>8. InOp(j + 1)'
      BY <3>5, <3>6, <3>7, <2>1, <1>2, <1>4 DEF InOp, At, Same
    <3> QED
      BY <3>4, <3>5, <3>8, <2>4
  <2> QED
    BY <1>1, <1>2, <1>3, <2>1, <2>4, <2>5, <2>6, DecodeStep
<1>9. bit = 0 \/ bit = 1
  OBVIOUS
<1> QED
  BY <1>6, <1>7, <1>8, <1>9

LEMMA DistStep == ASSUME IInv, DecodeDist PROVE IInv'
<1>1. PICK dist \in 0 .. END_MARKER_DIST :
        /\ Decode(dist)
        /\ pc' = IF dist = END_MARKER_DIST THEN "finish" ELSE "copy"
        /\ dreps' = IF dist = END_MARKER_DIST THEN dreps ELSE NewFront(dreps, dist)
  BY DEF DecodeDist
<1>2. /\ pc = "dist" /\ UNCHANGED <<dstate, len, out>> /\ pc \in Decoding /\ pc \in Inside
      /\ dist \in Nat
  BY LimitsAssumption DEF DecodeDist, Decoding, Inside, END_MARKER_DIST
<1>3. /\ dstate \in States /\ dreps \in Reps /\ len \in Nat /\ out \in Seq(Byte)
      /\ Len(out) <= N /\ Len(out) \in Nat /\ N \in Nat
  BY DecoderTypes
<1>4. /\ \A i : Coder(i)' = Coder(i) /\ OpAt(i)' = OpAt(i)
      /\ UNCHANGED <<data, form, coded, wire, size, good, tail, state, reps>>
      /\ read' = read + 1 /\ Marked' = Marked
      /\ EncoderTypeOK' /\ Encoded' /\ N' = N /\ Whole' = Whole /\ DecoderTypeOK /\ Started
  BY <1>1, <1>2, DecodeFrame, AllElse
<1>5. ASSUME NEW j \in 1 .. Len(coded), Within(j), dist = Coming(j)
      PROVE  /\ dist = OpAt(j).dist - 1 /\ OpAt(j) \in AllOps /\ OpAt(j).kind = "Match"
             /\ read = Coder(j).at + 3 /\ Coder(j).at \in Nat /\ j <= Len(coded)
             /\ Width(OpAt(j)) = 4 /\ read' = Coder(j).at + Width(OpAt(j))
             /\ dstate = AfterMatch(Coder(j).state) /\ dreps = Coder(j).reps
             /\ len = OpAt(j).len
             /\ Len(out) = Coder(j).pos
  <2>1. /\ dist = OpAt(j).dist - 1 /\ OpAt(j) \in AllOps /\ OpAt(j).kind = "Match"
        /\ read = Coder(j).at + 3 /\ Coder(j).at \in Nat /\ j <= Len(coded)
        /\ dstate = AfterMatch(Coder(j).state) /\ dreps = Coder(j).reps
        /\ len = OpAt(j).len /\ Len(out) = Coder(j).pos
    BY <1>2, <1>5, WithinTypes DEF Coming, Within, InOp, At
  <2>2. Width(OpAt(j)) = 4
    BY <2>1, WidthType
  <2> QED
    BY <2>1, <2>2, <1>4
<1>6. CASE dist # END_MARKER_DIST
  <2>1. /\ pc' = "copy" /\ dreps' = NewFront(dreps, dist) /\ pc' \in Inside /\ dreps' \in Reps
    BY <1>1, <1>2, <1>3, <1>6, RepsType DEF Inside
  <2>2. ASSUME NEW j \in 1 .. Len(coded), Within(j), dist = Coming(j)
        PROVE  /\ OutIsPrefix'
               /\ \E i \in 1 .. Len(coded) + 1 : Len(out') = Coder(i).pos /\ InOp(i)'
    <3>1. OpAt(j) # EndMarker
      <4>1. OpAt(j).dist - 1 # END_MARKER_DIST /\ OpAt(j).dist \in Nat /\ END_MARKER_DIST \in Nat
        BY <1>5, <1>6, <2>2, OpKinds, LimitsAssumption DEF END_MARKER_DIST
      <4>2. OpAt(j).dist # END_MARKER_DIST + 1
        BY <4>1
      <4> QED
        BY <4>2, <1>5, <2>2, OpKinds
    <3>2. /\ Coder(j + 1).state = dstate /\ Coder(j + 1).reps = NewFront(dreps, dist)
      BY <3>1, <1>5, <2>2, Advance DEF IInv, Emitted
    <3>3. (j + 1)' = j + 1 /\ Coder(j + 1)' = Coder(j + 1)
      BY <1>4
    <3>4. InOp(j)'
      BY <3>1, <3>2, <3>3, <2>1, <2>2, <1>2, <1>4, <1>5 DEF InOp, At, Same
    <3> QED
      BY <3>4, <2>2, <1>2, <1>4, WithinTypes DEF OutIsPrefix
  <2> QED
    BY <1>1, <1>2, <1>3, <2>1, <2>2, DecodeStep
<1>7. CASE dist = END_MARKER_DIST
  <2>1. pc' = "finish" /\ dreps' = dreps
    BY <1>1, <1>7
  <2>2. /\ read \in Nat /\ read' \in Nat /\ where' \in {"inside", "end", "past"}
        /\ read' <= good => \E j \in 1 .. Len(coded) : Within(j) /\ dist = Coming(j)
        /\ Whole =>
                /\ read' <= good /\ read' <= Len(wire)
                /\ where' = IF read' >= Len(wire) - tail THEN "end" ELSE "inside"
    BY <1>1, <1>2, DecodeFrame
  <2>3. DecoderTypeOK'
    BY <2>1, <2>2, <1>2, <1>4 DEF DecoderTypeOK
  <2>4. Started'
    <3>1. size \in {Unknown} \cup 0 .. N
      BY <1>2, <1>4 DEF Started
    <3> QED
      BY <3>1, <2>1, <1>4 DEF Started
  <2>5. InSync'
    BY <2>1 DEF InSync, Inside, Decoding
  <2>6. ASSUME Whole
        PROVE  Len(out) = N /\ OutIsPrefix /\ read' = Len(wire) /\ form # "size"
    <3>1. PICK j \in 1 .. Len(coded) : Within(j) /\ dist = Coming(j)
      BY <2>2, <2>6
    <3>2. OpAt(j).dist \in Nat /\ OpAt(j).dist - 1 = END_MARKER_DIST /\ MaxDist \in Nat
      BY <3>1, <1>5, <1>7, OpKinds, LimitsAssumption
    <3>3. OpAt(j).dist \notin 1 .. MaxDist + 1
      BY <3>2 DEF END_MARKER_DIST
    <3>4. OpAt(j) = EndMarker
      BY <3>1, <3>3, <1>5, OpKinds
    <3>5. /\ Coder(j).pos = N /\ j = Len(coded) /\ form # "size"
          /\ Coder(j + 1).at = Coder(j).at + Width(OpAt(j))
      BY <3>4, OnWire DEF IInv
    <3>6. Coder(j + 1).at = Len(wire)
      BY <3>5, CoderType DEF Here, IInv
    <3> QED
      BY <3>1, <3>5, <3>6, <1>5, WithinTypes
  <2>7. ASSUME Whole PROVE where' = "end"
    <3>1. tail \in Nat /\ Len(wire) \in Nat
      BY <1>4, CoderType DEF DecoderTypeOK, IInv
    <3>2. read' >= Len(wire) - tail
      BY <3>1, <2>6, <2>7
    <3> QED
      BY <3>2, <2>2, <2>7
  <2>8. Arrived'
    <3> SUFFICES ASSUME Whole
                 PROVE  /\ read' <= Len(wire)
                        /\ where' = IF read' >= Len(wire) - tail THEN "end" ELSE "inside"
                        /\ Len(out') = N /\ OutIsPrefix' /\ where' = "end" /\ form # "size"
      BY <2>1, <1>4 DEF Arrived
    <3>1. OutIsPrefix'
      BY <2>6, <1>2, <1>4 DEF OutIsPrefix
    <3> QED
      BY <3>1, <2>2, <2>6, <2>7, <1>2
  <2> QED
    BY <2>3, <2>4, <2>5, <2>8, <1>4 DEF IInv, DecoderInv
<1> QED
  BY <1>6, <1>7

LEMMA BreakStep == ASSUME IInv, Break PROVE IInv'
<1>1. /\ pc = "token" /\ Complete /\ pc' = "finish"
      /\ UNCHANGED <<data, form, encoder, stream, dstate, dreps, len, read, where, out>>
      /\ pc # "encoding" /\ pc \in Inside
  BY DEF Break, NoDecode, Inside, Decoding
<1>2. /\ EncoderTypeOK' /\ Encoded' /\ N' = N /\ wire' = wire /\ Whole' = Whole
      /\ UNCHANGED <<data, form, pos, coded, state, reps, size, good, tail>>
      /\ DecoderTypeOK /\ N \in Nat /\ Started /\ Arrived /\ InSync
      /\ Len(coded) \in Nat
  BY <1>1, AllElse
<1>3. DecoderTypeOK'
  BY <1>1, <1>2 DEF DecoderTypeOK
<1>4. Started' /\ InSync'
  BY <1>1, <1>2 DEF Started, InSync, Inside, Decoding
<1>5. ASSUME Whole
      PROVE  /\ Len(out) = N /\ OutIsPrefix /\ where = "end"
             /\ form = "size" => dstate = state /\ dreps = reps
  <2>1. Len(out) = N /\ where # "inside"
    BY <1>1, <1>5, WholeLimit DEF Complete
  <2>2. /\ read <= good
        /\ where = IF read >= Len(wire) - tail THEN "end" ELSE "inside"
    BY <1>1, <1>2, <1>5 DEF Arrived, Whole
  <2>3. PICK j \in 1 .. Len(coded) + 1 : Len(out) = Coder(j).pos /\ InOp(j) /\ OutIsPrefix
    BY <2>2, <1>1, <1>2 DEF InSync
  <2>4. ASSUME form = "size" PROVE dstate = state /\ dreps = reps
    <3>1. ~(j <= Len(coded))
      <4> SUFFICES ASSUME j \in 1 .. Len(coded) PROVE FALSE
        BY <1>2
      <4>1. OpAt(j) # EndMarker => Coder(j).pos < N
        BY OnWire DEF IInv
      <4>2. OpAt(j) = EndMarker => form # "size"
        BY OnWire DEF IInv
      <4> QED
        BY <4>1, <4>2, <2>1, <2>3, <2>4, <1>2
    <3>2. Coder(j) = Here
      BY <3>1, <1>2 DEF Coder
    <3> QED
      BY <3>2, <2>3, <1>1 DEF InOp, Same, Here
  <2> QED
    BY <2>1, <2>2, <2>3, <2>4
<1>6. Arrived'
  BY <1>1, <1>2, <1>5 DEF Arrived, OutIsPrefix
<1> QED
  BY <1>2, <1>3, <1>4, <1>6 DEF IInv, DecoderInv

LEMMA FinishStep == ASSUME IInv, Finish PROVE IInv'
<1>1. /\ pc = "finish" /\ pc' = Verdict
      /\ UNCHANGED <<data, form, encoder, stream, dstate, dreps, len, read, where, out>>
      /\ pc # "encoding"
  BY DEF Finish, NoDecode
<1>2. /\ EncoderTypeOK' /\ Encoded' /\ N' = N /\ wire' = wire /\ Whole' = Whole
      /\ UNCHANGED <<data, form, pos, coded, state, reps, size, good, tail>>
      /\ DecoderTypeOK /\ N \in Nat /\ Started /\ Arrived
  BY <1>1, AllElse
<1>3. Verdict \in Results
  BY DEF Verdict, Results
<1>4. DecoderTypeOK'
  BY <1>1, <1>2, <1>3 DEF DecoderTypeOK
<1>5. pc' \notin Inside /\ pc' \notin {"encoding", "header", "finish"}
  BY <1>1, <1>3 DEF Results, Inside, Decoding
<1>6. Started' /\ InSync'
  BY <1>5 DEF Started, InSync, Inside, Decoding
<1>7. Whole => Verdict = "ok"
  <2> SUFFICES ASSUME Whole PROVE Verdict = "ok"
    OBVIOUS
  <2>1. Len(out) = N /\ where = "end"
    BY <1>1, <1>2 DEF Arrived
  <2>2. KnownSize => size = N
    BY DEF Whole, Stated, KnownSize
  <2> QED
    BY <2>1, <2>2 DEF Verdict
<1>8. Arrived'
  BY <1>1, <1>2, <1>7 DEF Arrived, OutIsPrefix
<1> QED
  BY <1>2, <1>4, <1>6, <1>8 DEF IInv, DecoderInv

LEMMA Stutter == ASSUME IInv, UNCHANGED vars PROVE IInv'
<1>1. /\ UNCHANGED <<data, form, encoder, stream, pc, dstate, dreps, len, read, where, out>>
      /\ UNCHANGED <<pos, state, reps, wire, coded, size, good, tail>>
  BY DEF vars, encoder, stream, decoder
<1>2. N' = N /\ Marked' = Marked /\ Whole' = Whole
      /\ \A j : Coder(j)' = Coder(j) /\ OpAt(j)' = OpAt(j)
  BY <1>1 DEF N, Marked, Whole, Stated, Coder, Here, OpAt
<1>3. EncoderTypeOK'
  BY <1>1, <1>2 DEF IInv, EncoderTypeOK
<1>4. Encoded'
  <2>1. \A c, op : CodedOp(c, op)' = CodedOp(c, op)
    BY <1>1, CodedOpStable
  <2>2. \A j \in 1 .. Len(coded) : Recorded(j)'
    <3> SUFFICES ASSUME NEW j \in 1 .. Len(coded) PROVE Recorded(j)'
      BY <1>1
    <3>1. Recorded(j)
      BY DEF IInv, Encoded
    <3> QED
      BY <3>1, <2>1, <1>1, <1>2 DEF Recorded, Leaves, Emitted
  <2>3. \A j : HasMatchByte(Coder(j))' <=> HasMatchByte(Coder(j))
    BY <1>2 DEF HasMatchByte
  <2> QED
    BY <2>2, <2>3, <1>1, <1>2 DEF IInv, Encoded
<1>5. DecoderTypeOK' /\ Started'
  BY <1>1, <1>2 DEF IInv, DecoderInv, DecoderTypeOK, Started
<1>6. \A j : InOp(j)' <=> InOp(j)
  <2> SUFFICES ASSUME NEW j PROVE InOp(j)' <=> InOp(j)
    OBVIOUS
  <2>1. Coder(j)' = Coder(j) /\ OpAt(j)' = OpAt(j) /\ Coder(j + 1)' = Coder(j + 1)
    BY <1>2
  <2> QED
    BY <2>1, <1>1, <1>2 DEF InOp, At, Same
<1>7. InSync'
  BY <1>1, <1>2, <1>6 DEF IInv, DecoderInv, InSync, OutIsPrefix
<1>8. Arrived'
  BY <1>1, <1>2 DEF IInv, DecoderInv, Arrived, OutIsPrefix
<1> QED
  BY <1>3, <1>4, <1>5, <1>7, <1>8 DEF IInv, DecoderInv

THEOREM StepInductive == IInv /\ [Next]_vars => IInv'
<1> SUFFICES ASSUME IInv, [Next]_vars PROVE IInv'
  OBVIOUS
<1>1. CASE Encode
  BY <1>1, EmitStep, EmitMarkerStep DEF Encode
<1>2. CASE Transport
  BY <1>2, TransportStep
<1>3. CASE DecodeToken
  BY <1>3, IsMatchStep, LiteralTooFarStep, LiteralStep, IsRepStep, LenStep, DistStep, RepG0Step,
     Rep0LongStep, RepG1Step, RepG2Step, RepLenStep, RejectMatchStep, CopyMatchStep
  DEF DecodeToken
<1>4. CASE Decompress /\ ~DecodeToken
  BY <1>4, RejectHeaderStep, ReadHeaderStep, BreakStep, OverrunStep, FinishStep DEF Decompress
<1>5. CASE UNCHANGED vars
  BY <1>5, Stutter
<1> QED
  BY <1>1, <1>2, <1>3, <1>4, <1>5 DEF Next

THEOREM Invariance == Spec => []IInv
  BY InitInductive, StepInductive, PTL DEF Spec

(***************************************************************************)
(* A literal after a match always has a match byte, on both sides and      *)
(* whatever the decoder has read: the code that indexes it never panics.   *)
(***************************************************************************)
THEOREM MatchByteAlwaysExists == Spec => []MatchByteExists
<1>1. IInv => MatchByteExists
  <2> SUFFICES ASSUME IInv PROVE MatchByteExists
    OBVIOUS
  <2>1. HasMatchByte(Here)
    BY CoderType DEF IInv, Encoded
  <2>2. ~IsLiteral(state) => reps[1] < pos
    BY <2>1 DEF HasMatchByte, Here
  <2> QED
    BY <2>2 DEF IInv, DecoderInv, Started, MatchByteExists
<1> QED
  BY <1>1, Invariance, PTL

(***************************************************************************)
(* The decoder asks for every symbol with the context it was coded with,   *)
(* whatever legal operations were coded, and ends with the encoder's state *)
(* machine and distances: its copy of them never drifts.                   *)
(***************************************************************************)
THEOREM AlwaysInStep == Spec => []InStep
<1>1. IInv => InStep
  <2> SUFFICES ASSUME IInv PROVE InStep
    OBVIOUS
  <2>1. ASSUME pc \in Decoding, read < good PROVE Asks = wire[read + 1].ctx
    <3>1. good <= Len(wire) /\ read \in Nat /\ good \in Nat /\ Len(wire) \in Nat
      BY CoderType DEF IInv, DecoderInv, DecoderTypeOK
    <3>2. read <= good /\ read < Len(wire) /\ pc \in Inside
      BY <2>1, <3>1 DEF Inside
    <3>3. PICK j \in 1 .. Len(coded) : Within(j)
      BY <3>2, SomewhereWithin
    <3> QED
      BY <3>3, <2>1, NextSymbol
  <2>2. pc = "ok" /\ Whole /\ form = "size" => dstate = state /\ dreps = reps
    BY DEF IInv, DecoderInv, Arrived
  <2> QED
    BY <2>1, <2>2 DEF InStep
<1> QED
  BY <1>1, Invariance, PTL
-----------------------------------------------------------------------------
(* The promise of Codec.                                                   *)

LEMMA RefineInit == Init => C!Init
  BY DEF Init, C!Init, Intact, Outcome, Results

\* While the decoder runs, what it wrote of a whole stream is right.
LEMMA RightSoFar ==
    IInv /\ pc \notin Results /\ Intact => OutIsPrefix
<1> SUFFICES ASSUME IInv, pc \notin Results, Intact PROVE OutIsPrefix
  OBVIOUS
<1>1. DecoderTypeOK /\ Started /\ InSync /\ Arrived
  BY DEF IInv, DecoderInv
<1>2. CASE pc \in {"encoding", "header"}
  BY <1>1, <1>2 DEF Started, OutIsPrefix
<1>3. CASE pc \in Inside
  <2>1. pc # "encoding"
    BY <1>3 DEF Inside, Decoding
  <2>2. Whole
    BY <2>1 DEF Intact
  <2>3. read <= good
    BY <1>1, <2>1, <2>2 DEF Arrived, Whole
  <2> QED
    BY <1>1, <1>3, <2>3 DEF InSync
<1>4. CASE pc = "finish"
  BY <1>1, <1>4 DEF Arrived, Intact
<1> QED
  BY <1>1, <1>2, <1>3, <1>4 DEF DecoderTypeOK

\* What each step of decompress does to the rest.
LEMMA DecompressFrame ==
    ASSUME IInv, Decompress
    PROVE  /\ UNCHANGED <<data, form, encoder, stream>>
           /\ pc # "encoding" /\ pc \notin Results /\ pc' # "encoding"
<1>1. CASE DecodeToken
  BY <1>1 DEF DecodeToken, DecodeIsMatch, LiteralTooFar, DecodeLiteral, DecodeIsRep, DecodeLen,
     DecodeDist, DecodeRepG0, DecodeRep0Long, DecodeRepG1, DecodeRepG2, DecodeRepLen,
     RejectMatch, CopyMatch, Decode, NoDecode, Results
<1>2. CASE Decompress /\ ~DecodeToken
  BY <1>2 DEF Decompress, RejectHeader, ReadHeader, Break, Overrun, Finish, Verdict, NoDecode,
     Results
<1> QED
  BY <1>1, <1>2

\* What is written stays written.
LEMMA OutGrows == ASSUME IInv, Decompress PROVE C!IsPrefix(out, out')
<1>1. PICK n \in Nat : out \in Seq(Byte) /\ n = Len(out)
  BY DecoderTypes
<1>2. ASSUME NEW b, out' = Append(out, b) PROVE C!IsPrefix(out, out')
  BY <1>1, <1>2 DEF C!IsPrefix
<1>3. CASE CopyMatch
  <2>1. ~BadMatch /\ out' = out \o Copied(dreps[1] + 1, len)
    BY <1>3 DEF CopyMatch
  <2>2. PICK d \in Nat \ {0}, l \in Nat : d = dreps[1] + 1 /\ l = len /\ d <= n
    <3>1. dreps[1] \in Nat /\ len \in Nat
      BY DecoderTypes
    <3> QED
      BY <3>1, <2>1, <1>1 DEF BadMatch
  <2>3. PICK s \in Seq(Byte) : s = Copied(d, l) /\ Len(s) = l
    BY <1>1, <2>2, CopiedType
  <2>4. out' = out \o s
    BY <2>1, <2>2, <2>3
  <2>5. Len(out') = n + l /\ \A i \in 1 .. n : out'[i] = out[i]
    <3>1. /\ Len(out \o s) = Len(out) + Len(s)
          /\ \A i \in 1 .. Len(out) + Len(s) :
                (out \o s)[i] = IF i <= Len(out) THEN out[i] ELSE s[i - Len(out)]
      BY <1>1, ConcatProperties
    <3> QED
      BY <3>1, <1>1, <2>3, <2>4
  <2> QED
    BY <1>1, <2>5 DEF C!IsPrefix
<1>4. CASE DecodeRep0Long
  <2>1. out' = out \/ \E b : out' = Append(out, b)
    BY <1>4 DEF DecodeRep0Long
  <2>2. CASE out' = out
    BY <1>1, <2>2 DEF C!IsPrefix
  <2> QED
    BY <1>2, <2>1, <2>2
<1>5. CASE DecodeLiteral
  BY <1>2, <1>5 DEF DecodeLiteral
<1>6. CASE ~(CopyMatch \/ DecodeRep0Long \/ DecodeLiteral)
  <2>1. out' = out
    BY <1>6 DEF Decompress, DecodeToken, DecodeIsMatch, LiteralTooFar, DecodeIsRep, DecodeLen,
       DecodeDist, DecodeRepG0, DecodeRepG1, DecodeRepG2, DecodeRepLen, RejectMatch,
       RejectHeader, ReadHeader, Break, Overrun, Finish, NoDecode
  <2> QED
    BY <1>1, <2>1 DEF C!IsPrefix
<1> QED
  BY <1>3, <1>4, <1>5, <1>6

\* Nothing is written by the step that ends it.
LEMMA EndWritesNothing == ASSUME Decompress, pc' \in Results PROVE out' = out
<1>1. CASE DecodeToken
  BY <1>1 DEF DecodeToken, DecodeIsMatch, LiteralTooFar, DecodeLiteral, DecodeIsRep, DecodeLen,
     DecodeDist, DecodeRepG0, DecodeRep0Long, DecodeRepG1, DecodeRepG2, DecodeRepLen,
     RejectMatch, CopyMatch, Results
<1>2. CASE Decompress /\ ~DecodeToken
  BY <1>2 DEF Decompress, RejectHeader, ReadHeader, Break, Overrun, Finish
<1> QED
  BY <1>1, <1>2

LEMMA RefineDecompress == ASSUME IInv, Decompress PROVE C!Next
<1>1. /\ UNCHANGED <<data, form, encoder, stream>>
      /\ pc # "encoding" /\ pc \notin Results /\ pc' # "encoding"
  BY DecompressFrame
<1>2. IInv' /\ IInv
  BY StepInductive DEF Next
<1>3. /\ data' = data /\ N' = N /\ Whole' = Whole /\ N \in Nat /\ data \in Inputs
      /\ data \in Seq(Byte)
  BY <1>1, AllElse
<1>4. Outcome = "running"
  BY <1>1 DEF Outcome, Results
<1>5. Intact' = Intact /\ (Intact <=> Whole) /\ Intact \in BOOLEAN
  BY <1>1, <1>3 DEF Intact
<1>6. out' \in Seq(Byte) /\ Len(out') <= N /\ DecoderTypeOK' /\ Arrived'
  BY <1>2, <1>3 DEF IInv, DecoderInv, DecoderTypeOK
<1>7. CASE pc' \notin Results
  <2>1. Outcome' = "running"
    BY <1>7 DEF Outcome, Results
  <2>2. C!IsPrefix(out, out')
    BY OutGrows
  <2>3. Intact' => C!IsPrefix(out', data)
    <3>1. Intact' => OutIsPrefix'
      <4>1. (IInv /\ pc \notin Results /\ Intact => OutIsPrefix)'
        BY RightSoFar, PTL
      <4> QED
        BY <4>1, <1>2, <1>7 DEF Results
    <3> QED
      BY <3>1, <1>3, <1>6 DEF OutIsPrefix, C!IsPrefix, N
  <2>4. C!Produce
    BY <1>3, <1>4, <1>5, <1>6, <2>1, <2>2, <2>3 DEF C!Produce, N
  <2> QED
    BY <2>4 DEF C!Next
<1>8. CASE pc' = "ok"
  <2>1. Outcome' = "ok" /\ out' = out
    BY <1>8, EndWritesNothing DEF Outcome, Results
  <2>2. Whole => Len(out) = N
    BY <1>1, <1>3, <1>6, <1>8, <2>1 DEF Arrived
  <2>3. C!Succeed
    BY <1>3, <1>4, <1>5, <2>1, <2>2 DEF C!Succeed, N
  <2> QED
    BY <2>3 DEF C!Next
<1>9. CASE pc' \in {"eof", "corrupt"}
  <2>1. Outcome' = "error" /\ out' = out
    BY <1>9, EndWritesNothing DEF Outcome, Results
  <2>2. Intact' = FALSE
    BY <1>3, <1>5, <1>6, <1>9 DEF Arrived
  <2>3. C!Fail
    BY <1>3, <1>4, <2>1, <2>2 DEF C!Fail
  <2> QED
    BY <2>3 DEF C!Next
<1> QED
  BY <1>7, <1>8, <1>9 DEF Results

\* A stream that arrives damaged, or whole.
LEMMA RefineTransport == ASSUME IInv, Transport PROVE C!Produce
<1>1. /\ pc = "encoding" /\ pc' = "header" /\ UNCHANGED <<data, form, encoder, out>>
      /\ DecoderTypeOK /\ Started /\ EncoderTypeOK
  BY DEF Transport, IInv, DecoderInv
<1>2. out = <<>> /\ N \in Nat
  BY <1>1, InputType DEF Started, EncoderTypeOK
<1>3. Outcome = "running" /\ Outcome' = "running"
  BY <1>1 DEF Outcome, Results
<1>4. Intact = TRUE /\ Intact' \in BOOLEAN
  BY <1>1 DEF Intact
<1>5. /\ out' \in Seq(Byte) /\ Len(out') <= N
      /\ C!IsPrefix(out, out') /\ C!IsPrefix(out', data)
  BY <1>1, <1>2 DEF C!IsPrefix, N
<1> QED
  BY <1>1, <1>3, <1>4, <1>5, Zenon DEF C!Produce, N

\* Encoding is no concern of the promise.
LEMMA RefineStutter == ASSUME Encode \/ UNCHANGED vars PROVE UNCHANGED C!vars
<1>1. data' = data /\ out' = out
  BY DEF Encode, Emit, EmitMarker, vars, decoder
<1>2. CASE Encode
  <2>1. pc = "encoding" /\ pc' = pc
    BY <1>2 DEF Encode, Emit, EmitMarker, decoder
  <2>2. Outcome' = Outcome /\ Intact' = Intact
    BY <2>1 DEF Outcome, Intact
  <2> QED
    BY <1>1, <2>2 DEF C!vars
<1>3. CASE UNCHANGED vars
  <2>1. UNCHANGED <<pc, data, form, size, good, wire>>
    BY <1>3 DEF vars, encoder, stream, decoder
  <2>2. Outcome' = Outcome /\ Intact' = Intact
    BY <2>1 DEF Outcome, Intact, Whole, Stated, N
  <2> QED
    BY <1>1, <2>2 DEF C!vars
<1> QED
  BY <1>2, <1>3

(***************************************************************************)
(* LZMA implements the promise of trait Codec, however a parser divides    *)
(* the input into operations and however the stream ends: one that arrives *)
(* whole decodes to the input, and the output never outgrows expected_len. *)
(***************************************************************************)
THEOREM LzmaImplementsCodec == Spec => ImplementsCodec
<1>1. IInv /\ [Next]_vars => [C!Next]_C!vars
  BY RefineDecompress, RefineTransport, RefineStutter DEF Next, C!Next
<1> QED
  BY <1>1, RefineInit, Invariance, PTL DEF Spec, ImplementsCodec, C!Spec
=============================================================================
