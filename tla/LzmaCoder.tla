------------------------------ MODULE LzmaCoder ------------------------------
(***************************************************************************)
(* The token coder of LZMA, crates/codecs/src/lzma: Encoder::emit codes    *)
(* the operations a parser chose, decompress decodes them.  Each predicts  *)
(* every symbol from what came before it, so each keeps the state machine, *)
(* the four repeat distances and the position, and the stream only makes   *)
(* sense to a decoder whose copies never differ from the encoder's.        *)
(*                                                                         *)
(* The range coder between them is taken for what RangeCoder shows: a      *)
(* value is read back if the decoder uses the same probability for it, the *)
(* context here, and anything otherwise.  A literal, a length and a        *)
(* distance are one symbol each.  Any legal choice of operations is        *)
(* encoded: the parsers choose among these.                                *)
(***************************************************************************)
EXTENDS Integers, SequencesExt, LzmaState

CONSTANTS
    Byte,           \* the byte values
    Inputs,         \* the inputs
    MATCH_MIN_LEN,
    MATCH_MAX_LEN,
    MaxDist,        \* the largest distance the format can express, 0-based
    PosStates,      \* position states of a token: 2^pb
    LitPositions,   \* position states of a literal: 2^lp
    HighBits,       \* the lc high bits of a byte, as a function
    Forms,          \* how a stream may end: see Form
    Tails,          \* bound: how many of the last symbols may need no more bytes
    Damageable      \* the inputs whose stream may arrive damaged

ASSUME LimitsAssumption ==
    /\ Inputs \subseteq Seq(Byte) /\ 0 \in Byte
    /\ MATCH_MIN_LEN \in Nat \ {0} /\ MATCH_MAX_LEN \in Nat
    /\ MATCH_MAX_LEN >= MATCH_MIN_LEN
    /\ MaxDist \in Nat
    /\ PosStates \in Nat \ {0} /\ LitPositions \in Nat \ {0}
    /\ HighBits \in [Byte -> Nat]
    /\ Tails \subseteq Nat /\ Damageable \subseteq Inputs

\* The size is in the header (compress); the size is, and an end marker
\* follows, or only the marker (other encoders).
Form == {"size", "size+marker", "marker"}

ASSUME FormAssumption == Forms \subseteq Form

END_MARKER_DIST == MaxDist + 1
LEN_TO_POS_STATES == 4

VARIABLES
    data, form,
    \* Encoder
    pos,        \* bytes coded
    state, reps,
    wire,       \* the symbols coded, each with its context
    coded,      \* history: the operations, each with the coder before it
    \* the stream on its way
    size,       \* the size in the header as it arrives, or Unknown or Bad
    good,       \* symbols that arrive as coded
    tail,       \* the last symbols, read when no byte is left to read
    \* decompress
    pc,         \* what it decodes next, or its result
    dstate, dreps,
    len,        \* length of the match being decoded
    read,       \* symbols read
    where,      \* rc.position() against the end of the input
    out

encoder == <<pos, state, reps, wire, coded>>
stream  == <<size, good, tail>>
decoder == <<pc, dstate, dreps, len, read, where, out>>
vars == <<data, form, encoder, stream, decoder>>

N == Len(data)

\* A header without a size; one that was cut or is not that of a stream.
Unknown == -1
Bad == -2

Init ==
    /\ data \in Inputs /\ form \in Forms
    /\ pos = 0 /\ state = 0 /\ reps = <<0, 0, 0, 0>>
    /\ wire = <<>> /\ coded = <<>>
    /\ size = Unknown /\ good = 0 /\ tail = 0
    /\ pc = "encoding"
    /\ dstate = 0 /\ dreps = <<0, 0, 0, 0>> /\ len = 0
    /\ read = 0 /\ where = "inside" /\ out = <<>>

-----------------------------------------------------------------------------
(* The symbols and their contexts.                                         *)

PosState(p) == p % PosStates

Ctx(model, a, b) == <<model, a, b>>
Symbol(ctx, v) == [ctx |-> ctx, value |-> v]

\* A literal at p: the byte before it, and after a match the match byte.
NoMatchByte == -1
LiteralCtx(p, prev, matchByte) ==
    Ctx("literal", <<p % LitPositions, HighBits[prev]>>, matchByte)

\* The models of a distance depend on the length.
LenState(l) ==
    IF l - MATCH_MIN_LEN < LEN_TO_POS_STATES THEN l - MATCH_MIN_LEN ELSE LEN_TO_POS_STATES - 1

-----------------------------------------------------------------------------
(* Encoder::emit.  A coder c is a position, a state and repeat distances,  *)
(* and the symbols before them.                                            *)

Here == [at |-> Len(wire), pos |-> pos, state |-> state, reps |-> reps]

IsMatch(c, v) == Symbol(Ctx("is_match", c.state, PosState(c.pos)), v)

EncoderMatchByte(c) ==
    IF IsLiteral(c.state) THEN NoMatchByte ELSE data[c.pos - c.reps[1]]

IsRep(c, v) == Symbol(Ctx("is_rep", c.state, 0), v)

CodedLiteral(c) ==
    LET prev == IF c.pos = 0 THEN 0 ELSE data[c.pos]
    IN  <<IsMatch(c, 0), Symbol(LiteralCtx(c.pos, prev, EncoderMatchByte(c)), data[c.pos + 1])>>

CodedShortRep(c) ==
    <<IsMatch(c, 1), IsRep(c, 1),
      Symbol(Ctx("is_rep_g0", c.state, 0), 0),
      Symbol(Ctx("is_rep0_long", c.state, PosState(c.pos)), 0)>>

RepIndex(c, index) ==
    CASE index = 0 -> <<Symbol(Ctx("is_rep_g0", c.state, 0), 0),
                        Symbol(Ctx("is_rep0_long", c.state, PosState(c.pos)), 1)>>
      [] index = 1 -> <<Symbol(Ctx("is_rep_g0", c.state, 0), 1),
                        Symbol(Ctx("is_rep_g1", c.state, 0), 0)>>
      [] OTHER     -> <<Symbol(Ctx("is_rep_g0", c.state, 0), 1),
                        Symbol(Ctx("is_rep_g1", c.state, 0), 1),
                        Symbol(Ctx("is_rep_g2", c.state, 0), index - 2)>>

CodedRep(c, index, l) ==
    <<IsMatch(c, 1), IsRep(c, 1)>> \o RepIndex(c, index)
      \o <<Symbol(Ctx("rep_len", PosState(c.pos), 0), l)>>

CodedMatch(c, l, dist) ==
    <<IsMatch(c, 1), IsRep(c, 0),
      Symbol(Ctx("len", PosState(c.pos), 0), l),
      Symbol(Ctx("dist", LenState(l), 0), dist)>>

CodedOp(c, op) ==
    CASE op.kind = "Literal"  -> CodedLiteral(c)
      [] op.kind = "ShortRep" -> CodedShortRep(c)
      [] op.kind = "Rep"      -> CodedRep(c, op.index, op.len)
      [] op.kind = "Match"    -> CodedMatch(c, op.len, op.dist - 1)

Lens == MATCH_MIN_LEN .. MATCH_MAX_LEN
Ops ==
    {Literal, ShortRep} \cup {Rep(index, l) : index \in 0 .. 3, l \in Lens}
      \cup {Match(dist, l) : dist \in 1 .. MaxDist + 1, l \in Lens}

\* One of the operations that describe the input is coded.
Emit(op) ==
    /\ pc = "encoding" /\ pos < N
    /\ Describes(data, pos, reps, op)
    /\ wire' = wire \o CodedOp(Here, op)
    /\ coded' = Append(coded, [op |-> op, coder |-> Here])
    /\ pos' = pos + op.len
    /\ state' = Emitted(Here, op).state
    /\ reps' = Emitted(Here, op).reps
    /\ UNCHANGED <<data, form, stream, decoder>>

\* Another encoder ends the stream with a marker.
EndMarker == Match(END_MARKER_DIST + 1, MATCH_MIN_LEN)
Marked == coded # <<>> /\ Last(coded).op = EndMarker

EmitMarker ==
    /\ pc = "encoding" /\ pos = N /\ form # "size" /\ ~Marked
    /\ wire' = wire \o CodedOp(Here, EndMarker)
    /\ coded' = Append(coded, [op |-> EndMarker, coder |-> Here])
    /\ UNCHANGED <<data, form, pos, state, reps, stream, decoder>>

\* The size in the header of what is written.
Stated == IF form = "marker" THEN Unknown ELSE N

\* The stream arrives, whole or with another header or damaged from some
\* symbol on.
Transport ==
    /\ pc = "encoding" /\ pos = N /\ (form = "size" \/ Marked)
    /\ size' \in IF data \in Damageable THEN {Unknown, Bad} \cup 0 .. N + 1 ELSE {Stated}
    /\ good' \in IF data \in Damageable THEN 0 .. Len(wire) ELSE {Len(wire)}
    /\ tail' \in Tails
    /\ where' \in IF good' < Len(wire) THEN {"inside", "end"}
                  ELSE IF tail' >= Len(wire) THEN {"end"} ELSE {"inside"}
    /\ pc' = "header"
    /\ UNCHANGED <<data, form, encoder, dstate, dreps, len, read, out>>

-----------------------------------------------------------------------------
(* decompress                                                              *)

Whole == size = Stated /\ good = Len(wire)

\* A header that cannot be used, or that states more than the caller expects.
RejectHeader ==
    /\ pc = "header" /\ (size = Bad \/ size > N)
    /\ pc' = "corrupt"
    /\ UNCHANGED <<data, form, encoder, stream, dstate, dreps, len, read, where, out>>

ReadHeader ==
    /\ pc = "header" /\ size \in {Unknown} \cup 0 .. N
    /\ pc' = "token"
    /\ UNCHANGED <<data, form, encoder, stream, dstate, dreps, len, read, where, out>>

KnownSize == size # Unknown
limit == IF KnownSize THEN size ELSE N

\* Where the range decoder may be in its input after one more symbol.
Reaches(w) ==
    IF good = Len(wire) /\ read < Len(wire)
    THEN w = IF read + 1 >= Len(wire) - tail THEN "end" ELSE "inside"
    ELSE w \in CASE where = "inside" -> {"inside", "end", "past"}
                 [] where = "end"    -> {"end", "past"}
                 [] where = "past"   -> {"past"}

\* The byte dist back in the output.  The code panics if there is none; see
\* MatchByteExists.
Back(dist) == IF dist <= Len(out) THEN out[Len(out) - dist + 1] ELSE 0

DecoderMatchByte == IF IsLiteral(dstate) THEN NoMatchByte ELSE Back(dreps[1] + 1)

\* The context the next symbol is decoded with.
Asks ==
    CASE pc = "token"   -> Ctx("is_match", dstate, PosState(Len(out)))
      [] pc = "literal" -> LiteralCtx(Len(out), IF out = <<>> THEN 0 ELSE Last(out),
                                      DecoderMatchByte)
      [] pc \in {"is_rep", "is_rep_g0", "is_rep_g1", "is_rep_g2"} -> Ctx(pc, dstate, 0)
      [] pc = "is_rep0_long"      -> Ctx(pc, dstate, PosState(Len(out)))
      [] pc \in {"len", "rep_len"} -> Ctx(pc, PosState(Len(out)), 0)
      [] pc = "dist"              -> Ctx(pc, LenState(len), 0)

\* The next symbol is v.
Decode(v) ==
    /\ read < good /\ wire[read + 1].ctx = Asks => v = wire[read + 1].value
    /\ read' = read + 1
    /\ where' \in {"inside", "end", "past"} /\ Reaches(where')
    /\ UNCHANGED <<data, form, encoder, stream>>

\* No symbol is read.
NoDecode == UNCHANGED <<data, form, encoder, stream, read, where>>

Complete == KnownSize /\ Len(out) = limit /\ where # "inside"

\* All of the input is used and all of the output is there.
Break ==
    /\ pc = "token" /\ Complete
    /\ pc' = "finish"
    /\ NoDecode /\ UNCHANGED <<dstate, dreps, len, out>>

Overrun ==
    /\ pc = "token" /\ ~Complete /\ where = "past"
    /\ pc' = "eof"
    /\ NoDecode /\ UNCHANGED <<dstate, dreps, len, out>>

DecodeIsMatch ==
    /\ pc = "token" /\ ~Complete /\ where # "past"
    /\ \E bit \in 0 .. 1 :
        /\ Decode(bit)
        /\ pc' = IF bit = 0 THEN "literal" ELSE "is_rep"
    /\ UNCHANGED <<dstate, dreps, len, out>>

LiteralTooFar ==
    /\ pc = "literal" /\ Len(out) >= limit
    /\ pc' = "corrupt"
    /\ NoDecode /\ UNCHANGED <<dstate, dreps, len, out>>

DecodeLiteral ==
    /\ pc = "literal" /\ Len(out) < limit
    /\ \E b \in Byte : Decode(b) /\ out' = Append(out, b)
    /\ dstate' = AfterLiteral(dstate)
    /\ pc' = "token"
    /\ UNCHANGED <<dreps, len>>

DecodeIsRep ==
    /\ pc = "is_rep"
    /\ \E bit \in 0 .. 1 :
        /\ Decode(bit)
        /\ pc' = IF bit = 0 THEN "len" ELSE "is_rep_g0"
    /\ UNCHANGED <<dstate, dreps, len, out>>

DecodeLen ==
    /\ pc = "len"
    /\ len' \in MATCH_MIN_LEN .. MATCH_MAX_LEN
    /\ Decode(len')
    /\ dstate' = AfterMatch(dstate)
    /\ pc' = "dist"
    /\ UNCHANGED <<dreps, out>>

DecodeDist ==
    /\ pc = "dist"
    /\ \E dist \in 0 .. END_MARKER_DIST :
        /\ Decode(dist)
        /\ pc' = IF dist = END_MARKER_DIST THEN "finish" ELSE "copy"
        /\ dreps' = IF dist = END_MARKER_DIST THEN dreps ELSE NewFront(dreps, dist)
    /\ UNCHANGED <<dstate, len, out>>

DecodeRepG0 ==
    /\ pc = "is_rep_g0"
    /\ \E bit \in 0 .. 1 :
        /\ Decode(bit)
        /\ pc' = IF bit = 0 THEN "is_rep0_long" ELSE "is_rep_g1"
    /\ UNCHANGED <<dstate, dreps, len, out>>

BadShortRep == dreps[1] >= Len(out) \/ Len(out) >= limit

DecodeRep0Long ==
    /\ pc = "is_rep0_long"
    /\ \E bit \in 0 .. 1 :
        /\ Decode(bit)
        /\ IF bit = 1
           THEN pc' = "rep_len" /\ UNCHANGED <<dstate, out>>
           ELSE IF BadShortRep
           THEN pc' = "corrupt" /\ UNCHANGED <<dstate, out>>
           ELSE /\ pc' = "token"
                /\ dstate' = AfterShortRep(dstate)
                /\ out' = Append(out, Back(dreps[1] + 1))
    /\ UNCHANGED <<dreps, len>>

\* Mutant: the second distance is not moved to the front.
RepsAfterG1Kept(r, bit) == r

RepsAfterG1(r, bit) == IF bit = 0 THEN <<r[2], r[1], r[3], r[4]>> ELSE r

DecodeRepG1 ==
    /\ pc = "is_rep_g1"
    /\ \E bit \in 0 .. 1 :
        /\ Decode(bit)
        /\ pc' = IF bit = 0 THEN "rep_len" ELSE "is_rep_g2"
        /\ dreps' = RepsAfterG1(dreps, bit)
    /\ UNCHANGED <<dstate, len, out>>

RepsAfterG2(r, bit) ==
    IF bit = 0 THEN <<r[3], r[1], r[2], r[4]>> ELSE <<r[4], r[1], r[2], r[3]>>

DecodeRepG2 ==
    /\ pc = "is_rep_g2"
    /\ \E bit \in 0 .. 1 :
        /\ Decode(bit)
        /\ dreps' = RepsAfterG2(dreps, bit)
    /\ pc' = "rep_len"
    /\ UNCHANGED <<dstate, len, out>>

DecodeRepLen ==
    /\ pc = "rep_len"
    /\ len' \in MATCH_MIN_LEN .. MATCH_MAX_LEN
    /\ Decode(len')
    /\ dstate' = AfterRep(dstate)
    /\ pc' = "copy"
    /\ UNCHANGED <<dreps, out>>

\* Mutants: a match may run past the limit; it may reach before the start.
BadMatchLong == dreps[1] + 1 > Len(out)
BadMatchFar == Len(out) + len > limit

BadMatch == dreps[1] + 1 > Len(out) \/ Len(out) + len > limit

RejectMatch ==
    /\ pc = "copy" /\ BadMatch
    /\ pc' = "corrupt"
    /\ NoDecode /\ UNCHANGED <<dstate, dreps, len, out>>

\* copy_match: l bytes from dist back, over and over if there are fewer.
Copied(dist, l) == [k \in 1 .. l |-> Back(dist - ((k - 1) % dist))]

CopyMatch ==
    /\ pc = "copy" /\ ~BadMatch
    /\ out' = out \o Copied(dreps[1] + 1, len)
    /\ pc' = "token"
    /\ NoDecode /\ UNCHANGED <<dstate, dreps, len>>

\* The size stated is compared, rc.finish() is called, and the codec compares
\* the size expected.
Verdict ==
    CASE KnownSize /\ Len(out) # size      -> "corrupt"
      [] where = "past"                    -> "eof"
      [] where = "inside" \/ Len(out) # N  -> "corrupt"
      [] OTHER                             -> "ok"

Finish ==
    /\ pc = "finish"
    /\ pc' = Verdict
    /\ NoDecode /\ UNCHANGED <<dstate, dreps, len, out>>

Encode == (\E op \in Ops : Emit(op)) \/ EmitMarker

DecodeToken ==
    \/ DecodeIsMatch \/ LiteralTooFar \/ DecodeLiteral \/ DecodeIsRep \/ DecodeLen
    \/ DecodeDist \/ DecodeRepG0 \/ DecodeRep0Long \/ DecodeRepG1 \/ DecodeRepG2
    \/ DecodeRepLen \/ RejectMatch \/ CopyMatch

Decompress == RejectHeader \/ ReadHeader \/ Break \/ Overrun \/ DecodeToken \/ Finish

Next == Encode \/ Transport \/ Decompress

Spec == Init /\ [][Next]_vars

-----------------------------------------------------------------------------
Results == {"ok", "eof", "corrupt"}
Decoding == {"token", "literal", "is_rep", "len", "dist", "is_rep_g0", "is_rep0_long",
             "is_rep_g1", "is_rep_g2", "rep_len"}

(***************************************************************************)
(* The decoder asks for every symbol with the context the encoder coded it *)
(* with, and ends with the state and repeat distances of the encoder.  One *)
(* update of the state machine or of the distances in another order, or on *)
(* one side only, and all that follows is garbage.                         *)
(***************************************************************************)
InStep ==
    /\ pc \in Decoding /\ read < good /\ ~(pc = "token" /\ (Complete \/ where = "past"))
           => Asks = wire[read + 1].ctx
    /\ pc = "ok" /\ Whole /\ form = "size" => dstate = state /\ dreps = reps

(***************************************************************************)
(* A literal after a match is coded against the byte the match would have  *)
(* continued with; neither side checks that there is one.  There is,       *)
(* whatever the decoder has read: each way into such a state checked the   *)
(* distance it left in reps[0].                                            *)
(***************************************************************************)
MatchByteExists ==
    /\ ~IsLiteral(state) => reps[1] < pos
    /\ pc \in {"token", "literal"} /\ ~IsLiteral(dstate) => dreps[1] < Len(out)

Outcome == IF pc = "ok" THEN "ok" ELSE IF pc \in Results THEN "error" ELSE "running"

Intact == pc = "encoding" \/ Whole

(***************************************************************************)
(* LZMA keeps the promise of the trait Codec: a stream that arrives whole  *)
(* decodes to the input, with or without a stated size or a marker, and    *)
(* the output never grows past expected_len.                               *)
(***************************************************************************)
C == INSTANCE Codec WITH input <- data, intact <- Intact, output <- out, result <- Outcome

ImplementsCodec == C!Spec
=============================================================================
