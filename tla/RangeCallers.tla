---------------------------- MODULE RangeCallers ----------------------------
(***************************************************************************)
(* Who uses the range coder: the order-0 and order-1 codecs of             *)
(* crates/codecs/src/codecs/range.rs, one operation of LZMA                *)
(* (crates/codecs/src/lzma: emit of encode.rs, the loop of decode.rs and   *)
(* the probabilities of mod.rs), and sequences of operations that both     *)
(* sides know beforehand, as the Burrows-Wheeler codec's are given its     *)
(* state.  And what price.rs and encode.rs say an LZMA operation costs.    *)
(*                                                                         *)
(* Bytes, distances and trees are as small as the constants say.           *)
(***************************************************************************)
EXTENDS RangeCoder, LzmaState

CONSTANTS
    BYTE_BITS,              \* 8
    LC, LP, PB,             \* Props
    LOW_BITS, HIGH_BITS,    \* of LenModel's trees: 3 and 8
    SLOT_BITS,              \* of dist_slot's trees: 6
    END_POS_MODEL_INDEX,    \* 14
    ALIGN_BITS,             \* 4
    MATCH_MIN_LEN

DIST_BITS == 2^(SLOT_BITS - 1)
NUM_FULL_DISTANCES == 2^(END_POS_MODEL_INDEX \div 2)

ASSUME LzmaAssumption ==
    /\ {BYTE_BITS, LOW_BITS, HIGH_BITS, SLOT_BITS, ALIGN_BITS, MATCH_MIN_LEN} \subseteq Nat \ {0}
    /\ {LC, LP, PB} \subseteq Nat /\ LC <= BYTE_BITS
    /\ END_POS_MODEL_INDEX \in Nat /\ END_POS_MODEL_INDEX % 2 = 0
    /\ END_POS_MODEL_INDEX \div 2 - 1 > ALIGN_BITS

Bit(array, v) == Call("bit", 1, v, 0, array, 0)
Tree(array, bits, v) == Call("tree", bits, v, 0, array, 0)
ReverseTree(array, first, bits, v) == Call("reverse", bits, v, 0, array, first)
Direct(bits, v) == Call("direct", bits, v, 0, <<>>, 0)

-----------------------------------------------------------------------------
(* codecs/range.rs: each byte in the tree of its context.                  *)

ByteTree(contexts, prev, byte) == Tree(<<"probs", prev % contexts>>, BYTE_BITS, byte)

CodedBytes(contexts, data) ==
    [k \in 1 .. Len(data) |-> ByteTree(contexts, IF k = 1 THEN 0 ELSE data[k - 1], data[k])]

AskByte(contexts, len, values) ==
    IF Len(values) = len THEN Done
    ELSE ByteTree(contexts, IF values = <<>> THEN 0 ELSE Last(values), 0)

-----------------------------------------------------------------------------
(* Contexts of LZMA.  at is where an operation is coded: the state, the    *)
(* position, the byte before it and the byte at distance rep0.             *)

PosState(at) == at.pos % 2^PB
LiteralContext(at) == (at.pos % 2^LP) * 2^LC + at.prev \div 2^(BYTE_BITS - LC)

IsMatch(at) == <<"is_match", at.state, PosState(at)>>
IsRep(at) == <<"is_rep", at.state>>
IsRepG(at, g) == <<"is_rep_g", at.state, g>>
IsRep0Long(at) == <<"is_rep0_long", at.state, PosState(at)>>
LiteralProbs(at) == <<"literal", LiteralContext(at)>>
DistSlot(len) == <<"dist_slot", IF len < 3 THEN len ELSE 3>>   \* len_state

\* dist_slot
SlotOf(dist) ==
    IF dist < 4 THEN dist
    ELSE LET top == CHOOSE t \in 2 .. DIST_BITS - 1 : 2^t <= dist /\ dist < 2^(t + 1)
         IN  2 * top + ((dist \div 2^(top - 1)) % 2)

FooterBits(slot) == slot \div 2 - 1
Base(slot) == (2 + (slot % 2)) * 2^FooterBits(slot)

\* The first k bits of a byte.
Leading(byte, k) == byte \div 2^(BYTE_BITS - k)

-----------------------------------------------------------------------------
(* Encoder: emit.  Lengths here are len - MATCH_MIN_LEN and distances      *)
(* 0-based, as in the code.                                                *)

\* matched_literal: its bit k, from 0.
MatchedBit(at, byte, k) ==
    LET symbol == 2^k + Leading(byte, k)
        same   == Leading(byte, k) = Leading(at.matchByte, k)
        up     == 1 + (Leading(at.matchByte, k + 1) % 2)
    IN  [Bit(LiteralProbs(at), Leading(byte, k + 1) % 2)
            EXCEPT !.first = IF same THEN up * 2^BYTE_BITS + symbol ELSE symbol]

CodedLiteral(at, byte) ==
    IF IsLiteral(at.state) THEN <<Tree(LiteralProbs(at), BYTE_BITS, byte)>>
    ELSE [k \in 1 .. BYTE_BITS |-> MatchedBit(at, byte, k - 1)]

\* LenModel::encode
CodedLen(model, at, len) ==
    CASE len < 2^LOW_BITS ->
            <<Bit(<<model, "choice">>, 0), Tree(<<model, "low", PosState(at)>>, LOW_BITS, len)>>
      [] len >= 2^LOW_BITS /\ len < 2 * 2^LOW_BITS ->
            <<Bit(<<model, "choice">>, 1), Bit(<<model, "choice2">>, 0),
              Tree(<<model, "mid", PosState(at)>>, LOW_BITS, len - 2^LOW_BITS)>>
      [] OTHER ->
            <<Bit(<<model, "choice">>, 1), Bit(<<model, "choice2">>, 1),
              Tree(<<model, "high">>, HIGH_BITS, len - 2 * 2^LOW_BITS)>>

\* encode_dist, after the slot
CodedFooter(dist, slot) ==
    LET rest == dist - Base(slot) IN
    CASE slot < 4 -> <<>>
      [] slot >= 4 /\ slot < END_POS_MODEL_INDEX ->
            <<ReverseTree(<<"dist_special">>, Base(slot) - slot, FooterBits(slot), rest)>>
      [] OTHER ->
            <<Direct(FooterBits(slot) - ALIGN_BITS, rest \div 2^ALIGN_BITS),
              ReverseTree(<<"dist_align">>, 0, ALIGN_BITS, rest % 2^ALIGN_BITS)>>

CodedDist(dist, len) ==
    <<Tree(DistSlot(len), SLOT_BITS, SlotOf(dist))>> \o CodedFooter(dist, SlotOf(dist))

CodedRep(at, index) ==
    CASE index = 0 -> <<Bit(IsRepG(at, 0), 0), Bit(IsRep0Long(at), 1)>>
      [] index = 1 -> <<Bit(IsRepG(at, 0), 1), Bit(IsRepG(at, 1), 0)>>
      [] OTHER     -> <<Bit(IsRepG(at, 0), 1), Bit(IsRepG(at, 1), 1),
                        Bit(IsRepG(at, 2), index - 2)>>

CodedOp(at, op, byte) ==
    LET len == op.len - MATCH_MIN_LEN IN
    CASE op.kind = "Literal"  -> <<Bit(IsMatch(at), 0)>> \o CodedLiteral(at, byte)
      [] op.kind = "ShortRep" -> <<Bit(IsMatch(at), 1), Bit(IsRep(at), 1),
                                   Bit(IsRepG(at, 0), 0), Bit(IsRep0Long(at), 0)>>
      [] op.kind = "Rep"      -> <<Bit(IsMatch(at), 1), Bit(IsRep(at), 1)>>
                                     \o CodedRep(at, op.index) \o CodedLen("rep_len", at, len)
      [] op.kind = "Match"    -> <<Bit(IsMatch(at), 1), Bit(IsRep(at), 0)>>
                                     \o CodedLen("len", at, len) \o CodedDist(op.dist - 1, len)

-----------------------------------------------------------------------------
(* Decoder: what it asks for after values, and what it makes of them.      *)

After(values, n) == SubSeq(values, n + 1, Len(values))

\* decode_matched: while the bits agree with the match byte's.
AskMatchedBit(at, values) ==
    LET k      == Len(values)
        symbol == FoldLeft(LAMBDA s, bit : 2 * s + bit, 1, values)
        agree  == \A j \in 1 .. k : values[j] = Leading(at.matchByte, j) % 2
        up     == 1 + (Leading(at.matchByte, k + 1) % 2)
    IN  [Bit(LiteralProbs(at), 0)
            EXCEPT !.first = IF agree THEN up * 2^BYTE_BITS + symbol ELSE symbol]

AskLiteral(at, values) ==
    CASE IsLiteral(at.state) /\ values = <<>> -> Tree(LiteralProbs(at), BYTE_BITS, 0)
      [] ~IsLiteral(at.state) /\ Len(values) < BYTE_BITS -> AskMatchedBit(at, values)
      [] OTHER -> Done

\* LenModel::decode: the values it takes, what it asks for, what it returns.
LenValues(values) == IF values[1] = 0 THEN 2 ELSE 3

AskLen(model, at, values) ==
    CASE values = <<>> -> Bit(<<model, "choice">>, 0)
      [] values = <<0>> -> Tree(<<model, "low", PosState(at)>>, LOW_BITS, 0)
      [] values = <<1>> -> Bit(<<model, "choice2">>, 0)
      [] values = <<1, 0>> -> Tree(<<model, "mid", PosState(at)>>, LOW_BITS, 0)
      [] values = <<1, 1>> -> Tree(<<model, "high">>, HIGH_BITS, 0)
      [] OTHER -> Done

LenOf(values) ==
    CASE values[1] = 0 -> values[2]
      [] values[1] = 1 /\ values[2] = 0 -> 2^LOW_BITS + values[3]
      [] OTHER -> 2 * 2^LOW_BITS + values[3]

\* decode_dist
AskFooter(slot, values) ==
    CASE slot >= 4 /\ slot < END_POS_MODEL_INDEX /\ values = <<>> ->
            ReverseTree(<<"dist_special">>, Base(slot) - slot, FooterBits(slot), 0)
      [] slot >= END_POS_MODEL_INDEX /\ values = <<>> ->
            Direct(FooterBits(slot) - ALIGN_BITS, 0)
      [] slot >= END_POS_MODEL_INDEX /\ Len(values) = 1 ->
            ReverseTree(<<"dist_align">>, 0, ALIGN_BITS, 0)
      [] OTHER -> Done

AskDist(len, values) ==
    IF values = <<>> THEN Tree(DistSlot(len), SLOT_BITS, 0)
    ELSE AskFooter(values[1], Tail(values))

\* u32: base.wrapping_add.
DistOf(values) ==
    LET slot == values[1] IN
    CASE slot < 4 -> slot
      [] slot >= 4 /\ slot < END_POS_MODEL_INDEX -> Base(slot) + values[2]
      [] OTHER -> (Base(slot) + values[2] * 2^ALIGN_BITS + values[3]) % 2^DIST_BITS

\* Values that say it is a repeat, and which: from is_match to its length.
RepHead(values) == IF Len(values) > 3 /\ values[3] = 1 /\ values[4] = 1 THEN 5 ELSE 4

AskRep(at, values) ==
    CASE Len(values) = 2 -> Bit(IsRepG(at, 0), 0)
      [] Len(values) = 3 -> IF values[3] = 0 THEN Bit(IsRep0Long(at), 0) ELSE Bit(IsRepG(at, 1), 0)
      [] Len(values) = 4 /\ RepHead(values) = 5 -> Bit(IsRepG(at, 2), 0)
      [] Len(values) = 4 /\ values[3] = 0 /\ values[4] = 0 -> Done
      [] OTHER -> AskLen("rep_len", at, After(values, RepHead(values)))

AskMatch(at, values) ==
    LET rest == After(values, 2) IN
    IF AskLen("len", at, rest) # Done THEN AskLen("len", at, rest)
    ELSE AskDist(LenOf(rest), After(rest, LenValues(rest)))

AskOp(at, values) ==
    CASE values = <<>> -> Bit(IsMatch(at), 0)
      [] values # <<>> /\ values[1] = 0 -> AskLiteral(at, Tail(values))
      [] values = <<1>> -> Bit(IsRep(at), 0)
      [] Len(values) > 1 /\ values[1] = 1 /\ values[2] = 0 -> AskMatch(at, values)
      [] Len(values) > 1 /\ values[1] = 1 /\ values[2] = 1 -> AskRep(at, values)

LiteralOf(at, values) ==
    IF IsLiteral(at.state) THEN values[1] ELSE FoldLeft(LAMBDA b, bit : 2 * b + bit, 0, values)

RepIndex(values) ==
    CASE values[3] = 0 -> 0
      [] values[3] = 1 /\ values[4] = 0 -> 1
      [] OTHER -> 2 + values[5]

\* The operation, and the byte if it is a literal.
DecodedOp(at, values) ==
    CASE values[1] = 0 -> <<Literal, LiteralOf(at, Tail(values))>>
      [] values[1] = 1 /\ values[2] = 1 /\ Len(values) = 4 -> <<ShortRep, 0>>
      [] values[1] = 1 /\ values[2] = 1 /\ Len(values) > 4 ->
            <<Rep(RepIndex(values), LenOf(After(values, RepHead(values))) + MATCH_MIN_LEN), 0>>
      [] values[1] = 1 /\ values[2] = 0 ->
            LET rest == After(values, 2)
            IN  <<Match(DistOf(After(rest, LenValues(rest))) + 1, LenOf(rest) + MATCH_MIN_LEN), 0>>

-----------------------------------------------------------------------------
(* Prices.  A price is a sum of what single bits cost; here it is the      *)
(* bits, each with its probability, in the order the code adds them.       *)

PriceBit(array, bit) == <<<<<<array, 0>>, bit>>>>

PriceTree(array, bits, tree) ==
    [k \in 1 .. bits |->
        <<<<array, 2^(k - 1) + tree \div 2^(bits - k + 1)>>, (tree \div 2^(bits - k)) % 2>>]

PriceReverseTree(array, first, bits, tree) ==
    LET bit(k)  == (tree \div 2^k) % 2
        node_(k) == FoldLeft(LAMBDA n, j : 2 * n + bit(j - 1), 1, [j \in 1 .. k |-> j])
    IN  [k \in 1 .. bits |-> <<<<array, first + node_(k - 1)>>, bit(k - 1)>>]

PriceDirect(bits) == [k \in 1 .. bits |-> <<"direct">>]

\* literal: the loop over the bits of byte, with its price and symbol so far.
PricedMatchedBit(at, byte, walk, k) ==
    LET bit   == Leading(byte, k) % 2
        match == Leading(at.matchByte, k) % 2
        index == IF walk.same THEN (1 + match) * 2^BYTE_BITS + walk.symbol ELSE walk.symbol
    IN  [price  |-> Append(walk.price, <<<<LiteralProbs(at), index>>, bit>>),
         symbol |-> 2 * walk.symbol + bit,
         same   |-> walk.same /\ match = bit]

PriceLiteral(at, byte) ==
    IF IsLiteral(at.state)
    THEN PriceBit(IsMatch(at), 0) \o PriceTree(LiteralProbs(at), BYTE_BITS, byte)
    ELSE FoldLeft(LAMBDA walk, k : PricedMatchedBit(at, byte, walk, k),
                  [price |-> PriceBit(IsMatch(at), 0), symbol |-> 1, same |-> TRUE],
                  [k \in 1 .. BYTE_BITS |-> k]).price

\* fill_len_prices
PriceLen(model, at, len) ==
    CASE len < 2^LOW_BITS ->
            PriceBit(<<model, "choice">>, 0) \o PriceTree(<<model, "low", PosState(at)>>, LOW_BITS, len)
      [] len >= 2^LOW_BITS /\ len < 2 * 2^LOW_BITS ->
            PriceBit(<<model, "choice">>, 1) \o PriceBit(<<model, "choice2">>, 0)
                \o PriceTree(<<model, "mid", PosState(at)>>, LOW_BITS, len - 2^LOW_BITS)
      [] OTHER ->
            PriceBit(<<model, "choice">>, 1) \o PriceBit(<<model, "choice2">>, 1)
                \o PriceTree(<<model, "high">>, HIGH_BITS, len - 2 * 2^LOW_BITS)

\* Prices::update: full_dist
FullDist(dist, len) ==
    LET slot == SlotOf(dist) IN
    PriceTree(DistSlot(len), SLOT_BITS, slot) \o
        IF slot < 4 THEN <<>>
        ELSE PriceReverseTree(<<"dist_special">>, Base(slot) - slot, FooterBits(slot),
                              dist - Base(slot))

\* Mutant: every bit below the slot is direct, those of align as well.
PriceDistAllDirect(dist, len) ==
    LET slot == SlotOf(dist) IN
    IF dist < NUM_FULL_DISTANCES THEN FullDist(dist, len)
    ELSE PriceTree(DistSlot(len), SLOT_BITS, slot)
            \o PriceDirect(FooterBits(slot))
            \o PriceReverseTree(<<"dist_align">>, 0, ALIGN_BITS, dist % 2^ALIGN_BITS)

\* Prices::dist
PriceDist(dist, len) ==
    LET slot == SlotOf(dist) IN
    IF dist < NUM_FULL_DISTANCES THEN FullDist(dist, len)
    ELSE PriceTree(DistSlot(len), SLOT_BITS, slot)
            \o PriceDirect(FooterBits(slot) - ALIGN_BITS)
            \o PriceReverseTree(<<"dist_align">>, 0, ALIGN_BITS, dist % 2^ALIGN_BITS)

\* rep
PriceRep(at, index) ==
    PriceBit(IsMatch(at), 1) \o PriceBit(IsRep(at), 1) \o
        CASE index = 0 -> PriceBit(IsRepG(at, 0), 0) \o PriceBit(IsRep0Long(at), 1)
          [] index = 1 -> PriceBit(IsRepG(at, 0), 1) \o PriceBit(IsRepG(at, 1), 0)
          [] OTHER     -> PriceBit(IsRepG(at, 0), 1) \o PriceBit(IsRepG(at, 1), 1)
                              \o PriceBit(IsRepG(at, 2), index - 2)

\* short_rep, rep and rep_len, new_match and len and dist
PriceOp(at, op, byte) ==
    LET len == op.len - MATCH_MIN_LEN IN
    CASE op.kind = "Literal"  -> PriceLiteral(at, byte)
      [] op.kind = "ShortRep" -> PriceBit(IsMatch(at), 1) \o PriceBit(IsRep(at), 1)
                                     \o PriceBit(IsRepG(at, 0), 0) \o PriceBit(IsRep0Long(at), 0)
      [] op.kind = "Rep"      -> PriceRep(at, op.index) \o PriceLen("rep_len", at, len)
      [] op.kind = "Match"    -> PriceBit(IsMatch(at), 1) \o PriceBit(IsRep(at), 0)
                                     \o PriceLen("len", at, len) \o PriceDist(op.dist - 1, len)

-----------------------------------------------------------------------------
(* Callers: user, what both sides know, and what the encoder's side means. *)

CodedCalls(c) ==
    CASE c.user = "given" -> c.means
      [] c.user = "bytes" -> CodedBytes(c.at, c.means)
      [] c.user = "lzma"  -> CodedOp(c.at, c.means[1], c.means[2])

ValuesOf(calls) == [k \in 1 .. Len(calls) |-> calls[k].value]

AskedCall(c, calls) ==
    CASE c.user = "given" ->
            IF Len(calls) = Len(c.means) THEN Done
            ELSE [c.means[Len(calls) + 1] EXCEPT !.value = 0]
      [] c.user = "bytes" -> AskByte(c.at, Len(c.means), ValuesOf(calls))
      [] c.user = "lzma"  -> AskOp(c.at, ValuesOf(calls))

Meaning(c, calls) ==
    CASE c.user = "given" -> calls
      [] c.user = "bytes" -> ValuesOf(calls)
      [] c.user = "lzma"  -> DecodedOp(c.at, ValuesOf(calls))

(***************************************************************************)
(* "What each LZMA token would cost to code right now" (price.rs:1): the   *)
(* price the parser compares is that of the bits the coder then codes,     *)
(* each at the probability it is coded with.  None is used twice in one    *)
(* operation, so none has changed between its price and its bit.           *)
(***************************************************************************)
PricedAsCoded ==
    caller.user = "lzma" /\ pc = "flush" =>
        /\ coded = PriceOp(caller.at, caller.means[1], caller.means[2])
        /\ \A j, k \in 1 .. Len(coded) :
                coded[j] # <<"direct">> /\ coded[k] # <<"direct">> /\ coded[j][1] = coded[k][1] => j = k
=============================================================================
