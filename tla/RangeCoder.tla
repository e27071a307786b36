----------------------------- MODULE RangeCoder -----------------------------
(***************************************************************************)
(* The adaptive binary range coder of crates/codecs/src/range.rs.  A       *)
(* caller codes a sequence of operations, the stream is stored, whole or   *)
(* without its end, and a decoder reads it back, whose caller knows from   *)
(* what it got so far which operation comes next.  RangeCallers has the    *)
(* callers.                                                                *)
(*                                                                         *)
(* One action is one bit coded or one iteration of a loop of the code.     *)
(* The code's digits are bytes, its interval has four of them; here the    *)
(* base is a constant.  `low` has room for more (u64): the carry is its    *)
(* digit 4.  A direct bit leaves the odd unit of the range to neither      *)
(* value, and a stream that lost its end may point there: then code is not *)
(* below range any more and its top digit is shifted out of its u32.       *)
(***************************************************************************)
EXTENDS Integers, SequencesExt

CONSTANTS
    BASE,       \* values of a byte (256)
    PROB_ONE,   \* probability 1 (2^11)
    MOVE,       \* a probability moves 1/MOVE of the way (2^MOVE_BITS)
    WITH_ONE,   \* probability 1 of encode_with (2^16)
    Callers,    \* who uses the coder, and for what
    Coded(_),   \* the operations the caller of the encoder codes
    Ask(_, _),  \* what the caller of the decoder asks for, after what it got
    Understood(_, _)  \* what it makes of all it got

TOP == BASE * BASE * BASE
SPAN == TOP * BASE
PROB_INIT == PROB_ONE \div 2

\* Operations.  Those that adapt use a slice of an array of probabilities.
Call(kind, bits, value, p0, array, first) ==
    [kind |-> kind, bits |-> bits, value |-> value, p0 |-> p0,
     array |-> array, first |-> first]
Done == Call("done", 0, 0, 0, <<>>, 0)

\* b to the n.
Power(b, n) == LET p[k \in 0 .. n] == IF k = 0 THEN 1 ELSE b * p[k - 1] IN p[n]

Kinds == {"bit", "with", "direct", "tree", "reverse"}
Possible(op) ==
    /\ op = Call(op.kind, op.bits, op.value, op.p0, op.array, op.first)
    /\ op.kind \in Kinds /\ op.bits \in Nat \ {0} /\ op.value \in 0 .. Power(2, op.bits) - 1
    /\ op.kind = "with" => op.p0 \in 1 .. WITH_ONE - 1

\* What the decoder is asked for: an operation but for its value.
Question(op) == [op EXCEPT !.value = 0]

ASSUME CoderAssumption ==
    /\ BASE \in Nat \ {0, 1} /\ MOVE \in Nat \ {0, 1}
    /\ PROB_ONE \in 2 .. TOP /\ WITH_ONE \in 2 .. TOP

\* A caller asks for what it coded when it got what it coded before.
ASSUME CallersAssumption ==
    \A c \in Callers :
        /\ Coded(c) \in Seq(ToSet(Coded(c)))
        /\ \A k \in DOMAIN Coded(c) :
             /\ Possible(Coded(c)[k])
             /\ Ask(c, SubSeq(Coded(c), 1, k - 1)) = Question(Coded(c)[k])
        /\ Ask(c, Coded(c)) = Done
        /\ Understood(c, Coded(c)) = c.means

VARIABLES
    caller,
    ops,        \* what it codes
    pc,         \* "encode", "flush", "stored", "decode", or the result
    done,       \* operations encoded
    \* locals of the running operation, encoding or decoding
    i,          \* bits done
    node,       \* node of the tree
    value,      \* value decoded so far
    \* Encoder
    low, range, cache, cacheSize, out,
    probs,
    flushed,    \* finish: calls of shift_low made
    exact,      \* history: the bottom of the interval, all digits of it
    coded,      \* history: each bit coded, with its probability
    \* Decoder
    kept,       \* bytes of the stream that arrive
    dpos, drange, code,
    dprobs,
    got         \* operations decoded, with their values

encoder == <<low, range, cache, cacheSize, out, probs, flushed, exact, coded>>
decoder == <<kept, dpos, drange, code, dprobs, got>>
vars == <<caller, ops, pc, done, i, node, value, encoder, decoder>>

Init ==
    /\ caller \in Callers /\ ops = Coded(caller)
    /\ pc = "encode" /\ done = 0
    /\ i = 0 /\ node = 1 /\ value = 0
    /\ low = 0 /\ range = SPAN - 1
    /\ cache = 0 /\ cacheSize = 1 /\ out = <<>>
    /\ probs = <<>>
    /\ flushed = 0 /\ exact = 0 /\ coded = <<>>
    /\ kept = 0 /\ dpos = 0 /\ drange = 0 /\ code = 0
    /\ dprobs = <<>>
    /\ got = <<>>

-----------------------------------------------------------------------------
(* What encoder and decoder share.                                         *)

\* Bit number k of an operation: least significant first in a reverse tree.
BitOf(op, k) ==
    IF op.kind = "reverse"
    THEN (op.value \div Power(2, k)) % 2
    ELSE (op.value \div Power(2, op.bits - 1 - k)) % 2

Adaptive(op) == op.kind \in {"bit", "tree", "reverse"}

\* The probability in use: a tree has one per node.
Slot(op) == <<op.array, IF op.kind = "bit" THEN op.first ELSE op.first + node>>

\* ps has the probabilities that were used so far.
Prob(ps, s) == IF s \in DOMAIN ps THEN ps[s] ELSE PROB_INIT

\* `bound`: the part of range r that means bit 0.
Bound(op, r, ps) ==
    CASE Adaptive(op)       -> (r \div PROB_ONE) * Prob(ps, Slot(op))
      [] op.kind = "with"   -> (r \div WITH_ONE) * op.p0
      [] op.kind = "direct" -> r \div 2

\* The range left after a bit; a direct bit 1 gets no more than a 0.
RangeAfter(op, r, ps, bit) ==
    IF bit = 0 \/ op.kind = "direct" THEN Bound(op, r, ps) ELSE r - Bound(op, r, ps)

Adapted(p, bit) ==
    IF bit = 0 THEN p + (PROB_ONE - p) \div MOVE ELSE p - p \div MOVE

ProbsAfter(op, ps, bit) ==
    IF Adaptive(op)
    THEN [s \in DOMAIN ps \cup {Slot(op)} |->
             IF s = Slot(op) THEN Adapted(Prob(ps, s), bit) ELSE ps[s]]
    ELSE ps

-----------------------------------------------------------------------------
(* Encoder                                                                 *)

\* A later carry could still change the top byte of low: it has to wait.
MustWait == low < SPAN /\ low \div TOP = BASE - 1

Carry == low \div SPAN

\* Mutant: the carry reaches the cached byte but not the run after it.
ShiftLowNoRipple ==
    /\ out' = IF MustWait THEN out
              ELSE out \o <<(cache + Carry) % BASE>>
                       \o [k \in 1 .. cacheSize - 1 |-> BASE - 1]
    /\ cache' = IF MustWait THEN cache ELSE (low \div TOP) % BASE
    /\ cacheSize' = IF MustWait THEN cacheSize + 1 ELSE 1
    /\ low' = (low % TOP) * BASE

\* shift_low
ShiftLow ==
    /\ out' = IF MustWait THEN out
              ELSE out \o <<(cache + Carry) % BASE>>
                       \o [k \in 1 .. cacheSize - 1 |-> (BASE - 1 + Carry) % BASE]
    /\ cache' = IF MustWait THEN cache ELSE (low \div TOP) % BASE
    /\ cacheSize' = IF MustWait THEN cacheSize + 1 ELSE 1
    /\ low' = (low % TOP) * BASE

Encoding == pc = "encode" /\ done < Len(ops) /\ range >= TOP

\* A bit of a probability, or one that takes a bit of the stream.
CodedBit(op, bit) == IF op.kind = "direct" THEN <<"direct">> ELSE <<Slot(op), bit>>

\* One bit of encode_bit, encode_with, encode_direct or of a tree.
EncodeBit ==
    /\ Encoding /\ i < ops[done + 1].bits
    /\ LET op  == ops[done + 1]
           bit == BitOf(op, i)
           up  == bit * Bound(op, range, probs)
       IN  /\ low' = low + up
           /\ exact' = exact + up
           /\ range' = RangeAfter(op, range, probs, bit)
           /\ probs' = ProbsAfter(op, probs, bit)
           /\ coded' = Append(coded, CodedBit(op, bit))
           /\ node' = 2 * node + bit
    /\ i' = i + 1
    /\ UNCHANGED <<caller, ops, pc, done, value, cache, cacheSize, out, flushed, decoder>>

\* while range < TOP
EncodeNormalize ==
    /\ pc = "encode" /\ range < TOP
    /\ range' = range * BASE
    /\ exact' = exact * BASE
    /\ ShiftLow
    /\ UNCHANGED <<caller, ops, pc, done, i, node, value, probs, flushed, coded, decoder>>

\* The operation returns to the caller.
EncodeReturn ==
    /\ Encoding /\ i = ops[done + 1].bits
    /\ done' = done + 1
    /\ i' = 0 /\ node' = 1
    /\ UNCHANGED <<caller, ops, pc, value, encoder, decoder>>

\* finish
Finish ==
    /\ pc = "encode" /\ range >= TOP /\ done = Len(ops)
    /\ pc' = "flush"
    /\ UNCHANGED <<caller, ops, done, i, node, value, encoder, decoder>>

Flush ==
    /\ pc = "flush" /\ flushed < 5
    /\ ShiftLow
    /\ flushed' = flushed + 1
    /\ UNCHANGED <<caller, ops, pc, done, i, node, value, range, probs, exact, coded, decoder>>

Flushed ==
    /\ pc = "flush" /\ flushed = 5
    /\ pc' = "stored"
    /\ UNCHANGED <<caller, ops, done, i, node, value, encoder, decoder>>

-----------------------------------------------------------------------------
(* Decoder                                                                 *)

\* next_byte: zeros past the end of what arrived.
ByteAt(p) == IF p < kept' THEN out[p + 1] ELSE 0

\* The first n bytes of the stream arrive; Decoder::new.
DecoderNew ==
    /\ pc = "stored"
    /\ \E n \in 0 .. Len(out) :
        /\ kept' = n
        /\ pc' = CASE n = 0 -> "eof"
                   [] n > 0 /\ out[1] # 0 -> "corrupt"
                   [] OTHER -> "decode"
    /\ dpos' = 5
    /\ drange' = SPAN - 1
    /\ code' = ((ByteAt(1) * BASE + ByteAt(2)) * BASE + ByteAt(3)) * BASE + ByteAt(4)
    /\ UNCHANGED <<caller, ops, done, i, node, value, encoder, dprobs, got>>

\* What the caller asks for.
Asked == Ask(caller, got)
Decoding == pc = "decode" /\ drange >= TOP

ValueAfter(op, bit) ==
    IF op.kind = "reverse" THEN value + bit * Power(2, i) ELSE 2 * value + bit

\* Mutant: the wrong side of the boundary.
IsOneEarly(bound) == code + 1 >= bound

IsOne(bound) == code >= bound

DecodeBit ==
    /\ Decoding /\ i < Asked.bits
    /\ LET op    == Asked
           bound == Bound(op, drange, dprobs)
           bit   == IF IsOne(bound) THEN 1 ELSE 0
       IN  /\ code' = code - bit * bound
           /\ drange' = RangeAfter(op, drange, dprobs, bit)
           /\ dprobs' = ProbsAfter(op, dprobs, bit)
           /\ node' = 2 * node + bit
           /\ value' = ValueAfter(op, bit)
    /\ i' = i + 1
    /\ UNCHANGED <<caller, ops, pc, done, encoder, kept, dpos, got>>

\* normalize
DecodeNormalize ==
    /\ pc = "decode" /\ drange < TOP
    /\ drange' = drange * BASE
    /\ kept' = kept
    /\ code' = ((code * BASE) % SPAN) + ByteAt(dpos)
    /\ dpos' = dpos + 1
    /\ UNCHANGED <<caller, ops, pc, done, i, node, value, encoder, dprobs, got>>

DecodeReturn ==
    /\ Decoding /\ Asked # Done /\ i = Asked.bits
    /\ got' = Append(got, [Asked EXCEPT !.value = value])
    /\ i' = 0 /\ node' = 1 /\ value' = 0
    /\ UNCHANGED <<caller, ops, pc, done, encoder, kept, dpos, drange, code, dprobs>>

\* Mutant: reading past the end is not an error.
VerdictLax == IF dpos >= kept THEN "ok" ELSE "corrupt"

Verdict ==
    CASE dpos = kept -> "ok"
      [] dpos > kept -> "eof"
      [] dpos < kept -> "corrupt"

\* Decoder::finish
DecoderFinish ==
    /\ Decoding /\ Asked = Done
    /\ pc' = Verdict
    /\ UNCHANGED <<caller, ops, done, i, node, value, encoder, decoder>>

Encode == EncodeBit \/ EncodeNormalize \/ EncodeReturn \/ Finish \/ Flush \/ Flushed
Decode == DecodeBit \/ DecodeNormalize \/ DecodeReturn \/ DecoderFinish

Next == Encode \/ DecoderNew \/ Decode

Spec == Init /\ [][Next]_vars

-----------------------------------------------------------------------------
Results == {"ok", "eof", "corrupt"}

\* The digits after those of start, as a number.
Number(digits, start) ==
    LET n[k \in 0 .. Len(digits)] == IF k = 0 THEN start ELSE n[k - 1] * BASE + digits[k]
    IN n[Len(digits)]

(***************************************************************************)
(* What is written, held back in cache and its run of 0xFF bytes, and left *)
(* in low is together the exact bottom of the interval: no carry is lost,  *)
(* and none leaves the first byte, which Decoder::new wants to be 0.       *)
(***************************************************************************)
CarryExact ==
    pc = "encode" =>
        /\ Number([k \in 1 .. cacheSize - 1 |-> BASE - 1], Number(out, 0) * BASE + cache) * SPAN
                + low = exact
        /\ Len(out) + cacheSize = 1 \/ Head(out \o <<cache>>) = 0

(***************************************************************************)
(* While every byte read has arrived, the decoder is where the encoder     *)
(* was: code lies in the interval, its caller asked for the operations     *)
(* that were coded, the values are those, and the probabilities are the    *)
(* encoder's at that point.                                                *)
(***************************************************************************)
InStep ==
    pc = "decode" /\ dpos <= kept =>
        /\ code < drange
        /\ IsPrefix(got, ops)
        /\ Len(got) = Len(ops) /\ drange >= TOP => dprobs = probs /\ drange = range

(***************************************************************************)
(* "A valid stream is read to its last byte and not beyond": of the bytes  *)
(* finish wrote, decoding all operations reads each one once, and what the *)
(* caller makes of them is what was meant.  A stream                       *)
(* that lost its end, even by zero bytes only, is always an error: zeros   *)
(* read in place of what is missing may decode to anything, but never to   *)
(* something that ends where the stream does.                              *)
(***************************************************************************)
UsedExactly ==
    /\ pc = "ok" => kept = Len(out) /\ got = ops /\ Understood(caller, got) = caller.means
    /\ pc \in {"eof", "corrupt"} => kept < Len(out)

=============================================================================
