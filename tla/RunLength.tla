----------------------------- MODULE RunLength -----------------------------
(***************************************************************************)
(* The run-length codecs of crates/codecs/src/codecs: packbits.rs, packets *)
(* of whole bytes that hold up to MAX_PACKET of them, and rle.rs, tokens   *)
(* of bits with gamma codes for lengths, which have no limit.              *)
(*                                                                         *)
(* Both compress with the same loop over runs; one action is one iteration *)
(* of it, or one packet or token read.                                     *)
(***************************************************************************)
EXTENDS Inflate

CONSTANTS
    PACK_MIN_RUN,  \* 3
    RLE_MIN_RUN    \* 4

\* Half of the headers are for literals, one is unused, the rest for runs.
MAX_PACKET == Pow(BYTE - 1)

\* write_gamma takes no 0.
ASSUME RunAssumption ==
    PACK_MIN_RUN \in 2 .. MAX_PACKET /\ RLE_MIN_RUN \in Nat /\ RLE_MIN_RUN > 2

VARIABLE literal_start  \* bytes before this one are written

runVars == <<literal_start>>

-----------------------------------------------------------------------------
(* Compressing.  `done` is i of the code. *)

write_byte(b) == Bits(b, BYTE)
Bytes(raw) == FlattenSeq([i \in DOMAIN raw |-> write_byte(raw[i])])

\* The equal bytes of data from i on, no more than max.
run_length(data, i, max) ==
    Max({n \in 1 .. Min({max, Len(data) - i}) : \A k \in 1 .. n : data[i + k] = data[i + 1]})

\* In packets of at most MAX_PACKET.
emit_literals(raw) ==
    LET packets == (Len(raw) + MAX_PACKET - 1) \div MAX_PACKET
        Packet(k) == SubSeq(raw, (k - 1) * MAX_PACKET + 1, Min({k * MAX_PACKET, Len(raw)}))
    IN FlattenSeq([k \in 1 .. packets |-> write_byte(Len(Packet(k)) - 1) \o Bytes(Packet(k))])

PackedRun(byte, run) == write_byte(Pow(BYTE) + 1 - run) \o write_byte(byte)

\* As many zeros as n has bits after its first, then all its bits.
write_gamma(n) ==
    LET extra == Max({k \in 0 .. n : Pow(k) <= n})
    IN Bits(0, extra) \o <<1>> \o Bits(n - Pow(extra), extra)

write_literal(raw) == IF raw = <<>> THEN <<>> ELSE <<0>> \o write_gamma(Len(raw)) \o Bytes(raw)

RunToken(byte, run) == <<1>> \o write_gamma(run - 2) \o write_byte(byte)

WriteRaw(codec, raw) == IF codec = "packbits" THEN emit_literals(raw) ELSE write_literal(raw)
WriteRun(codec, byte, run) ==
    IF codec = "packbits" THEN PackedRun(byte, run) ELSE RunToken(byte, run)

\* A run long enough is written, after the literals before it.
TakeRun(codec, data, longest, min_run) ==
    /\ done < Len(data)
    /\ LET run == run_length(data, done, longest) IN
       /\ done' = done + run
       /\ IF run < min_run THEN UNCHANGED <<bits, literal_start>>
          ELSE /\ bits' = bits \o WriteRaw(codec, SubSeq(data, literal_start + 1, done))
                               \o WriteRun(codec, data[done + 1], run)
               /\ literal_start' = done + run
    /\ UNCHANGED <<blocks, pc>>

EndRuns(codec, data) ==
    /\ done = Len(data)
    /\ bits' = Padded(bits \o WriteRaw(codec, SubSeq(data, literal_start + 1, done)))
    /\ pc' = "compressed"
    /\ UNCHANGED <<done, blocks, literal_start>>

PackBits(data) ==
    /\ pc = "packbits"
    /\ TakeRun("packbits", data, MAX_PACKET, PACK_MIN_RUN) \/ EndRuns("packbits", data)

Rle(data) ==
    /\ pc = "rle"
    /\ TakeRun("rle", data, Len(data), RLE_MIN_RUN) \/ EndRuns("rle", data)

-----------------------------------------------------------------------------
(* Decompressing. *)

Decoded ==
    /\ pc' = "decoded"
    /\ UNCHANGED inflateVars

\* n bytes of the stream at a place.
BytesAt(place, n) == [i \in 1 .. n |-> Peek(stream, place + (i - 1) * BYTE, BYTE)]
Repeated(n, byte) == [i \in 1 .. n |-> byte]

\* What a packet or token stands for, and where it ends.
Take(bytes, end) ==
    /\ out' = out \o bytes
    /\ at' = end
    /\ UNCHANGED <<readVars, last, code, pc>>

\* A packet; one of data takes n bytes, one of a run takes 1.
Header == Peek(stream, at, BYTE)
IsRun == Header > MAX_PACKET
PacketLen == IF IsRun THEN Pow(BYTE) + 1 - Header ELSE Header + 1
PacketEnd == at + BYTE + (IF IsRun THEN 1 ELSE PacketLen) * BYTE
PacketUsable == Header # MAX_PACKET /\ Has(stream, 0, PacketEnd) /\ Fits(PacketLen)

ReadLiterals ==
    /\ pc = "packet" /\ at < Len(stream) /\ PacketUsable /\ ~IsRun
    /\ Take(BytesAt(at + BYTE, PacketLen), PacketEnd)

ReadRun ==
    /\ pc = "packet" /\ at < Len(stream) /\ PacketUsable /\ IsRun
    /\ Take(Repeated(PacketLen, Peek(stream, at + BYTE, BYTE)), PacketEnd)

RejectPacket == pc = "packet" /\ at < Len(stream) /\ ~PacketUsable /\ Reject

PacketsEnd == pc = "packet" /\ at = Len(stream) /\ Decoded

\* A token: a bit, a gamma code, a byte or as many as it says.
TokenIsRun == Peek(stream, at, 1) = 1
Ones == {p \in at + 1 .. Len(stream) - 1 : stream[p + 1] = 1}
GammaExtra == Min(Ones) - (at + 1)
GammaEnd == Min(Ones) + 1 + GammaExtra
read_gamma == Pow(GammaExtra) + Peek(stream, Min(Ones) + 1, GammaExtra)
TokenLen == IF TokenIsRun THEN read_gamma + 2 ELSE read_gamma
TokenEnd == GammaEnd + (IF TokenIsRun THEN 1 ELSE TokenLen) * BYTE
TokenUsable ==
    Ones # {} /\ Has(stream, 0, GammaEnd) /\ Fits(TokenLen) /\ Has(stream, 0, TokenEnd)

ReadToken ==
    /\ pc = "token" /\ Len(out) < room /\ TokenUsable
    /\ Take(IF TokenIsRun THEN Repeated(TokenLen, Peek(stream, GammaEnd, BYTE))
                          ELSE BytesAt(GammaEnd, TokenLen), TokenEnd)

RejectToken == pc = "token" /\ Len(out) < room /\ ~TokenUsable /\ Reject

\* What follows the last token is not looked at.
TokensEnd == pc = "token" /\ Len(out) >= room /\ Decoded

DecodeRuns ==
    \/ ReadLiterals \/ ReadRun \/ RejectPacket \/ PacketsEnd
    \/ ReadToken \/ RejectToken \/ TokensEnd
=============================================================================
