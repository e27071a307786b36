------------------------------- MODULE BitIO -------------------------------
(***************************************************************************)
(* The bit writer and the bit reader of crates/codecs/src/bits.rs, over    *)
(* bytes of BYTE bits (8 in the code) and fields of up to FIELD bits (32). *)
(*                                                                         *)
(* A program of operations is written; the stream is stored, perhaps cut   *)
(* short; a reader repeats the program, looking ahead whenever it likes.   *)
(***************************************************************************)
EXTENDS Naturals, Sequences

CONSTANTS
    BYTE,       \* bits of a byte
    FIELD,      \* most bits of one read or write
    Programs    \* sequences of operations

\* bits: the low n bits of value; gamma: the number value in a gamma code;
\* align: to the next byte.
Op == [kind: {"bits", "gamma", "align"}, value: Nat, n: 0 .. FIELD]

\* 2 ^ k.
Pow(k) ==
    LET p[j \in 0 .. k] == IF j = 0 THEN 1 ELSE 2 * p[j - 1]
    IN p[k]

ASSUME BitsAssumption ==
    /\ BYTE \in Nat \ {0}
    /\ FIELD \in Nat \ {0}
    /\ \A p \in Programs : p \in Seq(Op)
    /\ \A p \in Programs : \A i \in DOMAIN p :
          /\ p[i].kind = "bits" => p[i].value < Pow(p[i].n)
          /\ p[i].kind = "gamma" => p[i].value \in 1 .. Pow(2 * FIELD) - 1

VARIABLES
    program,
    pc,         \* "write", "stored", "read", and the outcome "ok" or "eof"
    at,         \* operations of the program done
    w,          \* BitWriter: out, acc, nbits
    lens,       \* history: bits written before each operation
    data,       \* the bytes the reader has
    r,          \* BitReader: pos, acc, nbits
    got         \* the values read

vars == <<program, pc, at, w, lens, data, r, got>>

-----------------------------------------------------------------------------
(* BitWriter. *)

\* The value joins the accumulator, whose full bytes move to out.
write_bits(b, value, n) ==
    LET acc == b.acc + value * Pow(b.nbits)
        full == (b.nbits + n) \div BYTE
    IN [out |-> b.out \o [i \in 1 .. full |-> (acc \div Pow(BYTE * (i - 1))) % Pow(BYTE)],
        acc |-> acc \div Pow(BYTE * full),
        nbits |-> (b.nbits + n) % BYTE]

\* The number of bits of n below its leading one.
Extra(n) == CHOOSE k \in 0 .. 2 * FIELD - 1 : Pow(k) <= n /\ n < Pow(k + 1)

\* A field of up to 2 * FIELD bits, the low ones first.
WriteLong(b, value, n) ==
    IF n > FIELD
    THEN write_bits(write_bits(b, value % Pow(FIELD), FIELD), value \div Pow(FIELD), n - FIELD)
    ELSE write_bits(b, value, n)

\* Zeros that say how many bits follow, a one, the bits below it.
write_gamma(b, n) ==
    LET extra == Extra(n) IN
    WriteLong(write_bits(WriteLong(b, 0, extra), 1, 1), n - Pow(extra), extra)

WriterAlign(b) == IF b.nbits > 0 THEN write_bits(b, 0, BYTE - b.nbits) ELSE b

bit_len(b) == Len(b.out) * BYTE + b.nbits

Init ==
    /\ program \in Programs
    /\ pc = "write" /\ at = 0
    /\ w = [out |-> <<>>, acc |-> 0, nbits |-> 0]
    /\ lens = <<>>
    /\ data = <<>>
    /\ r = [pos |-> 0, acc |-> 0, nbits |-> 0]
    /\ got = <<>>

Written(op) ==
    CASE op.kind = "bits" -> write_bits(w, op.value, op.n)
      [] op.kind = "gamma" -> write_gamma(w, op.value)
      [] op.kind = "align" -> WriterAlign(w)

Write ==
    /\ pc = "write" /\ at < Len(program)
    /\ w' = Written(program[at + 1])
    /\ lens' = Append(lens, bit_len(w))
    /\ at' = at + 1
    /\ UNCHANGED <<program, pc, data, r, got>>

\* The partial byte is flushed, padded with zeros.
Finish ==
    /\ pc = "write" /\ at = Len(program)
    /\ w' = WriterAlign(w)
    /\ lens' = Append(lens, bit_len(w))
    /\ pc' = "stored" /\ at' = 0
    /\ UNCHANGED <<program, data, r, got>>

\* The stream reaches the reader, whole or cut.
Transport ==
    /\ pc = "stored"
    /\ \E n \in 0 .. Len(w.out) : data' = SubSeq(w.out, 1, n)
    /\ pc' = "read"
    /\ UNCHANGED <<program, at, w, lens, r, got>>

-----------------------------------------------------------------------------
(* BitReader. *)

\* Bytes are loaded until there are n bits, or none is left.
Loaded(b, n) ==
    LET wanted == IF b.nbits >= n THEN 0 ELSE (n - b.nbits + BYTE - 1) \div BYTE
        left == Len(data) - b.pos
        count == IF wanted <= left THEN wanted ELSE left
        value[i \in 0 .. count] ==
          IF i = 0 THEN b.acc
          ELSE value[i - 1] + data[b.pos + i] * Pow(b.nbits + BYTE * (i - 1))
    IN [pos |-> b.pos + count, acc |-> value[count], nbits |-> b.nbits + BYTE * count]

Dropped(b, n) == [b EXCEPT !.acc = @ \div Pow(n), !.nbits = @ - n]

\* Bits that do not exist read as zeros.
peek_bits(n) == Loaded(r, n).acc % Pow(n)

\* A reader that has read: whether it could, what it read, where it is then.
Result(ok, value, b) == [ok |-> ok, value |-> value, reader |-> b]

\* read_bits: the bytes loaded stay loaded when there are not enough.
\* Mutant: missing bits are zeros.
read_bitsLax(b, n) ==
    LET loaded == Loaded(b, n) IN
    Result(TRUE, loaded.acc % Pow(n),
           Dropped(loaded, IF loaded.nbits < n THEN loaded.nbits ELSE n))
read_bits(b, n) ==
    LET loaded == Loaded(b, n) IN
    IF loaded.nbits < n
    THEN Result(FALSE, 0, loaded)
    ELSE Result(TRUE, loaded.acc % Pow(n), Dropped(loaded, n))

\* Mutant: the low bits come last.
ReadLongSwapped(b, n) ==
    IF n <= FIELD THEN read_bits(b, n)
    ELSE LET high == read_bits(b, n - FIELD)
             low == read_bits(high.reader, FIELD)
         IN IF high.ok THEN Result(low.ok, low.value + high.value * Pow(FIELD), low.reader)
            ELSE high
ReadLong(b, n) ==
    IF n <= FIELD THEN read_bits(b, n)
    ELSE LET low == read_bits(b, FIELD)
             high == read_bits(low.reader, n - FIELD)
         IN IF low.ok THEN Result(high.ok, low.value + high.value * Pow(FIELD), high.reader)
            ELSE low

\* The zeros, then the one that ends them: up to 2 * FIELD - 1, or not ok.
read_gamma(b) ==
    LET zeros[k \in 0 .. 2 * FIELD] ==   \* the reader after k zeros
          IF k = 0 THEN Result(TRUE, 0, b)
          ELSE LET before == zeros[k - 1]
                   bit == read_bits(before.reader, 1)
               IN IF before.ok THEN Result(bit.ok /\ bit.value = 0, bit.value, bit.reader)
                  ELSE before
        extra == CHOOSE k \in 0 .. 2 * FIELD - 1 :
                   zeros[k].ok /\ ~zeros[k + 1].ok
        rest == ReadLong(zeros[extra + 1].reader, extra)
    IN IF zeros[2 * FIELD].ok \/ zeros[extra + 1].value = 0
       THEN Result(FALSE, 0, zeros[2 * FIELD].reader)
       ELSE Result(rest.ok, Pow(extra) + rest.value, rest.reader)

\* The padding is dropped.  Mutant: and all that was read ahead.
ReaderAlignAll(b) == Dropped(b, b.nbits)
ReaderAlign(b) == Dropped(b, b.nbits % BYTE)

byte_position == r.pos - r.nbits \div BYTE
bits_remaining == (Len(data) - r.pos) * BYTE + r.nbits

ReadBy(op) ==
    CASE op.kind = "bits" -> read_bits(r, op.n)
      [] op.kind = "gamma" -> read_gamma(r)
      [] op.kind = "align" -> Result(TRUE, 0, ReaderAlign(r))

Read ==
    /\ pc = "read" /\ at < Len(program)
    /\ LET read == ReadBy(program[at + 1]) IN
         /\ r' = read.reader
         /\ pc' = IF read.ok THEN "read" ELSE "eof"
         /\ at' = IF read.ok THEN at + 1 ELSE at
         /\ got' = IF read.ok THEN Append(got, read.value) ELSE got
    /\ UNCHANGED <<program, w, lens, data>>

\* peek_bits, its result not used: only bytes are loaded.
Peek ==
    /\ pc = "read"
    /\ \E n \in 0 .. FIELD : r' = Loaded(r, n)
    /\ UNCHANGED <<program, pc, at, w, lens, data, got>>

\* peek_bits of at least n bits, then consume(n).
PeekConsume ==
    /\ pc = "read" /\ at < Len(program)
    /\ LET op == program[at + 1] IN
         /\ op.kind = "bits"
         /\ \E ahead \in op.n .. FIELD :
              LET loaded == Loaded(r, ahead) IN
              IF op.n > loaded.nbits
              THEN pc' = "eof" /\ r' = loaded /\ UNCHANGED <<at, got>>
              ELSE /\ r' = Dropped(loaded, op.n)
                   /\ got' = Append(got, peek_bits(ahead) % Pow(op.n))
                   /\ at' = at + 1
                   /\ UNCHANGED pc
    /\ UNCHANGED <<program, w, lens, data>>

ReadAll ==
    /\ pc = "read" /\ at = Len(program)
    /\ pc' = "ok"
    /\ UNCHANGED <<program, at, w, lens, data, r, got>>

Next == Write \/ Finish \/ Transport \/ Read \/ Peek \/ PeekConsume \/ ReadAll

Spec == Init /\ [][Next]_vars

-----------------------------------------------------------------------------
(* Properties. *)

\* However far ahead peek_bits loaded, the reader stands at the operation it is
\* to read: no bit is lost or read twice.
CursorExact ==
    pc \in {"read", "ok"} =>
        /\ r.pos * BYTE - r.nbits = lens[at + 1]
        /\ bits_remaining = Len(data) * BYTE - lens[at + 1]
        /\ lens[at + 1] % BYTE = 0 => byte_position * BYTE = lens[at + 1]

\* What is read is what was written, whatever is peeked at in between and
\* however much of the stream is left.
ReadsWritten ==
    \A i \in DOMAIN got : program[i].kind # "align" => got[i] = program[i].value

\* A program is read to its end if and only if the stream is whole: the zeros
\* peeked at past the end are never consumed, and nothing that exists is missed.
ReadIffWhole ==
    /\ pc = "ok" => data = w.out
    /\ pc = "eof" => data # w.out
=============================================================================
