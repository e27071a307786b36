-------------------------------- MODULE Lzss --------------------------------
(***************************************************************************)
(* LZSS, crates/codecs/src/codecs/lzss.rs: compress parses the input with  *)
(* Lz77 and writes each token as fields of fixed width; decompress reads   *)
(* the fields back and copies matches byte by byte (copy_match of          *)
(* lz77.rs).                                                               *)
(*                                                                         *)
(* Between the two the stream may be cut or damaged.  Damage of the bits   *)
(* from some token on also moves the field boundaries, so what is read     *)
(* after it may be any field values, or the end of the input.              *)
(***************************************************************************)
EXTENDS Lz77

CONSTANTS
    LenField,   \* values of the length field (8 bits)
    DistField   \* values of the distance field (15 bits)

ASSUME FieldsAssumption ==
    /\ LenField \in Nat /\ MAX_MATCH - MIN_MATCH < LenField
    /\ DistField \in Nat /\ WINDOW <= DistField

VARIABLES
    wire,     \* the fields written, one record per token
    good,     \* tokens that arrive as they were written
    cut,      \* TRUE: the stream ends after them; FALSE: garbage follows
    status,   \* the loop compress or decompress is in, or the result
    read,     \* tokens read
    out,      \* bytes decompressed
    from,     \* copy_match: index of the next byte to copy
    left      \* copy_match: bytes still to copy

lzssVars == <<wire, good, cut, status, read, out, from, left>>
allVars  == <<vars, lzssVars>>

LiteralFields(b) == [flag |-> FALSE, byte |-> b]
MatchFields(l, d) == [flag |-> TRUE, len |-> l, dist |-> d]

Garbage ==
    {LiteralFields(b) : b \in Byte}
        \cup {MatchFields(l, d) : l \in 0 .. LenField - 1, d \in 0 .. DistField - 1}

\* Mutant: the distance is written without subtracting 1.
FieldsNotBiased(token) ==
    IF token.kind = "literal"
    THEN LiteralFields(token.byte)
    ELSE MatchFields((token.len - MIN_MATCH) % LenField, token.dist % DistField)

\* The fields of a token; write_bits keeps the low bits of a value.
Fields(token) ==
    IF token.kind = "literal"
    THEN LiteralFields(token.byte)
    ELSE MatchFields((token.len - MIN_MATCH) % LenField, (token.dist - 1) % DistField)

LzssInit ==
    /\ Init
    /\ wire = <<>> /\ good = 0 /\ cut = FALSE
    /\ status = "writing"
    /\ read = 0 /\ out = <<>> /\ from = 0 /\ left = 0

Parse == Next /\ UNCHANGED lzssVars

\* compress writes the next token.
WriteToken ==
    /\ status = "writing" /\ pc = "parsed" /\ Len(wire) < Len(tokens)
    /\ wire' = Append(wire, Fields(tokens[Len(wire) + 1]))
    /\ UNCHANGED <<vars, good, cut, status, read, out, from, left>>

\* The stream is stored or sent, whole or not, and decompress starts.
Transport ==
    /\ status = "writing" /\ pc = "parsed" /\ Len(wire) = Len(tokens)
    /\ good' \in 0 .. Len(wire) /\ cut' \in BOOLEAN
    /\ status' = "reading"
    /\ UNCHANGED <<vars, wire, read, out, from, left>>

Reading == status = "reading" /\ Len(out) < N

\* Mutant: bits past the end read as zeros or leftovers instead of an error.
ArrivingForever == IF read < good THEN {wire[read + 1]} ELSE Garbage

\* The fields that may be read next.
Arriving ==
    IF read < good THEN {wire[read + 1]} ELSE IF cut THEN {} ELSE Garbage

ReadLiteral ==
    /\ Reading
    /\ \E f \in Arriving :
        /\ ~f.flag
        /\ out' = Append(out, f.byte)
    /\ read' = read + 1
    /\ UNCHANGED <<vars, wire, good, cut, status, from, left>>

\* Mutant: the length is not checked.
RejectedLax(len, dist) == dist > Len(out)
Rejected(len, dist) == dist > Len(out) \/ len > N - Len(out)

\* The len bytes at dist bytes back, when they are all there already.
Source(len, dist) == SubSeq(out, Len(out) - dist + 1, Len(out) - dist + len)

\* copy_match, source and destination apart: copied whole.
ReadMatch ==
    /\ Reading
    /\ \E f \in Arriving :
        LET len == f.len + MIN_MATCH
            dist == f.dist + 1
        IN  /\ f.flag /\ ~Rejected(len, dist)
            /\ len <= dist
            /\ out' = out \o Source(len, dist)
    /\ read' = read + 1
    /\ UNCHANGED <<vars, wire, good, cut, status, from, left>>

\* copy_match, the copy overlaps its source: byte by byte.
ReadOverlap ==
    /\ Reading
    /\ \E f \in Arriving :
        LET len == f.len + MIN_MATCH
            dist == f.dist + 1
        IN  /\ f.flag /\ ~Rejected(len, dist)
            /\ len > dist
            /\ from' = Len(out) - dist
            /\ left' = len
    /\ status' = "copying"
    /\ read' = read + 1
    /\ UNCHANGED <<vars, wire, good, cut, out>>

CopyByte ==
    /\ status = "copying" /\ left > 0
    /\ out' = Append(out, out[from + 1])
    /\ from' = from + 1 /\ left' = left - 1
    /\ UNCHANGED <<vars, wire, good, cut, status, read>>

CopyDone ==
    /\ status = "copying" /\ left = 0
    /\ status' = "reading"
    /\ UNCHANGED <<vars, wire, good, cut, read, out, from, left>>

\* A match that reaches before the start or past the end: Error::Corrupt.
RejectMatch ==
    /\ Reading
    /\ \E f \in Arriving : f.flag /\ Rejected(f.len + MIN_MATCH, f.dist + 1)
    /\ status' = "corrupt"
    /\ read' = read + 1
    /\ UNCHANGED <<vars, wire, good, cut, out, from, left>>

\* The stream ends within the next token: Error::UnexpectedEof.
ReadEof ==
    /\ Reading /\ read >= good
    /\ status' = "eof"
    /\ read' = read + 1
    /\ UNCHANGED <<vars, wire, good, cut, out, from, left>>

\* expected_len bytes are there: decompress returns them.
Complete ==
    /\ status = "reading" /\ Len(out) >= N
    /\ status' = "ok"
    /\ UNCHANGED <<vars, wire, good, cut, read, out, from, left>>

Decompress ==
    \/ ReadLiteral \/ ReadMatch \/ ReadOverlap \/ CopyByte \/ CopyDone
    \/ RejectMatch \/ ReadEof \/ Complete

LzssNext == Parse \/ WriteToken \/ Transport \/ Decompress

LzssSpec == LzssInit /\ [][LzssNext]_allVars

\* compress and decompress run until they return; the stream is delivered.
LzssFairSpec == LzssSpec /\ WF_allVars(LzssNext)

-----------------------------------------------------------------------------
Results == {"ok", "eof", "corrupt"}

\* Types of the variables of compress and decompress.
LzssTypeOK ==
    /\ wire \in Seq(Garbage)
    /\ good \in 0 .. Len(wire) /\ cut \in BOOLEAN
    /\ status \in {"writing", "reading", "copying"} \cup Results
    /\ read \in Nat /\ out \in Seq(Byte)
    /\ from \in Nat /\ left \in Nat

(***************************************************************************)
(* What arrives as it was written is decompressed to what was compressed:  *)
(* the output is a prefix of the input, up to the first damaged token, and *)
(* no undamaged token is rejected.  A whole stream gives the whole input.  *)
(* Rests on the parse, on the fields being wide enough for its tokens and  *)
(* on the order of an overlapping copy.                                    *)
(***************************************************************************)
RoundTrip ==
    /\ read <= good => /\ Len(out) <= N
                       /\ \A i \in 1 .. Len(out) : out[i] = data[i]
                       /\ status \notin {"eof", "corrupt"}
    /\ status # "writing" /\ good = Len(wire) => read <= good
    /\ status = "ok" => Len(out) = N

(***************************************************************************)
(* Whatever is read, decompress neither produces more than expected_len    *)
(* bytes nor copies from outside what it has produced.                     *)
(***************************************************************************)
CopyInBounds ==
    /\ Len(out) + left <= N
    /\ status = "copying" /\ left > 0 => from < Len(out)

(***************************************************************************)
(* A stream that lost its end never decompresses: the error tests cut      *)
(* streams at every length.                                                *)
(***************************************************************************)
CutIsNoticed ==
    cut /\ good < Len(wire) => status # "ok"

(***************************************************************************)
(* Every call returns.  parse has two nested searches over a ring of links *)
(* that newer positions overwrite, and no bound on its steps but its       *)
(* effort and the way the links go; decompress reads whatever arrives      *)
(* until it has expected_len bytes.  No candidate may be examined, no      *)
(* position searched and no token read without getting on.                 *)
(***************************************************************************)
Returns == <>(status \in Results)

Intact == read <= good

Outcome ==
    IF status = "ok" THEN "ok"
    ELSE IF status \in {"eof", "corrupt"} THEN "error" ELSE "running"

\* LZSS keeps the promise of the trait Codec.
C == INSTANCE Codec WITH input <- data, intact <- Intact, output <- out, result <- Outcome

ImplementsCodec == C!Spec
=============================================================================
