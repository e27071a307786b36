------------------------------ MODULE Huffman ------------------------------
(***************************************************************************)
(* The codec of crates/codecs/src/codecs/huffman.rs: the code lengths of   *)
(* all symbols, then the code of every symbol of the input.                *)
(*                                                                         *)
(* compress runs code_lengths on the counts of the input; its stream       *)
(* arrives whole, cut or with one bit changed; decompress reads lengths    *)
(* and symbols.                                                            *)
(***************************************************************************)
EXTENDS HuffmanCode, SequencesExt

CONSTANTS
    Inputs,     \* the inputs
    Changed,    \* the inputs whose stream may have a bit changed
    BYTE,       \* bits of a byte
    LEN_BITS    \* bits of a code length in the stream

ASSUME FieldAssumption ==
    /\ Inputs \subseteq Seq(Symbol) /\ Changed \subseteq Inputs
    /\ BYTE \in Nat \ {0} /\ LEN_BITS \in Nat \ {0}
    /\ MAX_CODE_LEN < Pow(LEN_BITS)

VARIABLES
    data,
    stream,   \* the bits, whole bytes of them
    fate,     \* "whole", "cut" or "changed"
    pc,       \* "compress", "table", "symbols", "ok", "eof" or "corrupt"
    at,       \* bits decompress has read
    decoder,
    out

streamVars == <<stream, fate>>
decodeVars == <<at, decoder, out>>
vars == <<huffmanVars, data, streamVars, pc, decodeVars>>

CountsOf(d) == [s \in Symbol |-> Cardinality({i \in DOMAIN d : d[i] = s})]

Init ==
    /\ data \in Inputs
    /\ HuffmanInit(CountsOf(data))
    /\ stream = <<>> /\ fate = "whole" /\ pc = "compress"
    /\ at = 0 /\ decoder = <<>> /\ out = <<>>

CodeLengths == code_lengths /\ UNCHANGED <<data, streamVars, pc, decodeVars>>

InOrder == SetToSortSeq(Symbol, <)

\* BitWriter::finish: whole bytes.
Padded(bits) ==
    bits \o [i \in 1 .. (BYTE - (Len(bits) % BYTE)) % BYTE |-> 0]

Compressed ==
    IF data = <<>> THEN <<>>
    ELSE Padded(FlattenSeq([i \in DOMAIN InOrder |-> Bits(lengths[InOrder[i]], LEN_BITS)])
                  \o FlattenSeq([i \in DOMAIN data |-> Code(lengths, data[i])]))

\* The stream arrives.
Transport ==
    /\ hpc = "done" /\ pc = "compress"
    /\ \/ stream' = Compressed /\ fate' = "whole"
       \/ \E size \in 0 .. Len(Compressed) \div BYTE - 1 :
            stream' = SubSeq(Compressed, 1, size * BYTE) /\ fate' = "cut"
       \/ /\ data \in Changed
          /\ \E i \in DOMAIN Compressed : stream' = [Compressed EXCEPT ![i] = 1 - @]
          /\ fate' = "changed"
    /\ pc' = "table"
    /\ UNCHANGED <<huffmanVars, data, decodeVars>>

Return(result) ==
    /\ pc' = result
    /\ UNCHANGED <<huffmanVars, data, streamVars, decodeVars>>

Header == Cardinality(Symbol) * LEN_BITS
LengthsRead ==
    [s \in Symbol |-> Peek(stream, (IndexFirstSubSeq(<<s>>, InOrder) - 1) * LEN_BITS, LEN_BITS)]
Unusable == Coded(LengthsRead) = {} \/ ~Valid(LengthsRead)

\* expected_len is the length of the input.
NothingExpected == pc = "table" /\ data = <<>> /\ Return("ok")
TableMissing == pc = "table" /\ data # <<>> /\ ~Has(stream, 0, Header) /\ Return("eof")
TableUnusable ==
    pc = "table" /\ data # <<>> /\ Has(stream, 0, Header) /\ Unusable /\ Return("corrupt")

ReadTable ==
    /\ pc = "table" /\ data # <<>> /\ Has(stream, 0, Header) /\ ~Unusable
    /\ decoder' = Decoder(LengthsRead)
    /\ at' = Header
    /\ pc' = "symbols"
    /\ UNCHANGED <<huffmanVars, data, streamVars, out>>

\* Mutant: consume is not checked.
EnoughAlways(e) == TRUE
Enough(e) == Has(stream, at, e.len)

\* Decoder::read
ReadSymbol ==
    /\ pc = "symbols" /\ Len(out) < Len(data)
    /\ LET e == Entry(decoder, stream, at) IN
       /\ pc' = IF e.len = 0 THEN "corrupt" ELSE IF Enough(e) THEN "symbols" ELSE "eof"
       /\ IF pc' = "symbols"
          THEN at' = at + e.len /\ out' = Append(out, e.sym)
          ELSE UNCHANGED <<at, out>>
    /\ UNCHANGED <<huffmanVars, data, streamVars, decoder>>

AllRead == pc = "symbols" /\ Len(out) = Len(data) /\ Return("ok")

Decompress ==
    NothingExpected \/ TableMissing \/ TableUnusable \/ ReadTable \/ ReadSymbol \/ AllRead

Next == CodeLengths \/ Transport \/ Decompress

Spec == Init /\ [][Next]_vars

-----------------------------------------------------------------------------
(***************************************************************************)
(* A stream that lost its end is never accepted, although the bits past it *)
(* are peeked at as zeros: no code is the start of another, so what is     *)
(* left of a code and zeros make no shorter one.                           *)
(***************************************************************************)
CutIsNoticed == fate = "cut" => pc # "ok"

Outcome ==
    CASE pc = "ok"                  -> "ok"
      [] pc \in {"eof", "corrupt"}  -> "error"
      [] OTHER                      -> "running"

\* Huffman coding keeps the promise of the trait Codec: every code a length
\* limited or not gives decodes to its symbol through the table.
C == INSTANCE Codec WITH
        Byte <- Symbol, input <- data, intact <- fate = "whole", output <- out,
        result <- Outcome

ImplementsCodec == C!Spec
=============================================================================
