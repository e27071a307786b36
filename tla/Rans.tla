-------------------------------- MODULE Rans --------------------------------
(***************************************************************************)
(* rANS: crates/codecs/src/ans.rs and the codec over it, codecs/rans.rs.   *)
(* The input is cut into blocks.  Each is encoded from its end with LANES  *)
(* interleaved states and stored behind its frequencies (RansFreqs) and    *)
(* its length; decompress takes the blocks apart and decodes them from     *)
(* their starts.                                                           *)
(*                                                                         *)
(* One action is one symbol encoded or decoded, or one header read.  The   *)
(* code's byte has 256 values, its word two bytes, its state four.  A file *)
(* is a sequence of numbers, the gamma-coded fields of a header (BitIO has *)
(* their bits), the bits that pad it to a byte and the bytes of the        *)
(* blocks; a decoder that is out of step takes one for the other.          *)
(***************************************************************************)
EXTENDS RansFreqs, SequencesExt

CONSTANTS
    Inputs,     \* the inputs
    BlockSizes, \* BLOCK is one of them
    BYTE,       \* values of a byte
    LANES,      \* interleaved states
    Tables,     \* frequencies another encoder may choose
    MaxRecoded, \* bound: longest input another encoder chooses them for
    Changes     \* what damage does: numbers, by their places in the file

WORD == BYTE * BYTE
L == WORD       \* lower bound of a state; a state is below L * WORD

ASSUME RansAssumption ==
    /\ Inputs \subseteq Seq(Symbols)
    /\ BlockSizes \subseteq Nat \ {0}
    /\ BYTE \in Nat \ {0, 1} /\ LANES \in Nat \ {0}
    /\ M > 0 /\ L % M = 0

ASSUME OthersAssumption ==
    /\ \A f \in Tables : f \in [Symbols -> Nat] /\ Total(f) = M
    /\ \A c \in Changes : \A k \in DOMAIN c : c[k] \in Nat

VARIABLES
    data,       \* the input
    BLOCK,      \* symbols of a block
    pc,         \* "normalize", "encode", "stored", "header", "decode" or a result
    begin,      \* compress: where the block starts
    todo,       \* encode: symbols not encoded yet, those before are last
    states,     \* encode: the states of the lanes
    words,      \* encode: the words written, in the order of writing
    file,       \* compress: the blocks written
    written,    \* history: the same blocks as records
    input,      \* decompress: what arrives of the file
    fate,       \* what happened to it: "whole", "cut", "short", "longer" or "changed"
    next,       \* decompress: position in input
    fs,         \* decode: the frequencies read
    stream,     \* decode: the bytes of the block
    first,      \* decode: where the block starts in out
    till,       \* decode: where it ends
    x,          \* decode: the states of the lanes
    pos,        \* decode: bytes used
    out         \* symbols decoded

encoder == <<freqVars, begin, todo, states, words, file, written>>
decoder == <<next, fs, stream, first, till, x, pos, out>>
vars == <<data, BLOCK, pc, encoder, input, fate, decoder>>

N == Len(data)
Lanes == 0 .. LANES - 1
Fresh == [l \in Lanes |-> L]

BlockEnd(start) == IF start + BLOCK < N THEN start + BLOCK ELSE N
Block == SubSeq(data, begin + 1, BlockEnd(begin))
CountsOf(block) == [s \in Symbols |-> Cardinality({k \in DOMAIN block : block[k] = s})]

Init ==
    /\ data \in Inputs /\ BLOCK \in BlockSizes
    /\ begin = 0
    /\ FreqInit({CountsOf(Block)})
    /\ pc = IF N = 0 THEN "stored" ELSE "normalize"
    /\ todo = Len(Block)
    /\ states = Fresh /\ words = <<>> /\ file = <<>> /\ written = {}
    /\ input = <<>> /\ fate = "whole" /\ next = 0
    /\ fs = [s \in Symbols |-> 0] /\ stream = <<>> /\ first = 0 /\ till = 0
    /\ x = Fresh /\ pos = 0 /\ out = <<>>

-----------------------------------------------------------------------------
(* compress                                                                *)

NormalizeStep ==
    /\ pc = "normalize" /\ Normalize
    /\ UNCHANGED <<data, BLOCK, pc, begin, todo, states, words, file, written, input, fate,
                   decoder>>

NormalizeDone ==
    /\ pc = "normalize" /\ step = "scaled"
    /\ pc' = "encode"
    /\ UNCHANGED <<data, BLOCK, encoder, input, fate, decoder>>

\* The file may be another encoder's, with frequencies of its own for a block.
OtherTable ==
    /\ pc = "normalize" /\ step = "scaled" /\ N <= MaxRecoded
    /\ freq' \in {f \in Tables : \A s \in Symbols : counts[s] # 0 => f[s] # 0}
    /\ pc' = "encode"
    /\ UNCHANGED <<data, BLOCK, counts, step, begin, todo, states, words, file, written,
                   input, fate, decoder>>

\* Mutant: one more than the largest state that stays below 2^32.
StateMaxLate(s) == (L \div M) * WORD * freq[s] + 1

\* Coding s keeps a state below this below 2^32.
StateMax(s) == (L \div M) * WORD * freq[s]

\* Mutant: the lanes are counted from the end.
EncodeLaneFromEnd == (Len(Block) - todo) % LANES

EncodeLane == (todo - 1) % LANES

\* The state is shrunk, once at most, and takes up the symbol.
EncodeSymbol ==
    /\ pc = "encode" /\ todo > 0
    /\ LET s     == Block[todo]
           lane  == EncodeLane
           write == states[lane] >= StateMax(s)
           state == IF write THEN states[lane] \div WORD ELSE states[lane]
       IN  /\ words' = IF write THEN Append(words, states[lane] % WORD) ELSE words
           /\ states' = [states EXCEPT ![lane] =
                            (state \div freq[s]) * M + (state % freq[s]) + Start(freq, s)]
    /\ todo' = todo - 1
    /\ UNCHANGED <<freqVars, data, BLOCK, pc, begin, file, written, input, fate, decoder>>

\* to_le_bytes
WordBytes(w) == <<w % BYTE, w \div BYTE>>
StateBytes(v) == WordBytes(v % WORD) \o WordBytes(v \div WORD)

\* The states first, then the words in reverse order of writing.
Stream ==
    FlattenSeq([k \in 1 .. LANES |-> StateBytes(states[k - 1])])
        \o FlattenSeq([k \in 1 .. Len(words) |-> WordBytes(words[Len(words) - k + 1])])

\* The length is behind the frequencies, then the padding (none if the header
\* ends on a byte): zeros, where write_gamma leaves off.
LEN == SYMBOLS + 1
HEADER == SYMBOLS + 2
Header == [k \in 1 .. SYMBOLS |-> freq[k - 1]] \o <<Len(Stream), 0>>

\* The block is written; on to the next one.
WriteBlock ==
    /\ pc = "encode" /\ todo = 0
    /\ UNCHANGED <<data, BLOCK, input, fate, decoder>>
    /\ file' = file \o Header \o Stream
    /\ written' = written \cup {[start |-> begin, freq |-> freq, stream |-> Stream]}
    /\ begin' = BlockEnd(begin)
    /\ pc' = IF begin' < N THEN "normalize" ELSE "stored"
    /\ counts' = CountsOf(Block')
    /\ freq' = [s \in Symbols |-> 0] /\ step' = "scale"
    /\ todo' = Len(Block')
    /\ states' = Fresh /\ words' = <<>>

-----------------------------------------------------------------------------
(* Where the file may go wrong.                                            *)

\* A file of one block, with less of its bytes and a length that says so.
Shortened(n) == [SubSeq(file, 1, HEADER + n) EXCEPT ![LEN] = n]

\* Some numbers of it are others, a frequency, a length, padding or a byte.
Changed(c) == [k \in DOMAIN file |-> IF k \in DOMAIN c THEN c[k] ELSE file[k]]

\* The file is stored or sent, and decompress starts.
Arrive ==
    /\ pc = "stored"
    /\ \/ fate' = "whole" /\ input' = file
       \/ fate' = "cut" /\ \E n \in 0 .. Len(file) - 1 : input' = SubSeq(file, 1, n)
       \/ /\ fate' = "short" /\ N \in 1 .. BLOCK
          /\ \E n \in 0 .. file[LEN] - 1 : input' = Shortened(n)
       \/ fate' = "longer" /\ input' = Append(file, 0)
       \/ /\ fate' = "changed"
          /\ \E c \in Changes : DOMAIN c \subseteq DOMAIN file /\ input' = Changed(c)
          /\ input' # file
    /\ pc' = "header"
    /\ UNCHANGED <<data, BLOCK, encoder, decoder>>

-----------------------------------------------------------------------------
(* decompress                                                              *)

WordAt(bytes, p) == bytes[p + 1] + BYTE * bytes[p + 2]
StateAt(bytes, p) == WordAt(bytes, p) + WORD * WordAt(bytes, p + 2)

\* The fields of the block at next, where its data ends and its data.  Nothing
\* looks at the padding (align_to_byte drops it).
Fields == SubSeq(input, next + 1, next + HEADER)
DataEnd == next + HEADER + Fields[LEN]
FreqsRead == [s \in Symbols |-> Fields[s + 1]]

BlockData == [k \in 1 .. Fields[LEN] |-> input[next + HEADER + k] % BYTE]

\* The block is there, from_freqs takes its frequencies, decode its states.
Decodable ==
    /\ next + HEADER <= Len(input) /\ DataEnd <= Len(input)
    /\ Total(FreqsRead) = M
    /\ Fields[LEN] >= 4 * LANES
    /\ \A l \in Lanes : StateAt(BlockData, 4 * l) >= L

ReadBlock ==
    /\ pc = "header" /\ Len(out) < N /\ Decodable
    /\ fs' = FreqsRead
    /\ stream' = BlockData
    /\ x' = [l \in Lanes |-> StateAt(BlockData, 4 * l)]
    /\ first' = Len(out) /\ till' = BlockEnd(Len(out))
    /\ next' = DataEnd
    /\ pos' = 4 * LANES
    /\ pc' = "decode"
    /\ UNCHANGED <<data, BLOCK, encoder, input, fate, out>>

RejectBlock ==
    /\ pc = "header" /\ Len(out) < N /\ ~Decodable
    /\ pc' = "corrupt"
    /\ UNCHANGED <<data, BLOCK, encoder, input, fate, decoder>>

\* Mutant: a word past the end does not count as used.
NextPosLenient(need) == IF need /\ pos + 2 <= Len(stream) THEN pos + 2 ELSE pos

NextPos(need) == IF need THEN pos + 2 ELSE pos

\* The next word; past the end reads as 0.
NextWord == IF pos + 2 <= Len(stream) THEN WordAt(stream, pos) ELSE 0

\* The lane is counted from the start of the block.
DecodeLane == (Len(out) - first) % LANES

DecodeSymbol ==
    /\ pc = "decode" /\ Len(out) < till
    /\ LET lane  == DecodeLane
           slot  == x[lane] % M
           s     == CHOOSE t \in Symbols : slot \in Start(fs, t) .. Start(fs, t + 1) - 1
           state == fs[s] * (x[lane] \div M) + slot - Start(fs, s)
           need  == state < L
       IN  /\ out' = Append(out, s)
           /\ x' = [x EXCEPT ![lane] = IF need THEN state * WORD + NextWord ELSE state]
           /\ pos' = NextPos(need)
    /\ UNCHANGED <<data, BLOCK, pc, encoder, input, fate, next, fs, stream, first,
                   till>>

\* Mutant: only the first lane is looked at.
EndsCleanlyFirst == pos = Len(stream) /\ x[0] = L

EndsCleanly == pos = Len(stream) /\ \A l \in Lanes : x[l] = L

DecodeEnd ==
    /\ pc = "decode" /\ Len(out) = till
    /\ pc' = IF EndsCleanly THEN "header" ELSE "corrupt"
    /\ UNCHANGED <<data, BLOCK, encoder, input, fate, decoder>>

DecompressEnd ==
    /\ pc = "header" /\ Len(out) = N
    /\ pc' = IF next = Len(input) THEN "ok" ELSE "corrupt"
    /\ UNCHANGED <<data, BLOCK, encoder, input, fate, decoder>>

Compress == NormalizeStep \/ NormalizeDone \/ OtherTable \/ EncodeSymbol \/ WriteBlock
Decompress == ReadBlock \/ RejectBlock \/ DecodeSymbol \/ DecodeEnd \/ DecompressEnd

Next == Compress \/ Arrive \/ Decompress

Spec == Init /\ [][Next]_vars

-----------------------------------------------------------------------------
(***************************************************************************)
(* "Once is always enough": one word out before a symbol is encoded, or in *)
(* after it is decoded, keeps every state within L and its 32 bits; never  *)
(* is one too large or too small for the step that comes, whatever bytes   *)
(* and frequencies arrive.                                                 *)
(***************************************************************************)
OneWordIsEnough ==
    /\ \A l \in Lanes : states[l] \in L .. L * WORD - 1
    /\ pc \in {"decode", "ok"} => \A l \in Lanes : x[l] \in L .. L * WORD - 1

(***************************************************************************)
(* "This catches truncation": a stream that lost any of its bytes is never *)
(* accepted, also where the length of its block says that they are all     *)
(* there and the decoder reads zeros in their place.                       *)
(***************************************************************************)
CutIsNoticed == fate \in {"cut", "short"} => pc # "ok"

(***************************************************************************)
(* "A clean decode ends there": the last states and the last position say  *)
(* more than where a stream was cut.  Whatever arrived for a block, if it  *)
(* has the frequencies the block was written with, ends cleanly and        *)
(* decodes to the symbols of the block, its bytes are all those that were  *)
(* written.  Each symbol decoded undoes one encoded, each lane ends where  *)
(* the encoder began and each byte is used, so no second stream leads to   *)
(* the same symbols.  (It may with other frequencies, and the padding may  *)
(* be anything: no part of the format binds those to the input.)           *)
(***************************************************************************)
OneStreamPerTable ==
    pc \in {"header", "ok"} /\ out # <<>> =>
        \A w \in written :
            /\ w.start = first /\ w.freq = fs
            /\ \A k \in first + 1 .. Len(out) : out[k] = data[k]
            => stream = w.stream

Outcome == IF pc = "ok" THEN "ok" ELSE IF pc = "corrupt" THEN "error" ELSE "running"

\* rANS keeps the promise of the trait Codec.
C == INSTANCE Codec WITH
        Byte <- Symbols, input <- data, intact <- fate = "whole", output <- out,
        result <- Outcome

ImplementsCodec == C!Spec
=============================================================================
