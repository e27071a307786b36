------------------------------- MODULE Frame -------------------------------
(***************************************************************************)
(* The frame of crates/codecs/src/frame.rs, what the program writes to a   *)
(* .cmpr file: a header that names a codec and gives length and checksum   *)
(* of the data, then what the codec made of it.                            *)
(*                                                                         *)
(* Of the registry in lib.rs there are store, the run-length codecs and    *)
(* Deflate; the other codecs have specifications of their own.  Magic,     *)
(* version, id and checksum are a byte each, the length is two.            *)
(***************************************************************************)
EXTENDS Gzip, RunLength

CONSTANTS
    FRAME_MAGIC, VERSION,
    CodecIds    \* the id of each codec, by name

\* What a codec starts with, and what reads its output.
Codecs == {"store", "packbits", "rle", "deflate"}
FirstRead ==
    [store |-> "copy", packbits |-> "packet", rle |-> "token", deflate |-> "block"]

ASSUME FrameAssumption ==
    /\ FRAME_MAGIC \in 0 .. Pow(BYTE) - 1 /\ VERSION \in 0 .. Pow(BYTE) - 1
    /\ CodecIds \in [Codecs -> 0 .. Pow(BYTE) - 1] /\ IsInjective(CodecIds)

HEADER_LEN == 6 * BYTE

-----------------------------------------------------------------------------
(* encode *)

FrameHeader(codec, data) ==
    write_byte(FRAME_MAGIC) \o write_byte(VERSION) \o write_byte(CodecIds[codec])
      \o Bits(Len(data), 2 * BYTE) \o write_byte(crc32(data))

WriteFrameHeader(codec, data) ==
    /\ pc = "frame"
    /\ bits' = FrameHeader(codec, data)
    /\ pc' = codec
    /\ UNCHANGED <<done, blocks, literal_start>>

\* Store::compress
Store(data) ==
    /\ pc = "store"
    /\ bits' = bits \o Bytes(data)
    /\ pc' = "compressed"
    /\ UNCHANGED <<done, blocks, literal_start>>

-----------------------------------------------------------------------------
(* decode *)

\* read_header, codec_by_id
CodecId == Peek(stream, 2 * BYTE, BYTE)
FrameUsable ==
    /\ Has(stream, 0, HEADER_LEN)
    /\ Peek(stream, 0, BYTE) = FRAME_MAGIC
    /\ Peek(stream, BYTE, BYTE) = VERSION
    /\ CodecId \in Range(CodecIds)

\* The length in the header is what the codec is told to expect.
ReadFrameHeader ==
    /\ pc = "unframe" /\ FrameUsable
    /\ room' = Peek(stream, 3 * BYTE, 2 * BYTE)
    /\ at' = HEADER_LEN
    /\ pc' = FirstRead[CHOOSE c \in Codecs : CodecIds[c] = CodecId]
    /\ UNCHANGED <<stream, start, last, code, out>>

RejectFrame == pc = "unframe" /\ ~FrameUsable /\ Reject

\* Store::decompress
StoreUsable == (Len(stream) - at) = room * BYTE

Copy ==
    /\ pc = "copy" /\ StoreUsable
    /\ out' = BytesAt(at, room)
    /\ pc' = "decoded"
    /\ UNCHANGED <<readVars, at, last, code>>

RejectCopy == pc = "copy" /\ ~StoreUsable /\ Reject

\* Deflate::decompress takes a stream and nothing after it.
\* Mutant: what comes after it is not looked at.
AllUsedLax == TRUE
AllUsed == Aligned(at) = Len(stream)
OnlyStream == pc = "inflated" /\ AllUsed /\ Decoded
DataAfterEnd == pc = "inflated" /\ ~AllUsed /\ Reject

\* Mutant: data shorter than the header says is left to the checksum.
FrameIntactLax == crc32(out) = Peek(stream, 5 * BYTE, BYTE)
FrameIntact == Len(out) = room /\ crc32(out) = Peek(stream, 5 * BYTE, BYTE)

Accept == pc = "decoded" /\ FrameIntact /\ pc' = "ok" /\ UNCHANGED inflateVars
RejectData == pc = "decoded" /\ ~FrameIntact /\ Reject

ReadFrame ==
    \/ ReadFrameHeader \/ RejectFrame \/ Copy \/ RejectCopy \/ DecodeRuns
    \/ Accept \/ RejectData
=============================================================================
