------------------------------- MODULE Gzip -------------------------------
(***************************************************************************)
(* gzip files, crates/codecs/src/gzip.rs: members one after another, each  *)
(* a header, a Deflate stream, a checksum and a size.                      *)
(*                                                                         *)
(* compress writes one member without optional fields; decompress also     *)
(* reads the files of other programs, so a file may have several members   *)
(* and every optional field.  The fixed part of a header is a byte for the *)
(* magic and the method, two for the flags and one for the fields that are *)
(* skipped; checksum and size are a byte each.                             *)
(***************************************************************************)
EXTENDS Inflate

CONSTANTS
    crc32(_),    \* the checksum
    MAGIC        \* the byte a header starts with

\* The bits of the flags of a header.  Bit 0 says nothing to decompress.
FHCRC == 1
FEXTRA == 2
FNAME == 3
FCOMMENT == 4
RESERVED == 5

ASSUME GzipAssumption == 2 * BYTE > RESERVED /\ MAGIC \in 1 .. Pow(BYTE) - 1

VARIABLES
    members,  \* what is compressed: tokens, and how they are to be written
    index,    \* the member that is written
    ends      \* history: the lengths of file and data after each member

memberVars == <<members, index, ends>>

Member == members[index]

-----------------------------------------------------------------------------
(* Writing. *)

Flags(flags) == [i \in 1 .. 2 * BYTE |-> IF i - 1 \in flags THEN 1 ELSE 0]

\* An extra field of one byte, names of one byte.
Optional(flags) ==
    (IF FEXTRA \in flags THEN Bits(1, BYTE) \o Bits(0, BYTE) ELSE <<>>)
      \o (IF FNAME \in flags THEN Bits(1, BYTE) \o Bits(0, BYTE) ELSE <<>>)
      \o (IF FCOMMENT \in flags THEN Bits(1, BYTE) \o Bits(0, BYTE) ELSE <<>>)
      \o (IF FHCRC \in flags THEN Bits(0, BYTE) ELSE <<>>)

WriteHeader ==
    /\ pc = "member"
    /\ bits' = bits \o Bits(MAGIC, BYTE) \o Flags(Member.flags) \o Bits(0, BYTE)
                 \o Optional(Member.flags)
    /\ done' = 0
    /\ pc' = "deflate"
    /\ UNCHANGED <<blocks, memberVars>>

MemberData == Expanded(Member.tokens)

Trailer(bytes) == Bits(crc32(bytes), BYTE) \o Bits(Len(bytes) % Pow(BYTE), BYTE)

WriteTrailer ==
    /\ pc = "deflated"
    /\ bits' = bits \o Trailer(MemberData)
    /\ ends' = Append(ends, [size |-> Len(bits'), data |-> Len(MemberData)
                               + IF ends = <<>> THEN 0 ELSE Last(ends).data])
    /\ index' = index + 1
    /\ pc' = IF index = Len(members) THEN "written" ELSE "member"
    /\ UNCHANGED <<done, blocks, members>>

-----------------------------------------------------------------------------
(* Reading. *)

\* header_len: where each optional field ends, if it is there.
Flag(i) == Peek(stream, at + BYTE + i, 1) = 1
HeaderEnd == at + 4 * BYTE
ExtraEnd == HeaderEnd + IF Flag(FEXTRA) THEN (1 + Peek(stream, HeaderEnd, BYTE)) * BYTE ELSE 0
Zeros(place) ==
    {p \in place .. Len(stream) - BYTE : (p - place) % BYTE = 0 /\ Peek(stream, p, BYTE) = 0}
NameEnd == IF Flag(FNAME) THEN Min(Zeros(ExtraEnd)) + BYTE ELSE ExtraEnd
CommentEnd == IF Flag(FCOMMENT) THEN Min(Zeros(NameEnd)) + BYTE ELSE NameEnd
HeaderLen == CommentEnd + (IF Flag(FHCRC) THEN BYTE ELSE 0)

HeaderUsable ==
    /\ Has(stream, at, 4 * BYTE)
    /\ Peek(stream, at, BYTE) = MAGIC
    /\ ~Flag(RESERVED)
    /\ Flag(FEXTRA) => Has(stream, HeaderEnd, BYTE)
    /\ Flag(FNAME) => Zeros(ExtraEnd) # {}
    /\ Flag(FCOMMENT) => Zeros(NameEnd) # {}
    /\ HeaderLen <= Len(stream)

ReadHeader ==
    /\ pc = "gunzip" /\ HeaderUsable
    /\ at' = HeaderLen
    /\ pc' = "block"
    /\ UNCHANGED <<readVars, last, code, out>>

RejectHeader == pc = "gunzip" /\ ~HeaderUsable /\ Reject

TrailerAt == Aligned(at)

TrailerIntact ==
    /\ Has(stream, TrailerAt, 2 * BYTE)
    /\ SubSeq(stream, TrailerAt + 1, TrailerAt + 2 * BYTE)
         = Trailer(SubSeq(out, start + 1, Len(out)))

ReadTrailer ==
    /\ pc = "inflated" /\ TrailerIntact
    /\ at' = TrailerAt + 2 * BYTE
    /\ start' = Len(out)
    /\ pc' = IF at' = Len(stream) THEN "ok" ELSE "gunzip"
    /\ UNCHANGED <<stream, room, last, code, out>>

RejectTrailer == pc = "inflated" /\ ~TrailerIntact /\ Reject

WriteMember == WriteHeader \/ WriteTrailer
ReadMember == ReadHeader \/ RejectHeader \/ ReadTrailer \/ RejectTrailer
=============================================================================
