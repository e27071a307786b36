----------------------------- MODULE Containers -----------------------------
(***************************************************************************)
(* The ways a Deflate stream, or what another codec makes, reaches a       *)
(* decompressor: alone (crates/codecs/src/codecs/deflate.rs), as members   *)
(* of a gzip file, or in a frame.  The file is written, arrives whole or   *)
(* not, and is read.                                                       *)
(***************************************************************************)
EXTENDS Frame

CONSTANTS
    Raw,         \* the members the codec Deflate compresses, one at a time
    Files,       \* the gzip files: sequences of members
    Framed,      \* what is put in frames: members, each with its codec
    Damageable   \* those of all these that may have a bit changed

ASSUME FileAssumption ==
    /\ \A f \in Files : Len(f) > 0 /\ \A i \in DOMAIN f : f[i].flags \subseteq FHCRC .. FCOMMENT
    /\ \A m \in Framed : m.codec \in Codecs

\* What members stand for together.
DataOf(f) == FlattenSeq([i \in DOMAIN f |-> Expanded(f[i].tokens)])

VARIABLES
    container,  \* "raw", "gzip" or "frame"
    data,       \* what is compressed
    fate        \* the file is "whole", "cut", "longer" or "changed"

fileVars == <<container, data, fate>>
vars == <<writeVars, pc, inflateVars, memberVars, runVars, fileVars>>

Init ==
    /\ \/ container = "raw" /\ \E m \in Raw : members = <<m>>
       \/ container = "gzip" /\ members \in Files
       \/ container = "frame" /\ \E m \in Framed : members = <<m>>
    /\ data = DataOf(members)
    /\ bits = <<>> /\ done = 0 /\ blocks = <<>>
    /\ pc = CASE container = "raw"   -> "deflate"
              [] container = "gzip"  -> "member"
              [] container = "frame" -> "frame"
    /\ stream = <<>> /\ at = 0 /\ start = 0 /\ room = Len(data)
    /\ last = FALSE /\ code = <<>> /\ out = <<>>
    /\ index = 1 /\ ends = <<>> /\ literal_start = 0 /\ fate = "whole"

-----------------------------------------------------------------------------
(* Writing. *)

Writing == UNCHANGED <<inflateVars, fileVars>>

DeflateMember ==
    /\ pc = "deflate"
    /\ \/ DeflateEmpty(Member.tokens)
       \/ Member.stored /\ DeflateStored(Member.tokens)
       \/ ~Member.stored /\ WriteBlock(Member.tokens)
    /\ Writing /\ UNCHANGED <<memberVars, runVars>>

WriteGzip == container = "gzip" /\ WriteMember /\ Writing /\ UNCHANGED runVars

WriteFrame ==
    /\ WriteFrameHeader(Member.codec, data) \/ Store(data) \/ PackBits(data) \/ Rle(data)
    /\ Writing /\ UNCHANGED memberVars

\* A codec returns to its caller.
Compressed ==
    /\ pc = "compressed" \/ (pc = "deflated" /\ container # "gzip")
    /\ ends' = <<[size |-> Len(bits), data |-> Len(data)]>>
    /\ pc' = "written"
    /\ Writing /\ UNCHANGED <<writeVars, members, index, runVars>>

\* The file is stored or sent; a write that fails leaves part of it.
Transport ==
    /\ pc = "written"
    /\ \/ stream' = bits /\ fate' = "whole"
       \/ \E size \in 0 .. Len(bits) \div BYTE - 1 :
            stream' = SubSeq(bits, 1, size * BYTE) /\ fate' = "cut"
       \/ \E byte \in 0 .. Pow(BYTE) - 1 : stream' = bits \o write_byte(byte) /\ fate' = "longer"
       \/ /\ members \in Damageable
          /\ \E i \in DOMAIN bits : stream' = [bits EXCEPT ![i] = 1 - @]
          /\ fate' = "changed"
    /\ pc' = CASE container = "raw"   -> "block"
               [] container = "gzip"  -> "gunzip"
               [] container = "frame" -> "unframe"
    /\ UNCHANGED <<writeVars, at, start, room, last, code, out, memberVars, runVars,
                   container, data>>

-----------------------------------------------------------------------------
(* Reading. *)

Reading == UNCHANGED <<writeVars, memberVars, runVars, fileVars>>

InflateMember == Inflate /\ Reading

ReadGzip == container = "gzip" /\ ReadMember /\ Reading

DeflateReturn == container # "gzip" /\ (OnlyStream \/ DataAfterEnd) /\ Reading

ReadFramed == container = "frame" /\ ReadFrame /\ Reading

ReadRaw ==
    /\ container = "raw" /\ pc = "decoded"
    /\ pc' = "ok"
    /\ Reading /\ UNCHANGED inflateVars

Next ==
    \/ DeflateMember \/ WriteGzip \/ WriteFrame \/ Compressed
    \/ Transport
    \/ InflateMember \/ ReadGzip \/ DeflateReturn \/ ReadFramed \/ ReadRaw

Spec == Init /\ [][Next]_vars

-----------------------------------------------------------------------------
(***************************************************************************)
(* A file that lost its end or has a byte too many never passes for the    *)
(* whole one with other data in it.  A stream alone and a gzip file are    *)
(* not even accepted, unless the file was cut between two members: then    *)
(* the output is what the members that are left stand for.  A frame is     *)
(* accepted with a byte after it only if its codec does not look at it,    *)
(* and a codec that takes a cut stream for a shorter one is caught by the  *)
(* length in the header.  (Nothing is said of more than one byte: a whole  *)
(* member after the last one is read as one of the file, as it should be.) *)
(***************************************************************************)
EndsWhole ==
    pc = "ok" /\ fate \in {"cut", "longer"} =>
        IF container = "frame"
        THEN out = data /\ fate = "longer"
        ELSE \E k \in DOMAIN ends :
                Len(stream) = ends[k].size /\ out = SubSeq(data, 1, ends[k].data)

Outcome == CASE pc = "ok" -> "ok" [] pc = "error" -> "error" [] OTHER -> "running"

\* Each keeps the promise of the trait Codec, whatever the codes and the way
\* each block is written.
C == INSTANCE Codec WITH
        Byte <- 0 .. Pow(BYTE) - 1,
        Inputs <- {DataOf(f) : f \in Files \cup {<<m>> : m \in Raw \cup Framed}},
        input <- data,
        intact <- fate = "whole", output <- out, result <- Outcome

ImplementsCodec == C!Spec
=============================================================================
