------------------------------- MODULE Codec -------------------------------
(***************************************************************************)
(* What every codec of the library promises: the trait Codec of            *)
(* crates/codecs/src/lib.rs, "for every input x, decompress(compress(x))   *)
(* is x", with expected_len "to reject corrupt data that would expand too  *)
(* far".                                                                   *)
(*                                                                         *)
(* The output of decompress grows.  While what it reads is as compress     *)
(* wrote it, the output is a prefix of the input and decompress does not   *)
(* fail.  Whatever it reads, the output is never longer than the input.    *)
(***************************************************************************)
EXTENDS Naturals, Sequences

CONSTANTS Byte, Inputs

VARIABLES
    input,    \* what compress was given
    intact,   \* everything decompress read so far is as compress wrote it
    output,   \* what decompress has produced
    result    \* "running", "ok" or "error"

vars == <<input, intact, output, result>>

IsPrefix(s, t) == Len(s) <= Len(t) /\ \A i \in 1 .. Len(s) : s[i] = t[i]

Init ==
    /\ input \in Inputs
    /\ intact = TRUE
    /\ output = <<>>
    /\ result = "running"

\* decompress reads on and produces more output, or none.
Produce ==
    /\ result = "running"
    /\ intact' \in {intact, FALSE}
    /\ output' \in Seq(Byte)
    /\ IsPrefix(output, output')
    /\ Len(output') <= Len(input)
    /\ intact' => IsPrefix(output', input)
    /\ UNCHANGED <<input, result>>

\* decompress returns the output, all of it unless the stream was damaged.
Succeed ==
    /\ result = "running"
    /\ intact => Len(output) = Len(input)
    /\ result' = "ok"
    /\ UNCHANGED <<input, intact, output>>

\* decompress returns an error: what it read is not what compress wrote.
Fail ==
    /\ result = "running"
    /\ intact' = FALSE
    /\ result' = "error"
    /\ UNCHANGED <<input, output>>

Next == Produce \/ Succeed \/ Fail

Spec == Init /\ [][Next]_vars
=============================================================================
