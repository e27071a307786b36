----------------------------- MODULE RansFreqs -----------------------------
(***************************************************************************)
(* Frequencies for rANS, crates/codecs/src/ans.rs: Freqs::normalize scales *)
(* the byte counts of a block to frequencies that sum to M, then moves     *)
(* them by 1 until they do.                                                *)
(***************************************************************************)
EXTENDS Integers, FiniteSetsExt

CONSTANTS
    SYMBOLS,    \* the bytes of the input are 0 .. SYMBOLS - 1
    M           \* what frequencies sum to

ASSUME SymbolsAssumption ==
    /\ SYMBOLS \in Nat \ {0}
    /\ M \in Nat /\ SYMBOLS <= M

Symbols == 0 .. SYMBOLS - 1

VARIABLES
    counts,     \* how often each symbol occurs
    freq,       \* the frequencies
    step        \* "scale", "adjust" or "scaled"

freqVars == <<counts, freq, step>>

\* from_freqs: symbol s owns the slots from Start(f, s) up to Start(f, s + 1) - 1.
Starts(f) ==
    LET start[s \in 0 .. SYMBOLS] == IF s = 0 THEN 0 ELSE start[s - 1] + f[s - 1]
    IN  start

Start(f, s) == Starts(f)[s]
Total(f) == Start(f, SYMBOLS)

FreqInit(possible) ==
    /\ counts \in possible
    /\ freq = [s \in Symbols |-> 0]
    /\ step = "scale"

\* Rounded, but at least 1 for a symbol that occurs.
Scaled(c, total) == IF c = 0 THEN 0 ELSE Max({1, (c * M + total \div 2) \div total})

Scale ==
    /\ step = "scale" /\ Total(counts) > 0
    /\ freq' = [s \in Symbols |-> Scaled(counts[s], Total(counts))]
    /\ step' = "adjust"
    /\ UNCHANGED counts

Adjustable == {s \in Symbols : Total(freq) < M \/ freq[s] > 1}

\* max_by_key: the last of the most frequent symbols that can be adjusted.
MostFrequent ==
    LET best == Max({freq[s] : s \in Adjustable})
    IN  Max({s \in Adjustable : freq[s] = best})

Adjust ==
    /\ step = "adjust" /\ Total(freq) # M
    /\ freq' = [freq EXCEPT ![MostFrequent] = IF Total(freq) < M THEN @ + 1 ELSE @ - 1]
    /\ UNCHANGED <<counts, step>>

Adjusted ==
    /\ step = "adjust" /\ Total(freq) = M
    /\ step' = "scaled"
    /\ UNCHANGED <<counts, freq>>

Normalize == Scale \/ Adjust \/ Adjusted
=============================================================================
