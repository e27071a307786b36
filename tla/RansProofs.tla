----------------------------- MODULE RansProofs -----------------------------
(***************************************************************************)
(* Proofs about Rans: whatever bytes and frequencies arrive, one word in   *)
(* or out per symbol keeps every state within its 32 bits; what compress   *)
(* writes decodes to the input, a file that lost bytes is refused, and a   *)
(* block has one stream for each table of frequencies.                     *)
(*                                                                         *)
(* A step of the decoder undoes a step of the encoder and the other way    *)
(* round (DecodeUndoes, EncodeUndoes), and the bytes of a block tell what  *)
(* states and words they were made of (StreamIs, StreamUnique).  The       *)
(* encoder leaves a Trace, the states and words before each symbol of a    *)
(* block, the decoder a way Back through its bytes.  The invariant TripInv *)
(* says of each block of the file that it was Stored from a trace, and of  *)
(* the decoder that it is InStep with the trace as long as the bytes it    *)
(* was given agree.  The invariant StreamInv adds the trace of each block  *)
(* written and the way back of whatever is decoded: a decoder that ends a  *)
(* block as it should, with its symbols and its frequencies, went through  *)
(* the trace itself (BackMeets).                                           *)
(***************************************************************************)
EXTENDS Rans, NatLemmas, SequenceTheorems

-----------------------------------------------------------------------------
(* Arithmetic.                                                              *)

\* A number is its quotient and its remainder.
LEMMA DivMod ==
    ASSUME NEW v \in Nat, NEW a \in Nat \ {0}
    PROVE  /\ v \div a \in Nat /\ v % a \in 0 .. a - 1
           /\ v = a * (v \div a) + (v % a)
  OBVIOUS

LEMMA TimesMono ==
    ASSUME NEW a \in Nat, NEW b \in Nat, NEW c \in Nat, a <= b
    PROVE  a * c <= b * c /\ c * a <= c * b /\ a * c \in Nat /\ c * a = a * c
  OBVIOUS

\* A quotient is all that fits.
LEMMA DivBelow ==
    ASSUME NEW v \in Nat, NEW a \in Nat \ {0}, NEW q \in Nat
    PROVE  /\ v < a * q => v \div a < q
           /\ a * q <= v => q <= v \div a
<1>1. PICK d \in Nat, r \in 0 .. a - 1 : d = v \div a /\ v = a * d + r
  BY DivMod
<1>2. ASSUME q <= d PROVE a * q <= v
  <2>1. a * q <= a * d
    BY <1>2, TimesMono
  <2>2. a * q \in Nat /\ a * d \in Nat
    BY TimesMono
  <2> QED
    BY <2>1, <2>2, <1>1
<1>3. ASSUME d + 1 <= q PROVE v < a * q
  <2>1. a * (d + 1) <= a * q
    BY <1>3, TimesMono
  <2>2. a * q \in Nat /\ a * d \in Nat /\ a * (d + 1) = a * d + a
    BY TimesMono
  <2> QED
    BY <2>1, <2>2, <1>1
<1>4. q <= d \/ d + 1 <= q
  OBVIOUS
<1>5. a * q \in Nat
  BY TimesMono
<1> QED
  BY <1>1, <1>2, <1>3, <1>4, <1>5

-----------------------------------------------------------------------------
(* Lemmas about the slots of the symbols.                                   *)

Freqs == [Symbols -> Nat]

Sums(f, n, g) == g[0] = 0 /\ \A k \in 1 .. n : g[k] = g[k - 1] + f[k - 1]

LEMMA SumsExist ==
    ASSUME NEW f \in Freqs
    PROVE  \E g \in [0 .. SYMBOLS -> Nat] : Sums(f, SYMBOLS, g)
<1> DEFINE S == {n \in Nat : n <= SYMBOLS => \E g \in [0 .. n -> Nat] : Sums(f, n, g)}
<1>1. 0 \in S
  <2>1. [k \in 0 .. 0 |-> 0] \in [0 .. 0 -> Nat] /\ Sums(f, 0, [k \in 0 .. 0 |-> 0])
    BY DEF Sums
  <2> QED
    BY <2>1
<1>2. ASSUME NEW n \in Nat, n \in S PROVE n + 1 \in S
  <2> SUFFICES ASSUME n + 1 <= SYMBOLS
               PROVE  \E g \in [0 .. n + 1 -> Nat] : Sums(f, n + 1, g)
    OBVIOUS
  <2>1. SYMBOLS \in Nat /\ n <= SYMBOLS
    BY SymbolsAssumption
  <2>2. PICK g \in [0 .. n -> Nat] : Sums(f, n, g)
    BY <1>2, <2>1
  <2> DEFINE h == [k \in 0 .. n + 1 |-> IF k = n + 1 THEN g[n] + f[n] ELSE g[k]]
  <2>3. f[n] \in Nat /\ g[n] \in Nat
    BY <2>1 DEF Freqs, Symbols
  <2>4. h \in [0 .. n + 1 -> Nat]
    BY <2>3
  <2>5. h[0] = 0
    BY <2>2 DEF Sums
  <2>6. ASSUME NEW k \in 1 .. n + 1 PROVE h[k] = h[k - 1] + f[k - 1]
    <3>1. CASE k = n + 1
      BY <3>1
    <3>2. CASE k \in 1 .. n
      BY <3>2, <2>2 DEF Sums
    <3> QED
      BY <3>1, <3>2
  <2> QED
    BY <2>4, <2>5, <2>6 DEF Sums
<1>3. Nat \subseteq S
  <2> HIDE DEF S
  <2> QED
    BY <1>1, <1>2, NatSetInduction
<1> QED
  BY <1>3, SymbolsAssumption

\* The recursion of Starts is an equation that it solves.
LEMMA StartsAre ==
    ASSUME NEW f \in Freqs
    PROVE  Starts(f) = [s \in 0 .. SYMBOLS |-> IF s = 0 THEN 0 ELSE Starts(f)[s - 1] + f[s - 1]]
<1> DEFINE Eq(g) == [s \in 0 .. SYMBOLS |-> IF s = 0 THEN 0 ELSE g[s - 1] + f[s - 1]]
<1>1. PICK g \in [0 .. SYMBOLS -> Nat] : Sums(f, SYMBOLS, g)
  BY SumsExist
<1>2. g = Eq(g)
  <2>1. \A s \in 0 .. SYMBOLS : g[s] = Eq(g)[s]
    <3> SUFFICES ASSUME NEW s \in 0 .. SYMBOLS PROVE g[s] = IF s = 0 THEN 0 ELSE g[s - 1] + f[s - 1]
      OBVIOUS
    <3>1. s = 0 \/ s \in 1 .. SYMBOLS
      BY SymbolsAssumption
    <3> QED
      BY <3>1, <1>1 DEF Sums
  <2> QED
    BY <2>1
<1>3. Starts(f) = CHOOSE h : h = Eq(h)
  BY DEF Starts
<1> HIDE DEF Eq
<1>4. Starts(f) = Eq(Starts(f))
  BY <1>2, <1>3
<1> QED
  BY <1>4 DEF Eq

LEMMA StartNext ==
    ASSUME NEW f \in Freqs
    PROVE  /\ Start(f, 0) = 0
           /\ \A s \in Symbols : Start(f, s + 1) = Start(f, s) + f[s]
<1>1. \A s \in 0 .. SYMBOLS :
          Starts(f)[s] = IF s = 0 THEN 0 ELSE Starts(f)[s - 1] + f[s - 1]
  BY StartsAre
<1>2. ASSUME NEW s \in Symbols PROVE s + 1 \in 0 .. SYMBOLS /\ s + 1 # 0 /\ s + 1 - 1 = s
  BY SymbolsAssumption DEF Symbols
<1>3. Starts(f)[0] = 0
  BY <1>1, SymbolsAssumption
<1>4. ASSUME NEW s \in Symbols PROVE Starts(f)[s + 1] = Starts(f)[s] + f[s]
  <2>0. s \in Nat
    BY DEF Symbols
  <2>1. PICK t \in 0 .. SYMBOLS : t = s + 1 /\ t # 0 /\ t - 1 = s
    BY <1>2, <2>0
  <2>2. Starts(f)[t] = Starts(f)[t - 1] + f[t - 1]
    BY <1>1, <2>1
  <2> QED
    BY <2>1, <2>2
<1> QED
  BY <1>3, <1>4 DEF Start

LEMMA StartType ==
    ASSUME NEW f \in Freqs
    PROVE  \A s \in 0 .. SYMBOLS : Start(f, s) \in Nat
<1> DEFINE S == {s \in Nat : s <= SYMBOLS => Start(f, s) \in Nat}
<1>1. 0 \in S
  BY StartNext
<1>2. ASSUME NEW s \in Nat, s \in S PROVE s + 1 \in S
  <2> SUFFICES ASSUME s + 1 <= SYMBOLS PROVE Start(f, s + 1) \in Nat
    OBVIOUS
  <2>1. s \in Symbols /\ s <= SYMBOLS
    BY SymbolsAssumption DEF Symbols
  <2>2. f[s] \in Nat /\ Start(f, s) \in Nat
    BY <2>1, <1>2 DEF Freqs
  <2> QED
    BY <2>1, <2>2, StartNext
<1>3. Nat \subseteq S
  <2> HIDE DEF S
  <2> QED
    BY <1>1, <1>2, NatSetInduction
<1> QED
  BY <1>3, SymbolsAssumption

\* The slots of a symbol lie behind those of the symbols before it.
LEMMA StartMono ==
    ASSUME NEW f \in Freqs, NEW s \in 0 .. SYMBOLS
    PROVE  \A t \in s .. SYMBOLS : Start(f, s) <= Start(f, t)
<1> DEFINE S == {n \in Nat : s + n <= SYMBOLS => Start(f, s) <= Start(f, s + n)}
<1>1. 0 \in S
  BY StartType, SymbolsAssumption
<1>2. ASSUME NEW n \in Nat, n \in S PROVE n + 1 \in S
  <2> SUFFICES ASSUME s + (n + 1) <= SYMBOLS PROVE Start(f, s) <= Start(f, s + (n + 1))
    OBVIOUS
  <2>1. PICK t \in Symbols : t = s + n /\ t + 1 = s + (n + 1)
    BY SymbolsAssumption DEF Symbols
  <2>2. t \in 0 .. SYMBOLS /\ s + n <= SYMBOLS
    BY <2>1, SymbolsAssumption DEF Symbols
  <2>3. Start(f, t + 1) = Start(f, t) + f[t] /\ f[t] \in Nat
    BY StartNext DEF Freqs
  <2>4. Start(f, s) <= Start(f, t) /\ Start(f, t) \in Nat /\ Start(f, s) \in Nat
    BY <1>2, <2>1, <2>2, StartType
  <2> QED
    BY <2>1, <2>3, <2>4
<1>3. Nat \subseteq S
  <2> HIDE DEF S
  <2> QED
    BY <1>1, <1>2, NatSetInduction
<1> SUFFICES ASSUME NEW t \in s .. SYMBOLS PROVE Start(f, s) <= Start(f, t)
  OBVIOUS
<1>4. t - s \in Nat /\ s + (t - s) = t /\ t <= SYMBOLS
  BY SymbolsAssumption
<1>5. t - s \in S
  BY <1>3, <1>4
<1> QED
  BY <1>4, <1>5

\* The slots of a symbol are within the total.
LEMMA SlotsWithin ==
    ASSUME NEW f \in Freqs, NEW s \in Symbols
    PROVE  /\ Start(f, s) \in Nat /\ f[s] \in Nat /\ Total(f) \in Nat
           /\ Start(f, s) + f[s] <= Total(f) /\ Start(f, s + 1) = Start(f, s) + f[s]
<1>1. s \in 0 .. SYMBOLS /\ s + 1 \in 0 .. SYMBOLS /\ SYMBOLS \in s + 1 .. SYMBOLS
      /\ SYMBOLS \in 0 .. SYMBOLS
  BY SymbolsAssumption DEF Symbols
<1>2. Start(f, s + 1) <= Total(f)
  BY <1>1, StartMono DEF Total
<1>3. Start(f, s) \in Nat /\ f[s] \in Nat /\ Total(f) \in Nat
  BY <1>1, StartType DEF Total, Freqs
<1> QED
  BY <1>2, <1>3, StartNext

\* Every slot below the total is one of some symbol.
LEMMA SlotsCover ==
    ASSUME NEW f \in Freqs, NEW v \in Nat, v < Total(f)
    PROVE  \E s \in Symbols : v \in Start(f, s) .. Start(f, s + 1) - 1
<1> DEFINE Beyond == {s \in Nat : s <= SYMBOLS /\ v < Start(f, s)}
<1>1. SYMBOLS \in Beyond
  BY SymbolsAssumption DEF Total
<1>2. PICK t \in Beyond : \A u \in Beyond : t <= u
  BY <1>1, LeastNat
<1>3. t # 0
  BY <1>2, StartNext
<1>4. PICK s \in Symbols : t = s + 1
  BY <1>2, <1>3, SymbolsAssumption DEF Symbols
<1>5. s \in Nat /\ s <= SYMBOLS /\ ~(s \in Beyond)
  BY <1>2, <1>4, SymbolsAssumption DEF Symbols
<1>6. Start(f, s) \in Nat /\ Start(f, t) \in Nat
  BY <1>2, <1>5, StartType, SymbolsAssumption
<1> QED
  BY <1>2, <1>4, <1>5, <1>6

\* When no frequency is above 1 they sum to no more than there are symbols.
LEMMA OnesSum ==
    ASSUME NEW f \in Freqs, \A s \in Symbols : f[s] <= 1
    PROVE  Total(f) <= SYMBOLS
<1> DEFINE S == {s \in Nat : s <= SYMBOLS => Start(f, s) <= s}
<1>1. 0 \in S
  BY StartNext
<1>2. ASSUME NEW s \in Nat, s \in S PROVE s + 1 \in S
  <2> SUFFICES ASSUME s + 1 <= SYMBOLS PROVE Start(f, s + 1) <= s + 1
    OBVIOUS
  <2>1. s \in Symbols /\ s <= SYMBOLS
    BY SymbolsAssumption DEF Symbols
  <2>2. f[s] \in Nat /\ f[s] <= 1 /\ Start(f, s) \in Nat
    BY <2>1, SlotsWithin
  <2> QED
    BY <2>1, <2>2, <1>2, StartNext
<1>3. Nat \subseteq S
  <2> HIDE DEF S
  <2> QED
    BY <1>1, <1>2, NatSetInduction
<1> QED
  BY <1>3, SymbolsAssumption DEF Total

-----------------------------------------------------------------------------
(* One step of the coder.                                                   *)

\* The base of the state is a multiple of M.
LEMMA Bounds ==
    /\ M \in Nat \ {0} /\ BYTE \in Nat \ {0} /\ LANES \in Nat \ {0} /\ SYMBOLS \in Nat \ {0}
    /\ WORD \in Nat \ {0} /\ L = WORD /\ L \div M \in Nat \ {0} /\ L = M * (L \div M) /\ M <= L
<1>1. /\ M \in Nat \ {0} /\ BYTE \in Nat \ {0} /\ LANES \in Nat \ {0} /\ SYMBOLS \in Nat \ {0}
      /\ L % M = 0
  BY RansAssumption, SymbolsAssumption
<1>2. L = WORD /\ WORD \in Nat \ {0}
  BY <1>1 DEF L, WORD
<1>3. PICK q \in Nat : q = L \div M /\ L = M * q
  BY <1>1, <1>2, DivMod
<1>4. q # 0
  BY <1>1, <1>2, <1>3
<1>5. M * 1 <= M * q
  BY <1>1, <1>4, TimesMono
<1> QED
  BY <1>1, <1>2, <1>3, <1>4, <1>5

State == L .. L * WORD - 1

\* What coding a symbol of frequency f from slot start on makes of state v.
Encoded(v, f, start) == (v \div f) * M + (v % f) + start

\* The room for a symbol: it takes a state below q * f to one below q * M, and
\* one of at least q * f to one of at least q * M.
LEMMA Grows ==
    ASSUME NEW v \in Nat, NEW f \in Nat \ {0}, NEW start \in Nat, start + f <= M, NEW q \in Nat
    PROVE  /\ Encoded(v, f, start) \in Nat /\ v <= Encoded(v, f, start)
           /\ v < q * f => Encoded(v, f, start) < q * M
           /\ q * f <= v => q * M <= Encoded(v, f, start)
<1>1. M \in Nat \ {0} /\ f <= M
  BY Bounds
<1>2. PICK d \in Nat, r \in 0 .. f - 1 : d = v \div f /\ r = v % f /\ v = f * d + r
  BY DivMod
<1>3. Encoded(v, f, start) = d * M + r + start
  BY <1>2 DEF Encoded
<1>4. d * M \in Nat /\ d * f <= d * M /\ d * f = f * d /\ d * f \in Nat /\ q * M \in Nat
      /\ q * f = f * q /\ q * f \in Nat
  BY <1>1, TimesMono
<1>5. ASSUME v < q * f PROVE d * M + r + start < q * M
  <2>1. d < q
    BY <1>2, <1>4, <1>5, DivBelow
  <2>2. (d + 1) * M <= q * M
    BY <2>1, <1>1, TimesMono
  <2>3. (d + 1) * M = d * M + M
    BY <1>1
  <2> QED
    BY <2>2, <2>3, <1>1, <1>2, <1>4
<1>6. ASSUME q * f <= v PROVE q * M <= d * M + r + start
  <2>1. q <= d
    BY <1>2, <1>4, <1>6, DivBelow
  <2>2. q * M <= d * M
    BY <2>1, <1>1, TimesMono
  <2> QED
    BY <2>2, <1>2, <1>4
<1> QED
  BY <1>2, <1>3, <1>4, <1>5, <1>6

\* "Once is always enough": shrunk by a word if it is too large, a state takes
\* up a symbol and is a state again.
LEMMA EncodeKeepsState ==
    ASSUME NEW v \in State, NEW f \in Nat \ {0}, NEW start \in Nat, start + f <= M,
           NEW u \in Nat,
           u = IF v >= (L \div M) * WORD * f THEN v \div WORD ELSE v
    PROVE  Encoded(u, f, start) \in State
<1> DEFINE q == L \div M
<1>1. /\ M \in Nat \ {0} /\ WORD \in Nat \ {0} /\ L = WORD /\ q \in Nat \ {0} /\ L = M * q
      /\ M <= L
  BY Bounds
<1> HIDE DEF q
<1>2. q * WORD \in Nat /\ WORD * q = q * WORD /\ q * M = L /\ (q * WORD) * M = L * WORD
      /\ L * WORD \in Nat /\ WORD * L \in Nat /\ WORD * L = L * WORD
      /\ v \in Nat /\ L <= v /\ v < L * WORD
  <2>1. q * WORD \in Nat /\ WORD * q = q * WORD /\ q * M = L /\ L * WORD \in Nat
    BY <1>1, TimesMono
  <2>2. (q * WORD) * M = L * WORD
    BY <1>1, <2>1
  <2> QED
    BY <1>1, <2>1, <2>2 DEF State
<1>3. CASE v < q * WORD * f
  <2>1. u = v
    BY <1>2, <1>3 DEF q
  <2>2. Encoded(v, f, start) \in Nat /\ v <= Encoded(v, f, start)
        /\ Encoded(v, f, start) < (q * WORD) * M
    BY <1>2, <1>3, Grows
  <2> QED
    BY <2>1, <2>2, <1>2, <1>1 DEF State
<1>4. CASE q * WORD * f <= v
  <2>1. u = v \div WORD
    BY <1>2, <1>4 DEF q
  <2>2. u \in Nat /\ u < L
    BY <1>1, <1>2, <2>1, DivBelow
  <2>3. q * f <= u
    <3>1. PICK p \in Nat : p = q * f
      BY <1>1, TimesMono
    <3>2. WORD * p = q * WORD * f
      BY <3>1, <1>1
    <3>3. WORD * p <= v
      BY <3>2, <1>4
    <3>4. p <= v \div WORD
      BY <3>3, <1>1, <1>2, DivBelow
    <3> QED
      BY <3>1, <3>4, <2>1
  <2>4. Encoded(u, f, start) \in Nat /\ L <= Encoded(u, f, start)
    <3>1. Encoded(u, f, start) \in Nat /\ q * M <= Encoded(u, f, start)
      <4>1. q \in Nat
        BY <1>1
      <4> QED
        BY <4>1, <2>2, <2>3, Grows
    <3> QED
      BY <3>1, <1>2
  <2>5. Encoded(u, f, start) < L * WORD
    <3>1. L <= L * f /\ L * f \in Nat
      BY <1>1, TimesMono
    <3>2. u < L * f
      BY <2>2, <3>1, <1>1
    <3>3. Encoded(u, f, start) < L * M
      BY <3>2, <2>2, <1>1, Grows
    <3>4. L * M <= L * WORD
      BY <1>1, TimesMono
    <3> QED
      BY <3>3, <3>4, <2>4, <1>1, <1>2, TimesMono
  <2> QED
    BY <2>4, <2>5, <1>1, <1>2 DEF State
<1>5. q * WORD * f \in Nat
  BY <1>2, TimesMono
<1> QED
  BY <1>2, <1>3, <1>4, <1>5

\* The same of the decoder: a state that gives up a symbol and took in a word
\* if it was too small is a state again.
LEMMA DecodeKeepsState ==
    ASSUME NEW v \in State, NEW f \in Nat \ {0}, NEW start \in Nat, start + f <= M,
           v % M \in start .. start + f - 1, NEW w \in 0 .. WORD - 1,
           NEW u \in Int, u = f * (v \div M) + (v % M) - start
    PROVE  /\ u \in Nat
           /\ u < L => u * WORD + w \in State
           /\ u >= L => u \in State
<1>1. M \in Nat \ {0} /\ WORD \in Nat \ {0} /\ L = WORD /\ L \div M \in Nat \ {0} /\ M <= L
      /\ L = M * (L \div M)
  BY Bounds
<1>2. v \in Nat /\ L <= v /\ v < L * WORD /\ L * WORD \in Nat
  <2>1. L * WORD \in Nat
    BY <1>1, TimesMono
  <2> QED
    BY <1>1, <2>1 DEF State
<1>3. PICK d \in Nat, r \in 0 .. M - 1 : d = v \div M /\ r = v % M /\ v = M * d + r
  <2>1. v \in Nat /\ M \in Nat \ {0}
    BY <1>1, <1>2
  <2>2. v \div M \in Nat /\ v % M \in 0 .. M - 1 /\ v = M * (v \div M) + (v % M)
    BY <2>1, DivMod
  <2> QED
    BY <2>2, Zenon
<1>4. 1 <= d
  <2>1. M * 1 <= v /\ M \in Nat \ {0} /\ v \in Nat
    BY <1>1, <1>2
  <2>2. 1 <= v \div M
    BY <2>1, DivBelow
  <2> QED
    BY <2>2, <1>3
<1>5. f * d \in Nat /\ f * d <= M * d /\ f * 1 <= f * d
  BY <1>1, <1>4, TimesMono
<1>6. u \in Nat /\ u <= v /\ 1 <= u
  BY <1>1, <1>3, <1>5
<1>7. ASSUME u < L PROVE u * WORD + w \in State
  <2>1. 1 * WORD <= u * WORD /\ (u + 1) * WORD <= L * WORD
    BY <1>1, <1>6, <1>7, TimesMono
  <2>2. u * WORD \in Nat /\ (u + 1) * WORD = u * WORD + WORD
    BY <1>1, <1>6, TimesMono
  <2> QED
    BY <2>1, <2>2, <1>1, <1>2 DEF State
<1>8. ASSUME u >= L PROVE u \in State
  BY <1>2, <1>6, <1>8, <1>1 DEF State
<1> QED
  BY <1>6, <1>7, <1>8

-----------------------------------------------------------------------------
(* Lemmas about the helpers.                                                *)

LEMMA MaxIs ==
    ASSUME NEW b \in Nat, NEW S \in SUBSET (0 .. b), S # {}
    PROVE  Max(S) \in S /\ \A y \in S : y <= Max(S)
<1> DEFINE T == {b - y : y \in S}
<1>1. PICK y \in S : TRUE
  OBVIOUS
<1>2. T \in SUBSET Nat /\ b - y \in T
  BY <1>1
<1>3. PICK t \in T : \A u \in T : t <= u
  BY <1>2, LeastNat
<1>4. PICK m \in S : t = b - m
  BY <1>3
<1>5. \A z \in S : m >= z
  <2> SUFFICES ASSUME NEW z \in S PROVE m >= z
    OBVIOUS
  <2>1. t <= b - z
    BY <1>3
  <2>2. m \in Nat /\ z \in Nat
    OBVIOUS
  <2> QED
    BY <2>1, <2>2, <1>4
<1>6. Max(S) \in S /\ \A z \in S : Max(S) >= z
  BY <1>5 DEF Max
<1> QED
  BY <1>6

-----------------------------------------------------------------------------
(* The inductive invariant.                                                 *)

FreqTypeOK ==
    /\ counts \in Freqs /\ freq \in Freqs
    /\ step \in {"scale", "adjust", "scaled"}

\* What occurs can be coded, and in the end there is a symbol for each slot.
FreqInv ==
    /\ step # "scale" => \A s \in Symbols : counts[s] # 0 => freq[s] # 0
    /\ step = "scaled" => Total(freq) = M

\* A file of one block ends where its length says.
OneBlock ==
    N \in 1 .. BLOCK =>
        \/ begin = 0 /\ file = <<>>
        \/ begin = N /\ Len(file) >= HEADER /\ Len(file) = HEADER + file[LEN]

EncoderInv ==
    /\ data \in Inputs /\ BLOCK \in BlockSizes
    /\ states \in [Lanes -> State] /\ words \in Seq(0 .. WORD - 1) /\ file \in Seq(Nat)
    /\ begin \in 0 .. N
    /\ pc \in {"normalize", "encode"} =>
        begin < N /\ todo \in 0 .. Len(Block) /\ counts = CountsOf(Block)
    /\ pc = "encode" => step = "scaled"
    /\ pc = "stored" => begin = N
    /\ OneBlock

DecoderInv ==
    /\ input \in Seq(Nat) /\ next \in Nat
    /\ fs \in Freqs /\ stream \in Seq(0 .. BYTE - 1) /\ pos \in Nat
    /\ x \in [Lanes -> State] /\ out \in Seq(Symbols) /\ first \in 0 .. Len(out)
    /\ pc = "decode" => Total(fs) = M

IInv == FreqTypeOK /\ FreqInv /\ EncoderInv /\ DecoderInv

-----------------------------------------------------------------------------
(* The inductive invariant: lemmas.                                         *)

LEMMA BlockFrom ==
    ASSUME data \in Inputs, BLOCK \in BlockSizes, NEW b \in 0 .. N,
           NEW block, block = SubSeq(data, b + 1, BlockEnd(b))
    PROVE  /\ N \in Nat /\ BLOCK \in Nat \ {0} /\ BlockEnd(b) \in b .. N
           /\ b < N => BlockEnd(b) > b
           /\ block \in Seq(Symbols) /\ Len(block) = BlockEnd(b) - b
           /\ \A k \in 1 .. Len(block) : block[k] = data[b + k]
<1>1. data \in Seq(Symbols) /\ BLOCK \in Nat \ {0}
  BY RansAssumption
<1>2. N \in Nat /\ N = Len(data)
  BY <1>1 DEF N
<1>3. PICK e \in b .. N : e = BlockEnd(b) /\ (b < N => e > b)
  BY <1>1, <1>2 DEF BlockEnd
<1>4. block = SubSeq(data, b + 1, e)
  BY <1>3
<1>5. /\ SubSeq(data, b + 1, e) \in Seq(Symbols) /\ Len(SubSeq(data, b + 1, e)) = e - b
      /\ \A k \in 1 .. e - b : SubSeq(data, b + 1, e)[k] = data[b + k]
  <2>1. b + 1 \in 1 .. N + 1 /\ e \in b .. N /\ b \in Nat
    BY <1>2
  <2>2. \A k \in b + 1 .. e : data[k] \in Symbols
    BY <1>1, <1>2, <2>1
  <2> QED
    BY <1>1, <1>2, <2>1, <2>2
<1> QED
  BY <1>1, <1>2, <1>3, <1>4, <1>5

LEMMA BlockIs ==
    ASSUME data \in Inputs, BLOCK \in BlockSizes, begin \in 0 .. N
    PROVE  /\ N \in Nat /\ BLOCK \in Nat \ {0} /\ BlockEnd(begin) \in begin .. N
           /\ begin < N => BlockEnd(begin) > begin
           /\ Block \in Seq(Symbols) /\ Len(Block) = BlockEnd(begin) - begin
           /\ \A k \in 1 .. Len(Block) : Block[k] = data[begin + k]
  BY BlockFrom DEF Block

LEMMA CountsType ==
    ASSUME NEW block \in Seq(Symbols)
    PROVE  /\ CountsOf(block) \in Freqs
           /\ \A k \in 1 .. Len(block) : CountsOf(block)[block[k]] # 0
<1>1. ASSUME NEW s \in Symbols
      PROVE  /\ IsFiniteSet({k \in DOMAIN block : block[k] = s})
             /\ Cardinality({k \in DOMAIN block : block[k] = s}) \in Nat
  <2>1. DOMAIN block = 1 .. Len(block) /\ Len(block) \in Nat
    OBVIOUS
  <2>2. IsFiniteSet(DOMAIN block)
    BY <2>1, FS_Interval
  <2>3. {k \in DOMAIN block : block[k] = s} \subseteq DOMAIN block
    OBVIOUS
  <2> QED
    BY <2>2, <2>3, FS_Subset, FS_CardinalityType
<1>2. CountsOf(block) \in Freqs
  BY <1>1 DEF CountsOf, Freqs
<1>3. ASSUME NEW k \in 1 .. Len(block) PROVE CountsOf(block)[block[k]] # 0
  <2>1. block[k] \in Symbols /\ k \in DOMAIN block
    OBVIOUS
  <2>2. CountsOf(block)[block[k]] = Cardinality({i \in DOMAIN block : block[i] = block[k]})
    BY <2>1 DEF CountsOf
  <2>3. {i \in DOMAIN block : block[i] = block[k]} # {}
    BY <2>1
  <2> QED
    BY <2>1, <2>2, <2>3, <1>1, FS_EmptySet
<1> QED
  BY <1>2, <1>3

\* A step of normalize keeps the frequencies in order.
LEMMA NormalizeFreqs ==
    ASSUME FreqTypeOK, FreqInv, Normalize
    PROVE  FreqTypeOK' /\ FreqInv' /\ counts' = counts
<1>0. M \in Nat \ {0} /\ SYMBOLS \in Nat \ {0} /\ SYMBOLS <= M /\ 0 \in Symbols
  BY Bounds, SymbolsAssumption DEF Symbols
<1>1. CASE Scale
  <2>1. PICK total \in Nat \ {0} : total = Total(counts)
    BY <1>0, <1>1, SlotsWithin DEF Scale, FreqTypeOK
  <2>2. ASSUME NEW c \in Nat PROVE Scaled(c, total) \in Nat /\ (c # 0 => Scaled(c, total) # 0)
    <3>1. PICK y \in Nat : y = (c * M + total \div 2) \div total
      <4>1. PICK h \in Nat : h = total \div 2
        BY DivMod
      <4>2. c * M \in Nat
        BY <1>0, TimesMono
      <4>3. c * M + h \in Nat
        BY <4>1, <4>2
      <4> QED
        BY <4>1, <4>3, DivMod
    <3>2. Max({1, y}) \in {1, y} /\ 1 <= Max({1, y})
      <4>1. {1, y} \in SUBSET (0 .. y + 1)
        OBVIOUS
      <4> QED
        BY <4>1, MaxIs
    <3> QED
      BY <3>1, <3>2 DEF Scaled
  <2>3. counts' = counts /\ freq' = [s \in Symbols |-> Scaled(counts[s], total)] /\ step' = "adjust"
    BY <1>1, <2>1 DEF Scale
  <2>4. \A s \in Symbols : counts[s] \in Nat
    BY DEF FreqTypeOK, Freqs
  <2>5. freq' \in Freqs
    BY <2>2, <2>3, <2>4 DEF Freqs
  <2>6. \A s \in Symbols : counts'[s] # 0 => freq'[s] # 0
    BY <2>2, <2>3, <2>4
  <2> QED
    BY <2>3, <2>5, <2>6 DEF FreqTypeOK, FreqInv
<1>2. CASE Adjust
  <2>1. /\ step = "adjust" /\ step' = "adjust" /\ counts' = counts
        /\ freq' = [freq EXCEPT ![MostFrequent] =
                      IF Total(freq) < M THEN freq[MostFrequent] + 1 ELSE freq[MostFrequent] - 1]
        /\ Total(freq) # M
    BY <1>2 DEF Adjust
  <2>2. PICK b \in Nat : b = Total(freq)
    BY <1>0, SlotsWithin DEF FreqTypeOK
  <2>3. \A s \in Symbols : freq[s] \in 0 .. b
    <3> SUFFICES ASSUME NEW s \in Symbols PROVE freq[s] \in 0 .. b
      OBVIOUS
    <3>1. Start(freq, s) \in Nat /\ freq[s] \in Nat /\ Start(freq, s) + freq[s] <= b
      BY <2>2, SlotsWithin DEF FreqTypeOK
    <3> QED
      BY <3>1
  <2>4. PICK s0 \in Adjustable : TRUE
    <3>1. CASE b < M
      BY <3>1, <2>2, <1>0 DEF Adjustable
    <3>2. CASE b > M
      <4>1. PICK s \in Symbols : ~(freq[s] <= 1)
        BY <3>2, <2>2, <1>0, OnesSum DEF FreqTypeOK
      <4>2. freq[s] > 1
        BY <4>1, <2>3
      <4> QED
        BY <4>2 DEF Adjustable
    <3> QED
      BY <3>1, <3>2, <2>1, <2>2, <1>0
  <2>5. MostFrequent \in Adjustable
    <3> DEFINE best == Max({freq[s] : s \in Adjustable})
    <3>1. Adjustable \subseteq Symbols
      BY DEF Adjustable
    <3>2. {freq[s] : s \in Adjustable} \in SUBSET (0 .. b) /\ {freq[s] : s \in Adjustable} # {}
      BY <2>3, <2>4, <3>1
    <3>3. best \in {freq[s] : s \in Adjustable}
      BY <3>2, MaxIs
    <3> HIDE DEF best
    <3>4. {s \in Adjustable : freq[s] = best} \in SUBSET (0 .. SYMBOLS)
          /\ {s \in Adjustable : freq[s] = best} # {}
      <4>1. Symbols \subseteq 0 .. SYMBOLS
        BY <1>0 DEF Symbols
      <4>2. \E s \in Adjustable : freq[s] = best
        BY <3>3
      <4> QED
        BY <4>1, <4>2, <3>1
    <3>5. Max({s \in Adjustable : freq[s] = best}) \in {s \in Adjustable : freq[s] = best}
      BY <3>4, <1>0, MaxIs
    <3>6. MostFrequent = Max({s \in Adjustable : freq[s] = best})
      BY DEF MostFrequent, best
    <3> QED
      BY <3>5, <3>6
  <2>6. PICK m \in Symbols : m = MostFrequent /\ (b < M \/ freq[m] > 1)
    BY <2>2, <2>5 DEF Adjustable
  <2>7. PICK v \in Nat \ {0} : v = IF b < M THEN freq[m] + 1 ELSE freq[m] - 1
    BY <2>3, <2>6
  <2>8. freq' = [freq EXCEPT ![m] = v]
    BY <2>1, <2>2, <2>6, <2>7
  <2>9. freq' \in Freqs /\ \A s \in Symbols : freq[s] # 0 => freq'[s] # 0
    BY <2>8 DEF FreqTypeOK, Freqs
  <2> QED
    BY <2>1, <2>9 DEF FreqTypeOK, FreqInv
<1>3. CASE Adjusted
  BY <1>3 DEF Adjusted, FreqTypeOK, FreqInv, Total, Start, Starts
<1> QED
  BY <1>1, <1>2, <1>3 DEF Normalize

-----------------------------------------------------------------------------
(* The inductive invariant: initial states and steps.                       *)

LEMMA FreshType == Fresh \in [Lanes -> State]
<1>1. L \in Nat /\ WORD \in Nat \ {0} /\ L \in Nat \ {0} /\ WORD >= 2
  <2>1. BYTE \in Nat /\ BYTE >= 2 /\ WORD \in Nat \ {0} /\ L = WORD
    BY Bounds, RansAssumption
  <2>2. 2 * BYTE <= BYTE * BYTE
    BY <2>1, TimesMono
  <2> QED
    BY <2>1, <2>2 DEF WORD
<1>2. L * 2 <= L * WORD /\ L * WORD \in Nat
  BY <1>1, TimesMono
<1>3. L \in State
  BY <1>1, <1>2 DEF State
<1> QED
  BY <1>3 DEF Fresh

LEMMA InitInv == Init => IInv
<1> SUFFICES ASSUME Init PROVE IInv
  OBVIOUS
<1>1. /\ data \in Inputs /\ BLOCK \in BlockSizes /\ begin = 0
      /\ counts = CountsOf(Block) /\ freq = [s \in Symbols |-> 0] /\ step = "scale"
      /\ pc = IF N = 0 THEN "stored" ELSE "normalize"
      /\ todo = Len(Block) /\ states = Fresh /\ words = <<>> /\ file = <<>>
      /\ input = <<>> /\ next = 0 /\ fs = [s \in Symbols |-> 0] /\ stream = <<>>
      /\ first = 0 /\ x = Fresh /\ pos = 0 /\ out = <<>>
  BY DEF Init, FreqInit
<1>2. data \in Seq(Symbols) /\ N \in Nat
  BY <1>1, RansAssumption DEF N
<1>3. Block \in Seq(Symbols) /\ Len(Block) \in Nat
  BY <1>1, <1>2, BlockIs
<1>4. FreqTypeOK /\ FreqInv
  BY <1>1, <1>3, CountsType DEF FreqTypeOK, FreqInv, Freqs
<1>5. EncoderInv
  <2>1. words \in Seq(0 .. WORD - 1) /\ file \in Seq(Nat)
    BY <1>1
  <2>2. N # 0 => begin < N
    BY <1>1, <1>2
  <2> QED
    BY <1>1, <1>2, <1>3, <2>1, <2>2, FreshType DEF EncoderInv, OneBlock
<1>6. DecoderInv
  BY <1>1, FreshType DEF DecoderInv, Freqs
<1> QED
  BY <1>4, <1>5, <1>6 DEF IInv

\* What is of the encoder only leaves what is of the decoder, and the reverse.
LEMMA FreqsKept ==
    ASSUME FreqTypeOK, FreqInv, UNCHANGED freqVars
    PROVE  FreqTypeOK' /\ FreqInv'
  BY DEF FreqTypeOK, FreqInv, freqVars, Total, Start, Starts

LEMMA OneBlockKept ==
    ASSUME UNCHANGED <<data, BLOCK, begin, file>>, OneBlock
    PROVE  OneBlock'
  BY DEF OneBlock, HEADER, LEN, N

LEMMA EncoderKept ==
    ASSUME EncoderInv, UNCHANGED <<data, BLOCK, encoder>>,
           pc' = pc \/ pc' \notin {"normalize", "encode", "stored"}
    PROVE  EncoderInv'
<1>1. /\ UNCHANGED <<data, BLOCK, begin, todo, states, words, file, counts, step>>
  BY DEF encoder, freqVars
<1>2. N' = N /\ Block' = Block /\ CountsOf(Block)' = CountsOf(Block)
  BY <1>1 DEF N, Block, BlockEnd, CountsOf
<1>3. OneBlock'
  BY <1>1, OneBlockKept DEF EncoderInv
<1> QED
  BY <1>1, <1>2, <1>3 DEF EncoderInv

LEMMA DecoderKept ==
    ASSUME DecoderInv, UNCHANGED <<input, decoder>>, pc' = pc \/ pc' # "decode"
    PROVE  DecoderInv'
  BY DEF DecoderInv, decoder, Total, Start, Starts

\* The frequencies of another encoder.
LEMMA OtherFreqs ==
    ASSUME IInv, OtherTable
    PROVE  \E f \in Tables :
              /\ freq' = f /\ f \in Freqs /\ Total(f) = M
              /\ \A s \in Symbols : counts[s] # 0 => f[s] # 0
<1>1. PICK f \in Tables : freq' = f /\ \A s \in Symbols : counts[s] # 0 => f[s] # 0
  BY DEF OtherTable
<1>2. f \in Freqs /\ Total(f) = M
  BY OthersAssumption DEF Freqs
<1> QED
  BY <1>1, <1>2

LEMMA NormalizeInv == ASSUME IInv, NormalizeStep \/ NormalizeDone \/ OtherTable PROVE IInv'
<1>1. FreqTypeOK /\ FreqInv /\ EncoderInv /\ DecoderInv
  BY DEF IInv
<1>2. CASE NormalizeStep
  <2>1. /\ Normalize /\ pc = "normalize" /\ pc' = pc
        /\ UNCHANGED <<data, BLOCK, begin, todo, states, words, file, input, decoder>>
    BY <1>2 DEF NormalizeStep
  <2>2. FreqTypeOK' /\ FreqInv' /\ counts' = counts
    BY <1>1, <2>1, NormalizeFreqs
  <2>3. N' = N /\ Block' = Block /\ CountsOf(Block)' = CountsOf(Block)
    BY <2>1 DEF N, Block, BlockEnd, CountsOf
  <2>4. EncoderInv'
    BY <1>1, <2>1, <2>2, <2>3, OneBlockKept DEF EncoderInv
  <2>5. DecoderInv'
    BY <1>1, <2>1, DecoderKept
  <2> QED
    BY <2>2, <2>4, <2>5 DEF IInv
<1>3. CASE NormalizeDone
  <2>1. /\ step = "scaled" /\ pc = "normalize" /\ pc' = "encode"
        /\ UNCHANGED <<data, BLOCK, begin, todo, states, words, file, counts, step>>
        /\ UNCHANGED freqVars /\ UNCHANGED <<input, decoder>>
    BY <1>3 DEF NormalizeDone, encoder, freqVars
  <2>2. FreqTypeOK' /\ FreqInv'
    BY <1>1, <2>1, FreqsKept
  <2>3. N' = N /\ Block' = Block /\ CountsOf(Block)' = CountsOf(Block)
    BY <2>1 DEF N, Block, BlockEnd, CountsOf
  <2>4. EncoderInv'
    BY <1>1, <2>1, <2>3, OneBlockKept DEF EncoderInv
  <2>5. DecoderInv'
    BY <1>1, <2>1, DecoderKept
  <2> QED
    BY <2>2, <2>4, <2>5 DEF IInv
<1>4. CASE OtherTable
  <2>1. /\ step = "scaled" /\ pc = "normalize" /\ pc' = "encode"
        /\ UNCHANGED <<data, BLOCK, begin, todo, states, words, file, counts, step>>
        /\ UNCHANGED <<input, decoder>>
    BY <1>4 DEF OtherTable
  <2>2. PICK f \in Freqs :
          freq' = f /\ Total(f) = M /\ \A s \in Symbols : counts[s] # 0 => f[s] # 0
    BY <1>4, OtherFreqs
  <2>3. Total(freq)' = Total(f)
    BY <2>2 DEF Total, Start, Starts
  <2>4. FreqTypeOK' /\ FreqInv'
    BY <1>1, <2>1, <2>2, <2>3 DEF FreqTypeOK, FreqInv
  <2>5. N' = N /\ Block' = Block /\ CountsOf(Block)' = CountsOf(Block)
    BY <2>1 DEF N, Block, BlockEnd, CountsOf
  <2>6. EncoderInv'
    BY <1>1, <2>1, <2>5, OneBlockKept DEF EncoderInv
  <2>7. DecoderInv'
    BY <1>1, <2>1, DecoderKept
  <2> QED
    BY <2>4, <2>6, <2>7 DEF IInv
<1> QED
  BY <1>2, <1>3, <1>4

\* A symbol is encoded: its frequency is not 0 and its slots are below M.
LEMMA EncodeInv == ASSUME IInv, EncodeSymbol PROVE IInv'
<1>1. FreqTypeOK /\ FreqInv /\ EncoderInv /\ DecoderInv
  BY DEF IInv
<1>2. /\ pc = "encode" /\ todo > 0 /\ step = "scaled" /\ counts = CountsOf(Block)
      /\ todo \in 0 .. Len(Block) /\ data \in Inputs /\ BLOCK \in BlockSizes /\ begin \in 0 .. N
      /\ UNCHANGED freqVars /\ UNCHANGED <<data, BLOCK, pc, begin, file>>
      /\ UNCHANGED <<input, decoder>> /\ todo' = todo - 1
  BY <1>1 DEF EncodeSymbol, EncoderInv
<1>3. PICK s \in Symbols : s = Block[todo] /\ counts[s] # 0
  <2>1. Block \in Seq(Symbols) /\ Len(Block) \in Nat
    BY <1>2, BlockIs
  <2>2. todo \in 1 .. Len(Block)
    BY <1>2, <2>1
  <2>3. counts[Block[todo]] # 0
    BY <1>2, <2>1, <2>2, CountsType
  <2> QED
    BY <2>1, <2>2, <2>3
<1>4. PICK f \in Nat \ {0}, start \in Nat : f = freq[s] /\ start = Start(freq, s) /\ start + f <= M
  <2>1. freq[s] # 0 /\ Total(freq) = M /\ freq \in Freqs
    BY <1>1, <1>2, <1>3 DEF FreqInv, FreqTypeOK
  <2> QED
    BY <2>1, SlotsWithin
<1>5. PICK lane \in Lanes : lane = EncodeLane
  <2>1. LANES \in Nat \ {0} /\ todo - 1 \in Nat
    BY <1>2, Bounds, BlockIs
  <2> QED
    BY <2>1, DivMod DEF EncodeLane, Lanes
<1>6. PICK v \in State : v = states[lane]
  BY <1>1 DEF EncoderInv
<1>7. v \in Nat /\ WORD \in Nat \ {0} /\ v \div WORD \in Nat /\ v % WORD \in 0 .. WORD - 1
  <2>1. v \in Nat /\ WORD \in Nat \ {0}
    <3>1. L \in Nat /\ WORD \in Nat \ {0} /\ L * WORD \in Nat
      BY Bounds, TimesMono
    <3> QED
      BY <3>1 DEF State
  <2> QED
    BY <2>1, DivMod
<1>8. PICK u \in Nat : u = IF v >= (L \div M) * WORD * f THEN v \div WORD ELSE v
  BY <1>7
<1>9. StateMax(s) = (L \div M) * WORD * f
  BY <1>4 DEF StateMax
<1>10. /\ words' = IF v >= (L \div M) * WORD * f THEN Append(words, v % WORD) ELSE words
       /\ states' = [states EXCEPT ![lane] = (u \div f) * M + (u % f) + start]
  BY <1>3, <1>4, <1>5, <1>6, <1>8, <1>9 DEF EncodeSymbol
<1>11. states' \in [Lanes -> State]
  <2>1. Encoded(u, f, start) \in State
    BY <1>4, <1>8, EncodeKeepsState
  <2> QED
    BY <2>1, <1>1, <1>10 DEF Encoded, EncoderInv
<1>12. words' \in Seq(0 .. WORD - 1)
  <2>1. words \in Seq(0 .. WORD - 1)
    BY <1>1 DEF EncoderInv
  <2>2. PICK w \in 0 .. WORD - 1 : w = v % WORD
    BY <1>7
  <2>3. words' = Append(words, w) \/ words' = words
    BY <2>2, <1>10
  <2>4. Append(words, w) \in Seq(0 .. WORD - 1)
    BY <2>1, AppendProperties
  <2> QED
    BY <2>1, <2>3, <2>4
<1>13. N' = N /\ Block' = Block /\ CountsOf(Block)' = CountsOf(Block) /\ counts' = counts
       /\ step' = step
  BY <1>2 DEF N, Block, BlockEnd, CountsOf, freqVars
<1>14. todo' \in 0 .. Len(Block)
  BY <1>2, BlockIs
<1>15. EncoderInv'
  BY <1>1, <1>2, <1>11, <1>12, <1>13, <1>14, OneBlockKept DEF EncoderInv
<1> QED
  BY <1>1, <1>2, <1>15, FreqsKept, DecoderKept DEF IInv

Digit == 0 .. BYTE - 1

LEMMA DigitsOfWord ==
    ASSUME NEW w \in 0 .. WORD - 1
    PROVE  WordBytes(w) \in Seq(Digit)
<1>1. BYTE \in Nat \ {0} /\ WORD = BYTE * BYTE /\ WORD \in Nat
  BY Bounds DEF WORD
<1>2. w \in Nat /\ w < BYTE * BYTE
  BY <1>1
<1>3. w % BYTE \in Digit /\ w \div BYTE \in Nat
  BY <1>1, <1>2, DivMod DEF Digit
<1>4. w \div BYTE < BYTE
  BY <1>1, <1>2, DivBelow
<1>5. PICK a \in Digit, b \in Digit : a = w % BYTE /\ b = w \div BYTE
  BY <1>1, <1>3, <1>4 DEF Digit
<1> QED
  BY <1>5 DEF WordBytes

LEMMA DigitsOfState ==
    ASSUME NEW v \in State
    PROVE  StateBytes(v) \in Seq(Digit)
<1>1. WORD \in Nat \ {0} /\ L = WORD /\ v \in Nat /\ v < WORD * WORD
  <2>1. WORD \in Nat \ {0} /\ L = WORD
    BY Bounds
  <2>2. WORD * WORD \in Nat
    BY <2>1, TimesMono
  <2> QED
    BY <2>1, <2>2 DEF State
<1>2. v % WORD \in 0 .. WORD - 1 /\ v \div WORD \in Nat
  BY <1>1, DivMod
<1>3. v \div WORD < WORD
  BY <1>1, DivBelow
<1>4. PICK a \in 0 .. WORD - 1, b \in 0 .. WORD - 1 : a = v % WORD /\ b = v \div WORD
  BY <1>1, <1>2, <1>3
<1>5. WordBytes(a) \in Seq(Digit) /\ WordBytes(b) \in Seq(Digit)
  BY DigitsOfWord
<1>6. StateBytes(v) = WordBytes(a) \o WordBytes(b)
  BY <1>4 DEF StateBytes
<1> QED
  BY <1>5, <1>6

\* The bytes of a block are bytes, and so are numbers of its header.
LEMMA StreamType ==
    ASSUME EncoderInv, FreqTypeOK
    PROVE  /\ Stream \in Seq(Digit) /\ Header \in Seq(Nat)
           /\ Len(Header) = HEADER /\ Header[LEN] = Len(Stream)
<1>1. LANES \in Nat \ {0} /\ SYMBOLS \in Nat \ {0} /\ BYTE \in Nat \ {0}
  BY Bounds
<1> DEFINE heads == [k \in 1 .. LANES |-> StateBytes(states[k - 1])]
           tails == [k \in 1 .. Len(words) |-> WordBytes(words[Len(words) - k + 1])]
<1>2. heads \in Seq(Seq(Digit))
  <2>1. ASSUME NEW k \in 1 .. LANES PROVE StateBytes(states[k - 1]) \in Seq(Digit)
    <3>1. k - 1 \in Lanes
      BY <1>1 DEF Lanes
    <3>2. states[k - 1] \in State
      BY <3>1 DEF EncoderInv
    <3> QED
      BY <3>2, DigitsOfState
  <2> QED
    BY <1>1, <2>1
<1>3. tails \in Seq(Seq(Digit))
  <2>1. Len(words) \in Nat /\ \A k \in 1 .. Len(words) : words[k] \in 0 .. WORD - 1
    <3>1. words \in Seq(0 .. WORD - 1)
      BY DEF EncoderInv
    <3> QED
      BY <3>1, LenProperties, ElementOfSeq
  <2>2. ASSUME NEW k \in 1 .. Len(words)
        PROVE  WordBytes(words[Len(words) - k + 1]) \in Seq(Digit)
    <3>1. Len(words) - k + 1 \in 1 .. Len(words)
      BY <2>1
    <3>2. words[Len(words) - k + 1] \in 0 .. WORD - 1
      BY <2>1, <3>1
    <3> QED
      BY <3>2, DigitsOfWord
  <2>3. \A k \in 1 .. Len(words) : tails[k] \in Seq(Digit)
    BY <2>2
  <2>4. tails = [k \in 1 .. Len(words) |-> tails[k]]
    OBVIOUS
  <2> HIDE DEF tails
  <2> QED
    BY <2>1, <2>3, <2>4
<1>4. Stream \in Seq(Digit)
  <2>1. Stream = FlattenSeq(heads) \o FlattenSeq(tails)
    BY DEF Stream
  <2>2. FlattenSeq(heads) \in Seq(Digit) /\ FlattenSeq(tails) \in Seq(Digit)
    <3> HIDE DEF heads, tails
    <3> QED
      BY <1>2, <1>3, FlattenType
  <2> HIDE DEF heads, tails
  <2>3. FlattenSeq(heads) \o FlattenSeq(tails) \in Seq(Digit)
    BY <2>2, ConcatProperties
  <2> QED
    BY <2>1, <2>3
<1>5. PICK n \in Nat : n = Len(Stream)
  BY <1>4
<1>6. [k \in 1 .. SYMBOLS |-> freq[k - 1]] \in Seq(Nat)
      /\ Len([k \in 1 .. SYMBOLS |-> freq[k - 1]]) = SYMBOLS
  <2>1. \A k \in 1 .. SYMBOLS : freq[k - 1] \in Nat
    BY <1>1 DEF FreqTypeOK, Freqs, Symbols
  <2> QED
    BY <1>1, <2>1
<1>7. Header = [k \in 1 .. SYMBOLS |-> freq[k - 1]] \o <<n, 0>>
  BY <1>5 DEF Header
<1>8. <<n, 0>> \in Seq(Nat) /\ Len(<<n, 0>>) = 2
  OBVIOUS
<1>9. PICK h \in Seq(Nat), t \in Seq(Nat) :
        /\ h = [k \in 1 .. SYMBOLS |-> freq[k - 1]] /\ Len(h) = SYMBOLS
        /\ t = <<n, 0>> /\ Len(t) = 2 /\ t[1] = n
  BY <1>6, <1>8
<1>10. Header = h \o t /\ Len(h) + Len(t) = HEADER
       /\ LEN \in 1 .. Len(h) + Len(t) /\ ~(LEN <= Len(h)) /\ LEN - Len(h) = 1
  BY <1>1, <1>7, <1>9 DEF HEADER, LEN
<1>11. Header \in Seq(Nat) /\ Len(Header) = HEADER /\ Header[LEN] = n
  <2>1. /\ h \o t \in Seq(Nat) /\ Len(h \o t) = Len(h) + Len(t)
        /\ \A i \in 1 .. Len(h) + Len(t) : (h \o t)[i] = IF i <= Len(h) THEN h[i] ELSE t[i - Len(h)]
    BY ConcatProperties
  <2>2. (h \o t)[LEN] = t[LEN - Len(h)]
    BY <2>1, <1>10
  <2> QED
    BY <2>1, <2>2, <1>9, <1>10
<1> QED
  BY <1>4, <1>5, <1>11

LEMMA WriteInv == ASSUME IInv, WriteBlock PROVE IInv'
<1>1. FreqTypeOK /\ FreqInv /\ EncoderInv /\ DecoderInv
  BY DEF IInv
<1>2. /\ UNCHANGED <<data, BLOCK, input, decoder>>
      /\ file' = file \o Header \o Stream /\ begin' = BlockEnd(begin)
      /\ pc' = (IF begin' < N THEN "normalize" ELSE "stored")
      /\ counts' = CountsOf(Block') /\ freq' = [s \in Symbols |-> 0] /\ step' = "scale"
      /\ todo' = Len(Block') /\ states' = Fresh /\ words' = <<>>
  BY DEF WriteBlock
<1>3. data' \in Inputs /\ BLOCK' \in BlockSizes /\ N' = N /\ begin' \in 0 .. N' /\ N \in Nat
  BY <1>1, <1>2, BlockIs DEF EncoderInv, N
<1>4. Block' \in Seq(Symbols) /\ Len(Block') \in Nat
  <2>1. PICK b \in 0 .. N : b = begin'
    BY <1>3
  <2>2. PICK block : block = SubSeq(data, b + 1, BlockEnd(b))
    OBVIOUS
  <2>3. Block' = block
    BY <1>2, <1>3, <2>1, <2>2 DEF Block, BlockEnd
  <2>4. block \in Seq(Symbols)
    BY <1>1, <2>2, BlockFrom DEF EncoderInv
  <2> QED
    BY <2>3, <2>4
<1>5. FreqTypeOK' /\ FreqInv'
  BY <1>2, <1>4, CountsType DEF FreqTypeOK, FreqInv, Freqs
<1>6. file' \in Seq(Nat)
  <2>1. Stream \in Seq(Digit) /\ Header \in Seq(Nat) /\ file \in Seq(Nat)
    BY <1>1, StreamType DEF EncoderInv
  <2>2. Stream \in Seq(Nat)
    <3>1. Digit \subseteq Nat
      BY Bounds DEF Digit
    <3> QED
      BY <2>1, <3>1, SeqMonotonic
  <2> QED
    BY <2>1, <2>2, <1>2
<1>7. states' \in [Lanes -> State] /\ words' \in Seq(0 .. WORD - 1)
  BY <1>2, FreshType
<1>8. pc' = "stored" => begin' = N'
  BY <1>2, <1>3
<1>9. OneBlock'
  <2> SUFFICES ASSUME N \in 1 .. BLOCK
               PROVE  /\ begin' = N' /\ Len(file') >= HEADER
                      /\ Len(file') = HEADER + file'[LEN]
    BY <1>2, <1>3 DEF OneBlock
  <2>0. LEN \in 1 .. HEADER /\ HEADER \in Nat
    BY Bounds DEF LEN, HEADER
  <2>1. begin = 0 /\ file = <<>>
    BY <1>1, <1>3 DEF EncoderInv, OneBlock, WriteBlock
  <2>2. BlockEnd(0) = N
    BY <1>1, <1>3, RansAssumption DEF BlockEnd, EncoderInv
  <2>3. PICK h \in Seq(Nat), t \in Seq(Nat) : h = Header /\ t = Stream
    <3>1. Digit \subseteq Nat
      BY Bounds DEF Digit
    <3> QED
      BY <1>1, <3>1, StreamType, SeqMonotonic
  <2>4. Len(h) = HEADER /\ h[LEN] = Len(t) /\ Len(t) \in Nat
    BY <1>1, <2>3, StreamType
  <2>5. file' = h \o t
    <3>1. file' = <<>> \o h \o t
      BY <1>2, <2>1, <2>3
    <3>2. <<>> \o h = h
      BY ConcatEmptySeq
    <3> QED
      BY <3>1, <3>2
  <2>6. Len(h \o t) = HEADER + Len(t) /\ (h \o t)[LEN] = Len(t)
    <3>1. /\ Len(h \o t) = Len(h) + Len(t)
          /\ \A i \in 1 .. Len(h) + Len(t) :
                (h \o t)[i] = IF i <= Len(h) THEN h[i] ELSE t[i - Len(h)]
      BY ConcatProperties
    <3>2. LEN \in 1 .. Len(h) + Len(t) /\ LEN <= Len(h)
      BY <2>0, <2>4
    <3>3. (h \o t)[LEN] = h[LEN]
      BY <3>1, <3>2
    <3> QED
      BY <3>1, <3>3, <2>4
  <2>7. begin' = N'
    BY <1>2, <1>3, <2>1, <2>2
  <2> QED
    BY <2>0, <2>4, <2>5, <2>6, <2>7
<1>10. EncoderInv'
  BY <1>2, <1>3, <1>4, <1>6, <1>7, <1>8, <1>9 DEF EncoderInv, CountsOf
<1>11. DecoderInv'
  BY <1>1, <1>2, DecoderKept
<1> QED
  BY <1>5, <1>10, <1>11 DEF IInv

LEMMA ArriveInv == ASSUME IInv, Arrive PROVE IInv'
<1>1. FreqTypeOK /\ FreqInv /\ EncoderInv /\ DecoderInv
  BY DEF IInv
<1>2. pc' = "header" /\ UNCHANGED <<data, BLOCK, encoder, decoder>> /\ UNCHANGED freqVars
  BY DEF Arrive, encoder
<1>3. file \in Seq(Nat) /\ Len(file) \in Nat /\ HEADER \in Nat /\ LEN \in 1 .. HEADER
  BY <1>1, Bounds DEF EncoderInv, HEADER, LEN
<1>4. input' \in Seq(Nat)
  <2>1. CASE input' = file
    BY <2>1, <1>3
  <2>2. ASSUME NEW n \in 0 .. Len(file) - 1, input' = SubSeq(file, 1, n) PROVE input' \in Seq(Nat)
    BY <2>2, <1>3
  <2>3. ASSUME NEW n \in 0 .. file[LEN] - 1, N \in 1 .. BLOCK, input' = Shortened(n)
        PROVE  input' \in Seq(Nat)
    <3>1. begin = N /\ N # 0
      BY <1>1, <2>3 DEF EncoderInv, Arrive
    <3>2. Len(file) >= HEADER /\ Len(file) = HEADER + file[LEN]
      BY <1>1, <3>1, <2>3 DEF EncoderInv, OneBlock
    <3>3. file[LEN] \in Nat
      BY <1>3, <3>2
    <3>4. PICK t \in 0 .. Len(file) : t = HEADER + n
      BY <1>3, <3>2, <3>3
    <3>5. SubSeq(file, 1, t) \in Seq(Nat) /\ Len(SubSeq(file, 1, t)) = t
      BY <1>3, <3>4
    <3>6. LEN \in 1 .. Len(SubSeq(file, 1, t)) /\ n \in Nat
      BY <1>3, <3>4, <3>5
    <3>7. [SubSeq(file, 1, t) EXCEPT ![LEN] = n] \in Seq(Nat)
      BY <3>5, <3>6, ExceptSeq
    <3> QED
      BY <3>4, <3>7, <2>3 DEF Shortened
  <2>4. CASE input' = Append(file, 0)
    BY <2>4, <1>3
  <2>5. ASSUME NEW c \in Changes, input' = Changed(c) PROVE input' \in Seq(Nat)
    <3>1. \A k \in 1 .. Len(file) : file[k] \in Nat
      BY <1>3
    <3>2. \A k \in 1 .. Len(file) : (IF k \in DOMAIN c THEN c[k] ELSE file[k]) \in Nat
      BY <3>1, OthersAssumption
    <3> QED
      BY <3>2, <1>3, <2>5 DEF Changed
  <2> QED
    BY <2>1, <2>2, <2>3, <2>4, <2>5 DEF Arrive
<1>5. DecoderInv'
  BY <1>1, <1>2, <1>4 DEF DecoderInv, decoder
<1> QED
  BY <1>1, <1>2, <1>5, FreqsKept, EncoderKept DEF IInv

LEMMA WordType ==
    ASSUME NEW a \in Digit, NEW b \in Digit
    PROVE  a + BYTE * b \in 0 .. WORD - 1
<1>1. BYTE \in Nat \ {0} /\ WORD = BYTE * BYTE
  BY Bounds DEF WORD
<1>2. a \in Nat /\ a < BYTE /\ b \in Nat /\ b + 1 <= BYTE
  BY <1>1 DEF Digit
<1>3. BYTE * (b + 1) <= BYTE * BYTE /\ BYTE * (b + 1) = BYTE * b + BYTE /\ BYTE * b \in Nat
      /\ BYTE * BYTE \in Nat
  BY <1>1, <1>2, TimesMono
<1> QED
  BY <1>1, <1>2, <1>3

\* A block is taken apart.
LEMMA ReadIs ==
    ASSUME IInv, ReadBlock
    PROVE  \E f \in Freqs, S \in Seq(Digit) :
              /\ fs' = f /\ Total(f) = M /\ stream' = S
              /\ next' = next + HEADER + Len(S) /\ next' <= Len(input)
              /\ \A s \in Symbols : f[s] = input[next + 1 + s]
              /\ input[next + LEN] = Len(S)
              /\ \A k \in 1 .. Len(S) : S[k] = input[next + HEADER + k] % BYTE
              /\ Len(S) >= 4 * LANES
              /\ x' = [l \in Lanes |-> StateAt(S, 4 * l)] /\ \A l \in Lanes : StateAt(S, 4 * l) >= L
<1>1. /\ Decodable /\ fs' = FreqsRead /\ stream' = BlockData
      /\ x' = [l \in Lanes |-> StateAt(BlockData, 4 * l)] /\ next' = DataEnd
  BY DEF ReadBlock
<1>2. /\ BYTE \in Nat \ {0} /\ HEADER \in Nat \ {0} /\ HEADER = SYMBOLS + 2 /\ SYMBOLS \in Nat \ {0}
      /\ LEN = SYMBOLS + 1
  BY Bounds DEF HEADER, LEN
<1>3. input \in Seq(Nat) /\ next \in Nat /\ Len(input) \in Nat
  BY DEF IInv, DecoderInv
<1>4. \A i \in 1 .. Len(input) : input[i] \in Nat
  BY <1>3, ElementOfSeq
<1>5. PICK t \in 0 .. Len(input) : t = next + HEADER
  BY <1>1, <1>2, <1>3 DEF Decodable
<1>6. \A k \in 1 .. HEADER : Fields[k] = input[next + k] /\ Fields[k] \in Nat
  <2> SUFFICES ASSUME NEW k \in 1 .. HEADER PROVE Fields[k] = input[next + k] /\ Fields[k] \in Nat
    OBVIOUS
  <2>1. Fields = SubSeq(input, next + 1, t)
    BY <1>5 DEF Fields
  <2>2. next + k \in 1 .. Len(input) /\ next + 1 \in Nat /\ k \in 1 .. t - (next + 1) + 1
        /\ next + 1 + k - 1 = next + k
    BY <1>2, <1>3, <1>5
  <2>3. SubSeq(input, next + 1, t)[k] = input[next + k]
    BY <2>2, <1>3, <1>5
  <2> QED
    BY <2>1, <2>2, <2>3, <1>4
<1>7. LEN \in 1 .. HEADER
  BY <1>2
<1>8. PICK n \in Nat : /\ n = Fields[LEN] /\ DataEnd = t + n
                      /\ t + n <= Len(input) /\ n >= 4 * LANES
  BY <1>1, <1>5, <1>6, <1>7 DEF Decodable, DataEnd
<1>9. BlockData = [k \in 1 .. n |-> input[t + k] % BYTE] /\ \A k \in 1 .. n : BlockData[k] \in Digit
  <2>1. BlockData = [k \in 1 .. n |-> input[t + k] % BYTE]
    BY <1>5, <1>8 DEF BlockData
  <2>2. ASSUME NEW k \in 1 .. n PROVE input[t + k] % BYTE \in Digit
    <3>1. t + k \in 1 .. Len(input)
      BY <1>3, <1>5, <1>8
    <3> QED
      BY <3>1, <1>2, <1>4, DivMod DEF Digit
  <2> QED
    BY <2>1, <2>2
<1>10. BlockData \in Seq(Digit) /\ Len(BlockData) = n
  <2> HIDE DEF Digit
  <2>1. BlockData = [k \in 1 .. n |-> BlockData[k]]
    BY <1>9
  <2> QED
    BY <2>1, <1>9
<1>11. /\ FreqsRead \in Freqs /\ Total(FreqsRead) = M
       /\ \A s \in Symbols : FreqsRead[s] = input[next + 1 + s]
  <2>1. ASSUME NEW s \in Symbols PROVE Fields[s + 1] \in Nat /\ Fields[s + 1] = input[next + 1 + s]
    <3>1. PICK k \in 1 .. HEADER : k = s + 1 /\ next + k = next + 1 + s
      BY <1>2, <1>3 DEF Symbols
    <3> QED
      BY <3>1, <1>6
  <2> QED
    BY <2>1, <1>1 DEF FreqsRead, Freqs, Decodable
<1>12. input[next + LEN] = n
  BY <1>6, <1>7, <1>8
<1>13. PICK S \in Seq(Digit) : S = BlockData /\ Len(S) = n
  BY <1>10
<1>14. \A k \in 1 .. Len(S) : S[k] = input[next + HEADER + k] % BYTE
  BY <1>5, <1>9, <1>13
<1>15. \A l \in Lanes : StateAt(S, 4 * l) >= L
  BY <1>1, <1>13 DEF Decodable
<1>16. next' = next + HEADER + Len(S) /\ next' <= Len(input)
  BY <1>1, <1>5, <1>8, <1>13
<1>17. stream' = S /\ x' = [l \in Lanes |-> StateAt(S, 4 * l)]
  BY <1>1, <1>13
<1> QED
  BY <1>1, <1>8, <1>11, <1>12, <1>13, <1>14, <1>15, <1>16, <1>17

\* Four bytes are a state if they are at least L.
LEMMA StateRead ==
    ASSUME NEW S \in Seq(Digit), NEW l \in Lanes, Len(S) >= 4 * LANES, StateAt(S, 4 * l) >= L
    PROVE  StateAt(S, 4 * l) \in State
<1>1. WORD \in Nat \ {0} /\ LANES \in Nat \ {0} /\ L = WORD
  BY Bounds
<1>2. PICK p \in Nat : p = 4 * l /\ p + 4 <= Len(S)
  BY <1>1 DEF Lanes
<1>3. PICK a \in Digit, b \in Digit, c \in Digit, d \in Digit :
        /\ a = S[p + 1] /\ b = S[p + 2]
        /\ c = S[p + 2 + 1] /\ d = S[p + 2 + 2]
  <2>1. p + 1 \in 1 .. Len(S) /\ p + 2 \in 1 .. Len(S) /\ p + 2 + 1 \in 1 .. Len(S) /\ p + 2 + 2 \in 1 .. Len(S)
    BY <1>2
  <2> QED
    BY <2>1, ElementOfSeq
<1>4. WordAt(S, p) = a + BYTE * b /\ WordAt(S, p + 2) = c + BYTE * d
  BY <1>3 DEF WordAt
<1>5. StateAt(S, 4 * l) = (a + BYTE * b) + WORD * (c + BYTE * d)
  BY <1>2, <1>4 DEF StateAt
<1>6. PICK lo \in 0 .. WORD - 1, hi \in 0 .. WORD - 1 : lo = a + BYTE * b /\ hi = c + BYTE * d
  BY WordType
<1>7. WORD * (hi + 1) <= WORD * WORD /\ WORD * (hi + 1) = WORD * hi + WORD /\ WORD * hi \in Nat
      /\ WORD * WORD \in Nat
  <2>1. hi \in Nat /\ hi + 1 \in Nat /\ hi + 1 <= WORD
    BY <1>1
  <2> QED
    BY <2>1, <1>1, TimesMono
<1>8. PICK y \in Nat, z \in Nat : y = WORD * WORD /\ z = WORD * hi /\ z + WORD <= y
  BY <1>7
<1>9. StateAt(S, 4 * l) = lo + z /\ L * WORD = y /\ lo \in Nat /\ lo < WORD
  BY <1>1, <1>5, <1>6, <1>8
<1> QED
  BY <1>1, <1>8, <1>9 DEF State

\* Its states are at least L, and two words each.
LEMMA ReadInv == ASSUME IInv, ReadBlock PROVE IInv'
<1>1. FreqTypeOK /\ FreqInv /\ EncoderInv /\ DecoderInv
  BY DEF IInv
<1>2. /\ pos' = 4 * LANES /\ pc' = "decode" /\ UNCHANGED freqVars
      /\ UNCHANGED <<data, BLOCK, encoder, input, out>> /\ first' = Len(out)
  BY DEF ReadBlock, encoder
<1>3. PICK f \in Freqs, S \in Seq(Digit) :
        /\ fs' = f /\ Total(f) = M /\ stream' = S /\ next' = next + HEADER + Len(S)
        /\ Len(S) >= 4 * LANES
        /\ x' = [l \in Lanes |-> StateAt(S, 4 * l)] /\ \A l \in Lanes : StateAt(S, 4 * l) >= L
  BY ReadIs
<1>4. x' \in [Lanes -> State]
  BY <1>3, StateRead
<1>5. DecoderInv'
  <2>1. next' \in Nat /\ pos' \in Nat
    BY <1>1, <1>2, <1>3, Bounds DEF DecoderInv, HEADER
  <2>2. Total(fs)' = Total(fs')
    BY DEF Total, Start, Starts
  <2>3. first' \in 0 .. Len(out')
    BY <1>1, <1>2 DEF DecoderInv
  <2> QED
    BY <1>1, <1>2, <1>3, <1>4, <2>1, <2>2, <2>3 DEF DecoderInv, Digit
<1> QED
  BY <1>1, <1>2, <1>5, FreqsKept, EncoderKept DEF IInv

\* A symbol is decoded: the slot is one of a symbol, as the frequencies add up.
LEMMA DecodeIs ==
    ASSUME IInv, DecodeSymbol
    PROVE  \E lane \in Lanes, s \in Symbols, v \in State, u \in Nat, w \in 0 .. WORD - 1 :
              /\ lane = DecodeLane /\ v = x[lane] /\ w = NextWord
              /\ v % M \in Start(fs, s) .. Start(fs, s + 1) - 1
              /\ s = CHOOSE t \in Symbols : v % M \in Start(fs, t) .. Start(fs, t + 1) - 1
              /\ u = fs[s] * (v \div M) + (v % M) - Start(fs, s)
              /\ u < L => u * WORD + w \in State
              /\ u >= L => u \in State
              /\ out' = Append(out, s)
              /\ x' = [x EXCEPT ![lane] = IF u < L THEN u * WORD + w ELSE u]
              /\ pos' = IF u < L THEN pos + 2 ELSE pos
<1>1. EncoderInv /\ DecoderInv
  BY DEF IInv
<1>2. Total(fs) = M /\ fs \in Freqs
  BY <1>1 DEF DecodeSymbol, DecoderInv
<1>3. M \in Nat \ {0} /\ WORD \in Nat \ {0} /\ LANES \in Nat \ {0} /\ BYTE \in Nat \ {0} /\ L = WORD
  BY Bounds
<1>4. PICK lane \in Lanes : lane = DecodeLane
  <2>1. Len(out) - first \in Nat
    BY <1>1 DEF DecoderInv
  <2> QED
    BY <1>3, <2>1, DivMod DEF DecodeLane, Lanes
<1>5. PICK v \in State : v = x[lane]
  BY <1>1 DEF DecoderInv
<1>6. v \in Nat
  <2>1. L * WORD \in Nat
    BY <1>3, TimesMono
  <2> QED
    BY <2>1, <1>3 DEF State
<1>7. PICK slot \in 0 .. M - 1, q \in Nat : slot = v % M /\ q = v \div M
  BY <1>3, <1>6, DivMod
<1>8. \E t \in Symbols : slot \in Start(fs, t) .. Start(fs, t + 1) - 1
  BY <1>2, <1>3, <1>7, SlotsCover
<1>9. PICK s \in Symbols :
        /\ s = CHOOSE t \in Symbols : slot \in Start(fs, t) .. Start(fs, t + 1) - 1
        /\ slot \in Start(fs, s) .. Start(fs, s + 1) - 1
  BY <1>8
<1>10. PICK f \in Nat \ {0}, start \in Nat :
         f = fs[s] /\ start = Start(fs, s) /\ start + f <= M /\ slot \in start .. start + f - 1
  <2>1. PICK f \in Nat, start \in Nat :
          /\ f = fs[s] /\ start = Start(fs, s) /\ start + f <= M
          /\ Start(fs, s + 1) = start + f
    BY <1>2, SlotsWithin
  <2>2. slot \in start .. start + f - 1
    BY <2>1, <1>9
  <2>3. f # 0
    BY <2>2
  <2> QED
    BY <2>1, <2>2, <2>3
<1>11. PICK w \in 0 .. WORD - 1 : w = NextWord
  <2>1. CASE pos + 2 <= Len(stream)
    <3>1. pos + 1 \in 1 .. Len(stream) /\ pos + 2 \in 1 .. Len(stream) /\ stream \in Seq(Digit)
      BY <1>1, <2>1 DEF DecoderInv, Digit
    <3>2. PICK a \in Digit, b \in Digit : a = stream[pos + 1] /\ b = stream[pos + 2]
      BY <3>1, ElementOfSeq
    <3> QED
      BY <2>1, <3>2, WordType DEF NextWord, WordAt
  <2>2. CASE ~(pos + 2 <= Len(stream))
    BY <2>2, <1>3 DEF NextWord
  <2> QED
    BY <2>1, <2>2
<1>12. f * q \in Nat
  BY TimesMono
<1>13. PICK u \in Int : u = f * q + slot - start
  BY <1>12
<1>14. /\ u < L => u * WORD + w \in State
       /\ u >= L => u \in State
       /\ u \in Nat
  <2>1. u = f * (v \div M) + (v % M) - start
    BY <1>7, <1>13
  <2>2. v % M \in start .. start + f - 1
    BY <1>7, <1>10
  <2> QED
    BY <2>1, <2>2, <1>10, DecodeKeepsState
<1>15. /\ out' = Append(out, s)
       /\ x' = [x EXCEPT ![lane] = IF u < L THEN u * WORD + w ELSE u]
       /\ pos' = NextPos(u < L)
  BY <1>4, <1>5, <1>7, <1>9, <1>10, <1>11, <1>13 DEF DecodeSymbol
<1>16. pos' = IF u < L THEN pos + 2 ELSE pos
  BY <1>15 DEF NextPos
<1>17. u = fs[s] * (v \div M) + (v % M) - Start(fs, s)
  BY <1>7, <1>10, <1>13
<1>18. /\ v % M \in Start(fs, s) .. Start(fs, s + 1) - 1
       /\ s = CHOOSE t \in Symbols : v % M \in Start(fs, t) .. Start(fs, t + 1) - 1
  BY <1>7, <1>9
<1> HIDE DEF DecodeLane, NextWord
<1> QED
  BY <1>4, <1>5, <1>11, <1>14, <1>15, <1>16, <1>17, <1>18

LEMMA DecodeInv == ASSUME IInv, DecodeSymbol PROVE IInv'
<1>1. FreqTypeOK /\ FreqInv /\ EncoderInv /\ DecoderInv
  BY DEF IInv
<1>2. /\ Total(fs) = M /\ UNCHANGED freqVars
      /\ UNCHANGED <<data, BLOCK, pc, encoder, input, next, fs, stream, first>>
  BY <1>1 DEF DecodeSymbol, DecoderInv, encoder
<1>3. PICK lane \in Lanes, s \in Symbols, u \in Nat, w \in 0 .. WORD - 1 :
        /\ u < L => u * WORD + w \in State
        /\ u >= L => u \in State
        /\ out' = Append(out, s)
        /\ x' = [x EXCEPT ![lane] = IF u < L THEN u * WORD + w ELSE u]
        /\ pos' = IF u < L THEN pos + 2 ELSE pos
  BY DecodeIs
<1>4. x' \in [Lanes -> State]
  <2>1. (IF u < L THEN u * WORD + w ELSE u) \in State
    BY <1>3, Bounds
  <2> QED
    BY <2>1, <1>1, <1>3 DEF DecoderInv
<1>5. pos' \in Nat /\ out' \in Seq(Symbols) /\ first' \in 0 .. Len(out')
  <2>1. out' \in Seq(Symbols) /\ Len(out') = Len(out) + 1
    BY <1>1, <1>3, AppendProperties DEF DecoderInv
  <2> QED
    BY <2>1, <1>1, <1>2, <1>3 DEF DecoderInv
<1>6. DecoderInv'
  <2>1. Total(fs)' = Total(fs)
    BY <1>2 DEF Total, Start, Starts
  <2> QED
    BY <1>1, <1>2, <1>4, <1>5, <2>1 DEF DecoderInv, DecodeSymbol
<1> QED
  BY <1>1, <1>2, <1>6, FreqsKept, EncoderKept DEF IInv

LEMMA RestInv ==
    ASSUME IInv, RejectBlock \/ DecodeEnd \/ DecompressEnd \/ UNCHANGED vars
    PROVE  IInv'
<1>1. FreqTypeOK /\ FreqInv /\ EncoderInv /\ DecoderInv
  BY DEF IInv
<1>2. /\ UNCHANGED <<data, BLOCK, encoder, input, decoder>> /\ UNCHANGED freqVars
      /\ pc' = pc \/ pc' \in {"header", "corrupt", "ok"}
  BY DEF RejectBlock, DecodeEnd, DecompressEnd, vars, encoder
<1> QED
  BY <1>1, <1>2, FreqsKept, EncoderKept, DecoderKept DEF IInv

\* One step keeps the invariant.
LEMMA StepInv == ASSUME IInv, [Next]_vars PROVE IInv'
  BY NormalizeInv, EncodeInv, WriteInv, ArriveInv, ReadInv, DecodeInv, RestInv
     DEF Next, Compress, Decompress

LEMMA Invariance == Spec => []IInv
  BY InitInv, StepInv, PTL DEF Spec

\* "Once is always enough": whatever bytes and frequencies arrive, one word in
\* or out for each symbol keeps every state of every lane at least L and within
\* its 32 bits.
THEOREM OneWordAlwaysEnough == Spec => []OneWordIsEnough
<1>1. IInv => OneWordIsEnough
  BY DEF IInv, EncoderInv, DecoderInv, OneWordIsEnough, State
<1> QED
  BY <1>1, Invariance, PTL

-----------------------------------------------------------------------------
(* The two directions undo each other.                                      *)

LEMMA DivUnique ==
    ASSUME NEW a \in Nat \ {0}, NEW d \in Nat, NEW r \in 0 .. a - 1, NEW v \in Nat, v = a * d + r
    PROVE  v \div a = d /\ v % a = r
<1>1. PICK e \in Nat, t \in 0 .. a - 1 : e = v \div a /\ t = v % a /\ v = a * e + t
  BY DivMod
<1>2. a * d \in Nat /\ a * (d + 1) = a * d + a /\ a * d <= v /\ v < a * (d + 1)
  <2>1. a * d \in Nat
    BY TimesMono
  <2> QED
    BY <2>1
<1>3. d <= e
  BY <1>1, <1>2, DivBelow
<1>4. e < d + 1
  <2>1. d + 1 \in Nat
    OBVIOUS
  <2> QED
    BY <2>1, <1>1, <1>2, DivBelow
<1>5. e = d
  BY <1>3, <1>4
<1>6. t = r
  BY <1>1, <1>2, <1>5
<1> QED
  BY <1>1, <1>5, <1>6

\* Whether a word is written before a symbol of frequency f is coded, and what
\* is left of the state then.
Wrote(v, f) == v >= (L \div M) * WORD * f
Shrunk(v, f) == IF Wrote(v, f) THEN v \div WORD ELSE v
Coded(v, f, start) == Encoded(Shrunk(v, f), f, start)

LEMMA StateIs ==
    ASSUME NEW v \in State
    PROVE  v \in Nat /\ L <= v /\ v < L * WORD /\ L * WORD \in Nat /\ L \in Nat
<1>1. L \in Nat /\ WORD \in Nat
  BY Bounds
<1>2. L * WORD \in Nat
  BY <1>1, TimesMono
<1> QED
  BY <1>1, <1>2 DEF State

LEMMA ShrunkType ==
    ASSUME NEW v \in State, NEW f \in Nat \ {0}
    PROVE  /\ Shrunk(v, f) \in Nat /\ v % WORD \in 0 .. WORD - 1
           /\ Wrote(v, f) => Shrunk(v, f) < L /\ Shrunk(v, f) * WORD + (v % WORD) = v
           /\ ~Wrote(v, f) => Shrunk(v, f) = v /\ L <= v
<1>1. WORD \in Nat \ {0} /\ L = WORD
  BY Bounds
<1>2. v \in Nat /\ L <= v /\ v < L * WORD /\ L * WORD = WORD * L /\ L \in Nat
  BY <1>1, StateIs, TimesMono
<1>3. v \div WORD \in Nat /\ v % WORD \in 0 .. WORD - 1 /\ v = WORD * (v \div WORD) + (v % WORD)
  BY <1>1, <1>2, DivMod
<1>4. v \div WORD < L
  BY <1>1, <1>2, DivBelow
<1>5. PICK u \in Nat, w \in 0 .. WORD - 1 : u = v \div WORD /\ w = v % WORD /\ v = WORD * u + w
  BY <1>3
<1>6. WORD * u = u * WORD
  BY <1>1, TimesMono
<1> QED
  BY <1>2, <1>4, <1>5, <1>6 DEF Shrunk

\* What was coded decodes to its symbol and leaves the state there was.
LEMMA DecodeUndoes ==
    ASSUME NEW v \in State, NEW f \in Nat \ {0}, NEW start \in Nat, start + f <= M,
           NEW y \in State, y = Coded(v, f, start)
    PROVE  /\ y % M \in start .. start + f - 1
           /\ f * (y \div M) + (y % M) - start = Shrunk(v, f)
           /\ Shrunk(v, f) < L <=> Wrote(v, f)
<1>1. M \in Nat \ {0} /\ y \in Nat
  BY Bounds, StateIs
<1>2. PICK u \in Nat : u = Shrunk(v, f)
  BY ShrunkType
<1>3. PICK d \in Nat, r \in 0 .. f - 1 : d = u \div f /\ r = u % f /\ u = f * d + r
  BY <1>2, DivMod
<1>4. y = d * M + r + start
  BY <1>2, <1>3 DEF Coded, Encoded
<1>5. d * M = M * d /\ d * M \in Nat
  BY <1>1, TimesMono
<1>6. y = M * d + (r + start) /\ r + start \in 0 .. M - 1
  BY <1>1, <1>3, <1>4, <1>5
<1>7. y \div M = d /\ y % M = r + start
  BY <1>1, <1>6, DivUnique
<1>8. f * d \in Nat
  BY TimesMono
<1>9. f * (y \div M) + (y % M) - start = u
  <2>1. PICK p \in Nat : p = f * d
    BY <1>8
  <2>2. f * (y \div M) = p /\ u = p + r
    BY <1>3, <1>7, <2>1
  <2>3. p + (r + start) - start = u
    BY <2>2
  <2> QED
    BY <2>2, <2>3, <1>7, Zenon
<1>10. Shrunk(v, f) < L <=> Wrote(v, f)
  <2>1. Shrunk(v, f) \in Nat /\ L \in Nat /\ v \in Nat
    BY ShrunkType, Bounds, StateIs
  <2> QED
    BY <2>1, ShrunkType
<1>11. r + start \in start .. start + f - 1
  OBVIOUS
<1> QED
  BY <1>2, <1>7, <1>9, <1>10, <1>11, Zenon

LEMMA WordSplit ==
    ASSUME NEW u \in Nat, NEW w \in 0 .. WORD - 1
    PROVE  (u * WORD + w) \div WORD = u /\ (u * WORD + w) % WORD = w
<1>1. WORD \in Nat \ {0}
  BY Bounds
<1>2. PICK y \in Nat : y = u * WORD + w
  <2>1. u * WORD \in Nat /\ w \in Nat
    BY <1>1, TimesMono
  <2> QED
    BY <2>1
<1>3. y = WORD * u + w
  BY <1>1, <1>2, TimesMono
<1>4. y \div WORD = u /\ y % WORD = w
  BY <1>1, <1>3, DivUnique
<1> QED
  BY <1>2, <1>4

LEMMA CodedIs ==
    ASSUME NEW y \in Nat, NEW f \in Nat \ {0}, NEW start \in Nat, NEW d \in Nat,
           NEW t \in 0 .. f - 1, NEW u \in Nat, u = f * d + t, Shrunk(y, f) = u
    PROVE  Coded(y, f, start) = d * M + t + start
<1>1. u \div f = d /\ u % f = t
  BY DivUnique
<1> QED
  BY <1>1 DEF Coded, Encoded

\* What was decoded codes to the state there was, and gives back the word.
LEMMA EncodeUndoes ==
    ASSUME NEW v \in State, NEW f \in Nat \ {0}, NEW start \in Nat, start + f <= M,
           v % M \in start .. start + f - 1, NEW w \in 0 .. WORD - 1,
           NEW u \in Nat, u = f * (v \div M) + (v % M) - start,
           NEW y \in State, y = IF u < L THEN u * WORD + w ELSE u
    PROVE  /\ Wrote(y, f) <=> u < L
           /\ u < L => y % WORD = w
           /\ Coded(y, f, start) = v
<1> DEFINE q == L \div M
<1>1. /\ M \in Nat \ {0} /\ WORD \in Nat \ {0} /\ L = WORD /\ q \in Nat \ {0} /\ L = M * q
      /\ L \in Nat
  BY Bounds
<1>2. v \in Nat /\ L <= v /\ v < L * WORD /\ y \in Nat /\ L * WORD \in Nat
  BY StateIs
<1> HIDE DEF q
<1>3. PICK d \in Nat, r \in 0 .. M - 1 : d = v \div M /\ r = v % M /\ v = M * d + r
  <2>1. v \div M \in Nat /\ v % M \in 0 .. M - 1 /\ v = M * (v \div M) + (v % M)
    BY <1>1, <1>2, DivMod
  <2> QED
    BY <2>1, Zenon
<1>4. PICK t \in 0 .. f - 1 : t = r - start /\ u = f * d + t
  <2>1. f * d \in Nat
    BY TimesMono
  <2>2. r \in start .. start + f - 1
    BY <1>3
  <2>3. r - start \in 0 .. f - 1
    BY <2>2, <1>1
  <2> QED
    BY <2>1, <2>3, <1>3
<1>5. q * WORD \in Nat /\ q * WORD * f \in Nat /\ f * d \in Nat /\ q * f \in Nat
      /\ f * (q * WORD) = q * WORD * f
  <2>1. q * WORD \in Nat /\ q * f \in Nat /\ f * d \in Nat
    BY <1>1, TimesMono
  <2> QED
    BY <2>1, TimesMono
<1>6. q <= d
  BY <1>1, <1>2, <1>3, DivBelow
<1>7. d < q * WORD
  <2>1. M * (q * WORD) = L * WORD
    BY <1>1
  <2> QED
    BY <2>1, <1>1, <1>2, <1>3, <1>5, DivBelow
<1>8. ASSUME u < L PROVE y >= q * WORD * f /\ y \div WORD = u /\ y % WORD = w
  <2>1. y = u * WORD + w /\ u * WORD \in Nat
    BY <1>1, <1>8, TimesMono
  <2>2. (u * WORD + w) \div WORD = u /\ (u * WORD + w) % WORD = w
    BY WordSplit
  <2>3. y \div WORD = u /\ y % WORD = w
    BY <2>1, <2>2, Zenon
  <2>4. q * f <= u
    <3>1. q * f <= d * f /\ d * f = f * d
      BY <1>1, <1>6, TimesMono
    <3>2. PICK a \in Nat, b \in Nat : a = q * f /\ b = f * d
      BY <1>5
    <3>3. u = b + t /\ a <= b
      BY <1>4, <3>1, <3>2
    <3>4. a <= u
      BY <3>3
    <3> QED
      BY <3>2, <3>4, Zenon
  <2>5. (q * f) * WORD <= u * WORD /\ (q * f) * WORD = q * WORD * f
    <3>1. PICK p \in Nat : p = q * f
      BY <1>5
    <3>2. p * WORD <= u * WORD
      BY <3>1, <2>4, <1>1, TimesMono
    <3>3. (q * f) * WORD = q * WORD * f
      BY <1>1
    <3> QED
      BY <3>1, <3>2, <3>3
  <2> QED
    BY <2>1, <2>3, <2>5, <1>5
<1>9. ASSUME ~(u < L) PROVE ~(y >= q * WORD * f) /\ y = u
  <2>1. f * (d + 1) <= f * (q * WORD) /\ f * (d + 1) = f * d + f
    <3>1. d + 1 <= q * WORD /\ d + 1 \in Nat
      BY <1>5, <1>7
    <3> QED
      BY <3>1, <1>5, TimesMono
  <2>2. u < q * WORD * f
    BY <2>1, <1>4, <1>5
  <2> QED
    BY <2>2, <1>5, <1>9
<1>10. Shrunk(y, f) = u /\ (Wrote(y, f) <=> u < L)
  <2>1. Wrote(y, f) <=> y >= q * WORD * f
    BY DEF Wrote, q
  <2> QED
    BY <2>1, <1>8, <1>9 DEF Shrunk
<1>11. Coded(y, f, start) = d * M + t + start
  <2>1. u = f * d + t
    BY <1>4
  <2> QED
    BY <2>1, <1>2, <1>10, CodedIs
<1>12. d * M + t + start = v
  <2>1. PICK p \in Nat : p = d * M /\ p = M * d
    BY <1>1, TimesMono
  <2>2. v = p + r
    BY <1>3, <2>1, Zenon
  <2>3. p + t + start = v
    BY <1>4, <2>1, <2>2
  <2> QED
    BY <2>1, <2>3, Zenon
<1>13. u < L => y % WORD = w
  BY <1>8
<1> QED
  BY <1>10, <1>11, <1>12, <1>13, Zenon

\* A slot is one of one symbol only.
LEMMA SlotUnique ==
    ASSUME NEW f \in Freqs, NEW s \in Symbols, NEW v \in Nat,
           v \in Start(f, s) .. Start(f, s + 1) - 1
    PROVE  (CHOOSE t \in Symbols : v \in Start(f, t) .. Start(f, t + 1) - 1) = s
<1>1. ASSUME NEW a \in Symbols, NEW b \in Symbols, a < b,
             v \in Start(f, a) .. Start(f, a + 1) - 1, v \in Start(f, b) .. Start(f, b + 1) - 1
      PROVE  FALSE
  <2>1. a + 1 \in 0 .. SYMBOLS /\ b \in a + 1 .. SYMBOLS /\ b \in 0 .. SYMBOLS
    BY <1>1, SymbolsAssumption DEF Symbols
  <2>2. Start(f, a + 1) <= Start(f, b)
    BY <2>1, StartMono
  <2>3. Start(f, a + 1) \in Nat /\ Start(f, b) \in Nat
    BY <2>1, StartType
  <2> QED
    BY <2>2, <2>3, <1>1
<1>2. ASSUME NEW t \in Symbols, v \in Start(f, t) .. Start(f, t + 1) - 1
      PROVE  t = s
  <2>1. t \in Int /\ s \in Int
    BY DEF Symbols
  <2>2. t < s \/ s < t \/ t = s
    BY <2>1
  <2> QED
    BY <2>2, <1>1, <1>2
<1> QED
  BY <1>2

-----------------------------------------------------------------------------
(* The bytes of a block.                                                    *)

\* Pieces of one length, put together, are found at multiples of it.
LEMMA FlattenEven ==
    ASSUME NEW T, NEW p \in Seq(Seq(T)), NEW c \in Nat,
           \A i \in 1 .. Len(p) : Len(p[i]) = c
    PROVE  /\ Len(FlattenSeq(p)) = c * Len(p)
           /\ \A i \in 1 .. Len(p), n \in Nat, j \in 1 .. c :
                 n = c * (i - 1) => FlattenSeq(p)[n + j] = p[i][j]
<1>1. PICK g \in [0 .. Len(p) -> Seq(T)] :
        /\ g[0] = <<>> /\ FlattenSeq(p) = g[Len(p)]
        /\ \A i \in 1 .. Len(p) : g[i] = g[i - 1] \o p[i]
  BY FlattenSteps
<1>2. PICK m \in Nat : m = Len(p)
  OBVIOUS
<1>3. \A i \in 1 .. m : p[i] \in Seq(T) /\ Len(p[i]) = c
  BY <1>2
<1> DEFINE Holds(n) == /\ Len(g[n]) = c * n
                       /\ \A i \in 1 .. n, j \in 1 .. c : g[n][c * (i - 1) + j] = p[i][j]
           S == {n \in Nat : n <= m => Holds(n)}
<1>4. 0 \in S
  <2>1. Holds(0)
    BY <1>1
  <2> QED
    BY <2>1
<1>5. ASSUME NEW n \in Nat, n \in S PROVE n + 1 \in S
  <2>1. SUFFICES ASSUME n + 1 <= m PROVE Holds(n + 1)
    <3> HIDE DEF Holds
    <3> QED
      OBVIOUS
  <2>2. Holds(n) /\ n \in 0 .. m /\ n + 1 \in 1 .. m
    BY <1>5, <2>1
  <2>3. PICK u \in Seq(T), v \in Seq(T) : u = g[n] /\ v = p[n + 1] /\ g[n + 1] = u \o v
    <3>1. g[n + 1] = g[n] \o p[n + 1]
      <4>1. PICK i \in 1 .. Len(p) : i = n + 1 /\ i - 1 = n
        BY <1>2, <2>2
      <4>2. g[i] = g[i - 1] \o p[i]
        BY <1>1
      <4> QED
        BY <4>1, <4>2
    <3>2. g[n] \in Seq(T) /\ p[n + 1] \in Seq(T)
      <4>1. n \in 0 .. Len(p)
        BY <1>2, <2>2
      <4>2. g[n] \in Seq(T)
        BY <4>1
      <4>3. p[n + 1] \in Seq(T)
        BY <1>3, <2>2
      <4> QED
        BY <4>2, <4>3
    <3> QED
      BY <3>1, <3>2
  <2>4. PICK b \in Nat : b = c * n
    BY TimesMono
  <2>5. Len(u) = b /\ Len(v) = c
    BY <2>2, <2>3, <2>4, <1>3
  <2>6. /\ Len(u \o v) = Len(u) + Len(v)
        /\ \A i \in 1 .. Len(u) + Len(v) : (u \o v)[i] = IF i <= Len(u) THEN u[i] ELSE v[i - Len(u)]
    BY ConcatProperties
  <2>7. Len(g[n + 1]) = c * (n + 1)
    <3>1. c * (n + 1) = b + c
      BY <2>4
    <3> QED
      BY <3>1, <2>3, <2>5, <2>6
  <2>8. ASSUME NEW i \in 1 .. n + 1, NEW j \in 1 .. c
        PROVE  g[n + 1][c * (i - 1) + j] = p[i][j]
    <3>1. PICK a \in Nat : a = c * (i - 1)
      <4>1. i - 1 \in Nat
        OBVIOUS
      <4> QED
        BY <4>1, TimesMono
    <3>2. CASE i = n + 1
      <4>1. i - 1 = n
        BY <3>2
      <4>2. a = b
        BY <4>1, <3>1, <2>4
      <4>3. a + j \in 1 .. Len(u) + Len(v) /\ ~(a + j <= Len(u)) /\ a + j - Len(u) = j
        BY <4>2, <2>5
      <4>4. (u \o v)[a + j] = v[j]
        BY <4>3, <2>6
      <4> QED
        BY <4>4, <3>1, <3>2, <2>3
    <3>3. CASE i \in 1 .. n
      <4>1. i - 1 + 1 <= n /\ i - 1 \in Nat /\ i - 1 + 1 = i
        BY <3>3
      <4>2. a + c <= b
        <5>1. i \in Nat /\ i <= n
          BY <3>3
        <5>2. c * i <= c * n
          BY <5>1, TimesMono
        <5>3. PICK e \in Nat : e = i - 1 /\ i = e + 1
          BY <5>1
        <5>4. c * (e + 1) = c * e + c
          OBVIOUS
        <5>5. a = c * e
          BY <3>1, <5>3, Zenon
        <5>6. c * (e + 1) = a + c
          BY <5>4, <5>5, Zenon
        <5>7. c * i = c * (e + 1)
          BY <5>3
        <5>8. a + c <= c * n
          BY <5>2, <5>6, <5>7, Zenon
        <5> QED
          BY <5>8, <2>4, Zenon
      <4>3. a + j \in 1 .. Len(u) + Len(v) /\ a + j <= Len(u)
        BY <4>2, <2>5
      <4>4. (u \o v)[a + j] = u[a + j]
        BY <4>3, <2>6
      <4>5. u[a + j] = p[i][j]
        BY <2>2, <2>3, <3>1, <3>3
      <4> QED
        BY <4>4, <4>5, <3>1, <2>3
    <3> QED
      BY <3>2, <3>3
  <2> QED
    BY <2>7, <2>8
<1>6. Nat \subseteq S
  <2> HIDE DEF S
  <2> QED
    BY <1>4, <1>5, NatSetInduction
<1>7. Holds(m)
  <2> HIDE DEF Holds
  <2> QED
    BY <1>6
<1> QED
  BY <1>1, <1>2, <1>7

States == [Lanes -> State]
Words == Seq(0 .. WORD - 1)

\* The bytes of the states ts and the words ws.
StreamOf(ts, ws) ==
    FlattenSeq([k \in 1 .. LANES |-> StateBytes(ts[k - 1])])
        \o FlattenSeq([k \in 1 .. Len(ws) |-> WordBytes(ws[Len(ws) - k + 1])])

LEMMA WordBytesAre ==
    ASSUME NEW w \in 0 .. WORD - 1
    PROVE  \E a, b \in Digit : WordBytes(w) = <<a, b>> /\ a + BYTE * b = w
<1>1. BYTE \in Nat \ {0} /\ WORD = BYTE * BYTE /\ WORD \in Nat
  BY Bounds DEF WORD
<1>2. w \in Nat /\ w < BYTE * BYTE
  BY <1>1
<1>3. PICK a \in 0 .. BYTE - 1, b \in Nat : a = w % BYTE /\ b = w \div BYTE /\ w = BYTE * b + a
  <2>1. w \in Nat /\ BYTE \in Nat \ {0}
    BY <1>1, <1>2
  <2>2. w \div BYTE \in Nat /\ w % BYTE \in 0 .. BYTE - 1 /\ w = BYTE * (w \div BYTE) + (w % BYTE)
    BY <2>1, DivMod
  <2> QED
    BY <2>2, Zenon
<1>4. b < BYTE
  BY <1>1, <1>2, <1>3, DivBelow
<1>5. a \in Digit /\ b \in Digit
  BY <1>1, <1>4 DEF Digit
<1>6. BYTE * b \in Nat
  BY <1>1, TimesMono
<1> QED
  BY <1>3, <1>5, <1>6 DEF WordBytes

LEMMA StateBytesAre ==
    ASSUME NEW v \in State
    PROVE  /\ StateBytes(v) \in Seq(Digit) /\ Len(StateBytes(v)) = 4
           /\ \E a, b, c, d \in Digit :
                 /\ StateBytes(v)[1] = a /\ StateBytes(v)[2] = b
                 /\ StateBytes(v)[3] = c /\ StateBytes(v)[4] = d
                 /\ (a + BYTE * b) + WORD * (c + BYTE * d) = v
<1>1. WORD \in Nat \ {0} /\ L = WORD /\ v \in Nat /\ v < WORD * WORD
  <2>1. WORD \in Nat \ {0} /\ L = WORD
    BY Bounds
  <2> QED
    BY <2>1, StateIs
<1>2. PICK lo \in 0 .. WORD - 1, hi \in Nat :
        lo = v % WORD /\ hi = v \div WORD /\ v = WORD * hi + lo
  BY <1>1, DivMod
<1>3. hi \in 0 .. WORD - 1
  <2>1. hi < WORD
    BY <1>1, <1>2, DivBelow
  <2> QED
    BY <2>1, <1>1
<1>4. PICK a \in Digit, b \in Digit : WordBytes(lo) = <<a, b>> /\ a + BYTE * b = lo
  BY WordBytesAre
<1>5. PICK c \in Digit, d \in Digit : WordBytes(hi) = <<c, d>> /\ c + BYTE * d = hi
  BY <1>3, WordBytesAre
<1>6. StateBytes(v) = <<a, b>> \o <<c, d>>
  BY <1>2, <1>4, <1>5 DEF StateBytes
<1>7. /\ StateBytes(v) \in Seq(Digit) /\ Len(StateBytes(v)) = 4
      /\ StateBytes(v)[1] = a /\ StateBytes(v)[2] = b
      /\ StateBytes(v)[3] = c /\ StateBytes(v)[4] = d
  <2>1. PICK s \in Seq(Digit), t \in Seq(Digit) :
          /\ s = <<a, b>> /\ Len(s) = 2 /\ s[1] = a /\ s[2] = b
          /\ t = <<c, d>> /\ Len(t) = 2 /\ t[1] = c /\ t[2] = d
    <3>1. /\ <<a, b>> \in Seq(Digit) /\ Len(<<a, b>>) = 2
          /\ <<a, b>>[1] = a /\ <<a, b>>[2] = b
      OBVIOUS
    <3>2. /\ <<c, d>> \in Seq(Digit) /\ Len(<<c, d>>) = 2
          /\ <<c, d>>[1] = c /\ <<c, d>>[2] = d
      OBVIOUS
    <3> QED
      BY <3>1, <3>2, Zenon
  <2>2. /\ s \o t \in Seq(Digit) /\ Len(s \o t) = Len(s) + Len(t)
        /\ \A i \in 1 .. Len(s) + Len(t) : (s \o t)[i] = IF i <= Len(s) THEN s[i] ELSE t[i - Len(s)]
    BY ConcatProperties
  <2>3. /\ Len(s \o t) = 4 /\ (s \o t)[1] = a /\ (s \o t)[2] = b
        /\ (s \o t)[3] = c /\ (s \o t)[4] = d
    <3>1. \A i \in 1 .. 4 : (s \o t)[i] = IF i <= 2 THEN s[i] ELSE t[i - 2]
      BY <2>1, <2>2
    <3> QED
      BY <2>1, <2>2, <3>1
  <2> QED
    BY <2>1, <2>2, <2>3, <1>6
<1>8. (a + BYTE * b) + WORD * (c + BYTE * d) = v
  <2>1. WORD * hi \in Nat
    BY <1>1, TimesMono
  <2>2. lo + WORD * hi = v
    BY <2>1, <1>2
  <2> QED
    BY <2>2, <1>4, <1>5, Zenon
<1> QED
  BY <1>7, <1>8

\* A state is found where it was put, and the words in reverse order behind.
LEMMA StreamIs ==
    ASSUME NEW ts \in States, NEW ws \in Words, NEW S, S = StreamOf(ts, ws)
    PROVE  /\ S \in Seq(Digit) /\ Len(S) = 4 * LANES + 2 * Len(ws) /\ Len(ws) \in Nat
           /\ \A l \in Lanes : StateAt(S, 4 * l) = ts[l]
           /\ \A k \in 1 .. Len(ws) : WordAt(S, 4 * LANES + 2 * (k - 1)) = ws[Len(ws) - k + 1]
<1>1. LANES \in Nat \ {0}
  BY Bounds
<1>2. PICK m \in Nat : m = Len(ws)
  BY DEF Words
<1>3. \A k \in 1 .. m : ws[m - k + 1] \in 0 .. WORD - 1
  <2>1. ws \in Seq(0 .. WORD - 1)
    BY DEF Words
  <2> SUFFICES ASSUME NEW k \in 1 .. m PROVE ws[m - k + 1] \in 0 .. WORD - 1
    OBVIOUS
  <2>2. m - k + 1 \in 1 .. Len(ws)
    BY <1>2
  <2> QED
    BY <2>1, <2>2, ElementOfSeq
<1>4. \A k \in 1 .. LANES : ts[k - 1] \in State
  BY <1>1 DEF States, Lanes
<1> DEFINE head == [k \in 1 .. LANES |-> StateBytes(ts[k - 1])]
           tail == [k \in 1 .. m |-> WordBytes(ws[m - k + 1])]
<1>5. /\ head \in Seq(Seq(Digit)) /\ Len(head) = LANES /\ \A k \in 1 .. LANES : Len(head[k]) = 4
      /\ \A k \in 1 .. LANES : head[k] = StateBytes(ts[k - 1])
  <2>1. ASSUME NEW k \in 1 .. LANES
        PROVE  StateBytes(ts[k - 1]) \in Seq(Digit) /\ Len(StateBytes(ts[k - 1])) = 4
    <3>1. PICK v \in State : v = ts[k - 1]
      BY <1>4
    <3> QED
      BY <3>1, StateBytesAre
  <2> QED
    BY <2>1, <1>1
<1>6. /\ tail \in Seq(Seq(Digit)) /\ Len(tail) = m /\ \A k \in 1 .. m : Len(tail[k]) = 2
      /\ \A k \in 1 .. m : tail[k] = WordBytes(ws[m - k + 1])
  <2>1. ASSUME NEW k \in 1 .. m
        PROVE  WordBytes(ws[m - k + 1]) \in Seq(Digit) /\ Len(WordBytes(ws[m - k + 1])) = 2
    <3>1. PICK w \in 0 .. WORD - 1 : w = ws[m - k + 1]
      BY <1>3
    <3>2. PICK a \in Digit, b \in Digit : WordBytes(w) = <<a, b>>
      BY WordBytesAre
    <3> QED
      BY <3>1, <3>2
  <2> QED
    BY <2>1
<1>7. S = FlattenSeq(head) \o FlattenSeq(tail)
  BY <1>2 DEF StreamOf
<1> HIDE DEF head, tail
<1>8. PICK u \in Seq(Digit), t \in Seq(Digit) : u = FlattenSeq(head) /\ t = FlattenSeq(tail)
  BY <1>5, <1>6, FlattenType
<1>9. /\ Len(u) = 4 * LANES
      /\ \A i \in 1 .. LANES, n \in Nat, j \in 1 .. 4 :
            n = 4 * (i - 1) => u[n + j] = head[i][j]
  <2>1. \A i \in 1 .. Len(head) : Len(head[i]) = 4
    BY <1>5
  <2>2. PICK c \in Nat : c = 4
    OBVIOUS
  <2>3. \A i \in 1 .. Len(head) : Len(head[i]) = c
    BY <2>1, <2>2
  <2>4. /\ Len(FlattenSeq(head)) = c * Len(head)
        /\ \A i \in 1 .. Len(head), n \in Nat, j \in 1 .. c :
              n = c * (i - 1) => FlattenSeq(head)[n + j] = head[i][j]
    <3>1. head \in Seq(Seq(Digit))
      BY <1>5
    <3> QED
      BY <2>3, <3>1, FlattenEven
  <2> QED
    BY <2>2, <2>4, <1>5, <1>8
<1>10. /\ Len(t) = 2 * m
       /\ \A i \in 1 .. m, n \in Nat, j \in 1 .. 2 :
             n = 2 * (i - 1) => t[n + j] = tail[i][j]
  <2>1. \A i \in 1 .. Len(tail) : Len(tail[i]) = 2
    BY <1>6
  <2>2. PICK c \in Nat : c = 2
    OBVIOUS
  <2>3. \A i \in 1 .. Len(tail) : Len(tail[i]) = c
    BY <2>1, <2>2
  <2>4. /\ Len(FlattenSeq(tail)) = c * Len(tail)
        /\ \A i \in 1 .. Len(tail), n \in Nat, j \in 1 .. c :
              n = c * (i - 1) => FlattenSeq(tail)[n + j] = tail[i][j]
    <3>1. tail \in Seq(Seq(Digit))
      BY <1>6
    <3> QED
      BY <2>3, <3>1, FlattenEven
  <2> QED
    BY <2>2, <2>4, <1>6, <1>8
<1>11. /\ S \in Seq(Digit) /\ Len(S) = 4 * LANES + 2 * m
       /\ \A i \in 1 .. 4 * LANES + 2 * m :
             S[i] = IF i <= 4 * LANES THEN u[i] ELSE t[i - 4 * LANES]
  <2>1. /\ u \o t \in Seq(Digit) /\ Len(u \o t) = Len(u) + Len(t)
        /\ \A i \in 1 .. Len(u) + Len(t) : (u \o t)[i] = IF i <= Len(u) THEN u[i] ELSE t[i - Len(u)]
    BY ConcatProperties
  <2> QED
    BY <2>1, <1>7, <1>8, <1>9, <1>10
<1>12. ASSUME NEW l \in Lanes PROVE StateAt(S, 4 * l) = ts[l]
  <2>1. l + 1 \in 1 .. LANES /\ l + 1 - 1 = l /\ 4 * l + 4 <= 4 * LANES /\ l \in Nat
    BY <1>1 DEF Lanes
  <2>2. PICK v \in State : v = ts[l] /\ head[l + 1] = StateBytes(v)
    BY <2>1, <1>4, <1>5
  <2>3. PICK a \in Digit, b \in Digit, c \in Digit, d \in Digit :
          /\ StateBytes(v)[1] = a /\ StateBytes(v)[2] = b
          /\ StateBytes(v)[3] = c /\ StateBytes(v)[4] = d
          /\ (a + BYTE * b) + WORD * (c + BYTE * d) = v
    BY StateBytesAre
  <2>4. PICK p \in Nat : p = 4 * l /\ p + 4 <= 4 * LANES
    BY <2>1
  <2>5. /\ S[p + 1] = u[p + 1] /\ S[p + 2] = u[p + 2] /\ S[p + 3] = u[p + 3] /\ S[p + 4] = u[p + 4]
    <3>1. /\ p + 1 \in 1 .. 4 * LANES + 2 * m /\ p + 1 <= 4 * LANES
          /\ p + 2 \in 1 .. 4 * LANES + 2 * m /\ p + 2 <= 4 * LANES
          /\ p + 3 \in 1 .. 4 * LANES + 2 * m /\ p + 3 <= 4 * LANES
          /\ p + 4 \in 1 .. 4 * LANES + 2 * m /\ p + 4 <= 4 * LANES
      BY <2>4, <1>1
    <3> QED
      BY <3>1, <1>11
  <2>6. \A j \in 1 .. 4 : u[p + j] = head[l + 1][j]
    <3>1. p = 4 * ((l + 1) - 1)
      BY <2>1, <2>4
    <3> QED
      BY <2>1, <3>1, <1>9
  <2>7. /\ u[p + 1] = a /\ u[p + 2] = b /\ u[p + 3] = c /\ u[p + 4] = d
    BY <2>6, <2>2, <2>3
  <2>8. p + 2 + 1 = p + 3 /\ p + 2 + 2 = p + 4
    BY <2>4
  <2>9. WordAt(S, p) = a + BYTE * b /\ WordAt(S, p + 2) = c + BYTE * d
    BY <2>5, <2>7, <2>8 DEF WordAt
  <2> QED
    BY <2>2, <2>3, <2>4, <2>9 DEF StateAt
<1>13. ASSUME NEW k \in 1 .. m PROVE WordAt(S, 4 * LANES + 2 * (k - 1)) = ws[m - k + 1]
  <2>1. PICK w \in 0 .. WORD - 1 : w = ws[m - k + 1] /\ tail[k] = WordBytes(w)
    BY <1>3, <1>6
  <2>2. PICK a \in Digit, b \in Digit : WordBytes(w) = <<a, b>> /\ a + BYTE * b = w
    BY WordBytesAre
  <2>3. PICK p \in Nat, e \in Nat :
          /\ p = 2 * (k - 1) /\ p + 2 <= 2 * m /\ e = 4 * LANES
    BY <1>1
  <2>4. S[e + p + 1] = t[p + 1] /\ S[e + p + 2] = t[p + 2]
    <3>1. \A i \in 1 .. e + 2 * m : S[i] = IF i <= e THEN u[i] ELSE t[i - e]
      BY <2>3, <1>11
    <3>2. PICK i \in Nat, j \in Nat : i = e + p + 1 /\ j = e + p + 2
      OBVIOUS
    <3>3. /\ i \in 1 .. e + 2 * m /\ ~(i <= e) /\ i - e = p + 1
          /\ j \in 1 .. e + 2 * m /\ ~(j <= e) /\ j - e = p + 2
      <4>1. PICK z \in Nat : z = 2 * m /\ p + 2 <= z
        BY <2>3
      <4>2. /\ i \in 1 .. e + z /\ ~(i <= e) /\ i - e = p + 1
            /\ j \in 1 .. e + z /\ ~(j <= e) /\ j - e = p + 2
        BY <4>1, <3>2
      <4> QED
        BY <4>1, <4>2
    <3> QED
      BY <3>1, <3>2, <3>3
  <2>5. t[p + 1] = a /\ t[p + 2] = b
    <3>1. tail[k][1] = a /\ tail[k][2] = b
      BY <2>1, <2>2
    <3>2. \A j \in 1 .. 2 : t[p + j] = tail[k][j]
      BY <2>3, <1>10
    <3> QED
      BY <3>1, <3>2
  <2>6. WordAt(S, e + p) = w
    BY <2>2, <2>4, <2>5 DEF WordAt
  <2> QED
    BY <2>1, <2>3, <2>6
<1> QED
  BY <1>2, <1>11, <1>12, <1>13

LEMMA SumSplit ==
    ASSUME NEW a \in Nat \ {0}, NEW r \in 0 .. a - 1, NEW q \in Nat
    PROVE  (r + a * q) \div a = q /\ (r + a * q) % a = r
<1>1. a * q \in Nat /\ r \in Nat
  BY TimesMono
<1>2. PICK v \in Nat : v = r + a * q /\ v = a * q + r
  BY <1>1
<1>3. v \div a = q /\ v % a = r
  BY <1>2, DivUnique
<1> QED
  BY <1>2, <1>3, Zenon

\* A number has one pair of digits.
LEMMA DigitsUnique ==
    ASSUME NEW a \in Digit, NEW b \in Digit, NEW c \in Digit, NEW d \in Digit,
           a + BYTE * b = c + BYTE * d
    PROVE  a = c /\ b = d
<1>1. ASSUME NEW r \in Digit, NEW q \in Digit
      PROVE  (r + BYTE * q) \div BYTE = q /\ (r + BYTE * q) % BYTE = r
  <2>1. BYTE \in Nat \ {0}
    BY Bounds
  <2>2. r \in 0 .. BYTE - 1 /\ q \in Nat
    BY <2>1 DEF Digit
  <2> QED
    BY <2>1, <2>2, SumSplit
<1>2. (a + BYTE * b) \div BYTE = b /\ (a + BYTE * b) % BYTE = a
  BY <1>1, Zenon
<1>3. (c + BYTE * d) \div BYTE = d /\ (c + BYTE * d) % BYTE = c
  BY <1>1, Zenon
<1> QED
  BY <1>2, <1>3, Zenon

\* A state has one pair of words.
LEMMA HalvesUnique ==
    ASSUME NEW a \in 0 .. WORD - 1, NEW b \in 0 .. WORD - 1, NEW c \in 0 .. WORD - 1,
           NEW d \in 0 .. WORD - 1, a + WORD * b = c + WORD * d
    PROVE  a = c /\ b = d
<1>1. ASSUME NEW r \in 0 .. WORD - 1, NEW q \in 0 .. WORD - 1
      PROVE  (r + WORD * q) \div WORD = q /\ (r + WORD * q) % WORD = r
  <2>1. WORD \in Nat \ {0}
    BY Bounds
  <2>2. q \in Nat
    BY <2>1
  <2> QED
    BY <2>1, <2>2, SumSplit
<1>2. (a + WORD * b) \div WORD = b /\ (a + WORD * b) % WORD = a
  BY <1>1, Zenon
<1>3. (c + WORD * d) \div WORD = d /\ (c + WORD * d) % WORD = c
  BY <1>1, Zenon
<1> QED
  BY <1>2, <1>3, Zenon

LEMMA WordAtIs ==
    ASSUME NEW S \in Seq(Digit), NEW p \in Nat, p + 2 <= Len(S)
    PROVE  /\ S[p + 1] \in Digit /\ S[p + 2] \in Digit /\ WordAt(S, p) \in 0 .. WORD - 1
           /\ WordAt(S, p) = S[p + 1] + BYTE * S[p + 2]
<1>1. p + 1 \in 1 .. Len(S) /\ p + 2 \in 1 .. Len(S)
  OBVIOUS
<1>2. S[p + 1] \in Digit /\ S[p + 2] \in Digit
  BY <1>1, ElementOfSeq
<1> QED
  BY <1>2, WordType DEF WordAt

\* Sequences of bytes with the same words are the same.
LEMMA SameWord ==
    ASSUME NEW S \in Seq(Digit), NEW R \in Seq(Digit), NEW p \in Nat,
           p + 2 <= Len(S), p + 2 <= Len(R), WordAt(S, p) = WordAt(R, p)
    PROVE  S[p + 1] = R[p + 1] /\ S[p + 2] = R[p + 2]
<1>1. /\ S[p + 1] \in Digit /\ S[p + 2] \in Digit /\ WordAt(S, p) = S[p + 1] + BYTE * S[p + 2]
  BY WordAtIs
<1>2. /\ R[p + 1] \in Digit /\ R[p + 2] \in Digit /\ WordAt(R, p) = R[p + 1] + BYTE * R[p + 2]
  BY WordAtIs
<1>3. PICK a \in Digit, b \in Digit, c \in Digit, d \in Digit :
        /\ a = S[p + 1] /\ b = S[p + 2] /\ c = R[p + 1] /\ d = R[p + 2]
        /\ a + BYTE * b = c + BYTE * d
  BY <1>1, <1>2
<1>4. a = c /\ b = d
  BY <1>3, DigitsUnique
<1> QED
  BY <1>3, <1>4

LEMMA SameState ==
    ASSUME NEW S \in Seq(Digit), NEW R \in Seq(Digit), NEW p \in Nat,
           p + 4 <= Len(S), p + 4 <= Len(R), StateAt(S, p) = StateAt(R, p)
    PROVE  WordAt(S, p) = WordAt(R, p) /\ WordAt(S, p + 2) = WordAt(R, p + 2)
<1>1. p + 2 \in Nat /\ p + 2 <= Len(S) /\ p + 2 <= Len(R) /\ (p + 2) + 2 <= Len(S)
      /\ (p + 2) + 2 <= Len(R)
  OBVIOUS
<1>2. WordAt(S, p) \in 0 .. WORD - 1 /\ WordAt(S, p + 2) \in 0 .. WORD - 1
  BY <1>1, WordAtIs
<1>3. WordAt(R, p) \in 0 .. WORD - 1 /\ WordAt(R, p + 2) \in 0 .. WORD - 1
  BY <1>1, WordAtIs
<1>4. PICK a \in 0 .. WORD - 1, b \in 0 .. WORD - 1, c \in 0 .. WORD - 1, d \in 0 .. WORD - 1 :
        /\ a = WordAt(S, p) /\ b = WordAt(S, p + 2) /\ c = WordAt(R, p) /\ d = WordAt(R, p + 2)
        /\ a + WORD * b = c + WORD * d
  BY <1>2, <1>3 DEF StateAt
<1>5. a = c /\ b = d
  BY <1>4, HalvesUnique
<1> QED
  BY <1>4, <1>5

LEMMA HalfOf ==
    ASSUME NEW i \in Nat \ {0}
    PROVE  \E q \in Nat : i = 2 * q + 1 \/ i = 2 * q + 2
<1>1. PICK q \in Nat : q = (i - 1) \div 2
  OBVIOUS
<1>2. i - 1 = 2 * q \/ i - 1 = 2 * q + 1
  BY <1>1
<1> QED
  BY <1>2

LEMMA HalfOfFour ==
    ASSUME NEW p \in Nat, p % 2 = 0
    PROVE  \E l \in Nat : p = 4 * l \/ p = 4 * l + 2
<1>1. PICK l \in Nat : l = p \div 4
  OBVIOUS
<1>2. p = 4 * l \/ p = 4 * l + 1 \/ p = 4 * l + 2 \/ p = 4 * l + 3
  BY <1>1
<1> QED
  BY <1>2

LEMMA StreamUnique ==
    ASSUME NEW S \in Seq(Digit), NEW R \in Seq(Digit), NEW m \in Nat,
           Len(S) = 4 * LANES + 2 * m, Len(R) = 4 * LANES + 2 * m,
           \A l \in Lanes : StateAt(S, 4 * l) = StateAt(R, 4 * l),
           \A k \in 1 .. m : WordAt(S, 4 * LANES + 2 * (k - 1)) = WordAt(R, 4 * LANES + 2 * (k - 1))
    PROVE  S = R
<1>1. LANES \in Nat \ {0}
  BY Bounds
<1>2. \A p \in Nat : p + 2 <= Len(S) /\ p % 2 = 0 => WordAt(S, p) = WordAt(R, p)
  <2> SUFFICES ASSUME NEW p \in Nat, p + 2 <= Len(S), p % 2 = 0 PROVE WordAt(S, p) = WordAt(R, p)
    OBVIOUS
  <2>1. CASE p < 4 * LANES
    <3>1. PICK l \in Nat : p = 4 * l \/ p = 4 * l + 2
      BY HalfOfFour
    <3>2. l \in Lanes /\ 4 * l + 4 <= Len(S) /\ 4 * l + 4 <= Len(R) /\ 4 * l \in Nat
      BY <1>1, <2>1, <3>1 DEF Lanes
    <3>3. StateAt(S, 4 * l) = StateAt(R, 4 * l)
      BY <3>2
    <3>4. WordAt(S, 4 * l) = WordAt(R, 4 * l) /\ WordAt(S, 4 * l + 2) = WordAt(R, 4 * l + 2)
      BY <3>2, <3>3, SameState
    <3> QED
      BY <3>1, <3>4
  <2>2. CASE 4 * LANES <= p
    <3>1. PICK k \in 1 .. m : p = 4 * LANES + 2 * (k - 1)
      <4>1. PICK q \in Nat : p = 2 * q
        OBVIOUS
      <4>2. PICK k \in Nat : k = q - 2 * LANES + 1
        BY <4>1, <2>2, <1>1
      <4>3. k \in 1 .. m /\ p = 4 * LANES + 2 * (k - 1)
        BY <4>1, <4>2, <2>2, <1>1
      <4> QED
        BY <4>3
    <3> QED
      BY <3>1
  <2> QED
    BY <1>1, <2>1, <2>2
<1>3. ASSUME NEW i \in 1 .. Len(S) PROVE S[i] = R[i]
  <2>1. PICK p \in Nat : p + 2 <= Len(S) /\ p % 2 = 0 /\ (i = p + 1 \/ i = p + 2)
    <3>1. PICK q \in Nat : i = 2 * q + 1 \/ i = 2 * q + 2
      <4>1. i \in Nat \ {0}
        OBVIOUS
      <4> QED
        BY <4>1, HalfOf, Zenon
    <3>2. PICK n \in Nat : Len(S) = 2 * n
      BY <1>1
    <3>3. 2 * q + 2 <= Len(S) /\ (2 * q) % 2 = 0 /\ 2 * q \in Nat
      BY <3>1, <3>2
    <3> QED
      BY <3>1, <3>3
  <2>2. WordAt(S, p) = WordAt(R, p)
    BY <1>2, <2>1
  <2>3. S[p + 1] = R[p + 1] /\ S[p + 2] = R[p + 2]
    BY <2>1, <2>2, SameWord
  <2> QED
    BY <2>1, <2>3
<1> QED
  BY <1>3, SeqEqual

-----------------------------------------------------------------------------
(* What the encoder goes through from the end of a block on.                *)

\* One symbol s is coded by a lane: states ts and words ws become tt and wt.
EncStep(s, lane, f, ts, ws, tt, wt) ==
    /\ tt = [ts EXCEPT ![lane] = Coded(ts[lane], f[s], Start(f, s))]
    /\ wt = IF Wrote(ts[lane], f[s]) THEN Append(ws, ts[lane] % WORD) ELSE ws

\* The states and words before each symbol from the end down to a.
Trace(block, f, a, T, W) ==
    /\ T \in [a .. Len(block) -> States] /\ W \in [a .. Len(block) -> Words]
    /\ T[Len(block)] = Fresh /\ W[Len(block)] = <<>>
    /\ \A k \in a .. Len(block) - 1 :
          EncStep(block[k + 1], k % LANES, f, T[k + 1], W[k + 1], T[k], W[k])

Codes(block, f) ==
    /\ f \in Freqs /\ Total(f) = M
    /\ \A k \in 1 .. Len(block) : f[block[k]] # 0

\* Where a decoder is in the bytes of the block that has k symbols behind it.
PosOf(W, k) == 4 * LANES + 2 * (Len(W[0]) - Len(W[k]))

LEMMA LaneIs ==
    ASSUME NEW i \in Nat
    PROVE  i % LANES \in Lanes
  BY Bounds, DivMod DEF Lanes

\* The frequency of a symbol of the block and its slots.
LEMMA CodesIs ==
    ASSUME NEW block \in Seq(Symbols), NEW f, Codes(block, f), NEW k \in 0 .. Len(block) - 1
    PROVE  /\ block[k + 1] \in Symbols /\ f \in Freqs /\ Total(f) = M
           /\ f[block[k + 1]] \in Nat \ {0} /\ Start(f, block[k + 1]) \in Nat
           /\ Start(f, block[k + 1]) + f[block[k + 1]] <= M
           /\ Start(f, block[k + 1] + 1) = Start(f, block[k + 1]) + f[block[k + 1]]
<1>1. k + 1 \in 1 .. Len(block)
  OBVIOUS
<1>2. PICK s \in Symbols : s = block[k + 1]
  BY <1>1, ElementOfSeq
<1>3. f \in Freqs /\ Total(f) = M /\ f[s] # 0
  BY <1>1, <1>2 DEF Codes
<1>4. /\ Start(f, s) \in Nat /\ f[s] \in Nat /\ Start(f, s) + f[s] <= M
      /\ Start(f, s + 1) = Start(f, s) + f[s]
  BY <1>3, SlotsWithin
<1> QED
  BY <1>2, <1>3, <1>4

LEMMA TraceIs ==
    ASSUME NEW block \in Seq(Symbols), NEW f, NEW T, NEW W, Trace(block, f, 0, T, W),
           NEW k \in 0 .. Len(block) - 1
    PROVE  /\ T[k] \in States /\ T[k + 1] \in States /\ W[k] \in Words /\ W[k + 1] \in Words
           /\ k % LANES \in Lanes /\ T[k + 1][k % LANES] \in State /\ T[k][k % LANES] \in State
           /\ EncStep(block[k + 1], k % LANES, f, T[k + 1], W[k + 1], T[k], W[k])
<1>1. k \in 0 .. Len(block) /\ k + 1 \in 0 .. Len(block) /\ k \in Nat
  OBVIOUS
<1>2. T[k] \in States /\ T[k + 1] \in States /\ W[k] \in Words /\ W[k + 1] \in Words
  BY <1>1 DEF Trace
<1>3. k % LANES \in Lanes
  BY <1>1, LaneIs
<1>4. EncStep(block[k + 1], k % LANES, f, T[k + 1], W[k + 1], T[k], W[k])
  BY DEF Trace
<1> QED
  BY <1>2, <1>3, <1>4 DEF States

\* Words are only added.
LEMMA WordsGrow ==
    ASSUME NEW block \in Seq(Symbols), NEW f, NEW T, NEW W, Trace(block, f, 0, T, W)
    PROVE  \A k \in 0 .. Len(block) :
              /\ Len(W[k]) \in 0 .. Len(W[0]) /\ Len(W[0]) \in Nat
              /\ \A j \in 1 .. Len(W[k]) : W[0][j] = W[k][j]
<1> DEFINE Has(n) == /\ Len(W[n]) \in 0 .. Len(W[0]) /\ Len(W[0]) \in Nat
                     /\ \A j \in 1 .. Len(W[n]) : W[0][j] = W[n][j]
           G == {n \in Nat : n <= Len(block) => Has(n)}
<1>1. Len(block) \in Nat /\ \A n \in 0 .. Len(block) : Len(W[n]) \in Nat
  BY DEF Trace, Words
<1>2. 0 \in G
  <2>1. 0 \in 0 .. Len(block)
    BY <1>1
  <2> QED
    BY <1>1, <2>1
<1>3. ASSUME NEW n \in Nat, n \in G PROVE n + 1 \in G
  <2> SUFFICES ASSUME n + 1 <= Len(block) PROVE Has(n + 1)
    OBVIOUS
  <2>1. n \in 0 .. Len(block) - 1 /\ n + 1 \in 0 .. Len(block) /\ n <= Len(block)
    BY <1>1
  <2>2. Has(n)
    BY <1>3, <2>1
  <2>3. PICK ws \in Words, w \in 0 .. WORD - 1 :
          ws = W[n + 1] /\ (W[n] = ws \/ W[n] = Append(ws, w))
    <3>1. PICK v \in State : v = T[n + 1][n % LANES]
      BY <2>1, TraceIs
    <3>2. v % WORD \in 0 .. WORD - 1
      BY StateIs, Bounds, DivMod
    <3>3. W[n] = W[n + 1] \/ W[n] = Append(W[n + 1], v % WORD)
      <4>1. EncStep(block[n + 1], n % LANES, f, T[n + 1], W[n + 1], T[n], W[n])
        BY <2>1, TraceIs
      <4> QED
        BY <4>1, <3>1 DEF EncStep
    <3>4. W[n + 1] \in Words
      BY <2>1, TraceIs
    <3> QED
      BY <3>2, <3>3, <3>4
  <2>4. CASE W[n] = ws
    BY <2>2, <2>3, <2>4
  <2>5. CASE W[n] = Append(ws, w)
    <3>1. Len(W[n]) = Len(ws) + 1 /\ Len(ws) \in Nat
          /\ \A j \in 1 .. Len(ws) : W[n][j] = ws[j]
      BY <2>5, AppendProperties DEF Words
    <3> QED
      BY <2>2, <2>3, <3>1
  <2> QED
    BY <2>3, <2>4, <2>5
<1>4. Nat \subseteq G
  <2> HIDE DEF G
  <2> QED
    BY <1>2, <1>3, NatSetInduction
<1> QED
  BY <1>1, <1>4

LEMMA Mirror ==
    ASSUME NEW m \in Nat, NEW n \in 1 .. m
    PROVE  \E j \in 1 .. m : j = m - n + 1 /\ m - j + 1 = n
<1>1. m - n + 1 \in 1 .. m /\ m - (m - n + 1) + 1 = n
  OBVIOUS
<1> QED
  BY <1>1

Writes(W, k, w) == W[k] = Append(W[k + 1], w)

\* The word a step wrote is where the decoder is at that step.
LEMMA WordIsThere ==
    ASSUME NEW block \in Seq(Symbols), NEW f, NEW T, NEW W, Trace(block, f, 0, T, W),
           NEW k \in 0 .. Len(block) - 1, NEW S, S = StreamOf(T[0], W[0]),
           NEW w, Writes(W, k, w)
    PROVE  /\ PosOf(W, k) \in Nat /\ PosOf(W, k + 1) = PosOf(W, k) + 2
           /\ PosOf(W, k) + 2 <= Len(S) /\ WordAt(S, PosOf(W, k)) = w
<1>1. 0 \in 0 .. Len(block) /\ k \in 0 .. Len(block) /\ k + 1 \in 0 .. Len(block)
  OBVIOUS
<1>2. T[0] \in States /\ W[0] \in Words /\ W[k] \in Words /\ W[k + 1] \in Words
  BY <1>1 DEF Trace
<1>3. PICK m \in Nat, n \in Nat :
        /\ m = Len(W[0]) /\ n \in 1 .. m /\ n = Len(W[k]) /\ n = Len(W[k + 1]) + 1
        /\ W[k][n] = w /\ W[0][n] = W[k][n]
  <2>1. Len(W[k]) = Len(W[k + 1]) + 1 /\ W[k][Len(W[k + 1]) + 1] = w /\ Len(W[k + 1]) \in Nat
    <3>1. W[k + 1] \in Seq(0 .. WORD - 1)
      BY <1>2 DEF Words
    <3> QED
      BY <3>1 DEF Writes
  <2>2. /\ Len(W[k]) \in 0 .. Len(W[0]) /\ Len(W[0]) \in Nat
        /\ \A j \in 1 .. Len(W[k]) : W[0][j] = W[k][j]
    BY <1>1, WordsGrow
  <2> QED
    BY <2>1, <2>2
<1>4. PICK j \in 1 .. m : j = m - n + 1 /\ m - j + 1 = n
  <2>1. n \in 1 .. m
    BY <1>3
  <2> QED
    BY <2>1, Mirror, Zenon
<1>5. /\ Len(S) = 4 * LANES + 2 * m
      /\ WordAt(S, 4 * LANES + 2 * (j - 1)) = W[0][m - j + 1]
  <2>1. PICK ts \in States, ws \in Words : ts = T[0] /\ ws = W[0] /\ Len(ws) = m
    BY <1>2, <1>3
  <2>2. S = StreamOf(ts, ws)
    BY <2>1
  <2>3. /\ Len(S) = 4 * LANES + 2 * Len(ws)
        /\ \A i \in 1 .. Len(ws) : WordAt(S, 4 * LANES + 2 * (i - 1)) = ws[Len(ws) - i + 1]
    BY <2>2, StreamIs
  <2> QED
    BY <2>1, <2>3
<1>6. LANES \in Nat
  BY Bounds
<1>7. PosOf(W, k) = 4 * LANES + 2 * (j - 1)
  BY <1>3, <1>4 DEF PosOf
<1>8. PosOf(W, k + 1) = 4 * LANES + 2 * (m - (n - 1))
  <2>1. Len(W[k + 1]) = n - 1
    <3>1. Len(W[k + 1]) \in Nat
      BY <1>2 DEF Words
    <3> QED
      BY <3>1, <1>3
  <2> QED
    BY <2>1, <1>3 DEF PosOf
<1>9. PICK e \in Nat : e = 4 * LANES
  BY <1>6
<1>10. /\ PosOf(W, k) = e + 2 * (j - 1) /\ PosOf(W, k + 1) = e + 2 * (m - (n - 1))
       /\ Len(S) = e + 2 * m
  BY <1>5, <1>7, <1>8, <1>9
<1>11. /\ PosOf(W, k) \in Nat /\ PosOf(W, k + 1) = PosOf(W, k) + 2 /\ PosOf(W, k) + 2 <= Len(S)
  <2>1. n \in 1 .. m /\ j = m - n + 1
    BY <1>3, <1>4
  <2>2. PICK p \in Nat : p = e + 2 * (j - 1) /\ p + 2 = e + 2 * (m - (n - 1)) /\ p + 2 <= e + 2 * m
    BY <2>1
  <2> QED
    BY <1>10, <2>2
<1>12. WordAt(S, PosOf(W, k)) = w
  BY <1>3, <1>4, <1>5, <1>7
<1> QED
  BY <1>11, <1>12

\* The symbol a decoder finds in state v, and the state it leaves.
SymbolOf(f, v) == CHOOSE t \in Symbols : v % M \in Start(f, t) .. Start(f, t + 1) - 1
LeftOf(f, v, s) == f[s] * (v \div M) + (v % M) - Start(f, s)

\* From the state v of a lane with k symbols behind it, to the state z it has
\* with k + 1: s is the symbol and u what is left of the state.
Follows(block, f, T, W, k, lane, v, z, s, u) ==
    /\ lane = k % LANES /\ v = T[k][lane] /\ z = T[k + 1][lane]
    /\ s = SymbolOf(f, v) /\ u = LeftOf(f, v, s) /\ s = block[k + 1]
    /\ u < L => u * WORD + (z % WORD) = z /\ Writes(W, k, z % WORD)
    /\ ~(u < L) => u = z /\ W[k] = W[k + 1]
    /\ T[k + 1] = [T[k] EXCEPT ![lane] = z]

\* Following the encoder back, a decoder finds the symbol, and the state and
\* the words there were before it.
LEMMA FollowsStep ==
    ASSUME NEW block \in Seq(Symbols), NEW f, Codes(block, f),
           NEW T, NEW W, Trace(block, f, 0, T, W), NEW k \in 0 .. Len(block) - 1
    PROVE  \E lane \in Lanes, v \in State, z \in State, s \in Symbols, u \in Nat :
              Follows(block, f, T, W, k, lane, v, z, s, u)
<1>1. PICK lane \in Lanes, v \in State, z \in State :
        /\ lane = k % LANES /\ v = T[k][lane] /\ z = T[k + 1][lane]
        /\ T[k] \in States /\ T[k + 1] \in States /\ W[k] \in Words /\ W[k + 1] \in Words
        /\ EncStep(block[k + 1], lane, f, T[k + 1], W[k + 1], T[k], W[k])
  BY TraceIs
<1>2. PICK c \in Symbols, g \in Nat \ {0}, start \in Nat :
        /\ c = block[k + 1] /\ f \in Freqs /\ g = f[c] /\ start = Start(f, c)
        /\ start + g <= M /\ Start(f, c + 1) = start + g
  BY CodesIs
<1>3. /\ T[k] = [T[k + 1] EXCEPT ![lane] = Coded(z, g, start)]
      /\ W[k] = IF Wrote(z, g) THEN Append(W[k + 1], z % WORD) ELSE W[k + 1]
  BY <1>1, <1>2 DEF EncStep
<1>4. v = Coded(z, g, start)
  BY <1>1, <1>3 DEF States
<1>5. /\ v % M \in start .. start + g - 1
      /\ g * (v \div M) + (v % M) - start = Shrunk(z, g)
      /\ Shrunk(z, g) < L <=> Wrote(z, g)
  BY <1>1, <1>2, <1>4, DecodeUndoes
<1>6. c = SymbolOf(f, v)
  <2>1. PICK r \in Nat : r = v % M
    BY Bounds, StateIs, DivMod
  <2>2. r \in Start(f, c) .. Start(f, c + 1) - 1
    BY <2>1, <1>2, <1>5
  <2>3. (CHOOSE t \in Symbols : r \in Start(f, t) .. Start(f, t + 1) - 1) = c
    BY <2>2, <1>2, SlotUnique
  <2> QED
    BY <2>1, <2>3 DEF SymbolOf
<1>7. PICK u \in Nat : u = Shrunk(z, g)
  BY <1>1, <1>2, ShrunkType
<1>8. /\ Wrote(z, g) => u * WORD + (z % WORD) = z
      /\ ~Wrote(z, g) => u = z
  <2>1. /\ Wrote(z, g) => Shrunk(z, g) < L /\ Shrunk(z, g) * WORD + (z % WORD) = z
        /\ ~Wrote(z, g) => Shrunk(z, g) = z /\ L <= z
    BY <1>1, <1>2, ShrunkType, Zenon
  <2> QED
    BY <2>1, <1>7, Zenon
<1>9. T[k + 1] = [T[k] EXCEPT ![lane] = z]
  BY <1>1, <1>3 DEF States
<1>10. u < L <=> Wrote(z, g)
  BY <1>5, <1>7
<1>11. u < L => u * WORD + (z % WORD) = z /\ W[k] = Append(W[k + 1], z % WORD)
  BY <1>3, <1>8, <1>10, Zenon
<1>12. ~(u < L) => u = z /\ W[k] = W[k + 1]
  BY <1>3, <1>8, <1>10, Zenon
<1>13. u = LeftOf(f, v, c)
  BY <1>2, <1>5, <1>7 DEF LeftOf
<1>14. Follows(block, f, T, W, k, lane, v, z, c, u)
  BY <1>1, <1>2, <1>6, <1>9, <1>11, <1>12, <1>13, Zenon DEF Follows, Writes
<1> QED
  BY <1>14

\* The steps of a decoder, seen backwards: from states Y and position r to X and
\* q a symbol s was coded, and a word written where the decoder read one.
BackStep(S, f, s, lane, X, q, Y, r) ==
    /\ s \in Symbols
    /\ X = [Y EXCEPT ![lane] = Coded(Y[lane], f[s], Start(f, s))]
    /\ IF Wrote(Y[lane], f[s])
       THEN r = q + 2 /\ (q + 2 <= Len(S) => WordAt(S, q) = Y[lane] % WORD)
       ELSE r = q

\* What a decoder went through with bytes S when it decoded o to b + i symbols.
Back(S, f, o, b, i, X, Q) ==
    /\ X \in [0 .. i -> States] /\ Q \in [0 .. i -> Nat]
    /\ X[0] = [l \in Lanes |-> StateAt(S, 4 * l)] /\ Q[0] = 4 * LANES
    /\ \A k \in 0 .. i - 1 :
          BackStep(S, f, o[b + k + 1], k % LANES, X[k], Q[k], X[k + 1], Q[k + 1])

LEMMA StateBack ==
    ASSUME NEW v \in State, NEW f \in Nat \ {0}, NEW start \in Nat, start + f <= M,
           v % M \in start .. start + f - 1, NEW w \in 0 .. WORD - 1,
           NEW u \in Nat, u = f * (v \div M) + (v % M) - start
    PROVE  \E y \in State :
              /\ y = IF u < L THEN u * WORD + w ELSE u
              /\ Wrote(y, f) <=> u < L
              /\ u < L => y % WORD = w
              /\ Coded(y, f, start) = v
<1>1. PICK y \in State : y = IF u < L THEN u * WORD + w ELSE u
  <2>1. L \in Nat
    BY Bounds
  <2>2. u \in Int
    OBVIOUS
  <2>3. /\ u < L => u * WORD + w \in State
        /\ u >= L => u \in State
    BY <2>2, DecodeKeepsState
  <2> QED
    BY <2>1, <2>3
<1> QED
  BY <1>1, EncodeUndoes

LEMMA BackIs ==
    ASSUME NEW X \in States, NEW f \in Freqs, Total(f) = M, NEW lane \in Lanes, NEW s \in Symbols,
           NEW v, v = X[lane], v % M \in Start(f, s) .. Start(f, s + 1) - 1,
           NEW w \in 0 .. WORD - 1,
           NEW u \in Nat, u = f[s] * (v \div M) + (v % M) - Start(f, s),
           NEW Y, Y = [X EXCEPT ![lane] = IF u < L THEN u * WORD + w ELSE u],
           NEW q \in Nat, NEW S, q + 2 <= Len(S) => w = WordAt(S, q)
    PROVE  Y \in States /\ BackStep(S, f, s, lane, X, q, Y, IF u < L THEN q + 2 ELSE q)
<1>1. v \in State
  BY DEF States
<1>2. PICK g \in Nat, start \in Nat :
        /\ g = f[s] /\ start = Start(f, s) /\ start + g <= M /\ Start(f, s + 1) = start + g
  BY SlotsWithin
<1>3. v % M \in start .. start + g - 1
  BY <1>2
<1>4. g \in Nat \ {0}
  BY <1>2, <1>3
<1>5. u = g * (v \div M) + (v % M) - start
  BY <1>2
<1>6. PICK y \in State :
        /\ y = IF u < L THEN u * WORD + w ELSE u
        /\ Wrote(y, g) <=> u < L
        /\ u < L => y % WORD = w
        /\ Coded(y, g, start) = v
  <2>1. v \in State /\ g \in Nat \ {0} /\ start \in Nat /\ start + g <= M
    BY <1>1, <1>2, <1>4
  <2>2. v % M \in start .. start + g - 1 /\ u = g * (v \div M) + (v % M) - start
    BY <1>3, <1>5
  <2> QED
    BY <2>1, <2>2, StateBack, SMTT(30)
<1>7. Y \in States /\ Y[lane] = y /\ X = [Y EXCEPT ![lane] = v]
  BY <1>6 DEF States
<1>8. X = [Y EXCEPT ![lane] = Coded(Y[lane], f[s], Start(f, s))] /\ (Wrote(Y[lane], f[s]) <=> u < L)
  BY <1>2, <1>6, <1>7, Zenon
<1>9. u < L => (q + 2 <= Len(S) => WordAt(S, q) = Y[lane] % WORD)
  BY <1>6, <1>7, Zenon
<1>10. Y \in States
  BY <1>7
<1> QED
  BY <1>8, <1>9, <1>10 DEF BackStep

\* A decoder that decoded the block from S, and ends cleanly.
Ends(block, S, f, o, b, X, Q) ==
    /\ \A k \in 1 .. Len(block) : o[b + k] = block[k]
    /\ Back(S, f, o, b, Len(block), X, Q)
    /\ X[Len(block)] = Fresh /\ Q[Len(block)] = Len(S)

\* What a decoder that ends cleanly went through is what the encoder did: the
\* bytes it read are those the encoder writes.
LEMMA BackMeets ==
    ASSUME NEW block \in Seq(Symbols), NEW f, NEW T, NEW W, Trace(block, f, 0, T, W),
           NEW S \in Seq(Digit), NEW o, NEW b \in Nat, NEW X, NEW Q, Ends(block, S, f, o, b, X, Q)
    PROVE  S = StreamOf(T[0], W[0])
<1>1. /\ \A k \in 1 .. Len(block) : o[b + k] = block[k]
      /\ Back(S, f, o, b, Len(block), X, Q)
      /\ X[Len(block)] = Fresh /\ Q[Len(block)] = Len(S)
  BY DEF Ends
<1>2. PICK len \in Nat, c \in Nat : len = Len(block) /\ c = Len(S)
  OBVIOUS
<1>3. /\ T \in [0 .. len -> States] /\ W \in [0 .. len -> Words] /\ T[len] = Fresh /\ W[len] = <<>>
      /\ \A k \in 0 .. len - 1 : EncStep(block[k + 1], k % LANES, f, T[k + 1], W[k + 1], T[k], W[k])
  BY <1>2 DEF Trace
<1>4. /\ X \in [0 .. len -> States] /\ Q \in [0 .. len -> Nat]
      /\ X[0] = [l \in Lanes |-> StateAt(S, 4 * l)] /\ Q[0] = 4 * LANES
      /\ \A k \in 0 .. len - 1 :
            BackStep(S, f, o[b + k + 1], k % LANES, X[k], Q[k], X[k + 1], Q[k + 1])
  BY <1>1, <1>2 DEF Back
<1> DEFINE Meets(k) == /\ X[k] = T[k] /\ Q[k] = c - 2 * Len(W[k])
                       /\ \A m \in 1 .. Len(W[k]) : W[k][m] = WordAt(S, c - 2 * m)
           G == {n \in Nat : n <= len => Meets(len - n)}
<1>5. Meets(len)
  BY <1>1, <1>2, <1>3
<1>6. 0 \in G
  <2>1. len - 0 = len
    OBVIOUS
  <2> HIDE DEF Meets
  <2> QED
    BY <1>5, <2>1
<1>7. ASSUME NEW k \in 0 .. len - 1, Meets(k + 1) PROVE Meets(k)
  <2>1. k \in 0 .. len /\ k + 1 \in 0 .. len
    OBVIOUS
  <2>2. PICK lane : lane = k % LANES
    OBVIOUS
  <2>3. PICK s : s = block[k + 1] /\ s = o[b + k + 1]
    <3>1. k + 1 \in 1 .. Len(block) /\ b + (k + 1) = b + k + 1
      BY <1>2
    <3>2. o[b + (k + 1)] = block[k + 1]
      BY <3>1, <1>1
    <3> QED
      BY <3>1, <3>2
  <2>4. PICK z : z = T[k + 1][lane] /\ z = X[k + 1][lane]
    BY <1>7
  <2>5. /\ T[k] = [T[k + 1] EXCEPT ![lane] = Coded(z, f[s], Start(f, s))]
        /\ W[k] = IF Wrote(z, f[s]) THEN Append(W[k + 1], z % WORD) ELSE W[k + 1]
    <3>1. EncStep(s, lane, f, T[k + 1], W[k + 1], T[k], W[k])
      BY <1>3, <2>2, <2>3
    <3> QED
      BY <3>1, <2>4 DEF EncStep
  <2>6. /\ X[k] = [X[k + 1] EXCEPT ![lane] = Coded(z, f[s], Start(f, s))]
        /\ IF Wrote(z, f[s])
           THEN Q[k + 1] = Q[k] + 2 /\ (Q[k] + 2 <= Len(S) => WordAt(S, Q[k]) = z % WORD)
           ELSE Q[k + 1] = Q[k]
    <3>1. BackStep(S, f, s, lane, X[k], Q[k], X[k + 1], Q[k + 1])
      BY <1>4, <2>2, <2>3
    <3> QED
      BY <3>1, <2>4 DEF BackStep
  <2>7. X[k] = T[k]
    BY <1>7, <2>5, <2>6
  <2>8. PICK m \in Nat, q \in Nat, ws \in Seq(0 .. WORD - 1) :
          ws = W[k + 1] /\ m = Len(ws) /\ q = Q[k] /\ Q[k + 1] = c - 2 * m
    <3>1. W[k + 1] \in Words /\ Q[k] \in Nat
      BY <1>3, <1>4, <2>1
    <3>2. Len(W[k + 1]) \in Nat
      BY <3>1 DEF Words
    <3> QED
      BY <3>1, <3>2, <1>7 DEF Words
  <2>9. CASE Wrote(z, f[s])
    <3>1. /\ W[k] = Append(ws, z % WORD) /\ q + 2 = c - 2 * m
          /\ q + 2 <= c => WordAt(S, q) = z % WORD
      BY <1>2, <2>5, <2>6, <2>8, <2>9
    <3>2. Len(W[k]) = m + 1 /\ W[k][m + 1] = z % WORD /\ \A i \in 1 .. m : W[k][i] = ws[i]
      BY <3>1, <2>8
    <3>3. q = c - 2 * (m + 1) /\ q + 2 <= c
      BY <3>1
    <3>4. Q[k] = c - 2 * Len(W[k])
      BY <3>2, <3>3, <2>8
    <3>5. ASSUME NEW i \in 1 .. m + 1 PROVE W[k][i] = WordAt(S, c - 2 * i)
      <4>1. CASE i = m + 1
        BY <4>1, <3>1, <3>2, <3>3
      <4>2. CASE i \in 1 .. m
        BY <4>2, <3>2, <2>8, <1>7
      <4> QED
        BY <4>1, <4>2
    <3> QED
      BY <2>7, <3>2, <3>4, <3>5
  <2>10. CASE ~Wrote(z, f[s])
    <3>1. W[k] = W[k + 1] /\ Q[k] = Q[k + 1]
      BY <2>5, <2>6, <2>10
    <3> QED
      BY <2>7, <3>1, <1>7
  <2> QED
    BY <2>9, <2>10
<1>8. ASSUME NEW n \in Nat, n \in G PROVE n + 1 \in G
  <2> SUFFICES ASSUME n + 1 <= len PROVE Meets(len - (n + 1))
    <3> HIDE DEF Meets
    <3> QED
      OBVIOUS
  <2>1. PICK k \in 0 .. len - 1 : k = len - (n + 1) /\ k + 1 = len - n
    OBVIOUS
  <2>2. Meets(len - n)
    <3> HIDE DEF Meets
    <3> QED
      BY <1>8
  <2> HIDE DEF Meets
  <2> QED
    BY <2>1, <2>2, <1>7
<1>9. Nat \subseteq G
  <2> HIDE DEF G
  <2> QED
    BY <1>6, <1>8, NatSetInduction
<1>10. Meets(0)
  <2> HIDE DEF Meets
  <2>1. len \in G
    <3> HIDE DEF G
    <3> QED
      BY <1>9
  <2>2. Meets(len - len)
    <3>1. len <= len
      OBVIOUS
    <3> QED
      BY <2>1, <3>1
  <2>3. len - len = 0
    OBVIOUS
  <2> QED
    BY <2>2, <2>3, Zenon
<1>11. PICK ts \in States, ws \in Words : ts = T[0] /\ ws = W[0]
  <2>1. 0 \in 0 .. len
    OBVIOUS
  <2> QED
    BY <2>1, <1>3
<1>12. PICK m \in Nat : m = Len(ws)
  BY DEF Words
<1>13. /\ \A l \in Lanes : StateAt(S, 4 * l) = ts[l]
       /\ 4 * LANES = c - 2 * m
       /\ \A i \in 1 .. m : ws[i] = WordAt(S, c - 2 * i)
  <2>1. X[0] = ts
    BY <1>10, <1>11
  <2> QED
    BY <2>1, <1>4, <1>10, <1>11, <1>12
<1>14. PICK R \in Seq(Digit) :
         /\ R = StreamOf(ts, ws) /\ Len(R) = 4 * LANES + 2 * m
         /\ \A l \in Lanes : StateAt(R, 4 * l) = ts[l]
         /\ \A k \in 1 .. m : WordAt(R, 4 * LANES + 2 * (k - 1)) = ws[m - k + 1]
  BY <1>12, StreamIs
<1>15. PICK e \in Nat : e = 4 * LANES
  BY Bounds
<1>16. ASSUME NEW k \in 1 .. m
       PROVE  WordAt(S, 4 * LANES + 2 * (k - 1)) = WordAt(R, 4 * LANES + 2 * (k - 1))
  <2>1. PICK i \in 1 .. m : i = m - k + 1 /\ m - i + 1 = k
    BY Mirror
  <2>2. c - 2 * i = e + 2 * (k - 1)
    BY <2>1, <1>13, <1>15
  <2>3. WordAt(R, e + 2 * (k - 1)) = ws[i]
    BY <2>1, <1>14, <1>15
  <2>4. ws[i] = WordAt(S, e + 2 * (k - 1))
    BY <2>2, <1>13
  <2> QED
    BY <2>3, <2>4, <1>15
<1>17. S = R
  <2>1. Len(S) = 4 * LANES + 2 * m
    <3>1. e = c - 2 * m
      BY <1>13, <1>15, Zenon
    <3>2. c = e + 2 * m
      BY <3>1
    <3> QED
      BY <3>2, <1>2, <1>15, Zenon
  <2>2. \A l \in Lanes : StateAt(S, 4 * l) = StateAt(R, 4 * l)
    BY <1>13, <1>14
  <2>3. S \in Seq(Digit) /\ R \in Seq(Digit) /\ Len(R) = 4 * LANES + 2 * m
    BY <1>14
  <2> QED
    BY <2>1, <2>2, <2>3, <1>16, StreamUnique, Zenon
<1> QED
  BY <1>11, <1>14, <1>17

\* Changing one frequency changes what they add up to.
LEMMA TotalDiffers ==
    ASSUME NEW f \in Freqs, NEW g \in Freqs, NEW a \in Symbols, f[a] # g[a],
           \A s \in Symbols \ {a} : f[s] = g[s]
    PROVE  Total(f) # Total(g)
<1>1. f[a] \in Nat /\ g[a] \in Nat /\ SYMBOLS \in Nat \ {0}
  BY Bounds DEF Freqs
<1> DEFINE Apart(n) == Start(f, n) = Start(g, n) + (IF n > a THEN f[a] - g[a] ELSE 0)
           G == {n \in Nat : n <= SYMBOLS => Apart(n)}
<1>2. 0 \in G
  <2>1. Start(f, 0) = 0 /\ Start(g, 0) = 0 /\ ~(0 > a)
    BY StartNext DEF Symbols
  <2> QED
    BY <2>1
<1>3. ASSUME NEW n \in Nat, n \in G PROVE n + 1 \in G
  <2> SUFFICES ASSUME n + 1 <= SYMBOLS PROVE Apart(n + 1)
    OBVIOUS
  <2>1. n \in Symbols /\ n <= SYMBOLS /\ a \in Nat /\ n \in 0 .. SYMBOLS
    BY <1>1 DEF Symbols
  <2>2. Apart(n)
    BY <1>3, <2>1
  <2>3. /\ Start(f, n + 1) = Start(f, n) + f[n] /\ Start(g, n + 1) = Start(g, n) + g[n]
        /\ f[n] \in Nat /\ g[n] \in Nat /\ Start(f, n) \in Nat /\ Start(g, n) \in Nat
    BY <2>1, StartNext, StartType DEF Freqs
  <2>4. CASE n = a
    BY <2>1, <2>2, <2>3, <2>4, <1>1
  <2>5. CASE n # a
    <3>1. f[n] = g[n] /\ (n + 1 > a <=> n > a)
      BY <2>1, <2>5
    <3> QED
      BY <3>1, <2>1, <2>2, <2>3, <1>1
  <2> QED
    BY <2>4, <2>5
<1>4. Nat \subseteq G
  <2> HIDE DEF G
  <2> QED
    BY <1>2, <1>3, NatSetInduction
<1>5. Apart(SYMBOLS)
  <2>1. SYMBOLS \in G
    <3> HIDE DEF G
    <3> QED
      BY <1>1, <1>4
  <2> QED
    BY <2>1, <1>1
<1>6. SYMBOLS > a /\ Start(g, SYMBOLS) \in Nat
  <2>1. SYMBOLS \in 0 .. SYMBOLS
    BY <1>1
  <2> QED
    BY <2>1, <1>1, StartType DEF Symbols
<1> QED
  BY <1>1, <1>5, <1>6 DEF Total

-----------------------------------------------------------------------------
(* The invariant of the round trip.                                         *)

BlockAt(b) == SubSeq(data, b + 1, BlockEnd(b))

\* The block with frequencies f and bytes S is at p of the file fl.
InFile(fl, p, f, S) ==
    /\ p + HEADER + Len(S) <= Len(fl)
    /\ \A s \in Symbols : fl[p + 1 + s] = f[s]
    /\ fl[p + LEN] = Len(S)
    /\ \A k \in 1 .. Len(S) : fl[p + HEADER + k] = S[k]

\* The block is from p to e of the file, as the encoder writes it.
Stored(fl, block, p, e) ==
    \E f, T, W :
        /\ Codes(block, f) /\ Trace(block, f, 0, T, W)
        /\ InFile(fl, p, f, StreamOf(T[0], W[0]))
        /\ e = p + HEADER + Len(StreamOf(T[0], W[0]))

\* B are the starts of the blocks that are written, E tells where in the file.
FileInv(B, E) ==
    /\ B \in SUBSET Nat /\ E \in [0 .. N -> Nat]
    /\ 0 \in B \cup {begin} /\ E[0] = 0 /\ E[begin] = Len(file)
    /\ begin % BLOCK = 0 \/ begin = N
    /\ \A b \in B :
          /\ b < begin /\ b % BLOCK = 0 /\ BlockEnd(b) \in B \cup {begin}
          /\ Stored(file, BlockAt(b), E[b], E[BlockEnd(b)])

Compressing == pc \in {"normalize", "encode", "stored"}

EncodingInv ==
    /\ pc \in {"normalize", "encode", "stored", "header", "decode", "ok", "corrupt"}
    /\ pc = "normalize" => states = Fresh /\ words = <<>> /\ todo = Len(Block)
    /\ pc = "encode" =>
          \E T, W : Trace(Block, freq, todo, T, W) /\ T[todo] = states /\ W[todo] = words
    /\ Compressing => fate = "whole" /\ out = <<>> /\ next = 0
    /\ ~Compressing => begin = N

Good == Len(out) <= N /\ \A k \in 1 .. Len(out) : out[k] = data[k]

\* The file arrived as it was up to n.
Same(n) ==
    /\ n <= Len(input) /\ n <= Len(file)
    /\ \A i \in 1 .. n : input[i] = file[i]

\* Unless damage changed it, what is there of the file is as it was, save the
\* length of a block that says it is shorter.
Arrived ==
    /\ fate = "whole" <=> input = file
    /\ \A i \in 1 .. Len(file) :
          i <= Len(input) /\ input[i] # file[i] =>
              fate = "changed" \/ (fate = "short" /\ i = LEN)

\* Where both have a byte it is the same.
Agrees(R, S) == \A k \in 1 .. Len(R) : k <= Len(S) => R[k] = S[k]

\* The block at p of what arrived is taken apart.
Read(p) ==
    /\ next = p + HEADER + Len(stream) /\ next <= Len(input)
    /\ \A s \in Symbols : input[p + 1 + s] = fs[s]
    /\ input[p + LEN] = Len(stream)
    /\ \A k \in 1 .. Len(stream) : input[p + HEADER + k] % BYTE = stream[k]

\* The decoder is in step with the encoder, or is past the end of a block that
\* is too short.
InStep(b, T, W) ==
    Agrees(stream, StreamOf(T[0], W[0])) =>
        \/ Len(stream) < Len(StreamOf(T[0], W[0])) /\ pos > Len(stream)
        \/ Good /\ x = T[Len(out) - b] /\ pos = PosOf(W, Len(out) - b)

\* The block of the input that starts at b, at p of the file, is decoded.
Decoding(b, p, e, T, W) ==
    /\ first = b /\ till = BlockEnd(b) /\ b <= Len(out) /\ \A k \in 1 .. b : out[k] = data[k]
    /\ Codes(BlockAt(b), fs) /\ Trace(BlockAt(b), fs, 0, T, W)
    /\ InFile(file, p, fs, StreamOf(T[0], W[0]))
    /\ e = p + HEADER + Len(StreamOf(T[0], W[0]))
    /\ Same(p) /\ Read(p)
    /\ InStep(b, T, W)

\* Of a file that damage changed, whatever is left of it, nothing is said here.
Lost == fate = "changed"

DecodingInv(B, E) ==
    /\ Arrived /\ Len(out) <= N
    /\ pc = "header" =>
          \/ Lost
          \/ Good /\ Len(out) \in B \cup {N} /\ next = E[Len(out)] /\ Same(next)
    /\ pc = "decode" =>
          /\ till \in Nat /\ Len(out) <= till /\ till <= N
          /\ \/ Lost
             \/ \E b \in B : \E T, W : Decoding(b, E[b], E[BlockEnd(b)], T, W)
    /\ pc = "ok" => Len(out) = N /\ (Lost \/ (fate = "whole" /\ Good))
    /\ pc = "corrupt" => fate # "whole"

TripInv ==
    /\ IInv /\ EncodingInv
    /\ \E B, E : FileInv(B, E) /\ (~Compressing => DecodingInv(B, E))

-----------------------------------------------------------------------------
(* compress.                                                                *)

LEMMA StoredKept ==
    ASSUME NEW fl, NEW block, NEW p, NEW e
    PROVE  Stored(fl, block, p, e)' <=> Stored(fl, block, p, e)
  OBVIOUS

LEMMA FileKept ==
    ASSUME NEW B, NEW E, FileInv(B, E), UNCHANGED <<data, BLOCK, begin, file>>
    PROVE  FileInv(B, E)'
<1>1. N' = N
  BY DEF N
<1>2. \A b : BlockEnd(b)' = BlockEnd(b)
  BY <1>1 DEF BlockEnd
<1>3. \A b : BlockAt(b)' = BlockAt(b)
  BY <1>2 DEF BlockAt
<1> QED
  BY <1>1, <1>2, <1>3 DEF FileInv

LEMMA InitTrip == Init => TripInv
<1> SUFFICES ASSUME Init PROVE TripInv
  OBVIOUS
<1>1. /\ data \in Inputs /\ BLOCK \in BlockSizes /\ begin = 0
      /\ pc = IF N = 0 THEN "stored" ELSE "normalize"
      /\ todo = Len(Block) /\ states = Fresh /\ words = <<>> /\ file = <<>>
      /\ fate = "whole" /\ next = 0 /\ out = <<>>
  BY DEF Init
<1>2. N \in Nat /\ BLOCK \in Nat \ {0}
  BY <1>1, RansAssumption DEF N
<1>3. EncodingInv
  BY <1>1 DEF EncodingInv, Compressing
<1> DEFINE E == [n \in 0 .. N |-> 0]
<1>4. FileInv({}, E)
  <2>1. E \in [0 .. N -> Nat] /\ E[0] = 0
    BY <1>2
  <2>2. 0 % BLOCK = 0
    BY <1>2
  <2> HIDE DEF E
  <2> QED
    BY <1>1, <2>1, <2>2 DEF FileInv
<1>5. Compressing
  BY <1>1 DEF Compressing
<1> QED
  BY <1>3, <1>4, <1>5, InitInv DEF TripInv

LEMMA NormalizeTrip == ASSUME TripInv, NormalizeStep \/ NormalizeDone \/ OtherTable PROVE TripInv'
<1>1. PICK B, E : FileInv(B, E)
  BY DEF TripInv
<1>2. /\ IInv /\ EncodingInv /\ pc = "normalize" /\ pc' \in {"normalize", "encode"}
      /\ UNCHANGED <<data, BLOCK, begin, file, fate, out, next, todo, states, words>>
  BY DEF TripInv, NormalizeStep, NormalizeDone, OtherTable, encoder, decoder
<1>3. IInv'
  BY <1>2, NormalizeInv
<1>4. FileInv(B, E)'
  BY <1>1, <1>2, FileKept
<1>5. /\ states = Fresh /\ words = <<>> /\ todo = Len(Block)
      /\ fate = "whole" /\ out = <<>> /\ next = 0
  BY <1>2 DEF EncodingInv, Compressing
<1>6. Block' = Block
  BY <1>2 DEF Block, BlockEnd, N
<1>7. ASSUME pc' = "encode"
      PROVE  \E T, W : /\ Trace(Block', freq', todo', T, W)
                       /\ T[todo'] = states' /\ W[todo'] = words'
  <2>1. Block \in Seq(Symbols) /\ Len(Block) \in Nat
    BY <1>2, BlockIs DEF IInv, EncoderInv
  <2>2. PICK n \in Nat : n = Len(Block)
    BY <2>1
  <2> DEFINE T == [k \in n .. n |-> Fresh]
             W == [k \in n .. n |-> <<>>]
  <2>3. T \in [n .. n -> States] /\ W \in [n .. n -> Words] /\ T[n] = Fresh /\ W[n] = <<>>
    <3>1. Fresh \in States /\ <<>> \in Words
      BY FreshType DEF States, Words
    <3>2. n \in n .. n
      OBVIOUS
    <3> QED
      BY <3>1, <3>2
  <2> HIDE DEF T, W
  <2>4. n .. n - 1 = {}
    OBVIOUS
  <2>5. Trace(Block, freq', n, T, W)
    BY <2>2, <2>3, <2>4 DEF Trace
  <2>6. Block' = Block /\ todo' = n /\ states' = Fresh /\ words' = <<>>
    BY <1>2, <1>5, <1>6, <2>2
  <2> QED
    BY <2>3, <2>5, <2>6
<1>8. EncodingInv'
  <2>1. Fresh' = Fresh
    BY DEF Fresh, L, WORD, Lanes
  <2>2. pc' # "stored" /\ Compressing'
    BY <1>2 DEF Compressing
  <2> QED
    BY <1>2, <1>5, <1>6, <1>7, <2>1, <2>2 DEF EncodingInv
<1>9. Compressing'
  BY <1>2 DEF Compressing
<1> QED
  BY <1>3, <1>4, <1>8, <1>9 DEF TripInv

LEMMA EncodeTrip == ASSUME TripInv, EncodeSymbol PROVE TripInv'
<1>1. PICK B, E : FileInv(B, E)
  BY DEF TripInv
<1>2. /\ IInv /\ EncodingInv /\ pc = "encode" /\ pc' = "encode" /\ todo > 0 /\ todo' = todo - 1
      /\ UNCHANGED <<data, BLOCK, begin, file, fate, out, next, freq>>
  BY DEF TripInv, EncodeSymbol, decoder, freqVars
<1>3. IInv'
  BY <1>2, EncodeInv
<1>4. FileInv(B, E)'
  BY <1>1, <1>2, FileKept
<1>5. fate = "whole" /\ out = <<>> /\ next = 0 /\ Compressing'
  BY <1>2 DEF EncodingInv, Compressing
<1>6. Block' = Block /\ Block \in Seq(Symbols) /\ todo \in 0 .. Len(Block)
  BY <1>2, BlockIs DEF Block, BlockEnd, N, IInv, EncoderInv
<1>7. PICK T, W : Trace(Block, freq, todo, T, W) /\ T[todo] = states /\ W[todo] = words
  BY <1>2 DEF EncodingInv
<1>8. PICK n \in Nat, a \in Nat : n = Len(Block) /\ a = todo - 1 /\ todo = a + 1 /\ a + 1 <= n
  BY <1>2, <1>6
<1>9. /\ T \in [a + 1 .. n -> States] /\ W \in [a + 1 .. n -> Words] /\ T[n] = Fresh /\ W[n] = <<>>
      /\ \A k \in a + 1 .. n - 1 :
            EncStep(Block[k + 1], k % LANES, freq, T[k + 1], W[k + 1], T[k], W[k])
      /\ T[a + 1] = states /\ W[a + 1] = words
  BY <1>7, <1>8 DEF Trace
<1>10. states' \in States /\ words' \in Words
  BY <1>3 DEF IInv, EncoderInv, States, Words
<1> DEFINE U == [k \in a .. n |-> IF k = a THEN states' ELSE T[k]]
           V == [k \in a .. n |-> IF k = a THEN words' ELSE W[k]]
<1>11. /\ U \in [a .. n -> States] /\ V \in [a .. n -> Words] /\ U[n] = Fresh /\ V[n] = <<>>
       /\ U[a] = states' /\ V[a] = words'
       /\ \A k \in a + 1 .. n : U[k] = T[k] /\ V[k] = W[k]
  BY <1>8, <1>9, <1>10
<1>12. EncStep(Block[a + 1], a % LANES, freq, states, words, states', words')
  BY <1>8 DEF EncodeSymbol, EncodeLane, StateMax, EncStep, Coded, Encoded, Shrunk, Wrote
<1> HIDE DEF U, V
<1>13. \A k \in a .. n - 1 : EncStep(Block[k + 1], k % LANES, freq, U[k + 1], V[k + 1], U[k], V[k])
  <2> SUFFICES ASSUME NEW k \in a .. n - 1
               PROVE  EncStep(Block[k + 1], k % LANES, freq, U[k + 1], V[k + 1], U[k], V[k])
    OBVIOUS
  <2>1. CASE k = a
    <3>1. a + 1 \in a + 1 .. n
      BY <1>8
    <3>2. U[a + 1] = states /\ V[a + 1] = words
      BY <3>1, <1>9, <1>11
    <3> QED
      BY <2>1, <3>2, <1>11, <1>12
  <2>2. CASE k \in a + 1 .. n - 1
    <3>1. k + 1 \in a + 1 .. n /\ k \in a + 1 .. n
      BY <2>2
    <3> QED
      BY <2>2, <3>1, <1>9, <1>11
  <2> QED
    BY <2>1, <2>2
<1>14. Trace(Block, freq, a, U, V)
  BY <1>8, <1>11, <1>13 DEF Trace
<1>15. \E T2, W2 : /\ Trace(Block', freq', todo', T2, W2)
                   /\ T2[todo'] = states' /\ W2[todo'] = words'
  <2>1. Block' = Block /\ freq' = freq /\ todo' = a
    BY <1>2, <1>6, <1>8
  <2> QED
    BY <2>1, <1>11, <1>14
<1>16. EncodingInv'
  BY <1>2, <1>5, <1>15 DEF EncodingInv
<1> QED
  BY <1>3, <1>4, <1>5, <1>16 DEF TripInv

\* What is written behind a block leaves it where it is.
LEMMA InFileAppend ==
    ASSUME NEW fl \in Seq(Nat), NEW t \in Seq(Nat), NEW p \in Nat, NEW f, NEW S \in Seq(Digit),
           InFile(fl, p, f, S)
    PROVE  InFile(fl \o t, p, f, S)
<1>1. HEADER \in Nat /\ HEADER = SYMBOLS + 2 /\ LEN = SYMBOLS + 1 /\ SYMBOLS \in Nat
  BY Bounds DEF HEADER, LEN
<1>2. PICK n \in Nat, m \in Nat, c \in Nat : n = Len(fl) /\ m = Len(t) /\ c = Len(S)
  OBVIOUS
<1>3. /\ Len(fl \o t) = n + m
      /\ \A i \in 1 .. n + m : (fl \o t)[i] = IF i <= n THEN fl[i] ELSE t[i - n]
  BY <1>2, ConcatProperties
<1>4. \A i \in 1 .. n : (fl \o t)[i] = fl[i]
  BY <1>3
<1>5. p + HEADER + c <= n
  BY <1>2 DEF InFile
<1>6. p + HEADER + c <= n + m
  BY <1>1, <1>5
<1>7. ASSUME NEW s \in Symbols PROVE (fl \o t)[p + 1 + s] = fl[p + 1 + s]
  <2>1. p + 1 + s \in 1 .. n
    BY <1>1, <1>5 DEF Symbols
  <2> QED
    BY <2>1, <1>4
<1>8. ASSUME NEW k \in 0 .. c PROVE (fl \o t)[p + HEADER + k] = fl[p + HEADER + k]
  <2>1. p + HEADER + k \in 1 .. n
    BY <1>1, <1>5
  <2> QED
    BY <2>1, <1>4
<1>9. (fl \o t)[p + LEN] = fl[p + LEN]
  <2>1. p + LEN \in 1 .. n
    BY <1>1, <1>5
  <2> QED
    BY <2>1, <1>4
<1>10. \A k \in 1 .. c : (fl \o t)[p + HEADER + k] = S[k]
  <2> SUFFICES ASSUME NEW k \in 1 .. c PROVE (fl \o t)[p + HEADER + k] = S[k]
    OBVIOUS
  <2>1. k \in 0 .. c /\ k \in 1 .. Len(S)
    BY <1>2
  <2>2. fl[p + HEADER + k] = S[k]
    BY <2>1 DEF InFile
  <2>3. (fl \o t)[p + HEADER + k] = fl[p + HEADER + k]
    BY <2>1, <1>8
  <2> QED
    BY <2>2, <2>3, Zenon
<1> QED
  BY <1>2, <1>3, <1>6, <1>7, <1>9, <1>10 DEF InFile

\* The bytes a trace ends with.
LEMMA TraceStream ==
    ASSUME NEW block \in Seq(Symbols), NEW f, NEW T, NEW W, Trace(block, f, 0, T, W)
    PROVE  /\ T[0] \in States /\ W[0] \in Words /\ StreamOf(T[0], W[0]) \in Seq(Digit)
           /\ Len(StreamOf(T[0], W[0])) = 4 * LANES + 2 * Len(W[0]) /\ Len(W[0]) \in Nat
<1>1. 0 \in 0 .. Len(block)
  OBVIOUS
<1>2. PICK ts \in States, ws \in Words : ts = T[0] /\ ws = W[0]
  BY <1>1 DEF Trace
<1>3. PICK S : S = StreamOf(ts, ws)
  OBVIOUS
<1>4. S \in Seq(Digit) /\ Len(S) = 4 * LANES + 2 * Len(ws) /\ Len(ws) \in Nat
  BY <1>3, StreamIs
<1> QED
  BY <1>2, <1>3, <1>4

LEMMA StoredAppend ==
    ASSUME NEW fl \in Seq(Nat), NEW t \in Seq(Nat), NEW p \in Nat, NEW e,
           NEW block \in Seq(Symbols), Stored(fl, block, p, e)
    PROVE  Stored(fl \o t, block, p, e)
<1>1. PICK f, T, W :
        /\ Codes(block, f) /\ Trace(block, f, 0, T, W)
        /\ InFile(fl, p, f, StreamOf(T[0], W[0]))
        /\ e = p + HEADER + Len(StreamOf(T[0], W[0]))
  BY DEF Stored
<1>2. PICK S \in Seq(Digit) : S = StreamOf(T[0], W[0])
  BY <1>1, TraceStream
<1>3. InFile(fl \o t, p, f, S)
  BY <1>1, <1>2, InFileAppend
<1> QED
  BY <1>1, <1>2, <1>3 DEF Stored

\* What is written of a block.
LEMMA BlockTraced ==
    ASSUME IInv, EncodingInv, WriteBlock
    PROVE  \E T, W : /\ Codes(Block, freq) /\ Trace(Block, freq, 0, T, W)
                     /\ Stream = StreamOf(T[0], W[0])
<1>1. /\ pc = "encode" /\ todo = 0 /\ step = "scaled" /\ counts = CountsOf(Block)
      /\ FreqTypeOK /\ FreqInv /\ EncoderInv
  BY DEF WriteBlock, IInv, EncoderInv
<1>2. Block \in Seq(Symbols)
  BY <1>1, BlockIs DEF EncoderInv
<1>3. PICK T, W : Trace(Block, freq, 0, T, W) /\ T[0] = states /\ W[0] = words
  BY <1>1 DEF EncodingInv
<1>4. Stream = StreamOf(states, words)
  BY DEF Stream, StreamOf
<1>5. Codes(Block, freq)
  <2>1. ASSUME NEW k \in 1 .. Len(Block) PROVE freq[Block[k]] # 0
    <3>1. counts[Block[k]] # 0 /\ Block[k] \in Symbols
      BY <1>1, <1>2, CountsType
    <3> QED
      BY <3>1, <1>1 DEF FreqInv
  <2> QED
    BY <2>1, <1>1 DEF Codes, FreqInv, FreqTypeOK
<1> QED
  BY <1>3, <1>4, <1>5

\* The block that is written is stored at the end of the file.
LEMMA BlockStored ==
    ASSUME IInv, EncodingInv, WriteBlock
    PROVE  /\ Stored(file', Block, Len(file), Len(file'))
           /\ \E t \in Seq(Nat) : file' = file \o t
<1>1. /\ file' = file \o Header \o Stream /\ file \in Seq(Nat) /\ FreqTypeOK
      /\ Stream \in Seq(Digit) /\ Header \in Seq(Nat)
      /\ Len(Header) = HEADER /\ Header[LEN] = Len(Stream)
  BY StreamType DEF WriteBlock, IInv, EncoderInv
<1>2. PICK T, W : /\ Codes(Block, freq) /\ Trace(Block, freq, 0, T, W)
                  /\ Stream = StreamOf(T[0], W[0])
  BY BlockTraced
<1>6. /\ HEADER \in Nat /\ HEADER = SYMBOLS + 2 /\ SYMBOLS \in Nat \ {0}
      /\ LEN = SYMBOLS + 1
  BY Bounds DEF HEADER, LEN
<1>7. Digit \subseteq Nat
  BY Bounds DEF Digit
<1>8. PICK S \in Seq(Nat), h \in Seq(Nat), fl \in Seq(Nat) :
        S = Stream /\ h = Header /\ fl = file /\ Len(h) = HEADER /\ h[LEN] = Len(S)
  BY <1>1, <1>7, SeqMonotonic
<1>9. PICK p \in Nat, c \in Nat : p = Len(fl) /\ c = Len(S)
  OBVIOUS
<1>10. \A s \in Symbols : h[1 + s] = freq[s]
  <2> SUFFICES ASSUME NEW s \in Symbols PROVE h[1 + s] = freq[s]
    OBVIOUS
  <2> DEFINE fields == [k \in 1 .. SYMBOLS |-> freq[k - 1]]
  <2>1. h = fields \o <<c, 0>>
    BY <1>8, <1>9 DEF Header
  <2>2. fields \in Seq(Nat) /\ Len(fields) = SYMBOLS
    <3>1. \A k \in 1 .. SYMBOLS : freq[k - 1] \in Nat
      BY <1>1, <1>6 DEF FreqTypeOK, Freqs, Symbols
    <3> QED
      BY <1>6, <3>1
  <2>3. PICK k \in 1 .. SYMBOLS : k = 1 + s /\ k - 1 = s
    BY <1>6 DEF Symbols
  <2>4. fields[k] = freq[s]
    BY <2>3
  <2> HIDE DEF fields
  <2>5. <<c, 0>> \in Seq(Nat) /\ Len(<<c, 0>>) = 2
    OBVIOUS
  <2>6. \A i \in 1 .. Len(fields) + Len(<<c, 0>>) :
           (fields \o <<c, 0>>)[i] = IF i <= Len(fields) THEN fields[i] ELSE <<c, 0>>[i - Len(fields)]
    BY <2>2, <2>5, ConcatProperties
  <2>7. k \in 1 .. Len(fields) + Len(<<c, 0>>) /\ k <= Len(fields)
    BY <2>2, <2>5, <1>6
  <2>8. (fields \o <<c, 0>>)[k] = fields[k]
    BY <2>6, <2>7
  <2> QED
    BY <2>1, <2>3, <2>4, <2>8
<1>11. /\ fl \o h \in Seq(Nat) /\ Len(fl \o h) = p + HEADER
       /\ \A i \in 1 .. p + HEADER : (fl \o h)[i] = IF i <= p THEN fl[i] ELSE h[i - p]
  <2>1. /\ fl \o h \in Seq(Nat) /\ Len(fl \o h) = Len(fl) + Len(h)
        /\ \A i \in 1 .. Len(fl) + Len(h) :
              (fl \o h)[i] = IF i <= Len(fl) THEN fl[i] ELSE h[i - Len(fl)]
    BY ConcatProperties
  <2>2. Len(fl) = p /\ Len(h) = HEADER
    BY <1>8, <1>9
  <2> QED
    BY <2>1, <2>2
<1>12. PICK g \in Seq(Nat) : g = fl \o h
  BY <1>11
<1>13. /\ g \o S \in Seq(Nat) /\ Len(g \o S) = p + HEADER + c
       /\ \A i \in 1 .. p + HEADER + c :
             (g \o S)[i] = IF i <= p + HEADER THEN g[i] ELSE S[i - (p + HEADER)]
  <2>1. /\ g \o S \in Seq(Nat) /\ Len(g \o S) = Len(g) + Len(S)
        /\ \A i \in 1 .. Len(g) + Len(S) :
              (g \o S)[i] = IF i <= Len(g) THEN g[i] ELSE S[i - Len(g)]
    BY ConcatProperties
  <2>2. Len(g) = p + HEADER /\ Len(S) = c
    BY <1>9, <1>11, <1>12
  <2> QED
    BY <2>1, <2>2
<1>14. file' = g \o S
  BY <1>1, <1>8, <1>12
<1>15. \A i \in 1 .. HEADER : (g \o S)[p + i] = h[i]
  <2> SUFFICES ASSUME NEW i \in 1 .. HEADER PROVE (g \o S)[p + i] = h[i]
    OBVIOUS
  <2>1. PICK j \in 1 .. p + HEADER : j = p + i /\ ~(j <= p) /\ j - p = i
    BY <1>6
  <2>2. j \in 1 .. p + HEADER + c /\ j <= p + HEADER
    BY <1>6
  <2>3. (g \o S)[j] = g[j]
    BY <2>2, <1>13
  <2>4. g[j] = h[j - p]
    BY <2>1, <1>11, <1>12
  <2> QED
    BY <2>1, <2>3, <2>4
<1>16. \A k \in 1 .. c : (g \o S)[p + HEADER + k] = S[k]
  <2> SUFFICES ASSUME NEW k \in 1 .. c PROVE (g \o S)[p + HEADER + k] = S[k]
    OBVIOUS
  <2>1. PICK q \in Nat : q = p + HEADER
    BY <1>6
  <2>2. q + k \in 1 .. q + c /\ ~(q + k <= q) /\ q + k - q = k
    OBVIOUS
  <2>3. (g \o S)[q + k] = S[q + k - q]
    <3>1. \A i \in 1 .. q + c : (g \o S)[i] = IF i <= q THEN g[i] ELSE S[i - q]
      BY <2>1, <1>13
    <3>2. PICK i \in 1 .. q + c : i = q + k /\ ~(i <= q) /\ i - q = q + k - q
      OBVIOUS
    <3>3. (g \o S)[i] = S[i - q]
      BY <3>1, <3>2
    <3> QED
      BY <3>2, <3>3, Zenon
  <2> QED
    BY <2>1, <2>2, <2>3
<1>17. InFile(g \o S, p, freq, S)
  <2>1. \A s \in Symbols : (g \o S)[p + 1 + s] = freq[s]
    <3> SUFFICES ASSUME NEW s \in Symbols PROVE (g \o S)[p + 1 + s] = freq[s]
      OBVIOUS
    <3>1. PICK i \in 1 .. HEADER : i = 1 + s /\ p + i = p + 1 + s
      BY <1>6 DEF Symbols
    <3> QED
      BY <3>1, <1>10, <1>15
  <2>2. LEN \in 1 .. HEADER
    BY <1>6
  <2>3. (g \o S)[p + LEN] = c
    BY <2>2, <1>8, <1>9, <1>15
  <2>4. p + HEADER + c <= Len(g \o S)
    BY <1>6, <1>13
  <2> QED
    BY <2>1, <2>3, <2>4, <1>9, <1>16 DEF InFile
<1>18. Stored(file', Block, Len(file), Len(file'))
  <2>1. Len(file') = p + HEADER + Len(S) /\ Len(file) = p /\ S = StreamOf(T[0], W[0])
    BY <1>2, <1>8, <1>9, <1>13, <1>14
  <2>2. InFile(file', p, freq, StreamOf(T[0], W[0]))
    BY <1>14, <1>17, <2>1
  <2> QED
    BY <1>2, <2>1, <2>2 DEF Stored
<1>19. \E t \in Seq(Nat) : file' = file \o t
  <2>1. h \o S \in Seq(Nat) /\ (fl \o h) \o S = fl \o (h \o S)
    BY ConcatProperties, ConcatAssociative
  <2> QED
    BY <2>1, <1>8, <1>12, <1>14
<1> QED
  BY <1>18, <1>19

LEMMA TimesMod ==
    ASSUME NEW a \in Nat \ {0}, NEW d \in Nat
    PROVE  (a * d) % a = 0
<1>1. 0 \in 0 .. a - 1 /\ a * d \in Nat
  BY TimesMono
<1>2. PICK v \in Nat : v = a * d /\ v = a * d + 0
  BY <1>1
<1>3. v % a = 0
  BY <1>1, <1>2, DivUnique
<1> QED
  BY <1>2, <1>3, Zenon

LEMMA NextMultiple ==
    ASSUME NEW a \in Nat \ {0}, NEW b \in Nat, b % a = 0
    PROVE  (b + a) % a = 0 /\ \A i \in 0 .. a - 1 : (b + i) % a = i
<1>1. PICK q \in Nat : b = a * q
  <2>1. b \div a \in Nat /\ b = a * (b \div a) + (b % a) /\ a * (b \div a) \in Nat
    BY DivMod, TimesMono
  <2> QED
    BY <2>1
<1>2. a * q \in Nat /\ a * (q + 1) = a * q + a
  BY TimesMono
<1>3. (b + a) % a = 0
  <2>1. PICK d \in Nat : d = q + 1
    OBVIOUS
  <2>2. b + a = a * d
    BY <1>1, <1>2, <2>1
  <2>3. (a * d) % a = 0
    BY TimesMod
  <2> QED
    BY <2>2, <2>3, Zenon
<1>4. ASSUME NEW i \in 0 .. a - 1 PROVE (b + i) % a = i
  <2>1. PICK v \in Nat : v = b + i /\ v = a * q + i
    BY <1>1, <1>2
  <2>2. v % a = i
    BY <2>1, DivUnique
  <2> QED
    BY <2>1, <2>2, Zenon
<1> QED
  BY <1>3, <1>4

LEMMA WriteTrip == ASSUME TripInv, WriteBlock PROVE TripInv'
<1>1. PICK B, E : FileInv(B, E)
  BY DEF TripInv
<1>2. /\ IInv /\ EncodingInv /\ pc = "encode" /\ UNCHANGED <<data, BLOCK, fate, out, next>>
      /\ begin' = BlockEnd(begin) /\ pc' = IF begin' < N THEN "normalize" ELSE "stored"
      /\ todo' = Len(Block') /\ states' = Fresh /\ words' = <<>>
  BY DEF TripInv, WriteBlock, decoder
<1>3. IInv'
  BY <1>2, WriteInv
<1>4. fate = "whole" /\ out = <<>> /\ next = 0
  BY <1>2 DEF EncodingInv, Compressing
<1>5. /\ N \in Nat /\ BLOCK \in Nat \ {0} /\ begin \in 0 .. N /\ begin < N
      /\ BlockEnd(begin) \in begin + 1 .. N /\ Block \in Seq(Symbols)
      /\ data \in Inputs /\ BLOCK \in BlockSizes /\ file \in Seq(Nat)
  <2>1. begin \in 0 .. N /\ begin < N /\ data \in Inputs /\ BLOCK \in BlockSizes
        /\ file \in Seq(Nat)
    BY <1>2 DEF IInv, EncoderInv
  <2> QED
    BY <2>1, BlockIs
<1>6. PICK c \in 1 .. N : c = begin' /\ c = BlockEnd(begin) /\ c > begin
  BY <1>2, <1>5
<1>7. N' = N /\ \A b : BlockEnd(b)' = BlockEnd(b) /\ BlockAt(b)' = BlockAt(b)
  <2>1. N' = N
    BY <1>2 DEF N
  <2>2. \A b : BlockEnd(b)' = BlockEnd(b)
    BY <1>2, <2>1 DEF BlockEnd
  <2> QED
    BY <1>2, <2>1, <2>2 DEF BlockAt
<1>8. EncodingInv'
  <2>1. Fresh' = Fresh
    BY DEF Fresh, L, WORD, Lanes
  <2>2. Compressing' /\ pc' # "encode"
    BY <1>2 DEF Compressing
  <2> QED
    BY <1>2, <1>4, <2>1, <2>2 DEF EncodingInv
<1>9. Stored(file', BlockAt(begin), Len(file), Len(file')) /\ \E t \in Seq(Nat) : file' = file \o t
  <2>1. Block = BlockAt(begin)
    BY DEF Block, BlockAt
  <2> QED
    BY <1>2, <2>1, BlockStored DEF TripInv
<1>10. PICK B2 : B2 = B \cup {begin}
  OBVIOUS
<1>11. PICK E2 : E2 = [E EXCEPT ![c] = Len(file')]
  OBVIOUS
<1>12. /\ B \in SUBSET Nat /\ E \in [0 .. N -> Nat] /\ 0 \in B2 /\ E[0] = 0 /\ E[begin] = Len(file)
       /\ begin % BLOCK = 0
       /\ \A b \in B : /\ b < begin /\ b % BLOCK = 0 /\ BlockEnd(b) \in B2
                       /\ Stored(file, BlockAt(b), E[b], E[BlockEnd(b)])
  BY <1>1, <1>5, <1>10 DEF FileInv
<1>13. PICK n \in Nat : n = Len(file')
  <2>1. file' \in Seq(Nat)
    BY <1>3 DEF IInv, EncoderInv
  <2> QED
    BY <2>1
<1>14. /\ E2 \in [0 .. N -> Nat] /\ E2[c] = Len(file') /\ \A b \in B2 : E2[b] = E[b]
       /\ B2 \in SUBSET Nat /\ \A b \in B2 : b < c /\ b \in 0 .. N
  <2>1. \A b \in B2 : b \in Nat /\ b <= begin
    BY <1>5, <1>12, <1>10
  <2> QED
    BY <1>5, <1>6, <1>12, <1>13, <1>10, <1>11, <2>1
<1>15. ASSUME NEW b \in B
       PROVE  Stored(file', BlockAt(b), E[b], E[BlockEnd(b)])
  <2>1. PICK t \in Seq(Nat) : file' = file \o t
    BY <1>9
  <2>2. b \in 0 .. N /\ BlockEnd(b) \in 0 .. N
    BY <1>12, <1>14, <1>10
  <2>3. E[b] \in Nat /\ BlockAt(b) \in Seq(Symbols)
    <3>1. PICK block : block = BlockAt(b) /\ block = SubSeq(data, b + 1, BlockEnd(b))
      BY DEF BlockAt
    <3>2. block \in Seq(Symbols)
      BY <1>5, <2>2, <3>1, BlockFrom
    <3> QED
      BY <2>2, <3>1, <3>2, <1>12
  <2>4. Stored(file, BlockAt(b), E[b], E[BlockEnd(b)])
    BY <1>12
  <2> QED
    BY <1>5, <2>1, <2>3, <2>4, StoredAppend
<1>16. ASSUME NEW b \in B2
       PROVE  /\ b < begin' /\ b % BLOCK = 0 /\ BlockEnd(b) \in B2 \cup {begin'}
              /\ Stored(file', BlockAt(b), E2[b], E2[BlockEnd(b)])
  <2>1. CASE b \in B
    <3>1. BlockEnd(b) \in B2 /\ b % BLOCK = 0
      BY <2>1, <1>12
    <3>2. E2[b] = E[b] /\ E2[BlockEnd(b)] = E[BlockEnd(b)]
      BY <2>1, <3>1, <1>14, <1>10
    <3> QED
      BY <2>1, <3>1, <3>2, <1>6, <1>14, <1>15, <1>10
  <2>2. CASE b = begin
    <3>1. E2[b] = Len(file) /\ E2[BlockEnd(b)] = Len(file')
      BY <2>2, <1>6, <1>12, <1>14, <1>10
    <3> QED
      BY <2>2, <3>1, <1>6, <1>9, <1>12
  <2> QED
    BY <2>1, <2>2, <1>10
<1>17. begin' % BLOCK = 0 \/ begin' = N
  <2>1. BlockEnd(begin) = begin + BLOCK \/ BlockEnd(begin) = N
    BY DEF BlockEnd
  <2>2. (begin + BLOCK) % BLOCK = 0
    BY <1>5, <1>12, NextMultiple
  <2> QED
    BY <1>2, <2>1, <2>2
<1>18. FileInv(B2, E2)'
  <2>1. E2[0] = 0 /\ E2[begin'] = Len(file') /\ BLOCK' = BLOCK
    BY <1>2, <1>6, <1>12, <1>14
  <2>2. 0 \in B2 \cup {begin'}
    BY <1>12
  <2> QED
    BY <1>7, <1>14, <1>16, <1>17, <2>1, <2>2 DEF FileInv
<1>19. Compressing'
  BY <1>2 DEF Compressing
<1> QED
  BY <1>3, <1>8, <1>18, <1>19 DEF TripInv

\* Where what arrives may differ from the file.
LEMMA ArrivesAs ==
    ASSUME IInv, Arrive
    PROVE  /\ fate' = "whole" <=> input' = file
           /\ \A i \in 1 .. Len(file) :
                 i <= Len(input') /\ input'[i] # file[i] =>
                     fate' = "changed" \/ (fate' = "short" /\ i = LEN)
<1>1. /\ file \in Seq(Nat) /\ Len(file) \in Nat /\ HEADER \in Nat /\ LEN \in 1 .. HEADER
      /\ pc = "stored" /\ begin = N /\ OneBlock
  BY Bounds DEF IInv, EncoderInv, HEADER, LEN, Arrive
<1>2. PICK fl \in Seq(Nat), m \in Nat : fl = file /\ m = Len(fl)
  BY <1>1
<1>3. CASE fate' = "whole" /\ input' = file
  BY <1>3
<1>4. ASSUME fate' = "cut", NEW n \in 0 .. m - 1, input' = SubSeq(fl, 1, n)
      PROVE  /\ Len(input') = n /\ input' # fl
             /\ \A i \in 1 .. m : i <= Len(input') => input'[i] = fl[i]
  <2>1. Len(SubSeq(fl, 1, n)) = n /\ \A i \in 1 .. n : SubSeq(fl, 1, n)[i] = fl[i]
    BY <1>2
  <2> QED
    BY <1>2, <1>4, <2>1
<1>5. ASSUME fate' = "short", NEW n \in 0 .. file[LEN] - 1, N \in 1 .. BLOCK,
             input' = Shortened(n)
      PROVE  /\ input' # fl
             /\ \A i \in 1 .. m : i <= Len(input') /\ i # LEN => input'[i] = fl[i]
  <2>1. m = HEADER + fl[LEN] /\ HEADER <= m
    <3>1. N # 0
      BY <1>5
    <3> QED
      BY <1>1, <1>2, <1>5, <3>1 DEF OneBlock
  <2>2. PICK t \in 0 .. m - 1 : t = HEADER + n /\ HEADER <= t
    <3>1. PICK h \in Nat, c \in Nat : h = HEADER /\ c = fl[LEN]
      <4>1. LEN \in 1 .. m
        BY <1>1, <2>1
      <4> QED
        BY <1>1, <1>2, <4>1, ElementOfSeq
    <3>2. n \in 0 .. c - 1 /\ m = h + c
      BY <1>2, <1>5, <2>1, <3>1
    <3>3. h + n \in 0 .. m - 1 /\ h <= h + n
      BY <3>2
    <3> QED
      BY <3>1, <3>3
  <2>3. /\ SubSeq(fl, 1, t) \in Seq(Nat) /\ Len(SubSeq(fl, 1, t)) = t
        /\ \A i \in 1 .. t : SubSeq(fl, 1, t)[i] = fl[i]
    BY <1>2
  <2>4. PICK g \in Seq(Nat) : g = SubSeq(fl, 1, t)
    BY <2>3
  <2>5. input' = [g EXCEPT ![LEN] = n]
    BY <1>2, <1>5, <2>2, <2>4 DEF Shortened
  <2>6. Len(input') = t /\ \A i \in 1 .. t : i # LEN => input'[i] = g[i]
    <3>1. Len(g) = t /\ LEN \in 1 .. Len(g) /\ n \in Nat
      <4>1. n \in Nat
        BY <1>1, <1>2, <2>1, ElementOfSeq
      <4> QED
        BY <4>1, <1>1, <2>2, <2>3, <2>4
    <3>2. PICK h \in 1 .. t : h = LEN
      BY <3>1
    <3>3. DOMAIN g = 1 .. t
      BY <3>1
    <3>4. /\ DOMAIN [g EXCEPT ![h] = n] = 1 .. t
          /\ \A i \in 1 .. t : i # h => [g EXCEPT ![h] = n][i] = g[i]
      BY <3>3
    <3>5. Len([g EXCEPT ![h] = n]) = t
      BY <3>1, <3>2, ExceptSeq
    <3> QED
      BY <2>5, <3>2, <3>4, <3>5
  <2>7. t < m
    OBVIOUS
  <2>8. input' # fl
    BY <1>2, <2>6, <2>7
  <2>9. ASSUME NEW i \in 1 .. m, i <= Len(input'), i # LEN PROVE input'[i] = fl[i]
    <3>1. i \in 1 .. t
      BY <2>6, <2>9
    <3> QED
      BY <3>1, <2>3, <2>4, <2>6, <2>9
  <2> QED
    BY <2>8, <2>9
<1>6. ASSUME fate' = "longer", input' = Append(fl, 0)
      PROVE  /\ input' # fl
             /\ \A i \in 1 .. m : i <= Len(input') => input'[i] = fl[i]
  <2>1. Len(Append(fl, 0)) = m + 1 /\ \A i \in 1 .. m : Append(fl, 0)[i] = fl[i]
    BY <1>2
  <2> QED
    BY <1>2, <1>6, <2>1
<1>7. CASE fate' = "cut" /\ \E n \in 0 .. Len(file) - 1 : input' = SubSeq(file, 1, n)
  BY <1>2, <1>4, <1>7
<1>8. CASE /\ fate' = "short" /\ N \in 1 .. BLOCK
           /\ \E n \in 0 .. file[LEN] - 1 : input' = Shortened(n)
  BY <1>2, <1>5, <1>8
<1>9. CASE fate' = "longer" /\ input' = Append(file, 0)
  BY <1>2, <1>6, <1>9
<1>10. CASE fate' = "changed" /\ input' # file
  BY <1>10
<1> QED
  BY <1>3, <1>7, <1>8, <1>9, <1>10 DEF Arrive

LEMMA ArriveTrip == ASSUME TripInv, Arrive PROVE TripInv'
<1>1. PICK B, E : FileInv(B, E)
  BY DEF TripInv
<1>2. /\ IInv /\ EncodingInv /\ pc = "stored" /\ pc' = "header" /\ begin = N
      /\ UNCHANGED <<data, BLOCK, begin, file, out, next>>
  BY DEF TripInv, Arrive, encoder, decoder, IInv, EncoderInv
<1>3. IInv'
  BY <1>2, ArriveInv
<1>4. FileInv(B, E)' /\ N' = N
  BY <1>1, <1>2, FileKept DEF N
<1>5. out = <<>> /\ next = 0 /\ ~Compressing'
  BY <1>2 DEF EncodingInv, Compressing
<1>6. EncodingInv'
  BY <1>2, <1>4, <1>5 DEF EncodingInv
<1>7. /\ fate' = "whole" <=> input' = file
      /\ \A i \in 1 .. Len(file) :
            i <= Len(input') /\ input'[i] # file[i] =>
                fate' = "changed" \/ (fate' = "short" /\ i = LEN)
  BY <1>2, ArrivesAs
<1>8. Arrived'
  <2>1. LEN' = LEN /\ file' = file
    BY <1>2 DEF LEN
  <2> QED
    BY <1>7, <2>1 DEF Arrived
<1>9. /\ N \in Nat /\ input' \in Seq(Nat) /\ file \in Seq(Nat)
  BY <1>2, <1>3 DEF IInv, EncoderInv, DecoderInv
<1>10. Good' /\ Same(0)' /\ Len(out') = 0
  <2>1. out' = <<>> /\ Len(out') = 0
    BY <1>2, <1>5
  <2>2. N' \in Nat
    BY <1>4, <1>9
  <2>3. Good'
    BY <2>1, <2>2 DEF Good
  <2>4. Same(0)'
    BY <1>2, <1>9 DEF Same
  <2> QED
    BY <2>1, <2>3, <2>4
<1>11. DecodingInv(B, E)'
  <2>1. next' = E[Len(out')] /\ Len(out') \in B \cup {N'} /\ Same(next)'
    <3>1. next' = 0 /\ E[0] = 0 /\ 0 \in B \cup {N}
      BY <1>1, <1>2, <1>5 DEF FileInv
    <3> QED
      BY <3>1, <1>4, <1>10 DEF Same
  <2>2. Len(out') <= N'
    BY <1>4, <1>9, <1>10
  <2> QED
    BY <1>2, <1>8, <1>10, <2>1, <2>2 DEF DecodingInv
<1> QED
  BY <1>3, <1>4, <1>6, <1>11 DEF TripInv

-----------------------------------------------------------------------------
(* decompress.                                                              *)

\* A block of the file.
LEMMA StoredIs ==
    ASSUME IInv, NEW B, NEW E, FileInv(B, E), NEW b \in B
    PROVE  /\ b \in Nat /\ b < N /\ N \in Nat /\ BLOCK \in Nat \ {0} /\ b % BLOCK = 0
           /\ BlockEnd(b) \in B \cup {begin} /\ BlockEnd(b) \in b + 1 .. N
           /\ BlockAt(b) \in Seq(Symbols) /\ Len(BlockAt(b)) = BlockEnd(b) - b
           /\ \A k \in 1 .. Len(BlockAt(b)) : BlockAt(b)[k] = data[b + k]
           /\ E[b] \in Nat
           /\ Stored(file, BlockAt(b), E[b], E[BlockEnd(b)])
<1>1. data \in Inputs /\ BLOCK \in BlockSizes /\ begin \in 0 .. N
  BY DEF IInv, EncoderInv
<1>2. N \in Nat
  BY <1>1, BlockIs
<1>3. /\ b \in Nat /\ b < begin /\ b % BLOCK = 0 /\ BlockEnd(b) \in B \cup {begin}
      /\ Stored(file, BlockAt(b), E[b], E[BlockEnd(b)]) /\ E \in [0 .. N -> Nat]
  BY DEF FileInv
<1>4. b \in 0 .. N /\ b < N
  BY <1>1, <1>2, <1>3
<1>5. PICK block : block = BlockAt(b) /\ block = SubSeq(data, b + 1, BlockEnd(b))
  BY DEF BlockAt
<1>6. /\ BLOCK \in Nat \ {0} /\ BlockEnd(b) \in b .. N /\ BlockEnd(b) > b
      /\ block \in Seq(Symbols) /\ Len(block) = BlockEnd(b) - b
      /\ \A k \in 1 .. Len(block) : block[k] = data[b + k]
  BY <1>1, <1>4, <1>5, BlockFrom
<1>7. BlockEnd(b) \in b + 1 .. N
  BY <1>2, <1>3, <1>6
<1> QED
  BY <1>2, <1>3, <1>4, <1>5, <1>6, <1>7

\* decompress does not touch the file.
LEMMA RestTrip ==
    ASSUME TripInv, IInv', NEW B, NEW E, FileInv(B, E), ~Compressing,
           UNCHANGED <<data, BLOCK, encoder, input, fate>>,
           pc' \in {"header", "decode", "ok", "corrupt"}, DecodingInv(B, E)'
    PROVE  TripInv'
<1>1. UNCHANGED <<begin, file>> /\ begin = N /\ N' = N
  BY DEF TripInv, EncodingInv, encoder, N
<1>2. FileInv(B, E)'
  BY <1>1, FileKept
<1>3. ~Compressing'
  BY DEF Compressing
<1>4. EncodingInv'
  BY <1>1, <1>3 DEF EncodingInv, Compressing
<1> QED
  BY <1>2, <1>3, <1>4 DEF TripInv

LEMMA ArrivedKept == ASSUME Arrived, UNCHANGED <<file, input, fate>> PROVE Arrived'
<1>1. LEN' = LEN
  BY DEF LEN
<1> QED
  BY <1>1 DEF Arrived

\* Frequencies that add up are those that were written.
LEMMA FreqsArrive ==
    ASSUME IInv, Arrived, ~Lost, NEW p \in Nat, NEW f \in Freqs, NEW g \in Freqs,
           Total(f) = M, Total(g) = M, p + HEADER <= Len(file), p + HEADER <= Len(input),
           \A s \in Symbols : file[p + 1 + s] = f[s], \A s \in Symbols : input[p + 1 + s] = g[s]
    PROVE  f = g
<1>1. HEADER = SYMBOLS + 2 /\ SYMBOLS \in Nat /\ file \in Seq(Nat) /\ input \in Seq(Nat)
  BY Bounds DEF HEADER, IInv, EncoderInv, DecoderInv
<1>2. \A s \in Symbols : p + 1 + s \in 1 .. Len(file) /\ p + 1 + s <= Len(input)
  <2>1. PICK m \in Nat, n \in Nat : m = Len(file) /\ n = Len(input)
    BY <1>1
  <2>2. p + (SYMBOLS + 2) <= m /\ p + (SYMBOLS + 2) <= n
    BY <1>1, <2>1
  <2>3. \A s \in 0 .. SYMBOLS - 1 : p + 1 + s \in 1 .. m /\ p + 1 + s <= n
    BY <1>1, <2>2
  <2> QED
    BY <2>1, <2>3 DEF Symbols
<1> SUFFICES ASSUME NEW a \in Symbols, f[a] # g[a] PROVE FALSE
  BY DEF Freqs
<1>3. ASSUME NEW s \in Symbols \ {a} PROVE f[s] = g[s]
  <2> SUFFICES ASSUME f[s] # g[s] PROVE FALSE
    OBVIOUS
  <2>1. PICK i \in 1 .. Len(file), j \in 1 .. Len(file) :
           i = p + 1 + a /\ j = p + 1 + s /\ i <= Len(input) /\ j <= Len(input)
    BY <1>2
  <2>2. input[i] # file[i] /\ input[j] # file[j]
    BY <2>1
  <2>3. i = j
    BY <2>1, <2>2 DEF Arrived, Lost
  <2> QED
    BY <2>1, <2>3 DEF Symbols
<1> QED
  BY <1>3, TotalDiffers

\* Bytes that agree hold the same states.
LEMMA StatesAgree ==
    ASSUME NEW R, NEW S, Len(R) \in Nat, Len(S) \in Nat, Len(R) >= 4 * LANES, Len(S) >= 4 * LANES,
           Agrees(R, S)
    PROVE  \A l \in Lanes : StateAt(R, 4 * l) = StateAt(S, 4 * l)
<1> SUFFICES ASSUME NEW l \in Lanes PROVE StateAt(R, 4 * l) = StateAt(S, 4 * l)
  OBVIOUS
<1>1. PICK p \in Nat : p = 4 * l /\ p + 4 <= Len(R) /\ p + 4 <= Len(S)
  BY Bounds DEF Lanes
<1>2. \A k \in 1 .. Len(R) : k <= Len(S) => R[k] = S[k]
  BY DEF Agrees
<1>3. R[p + 1] = S[p + 1] /\ R[p + 2] = S[p + 2] /\ R[p + 2 + 1] = S[p + 2 + 1]
      /\ R[p + 2 + 2] = S[p + 2 + 2]
  <2>1. /\ p + 1 \in 1 .. Len(R) /\ p + 1 <= Len(S) /\ p + 2 \in 1 .. Len(R) /\ p + 2 <= Len(S)
        /\ p + 2 + 1 \in 1 .. Len(R) /\ p + 2 + 1 <= Len(S)
        /\ p + 2 + 2 \in 1 .. Len(R) /\ p + 2 + 2 <= Len(S)
    BY <1>1
  <2> QED
    BY <1>2, <2>1
<1>4. WordAt(R, p) = WordAt(S, p) /\ WordAt(R, p + 2) = WordAt(S, p + 2)
  BY <1>3 DEF WordAt
<1> QED
  BY <1>1, <1>4 DEF StateAt

\* The block that starts where the decoder is, and what it is made of.
LEMMA BlockOf ==
    ASSUME NEW block \in Seq(Symbols), NEW p \in Nat, NEW e, NEW fl, Stored(fl, block, p, e)
    PROVE  \E f \in Freqs, S \in Seq(Digit) : \E T, W :
              /\ Codes(block, f) /\ Total(f) = M /\ Trace(block, f, 0, T, W)
              /\ S = StreamOf(T[0], W[0]) /\ T[0] \in States /\ W[0] \in Words
              /\ InFile(fl, p, f, S) /\ e = p + HEADER + Len(S)
              /\ Len(S) = 4 * LANES + 2 * Len(W[0]) /\ Len(S) >= 4 * LANES
              /\ \A l \in Lanes : StateAt(S, 4 * l) = T[0][l] /\ T[0][l] \in State
<1>1. PICK f, T, W :
        /\ Codes(block, f) /\ Trace(block, f, 0, T, W)
        /\ InFile(fl, p, f, StreamOf(T[0], W[0]))
        /\ e = p + HEADER + Len(StreamOf(T[0], W[0]))
  BY DEF Stored
<1>2. PICK ts \in States, ws \in Words, S \in Seq(Digit) :
        /\ ts = T[0] /\ ws = W[0] /\ S = StreamOf(T[0], W[0]) /\ S = StreamOf(ts, ws)
  <2>1. T[0] \in States /\ W[0] \in Words /\ StreamOf(T[0], W[0]) \in Seq(Digit)
    BY <1>1, TraceStream
  <2> QED
    BY <2>1
<1>3. /\ Len(S) = 4 * LANES + 2 * Len(ws) /\ Len(ws) \in Nat
      /\ \A l \in Lanes : StateAt(S, 4 * l) = ts[l]
  BY <1>2, StreamIs
<1>4. Len(S) >= 4 * LANES
  <2>1. LANES \in Nat
    BY Bounds
  <2>2. 4 * LANES \in Nat
    BY <2>1
  <2>3. PICK c \in Nat, n \in Nat : c = 4 * LANES /\ n = Len(ws)
    BY <1>3, <2>2, Zenon
  <2>4. Len(S) = c + 2 * n
    BY <1>3, <2>3, Zenon
  <2> QED
    BY <2>3, <2>4
<1>5. f \in Freqs /\ Total(f) = M
  BY <1>1 DEF Codes
<1>6. \A l \in Lanes : ts[l] \in State
  BY DEF States
<1> QED
  BY <1>1, <1>2, <1>3, <1>4, <1>5, <1>6

\* A block is read: it is one of the file, and the decoder starts in step.
LEMMA ReadDecodes ==
    ASSUME IInv, ReadBlock, NEW B, NEW E, FileInv(B, E), Arrived, ~Lost,
           Good, Len(out) \in B, next = E[Len(out)], Same(next), UNCHANGED file
    PROVE  \E b \in B : \E T, W : Decoding(b, E[b], E[BlockEnd(b)], T, W)'
<1>1. PICK b \in B : b = Len(out)
  OBVIOUS
<1>2. /\ b \in Nat /\ b < N /\ N \in Nat /\ E[b] \in Nat
      /\ Stored(file, BlockAt(b), E[b], E[BlockEnd(b)])
  BY <1>1, StoredIs
<1>3. PICK block \in Seq(Symbols) : block = BlockAt(b)
  <2>1. BlockAt(b) \in Seq(Symbols)
    BY <1>1, StoredIs
  <2> QED
    BY <2>1
<1>4. PICK p \in Nat : p = E[b] /\ p = next
  BY <1>1, <1>2
<1>5. PICK e : e = E[BlockEnd(b)]
  OBVIOUS
<1>6. PICK f \in Freqs, S \in Seq(Digit) : \E T, W :
        /\ Codes(block, f) /\ Total(f) = M /\ Trace(block, f, 0, T, W)
        /\ S = StreamOf(T[0], W[0]) /\ T[0] \in States /\ W[0] \in Words
        /\ InFile(file, p, f, S) /\ e = p + HEADER + Len(S)
        /\ Len(S) = 4 * LANES + 2 * Len(W[0]) /\ Len(S) >= 4 * LANES
        /\ \A l \in Lanes : StateAt(S, 4 * l) = T[0][l] /\ T[0][l] \in State
  <2>1. Stored(file, block, p, e)
    BY <1>2, <1>3, <1>4, <1>5
  <2> QED
    BY <2>1, BlockOf
<1>7. PICK T, W :
       /\ Codes(block, f) /\ Total(f) = M /\ Trace(block, f, 0, T, W)
       /\ S = StreamOf(T[0], W[0]) /\ T[0] \in States /\ W[0] \in Words
       /\ InFile(file, p, f, S) /\ e = p + HEADER + Len(S)
       /\ Len(S) = 4 * LANES + 2 * Len(W[0]) /\ Len(S) >= 4 * LANES
       /\ \A l \in Lanes : StateAt(S, 4 * l) = T[0][l] /\ T[0][l] \in State
  BY <1>6
<1>8. PICK g \in Freqs, R \in Seq(Digit) :
        /\ fs' = g /\ Total(g) = M /\ stream' = R
        /\ next' = next + HEADER + Len(R) /\ next' <= Len(input)
        /\ \A s \in Symbols : g[s] = input[next + 1 + s]
        /\ input[next + LEN] = Len(R)
        /\ \A k \in 1 .. Len(R) : R[k] = input[next + HEADER + k] % BYTE
        /\ Len(R) >= 4 * LANES
        /\ x' = [l \in Lanes |-> StateAt(R, 4 * l)]
  BY ReadIs
<1>9. /\ UNCHANGED <<data, BLOCK, input, fate, out, file>> /\ till' = BlockEnd(b)
      /\ first' = b /\ pos' = 4 * LANES
  BY <1>1 DEF ReadBlock
<1>10. HEADER \in Nat /\ Len(file) \in Nat /\ Len(input) \in Nat
  BY Bounds DEF HEADER, IInv, EncoderInv, DecoderInv
<1>11. f = g
  <2>1. p + HEADER <= Len(file) /\ \A s \in Symbols : file[p + 1 + s] = f[s]
    <3>1. p + HEADER + Len(S) <= Len(file) /\ Len(S) \in Nat
      BY <1>7 DEF InFile
    <3> QED
      BY <3>1, <1>7, <1>10 DEF InFile
  <2>2. p + HEADER <= Len(input) /\ \A s \in Symbols : input[p + 1 + s] = g[s]
    <3>1. p + HEADER + Len(R) <= Len(input) /\ Len(R) \in Nat
      BY <1>4, <1>8
    <3>2. p + HEADER <= Len(input)
      BY <3>1, <1>10
    <3> QED
      BY <3>2, <1>4, <1>8
  <2>3. Total(f) = M /\ Total(g) = M
    BY <1>7, <1>8
  <2> QED
    BY <2>1, <2>2, <2>3, FreqsArrive
<1>12. x' \in States
  BY ReadInv DEF IInv, DecoderInv, States
<1>13. PICK c \in Nat : c = 4 * LANES
  BY Bounds
<1>16. Agrees(R, S) => x' = T[0] /\ c = PosOf(W, 0)
  <2> SUFFICES ASSUME Agrees(R, S) PROVE x' = T[0] /\ c = PosOf(W, 0)
    OBVIOUS
  <2>1. \A l \in Lanes : StateAt(R, 4 * l) = StateAt(S, 4 * l)
    BY <1>7, <1>8, StatesAgree
  <2>2. x' = T[0]
    <3>1. \A l \in Lanes : x'[l] = T[0][l]
      BY <2>1, <1>7, <1>8
    <3> QED
      BY <3>1, <1>7, <1>12 DEF States
  <2>3. PosOf(W, 0) = c
    <3>1. Len(W[0]) \in Nat
      BY <1>7 DEF Words
    <3> QED
      BY <3>1, <1>13 DEF PosOf
  <2> QED
    BY <2>2, <2>3
<1>17. Len(out') - b = 0 /\ Len(out') = b /\ b <= b
  BY <1>1, <1>2, <1>9
<1>18. InStep(b, T, W)'
  <2>1. Agrees(stream', StreamOf(T[0], W[0])) =>
           Good' /\ x' = T[Len(out') - b] /\ pos' = PosOf(W, Len(out') - b)
    <3>1. Good'
      BY <1>9 DEF Good, N
    <3> QED
      BY <3>1, <1>7, <1>8, <1>9, <1>13, <1>16, <1>17
  <2> QED
    BY <2>1 DEF InStep
<1>19. Read(p)'
  BY <1>4, <1>8, <1>9, <1>10 DEF Read, HEADER, LEN
<1>20. Same(p)'
  BY <1>4, <1>9 DEF Same
<1>21. BlockEnd(b)' = BlockEnd(b) /\ BlockAt(b)' = BlockAt(b)
  BY <1>9 DEF BlockAt, BlockEnd, N
<1>22. /\ Codes(BlockAt(b)', fs') /\ Trace(BlockAt(b)', fs', 0, T, W)
       /\ InFile(file', p, fs', StreamOf(T[0], W[0]))
       /\ e = p + HEADER + Len(StreamOf(T[0], W[0]))
  BY <1>3, <1>7, <1>8, <1>9, <1>11, <1>21
<1>24. \A k \in 1 .. b : out'[k] = data'[k]
  BY <1>1, <1>9 DEF Good
<1>25. HEADER' = HEADER
  BY DEF HEADER
<1>26. Decoding(b, p, e, T, W)'
  BY <1>9, <1>17, <1>18, <1>19, <1>20, <1>21, <1>22, <1>24, <1>25 DEF Decoding
<1> QED
  BY <1>4, <1>21, <1>26, <1>5

LEMMA ReadTrip == ASSUME TripInv, ReadBlock PROVE TripInv'
<1>1. PICK B, E : FileInv(B, E) /\ (~Compressing => DecodingInv(B, E))
  BY DEF TripInv
<1>2. /\ IInv /\ EncodingInv /\ pc = "header" /\ pc' = "decode" /\ Len(out) < N
      /\ UNCHANGED <<data, BLOCK, encoder, input, fate, out>> /\ till' = BlockEnd(Len(out))
  BY DEF TripInv, ReadBlock
<1>3. IInv' /\ ~Compressing /\ UNCHANGED file /\ N' = N
  BY <1>2, ReadInv DEF Compressing, encoder, N
<1>4. /\ Arrived /\ Arrived' /\ Len(out) <= N
      /\ \/ Lost
         \/ Good /\ Len(out) \in B \cup {N} /\ next = E[Len(out)] /\ Same(next)
  BY <1>1, <1>2, <1>3, ArrivedKept DEF DecodingInv
<1>5. N \in Nat /\ Len(out) \in Nat /\ till' \in Nat /\ Len(out) <= till' /\ till' <= N
  <2>1. N \in Nat /\ Len(out) \in Nat /\ BLOCK \in Nat
    BY <1>2, RansAssumption DEF IInv, EncoderInv, DecoderInv, N
  <2> QED
    BY <2>1, <1>2 DEF BlockEnd
<1>6. CASE Lost
  <2>1. Lost'
    BY <1>2, <1>6 DEF Lost
  <2> QED
    BY <2>1, <1>2, <1>3, <1>4, <1>5, <1>1, RestTrip DEF DecodingInv
<1>7. CASE ~Lost /\ Good /\ Len(out) \in B \cup {N} /\ next = E[Len(out)] /\ Same(next)
  <2>1. Len(out) \in B
    BY <1>2, <1>5, <1>7
  <2>2. (\E b \in B : \E T, W : Decoding(b, E[b], E[BlockEnd(b)], T, W))'
    BY <2>1, <1>1, <1>2, <1>3, <1>4, <1>7, ReadDecodes
  <2> QED
    BY <2>2, <1>2, <1>3, <1>4, <1>5, <1>1, RestTrip DEF DecodingInv
<1> QED
  BY <1>4, <1>6, <1>7

LEMMA DigitByte == ASSUME NEW d \in Digit PROVE d % BYTE = d
<1>1. BYTE \in Nat \ {0} /\ d \in 0 .. BYTE - 1 /\ d \in Nat
  BY Bounds DEF Digit
<1>2. d = BYTE * 0 + d
  BY <1>1
<1> QED
  BY <1>1, <1>2, DivUnique

\* What compress wrote is taken.
LEMMA WholeDecodable ==
    ASSUME IInv, NEW B, NEW E, FileInv(B, E), input = file, Len(out) \in B, next = E[Len(out)]
    PROVE  Decodable
<1>1. PICK b \in B : b = Len(out)
  OBVIOUS
<1>2. PICK p \in Nat : p = next /\ p = E[b]
  BY <1>1 DEF IInv, DecoderInv
<1>3. PICK block \in Seq(Symbols) : \E e : Stored(file, block, p, e)
  <2>1. BlockAt(b) \in Seq(Symbols) /\ Stored(file, BlockAt(b), E[b], E[BlockEnd(b)])
    BY <1>1, StoredIs
  <2> QED
    BY <2>1, <1>2
<1>4. PICK f \in Freqs, S \in Seq(Digit) :
        /\ Total(f) = M /\ InFile(file, p, f, S) /\ Len(S) >= 4 * LANES
        /\ \A l \in Lanes : StateAt(S, 4 * l) \in State
  <2>1. PICK e : Stored(file, block, p, e)
    BY <1>3
  <2>2. PICK f \in Freqs, S \in Seq(Digit) : \E T, W :
        /\ Codes(block, f) /\ Total(f) = M /\ Trace(block, f, 0, T, W)
        /\ S = StreamOf(T[0], W[0]) /\ T[0] \in States /\ W[0] \in Words
        /\ InFile(file, p, f, S) /\ e = p + HEADER + Len(S)
        /\ Len(S) = 4 * LANES + 2 * Len(W[0]) /\ Len(S) >= 4 * LANES
        /\ \A l \in Lanes : StateAt(S, 4 * l) = T[0][l] /\ T[0][l] \in State
    BY <2>1, BlockOf
  <2> QED
    BY <2>2
<1>5. /\ input \in Seq(Nat) /\ Len(input) \in Nat /\ BYTE \in Nat \ {0} /\ HEADER \in Nat \ {0}
      /\ HEADER = SYMBOLS + 2 /\ LEN = SYMBOLS + 1 /\ SYMBOLS \in Nat
  BY Bounds DEF IInv, DecoderInv, HEADER, LEN
<1>6. PICK n \in Nat : n = Len(S)
  OBVIOUS
<1>7. /\ p + HEADER + n <= Len(input) /\ input[p + LEN] = n
      /\ \A s \in Symbols : input[p + 1 + s] = f[s]
      /\ \A k \in 1 .. n : input[p + HEADER + k] = S[k]
  BY <1>4, <1>6 DEF InFile
<1>8. PICK t \in 0 .. Len(input) : t = p + HEADER
  BY <1>5, <1>7
<1>9. \A k \in 1 .. HEADER : Fields[k] = input[p + k]
  <2> SUFFICES ASSUME NEW k \in 1 .. HEADER PROVE Fields[k] = input[p + k]
    OBVIOUS
  <2>1. Fields = SubSeq(input, p + 1, t)
    BY <1>2, <1>8 DEF Fields
  <2>2. p + k \in 1 .. Len(input) /\ p + 1 \in Nat /\ k \in 1 .. t - (p + 1) + 1
        /\ p + 1 + k - 1 = p + k
    BY <1>5, <1>8
  <2>3. SubSeq(input, p + 1, t)[k] = input[p + k]
    BY <2>2, <1>5, <1>8
  <2> QED
    BY <2>1, <2>3
<1>10. Fields[LEN] = n
  <2>1. LEN \in 1 .. HEADER
    BY <1>5
  <2> QED
    BY <2>1, <1>7, <1>9
<1>11. FreqsRead = f
  <2>1. ASSUME NEW s \in Symbols PROVE Fields[s + 1] = f[s]
    <3>1. PICK k \in 1 .. HEADER : k = s + 1 /\ p + k = p + 1 + s
      BY <1>5 DEF Symbols
    <3> QED
      BY <3>1, <1>7, <1>9
  <2> QED
    BY <2>1 DEF FreqsRead, Freqs
<1>12. BlockData = S
  <2>1. BlockData = [k \in 1 .. n |-> input[t + k] % BYTE]
    BY <1>2, <1>8, <1>10 DEF BlockData
  <2>2. ASSUME NEW k \in 1 .. n PROVE input[t + k] % BYTE = S[k]
    <3>1. PICK d \in Digit : d = S[k]
      BY <1>6, ElementOfSeq
    <3>2. input[t + k] = d
      BY <3>1, <1>7, <1>8
    <3>3. d % BYTE = d
      BY DigitByte
    <3> QED
      BY <3>1, <3>2, <3>3
  <2>3. S = [k \in 1 .. n |-> S[k]]
    BY <1>6
  <2> QED
    BY <2>1, <2>2, <2>3
<1>13. next + HEADER <= Len(input) /\ DataEnd <= Len(input)
  BY <1>2, <1>5, <1>7, <1>8, <1>10 DEF DataEnd
<1>14. \A l \in Lanes : StateAt(BlockData, 4 * l) >= L
  <2>1. \A l \in Lanes : StateAt(S, 4 * l) >= L
    BY <1>4, StateIs
  <2> QED
    BY <2>1, <1>12
<1> QED
  BY <1>4, <1>6, <1>10, <1>11, <1>13, <1>14 DEF Decodable

LEMMA RejectTrip == ASSUME TripInv, RejectBlock PROVE TripInv'
<1>1. PICK B, E : FileInv(B, E) /\ (~Compressing => DecodingInv(B, E))
  BY DEF TripInv
<1>2. /\ IInv /\ EncodingInv /\ pc = "header" /\ pc' = "corrupt" /\ Len(out) < N /\ ~Decodable
      /\ UNCHANGED <<data, BLOCK, encoder, input, fate, decoder>>
  BY DEF TripInv, RejectBlock
<1>3. IInv' /\ ~Compressing /\ UNCHANGED <<file, out>> /\ N' = N
  BY <1>2, RestInv DEF Compressing, encoder, decoder, N
<1>4. /\ Arrived /\ Arrived' /\ Len(out) <= N
      /\ \/ Lost
         \/ Good /\ Len(out) \in B \cup {N} /\ next = E[Len(out)] /\ Same(next)
  BY <1>1, <1>2, <1>3, ArrivedKept DEF DecodingInv
<1>5. fate # "whole"
  <2>1. CASE Lost
    BY <2>1 DEF Lost
  <2>2. CASE Good /\ Len(out) \in B \cup {N} /\ next = E[Len(out)] /\ Same(next)
    <3> SUFFICES ASSUME fate = "whole" PROVE FALSE
      OBVIOUS
    <3>1. input = file
      BY <1>4 DEF Arrived
    <3>2. N \in Nat
      BY <1>2, RansAssumption DEF IInv, EncoderInv, N
    <3>3. Len(out) \in B
      BY <1>2, <2>2, <3>2
    <3> QED
      BY <1>1, <1>2, <2>2, <3>1, <3>3, WholeDecodable
  <2> QED
    BY <1>4, <2>1, <2>2
<1> QED
  BY <1>1, <1>2, <1>3, <1>4, <1>5, RestTrip DEF DecodingInv

\* The word a decoder takes is the one that was written, if it is there.
LEMMA WordFollows ==
    ASSUME NEW S \in Seq(Digit), NEW R \in Seq(Digit), Agrees(R, S),
           NEW q \in Nat, q + 2 <= Len(S), NEW w, w = IF q + 2 <= Len(R) THEN WordAt(R, q) ELSE 0
    PROVE  w = WordAt(S, q) \/ (Len(R) < Len(S) /\ q + 2 > Len(R))
<1>1. CASE q + 2 <= Len(R)
  <2>1. q + 1 \in 1 .. Len(R) /\ q + 1 <= Len(S) /\ q + 2 \in 1 .. Len(R) /\ q + 2 <= Len(S)
    BY <1>1
  <2>2. R[q + 1] = S[q + 1] /\ R[q + 2] = S[q + 2]
    BY <2>1 DEF Agrees
  <2> QED
    BY <1>1, <2>2 DEF WordAt
<1>2. CASE ~(q + 2 <= Len(R))
  BY <1>2
<1> QED
  BY <1>1, <1>2

\* The word at q of the bytes R, and a state that is u before it takes one in.
NextOf(R, q) == IF q + 2 <= Len(R) THEN WordAt(R, q) ELSE 0
Refilled(u, w) == IF u < L THEN u * WORD + w ELSE u

\* A decoder that is in step with the encoder, and whose bytes agree with the
\* encoder's, stays in step or finds that there are too few.
LEMMA StepFollows ==
    ASSUME NEW block \in Seq(Symbols), NEW f, NEW T, NEW W, Trace(block, f, 0, T, W),
           NEW S \in Seq(Digit), S = StreamOf(T[0], W[0]), NEW R \in Seq(Digit), Agrees(R, S),
           NEW k \in 0 .. Len(block) - 1, NEW lane, NEW v, NEW z, NEW s, NEW u \in Nat,
           Follows(block, f, T, W, k, lane, v, z, s, u),
           NEW q \in Nat, q = PosOf(W, k), NEW w \in 0 .. WORD - 1,
           w = NextOf(R, q)
    PROVE  \/ Len(R) < Len(S) /\ u < L /\ q + 2 > Len(R)
           \/ /\ [T[k] EXCEPT ![lane] = Refilled(u, w)] = T[k + 1]
              /\ PosOf(W, k + 1) = IF u < L THEN q + 2 ELSE q
<1>1. CASE u < L
  <2>1. PICK d : d = z % WORD
    OBVIOUS
  <2>2. u * WORD + d = z /\ Writes(W, k, d) /\ T[k + 1] = [T[k] EXCEPT ![lane] = z]
    BY <1>1, <2>1, Zenon DEF Follows
  <2>3. PosOf(W, k + 1) = q + 2 /\ q + 2 <= Len(S) /\ WordAt(S, q) = d
    BY <2>2, WordIsThere
  <2>4. w = d \/ (Len(R) < Len(S) /\ q + 2 > Len(R))
    BY <2>3, WordFollows DEF NextOf
  <2>5. CASE w = d
    BY <1>1, <2>2, <2>3, <2>5, Zenon DEF Refilled
  <2>6. CASE Len(R) < Len(S) /\ q + 2 > Len(R)
    BY <1>1, <2>6, Zenon
  <2> QED
    BY <2>4, <2>5, <2>6, Zenon
<1>2. CASE ~(u < L)
  <2>1. u = z /\ W[k] = W[k + 1] /\ T[k + 1] = [T[k] EXCEPT ![lane] = z]
    BY <1>2, Zenon DEF Follows
  <2>2. PosOf(W, k + 1) = PosOf(W, k)
    BY <2>1, Zenon DEF PosOf
  <2> QED
    BY <1>2, <2>1, <2>2, Zenon DEF Refilled
<1> QED
  BY <1>1, <1>2, Zenon

\* A symbol is decoded: the decoder is in step as long as its bytes agree with
\* the encoder's.
LEMMA DecodeDecodes ==
    ASSUME IInv, DecodeSymbol, NEW B, NEW E, FileInv(B, E), NEW b \in B, NEW T, NEW W,
           Decoding(b, E[b], E[BlockEnd(b)], T, W), UNCHANGED file
    PROVE  Decoding(b, E[b], E[BlockEnd(b)], T, W)'
<1>1. /\ IInv' /\ Len(out) < till
      /\ UNCHANGED <<data, BLOCK, file, input, fate, next, fs, stream, first, till>>
  BY DecodeInv DEF DecodeSymbol
<1>2. PICK block \in Seq(Symbols) :
        /\ block = BlockAt(b) /\ Len(block) = BlockEnd(b) - b /\ b \in Nat /\ b < N /\ N \in Nat
        /\ BLOCK \in Nat \ {0} /\ b % BLOCK = 0 /\ BlockEnd(b) \in b + 1 .. N
        /\ \A k \in 1 .. Len(block) : block[k] = data[b + k]
  <2>1. BlockAt(b) \in Seq(Symbols)
    BY StoredIs
  <2> QED
    BY <2>1, StoredIs
<1>3. PICK p, e : p = E[b] /\ e = E[BlockEnd(b)]
  OBVIOUS
<1>4. /\ first = b /\ till = BlockEnd(b) /\ b <= Len(out) /\ \A k \in 1 .. b : out[k] = data[k]
      /\ Codes(block, fs) /\ Trace(block, fs, 0, T, W)
      /\ InFile(file, p, fs, StreamOf(T[0], W[0]))
      /\ e = p + HEADER + Len(StreamOf(T[0], W[0]))
      /\ Same(p) /\ Read(p)
      /\ InStep(b, T, W)
  BY <1>2, <1>3 DEF Decoding
<1>5. /\ x \in States /\ x' \in States /\ out \in Seq(Symbols) /\ out' \in Seq(Symbols)
      /\ pos \in Nat /\ pos' \in Nat /\ stream \in Seq(Digit)
  BY <1>1 DEF IInv, DecoderInv, States, Digit
<1>6. PICK lane \in Lanes, s \in Symbols, v \in State, u \in Nat, w \in 0 .. WORD - 1 :
        /\ lane = DecodeLane /\ v = x[lane] /\ w = NextWord
        /\ v % M \in Start(fs, s) .. Start(fs, s + 1) - 1
        /\ s = SymbolOf(fs, v) /\ u = LeftOf(fs, v, s)
        /\ out' = Append(out, s)
        /\ x' = [x EXCEPT ![lane] = IF u < L THEN u * WORD + w ELSE u]
        /\ pos' = IF u < L THEN pos + 2 ELSE pos
  BY DecodeIs DEF SymbolOf, LeftOf
<1>7. PICK i \in 0 .. Len(block) - 1 : i = Len(out) - b /\ i + 1 = Len(out') - b
  <2>1. Len(out) \in Nat /\ Len(out') = Len(out) + 1
    BY <1>5, <1>6
  <2>2. till = BlockEnd(b) /\ b <= Len(out) /\ Len(out) < till
    BY <1>1, <1>4
  <2>3. PICK e2 \in Nat, n \in Nat : e2 = BlockEnd(b) /\ n = Len(out)
    BY <2>1, <1>2
  <2>4. Len(block) = e2 - b /\ b \in Nat /\ b <= n /\ n < e2
    BY <2>2, <2>3, <1>2
  <2>5. n - b \in 0 .. Len(block) - 1 /\ n - b + 1 = n + 1 - b
    BY <2>4
  <2>6. PICK i \in 0 .. Len(block) - 1 : i = n - b /\ i + 1 = n + 1 - b
    BY <2>5
  <2>7. n = Len(out) /\ n + 1 = Len(out')
    BY <2>1, <2>3
  <2>8. i = Len(out) - b /\ i + 1 = Len(out') - b
    BY <2>4, <2>6, <2>7
  <2> QED
    BY <2>8
<1>8. lane = i % LANES
  BY <1>4, <1>6, <1>7 DEF DecodeLane
<1>9. PICK n \in Nat :
       /\ n = Len(out) /\ n = b + i /\ n + 1 = b + i + 1 /\ Len(out') = n + 1
       /\ out'[n + 1] = s /\ \A j \in 1 .. n : out'[j] = out[j]
  <2>1. out' = Append(out, s) /\ s \in Symbols
    BY <1>6
  <2>2. /\ Len(out') = Len(out) + 1 /\ out'[Len(out) + 1] = s
        /\ \A j \in 1 .. Len(out) : out'[j] = out[j]
    BY <2>1, <1>5, AppendProperties
  <2>3. Len(out) \in Nat /\ Len(out) = b + i /\ Len(out) + 1 = b + i + 1
    BY <1>2, <1>5, <1>7
  <2> QED
    BY <2>2, <2>3
<1>13. InStep(b, T, W)'
  <2>1. PICK S \in Seq(Digit) : S = StreamOf(T[0], W[0])
    BY <1>4, TraceStream
  <2> SUFFICES ASSUME Agrees(stream, S)
               PROVE  \/ Len(stream) < Len(S) /\ pos' > Len(stream)
                      \/ Good' /\ x' = T[i + 1] /\ pos' = PosOf(W, i + 1)
    BY <2>1, <1>1, <1>7 DEF InStep
  <2>2. \/ Len(stream) < Len(S) /\ pos > Len(stream)
        \/ Good /\ x = T[i] /\ pos = PosOf(W, i)
    BY <2>1, <1>4, <1>7 DEF InStep
  <2>3. CASE Len(stream) < Len(S) /\ pos > Len(stream)
    <3>1. pos' >= pos /\ Len(stream) \in Nat
      BY <1>5, <1>6
    <3> QED
      BY <2>3, <3>1, <1>5
  <2>4. CASE Good /\ x = T[i] /\ pos = PosOf(W, i)
    <3>1. PICK z, s2, u2 : Follows(block, fs, T, W, i, lane, v, z, s2, u2)
      <4>1. PICK lane2 \in Lanes, v2 \in State, z \in State, s2 \in Symbols, u2 \in Nat :
              Follows(block, fs, T, W, i, lane2, v2, z, s2, u2)
        BY <1>4, FollowsStep
      <4>2. lane2 = lane /\ v2 = v
        BY <4>1, <2>4, <1>6, <1>8 DEF Follows
      <4> QED
        BY <4>1, <4>2
    <3>2. s2 = s /\ u2 = u /\ s = block[i + 1]
      BY <3>1, <1>6 DEF Follows
    <3>3. Follows(block, fs, T, W, i, lane, v, z, s, u)
      BY <3>1, <3>2
    <3>4. \/ Len(stream) < Len(S) /\ u < L /\ pos + 2 > Len(stream)
          \/ /\ [T[i] EXCEPT ![lane] = Refilled(u, w)] = T[i + 1]
             /\ PosOf(W, i + 1) = IF u < L THEN pos + 2 ELSE pos
      <4>1. w = NextOf(stream, pos)
        BY <1>6 DEF NextWord, NextOf
      <4>2. Trace(block, fs, 0, T, W)
        BY <1>4
      <4>3. PICK R \in Seq(Digit), q \in Nat : R = stream /\ q = pos
        BY <1>5
      <4>4. q = PosOf(W, i) /\ Agrees(R, S) /\ w = NextOf(R, q)
        BY <4>1, <4>3, <2>4
      <4>5. \/ Len(R) < Len(S) /\ u < L /\ q + 2 > Len(R)
            \/ /\ [T[i] EXCEPT ![lane] = Refilled(u, w)] = T[i + 1]
               /\ PosOf(W, i + 1) = IF u < L THEN q + 2 ELSE q
        BY <3>3, <4>2, <4>4, <2>1, StepFollows
      <4>6. \/ Len(stream) < Len(S) /\ u < L /\ pos + 2 > Len(stream)
            \/ /\ [T[i] EXCEPT ![lane] = Refilled(u, w)] = T[i + 1]
               /\ PosOf(W, i + 1) = IF u < L THEN pos + 2 ELSE pos
        BY <4>3, <4>5
      <4> QED
        BY <4>6
    <3>5. Good'
      <4>1. n + 1 <= N /\ n + 1 = b + (i + 1)
        <5>1. PICK e2 \in Nat : e2 = till /\ e2 <= N /\ n < e2
          <6>1. till = BlockEnd(b) /\ n < till
            BY <1>1, <1>4, <1>9
          <6>2. BlockEnd(b) \in Nat /\ BlockEnd(b) <= N
            BY <1>2
          <6> QED
            BY <6>1, <6>2
        <5>2. b \in Nat /\ N \in Nat /\ n = b + i
          BY <1>2, <1>9
        <5> QED
          BY <5>1, <5>2
      <4>2. /\ out'[n + 1] = s /\ \A j \in 1 .. n : out'[j] = out[j]
            /\ Len(out') = n + 1
        BY <1>9
      <4>3. data[n + 1] = s
        <5>1. i + 1 \in 1 .. Len(block)
          BY <1>7
        <5> QED
          BY <5>1, <4>1, <3>2, <1>2
      <4>4. \A j \in 1 .. n : out[j] = data[j]
        BY <2>4, <1>9 DEF Good
      <4>5. N' = N
        BY <1>1 DEF N
      <4>6. \A j \in 1 .. n + 1 : out'[j] = data[j]
        BY <4>2, <4>3, <4>4
      <4> QED
        BY <1>1, <4>1, <4>2, <4>5, <4>6 DEF Good
    <3> QED
      BY <2>4, <3>4, <3>5, <1>6 DEF Refilled
  <2> QED
    BY <2>2, <2>3, <2>4
<1>14. BlockEnd(b)' = BlockEnd(b) /\ BlockAt(b)' = BlockAt(b) /\ HEADER' = HEADER
  BY <1>1 DEF BlockAt, BlockEnd, N, HEADER
<1>15. Same(p)' /\ Read(p)'
  BY <1>1, <1>4, <1>14 DEF Same, Read
<1>16. b <= Len(out') /\ \A k \in 1 .. b : out'[k] = data'[k]
  <2>1. b <= n /\ b <= n + 1
    BY <1>2, <1>9
  <2>2. Len(out') = n + 1 /\ \A j \in 1 .. n : out'[j] = out[j]
    BY <1>9
  <2>3. \A k \in 1 .. b : k \in 1 .. n
    BY <2>1, <1>2
  <2> QED
    BY <2>1, <2>2, <2>3, <1>1, <1>4
<1>17. /\ Codes(BlockAt(b)', fs') /\ Trace(BlockAt(b)', fs', 0, T, W)
       /\ InFile(file', p, fs', StreamOf(T[0], W[0]))
       /\ e = p + HEADER + Len(StreamOf(T[0], W[0]))
  BY <1>1, <1>2, <1>4, <1>14
<1>18. Decoding(b, p, e, T, W)'
  BY <1>1, <1>4, <1>7, <1>13, <1>14, <1>15, <1>16, <1>17 DEF Decoding
<1> QED
  BY <1>3, <1>14, <1>18

LEMMA DecodeTrip == ASSUME TripInv, DecodeSymbol PROVE TripInv'
<1>1. PICK B, E : FileInv(B, E) /\ (~Compressing => DecodingInv(B, E))
  BY DEF TripInv
<1>2. /\ IInv /\ EncodingInv /\ pc = "decode" /\ pc' = "decode" /\ Len(out) < till
      /\ UNCHANGED <<data, BLOCK, encoder, input, fate, till>>
  BY DEF TripInv, DecodeSymbol
<1>3. IInv' /\ ~Compressing /\ UNCHANGED file /\ N' = N
  BY <1>2, DecodeInv DEF Compressing, encoder, N
<1>4. /\ Arrived /\ Arrived' /\ Len(out) <= N /\ till \in Nat /\ till <= N
      /\ \/ Lost
         \/ \E b \in B : \E T, W : Decoding(b, E[b], E[BlockEnd(b)], T, W)
  BY <1>1, <1>2, <1>3, ArrivedKept DEF DecodingInv
<1>5. PICK n \in Nat :
        /\ n = Len(out) /\ Len(out') = n + 1 /\ \A j \in 1 .. n : out'[j] = out[j]
        /\ n < till /\ n + 1 <= till' /\ till' <= N' /\ n <= N /\ n + 1 <= N'
  <2>1. PICK s \in Symbols : out' = Append(out, s)
    BY <1>2, DecodeIs
  <2>2. out \in Seq(Symbols) /\ N \in Nat
    BY <1>2, RansAssumption DEF IInv, EncoderInv, DecoderInv, N
  <2>3. Len(out') = Len(out) + 1 /\ \A j \in 1 .. Len(out) : out'[j] = out[j]
    BY <2>1, <2>2, AppendProperties
  <2> QED
    BY <2>2, <2>3, <1>2, <1>3, <1>4
<1>6. CASE Lost
  <2>1. Lost'
    BY <1>2, <1>6 DEF Lost
  <2> QED
    BY <2>1, <1>1, <1>2, <1>3, <1>4, <1>5, RestTrip DEF DecodingInv
<1>7. ASSUME NEW b \in B, NEW T, NEW W,
             Decoding(b, E[b], E[BlockEnd(b)], T, W)
      PROVE  TripInv'
  <2>1. Decoding(b, E[b], E[BlockEnd(b)], T, W)'
    BY <1>1, <1>2, <1>3, <1>7, DecodeDecodes
  <2>2. (\E c \in B : \E T2, W2 : Decoding(c, E[c], E[BlockEnd(c)], T2, W2))'
    BY <2>1
  <2> QED
    BY <2>2, <1>1, <1>2, <1>3, <1>4, <1>5, RestTrip DEF DecodingInv
<1> QED
  BY <1>4, <1>6, <1>7

\* A block is decoded: where the decoder is if its bytes agree with the
\* encoder's.
LEMMA EndIs ==
    ASSUME IInv, NEW B, NEW E, FileInv(B, E), NEW b \in B, NEW T, NEW W,
           Decoding(b, E[b], E[BlockEnd(b)], T, W), Len(out) = till
    PROVE  \E S \in Seq(Digit), p \in Nat :
              /\ p = E[b] /\ E[Len(out)] = p + HEADER + Len(S) /\ Len(out) \in B \cup {begin}
              /\ InFile(file, p, fs, S) /\ Same(p) /\ Read(p)
              /\ Agrees(stream, S) =>
                    \/ Len(stream) < Len(S) /\ pos > Len(stream)
                    \/ Good /\ x = Fresh /\ pos = Len(S)
<1>1. PICK block \in Seq(Symbols) :
        /\ block = BlockAt(b) /\ Len(block) = BlockEnd(b) - b /\ b \in Nat
        /\ BlockEnd(b) \in b + 1 .. N /\ N \in Nat /\ BlockEnd(b) \in B \cup {begin}
        /\ \A k \in 1 .. Len(block) : block[k] = data[b + k]
  <2>1. BlockAt(b) \in Seq(Symbols)
    BY StoredIs
  <2> QED
    BY <2>1, StoredIs
<1>2. PICK p \in Nat : p = E[b]
  BY StoredIs
<1>3. PICK e : e = E[BlockEnd(b)]
  OBVIOUS
<1>4. PICK len \in Nat : len = Len(block) /\ len = Len(out) - b /\ b + len = Len(out)
  BY <1>1 DEF Decoding
<1>5. /\ till = BlockEnd(b) /\ \A k \in 1 .. b : out[k] = data[k]
      /\ Trace(block, fs, 0, T, W)
      /\ InFile(file, p, fs, StreamOf(T[0], W[0]))
      /\ e = p + HEADER + Len(StreamOf(T[0], W[0]))
      /\ Same(p) /\ Read(p)
      /\ InStep(b, T, W)
  BY <1>1, <1>2, <1>3, <1>4 DEF Decoding
<1>6. PICK S \in Seq(Digit), m \in Nat :
        S = StreamOf(T[0], W[0]) /\ m = Len(W[0]) /\ Len(S) = 4 * LANES + 2 * m
  <2>1. Trace(block, fs, 0, T, W)
    BY <1>5
  <2>2. /\ StreamOf(T[0], W[0]) \in Seq(Digit) /\ Len(W[0]) \in Nat
        /\ Len(StreamOf(T[0], W[0])) = 4 * LANES + 2 * Len(W[0])
    BY <2>1, TraceStream
  <2> QED
    BY <2>2
<1>7. T[len] = Fresh /\ PosOf(W, len) = Len(S)
  <2>1. T[len] = Fresh /\ W[len] = <<>>
    BY <1>4, <1>5 DEF Trace
  <2>2. PosOf(W, len) = 4 * LANES + 2 * (m - 0)
    BY <2>1, <1>6 DEF PosOf
  <2>3. m - 0 = m
    OBVIOUS
  <2> QED
    BY <2>1, <2>2, <2>3, <1>6
<1>8. Agrees(stream, S) =>
         \/ Len(stream) < Len(S) /\ pos > Len(stream)
         \/ Good /\ x = Fresh /\ pos = Len(S)
  BY <1>4, <1>5, <1>6, <1>7 DEF InStep
<1>9. Len(out) \in B \cup {begin} /\ E[Len(out)] = p + HEADER + Len(S)
  BY <1>1, <1>3, <1>5, <1>6
<1> QED
  BY <1>2, <1>5, <1>6, <1>8, <1>9

\* A block that is read with the bytes there were is in the file as it was.
LEMMA SameBlock ==
    ASSUME IInv, Arrived, ~Lost, NEW p \in Nat, NEW S \in Seq(Digit),
           InFile(file, p, fs, S), Same(p), Read(p), stream = S
    PROVE  Same(next) /\ next = p + HEADER + Len(S)
<1>1. /\ file \in Seq(Nat) /\ input \in Seq(Nat) /\ HEADER = SYMBOLS + 2 /\ LEN = SYMBOLS + 1
      /\ SYMBOLS \in Nat
  BY Bounds DEF HEADER, LEN, IInv, EncoderInv, DecoderInv
<1>2. PICK c \in Nat, m \in Nat, n \in Nat : c = Len(S) /\ m = Len(file) /\ n = Len(input)
  BY <1>1
<1>3. /\ next = p + HEADER + c /\ next <= n /\ p + HEADER + c <= m
      /\ \A s \in Symbols : input[p + 1 + s] = file[p + 1 + s]
      /\ input[p + LEN] = file[p + LEN]
      /\ \A i \in 1 .. p : input[i] = file[i]
  BY <1>2 DEF InFile, Read, Same
<1>4. ASSUME NEW i \in 1 .. next PROVE input[i] = file[i]
  <2>1. CASE i # LEN
    <3>1. i \in 1 .. Len(file) /\ i <= Len(input)
      BY <1>1, <1>2, <1>3
    <3> QED
      BY <2>1, <3>1 DEF Arrived, Lost
  <2>2. CASE i = LEN
    <3>1. CASE i <= p
      BY <3>1, <1>3
    <3>2. CASE p = 0
      BY <2>2, <3>2, <1>1, <1>3
    <3>3. CASE p \in 1 .. SYMBOLS
      <4>1. PICK s \in Symbols : p + 1 + s = LEN
        <5>1. SYMBOLS - p \in Symbols /\ p + 1 + (SYMBOLS - p) = LEN
          BY <3>3, <1>1 DEF Symbols
        <5> QED
          BY <5>1
      <4> QED
        BY <2>2, <4>1, <1>3
    <3> QED
      BY <2>2, <3>1, <3>2, <3>3, <1>1
  <2> QED
    BY <2>1, <2>2
<1>5. next <= Len(file) /\ next <= Len(input)
  BY <1>1, <1>2, <1>3
<1> QED
  BY <1>2, <1>3, <1>4, <1>5 DEF Same

\* A block that ends cleanly is the one that was written.
LEMMA CleanEnd ==
    ASSUME IInv, Arrived, NEW S \in Seq(Digit), NEW p \in Nat,
           InFile(file, p, fs, S), Same(p), Read(p), EndsCleanly,
           Agrees(stream, S) =>
              \/ Len(stream) < Len(S) /\ pos > Len(stream)
              \/ Good /\ x = Fresh /\ pos = Len(S)
    PROVE  \/ Lost
           \/ Good /\ Same(next) /\ next = p + HEADER + Len(S)
<1>1. pos = Len(stream) /\ x = Fresh /\ stream \in Seq(Digit)
  BY DEF EndsCleanly, Fresh, IInv, DecoderInv, Digit
<1>2. CASE Agrees(stream, S)
  <2>1. Good /\ Len(stream) = Len(S)
    BY <1>1, <1>2
  <2>2. stream = S
    BY <1>1, <1>2, <2>1, SeqEqual DEF Agrees
  <2> QED
    BY <2>1, <2>2, SameBlock
<1>3. CASE ~Agrees(stream, S)
  <2>1. PICK k \in 1 .. Len(stream) : k <= Len(S) /\ stream[k] # S[k]
    BY <1>3 DEF Agrees
  <2>2. /\ HEADER \in Nat /\ LEN \in Nat /\ LEN <= HEADER /\ file \in Seq(Nat)
        /\ input \in Seq(Nat)
    BY Bounds DEF HEADER, LEN, IInv, EncoderInv, DecoderInv
  <2>4. k \in 1 .. Len(S) /\ k \in Nat \ {0}
    BY <1>1, <2>1
  <2>5. PICK i \in Nat :
          /\ i = p + HEADER + k /\ i # LEN /\ i \in 1 .. Len(file) /\ i <= Len(input)
          /\ input[i] % BYTE = stream[k] /\ file[i] = S[k]
    <3>1. p + HEADER + Len(S) <= Len(file) /\ file[p + HEADER + k] = S[k]
      BY <2>4 DEF InFile
    <3>2. p + HEADER + Len(stream) <= Len(input) /\ input[p + HEADER + k] % BYTE = stream[k]
      BY <2>1 DEF Read
    <3>3. PICK h \in Nat, c \in Nat, d \in Nat, m \in Nat, n \in Nat :
            h = HEADER /\ c = Len(stream) /\ d = Len(S) /\ m = Len(file) /\ n = Len(input)
      <4>1. /\ HEADER \in Nat /\ Len(stream) \in Nat /\ Len(S) \in Nat /\ Len(file) \in Nat
            /\ Len(input) \in Nat
        BY <1>1, <2>2
      <4> QED
        BY <4>1, Zenon
    <3>4. p + h + d <= m /\ p + h + c <= n /\ k <= d /\ k <= c
      BY <2>1, <3>1, <3>2, <3>3
    <3>5. PICK i \in Nat : i = p + h + k
      BY <2>4
    <3>6. i \in 1 .. m /\ i <= n /\ i > h
      BY <2>4, <3>4, <3>5
    <3>7. i # LEN
      BY <2>2, <3>3, <3>6
    <3> QED
      BY <3>1, <3>2, <3>3, <3>5, <3>6, <3>7
  <2>6. PICK d \in Digit : d = S[k]
    BY <2>4, ElementOfSeq
  <2>7. d % BYTE = d
    BY DigitByte
  <2>8. input[i] # file[i]
    BY <2>1, <2>5, <2>6, <2>7, Zenon
  <2>9. fate = "changed"
    BY <2>5, <2>8 DEF Arrived
  <2> QED
    BY <2>9 DEF Lost
<1> QED
  BY <1>2, <1>3

\* The bytes of a block that arrived as it was written are those of the encoder.
LEMMA WholeAgrees ==
    ASSUME IInv, NEW S \in Seq(Digit), NEW p \in Nat, InFile(file, p, fs, S), Read(p), input = file
    PROVE  Agrees(stream, S) /\ Len(stream) = Len(S)
<1>1. Len(stream) = Len(S) /\ stream \in Seq(Digit)
  BY DEF InFile, Read, IInv, DecoderInv, Digit
<1>2. ASSUME NEW k \in 1 .. Len(stream), k <= Len(S) PROVE stream[k] = S[k]
  <2>1. k \in 1 .. Len(S)
    BY <1>1
  <2>2. PICK d \in Digit : d = S[k]
    BY <2>1, ElementOfSeq
  <2>3. file[p + HEADER + k] = d
    BY <2>1, <2>2 DEF InFile
  <2>4. file[p + HEADER + k] % BYTE = stream[k]
    BY DEF Read
  <2>5. d % BYTE = d
    BY DigitByte
  <2> QED
    BY <2>2, <2>3, <2>4, <2>5, Zenon
<1> QED
  BY <1>1, <1>2 DEF Agrees

\* Such a block ends cleanly.
LEMMA WholeEnd ==
    ASSUME IInv, NEW S \in Seq(Digit), NEW p \in Nat, InFile(file, p, fs, S), Read(p), input = file,
           Agrees(stream, S) =>
              \/ Len(stream) < Len(S) /\ pos > Len(stream)
              \/ Good /\ x = Fresh /\ pos = Len(S)
    PROVE  EndsCleanly
<1>1. Agrees(stream, S) /\ Len(stream) = Len(S)
  BY WholeAgrees
<1>2. x = Fresh /\ pos = Len(stream)
  BY <1>1 DEF IInv, DecoderInv
<1> QED
  BY <1>2 DEF EndsCleanly, Fresh

LEMMA DecodeEndTrip == ASSUME TripInv, DecodeEnd PROVE TripInv'
<1>1. PICK B, E : FileInv(B, E) /\ (~Compressing => DecodingInv(B, E))
  BY DEF TripInv
<1>2. /\ IInv /\ EncodingInv /\ pc = "decode" /\ Len(out) = till
      /\ pc' = IF EndsCleanly THEN "header" ELSE "corrupt"
      /\ UNCHANGED <<data, BLOCK, encoder, input, fate, decoder>>
  BY DEF TripInv, DecodeEnd
<1>3. IInv' /\ ~Compressing /\ UNCHANGED <<file, input, out, next>> /\ N' = N /\ begin = N
  BY <1>2, RestInv DEF Compressing, encoder, decoder, N, EncodingInv
<1>4. /\ Arrived /\ Arrived' /\ Len(out) <= N
      /\ \/ Lost
         \/ \E b \in B : \E T, W : Decoding(b, E[b], E[BlockEnd(b)], T, W)
  BY <1>1, <1>2, <1>3, ArrivedKept DEF DecodingInv
<1>5. (Lost' <=> Lost) /\ (Good' <=> Good) /\ (Same(next)' <=> Same(next))
  BY <1>2, <1>3 DEF Lost, Good, Same
<1>6. CASE Lost
  <2>1. fate' # "whole" /\ pc' \in {"header", "corrupt"}
    BY <1>2, <1>6 DEF Lost
  <2> QED
    BY <2>1, <1>1, <1>2, <1>3, <1>4, <1>5, <1>6, RestTrip DEF DecodingInv
<1>7. ASSUME NEW b \in B, NEW T, NEW W,
             Decoding(b, E[b], E[BlockEnd(b)], T, W)
      PROVE  TripInv'
  <2>1. PICK S \in Seq(Digit), p \in Nat :
          /\ p = E[b] /\ E[Len(out)] = p + HEADER + Len(S) /\ Len(out) \in B \cup {begin}
          /\ InFile(file, p, fs, S) /\ Same(p) /\ Read(p)
          /\ Agrees(stream, S) =>
                \/ Len(stream) < Len(S) /\ pos > Len(stream)
                \/ Good /\ x = Fresh /\ pos = Len(S)
    BY <1>1, <1>2, <1>7, EndIs
  <2>2. CASE EndsCleanly
    <3>1. Lost \/ (Good /\ Same(next) /\ next = p + HEADER + Len(S))
      BY <1>2, <1>4, <2>1, <2>2, CleanEnd
    <3>2. Lost' \/ (Good /\ Len(out) \in B \cup {N} /\ next = E[Len(out)] /\ Same(next))'
      BY <3>1, <2>1, <1>3, <1>5
    <3> QED
      BY <2>2, <3>2, <1>1, <1>2, <1>3, <1>4, RestTrip DEF DecodingInv
  <2>3. CASE ~EndsCleanly
    <3>1. fate # "whole"
      <4> SUFFICES ASSUME fate = "whole" PROVE FALSE
        OBVIOUS
      <4>1. input = file
        BY <1>4 DEF Arrived
      <4> QED
        BY <4>1, <1>2, <2>1, <2>3, WholeEnd
    <3> QED
      BY <2>3, <3>1, <1>1, <1>2, <1>3, <1>4, RestTrip DEF DecodingInv
  <2> QED
    BY <2>2, <2>3
<1> QED
  BY <1>4, <1>6, <1>7

LEMMA EndTrip == ASSUME TripInv, DecompressEnd PROVE TripInv'
<1>1. PICK B, E : FileInv(B, E) /\ (~Compressing => DecodingInv(B, E))
  BY DEF TripInv
<1>2. /\ IInv /\ EncodingInv /\ pc = "header" /\ Len(out) = N
      /\ pc' = IF next = Len(input) THEN "ok" ELSE "corrupt"
      /\ UNCHANGED <<data, BLOCK, encoder, input, fate, decoder>>
  BY DEF TripInv, DecompressEnd
<1>3. IInv' /\ ~Compressing /\ UNCHANGED <<file, out>> /\ N' = N /\ begin = N
  BY <1>2, RestInv DEF Compressing, encoder, decoder, N, EncodingInv
<1>4. /\ Arrived /\ Arrived' /\ Len(out) <= N
      /\ \/ Lost
         \/ Good /\ Len(out) \in B \cup {N} /\ next = E[Len(out)] /\ Same(next)
  BY <1>1, <1>2, <1>3, ArrivedKept DEF DecodingInv
<1>5. (Lost' <=> Lost) /\ (Good' <=> Good)
  BY <1>2, <1>3 DEF Lost, Good
<1>6. CASE Lost
  <2>1. fate' # "whole" /\ pc' \in {"ok", "corrupt"}
    BY <1>2, <1>6 DEF Lost
  <2> QED
    BY <2>1, <1>1, <1>2, <1>3, <1>4, <1>5, <1>6, RestTrip DEF DecodingInv
<1>7. CASE Good /\ Len(out) \in B \cup {N} /\ next = E[Len(out)] /\ Same(next)
  <2>1. next = Len(file) /\ file \in Seq(Nat) /\ input \in Seq(Nat)
    BY <1>1, <1>2, <1>3, <1>7 DEF FileInv, IInv, EncoderInv, DecoderInv
  <2>2. next = Len(input) <=> input = file
    <3>1. ASSUME next = Len(input) PROVE input = file
      <4>1. Len(input) = Len(file) /\ \A i \in 1 .. Len(input) : input[i] = file[i]
        BY <2>1, <3>1, <1>7 DEF Same
      <4> QED
        BY <4>1, <2>1, SeqEqual
    <3> QED
      BY <3>1, <2>1
  <2>3. fate = "whole" <=> next = Len(input)
    BY <2>2, <1>4 DEF Arrived
  <2> QED
    BY <2>3, <1>1, <1>2, <1>3, <1>4, <1>5, <1>7, RestTrip DEF DecodingInv
<1> QED
  BY <1>4, <1>6, <1>7

-----------------------------------------------------------------------------
(* The invariant, and what follows from it.                                 *)

LEMMA DecodingKept ==
    ASSUME NEW b, NEW p, NEW e, NEW T, NEW W, Decoding(b, p, e, T, W),
           UNCHANGED <<data, BLOCK, file, input, next, fs, stream, first, till, x, pos, out>>
    PROVE  Decoding(b, p, e, T, W)'
<1>1. HEADER' = HEADER /\ LEN' = LEN /\ N' = N
  BY DEF HEADER, LEN, N
<1>2. BlockEnd(b)' = BlockEnd(b)
  BY <1>1 DEF BlockEnd
<1>3. BlockAt(b)' = BlockAt(b)
  BY <1>2 DEF BlockAt
<1>4. Same(p)' /\ Read(p)'
  BY <1>1 DEF Decoding, Same, Read
<1>5. InStep(b, T, W)'
  <2>1. Good' <=> Good
    BY <1>1 DEF Good
  <2> QED
    BY <2>1 DEF Decoding, InStep
<1> QED
  BY <1>1, <1>2, <1>3, <1>4, <1>5 DEF Decoding

LEMMA StutterTrip == ASSUME TripInv, UNCHANGED vars PROVE TripInv'
<1>1. /\ UNCHANGED <<data, BLOCK, pc, begin, todo, states, words, file, input, fate, freq>>
      /\ UNCHANGED <<next, fs, stream, first, till, x, pos, out>>
  BY DEF vars, encoder, decoder, freqVars
<1>2. PICK B, E : FileInv(B, E) /\ (~Compressing => DecodingInv(B, E))
  BY DEF TripInv
<1>3. IInv' /\ FileInv(B, E)'
  BY <1>1, <1>2, RestInv, FileKept DEF TripInv
<1>4. N' = N /\ (Compressing' <=> Compressing) /\ Fresh' = Fresh
  BY <1>1 DEF N, Compressing, Fresh, L, WORD, Lanes
<1>5. EncodingInv'
  <2>1. Block' = Block
    BY <1>1, <1>4 DEF Block, BlockEnd
  <2> QED
    BY <1>1, <1>4, <2>1 DEF TripInv, EncodingInv
<1>6. ASSUME DecodingInv(B, E) PROVE DecodingInv(B, E)'
  <2>1. Arrived' /\ (Lost' <=> Lost) /\ (Good' <=> Good) /\ (Same(next)' <=> Same(next))
    BY <1>1, <1>4, <1>6, ArrivedKept DEF DecodingInv, Lost, Good, Same
  <2>2. ASSUME NEW b \in B, NEW T, NEW W,
               Decoding(b, E[b], E[BlockEnd(b)], T, W)
        PROVE  (\E c \in B : \E T2, W2 : Decoding(c, E[c], E[BlockEnd(c)], T2, W2))'
    <3>1. PICK p, e : p = E[b] /\ e = E[BlockEnd(b)]
      OBVIOUS
    <3>2. Decoding(b, p, e, T, W)'
      BY <3>1, <2>2, <1>1, DecodingKept
    <3>3. BlockEnd(b)' = BlockEnd(b)
      BY <1>1, <1>4 DEF BlockEnd
    <3> QED
      BY <3>1, <3>2, <3>3
  <2> QED
    BY <1>1, <1>4, <1>6, <2>1, <2>2 DEF DecodingInv
<1> QED
  BY <1>2, <1>3, <1>4, <1>5, <1>6 DEF TripInv

\* One step keeps the invariant.
LEMMA TripStep == ASSUME TripInv, [Next]_vars PROVE TripInv'
  BY NormalizeTrip, EncodeTrip, WriteTrip, ArriveTrip, ReadTrip, RejectTrip, DecodeTrip,
     DecodeEndTrip, EndTrip, StutterTrip
     DEF Next, Compress, Decompress

LEMMA TripInvariance == Spec => []TripInv
  BY InitTrip, TripStep, PTL DEF Spec

\* "This catches truncation": a file that lost its end, or a block of it, is
\* not accepted, however its length was adjusted.
THEOREM CutAlwaysRefused == Spec => []CutIsNoticed
<1>1. TripInv => CutIsNoticed
  BY DEF TripInv, Compressing, DecodingInv, Lost, CutIsNoticed
<1> QED
  BY <1>1, TripInvariance, PTL

-----------------------------------------------------------------------------
(* What decodes to the symbols of a block is what was written of it.        *)

\* What was written is what an encoder makes of the block at its start.
WrittenInv ==
    \A w \in written :
        /\ w.start \in 0 .. N
        /\ \E T, W : /\ Trace(BlockAt(w.start), w.freq, 0, T, W)
                     /\ w.stream = StreamOf(T[0], W[0])

\* The decoder has come here from the bytes of the block.
Ran ==
    \E X, Q : /\ Back(stream, fs, out, first, Len(out) - first, X, Q)
              /\ X[Len(out) - first] = x /\ Q[Len(out) - first] = pos

\* It is at a block, or a block has ended as it should.
RunInv ==
    /\ pc = "decode" => Ran /\ till = BlockEnd(first)
    /\ pc \in {"header", "ok"} /\ out # <<>> =>
          Ran /\ Len(out) = BlockEnd(first) /\ EndsCleanly

StreamInv == TripInv /\ WrittenInv /\ RunInv

LEMMA InitStream == Init => StreamInv
<1> SUFFICES ASSUME Init PROVE StreamInv
  OBVIOUS
<1>1. written = {} /\ pc \in {"stored", "normalize"}
  BY DEF Init
<1> QED
  BY <1>1, InitTrip DEF StreamInv, WrittenInv, RunInv

LEMMA WrittenKept == ASSUME WrittenInv, UNCHANGED <<data, BLOCK, written>> PROVE WrittenInv'
<1>1. N' = N
  BY DEF N
<1>2. \A b : BlockEnd(b)' = BlockEnd(b)
  BY <1>1 DEF BlockEnd
<1>3. \A b : BlockAt(b)' = BlockAt(b)
  BY <1>2 DEF BlockAt
<1> SUFFICES ASSUME NEW w \in written
             PROVE  /\ w.start \in 0 .. N
                    /\ \E T, W : /\ Trace(BlockAt(w.start), w.freq, 0, T, W)
                                 /\ w.stream = StreamOf(T[0], W[0])
  BY <1>1, <1>3 DEF WrittenInv
<1> QED
  BY DEF WrittenInv

\* A block is written as its trace says.
LEMMA WriteStream == ASSUME TripInv, WrittenInv, WriteBlock PROVE WrittenInv'
<1>1. /\ UNCHANGED <<data, BLOCK>> /\ IInv /\ EncodingInv
      /\ written' = written \cup {[start |-> begin, freq |-> freq, stream |-> Stream]}
  BY DEF WriteBlock, TripInv
<1>2. N' = N /\ begin \in 0 .. N
  BY <1>1 DEF N, IInv, EncoderInv
<1>3. \A b : BlockEnd(b)' = BlockEnd(b)
  BY <1>1, <1>2 DEF BlockEnd
<1>4. \A b : BlockAt(b)' = BlockAt(b)
  BY <1>1, <1>3 DEF BlockAt
<1> SUFFICES ASSUME NEW w \in written'
             PROVE  /\ w.start \in 0 .. N
                    /\ \E T, W : /\ Trace(BlockAt(w.start), w.freq, 0, T, W)
                                 /\ w.stream = StreamOf(T[0], W[0])
  BY <1>2, <1>4 DEF WrittenInv
<1>5. CASE w \in written
  BY <1>5 DEF WrittenInv
<1>6. CASE w = [start |-> begin, freq |-> freq, stream |-> Stream]
  <2>1. w.start = begin /\ w.freq = freq /\ w.stream = Stream
    BY <1>6
  <2>2. PICK T, W : Trace(Block, freq, 0, T, W) /\ Stream = StreamOf(T[0], W[0])
    BY <1>1, BlockTraced
  <2>3. Block = BlockAt(begin)
    BY DEF Block, BlockAt
  <2> QED
    BY <2>1, <2>2, <2>3, <1>2
<1> QED
  BY <1>1, <1>5, <1>6

\* A block is read: the decoder is at its first state.
LEMMA ReadRan == ASSUME IInv, ReadBlock PROVE Ran'
<1>1. PICK S \in Seq(Digit) : stream' = S /\ x' = [l \in Lanes |-> StateAt(S, 4 * l)]
  BY ReadIs
<1>2. first' = Len(out) /\ out' = out /\ pos' = 4 * LANES
  BY DEF ReadBlock
<1>3. x' \in States
  BY ReadInv DEF IInv, DecoderInv, States
<1>4. PICK c \in Nat, b \in Nat : c = 4 * LANES /\ b = Len(out)
  <2>1. out \in Seq(Symbols)
    BY DEF IInv, DecoderInv
  <2>2. Len(out) \in Nat /\ LANES \in Nat
    BY <2>1, Bounds
  <2>3. 4 * LANES \in Nat
    BY <2>2
  <2> QED
    BY <2>2, <2>3
<1>5. PICK X, Q : X = [k \in 0 .. 0 |-> x'] /\ Q = [k \in 0 .. 0 |-> c]
  OBVIOUS
<1>6. X \in [0 .. 0 -> States] /\ Q \in [0 .. 0 -> Nat] /\ X[0] = x' /\ Q[0] = c
  BY <1>3, <1>5
<1>7. 0 .. 0 - 1 = {}
  OBVIOUS
<1>8. Back(stream', fs', out', b, 0, X, Q)
  BY <1>1, <1>4, <1>6, <1>7 DEF Back
<1>9. first' = b /\ Len(out') - first' = 0 /\ pos' = c
  BY <1>2, <1>4
<1> QED
  BY <1>6, <1>8, <1>9 DEF Ran

\* A symbol is decoded: the decoder goes one step on.
LEMMA DecodeRan == ASSUME IInv, DecodeSymbol, Ran PROVE Ran'
<1>1. /\ IInv' /\ UNCHANGED <<fs, stream, first>>
      /\ x \in States /\ x' \in States /\ out \in Seq(Symbols) /\ out' \in Seq(Symbols)
      /\ pos \in Nat /\ pos' \in Nat /\ stream \in Seq(Digit) /\ first \in 0 .. Len(out)
  <2>1. IInv'
    BY DecodeInv
  <2> QED
    BY <2>1 DEF DecodeSymbol, IInv, DecoderInv, States, Digit
<1>2. PICK b \in Nat, n \in Nat, i \in Nat : b = first /\ n = Len(out) /\ i = n - b /\ n = b + i
  BY <1>1
<1>3. PICK lane \in Lanes, s \in Symbols, v \in State, u \in Nat, w \in 0 .. WORD - 1 :
        /\ lane = DecodeLane /\ v = x[lane] /\ w = NextWord
        /\ v % M \in Start(fs, s) .. Start(fs, s + 1) - 1
        /\ s = SymbolOf(fs, v) /\ u = LeftOf(fs, v, s)
        /\ out' = Append(out, s)
        /\ x' = [x EXCEPT ![lane] = IF u < L THEN u * WORD + w ELSE u]
        /\ pos' = IF u < L THEN pos + 2 ELSE pos
  BY DecodeIs DEF SymbolOf, LeftOf
<1>4. PICK X, Q : Back(stream, fs, out, b, i, X, Q) /\ X[i] = x /\ Q[i] = pos
  BY <1>2 DEF Ran
<1>5. lane = i % LANES
  BY <1>2, <1>3 DEF DecodeLane
<1>6. Len(out') = n + 1 /\ out'[n + 1] = s /\ \A j \in 1 .. n : out'[j] = out[j]
  <2>1. out' = Append(out, s) /\ s \in Symbols /\ out \in Seq(Symbols)
    BY <1>1, <1>3
  <2>2. /\ Len(out') = Len(out) + 1 /\ out'[Len(out) + 1] = s
        /\ \A j \in 1 .. Len(out) : out'[j] = out[j]
    BY <2>1, AppendProperties
  <2> QED
    BY <2>2, <1>2
<1>7. BackStep(stream, fs, s, lane, x, pos, x', pos')
  <2>1. fs \in Freqs /\ Total(fs) = M
    BY DEF IInv, DecoderInv, DecodeSymbol
  <2>2. u = fs[s] * (v \div M) + (v % M) - Start(fs, s)
    BY <1>3 DEF LeftOf
  <2>3. pos + 2 <= Len(stream) => w = WordAt(stream, pos)
    BY <1>3 DEF NextWord
  <2>4. PICK r : r = IF u < L THEN pos + 2 ELSE pos
    OBVIOUS
  <2>5. BackStep(stream, fs, s, lane, x, pos, x', r)
    BY <1>1, <1>3, <2>1, <2>2, <2>3, <2>4, BackIs
  <2> QED
    BY <1>3, <2>4, <2>5
<1>8. PICK X2, Q2 : /\ X2 = [k \in 0 .. i + 1 |-> IF k = i + 1 THEN x' ELSE X[k]]
                    /\ Q2 = [k \in 0 .. i + 1 |-> IF k = i + 1 THEN pos' ELSE Q[k]]
  OBVIOUS
<1>9. Back(stream, fs, out', b, i + 1, X2, Q2) /\ X2[i + 1] = x' /\ Q2[i + 1] = pos'
  <2>1. /\ X \in [0 .. i -> States] /\ Q \in [0 .. i -> Nat]
        /\ X[0] = [l \in Lanes |-> StateAt(stream, 4 * l)] /\ Q[0] = 4 * LANES
        /\ \A k \in 0 .. i - 1 :
              BackStep(stream, fs, out[b + k + 1], k % LANES, X[k], Q[k], X[k + 1], Q[k + 1])
        /\ X[i] = x /\ Q[i] = pos
    BY <1>4 DEF Back
  <2>2. /\ X2 \in [0 .. i + 1 -> States] /\ Q2 \in [0 .. i + 1 -> Nat]
        /\ X2[i + 1] = x' /\ Q2[i + 1] = pos'
        /\ \A k \in 0 .. i : X2[k] = X[k] /\ Q2[k] = Q[k]
    BY <2>1, <1>1, <1>8
  <2>3. X2[0] = X[0] /\ Q2[0] = Q[0]
    BY <2>2
  <2>4. out'[b + i + 1] = s /\ \A k \in 0 .. i - 1 : out'[b + k + 1] = out[b + k + 1]
    <3>1. out'[b + i + 1] = s
      BY <1>2, <1>6, Zenon
    <3>2. \A k \in 0 .. i - 1 : b + k + 1 \in 1 .. n
      BY <1>2
    <3> QED
      BY <3>1, <3>2, <1>6
  <2>5. ASSUME NEW k \in 0 .. i
        PROVE  BackStep(stream, fs, out'[b + k + 1], k % LANES, X2[k], Q2[k], X2[k + 1], Q2[k + 1])
    <3>1. CASE k = i
      BY <3>1, <2>1, <2>2, <2>4, <1>5, <1>7, Zenon
    <3>2. CASE k \in 0 .. i - 1
      <4>1. k + 1 \in 0 .. i
        BY <3>2
      <4>2. X2[k] = X[k] /\ Q2[k] = Q[k] /\ X2[k + 1] = X[k + 1] /\ Q2[k + 1] = Q[k + 1]
        BY <4>1, <2>2
      <4>3. out'[b + k + 1] = out[b + k + 1]
        BY <3>2, <2>4
      <4> QED
        BY <3>2, <4>2, <4>3, <2>1
    <3> QED
      BY <3>1, <3>2
  <2>6. i + 1 - 1 = i
    OBVIOUS
  <2> QED
    BY <2>1, <2>2, <2>3, <2>5, <2>6 DEF Back
<1>10. stream' = stream /\ fs' = fs /\ first' = b /\ Len(out') - b = i + 1
  BY <1>1, <1>2, <1>6
<1> QED
  BY <1>9, <1>10 DEF Ran

LEMMA RanKept ==
    ASSUME UNCHANGED <<fs, stream, first, x, pos, out>>
    PROVE  Ran' <=> Ran
  BY DEF Ran

LEMMA CompressStream == ASSUME StreamInv, Compress PROVE StreamInv'
<1>1. TripInv /\ WrittenInv /\ TripInv'
  BY TripStep DEF StreamInv, Next
<1>2. WrittenInv'
  <2>1. CASE WriteBlock
    BY <1>1, <2>1, WriteStream
  <2>2. CASE NormalizeStep \/ NormalizeDone \/ OtherTable \/ EncodeSymbol
    <3>1. UNCHANGED <<data, BLOCK, written>>
      BY <2>2 DEF NormalizeStep, NormalizeDone, OtherTable, EncodeSymbol, encoder
    <3> QED
      BY <1>1, <3>1, WrittenKept
  <2> QED
    BY <2>1, <2>2 DEF Compress
<1>3. pc' \in {"normalize", "encode", "stored"}
  BY DEF Compress, NormalizeStep, NormalizeDone, OtherTable, EncodeSymbol, WriteBlock
<1>4. RunInv'
  BY <1>3 DEF RunInv
<1> QED
  BY <1>1, <1>2, <1>4 DEF StreamInv

LEMMA DecompressStream ==
    ASSUME StreamInv, Arrive \/ Decompress \/ UNCHANGED vars
    PROVE  StreamInv'
<1>1. /\ TripInv /\ WrittenInv /\ RunInv /\ TripInv' /\ IInv
      /\ UNCHANGED <<data, BLOCK, written>>
  <2>1. UNCHANGED <<data, BLOCK, written>>
    BY DEF Arrive, Decompress, ReadBlock, RejectBlock, DecodeSymbol, DecodeEnd, DecompressEnd,
           vars, encoder
  <2>2. [Next]_vars
    BY DEF Next
  <2> QED
    BY <2>1, <2>2, TripStep DEF StreamInv, TripInv
<1>2. WrittenInv' /\ N' = N
  BY <1>1, WrittenKept DEF N
<1>3. \A b : BlockEnd(b)' = BlockEnd(b)
  BY <1>1, <1>2 DEF BlockEnd
<1>4. RunInv'
  <2>1. CASE Arrive
    <3>1. pc = "stored" /\ pc' = "header" /\ out' = out
      BY <2>1 DEF Arrive, decoder
    <3>2. out = <<>>
      BY <1>1, <3>1 DEF TripInv, EncodingInv, Compressing
    <3> QED
      BY <3>1, <3>2 DEF RunInv
  <2>2. CASE ReadBlock
    <3>1. Ran' /\ pc' = "decode" /\ till' = BlockEnd(Len(out)) /\ first' = Len(out)
      BY <1>1, <2>2, ReadRan DEF ReadBlock
    <3>2. (till = BlockEnd(first))'
      BY <3>1, <1>1, <1>2 DEF BlockEnd
    <3> QED
      BY <3>1, <3>2 DEF RunInv
  <2>3. CASE DecodeSymbol
    <3>1. pc = "decode" /\ pc' = "decode" /\ till' = till /\ first' = first
      BY <2>3 DEF DecodeSymbol
    <3>2. Ran' /\ till = BlockEnd(first)
      BY <1>1, <2>3, <3>1, DecodeRan DEF RunInv
    <3> QED
      BY <3>1, <3>2, <1>1, <1>2 DEF RunInv, BlockEnd
  <2>4. CASE RejectBlock \/ DecodeEnd \/ DecompressEnd \/ UNCHANGED vars
    <3>1. UNCHANGED <<fs, stream, first, till, x, pos, out>>
      BY <2>4 DEF RejectBlock, DecodeEnd, DecompressEnd, vars, decoder
    <3>2. /\ Ran' <=> Ran
          /\ EndsCleanly' <=> EndsCleanly
          /\ BlockEnd(first)' = BlockEnd(first)
      BY <3>1, <1>1, <1>2, RanKept DEF EndsCleanly, BlockEnd, Lanes, L, WORD
    <3>3. \/ pc' = "corrupt" \/ pc' = pc
          \/ pc = "header" /\ pc' = "ok"
          \/ pc = "decode" /\ Len(out) = till /\ pc' = "header" /\ EndsCleanly
      BY <2>4 DEF RejectBlock, DecodeEnd, DecompressEnd, vars
    <3>4. CASE pc' = "corrupt"
      BY <3>4 DEF RunInv
    <3>5. CASE pc' = pc \/ (pc = "header" /\ pc' = "ok")
      BY <3>1, <3>2, <3>5, <1>1 DEF RunInv
    <3>6. CASE pc = "decode" /\ Len(out) = till /\ pc' = "header" /\ EndsCleanly
      BY <3>1, <3>2, <3>6, <1>1 DEF RunInv
    <3> QED
      BY <3>3, <3>4, <3>5, <3>6
  <2> QED
    BY <2>1, <2>2, <2>3, <2>4 DEF Decompress
<1> QED
  BY <1>1, <1>2, <1>4 DEF StreamInv

LEMMA StreamInvariance == Spec => []StreamInv
<1>1. StreamInv /\ [Next]_vars => StreamInv'
  BY CompressStream, DecompressStream DEF Next
<1> QED
  BY <1>1, InitStream, PTL DEF Spec

\* A block that has ended with the frequencies and the symbols of one that was
\* written: the decoder went through its trace.
LEMMA OneStream ==
    ASSUME StreamInv, pc \in {"header", "ok"}, out # <<>>, NEW w \in written,
           w.start = first, w.freq = fs, \A k \in first + 1 .. Len(out) : out[k] = data[k]
    PROVE  stream = w.stream
<1>1. /\ IInv /\ data \in Inputs /\ BLOCK \in BlockSizes
      /\ Ran /\ Len(out) = BlockEnd(first) /\ EndsCleanly
      /\ stream \in Seq(Digit) /\ x \in States
  BY DEF StreamInv, TripInv, RunInv, IInv, EncoderInv, DecoderInv, Digit, States
<1>2. PICK b \in 0 .. N : b = first
  BY DEF StreamInv, WrittenInv
<1>3. PICK T, W : Trace(BlockAt(b), fs, 0, T, W) /\ w.stream = StreamOf(T[0], W[0])
  BY <1>2 DEF StreamInv, WrittenInv
<1>4. PICK block : block = BlockAt(b)
  OBVIOUS
<1>5. /\ N \in Nat /\ BlockEnd(b) \in b .. N
      /\ block \in Seq(Symbols) /\ Len(block) = BlockEnd(b) - b
      /\ \A k \in 1 .. Len(block) : block[k] = data[b + k]
  BY <1>1, <1>4, BlockFrom DEF BlockAt
<1>6. b \in Nat /\ Len(block) = Len(out) - b /\ Len(out) \in Nat
  BY <1>1, <1>2, <1>5
<1>7. \A k \in 1 .. Len(block) : out[b + k] = block[k]
  <2> SUFFICES ASSUME NEW k \in 1 .. Len(block) PROVE out[b + k] = block[k]
    OBVIOUS
  <2>1. b + k \in b + 1 .. Len(out)
    BY <1>6
  <2> QED
    BY <2>1, <1>2, <1>5
<1>8. x = Fresh /\ pos = Len(stream)
  BY <1>1 DEF EndsCleanly, Fresh, States
<1>9. PICK X, Q : /\ Back(stream, fs, out, b, Len(block), X, Q)
                  /\ X[Len(block)] = x /\ Q[Len(block)] = pos
  BY <1>1, <1>2, <1>6 DEF Ran
<1>10. Ends(block, stream, fs, out, b, X, Q) /\ Trace(block, fs, 0, T, W)
  BY <1>3, <1>4, <1>7, <1>8, <1>9 DEF Ends
<1>11. stream = StreamOf(T[0], W[0])
  <2>1. block \in Seq(Symbols) /\ stream \in Seq(Digit) /\ b \in Nat
    BY <1>1, <1>5, <1>6
  <2> QED
    BY <2>1, <1>10, BackMeets
<1> QED
  BY <1>3, <1>11

(***************************************************************************)
(* "A clean decode ends there": whatever arrived for a block, if it has    *)
(* the frequencies the block was written with, ends with the states and    *)
(* the position it should and decodes to the symbols of the block, its     *)
(* bytes are those that were written, for any input, block size, alphabet, *)
(* frequencies and number of lanes.                                        *)
(***************************************************************************)
THEOREM OneStreamAlwaysPerTable == Spec => []OneStreamPerTable
<1>1. StreamInv => OneStreamPerTable
  BY OneStream DEF OneStreamPerTable
<1> QED
  BY <1>1, StreamInvariance, PTL

-----------------------------------------------------------------------------
(* rANS implements the promise of the trait Codec.                          *)

LEMMA RefineInit == Init => C!Init
  BY DEF Init, C!Init, Outcome

\* What is decoded is no longer than the input, and right if the file is whole.
OutRight ==
    /\ out \in Seq(Symbols) /\ Len(out) <= N /\ N \in Nat
    /\ pc = "ok" => Len(out) = N
    /\ pc = "corrupt" => fate # "whole"
    /\ fate = "whole" => Good

LEMMA OutIs == TripInv => OutRight
<1> SUFFICES ASSUME TripInv PROVE OutRight
  OBVIOUS
<1>1. PICK B, E : FileInv(B, E) /\ (~Compressing => DecodingInv(B, E))
  BY DEF TripInv
<1>2. IInv /\ EncodingInv /\ out \in Seq(Symbols) /\ N \in Nat
  BY RansAssumption DEF TripInv, IInv, EncoderInv, DecoderInv, N
<1>3. CASE Compressing
  <2>1. out = <<>> /\ Len(out) = 0 /\ pc # "ok" /\ pc # "corrupt"
    BY <1>2, <1>3 DEF EncodingInv, Compressing
  <2> QED
    BY <1>2, <2>1 DEF Good, OutRight
<1>4. CASE ~Compressing
  <2>1. DecodingInv(B, E)
    BY <1>1, <1>4
  <2>2. Len(out) <= N /\ (pc = "ok" => Len(out) = N) /\ (pc = "corrupt" => fate # "whole")
    BY <2>1 DEF DecodingInv
  <2>3. ASSUME fate = "whole" PROVE Good
    <3>1. ~Lost /\ input = file /\ pc \in {"header", "decode", "ok"}
      BY <1>2, <1>4, <2>1, <2>3 DEF Lost, DecodingInv, Arrived, EncodingInv, Compressing
    <3>2. CASE pc \in {"header", "ok"}
      BY <2>1, <3>1, <3>2 DEF DecodingInv
    <3>3. CASE pc = "decode"
      <4>1. PICK b \in B : \E T, W : Decoding(b, E[b], E[BlockEnd(b)], T, W)
        BY <2>1, <3>1, <3>3 DEF DecodingInv
      <4>2. PICK T, W : Decoding(b, E[b], E[BlockEnd(b)], T, W)
        BY <4>1
      <4>3. PICK p \in Nat : p = E[b]
        BY <1>1, <1>2, StoredIs
      <4>4. BlockAt(b) \in Seq(Symbols) /\ Trace(BlockAt(b), fs, 0, T, W)
        BY <1>1, <1>2, <4>2, StoredIs DEF Decoding
      <4>5. PICK S \in Seq(Digit) : S = StreamOf(T[0], W[0])
        BY <4>4, TraceStream
      <4>6. InFile(file, p, fs, S) /\ Read(p) /\ InStep(b, T, W)
        BY <4>2, <4>3, <4>5 DEF Decoding
      <4>7. Agrees(stream, S) /\ Len(stream) = Len(S) /\ Len(S) \in Nat
        BY <4>6, <1>2, <3>1, WholeAgrees
      <4> QED
        BY <4>5, <4>6, <4>7 DEF InStep
    <3> QED
      BY <3>1, <3>2, <3>3
  <2> QED
    BY <1>2, <2>2, <2>3 DEF OutRight
<1> QED
  BY <1>3, <1>4

\* Compressing is no concern of the promise.
LEMMA RefineStutter == ASSUME Compress \/ UNCHANGED vars PROVE UNCHANGED C!vars
<1>1. UNCHANGED <<data, fate, out>> /\ Outcome' = Outcome
  BY DEF Compress, NormalizeStep, NormalizeDone, OtherTable, EncodeSymbol, WriteBlock, vars,
         encoder, decoder, Outcome
<1> QED
  BY <1>1 DEF C!vars

LEMMA RefineArrive == ASSUME TripInv, TripInv', Arrive PROVE C!Produce
<1>1. /\ Outcome = "running" /\ Outcome' = "running"
      /\ UNCHANGED <<data, out>> /\ fate = "whole" /\ out = <<>>
  BY DEF Arrive, Outcome, encoder, decoder, TripInv, EncodingInv, Compressing
<1>2. out' \in Seq(Symbols) /\ N \in Nat /\ Len(out') <= N
  <2>1. OutRight'
    BY OutIs, PTL
  <2> QED
    BY <2>1, <1>1 DEF OutRight, N
<1>3. C!IsPrefix(out, out') /\ C!IsPrefix(out', data)
  BY <1>1, <1>2 DEF C!IsPrefix, N
<1> QED
  BY <1>1, <1>2, <1>3, Zenon DEF C!Produce, N

LEMMA RefineDecode == ASSUME TripInv, TripInv', DecodeSymbol PROVE C!Produce
<1>1. /\ Outcome = "running" /\ Outcome' = "running" /\ UNCHANGED <<data, fate>> /\ IInv
  BY DEF DecodeSymbol, Outcome, TripInv
<1>2. N' = N /\ out' \in Seq(Symbols) /\ Len(out') <= N /\ (fate' = "whole" => Good')
  <2>1. OutRight'
    BY OutIs, PTL
  <2> QED
    BY <2>1, <1>1 DEF OutRight, N
<1>3. C!IsPrefix(out, out')
  <2>1. PICK s \in Symbols : out' = Append(out, s)
    BY <1>1, DecodeIs
  <2>2. out \in Seq(Symbols)
    BY <1>1 DEF IInv, DecoderInv
  <2>3. Len(out') = Len(out) + 1 /\ \A j \in 1 .. Len(out) : out'[j] = out[j]
    BY <2>1, <2>2, AppendProperties
  <2> QED
    BY <2>2, <2>3 DEF C!IsPrefix
<1>4. fate' = "whole" => C!IsPrefix(out', data)
  BY <1>1, <1>2 DEF Good, C!IsPrefix, N
<1> QED
  BY <1>1, <1>2, <1>3, <1>4, Zenon DEF C!Produce, N

\* A step of decompress that leaves the output as it is.
LEMMA RefineRest ==
    ASSUME TripInv, TripInv', ReadBlock \/ RejectBlock \/ DecodeEnd \/ DecompressEnd
    PROVE  [C!Next]_(C!vars)
<1>1. /\ UNCHANGED <<data, fate, out>> /\ Outcome = "running"
      /\ pc' \in {"header", "decode", "ok", "corrupt"}
  BY DEF ReadBlock, RejectBlock, DecodeEnd, DecompressEnd, Outcome, decoder
<1>2. OutRight'
  BY OutIs, PTL
<1>3. CASE pc' \in {"header", "decode"}
  <2>1. Outcome' = "running"
    BY <1>3 DEF Outcome
  <2> QED
    BY <1>1, <2>1 DEF C!vars
<1>4. CASE pc' = "ok"
  <2>1. Len(out') = Len(data)
    BY <1>1, <1>4, <1>2 DEF OutRight, N
  <2>2. Outcome' = "ok"
    BY <1>4 DEF Outcome
  <2>3. C!Succeed
    BY <1>1, <2>1, <2>2 DEF C!Succeed
  <2> QED
    BY <2>3 DEF C!Next
<1>5. CASE pc' = "corrupt"
  <2>1. (fate' = "whole") = FALSE
    BY <1>5, <1>2 DEF OutRight
  <2>2. Outcome' = "error"
    BY <1>5 DEF Outcome
  <2>3. C!Fail
    BY <1>1, <2>1, <2>2 DEF C!Fail
  <2> QED
    BY <2>3 DEF C!Next
<1> QED
  BY <1>1, <1>3, <1>4, <1>5

(***************************************************************************)
(* rANS implements the promise of trait Codec, for any input, block size,  *)
(* alphabet and number of lanes: a file that arrives whole decodes to the  *)
(* input, only a damaged one is refused, and the output never outgrows     *)
(* expected_len.                                                           *)
(***************************************************************************)
THEOREM RansImplementsCodec == Spec => ImplementsCodec
<1>1. TripInv /\ [Next]_vars => [C!Next]_(C!vars)
  <2> SUFFICES ASSUME TripInv, [Next]_vars PROVE [C!Next]_(C!vars)
    OBVIOUS
  <2>1. TripInv'
    BY TripStep
  <2>2. CASE Compress \/ UNCHANGED vars
    BY <2>2, RefineStutter
  <2>3. CASE Arrive
    BY <2>1, <2>3, RefineArrive DEF C!Next
  <2>4. CASE DecodeSymbol
    BY <2>1, <2>4, RefineDecode DEF C!Next
  <2>5. CASE ReadBlock \/ RejectBlock \/ DecodeEnd \/ DecompressEnd
    BY <2>1, <2>5, RefineRest
  <2> QED
    BY <2>2, <2>3, <2>4, <2>5 DEF Next, Decompress
<1> QED
  BY <1>1, RefineInit, TripInvariance, PTL DEF Spec, ImplementsCodec, C!Spec
=============================================================================
