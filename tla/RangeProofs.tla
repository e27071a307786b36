---------------------------- MODULE RangeProofs ----------------------------
(* Proofs about RangeCoder: no carry is lost, and the decoder is in step    *)
(* with the encoder, whatever operations the callers code.                  *)
EXTENDS RangeCoder, NatLemmas

-----------------------------------------------------------------------------
(* Powers.                                                                  *)

Powers(g, b, n) ==
    /\ g \in [0 .. n -> Nat \ {0}]
    /\ g[0] = 1 /\ Power(b, n) = g[n]
    /\ \A k \in 1 .. n : g[k] = b * g[k - 1]

LEMMA PowerSteps ==
    ASSUME NEW b \in Nat \ {0}, NEW n \in Nat
    PROVE  \E g : Powers(g, b, n)
<1> DEFINE P == Nat \ {0}
           step == [x \in P \X (1 .. n) |-> b * x[1]]
           Eq(f) == [k \in 0 .. n |-> IF k = 0 THEN 1 ELSE b * f[k - 1]]
           p == CHOOSE f : f = Eq(f)
<1>1. \A x \in P, k \in 1 .. n : step[<<x, k>>] = b * x /\ b * x \in P
  OBVIOUS
<1>2. StepsIn(step, P, n)
  <2> HIDE DEF step
  <2> QED
    BY <1>1 DEF StepsIn
<1>3. \E g : Solves(g, P, n, 1, step)
  <2> HIDE DEF step
  <2> QED
    BY <1>2, Recursion
<1>4. PICK g : Solves(g, P, n, 1, step)
  BY <1>3
<1>5. g \in [0 .. n -> P] /\ g[0] = 1
  BY <1>4 DEF Solves
<1>6. ASSUME NEW k \in 1 .. n PROVE g[k] = b * g[k - 1]
  <2>1. g[k - 1] \in P
    BY <1>5
  <2>2. g[k] = step[<<g[k - 1], k>>]
    BY <1>4 DEF Solves
  <2> HIDE DEF step, P
  <2> QED
    BY <2>1, <2>2, <1>1
<1>7. g = Eq(g)
  <2>1. \A k \in 0 .. n : g[k] = IF k = 0 THEN 1 ELSE b * g[k - 1]
    BY <1>5, <1>6
  <2>2. g = [k \in 0 .. n |-> g[k]]
    BY <1>5
  <2> QED
    BY <2>1, <2>2
<1>8. Power(b, n) = p[n]
  BY DEF Power
<1> HIDE DEF Eq
<1>9. p = Eq(p)
  BY <1>7
<1> HIDE DEF p
<1>10. \A k \in 0 .. n : p[k] = IF k = 0 THEN 1 ELSE b * p[k - 1]
  BY <1>9 DEF Eq
<1>11. p[0] = g[0]
  BY <1>10, <1>5
<1>13. ASSUME NEW k \in 1 .. n PROVE p[k - 1] = g[k - 1] => p[k] = g[k]
  <2>1. k \in 0 .. n /\ k # 0
    OBVIOUS
  <2>2. p[k] = b * p[k - 1] /\ g[k] = b * g[k - 1]
    BY <2>1, <1>10, <1>6
  <2> QED
    BY <2>2
<1>12. \A k \in 0 .. n : p[k] = g[k]
  BY <1>11, <1>13, SameSteps
<1>14. p[n] = g[n]
  BY <1>12
<1>15. Powers(g, b, n)
  BY <1>5, <1>6, <1>8, <1>14 DEF Powers
<1> QED
  BY <1>15

LEMMA PowerIs ==
    ASSUME NEW b \in Nat \ {0}, NEW n \in Nat
    PROVE  /\ Power(b, n) \in Nat \ {0}
           /\ Power(b, 0) = 1
           /\ Power(b, n + 1) = b * Power(b, n)
<1>1. PICK g : Powers(g, b, n)
  BY PowerSteps
<1>2. PICK h : Powers(h, b, n + 1)
  <2>1. n + 1 \in Nat
    OBVIOUS
  <2> QED
    BY <2>1, PowerSteps
<1>3. PICK z : Powers(z, b, 0)
  BY PowerSteps
<1>4. ASSUME NEW k \in 1 .. n PROVE h[k - 1] = g[k - 1] => h[k] = g[k]
  <2>1. h[k] = b * h[k - 1] /\ g[k] = b * g[k - 1]
    BY <1>1, <1>2 DEF Powers
  <2> QED
    BY <2>1
<1>5. \A k \in 0 .. n : h[k] = g[k]
  <2>1. h[0] = g[0]
    BY <1>1, <1>2 DEF Powers
  <2>2. n \in Nat
    OBVIOUS
  <2> QED
    BY <2>1, <2>2, <1>4, SameSteps
<1>6. h[n + 1] = b * h[n]
  <2>1. n + 1 \in 1 .. n + 1 /\ (n + 1) - 1 = n
    OBVIOUS
  <2> QED
    BY <1>2, <2>1 DEF Powers
<1>7. h[n] = g[n] /\ h[n] \in Nat \ {0}
  BY <1>1, <1>2, <1>5 DEF Powers
<1>8. Power(b, n) = g[n] /\ Power(b, n + 1) = h[n + 1]
  BY <1>1, <1>2 DEF Powers
<1>9. Power(b, 0) = 1
  BY <1>3 DEF Powers
<1> QED
  BY <1>6, <1>7, <1>8, <1>9

-----------------------------------------------------------------------------
(* Numbers and their digits.                                                *)

LEMMA Base == BASE \in Nat /\ BASE >= 2 /\ BASE \in Nat \ {0}
  BY CoderAssumption

Digit == 0 .. BASE - 1

Reads(g, d, s) ==
    /\ g \in [0 .. Len(d) -> Nat]
    /\ g[0] = s /\ Number(d, s) = g[Len(d)]
    /\ \A k \in 1 .. Len(d) : g[k] = g[k - 1] * BASE + d[k]

LEMMA NumberSteps ==
    ASSUME NEW d \in Seq(Nat), NEW s \in Nat
    PROVE  \E g : Reads(g, d, s)
<1>1. PICK n \in Nat : n = Len(d)
  OBVIOUS
<1> DEFINE step == [x \in Nat \X (1 .. n) |-> x[1] * BASE + d[x[2]]]
           Eq(f) == [k \in 0 .. n |-> IF k = 0 THEN s ELSE f[k - 1] * BASE + d[k]]
           p == CHOOSE f : f = Eq(f)
<1>2. ASSUME NEW x \in Nat, NEW k \in 1 .. n
      PROVE  step[<<x, k>>] = x * BASE + d[k] /\ x * BASE + d[k] \in Nat
  <2>1. d[k] \in Nat /\ x * BASE \in Nat
    BY <1>1, Base
  <2>2. step[<<x, k>>] = x * BASE + d[k]
    OBVIOUS
  <2> QED
    BY <2>1, <2>2
<1>3. StepsIn(step, Nat, n)
  <2> HIDE DEF step
  <2> QED
    BY <1>2 DEF StepsIn
<1>4. PICK g : Solves(g, Nat, n, s, step)
  <2> HIDE DEF step
  <2> QED
    BY <1>3, Recursion
<1>5. g \in [0 .. n -> Nat] /\ g[0] = s
  BY <1>4 DEF Solves
<1>6. ASSUME NEW k \in 1 .. n PROVE g[k] = g[k - 1] * BASE + d[k]
  <2>1. g[k - 1] \in Nat
    BY <1>5
  <2>2. g[k] = step[<<g[k - 1], k>>]
    BY <1>4 DEF Solves
  <2> HIDE DEF step
  <2> QED
    BY <2>1, <2>2, <1>2
<1>7. g = Eq(g)
  <2>1. \A k \in 0 .. n : g[k] = IF k = 0 THEN s ELSE g[k - 1] * BASE + d[k]
    BY <1>5, <1>6
  <2>2. g = [k \in 0 .. n |-> g[k]]
    BY <1>5
  <2> QED
    BY <2>1, <2>2
<1>8. Number(d, s) = p[n]
  BY <1>1 DEF Number
<1> HIDE DEF Eq
<1>9. p = Eq(p)
  BY <1>7
<1> HIDE DEF p
<1>10. \A k \in 0 .. n : p[k] = IF k = 0 THEN s ELSE p[k - 1] * BASE + d[k]
  BY <1>9 DEF Eq
<1>11. p[0] = g[0]
  BY <1>10, <1>5
<1>12. ASSUME NEW k \in 1 .. n PROVE p[k - 1] = g[k - 1] => p[k] = g[k]
  <2>1. k \in 0 .. n /\ k # 0
    OBVIOUS
  <2>2. p[k] = p[k - 1] * BASE + d[k] /\ g[k] = g[k - 1] * BASE + d[k]
    BY <2>1, <1>10, <1>6
  <2> QED
    BY <2>2
<1>13. Alike(p, g, n)
  BY <1>11, <1>12 DEF Alike
<1>14. p[n] = g[n]
  BY <1>13, EndAlike
<1>15. Reads(g, d, s)
  BY <1>1, <1>5, <1>6, <1>8, <1>14 DEF Reads
<1> QED
  BY <1>15

LEMMA NumberType ==
    ASSUME NEW d \in Seq(Nat), NEW s \in Nat
    PROVE  Number(d, s) \in Nat /\ Number(<<>>, s) = s
<1>1. PICK g : Reads(g, d, s)
  BY NumberSteps
<1>2. <<>> \in Seq(Nat) /\ Len(<<>>) = 0
  OBVIOUS
<1>3. PICK h : Reads(h, <<>>, s)
  BY <1>2, NumberSteps
<1>4. Len(d) \in Nat
  OBVIOUS
<1> QED
  BY <1>1, <1>2, <1>3, <1>4 DEF Reads

LEMMA NumberAppend ==
    ASSUME NEW d \in Seq(Nat), NEW s \in Nat, NEW e \in Nat
    PROVE  Number(Append(d, e), s) = Number(d, s) * BASE + e
<1> DEFINE b == Append(d, e)
<1>1. PICK n \in Nat : n = Len(d)
  OBVIOUS
<1>2. b \in Seq(Nat) /\ Len(b) = n + 1 /\ b[n + 1] = e /\ \A k \in 1 .. n : b[k] = d[k]
  BY <1>1
<1> HIDE DEF b
<1>3. PICK g : Reads(g, d, s)
  BY NumberSteps
<1>4. PICK h : Reads(h, b, s)
  BY <1>2, NumberSteps
<1>5. ASSUME NEW k \in 1 .. n PROVE h[k - 1] = g[k - 1] => h[k] = g[k]
  <2>1. h[k] = h[k - 1] * BASE + b[k] /\ g[k] = g[k - 1] * BASE + d[k]
    BY <1>1, <1>2, <1>3, <1>4 DEF Reads
  <2> QED
    BY <2>1, <1>2
<1>6. \A k \in 0 .. n : h[k] = g[k]
  <2>1. h[0] = g[0]
    BY <1>3, <1>4 DEF Reads
  <2> QED
    BY <2>1, <1>5, SameSteps
<1>7. h[n + 1] = h[n] * BASE + b[n + 1]
  <2>1. n + 1 \in 1 .. Len(b) /\ (n + 1) - 1 = n
    BY <1>2
  <2> QED
    BY <2>1, <1>4 DEF Reads
<1>8. Number(d, s) = g[n] /\ Number(b, s) = h[n + 1]
  BY <1>1, <1>2, <1>3, <1>4 DEF Reads
<1>9. h[n] = g[n]
  BY <1>6
<1> QED
  BY <1>2, <1>7, <1>8, <1>9 DEF b

\* k digits c.
Run(c, k) == [j \in 1 .. k |-> c]

LEMMA RunIs ==
    ASSUME NEW c \in Nat, NEW k \in Nat
    PROVE  /\ Run(c, k) \in Seq(Nat) /\ Run(c, 0) = <<>>
           /\ Run(c, k + 1) = Append(Run(c, k), c)
<1>1. Run(c, k) \in Seq(Nat) /\ Len(Run(c, k)) = k
  BY DEF Run
<1>2. Run(c, k + 1) \in Seq(Nat) /\ Len(Run(c, k + 1)) = k + 1
  BY DEF Run
<1>3. Append(Run(c, k), c) \in Seq(Nat) /\ Len(Append(Run(c, k), c)) = k + 1
  BY <1>1
<1>4. ASSUME NEW j \in 1 .. k + 1 PROVE Run(c, k + 1)[j] = Append(Run(c, k), c)[j]
  <2>1. Run(c, k + 1)[j] = c
    BY DEF Run
  <2>2. j \in 1 .. k => Run(c, k)[j] = c
    BY DEF Run
  <2> QED
    BY <1>1, <2>1, <2>2
<1>5. Run(c, 0) = <<>>
  BY DEF Run
<1> QED
  BY <1>1, <1>2, <1>3, <1>4, <1>5, SeqEqual

LEMMA ConcatRun ==
    ASSUME NEW d \in Seq(Nat), NEW c \in Nat, NEW k \in Nat
    PROVE  /\ d \o Run(c, k) \in Seq(Nat) /\ d \o Run(c, 0) = d
           /\ d \o Run(c, k + 1) = Append(d \o Run(c, k), c)
<1>1. Run(c, k) \in Seq(Nat) /\ Run(c, 0) = <<>> /\ Run(c, k + 1) = Append(Run(c, k), c)
  BY RunIs
<1> DEFINE r == Run(c, k)
<1>2. r \in Seq(Nat)
  BY <1>1
<1> HIDE DEF r
<1>3. d \o Append(r, c) = Append(d \o r, c)
  <2>1. d \o Append(r, c) \in Seq(Nat) /\ Append(d \o r, c) \in Seq(Nat)
    BY <1>2
  <2>2. Len(d \o Append(r, c)) = Len(Append(d \o r, c))
    BY <1>2
  <2>3. \A j \in 1 .. Len(d \o Append(r, c)) : (d \o Append(r, c))[j] = Append(d \o r, c)[j]
    BY <1>2
  <2> QED
    BY <2>1, <2>2, <2>3, SeqEqual
<1>4. d \o r \in Seq(Nat) /\ d \o <<>> = d
  BY <1>2
<1> QED
  BY <1>1, <1>3, <1>4 DEF r

\* A run of the highest digit, and one of zeros.
LEMMA NumberRun ==
    ASSUME NEW d \in Seq(Nat), NEW s \in Nat, NEW k \in Nat
    PROVE  /\ Number(d \o Run(BASE - 1, k), s) + 1 = (Number(d, s) + 1) * Power(BASE, k)
           /\ Number(d \o Run(0, k), s) = Number(d, s) * Power(BASE, k)
<1>1. PICK x \in Nat : x = Number(d, s)
  BY NumberType
<1> DEFINE nine(m) == Number(d \o Run(BASE - 1, m), s)
           zero(m) == Number(d \o Run(0, m), s)
           T == {m \in Nat : /\ nine(m) + 1 = (x + 1) * Power(BASE, m)
                             /\ zero(m) = x * Power(BASE, m)}
<1>2. \A m \in Nat : /\ nine(m) \in Nat /\ zero(m) \in Nat
                     /\ nine(0) = x /\ zero(0) = x
                     /\ nine(m + 1) = nine(m) * BASE + (BASE - 1)
                     /\ zero(m + 1) = zero(m) * BASE
  <2> SUFFICES ASSUME NEW m \in Nat
               PROVE  /\ nine(m) \in Nat /\ zero(m) \in Nat
                      /\ nine(0) = x /\ zero(0) = x
                      /\ nine(m + 1) = nine(m) * BASE + (BASE - 1)
                      /\ zero(m + 1) = zero(m) * BASE
    OBVIOUS
  <2>1. BASE - 1 \in Nat /\ 0 \in Nat
    BY Base
  <2> DEFINE c == BASE - 1
  <2>2. c \in Nat
    BY <2>1
  <2> HIDE DEF c
  <2>3. /\ d \o Run(c, m) \in Seq(Nat) /\ d \o Run(c, 0) = d
        /\ d \o Run(c, m + 1) = Append(d \o Run(c, m), c)
    BY <2>2, ConcatRun
  <2>4. /\ d \o Run(0, m) \in Seq(Nat) /\ d \o Run(0, 0) = d
        /\ d \o Run(0, m + 1) = Append(d \o Run(0, m), 0)
    BY ConcatRun
  <2>5. Number(d \o Run(c, m), s) \in Nat /\ Number(d \o Run(0, m), s) \in Nat
    BY <2>3, <2>4, NumberType
  <2>6. Number(d \o Run(c, m + 1), s) = Number(d \o Run(c, m), s) * BASE + c
    <3>1. PICK q \in Seq(Nat) : q = d \o Run(c, m) /\ d \o Run(c, m + 1) = Append(q, c)
      BY <2>3
    <3>2. Number(Append(q, c), s) = Number(q, s) * BASE + c
      BY <2>2, NumberAppend
    <3> QED
      BY <3>1, <3>2
  <2>7. Number(d \o Run(0, m + 1), s) = Number(d \o Run(0, m), s) * BASE
    <3>1. PICK q \in Seq(Nat) : q = d \o Run(0, m) /\ d \o Run(0, m + 1) = Append(q, 0)
      BY <2>4
    <3>2. \A e \in Nat : Number(Append(q, e), s) = Number(q, s) * BASE + e
      BY NumberAppend
    <3>3. PICK y \in Nat : y = Number(q, s)
      BY NumberType
    <3>4. Number(Append(q, 0), s) = y * BASE + 0
      BY <3>2, <3>3
    <3>5. y * BASE + 0 = y * BASE
      BY Base
    <3> QED
      BY <3>1, <3>3, <3>4, <3>5
  <2> QED
    BY <2>3, <2>4, <2>5, <2>6, <2>7, <1>1 DEF c
<1> HIDE DEF nine, zero
<1>3. \A m \in Nat : Power(BASE, m) \in Nat /\ Power(BASE, 0) = 1 /\ Power(BASE, m + 1) = BASE * Power(BASE, m)
  BY Base, PowerIs
<1>4. 0 \in T
  <2>1. nine(0) = x /\ zero(0) = x /\ Power(BASE, 0) = 1
    BY <1>2, <1>3
  <2> QED
    BY <2>1
<1>5. ASSUME NEW m \in Nat, m \in T PROVE m + 1 \in T
  <2>1. PICK a \in Nat : a = Power(BASE, m)
    BY <1>3
  <2>2. PICK u \in Nat, v \in Nat : u = nine(m) /\ v = zero(m)
    BY <1>2
  <2>3. u + 1 = (x + 1) * a /\ v = x * a
    BY <1>5, <2>1, <2>2
  <2>4. (u * BASE + (BASE - 1)) + 1 = (x + 1) * (BASE * a)
    <3>1. (u * BASE + (BASE - 1)) + 1 = (u + 1) * BASE
      BY Base
    <3>2. ((x + 1) * a) * BASE = (x + 1) * (BASE * a)
      BY Base
    <3> QED
      BY <3>1, <3>2, <2>3
  <2>5. v * BASE = x * (BASE * a)
    <3>1. (x * a) * BASE = x * (BASE * a)
      BY Base
    <3> QED
      BY <3>1, <2>3
  <2>6. /\ nine(m + 1) = u * BASE + (BASE - 1) /\ zero(m + 1) = v * BASE
        /\ Power(BASE, m + 1) = BASE * a
    BY <1>2, <1>3, <2>1, <2>2
  <2> QED
    BY <2>4, <2>5, <2>6
<1>6. Nat \subseteq T
  <2> HIDE DEF T
  <2> QED
    BY <1>4, <1>5, NatSetInduction
<1> QED
  BY <1>1, <1>6 DEF nine, zero

\* What is read digit by digit.
Read(d, p) == Number(SubSeq(d, 1, p), 0)

LEMMA ReadNext ==
    ASSUME NEW d \in Seq(Nat), NEW p \in Nat, p < Len(d)
    PROVE  /\ Read(d, p) \in Nat /\ Read(d, 0) = 0
           /\ Read(d, p + 1) = Read(d, p) * BASE + d[p + 1]
           /\ Read(d, Len(d)) = Number(d, 0)
<1>1. SubSeq(d, 1, p) \in Seq(Nat) /\ d[p + 1] \in Nat /\ SubSeq(d, 1, 0) = <<>>
  OBVIOUS
<1>2. SubSeq(d, 1, p + 1) = Append(SubSeq(d, 1, p), d[p + 1])
  <2>1. SubSeq(d, 1, p + 1) \in Seq(Nat) /\ Len(SubSeq(d, 1, p + 1)) = p + 1
    OBVIOUS
  <2>2. Append(SubSeq(d, 1, p), d[p + 1]) \in Seq(Nat)
        /\ Len(Append(SubSeq(d, 1, p), d[p + 1])) = p + 1
    BY <1>1
  <2>3. ASSUME NEW k \in 1 .. p + 1
        PROVE  SubSeq(d, 1, p + 1)[k] = Append(SubSeq(d, 1, p), d[p + 1])[k]
    OBVIOUS
  <2> QED
    BY <2>1, <2>2, <2>3, SeqEqual
<1>3. SubSeq(d, 1, Len(d)) = d
  OBVIOUS
<1>4. 0 \in Nat
  OBVIOUS
<1>5. Number(SubSeq(d, 1, p), 0) \in Nat /\ Number(<<>>, 0) = 0
  BY <1>1, <1>4, NumberType
<1>6. Number(Append(SubSeq(d, 1, p), d[p + 1]), 0) = Number(SubSeq(d, 1, p), 0) * BASE + d[p + 1]
  BY <1>1, <1>4, NumberAppend
<1> QED
  BY <1>1, <1>2, <1>3, <1>5, <1>6 DEF Read

LEMMA ReadType ==
    ASSUME NEW d \in Seq(Nat), NEW p \in 0 .. Len(d)
    PROVE  Read(d, p) \in Nat
<1>1. SubSeq(d, 1, p) \in Seq(Nat) /\ 0 \in Nat
  OBVIOUS
<1> QED
  BY <1>1, NumberType DEF Read

\* The first digits say where a number is.
LEMMA ReadWithin ==
    ASSUME NEW d \in Seq(Digit), NEW p \in 0 .. Len(d), NEW k \in Nat, p + k <= Len(d)
    PROVE  /\ Read(d, p) * Power(BASE, k) <= Read(d, p + k)
           /\ Read(d, p + k) < (Read(d, p) + 1) * Power(BASE, k)
<1>0. d \in Seq(Nat) /\ p \in Nat
  BY Base DEF Digit
<1>1. PICK x \in Nat : x = Read(d, p)
  BY <1>0, ReadType
<1>2. PICK n \in Nat : n = Len(d)
  OBVIOUS
<1> DEFINE pw(m) == Power(BASE, m)
           rd(m) == Read(d, p + m)
           T == {m \in Nat : p + m <= n =>
                   /\ x * pw(m) <= rd(m)
                   /\ rd(m) < (x + 1) * pw(m)}
<1>3. \A m \in Nat : pw(m) \in Nat \ {0} /\ pw(0) = 1 /\ pw(m + 1) = BASE * pw(m)
  BY Base, PowerIs
<1>4. ASSUME NEW m \in Nat, p + m < n
      PROVE  rd(m) \in Nat /\ d[p + m + 1] \in Digit /\ rd(m + 1) = rd(m) * BASE + d[p + m + 1]
  <2>1. PICK q \in Nat : q = p + m /\ q + 1 = p + m + 1 /\ q < n /\ q + 1 = p + (m + 1)
    BY <1>0, <1>4
  <2>2. Read(d, q) \in Nat /\ Read(d, q + 1) = Read(d, q) * BASE + d[q + 1]
    BY <1>0, <1>2, <2>1, ReadNext
  <2>3. d[q + 1] \in Digit
    BY <1>2, <2>1
  <2> QED
    BY <2>1, <2>2, <2>3
<1>5. rd(0) = x
  BY <1>0, <1>1
<1> HIDE DEF pw, rd
<1>6. 0 \in T
  <2>1. x * pw(0) = x /\ (x + 1) * pw(0) = x + 1
    <3>1. pw(0) = 1
      BY <1>3
    <3>2. x * 1 = x /\ (x + 1) * 1 = x + 1
      OBVIOUS
    <3> QED
      BY <3>1, <3>2
  <2> QED
    BY <2>1, <1>5
<1>7. ASSUME NEW m \in Nat, m \in T PROVE m + 1 \in T
  <2> SUFFICES ASSUME p + (m + 1) <= n
               PROVE  x * pw(m + 1) <= rd(m + 1) /\ rd(m + 1) < (x + 1) * pw(m + 1)
    OBVIOUS
  <2>1. p + m < n
    BY <1>0
  <2>2. PICK a \in Nat \ {0} : a = pw(m) /\ pw(m + 1) = BASE * a
    <3>1. pw(m) \in Nat \ {0} /\ pw(m + 1) = BASE * pw(m)
      BY <1>3
    <3> QED
      BY <3>1, Zenon
  <2>3. PICK y \in Nat : y = rd(m)
    BY <1>4, <2>1
  <2>4. PICK e \in Digit : rd(m + 1) = y * BASE + e
    BY <1>4, <2>1, <2>3
  <2>5. x * a <= y /\ y < (x + 1) * a
    BY <1>7, <2>1, <2>2, <2>3
  <2>6. e \in Nat /\ e < BASE /\ BASE \in Nat /\ x * a \in Nat /\ (x + 1) * a \in Nat
    BY Base DEF Digit
  <2>7. (x * a) * BASE <= y * BASE /\ y * BASE + BASE <= ((x + 1) * a) * BASE
    BY <2>5, <2>6, Times
  <2>8. (x * a) * BASE = x * (BASE * a) /\ ((x + 1) * a) * BASE = (x + 1) * (BASE * a)
    BY <2>6
  <2>9. y * BASE \in Nat /\ (x * a) * BASE \in Nat /\ ((x + 1) * a) * BASE \in Nat
    BY <2>6, Times
  <2>10. x * (BASE * a) <= y * BASE + e /\ y * BASE + e < (x + 1) * (BASE * a)
    <3> DEFINE l == (x * a) * BASE
               u == ((x + 1) * a) * BASE
               v == y * BASE
    <3>1. l \in Nat /\ u \in Nat /\ v \in Nat /\ l <= v /\ v + BASE <= u
      BY <2>7, <2>9
    <3> HIDE DEF l, u, v
    <3>2. l <= v + e /\ v + e < u
      BY <3>1, <2>6
    <3> QED
      BY <3>2, <2>8 DEF l, u, v
  <2> QED
    BY <2>2, <2>4, <2>10
<1>8. Nat \subseteq T
  <2> HIDE DEF T
  <2> QED
    BY <1>6, <1>7, NatSetInduction
<1> QED
  BY <1>1, <1>2, <1>8 DEF pw, rd

-----------------------------------------------------------------------------
(* The encoder's low, and what is held back.                                *)

LEMMA Sizes ==
    /\ TOP \in Nat \ {0} /\ SPAN \in Nat \ {0} /\ SPAN = TOP * BASE
    /\ TOP = BASE * BASE * BASE /\ TOP < SPAN /\ TOP >= 8
    /\ PROB_ONE \in Nat /\ PROB_ONE >= 2 /\ PROB_ONE <= TOP
    /\ WITH_ONE \in Nat /\ WITH_ONE >= 2 /\ WITH_ONE <= TOP
    /\ MOVE \in Nat /\ MOVE >= 2
<1>1. BASE * BASE \in Nat /\ BASE * BASE >= 4
  <2>1. 2 * BASE <= BASE * BASE
    BY Base, Times
  <2> QED
    BY <2>1, Base
<1>2. BASE * BASE * BASE \in Nat /\ BASE * BASE * BASE >= 8
  <2> DEFINE s == BASE * BASE
  <2>1. s \in Nat /\ s >= 4
    BY <1>1
  <2> HIDE DEF s
  <2>2. 4 * BASE <= s * BASE /\ s * BASE \in Nat
    BY <2>1, Base, Times
  <2>3. s * BASE >= 8
    BY <2>2, Base
  <2> QED
    BY <2>2, <2>3 DEF s
<1>3. TOP \in Nat /\ TOP >= 8
  BY <1>2 DEF TOP
<1>4. 2 * TOP <= BASE * TOP /\ BASE * TOP = TOP * BASE /\ TOP * BASE \in Nat
  BY <1>3, Base, Times
<1>5. TOP < SPAN /\ SPAN \in Nat
  BY <1>3, <1>4 DEF SPAN
<1>6. MOVE \in Nat /\ MOVE >= 2
  BY CoderAssumption
<1>7. PROB_ONE \in Nat /\ PROB_ONE >= 2 /\ PROB_ONE <= TOP
      /\ WITH_ONE \in Nat /\ WITH_ONE >= 2 /\ WITH_ONE <= TOP
  BY CoderAssumption, <1>3
<1> QED
  BY <1>3, <1>5, <1>6, <1>7 DEF SPAN, TOP

\* low is one digit and a carry above the lower three digits.
LEMMA LowDigits ==
    ASSUME NEW v \in Nat, v < 2 * SPAN
    PROVE  \E q \in 0 .. 2 * BASE - 1, r \in 0 .. TOP - 1 :
              /\ v = TOP * q + r /\ q = v \div TOP /\ r = v % TOP
              /\ v < SPAN <=> q < BASE
              /\ q < BASE => v \div SPAN = 0 /\ q % BASE = q
              /\ ~ q < BASE => v \div SPAN = 1 /\ q % BASE = q - BASE
<1>1. PICK q \in Nat, r \in 0 .. TOP - 1 : q = v \div TOP /\ r = v % TOP /\ v = TOP * q + r
  <2>1. TOP \in Nat \ {0}
    BY Sizes
  <2>2. /\ v \div TOP \in Nat /\ v % TOP \in 0 .. TOP - 1
        /\ v = TOP * (v \div TOP) + (v % TOP)
    BY <2>1, DivRem
  <2> QED
    BY <2>2
<1>2. TOP \in Nat /\ SPAN \in Nat /\ r \in Nat /\ r < TOP /\ BASE \in Nat /\ BASE >= 2
  BY Sizes, Base
<1>3. TOP * q = q * TOP /\ SPAN = BASE * TOP /\ q * TOP \in Nat
  BY <1>2, Sizes, Times
<1>4. q < BASE => q * TOP + TOP <= BASE * TOP
  BY <1>2, Times
<1>5. ~ q < BASE => BASE * TOP <= q * TOP
  BY <1>2, Times
<1>6. q < BASE => v < SPAN
  BY <1>1, <1>2, <1>3, <1>4
<1>7. ~ q < BASE => ~ v < SPAN
  BY <1>1, <1>2, <1>3, <1>5
<1>8. q < 2 * BASE
  <2> SUFFICES ASSUME 2 * BASE <= q PROVE FALSE
    BY <1>2
  <2>1. 2 * BASE \in Nat
    BY <1>2
  <2>2. (2 * BASE) * TOP <= q * TOP
    BY <2>1, <1>2, Times
  <2>3. (2 * BASE) * TOP = 2 * SPAN
    BY <1>2, <1>3
  <2> QED
    BY <2>2, <2>3, <1>1, <1>2, <1>3
<1>9. q < BASE => v \div SPAN = 0 /\ q % BASE = q
  <2> SUFFICES ASSUME q < BASE PROVE v \div SPAN = 0 /\ q % BASE = q
    OBVIOUS
  <2>1. v = SPAN * 0 + v /\ v \in 0 .. SPAN - 1 /\ q = BASE * 0 + q /\ q \in 0 .. BASE - 1
    BY <1>2, <1>6
  <2> QED
    BY <2>1, Sizes, Base, DivRemIs
<1>10. ~ q < BASE => v \div SPAN = 1 /\ q % BASE = q - BASE
  <2> SUFFICES ASSUME ~ q < BASE PROVE v \div SPAN = 1 /\ q % BASE = q - BASE
    OBVIOUS
  <2>1. PICK w \in 0 .. SPAN - 1, p \in 0 .. BASE - 1 :
          w = v - SPAN /\ p = q - BASE /\ v = SPAN * 1 + w /\ q = BASE * 1 + p
    BY <1>2, <1>7, <1>8
  <2> QED
    BY <2>1, Sizes, Base, DivRemIs
<1>11. q \in 0 .. 2 * BASE - 1
  BY <1>2, <1>8
<1> QED
  BY <1>1, <1>6, <1>7, <1>9, <1>10, <1>11

\* The digits o, then c and k times the highest digit.
Hold(o, c, k) == Number(Run(BASE - 1, k), Number(o, 0) * BASE + c)

LEMMA HoldIs ==
    ASSUME NEW o \in Seq(Nat), NEW c \in Nat, NEW k \in Nat
    PROVE  /\ Hold(o, c, k) \in Nat
           /\ Hold(o, c, 0) = Number(o, 0) * BASE + c
           /\ Hold(o, c, k + 1) = Hold(o, c, k) * BASE + (BASE - 1)
           /\ Number(Append(o, c) \o Run(BASE - 1, k), 0) = Hold(o, c, k)
           /\ Number(Append(o, c + 1) \o Run(0, k), 0) = Hold(o, c, k) + 1
<1> DEFINE n == BASE - 1
<1>1. n \in Nat /\ 0 \in Nat
  BY Base
<1>2. PICK x \in Nat : x = Number(o, 0)
  BY <1>1, NumberType
<1>3. PICK s \in Nat : s = x * BASE + c
  <2>1. x * BASE + c \in Nat
    BY Base
  <2> QED
    BY <2>1
<1> HIDE DEF n
<1>4. Hold(o, c, k) = Number(Run(n, k), s) /\ Hold(o, c, k + 1) = Number(Run(n, k + 1), s)
      /\ Hold(o, c, 0) = Number(Run(n, 0), s)
  BY <1>2, <1>3 DEF Hold, n
<1>5. /\ Run(n, k) \in Seq(Nat) /\ Run(n, 0) = <<>>
      /\ Run(n, k + 1) = Append(Run(n, k), n)
  BY <1>1, RunIs
<1>6. Number(Run(n, k), s) \in Nat /\ Number(<<>>, s) = s
  BY <1>5, NumberType
<1>7. Number(Append(Run(n, k), n), s) = Number(Run(n, k), s) * BASE + n
  BY <1>1, <1>5, NumberAppend
<1>8. PICK p \in Nat : p = Power(BASE, k)
  BY Base, PowerIs
<1>9. Number(Run(n, k), s) + 1 = (s + 1) * p
  <2>1. <<>> \in Seq(Nat) /\ <<>> \o Run(n, k) = Run(n, k)
    BY <1>5
  <2>2. Number(<<>> \o Run(BASE - 1, k), s) + 1 = (Number(<<>>, s) + 1) * Power(BASE, k)
    BY <2>1, NumberRun
  <2> QED
    BY <2>1, <2>2, <1>6, <1>8 DEF n
<1>10. ASSUME NEW e \in Nat
       PROVE  Append(o, e) \in Seq(Nat) /\ Number(Append(o, e), 0) = x * BASE + e
  <2>1. Number(Append(o, e), 0) = Number(o, 0) * BASE + e
    BY <1>1, NumberAppend
  <2> QED
    BY <2>1, <1>2
<1>11. Number(Append(o, c) \o Run(n, k), 0) + 1 = (s + 1) * p
  <2>1. Append(o, c) \in Seq(Nat) /\ Number(Append(o, c), 0) = s
    BY <1>3, <1>10
  <2>2. Number(Append(o, c) \o Run(BASE - 1, k), 0) + 1 = (Number(Append(o, c), 0) + 1) * Power(BASE, k)
    BY <2>1, <1>1, NumberRun
  <2> QED
    BY <2>1, <2>2, <1>8 DEF n
<1>12. Number(Append(o, c + 1) \o Run(0, k), 0) = (s + 1) * p
  <2>1. c + 1 \in Nat /\ x * BASE \in Nat
    BY Base
  <2>2. Append(o, c + 1) \in Seq(Nat) /\ Number(Append(o, c + 1), 0) = x * BASE + (c + 1)
    BY <2>1, <1>10
  <2>3. x * BASE + (c + 1) = s + 1
    BY <2>1, <1>3
  <2>4. Number(Append(o, c + 1) \o Run(0, k), 0) = Number(Append(o, c + 1), 0) * Power(BASE, k)
    BY <2>2, <1>1, NumberRun
  <2> QED
    BY <2>2, <2>3, <2>4, <1>8
<1>13. Number(Append(o, c) \o Run(n, k), 0) = Number(Run(n, k), s)
  <2>1. Append(o, c) \o Run(n, k) \in Seq(Nat)
    BY <1>5, <1>10
  <2>2. Number(Append(o, c) \o Run(n, k), 0) \in Nat
    BY <2>1, <1>1, NumberType
  <2> QED
    BY <2>2, <1>6, <1>9, <1>11
<1> QED
  BY <1>2, <1>3, <1>4, <1>5, <1>6, <1>7, <1>9, <1>12, <1>13 DEF n

Held == Hold(out, cache, cacheSize - 1)

CarryType ==
    /\ low \in Nat /\ low < 2 * SPAN
    /\ cache \in Digit /\ cacheSize \in Nat \ {0} /\ out \in Seq(Digit)
    /\ out = <<>> => cache = 0
    /\ out # <<>> => out[1] = 0

\* There is no place for a carry.
NoCarry == cache = BASE - 1 \/ out = <<>>

\* The digit that leaves low follows what was held; a carry reaches it.
LEMMA ShiftLowIs ==
    ASSUME CarryType, NoCarry => low < SPAN, ShiftLow
    PROVE  /\ CarryType'
           /\ Held' = Held * BASE + (low \div TOP)
           /\ low' = (low % TOP) * BASE /\ low' < SPAN
           /\ Len(out)' + cacheSize' = Len(out) + cacheSize + 1
           /\ NoCarry' => /\ (low \div TOP) % BASE = BASE - 1
                          /\ NoCarry \/ ~ low < SPAN
<1>1. PICK q \in 0 .. 2 * BASE - 1, r \in 0 .. TOP - 1 :
        /\ low = TOP * q + r /\ q = low \div TOP /\ r = low % TOP
        /\ low < SPAN <=> q < BASE
        /\ q < BASE => low \div SPAN = 0 /\ q % BASE = q
        /\ ~ q < BASE => low \div SPAN = 1 /\ q % BASE = q - BASE
  BY LowDigits DEF CarryType
<1>2. q \in Nat /\ r \in Nat /\ r < TOP /\ q < 2 * BASE
  BY Base, Sizes
<1>3. PICK k \in Nat : k = cacheSize - 1 /\ cacheSize = k + 1
  BY DEF CarryType
<1>4. PICK c \in Digit : c = cache
  BY DEF CarryType
<1>5. PICK o \in Seq(Digit) : o = out
  BY DEF CarryType
<1>6. c \in Nat /\ c < BASE /\ o \in Seq(Nat) /\ BASE - 1 \in Nat
  BY Base DEF Digit
<1>7. /\ Hold(o, c, k) \in Nat
      /\ Hold(o, c, k + 1) = Hold(o, c, k) * BASE + (BASE - 1)
      /\ Number(Append(o, c) \o Run(BASE - 1, k), 0) = Hold(o, c, k)
      /\ Number(Append(o, c + 1) \o Run(0, k), 0) = Hold(o, c, k) + 1
  BY <1>6, HoldIs
<1>8. Held = Hold(o, c, k)
  BY <1>3, <1>4, <1>5 DEF Held
<1>9. low' = r * BASE /\ r * BASE \in Nat /\ r * BASE < SPAN
  <2>1. low' = r * BASE
    BY <1>1 DEF ShiftLow
  <2>2. r * BASE + BASE <= TOP * BASE /\ r * BASE \in Nat /\ TOP * BASE = SPAN
    BY <1>2, Sizes, Base, Times
  <2> DEFINE x == r * BASE
  <2>3. x \in Nat /\ x + BASE <= SPAN
    BY <2>2
  <2> HIDE DEF x
  <2>4. x < SPAN
    BY <2>3, Base, Sizes
  <2> QED
    BY <2>1, <2>3, <2>4 DEF x
<1>10. MustWait <=> q = BASE - 1
  BY <1>1, <1>2, Base DEF MustWait
<1>11. Carry = IF q < BASE THEN 0 ELSE 1
  BY <1>1 DEF Carry
<1>12. CASE q = BASE - 1
  <2>1. out' = o /\ cache' = c /\ cacheSize' = k + 2
    BY <1>3, <1>4, <1>5, <1>10, <1>12 DEF ShiftLow
  <2>2. Held' = Hold(o, c, k + 1)
    <3>1. Held' = Hold(o, c, (k + 2) - 1)
      BY <2>1 DEF Held
    <3>2. (k + 2) - 1 = k + 1
      OBVIOUS
    <3> QED
      BY <3>1, <3>2
  <2>3. CarryType'
    <3>1. low' \in Nat /\ low' < 2 * SPAN
      BY <1>9, Sizes
    <3>2. o = <<>> => c = 0
      BY <1>4, <1>5 DEF CarryType
    <3>3. o # <<>> => o[1] = 0
      BY <1>5 DEF CarryType
    <3>4. cacheSize' \in Nat \ {0}
      BY <2>1
    <3> QED
      BY <3>1, <3>2, <3>3, <3>4, <2>1 DEF CarryType
  <2>4. Len(out)' + cacheSize' = Len(out) + cacheSize + 1
    BY <2>1, <1>3, <1>5
  <2>5. NoCarry' => NoCarry
    BY <2>1, <1>4, <1>5 DEF NoCarry
  <2>6. q % BASE = BASE - 1
    <3>1. q < BASE
      BY <1>12, Base
    <3>2. q % BASE = q
      BY <3>1, <1>1
    <3> QED
      BY <3>2, <1>12
  <2>7. Held' = Held * BASE + q
    BY <2>2, <1>7, <1>8, <1>12
  <2> QED
    BY <2>3, <2>4, <2>5, <2>6, <2>7, <1>1, <1>9
<1>13. CASE q # BASE - 1
  <2>1. PICK v \in {0, 1} : v = Carry /\ (v = 1 <=> ~ q < BASE)
    BY <1>11
  <2>2. PICK x \in Digit : x = c + v
    <3>1. v = 1 => c # BASE - 1
      BY <2>1, <1>1, <1>4 DEF NoCarry
    <3> QED
      BY <3>1, <1>6, Base DEF Digit
  <2>3. PICK e \in Digit : e = q % BASE /\ e = (IF v = 1 THEN q - BASE ELSE q) /\ (v = 0 => e # BASE - 1)
    <3>1. q % BASE = (IF v = 1 THEN q - BASE ELSE q)
      BY <1>1, <2>1
    <3>2. q % BASE \in Digit
      BY <3>1, <1>2, <2>1, Base DEF Digit
    <3> QED
      BY <3>1, <3>2, <1>13
  <2>4. (c + v) % BASE = x /\ (BASE - 1 + v) % BASE = (IF v = 1 THEN 0 ELSE BASE - 1)
    <3>1. x = BASE * 0 + x /\ x \in Nat /\ x \in 0 .. BASE - 1
      BY Base DEF Digit
    <3>8. x % BASE = x
      BY <3>1, Base, DivRemIs
    <3>2. (c + v) % BASE = x
      BY <3>8, <2>2
    <3>3. v = 1 => BASE - 1 + v = BASE * 1 + 0 /\ BASE - 1 + v \in Nat
      BY Base
    <3>4. v = 0 => BASE - 1 + v = BASE * 0 + (BASE - 1) /\ BASE - 1 + v \in Nat
      BY Base
    <3>5. 0 \in 0 .. BASE - 1 /\ BASE - 1 \in 0 .. BASE - 1
      BY Base
    <3>6. v = 1 => (BASE - 1 + v) % BASE = 0
      BY <3>3, <3>5, Base, DivRemIs
    <3>7. v = 0 => (BASE - 1 + v) % BASE = BASE - 1
      BY <3>4, <3>5, Base, DivRemIs
    <3> QED
      BY <3>2, <3>6, <3>7
  <2> DEFINE f == IF v = 1 THEN 0 ELSE BASE - 1
  <2>5. f \in Digit /\ f \in Nat
    BY Base DEF Digit
  <2>6. cache' = e /\ cacheSize' = 1
    BY <1>1, <1>10, <1>13, <2>3 DEF ShiftLow
  <2>7. out' = o \o <<x>> \o [j \in 1 .. k |-> f]
    BY <1>3, <1>4, <1>5, <1>10, <1>13, <2>1, <2>4 DEF ShiftLow
  <2> HIDE DEF f
  <2>8. o \o <<x>> = Append(o, x) /\ Append(o, x) \in Seq(Digit)
    OBVIOUS
  <2>9. Run(f, k) \in Seq(Digit) /\ Len(Run(f, k)) = k
    BY <2>5 DEF Run
  <2>10. PICK w \in Seq(Digit) : w = Append(o, x) \o Run(f, k) /\ w = out'
    <3>1. out' = Append(o, x) \o Run(f, k)
      BY <2>2, <2>7, <2>8 DEF Run
    <3>2. Append(o, x) \o Run(f, k) \in Seq(Digit)
      BY <2>8, <2>9, ConcatProperties
    <3> QED
      BY <3>1, <3>2
  <2>11. Len(w) = Len(o) + 1 + k /\ w # <<>> /\ w[1] = (IF o = <<>> THEN x ELSE o[1])
    <3>1. PICK g \in Seq(Digit) : g = Append(o, x)
      BY <2>8
    <3>2. Len(g) = Len(o) + 1 /\ g[1] = (IF o = <<>> THEN x ELSE o[1])
      <4>1. g[Len(o) + 1] = x /\ \A j \in 1 .. Len(o) : g[j] = o[j]
        BY <3>1
      <4>2. Len(g) = Len(o) + 1
        BY <3>1
      <4>3. o = <<>> <=> Len(o) = 0
        BY EmptySeq
      <4>4. Len(o) \in Nat
        OBVIOUS
      <4> QED
        BY <4>1, <4>2, <4>3, <4>4
    <3>3. PICK z \in Seq(Digit) : z = Run(f, k) /\ Len(z) = k
      BY <2>9
    <3>4. w = g \o z
      BY <2>10, <3>1, <3>3
    <3>5. Len(w) = Len(g) + Len(z) /\ w[1] = g[1]
      <4>1. Len(o) \in Nat /\ 1 \in 1 .. Len(g)
        BY <3>2
      <4>2. Len(g \o z) = Len(g) + Len(z) /\ (g \o z)[1] = g[1]
        BY <4>1, ConcatProperties
      <4> QED
        BY <4>2, <3>4
    <3>6. Len(w) = Len(o) + 1 + k /\ Len(o) \in Nat
      BY <3>2, <3>3, <3>5
    <3>7. w # <<>>
      BY <3>6, EmptySeq
    <3> QED
      BY <3>2, <3>5, <3>6, <3>7
  <2>12. w[1] = 0
    <3>1. o = <<>> => v = 0 /\ c = 0
      BY <2>1, <1>1, <1>4, <1>5 DEF NoCarry, CarryType
    <3>2. o # <<>> => o[1] = 0
      BY <1>5 DEF CarryType
    <3> QED
      BY <2>2, <2>11, <3>1, <3>2
  <2>13. CarryType'
    <3>1. low' \in Nat /\ low' < 2 * SPAN
      BY <1>9, Sizes
    <3>2. cache' \in Digit /\ cacheSize' \in Nat \ {0}
      BY <2>6
    <3>3. out' \in Seq(Digit) /\ out' # <<>> /\ out'[1] = 0
      BY <2>10, <2>11, <2>12
    <3> QED
      BY <3>1, <3>2, <3>3 DEF CarryType
  <2>14. Len(out)' + cacheSize' = Len(out) + cacheSize + 1
    <3>1. Len(out)' = Len(o) + 1 + k /\ Len(o) \in Nat
      BY <2>10, <2>11
    <3> QED
      BY <3>1, <2>6, <1>3, <1>5
  <2>15. Number(w, 0) = Hold(o, c, k) + v
    <3>1. CASE v = 0
      <4>1. f = BASE - 1 /\ x = c
        BY <3>1, <1>6, <2>2 DEF f
      <4> QED
        BY <4>1, <3>1, <1>7, <2>10
    <3>2. CASE v = 1
      <4>1. f = 0 /\ x = c + 1
        BY <3>2, <2>2 DEF f
      <4> QED
        BY <4>1, <3>2, <1>7, <2>10
    <3> QED
      BY <3>1, <3>2
  <2>16. Held' = (Hold(o, c, k) + v) * BASE + e
    <3>3. Held' = Hold(w, e, 1 - 1)
      BY <2>6, <2>10 DEF Held
    <3>4. 1 - 1 = 0
      OBVIOUS
    <3>1. Held' = Hold(w, e, 0)
      BY <3>3, <3>4
    <3>2. Hold(w, e, 0) = Number(w, 0) * BASE + e
      <4>1. w \in Seq(Nat) /\ e \in Nat /\ 0 \in Nat
        BY Base DEF Digit
      <4> QED
        BY <4>1, HoldIs
    <3> QED
      BY <3>1, <3>2, <2>15
  <2>17. Held' = Held * BASE + q
    <3>1. PICK h \in Nat : h = Hold(o, c, k)
      BY <1>7
    <3>2. (h + v) * BASE + e = h * BASE + q
      <4>1. v = 0 => (h + v) * BASE = h * BASE
        OBVIOUS
      <4>2. v = 1 => (h + v) * BASE = h * BASE + BASE
        BY Base
      <4>3. h * BASE \in Nat
        BY Base
      <4> QED
        BY <4>1, <4>2, <4>3, <2>3, <1>2, Base
    <3> QED
      BY <3>1, <3>2, <2>16, <1>8
  <2>18. NoCarry' => q % BASE = BASE - 1 /\ ~ low < SPAN
    <3>1. NoCarry' => e = BASE - 1
      BY <2>6, <2>10, <2>11 DEF NoCarry
    <3> QED
      BY <3>1, <2>1, <2>3, <1>1
  <2> QED
    BY <2>13, <2>14, <2>17, <2>18, <1>1, <1>9
<1> QED
  BY <1>12, <1>13

-----------------------------------------------------------------------------
(* One bit.                                                                 *)

Bit == {0, 1}

\* The operators of RangeCoder, for any node.
SlotAt(nd, op) == <<op.array, IF op.kind = "bit" THEN op.first ELSE op.first + nd>>

BoundAt(nd, op, r, ps) ==
    CASE Adaptive(op)       -> (r \div PROB_ONE) * Prob(ps, SlotAt(nd, op))
      [] op.kind = "with"   -> (r \div WITH_ONE) * op.p0
      [] op.kind = "direct" -> r \div 2

RangeOf(nd, op, r, ps, bit) ==
    IF bit = 0 \/ op.kind = "direct" THEN BoundAt(nd, op, r, ps) ELSE r - BoundAt(nd, op, r, ps)

ProbsOf(nd, op, ps, bit) ==
    IF Adaptive(op)
    THEN [s \in DOMAIN ps \cup {SlotAt(nd, op)} |->
             IF s = SlotAt(nd, op) THEN Adapted(Prob(ps, s), bit) ELSE ps[s]]
    ELSE ps

LEMMA AtNode ==
    ASSUME NEW op, NEW r, NEW ps, NEW bit
    PROVE  /\ Bound(op, r, ps) = BoundAt(node, op, r, ps)
           /\ RangeAfter(op, r, ps, bit) = RangeOf(node, op, r, ps, bit)
           /\ ProbsAfter(op, ps, bit) = ProbsOf(node, op, ps, bit)
<1>1. Slot(op) = SlotAt(node, op)
  BY DEF Slot, SlotAt
<1>2. Bound(op, r, ps) = BoundAt(node, op, r, ps)
  BY <1>1 DEF Bound, BoundAt
<1>3. ProbsAfter(op, ps, bit) = ProbsOf(node, op, ps, bit)
  BY <1>1 DEF ProbsAfter, ProbsOf
<1> QED
  BY <1>2, <1>3 DEF RangeAfter, RangeOf

Chance == 1 .. PROB_ONE - 1

ProbType(ps) == \A s \in DOMAIN ps : ps[s] \in Chance

LEMMA ProbIs ==
    ASSUME NEW ps, ProbType(ps), NEW s
    PROVE  Prob(ps, s) \in Chance
<1>1. PROB_INIT \in Chance
  <2>1. PICK q \in Nat, r \in 0 .. 1 : q = PROB_ONE \div 2 /\ PROB_ONE = 2 * q + r
    <3>1. 2 \in Nat \ {0} /\ PROB_ONE \in Nat
      BY Sizes
    <3>2. /\ PROB_ONE \div 2 \in Nat /\ PROB_ONE % 2 \in 0 .. 1
          /\ PROB_ONE = 2 * (PROB_ONE \div 2) + (PROB_ONE % 2)
      BY <3>1, DivRem
    <3> QED
      BY <3>2
  <2> QED
    BY <2>1, Sizes DEF PROB_INIT, Chance
<1> QED
  BY <1>1 DEF ProbType, Prob

\* A quotient by two or more is at most half.
LEMMA Share ==
    ASSUME NEW v \in Nat, NEW m \in Nat, m >= 2
    PROVE  v \div m \in Nat /\ 2 * (v \div m) <= v
<1>1. PICK q \in Nat, r \in 0 .. m - 1 : q = v \div m /\ v = m * q + r
  BY DivRem
<1>2. 2 * q <= m * q /\ m * q \in Nat
  BY Times
<1> QED
  BY <1>1, <1>2

LEMMA AdaptedIs ==
    ASSUME NEW p \in Chance, NEW bit \in Bit
    PROVE  Adapted(p, bit) \in Chance
<1>1. p \in Nat /\ p >= 1 /\ PROB_ONE - p \in Nat /\ PROB_ONE - p >= 1 /\ PROB_ONE \in Nat
  BY Sizes DEF Chance
<1>2. PICK x \in Nat : x = p \div MOVE /\ 2 * x <= p
  BY <1>1, Sizes, Share
<1>3. PICK y \in Nat : y = (PROB_ONE - p) \div MOVE /\ 2 * y <= PROB_ONE - p
  BY <1>1, Sizes, Share
<1>4. p - x \in Chance /\ p + y \in Chance
  BY <1>1, <1>2, <1>3 DEF Chance
<1> QED
  BY <1>2, <1>3, <1>4 DEF Adapted

LEMMA ProbsKept ==
    ASSUME NEW ps, ProbType(ps), NEW nd, NEW op, NEW bit \in Bit
    PROVE  ProbType(ProbsOf(nd, op, ps, bit))
<1>1. CASE ~ Adaptive(op)
  BY <1>1 DEF ProbsOf
<1>2. CASE Adaptive(op)
  <2> DEFINE s == SlotAt(nd, op)
             f == ProbsOf(nd, op, ps, bit)
  <2>1. f = [t \in DOMAIN ps \cup {s} |-> IF t = s THEN Adapted(Prob(ps, t), bit) ELSE ps[t]]
    BY <1>2 DEF ProbsOf
  <2>2. Adapted(Prob(ps, s), bit) \in Chance
    BY ProbIs, AdaptedIs
  <2> HIDE DEF f, s
  <2> QED
    BY <2>1, <2>2 DEF ProbType, f
<1> QED
  BY <1>1, <1>2

LEMMA PossibleIs ==
    ASSUME NEW op, Possible(op)
    PROVE  /\ op.bits \in Nat \ {0} /\ op.value \in Nat /\ op.value < Power(2, op.bits)
           /\ op.kind \in Kinds
           /\ op.kind = "with" => op.p0 \in 1 .. WITH_ONE - 1
<1>1. op.bits \in Nat \ {0} /\ op.value \in 0 .. Power(2, op.bits) - 1 /\ op.kind \in Kinds
      /\ (op.kind = "with" => op.p0 \in 1 .. WITH_ONE - 1)
  BY DEF Possible
<1>2. Power(2, op.bits) \in Nat
  <2>1. PICK n \in Nat : n = op.bits
    BY <1>1
  <2>2. 2 \in Nat \ {0}
    OBVIOUS
  <2>3. Power(2, n) \in Nat
    BY <2>2, PowerIs
  <2> QED
    BY <2>1, <2>3
<1> QED
  BY <1>1, <1>2

LEMMA BitIs ==
    ASSUME NEW op, Possible(op), NEW k \in Nat, k < op.bits
    PROVE  BitOf(op, k) \in Bit
<1>1. op.value \in Nat /\ op.bits \in Nat /\ op.bits - 1 - k \in Nat
  BY PossibleIs
<1>2. \A v \in Nat, a \in Nat \ {0} : (v \div a) % 2 \in Bit
  <2> SUFFICES ASSUME NEW v \in Nat, NEW a \in Nat \ {0} PROVE (v \div a) % 2 \in Bit
    OBVIOUS
  <2>1. PICK q \in Nat : q = v \div a
    BY DivRem
  <2>2. q % 2 \in 0 .. 1
    BY DivRem
  <2> QED
    BY <2>1, <2>2 DEF Bit
<1>3. Power(2, k) \in Nat \ {0} /\ Power(2, op.bits - 1 - k) \in Nat \ {0}
  <2>1. 2 \in Nat \ {0} /\ \A n \in Nat : Power(2, n) \in Nat \ {0}
    BY PowerIs
  <2> QED
    BY <2>1, <1>1
<1> QED
  BY <1>1, <1>2, <1>3 DEF BitOf

\* A fraction of a range that is large enough is neither nothing nor all of it.
LEMMA Fraction ==
    ASSUME NEW r \in Nat, NEW w \in Nat, NEW p \in 1 .. w - 1, w >= 2, w <= r
    PROVE  (r \div w) * p \in 1 .. r - 1
<1>1. PICK q \in Nat, m \in 0 .. w - 1 : q = r \div w /\ r = w * q + m
  BY DivRem
<1>2. q # 0
  <2>1. q = 0 => w * q = 0
    OBVIOUS
  <2> QED
    BY <2>1, <1>1
<1>3. p * q + q <= w * q /\ p * q \in Nat /\ w * q \in Nat
  BY Times
<1>4. 1 * q <= p * q
  BY Times
<1>5. q * p = p * q
  OBVIOUS
<1> DEFINE x == p * q
           y == w * q
<1>6. x \in Nat /\ y \in Nat /\ x + q <= y /\ q <= x /\ r = y + m
  BY <1>1, <1>3, <1>4
<1> HIDE DEF x, y
<1>7. x \in 1 .. r - 1
  BY <1>2, <1>6
<1> QED
  BY <1>1, <1>5, <1>7 DEF x

\* Both halves of a range of at least TOP are not empty.
LEMMA BoundIs ==
    ASSUME NEW nd, NEW op, Possible(op), NEW ps, ProbType(ps), NEW r \in TOP .. SPAN - 1
    PROVE  /\ BoundAt(nd, op, r, ps) \in 1 .. r - 1
           /\ op.kind = "direct" => 2 * BoundAt(nd, op, r, ps) <= r
<1>1. r \in Nat /\ r >= TOP
  BY Sizes
<1>2. op.kind \in Kinds /\ (op.kind = "with" => op.p0 \in 1 .. WITH_ONE - 1)
  BY PossibleIs
<1>3. CASE op.kind \in {"bit", "tree", "reverse"}
  <2>1. PICK p \in Chance : p = Prob(ps, SlotAt(nd, op))
    BY ProbIs
  <2>2. BoundAt(nd, op, r, ps) = (r \div PROB_ONE) * p
    BY <1>3, <2>1 DEF BoundAt, Adaptive
  <2>3. p \in 1 .. PROB_ONE - 1 /\ PROB_ONE \in Nat /\ PROB_ONE >= 2 /\ PROB_ONE <= r
    BY <1>1, Sizes DEF Chance
  <2>4. (r \div PROB_ONE) * p \in 1 .. r - 1
    BY <1>1, <2>3, Fraction
  <2> QED
    BY <1>3, <2>2, <2>4
<1>4. CASE op.kind = "with"
  <2>1. BoundAt(nd, op, r, ps) = (r \div WITH_ONE) * op.p0
    BY <1>4 DEF BoundAt, Adaptive
  <2>2. PICK p \in 1 .. WITH_ONE - 1 : p = op.p0
    BY <1>2, <1>4
  <2>3. WITH_ONE \in Nat /\ WITH_ONE >= 2 /\ WITH_ONE <= r
    BY <1>1, Sizes
  <2>4. (r \div WITH_ONE) * p \in 1 .. r - 1
    BY <1>1, <2>3, Fraction
  <2> QED
    BY <1>4, <2>1, <2>2, <2>4
<1>5. CASE op.kind = "direct"
  <2>1. BoundAt(nd, op, r, ps) = r \div 2
    BY <1>5 DEF BoundAt, Adaptive
  <2>2. PICK q \in Nat, m \in 0 .. 1 : q = r \div 2 /\ r = 2 * q + m
    BY <1>1, DivRem
  <2>3. r >= 8
    BY <1>1, Sizes
  <2> QED
    BY <2>1, <2>2, <2>3
<1> QED
  BY <1>2, <1>3, <1>4, <1>5 DEF Kinds

\* Coding a bit takes a part of the interval.
LEMMA PartIs ==
    ASSUME NEW nd, NEW op, Possible(op), NEW ps, ProbType(ps), NEW r \in TOP .. SPAN - 1,
           NEW bit \in Bit
    PROVE  /\ BoundAt(nd, op, r, ps) \in Nat
           /\ bit * BoundAt(nd, op, r, ps) \in Nat
           /\ bit * BoundAt(nd, op, r, ps) = IF bit = 1 THEN BoundAt(nd, op, r, ps) ELSE 0
           /\ RangeOf(nd, op, r, ps, bit) \in 1 .. SPAN - 1
           /\ bit * BoundAt(nd, op, r, ps) + RangeOf(nd, op, r, ps, bit) <= r
           /\ bit = 0 => RangeOf(nd, op, r, ps, bit) = BoundAt(nd, op, r, ps)
<1>1. PICK b \in Nat : b = BoundAt(nd, op, r, ps) /\ b \in 1 .. r - 1
                       /\ (op.kind = "direct" => 2 * b <= r)
  <2>1. BoundAt(nd, op, r, ps) \in 1 .. r - 1 /\ (op.kind = "direct" => 2 * BoundAt(nd, op, r, ps) <= r)
    BY BoundIs
  <2>2. r \in Nat
    BY Sizes
  <2> QED
    BY <2>1, <2>2
<1>2. r \in Nat /\ r <= SPAN - 1 /\ SPAN \in Nat
  BY Sizes
<1>3. bit * b = IF bit = 1 THEN b ELSE 0
  BY DEF Bit
<1>4. RangeOf(nd, op, r, ps, bit) = IF bit = 0 \/ op.kind = "direct" THEN b ELSE r - b
  BY <1>1 DEF RangeOf
<1>5. CASE bit = 0
  BY <1>1, <1>2, <1>3, <1>4, <1>5
<1>6. CASE bit = 1
  BY <1>1, <1>2, <1>3, <1>4, <1>6
<1> QED
  BY <1>5, <1>6 DEF Bit

-----------------------------------------------------------------------------
(* The way of the encoder through operations o.  An entry is what it works  *)
(* on: the bits done of an operation and the node, the interval, the number *)
(* of digits it was multiplied by, the operations done, the probabilities.  *)

Entry(i0, nd, r, x, n, dn, ps) ==
    [i |-> i0, node |-> nd, range |-> r, exact |-> x, norms |-> n, done |-> dn, probs |-> ps]

Start == Entry(0, 1, SPAN - 1, 0, 0, 0, <<>>)

NormStep(t, u) ==
    /\ t.range < TOP
    /\ u = Entry(t.i, t.node, t.range * BASE, t.exact * BASE, t.norms + 1, t.done, t.probs)

BitStep(o, t, u) ==
    /\ t.range >= TOP /\ t.done < Len(o) /\ t.i < o[t.done + 1].bits
    /\ LET op  == o[t.done + 1]
           bit == BitOf(op, t.i)
       IN  u = Entry(t.i + 1, 2 * t.node + bit, RangeOf(t.node, op, t.range, t.probs, bit),
                     t.exact + bit * BoundAt(t.node, op, t.range, t.probs),
                     t.norms, t.done, ProbsOf(t.node, op, t.probs, bit))

ReturnStep(o, t, u) ==
    /\ t.range >= TOP /\ t.done < Len(o) /\ t.i = o[t.done + 1].bits
    /\ u = Entry(0, 1, t.range, t.exact, t.norms, t.done + 1, t.probs)

EncStep(o, t, u) == NormStep(t, u) \/ BitStep(o, t, u) \/ ReturnStep(o, t, u)

\* Operations the coder can code.
Sound(o) == o \in Seq(ToSet(o)) /\ \A k \in 1 .. Len(o) : Possible(o[k])

Good(o, t) ==
    /\ t = Entry(t.i, t.node, t.range, t.exact, t.norms, t.done, t.probs)
    /\ t.i \in Nat /\ t.range \in 1 .. SPAN - 1 /\ t.exact \in Nat /\ t.norms \in Nat
    /\ t.done \in 0 .. Len(o) /\ ProbType(t.probs)
    /\ t.done < Len(o) => t.i <= o[t.done + 1].bits
    /\ t.done = Len(o) => t.i = 0 /\ t.node = 1

\* u's interval is a part of t's.
Within(t, u) ==
    /\ t.norms <= u.norms
    /\ t.exact * Power(BASE, u.norms - t.norms) <= u.exact
    /\ u.exact + u.range <= (t.exact + t.range) * Power(BASE, u.norms - t.norms)

LEMMA GoodNorm ==
    ASSUME NEW o, Sound(o), NEW t, Good(o, t), NEW u, NormStep(t, u)
    PROVE  Good(o, u) /\ u.norms = t.norms + 1 /\ u.exact = t.exact * BASE /\ u.range = t.range * BASE
<1>1. /\ u.i = t.i /\ u.node = t.node /\ u.range = t.range * BASE /\ u.exact = t.exact * BASE
      /\ u.norms = t.norms + 1 /\ u.done = t.done /\ u.probs = t.probs
      /\ u = Entry(u.i, u.node, u.range, u.exact, u.norms, u.done, u.probs)
  BY DEF NormStep, Entry
<1>2. PICK r \in Nat, x \in Nat, n \in Nat : r = t.range /\ x = t.exact /\ n = t.norms /\ r >= 1 /\ r < TOP
  BY Sizes DEF Good, NormStep
<1>3. x * BASE \in Nat /\ r * BASE \in Nat /\ 1 * BASE <= r * BASE /\ r * BASE + BASE <= TOP * BASE
      /\ TOP * BASE = SPAN
  BY <1>2, Base, Sizes, Times
<1>4. r * BASE \in 1 .. SPAN - 1
  <2> DEFINE y == r * BASE
  <2>1. y \in Nat /\ BASE <= y /\ y + BASE <= SPAN
    <3>1. 1 * BASE = BASE
      BY Base
    <3> QED
      BY <1>3, <3>1
  <2> HIDE DEF y
  <2>2. y \in 1 .. SPAN - 1
    BY <2>1, Base, Sizes
  <2> QED
    BY <2>2 DEF y
<1> QED
  BY <1>1, <1>2, <1>3, <1>4 DEF Good

LEMMA GoodBit ==
    ASSUME NEW o, Sound(o), NEW t, Good(o, t), NEW u, BitStep(o, t, u)
    PROVE  /\ Good(o, u) /\ u.norms = t.norms
           /\ t.exact <= u.exact /\ u.exact + u.range <= t.exact + t.range
<1>1. PICK k \in 1 .. Len(o) : k = t.done + 1 /\ Len(o) \in Nat /\ t.done \in Nat /\ t.done < Len(o)
  BY DEF Good, BitStep, Sound
<1>2. PICK op : op = o[k] /\ Possible(op)
  BY <1>1 DEF Sound
<1>3. PICK bit \in Bit : bit = BitOf(op, t.i)
  BY <1>1, <1>2, BitIs DEF BitStep, Good
<1>4. PICK r \in TOP .. SPAN - 1 : r = t.range
  BY Sizes DEF BitStep, Good
<1> DEFINE up == bit * BoundAt(t.node, op, r, t.probs)
           rg == RangeOf(t.node, op, r, t.probs, bit)
           ps == ProbsOf(t.node, op, t.probs, bit)
           nd == 2 * t.node + bit
<1>5. ProbType(t.probs)
  BY DEF Good
<1>6. up \in Nat /\ rg \in 1 .. SPAN - 1 /\ up + rg <= r
  BY <1>2, <1>5, PartIs
<1>7. ProbType(ps)
  BY <1>5, ProbsKept
<1>8. u = Entry(t.i + 1, nd, rg, t.exact + up, t.norms, t.done, ps)
  BY <1>1, <1>2, <1>3, <1>4 DEF BitStep
<1> HIDE DEF up, rg, ps, nd
<1>9. /\ u.i = t.i + 1 /\ u.range = rg /\ u.exact = t.exact + up
      /\ u.norms = t.norms /\ u.done = t.done /\ u.probs = ps
      /\ u = Entry(u.i, u.node, u.range, u.exact, u.norms, u.done, u.probs)
  BY <1>8 DEF Entry
<1>10. t.exact \in Nat /\ t.norms \in Nat /\ t.i \in Nat /\ t.i < op.bits /\ op.bits \in Nat
  BY <1>1, <1>2, PossibleIs DEF Good, BitStep
<1>11. t.i + 1 <= o[t.done + 1].bits
  BY <1>1, <1>2, <1>10
<1>12. Good(o, u)
  <2>1. u.i \in Nat /\ u.range \in 1 .. SPAN - 1 /\ u.exact \in Nat /\ u.norms \in Nat
    BY <1>6, <1>9, <1>10
  <2>2. u.done \in 0 .. Len(o) /\ u.done # Len(o)
    BY <1>1, <1>9
  <2>3. ProbType(u.probs)
    BY <1>7, <1>9
  <2>4. u.i <= o[u.done + 1].bits
    BY <1>9, <1>11
  <2>5. u = Entry(u.i, u.node, u.range, u.exact, u.norms, u.done, u.probs)
    BY <1>9
  <2> QED
    BY <2>1, <2>2, <2>3, <2>4, <2>5 DEF Good
<1>13. u.exact + u.range <= t.exact + t.range /\ t.exact <= u.exact
  <2>1. PICK q \in Nat, a \in Nat, b \in Nat, x \in Nat : q = r /\ a = up /\ b = rg /\ x = t.exact
    <3>1. r \in Nat /\ rg \in Nat
      BY <1>6, Sizes
    <3> QED
      BY <3>1, <1>6, <1>10
  <2>2. a + b <= q /\ u.exact = x + a /\ u.range = b /\ t.range = q
    BY <2>1, <1>4, <1>6, <1>9
  <2> QED
    BY <2>1, <2>2
<1> QED
  BY <1>9, <1>12, <1>13

LEMMA GoodReturn ==
    ASSUME NEW o, Sound(o), NEW t, Good(o, t), NEW u, ReturnStep(o, t, u)
    PROVE  /\ Good(o, u) /\ u.norms = t.norms
           /\ t.exact <= u.exact /\ u.exact + u.range <= t.exact + t.range
<1>1. /\ u.i = 0 /\ u.node = 1 /\ u.range = t.range /\ u.exact = t.exact
      /\ u.norms = t.norms /\ u.done = t.done + 1 /\ u.probs = t.probs
      /\ u = Entry(u.i, u.node, u.range, u.exact, u.norms, u.done, u.probs)
  BY DEF ReturnStep, Entry
<1>2. t.done \in Nat /\ Len(o) \in Nat /\ t.done < Len(o) /\ t.exact \in Nat /\ t.range \in Nat
  BY Sizes DEF Good, ReturnStep, Sound
<1>3. t.done + 1 < Len(o) => 0 <= o[t.done + 2].bits
  <2> SUFFICES ASSUME t.done + 1 < Len(o) PROVE 0 <= o[t.done + 2].bits
    OBVIOUS
  <2>1. PICK k \in 1 .. Len(o) : k = t.done + 2
    BY <1>2
  <2>2. Possible(o[k])
    BY DEF Sound
  <2>3. o[k].bits \in Nat
    BY <2>2, PossibleIs
  <2> QED
    BY <2>1, <2>3
<1>4. u.done \in 0 .. Len(o) /\ u.done + 1 = t.done + 2
  BY <1>1, <1>2
<1>5. Good(o, u)
  BY <1>1, <1>2, <1>3, <1>4 DEF Good
<1> QED
  BY <1>1, <1>2, <1>5

LEMMA GoodStep ==
    ASSUME NEW o, Sound(o), NEW t, Good(o, t), NEW u, EncStep(o, t, u)
    PROVE  Good(o, u)
  BY GoodNorm, GoodBit, GoodReturn DEF EncStep

LEMMA GoodIs ==
    ASSUME NEW o, NEW t, Good(o, t)
    PROVE  /\ t.exact \in Nat /\ t.norms \in Nat /\ t.range \in Nat /\ t.range >= 1 /\ t.range < SPAN
  BY Sizes DEF Good

LEMMA WithinSelf ==
    ASSUME NEW o, NEW t, Good(o, t)
    PROVE  Within(t, t)
<1>1. PICK x \in Nat, n \in Nat, r \in Nat : x = t.exact /\ n = t.norms /\ r = t.range
  BY GoodIs
<1>2. n - n = 0 /\ Power(BASE, 0) = 1
  BY Base, PowerIs
<1>3. x * 1 = x /\ (x + r) * 1 = x + r
  OBVIOUS
<1> QED
  BY <1>1, <1>2, <1>3 DEF Within

LEMMA WithinStep ==
    ASSUME NEW o, Sound(o), NEW t, NEW u, NEW v, Good(o, t), Good(o, u),
           Within(t, u), EncStep(o, u, v)
    PROVE  Within(t, v)
<1>1. PICK x \in Nat, n \in Nat, r \in Nat : x = t.exact /\ n = t.norms /\ r = t.range
  BY GoodIs
<1>2. PICK y \in Nat, m \in Nat, q \in Nat : y = u.exact /\ m = u.norms /\ q = u.range
  BY GoodIs
<1>3. n <= m
  BY <1>1, <1>2 DEF Within
<1>4. PICK d \in Nat : d = m - n /\ d + 1 = (m + 1) - n
  BY <1>3
<1>5. PICK p \in Nat : p = Power(BASE, d) /\ Power(BASE, d + 1) = BASE * p
  BY Base, PowerIs
<1>6. x * p <= y /\ y + q <= (x + r) * p
  BY <1>1, <1>2, <1>4, <1>5 DEF Within
<1>7. CASE NormStep(u, v)
  <2>1. v.norms = m + 1 /\ v.exact = y * BASE /\ v.range = q * BASE
    BY <1>2, <1>7, GoodNorm
  <2>2. x * p \in Nat /\ (x + r) * p \in Nat
    BY Times
  <2>3. (x * p) * BASE <= y * BASE /\ (y + q) * BASE <= ((x + r) * p) * BASE
    BY <1>6, <2>2, Base, Times
  <2>4. (x * p) * BASE = x * (BASE * p) /\ (y + q) * BASE = y * BASE + q * BASE
        /\ ((x + r) * p) * BASE = (x + r) * (BASE * p)
    BY Base
  <2>5. x * (BASE * p) <= y * BASE /\ y * BASE + q * BASE <= (x + r) * (BASE * p)
    BY <2>3, <2>4
  <2>6. n <= m + 1
    BY <1>3
  <2> QED
    BY <2>1, <2>5, <2>6, <1>1, <1>4, <1>5 DEF Within
<1>8. CASE BitStep(o, u, v) \/ ReturnStep(o, u, v)
  <2>1. Good(o, v) /\ v.norms = u.norms /\ u.exact <= v.exact /\ v.exact + v.range <= u.exact + u.range
    BY <1>8, GoodBit, GoodReturn
  <2>2. PICK z \in Nat, s \in Nat : z = v.exact /\ s = v.range
    BY <2>1, GoodIs
  <2>3. PICK l \in Nat, h \in Nat : l = x * p /\ h = (x + r) * p
    <3>1. x * p \in Nat /\ (x + r) * p \in Nat
      BY Times
    <3> QED
      BY <3>1
  <2>4. l <= z /\ z + s <= h
    BY <2>1, <2>2, <2>3, <1>2, <1>6
  <2>5. x * p <= z /\ z + s <= (x + r) * p
    BY <2>3, <2>4
  <2> QED
    BY <2>1, <2>2, <2>5, <1>1, <1>2, <1>3, <1>4, <1>5 DEF Within
<1> QED
  BY <1>7, <1>8 DEF EncStep

\* T leads the encoder to `last`, within each interval on the way.
History(o, T, n, last) ==
    /\ T[0] = Start /\ T[n] = last
    /\ \A k \in 1 .. n : EncStep(o, T[k - 1], T[k])
    /\ \A k \in 0 .. n : Good(o, T[k]) /\ Within(T[k], last)

LEMMA StartGood ==
    ASSUME NEW o, Sound(o)
    PROVE  Good(o, Start)
<1>1. /\ Start.i = 0 /\ Start.node = 1 /\ Start.range = SPAN - 1 /\ Start.exact = 0 /\ Start.norms = 0
      /\ Start.done = 0 /\ Start.probs = <<>>
      /\ Start = Entry(Start.i, Start.node, Start.range, Start.exact, Start.norms, Start.done, Start.probs)
  BY DEF Start, Entry
<1>2. Len(o) \in Nat /\ SPAN - 1 \in 1 .. SPAN - 1
  BY Sizes DEF Sound
<1>3. ProbType(<<>>)
  BY DEF ProbType
<1>4. 0 < Len(o) => 0 <= o[0 + 1].bits
  <2> SUFFICES ASSUME 0 < Len(o) PROVE 0 <= o[1].bits
    OBVIOUS
  <2>1. Possible(o[1])
    BY <1>2 DEF Sound
  <2> QED
    BY <2>1, PossibleIs
<1> QED
  BY <1>1, <1>2, <1>3, <1>4 DEF Good

LEMMA HistoryStart ==
    ASSUME NEW o, Sound(o)
    PROVE  \E T : History(o, T, 0, Start)
<1>1. Good(o, Start) /\ Within(Start, Start)
  BY StartGood, WithinSelf
<1> DEFINE T == [k \in 0 .. 0 |-> Start]
<1>2. T[0] = Start /\ 1 .. 0 = {} /\ 0 .. 0 = {0}
  OBVIOUS
<1> HIDE DEF T
<1>3. History(o, T, 0, Start)
  BY <1>1, <1>2 DEF History
<1> QED
  BY <1>3

LEMMA HistoryNext ==
    ASSUME NEW o, Sound(o), NEW T, NEW n \in Nat, NEW last, History(o, T, n, last),
           NEW new, EncStep(o, last, new)
    PROVE  \E U : History(o, U, n + 1, new)
<1> DEFINE U == [k \in 0 .. n + 1 |-> IF k = n + 1 THEN new ELSE T[k]]
<1>1. U[n + 1] = new /\ \A k \in 0 .. n : U[k] = T[k]
  OBVIOUS
<1> HIDE DEF U
<1>2. Good(o, last) /\ T[n] = last
  BY DEF History
<1>3. Good(o, new) /\ Within(new, new)
  BY <1>2, GoodStep, WithinSelf
<1>4. ASSUME NEW k \in 1 .. n + 1 PROVE EncStep(o, U[k - 1], U[k])
  <2>1. CASE k = n + 1
    <3>1. U[k] = new /\ U[k - 1] = last
      BY <1>1, <1>2, <2>1
    <3> QED
      BY <3>1
  <2>2. CASE k \in 1 .. n
    <3>1. k - 1 \in 0 .. n /\ k \in 0 .. n
      BY <2>2
    <3>2. EncStep(o, T[k - 1], T[k])
      BY <2>2 DEF History
    <3> QED
      BY <3>1, <3>2, <1>1
  <2> QED
    BY <2>1, <2>2
<1>5. ASSUME NEW k \in 0 .. n + 1 PROVE Good(o, U[k]) /\ Within(U[k], new)
  <2>1. CASE k = n + 1
    BY <1>1, <1>3, <2>1
  <2>2. CASE k \in 0 .. n
    <3>1. Good(o, T[k]) /\ Within(T[k], last)
      BY <2>2 DEF History
    <3>2. Within(T[k], new)
      BY <3>1, <1>2, WithinStep
    <3> QED
      BY <3>1, <3>2, <1>1, <2>2
  <2> QED
    BY <2>1, <2>2
<1>6. U[0] = Start
  <2>1. 0 \in 0 .. n /\ T[0] = Start
    BY DEF History
  <2> QED
    BY <2>1, <1>1
<1>7. History(o, U, n + 1, new)
  BY <1>1, <1>4, <1>5, <1>6 DEF History
<1> QED
  BY <1>7

-----------------------------------------------------------------------------
(* The invariant of the encoder.                                            *)

\* Where the encoder is; after the last operation, where it ended.
Here ==
    Entry(IF pc = "encode" THEN i ELSE 0, IF pc = "encode" THEN node ELSE 1,
          range, exact, Len(out) + cacheSize - 1 - flushed, done, probs)

Calls ==
    /\ caller \in Callers /\ ops = Coded(caller)
    /\ pc \in {"encode", "flush", "stored", "decode"} \cup Results

Traced == \E n \in Nat : \E T : History(ops, T, n, Here)

Ended == pc # "encode" => done = Len(ops) /\ range >= TOP

InEncode ==
    pc = "encode" =>
        /\ CarryType /\ flushed = 0
        /\ low + range <= 2 * SPAN
        /\ NoCarry => low + range <= SPAN
        /\ Held * SPAN + low = exact

InFlush ==
    pc = "flush" =>
        /\ CarryType /\ flushed \in 0 .. 5
        /\ NoCarry => low < SPAN
        /\ flushed >= 1 => low < SPAN
        /\ Held * SPAN + low = exact * Power(BASE, flushed)
        /\ \E m \in Nat : low = m * Power(BASE, flushed)
        /\ flushed = 5 => cache = 0 /\ cacheSize = 1

Written ==
    pc \in {"stored", "decode"} \cup Results =>
        /\ out \in Seq(Digit) /\ out # <<>> /\ out[1] = 0
        /\ Number(out, 0) = exact
        /\ cacheSize = 1 /\ flushed = 5

EncInv == Calls /\ Traced /\ Ended /\ InEncode /\ InFlush /\ Written

LEMMA CallsSound ==
    ASSUME Calls
    PROVE  /\ Sound(ops) /\ Len(ops) \in Nat
           /\ \A k \in 1 .. Len(ops) : Ask(caller, SubSeq(ops, 1, k - 1)) = Question(ops[k])
           /\ Ask(caller, ops) = Done /\ Understood(caller, ops) = caller.means
<1>1. PICK c \in Callers : c = caller /\ ops = Coded(c)
  BY DEF Calls
<1>2. PICK o : o = Coded(c) /\ o = ops
  BY <1>1
<1>3. /\ o \in Seq(ToSet(o))
      /\ \A k \in DOMAIN o : Possible(o[k]) /\ Ask(c, SubSeq(o, 1, k - 1)) = Question(o[k])
      /\ Ask(c, o) = Done /\ Understood(c, o) = c.means
  BY <1>2, CallersAssumption, Zenon
<1>4. DOMAIN o = 1 .. Len(o) /\ Len(o) \in Nat
  BY <1>3
<1> QED
  BY <1>1, <1>2, <1>3, <1>4 DEF Sound

LEMMA HereGood ==
    ASSUME Calls, Traced
    PROVE  Good(ops, Here)
<1>0. PICK n \in Nat : \E T : History(ops, T, n, Here)
  BY DEF Traced
<1>1. PICK T : History(ops, T, n, Here)
  BY <1>0
<1>2. n \in 0 .. n /\ T[n] = Here
  BY <1>1 DEF History
<1> QED
  BY <1>1, <1>2 DEF History

LEMMA HereIs ==
    ASSUME Calls, Traced
    PROVE  /\ range \in 1 .. SPAN - 1 /\ range \in Nat /\ exact \in Nat /\ ProbType(probs)
           /\ done \in 0 .. Len(ops) /\ done \in Nat
           /\ Len(out) + cacheSize - 1 - flushed \in Nat
           /\ pc = "encode" => /\ i \in Nat
                               /\ done < Len(ops) => i <= ops[done + 1].bits
                               /\ done = Len(ops) => i = 0 /\ node = 1
<1>1. Good(ops, Here)
  BY HereGood
<1>2. /\ Here.i = (IF pc = "encode" THEN i ELSE 0)
      /\ Here.node = (IF pc = "encode" THEN node ELSE 1) /\ Here.range = range /\ Here.exact = exact
      /\ Here.norms = Len(out) + cacheSize - 1 - flushed /\ Here.done = done /\ Here.probs = probs
  BY DEF Here, Entry
<1>3. Len(ops) \in Nat
  BY CallsSound
<1> QED
  BY <1>1, <1>2, <1>3, Sizes DEF Good

LEMMA TracedNext ==
    ASSUME Calls, Traced, ops' = ops, EncStep(ops, Here, Here')
    PROVE  Traced'
<1>0. PICK n \in Nat : \E T : History(ops, T, n, Here)
  BY DEF Traced
<1>1. PICK T : History(ops, T, n, Here)
  BY <1>0
<1>2. PICK o : o = ops /\ o = ops'
  OBVIOUS
<1>3. PICK g : g = Here'
  OBVIOUS
<1>4. Sound(o)
  BY <1>2, CallsSound
<1>5. PICK U : History(o, U, n + 1, g)
  BY <1>1, <1>2, <1>3, <1>4, HistoryNext
<1>6. n + 1 \in Nat
  OBVIOUS
<1> QED
  BY <1>2, <1>3, <1>5, <1>6 DEF Traced

LEMMA TracedKept ==
    ASSUME Traced, ops' = ops, Here' = Here
    PROVE  Traced'
<1>1. PICK o, h : o = ops /\ h = Here /\ o = ops' /\ h = Here'
  OBVIOUS
<1>2. \E n \in Nat : \E T : History(o, T, n, h)
  BY <1>1 DEF Traced
<1> QED
  BY <1>1, <1>2 DEF Traced

LEMMA EncInit == Init => EncInv
<1> SUFFICES ASSUME Init PROVE EncInv
  OBVIOUS
<1>1. Calls
  BY DEF Init, Calls
<1>2. Here = Start
  <2>1. Len(out) + cacheSize - 1 - flushed = 0
    BY DEF Init
  <2> QED
    BY <2>1 DEF Init, Here, Start
<1>3. Traced
  <2>1. PICK T : History(ops, T, 0, Start)
    BY <1>1, CallsSound, HistoryStart
  <2> QED
    BY <2>1, <1>2 DEF Traced
<1>4. CarryType
  BY Base, Sizes DEF Init, CarryType, Digit
<1>5. Held = 0
  <2>1. <<>> \in Seq(Nat) /\ 0 \in Nat
    OBVIOUS
  <2>2. Hold(<<>>, 0, 0) = Number(<<>>, 0) * BASE + 0 /\ Number(<<>>, 0) = 0
    BY <2>1, HoldIs, NumberType
  <2>3. Hold(<<>>, 0, 0) = 0
    BY <2>2, Base
  <2>4. Held = Hold(<<>>, 0, 1 - 1) /\ 1 - 1 = 0
    BY DEF Init, Held
  <2> QED
    BY <2>3, <2>4
<1>6. InEncode
  <2>1. low = 0 /\ range = SPAN - 1 /\ exact = 0 /\ flushed = 0
    BY DEF Init
  <2>2. 0 * SPAN + 0 = 0 /\ 0 + (SPAN - 1) <= SPAN /\ SPAN <= 2 * SPAN
    BY Sizes
  <2>3. Held * SPAN + low = exact
    BY <2>1, <2>2, <1>5
  <2>4. low + range <= SPAN /\ low + range <= 2 * SPAN
    BY <2>1, Sizes
  <2> QED
    BY <2>1, <2>3, <2>4, <1>4 DEF InEncode
<1>7. Ended /\ InFlush /\ Written
  BY DEF Init, Ended, InFlush, Written, Results
<1> QED
  BY <1>1, <1>3, <1>6, <1>7 DEF EncInv

LEMMA EncodeBitInv == ASSUME EncInv, EncodeBit PROVE EncInv'
<1>1. Calls /\ Traced /\ InEncode /\ pc = "encode" /\ pc' = "encode" /\ range >= TOP /\ done < Len(ops)
  BY DEF EncInv, EncodeBit, Encoding
<1>2. CarryType /\ Held * SPAN + low = exact /\ low + range <= 2 * SPAN /\ flushed = 0
      /\ (NoCarry => low + range <= SPAN)
  BY <1>1 DEF InEncode
<1>3. PICK op : op = ops[done + 1] /\ Possible(op)
  <2>1. done + 1 \in 1 .. Len(ops)
    BY <1>1, HereIs, CallsSound
  <2> QED
    BY <2>1, <1>1, CallsSound DEF Sound
<1>4. i \in Nat /\ i < op.bits
  BY <1>1, <1>3, HereIs DEF EncodeBit
<1>5. PICK bit \in Bit : bit = BitOf(op, i)
  BY <1>3, <1>4, BitIs
<1>6. PICK r \in TOP .. SPAN - 1 : r = range
  BY <1>1, HereIs, Sizes
<1>7. ProbType(probs)
  BY <1>1, HereIs
<1>8. PICK up : up = bit * BoundAt(node, op, r, probs)
  OBVIOUS
<1>9. PICK s : s = RangeOf(node, op, r, probs, bit)
  OBVIOUS
<1>10. up \in Nat /\ s \in 1 .. SPAN - 1 /\ up + s <= r
  BY <1>3, <1>7, <1>8, <1>9, PartIs
<1>11. /\ low' = low + up /\ exact' = exact + up /\ range' = s
       /\ probs' = ProbsOf(node, op, probs, bit) /\ node' = 2 * node + bit
  BY <1>3, <1>5, <1>6, <1>8, <1>9, AtNode DEF EncodeBit
<1>12. /\ i' = i + 1
       /\ UNCHANGED <<caller, ops, pc, done, cache, cacheSize, out, flushed>>
  BY DEF EncodeBit
<1>13. Calls'
  BY <1>1, <1>12 DEF Calls
<1>14. BitStep(ops, Here, Here')
  <2>1. Here = Entry(i, node, range, exact, Len(out) + cacheSize - 1 - flushed, done, probs)
    BY <1>1 DEF Here
  <2>2. Here' = Entry(i + 1, 2 * node + bit, s, exact + up, Len(out) + cacheSize - 1 - flushed, done,
                      ProbsOf(node, op, probs, bit))
    BY <1>1, <1>11, <1>12 DEF Here
  <2>3. /\ Here.i = i /\ Here.node = node /\ Here.range = r /\ Here.exact = exact
        /\ Here.norms = Len(out) + cacheSize - 1 - flushed /\ Here.done = done /\ Here.probs = probs
    BY <2>1, <1>6 DEF Entry
  <2>4. r >= TOP
    BY <1>1, <1>6
  <2> QED
    BY <2>2, <2>3, <2>4, <1>1, <1>3, <1>4, <1>5, <1>8, <1>9 DEF BitStep
<1>15. Traced'
  BY <1>1, <1>12, <1>14, TracedNext DEF EncStep
<1>16. low \in Nat /\ r \in Nat /\ s \in Nat /\ s >= 1 /\ SPAN \in Nat
  BY <1>2, <1>6, <1>10, Sizes DEF CarryType
<1>17. low' + range' <= 2 * SPAN /\ (NoCarry => low' + range' <= SPAN) /\ low' \in Nat /\ low' < 2 * SPAN
  BY <1>2, <1>6, <1>10, <1>11, <1>16
<1>18. NoCarry' => NoCarry
  BY <1>12 DEF NoCarry
<1>19. Held' = Held
  BY <1>12 DEF Held
<1>20. Held * SPAN + (low + up) = exact + up
  <2>1. PICK x \in Nat : x = Held
    <3>1. out \in Seq(Nat) /\ cache \in Nat /\ cacheSize - 1 \in Nat
      BY <1>2, Base DEF CarryType, Digit
    <3> QED
      BY <3>1, HoldIs DEF Held
  <2>2. x * SPAN \in Nat
    BY <1>16
  <2> QED
    BY <2>1, <2>2, <1>2, <1>10, <1>16
<1>21. InEncode'
  <2>1. CarryType'
    BY <1>2, <1>12, <1>17 DEF CarryType
  <2> QED
    BY <2>1, <1>2, <1>11, <1>12, <1>17, <1>18, <1>19, <1>20 DEF InEncode
<1>22. Ended' /\ InFlush' /\ Written'
  BY <1>1 DEF Ended, InFlush, Written, Results
<1> QED
  BY <1>13, <1>15, <1>21, <1>22 DEF EncInv

LEMMA HeldIs ==
    ASSUME CarryType
    PROVE  Held \in Nat
<1>1. out \in Seq(Nat) /\ cache \in Nat /\ cacheSize - 1 \in Nat
  BY Base DEF CarryType, Digit
<1> QED
  BY <1>1, HoldIs DEF Held

\* shift_low multiplies what is held and low by the base.
LEMMA ShiftValue ==
    ASSUME CarryType, NoCarry => low < SPAN, ShiftLow
    PROVE  Held' * SPAN + low' = (Held * SPAN + low) * BASE
<1>1. PICK h \in Nat : h = Held
  BY HeldIs
<1>2. PICK q \in Nat, r \in 0 .. TOP - 1 : q = low \div TOP /\ r = low % TOP /\ low = TOP * q + r
  <2>1. low \in Nat /\ TOP \in Nat \ {0}
    BY Sizes DEF CarryType
  <2>2. /\ low \div TOP \in Nat /\ low % TOP \in 0 .. TOP - 1
        /\ low = TOP * (low \div TOP) + (low % TOP)
    BY <2>1, DivRem
  <2> QED
    BY <2>2
<1>3. Held' = h * BASE + q /\ low' = r * BASE
  BY <1>1, <1>2, ShiftLowIs
<1>4. (h * BASE + q) * (TOP * BASE) + r * BASE = (h * (TOP * BASE) + (TOP * q + r)) * BASE
  <2>1. BASE \in Nat /\ TOP \in Nat /\ r \in Nat
    BY Base, Sizes
  <2> QED
    BY <2>1
<1> QED
  BY <1>1, <1>2, <1>3, <1>4, Sizes

LEMMA EncodeNormalizeInv == ASSUME EncInv, EncodeNormalize PROVE EncInv'
<1>1. Calls /\ Traced /\ InEncode /\ pc = "encode" /\ pc' = "encode" /\ range < TOP /\ ShiftLow
  BY DEF EncInv, EncodeNormalize
<1>2. CarryType /\ Held * SPAN + low = exact /\ low + range <= 2 * SPAN /\ flushed = 0
      /\ (NoCarry => low + range <= SPAN)
  BY <1>1 DEF InEncode
<1>3. PICK r \in Nat : r = range /\ r >= 1 /\ r < TOP
  BY <1>1, HereIs
<1>4. low \in Nat /\ low < 2 * SPAN /\ SPAN \in Nat /\ TOP \in Nat /\ BASE \in Nat /\ BASE >= 2
  BY <1>2, Sizes, Base DEF CarryType
<1>5. NoCarry => low < SPAN
  BY <1>2, <1>3, <1>4
<1>6. /\ CarryType'
      /\ low' = (low % TOP) * BASE /\ low' < SPAN
      /\ Len(out)' + cacheSize' = Len(out) + cacheSize + 1
      /\ NoCarry' => (low \div TOP) % BASE = BASE - 1 /\ (NoCarry \/ ~ low < SPAN)
  BY <1>1, <1>2, <1>5, ShiftLowIs
<1>7. Held' * SPAN + low' = exact * BASE
  BY <1>1, <1>2, <1>5, ShiftValue
<1>8. /\ range' = r * BASE /\ exact' = exact * BASE
      /\ UNCHANGED <<caller, ops, pc, done, i, node, value, probs, flushed, coded, decoder>>
  BY <1>3 DEF EncodeNormalize
<1>9. Calls'
  BY <1>1, <1>8 DEF Calls
<1>10. NormStep(Here, Here')
  <2>1. Here = Entry(i, node, range, exact, Len(out) + cacheSize - 1 - flushed, done, probs)
    BY <1>1 DEF Here
  <2>2. Here' = Entry(i, node, r * BASE, exact * BASE, Len(out)' + cacheSize' - 1 - flushed, done, probs)
    BY <1>1, <1>8 DEF Here
  <2>3. Len(out)' + cacheSize' - 1 - flushed = (Len(out) + cacheSize - 1 - flushed) + 1
    <3>1. Len(out) + cacheSize \in Nat /\ flushed \in Nat
      BY <1>2 DEF CarryType
    <3>2. PICK a \in Nat, b \in Nat : a = Len(out)' /\ b = cacheSize'
      BY <1>6 DEF CarryType
    <3>3. PICK c \in Nat, d \in Nat, f \in Nat : c = Len(out) /\ d = cacheSize /\ f = flushed
      BY <1>2 DEF CarryType
    <3>4. a + b = c + d + 1
      BY <3>2, <3>3, <1>6
    <3>5. a + b - 1 - f = (c + d - 1 - f) + 1
      BY <3>4
    <3> QED
      BY <3>2, <3>3, <3>5
  <2>4. /\ Here.i = i /\ Here.node = node /\ Here.range = r /\ Here.exact = exact
        /\ Here.norms = Len(out) + cacheSize - 1 - flushed /\ Here.done = done /\ Here.probs = probs
    BY <2>1, <1>3 DEF Entry
  <2> QED
    BY <2>2, <2>3, <2>4, <1>3 DEF NormStep
<1>11. Traced'
  BY <1>1, <1>8, <1>10, TracedNext DEF EncStep
<1>12. r * BASE \in Nat /\ r * BASE <= SPAN
  <2>1. r * BASE + BASE <= TOP * BASE /\ r * BASE \in Nat
    BY <1>3, <1>4, Times
  <2> QED
    BY <2>1, <1>4, Sizes
<1>13. low' \in Nat
  BY <1>6 DEF CarryType
<1>14. low' + range' <= 2 * SPAN
  BY <1>4, <1>6, <1>8, <1>12, <1>13
<1>15. ASSUME NoCarry' PROVE low' + range' <= SPAN
  <2>1. PICK q \in 0 .. 2 * BASE - 1, m \in 0 .. TOP - 1 :
          /\ low = TOP * q + m /\ q = low \div TOP /\ m = low % TOP
          /\ low < SPAN <=> q < BASE
          /\ q < BASE => low \div SPAN = 0 /\ q % BASE = q
          /\ ~ q < BASE => low \div SPAN = 1 /\ q % BASE = q - BASE
    BY <1>4, LowDigits
  <2>2. q \in Nat /\ m \in Nat
    BY <1>4
  <2>3. q % BASE = BASE - 1 /\ (NoCarry \/ ~ low < SPAN)
    BY <1>6, <1>15, <2>1
  <2>4. m + r <= TOP
    <3>1. CASE low < SPAN
      <4>1. q = BASE - 1 /\ low + r <= SPAN
        BY <2>1, <2>3, <3>1, <1>2, <1>3
      <4>2. TOP * (BASE - 1) + TOP = SPAN
        <5>1. TOP * (BASE - 1) + TOP = TOP * BASE
          BY <1>4
        <5> QED
          BY <5>1, Sizes
      <4>3. TOP * (BASE - 1) \in Nat
        BY <1>4
      <4> QED
        BY <4>1, <4>2, <4>3, <2>1, <2>2, <1>3, <1>4
    <3>2. CASE ~ low < SPAN
      <4>1. q = 2 * BASE - 1 /\ low + r <= 2 * SPAN
        BY <2>1, <2>2, <2>3, <3>2, <1>2, <1>3, <1>4
      <4>2. TOP * (2 * BASE - 1) + TOP = 2 * SPAN
        <5>1. TOP * (2 * BASE - 1) + TOP = 2 * (TOP * BASE)
          BY <1>4
        <5> QED
          BY <5>1, Sizes
      <4>3. TOP * (2 * BASE - 1) \in Nat
        BY <1>4
      <4> QED
        BY <4>1, <4>2, <4>3, <2>1, <2>2, <1>3, <1>4
    <3> QED
      BY <3>1, <3>2
  <2>5. (m + r) * BASE <= TOP * BASE /\ (m + r) * BASE = m * BASE + r * BASE
    <3>1. m + r \in Nat
      BY <2>2, <1>3
    <3>2. (m + r) * BASE <= TOP * BASE
      BY <3>1, <2>4, <1>4, Times
    <3> QED
      BY <3>2, <2>2, <1>3, <1>4
  <2>6. low' = m * BASE /\ TOP * BASE = SPAN
    BY <1>6, <2>1, Sizes
  <2> QED
    BY <2>5, <2>6, <1>8
<1>16. InEncode'
  BY <1>2, <1>6, <1>7, <1>8, <1>14, <1>15 DEF InEncode
<1>17. Ended' /\ InFlush' /\ Written'
  BY <1>1 DEF Ended, InFlush, Written, Results
<1> QED
  BY <1>9, <1>11, <1>16, <1>17 DEF EncInv

LEMMA EncodeReturnInv == ASSUME EncInv, EncodeReturn PROVE EncInv'
<1>1. Calls /\ Traced /\ InEncode /\ pc = "encode" /\ pc' = "encode" /\ range >= TOP
      /\ done < Len(ops) /\ i = ops[done + 1].bits
  BY DEF EncInv, EncodeReturn, Encoding
<1>2. /\ done' = done + 1 /\ i' = 0 /\ node' = 1
      /\ UNCHANGED <<caller, ops, pc, range, low, exact, cache, cacheSize, out, flushed, probs>>
  BY DEF EncodeReturn, encoder
<1>3. Calls'
  BY <1>1, <1>2 DEF Calls
<1>4. ReturnStep(ops, Here, Here')
  <2>1. Here = Entry(i, node, range, exact, Len(out) + cacheSize - 1 - flushed, done, probs)
    BY <1>1 DEF Here
  <2>2. Here' = Entry(0, 1, range, exact, Len(out) + cacheSize - 1 - flushed, done + 1, probs)
    BY <1>1, <1>2 DEF Here
  <2>3. /\ Here.i = i /\ Here.range = range /\ Here.exact = exact
        /\ Here.norms = Len(out) + cacheSize - 1 - flushed /\ Here.done = done /\ Here.probs = probs
    BY <2>1 DEF Entry
  <2> QED
    BY <2>2, <2>3, <1>1 DEF ReturnStep
<1>5. Traced'
  BY <1>1, <1>2, <1>4, TracedNext DEF EncStep
<1>6. InEncode'
  BY <1>1, <1>2 DEF InEncode, CarryType, NoCarry, Held
<1>7. Ended' /\ InFlush' /\ Written'
  BY <1>1 DEF Ended, InFlush, Written, Results
<1> QED
  BY <1>3, <1>5, <1>6, <1>7 DEF EncInv

LEMMA FinishInv == ASSUME EncInv, Finish PROVE EncInv'
<1>1. Calls /\ Traced /\ InEncode /\ pc = "encode" /\ pc' = "flush" /\ range >= TOP
      /\ done = Len(ops)
  BY DEF EncInv, Finish
<1>2. UNCHANGED <<caller, ops, done, range, low, exact, cache, cacheSize, out, flushed, probs>>
  BY DEF Finish, encoder
<1>3. Calls'
  BY <1>1, <1>2 DEF Calls
<1>4. UNCHANGED <<i, node>>
  BY DEF Finish
<1>5. i = 0 /\ node = 1
  BY <1>1, HereIs
<1>6. Here' = Here
  BY <1>1, <1>2, <1>5 DEF Here
<1>7. Traced'
  BY <1>1, <1>2, <1>6, TracedKept
<1>8. CarryType /\ flushed = 0 /\ Held * SPAN + low = exact /\ low + range <= 2 * SPAN
      /\ (NoCarry => low + range <= SPAN)
  BY <1>1 DEF InEncode
<1>9. CarryType' /\ Held' = Held /\ (NoCarry' => NoCarry)
  BY <1>2, <1>8 DEF CarryType, NoCarry, Held
<1>10. low \in Nat /\ range \in Nat /\ range >= 1 /\ exact \in Nat /\ SPAN \in Nat
  BY <1>1, <1>8, HereIs, Sizes DEF CarryType
<1>11. NoCarry => low < SPAN
  BY <1>8, <1>10
<1>12. exact * Power(BASE, 0) = exact /\ low = low * Power(BASE, 0)
  <2>1. Power(BASE, 0) = 1
    BY Base, PowerIs
  <2>2. exact * 1 = exact /\ low = low * 1
    BY <1>10
  <2> QED
    BY <2>1, <2>2
<1>13. InFlush'
  BY <1>2, <1>8, <1>9, <1>10, <1>11, <1>12 DEF InFlush
<1>14. Ended' /\ InEncode' /\ Written'
  BY <1>1, <1>2 DEF Ended, InEncode, Written, Results
<1> QED
  BY <1>3, <1>7, <1>13, <1>14 DEF EncInv

LEMMA FlushInv == ASSUME EncInv, Flush PROVE EncInv'
<1>1. Calls /\ Traced /\ InFlush /\ Ended /\ pc = "flush" /\ pc' = "flush" /\ ShiftLow
  BY DEF EncInv, Flush
<1>2. PICK k \in 0 .. 4 : k = flushed
  BY <1>1 DEF InFlush, Flush
<1>3. /\ CarryType /\ (NoCarry => low < SPAN) /\ (flushed >= 1 => low < SPAN)
      /\ Held * SPAN + low = exact * Power(BASE, k)
  BY <1>1, <1>2 DEF InFlush
<1>4. PICK m \in Nat : low = m * Power(BASE, k)
  BY <1>1, <1>2 DEF InFlush
<1>5. PICK p \in Nat \ {0} : p = Power(BASE, k) /\ Power(BASE, k + 1) = BASE * p
  <2>1. k \in Nat
    OBVIOUS
  <2>2. Power(BASE, k) \in Nat \ {0} /\ Power(BASE, k + 1) = BASE * Power(BASE, k)
    BY <2>1, Base, PowerIs
  <2> QED
    BY <2>2
<1>6. /\ CarryType'
      /\ low' = (low % TOP) * BASE /\ low' < SPAN
      /\ Len(out)' + cacheSize' = Len(out) + cacheSize + 1
      /\ NoCarry' => (low \div TOP) % BASE = BASE - 1 /\ (NoCarry \/ ~ low < SPAN)
  BY <1>1, <1>3, ShiftLowIs
<1>7. Held' * SPAN + low' = (exact * p) * BASE
  BY <1>1, <1>3, <1>5, ShiftValue
<1>8. /\ flushed' = k + 1
      /\ UNCHANGED <<caller, ops, pc, done, i, node, value, range, probs, exact, coded, decoder>>
  BY <1>2 DEF Flush
<1>9. Calls'
  BY <1>1, <1>8 DEF Calls
<1>10. Here' = Here
  <2>2. PICK a \in Nat, b \in Nat : a = Len(out)' /\ b = cacheSize'
    BY <1>6 DEF CarryType
  <2>3. PICK c \in Nat, d \in Nat : c = Len(out) /\ d = cacheSize
    BY <1>3 DEF CarryType
  <2>1. a + b = c + d + 1
    BY <2>2, <2>3, <1>6
  <2>5. a + b - 1 - (k + 1) = c + d - 1 - k
    BY <2>1
  <2>4. Len(out)' + cacheSize' - 1 - flushed' = Len(out) + cacheSize - 1 - flushed
    BY <2>2, <2>3, <2>5, <1>2, <1>8
  <2> QED
    BY <2>4, <1>1, <1>8 DEF Here
<1>11. Traced'
  BY <1>1, <1>8, <1>10, TracedKept
<1>12. exact' * Power(BASE, flushed') = (exact * p) * BASE
  <2>1. exact \in Nat
    BY <1>1, HereIs
  <2>2. exact * (BASE * p) = (exact * p) * BASE
    BY <2>1, Base
  <2> QED
    BY <2>2, <1>5, <1>8
<1>13. k = 4 => low = 0
  <2> SUFFICES ASSUME k = 4 PROVE low = 0
    OBVIOUS
  <2>1. p = SPAN
    <3>1. /\ Power(BASE, 0) = 1 /\ Power(BASE, 0 + 1) = BASE * Power(BASE, 0)
          /\ Power(BASE, 1 + 1) = BASE * Power(BASE, 1) /\ Power(BASE, 2 + 1) = BASE * Power(BASE, 2)
          /\ Power(BASE, 3 + 1) = BASE * Power(BASE, 3)
      BY Base, PowerIs
    <3>2. Power(BASE, 4) = BASE * (BASE * (BASE * (BASE * 1)))
      BY <3>1
    <3>3. BASE * (BASE * (BASE * (BASE * 1))) = (BASE * BASE * BASE) * BASE
      BY Base
    <3> QED
      BY <3>2, <3>3, <1>5, Sizes
  <2>2. low < SPAN /\ low = m * SPAN
    BY <2>1, <1>2, <1>3, <1>4, <1>5
  <2>3. m # 0 => 1 * SPAN <= m * SPAN
    BY Sizes, Times
  <2>4. m = 0
    <3>1. 1 * SPAN = SPAN /\ SPAN \in Nat /\ low \in Nat
      BY <1>3, Sizes DEF CarryType
    <3> QED
      BY <2>2, <2>3, <3>1
  <2>5. 0 * SPAN = 0
    BY Sizes
  <2> QED
    BY <2>2, <2>4, <2>5
<1>14. \E n \in Nat : low' = n * Power(BASE, flushed')
  <2>1. CASE k = 4
    <3>1. low % TOP = 0
      <4>1. 0 = TOP * 0 + 0 /\ 0 \in 0 .. TOP - 1 /\ TOP \in Nat \ {0} /\ 0 \in Nat
        BY Sizes
      <4>2. 0 % TOP = 0
        BY <4>1, DivRemIs
      <4> QED
        BY <4>2, <1>13, <2>1
    <3>2. low' = 0
      BY <3>1, <1>6, Base
    <3>3. 0 * (BASE * p) = 0
      BY Base
    <3> QED
      BY <3>2, <3>3, <1>5, <1>8
  <2>2. CASE k \in 0 .. 3
    <3>1. PICK a \in Nat \ {0} : TOP = a * p
      <4>1. /\ Power(BASE, 0) = 1 /\ Power(BASE, 0 + 1) = BASE * Power(BASE, 0)
            /\ Power(BASE, 1 + 1) = BASE * Power(BASE, 1) /\ Power(BASE, 2 + 1) = BASE * Power(BASE, 2)
        BY Base, PowerIs
      <4>2. Power(BASE, 1) = BASE * 1 /\ Power(BASE, 2) = BASE * (BASE * 1)
            /\ Power(BASE, 3) = BASE * (BASE * (BASE * 1))
        BY <4>1
      <4>3. CASE k = 0
        <5>1. TOP = TOP * 1 /\ TOP \in Nat \ {0}
          BY Sizes
        <5> QED
          BY <5>1, <4>1, <4>3, <1>5
      <4>4. CASE k = 1
        <5>1. TOP = (BASE * BASE) * (BASE * 1) /\ BASE * BASE \in Nat \ {0}
          BY Base DEF TOP
        <5> QED
          BY <5>1, <4>2, <4>4, <1>5
      <4>5. CASE k = 2
        <5>1. TOP = BASE * (BASE * (BASE * 1)) /\ BASE \in Nat \ {0}
          BY Base DEF TOP
        <5> QED
          BY <5>1, <4>2, <4>5, <1>5
      <4>6. CASE k = 3
        <5>1. TOP = 1 * (BASE * (BASE * (BASE * 1)))
          BY Base DEF TOP
        <5> QED
          BY <5>1, <4>2, <4>6, <1>5
      <4> QED
        BY <2>2, <4>3, <4>4, <4>5, <4>6
    <3>2. (m * p) % (a * p) = (m % a) * p
      BY RemTimes
    <3>3. PICK n \in Nat : n = m % a
      BY DivRem
    <3>4. low' = (n * p) * BASE
      BY <3>1, <3>2, <3>3, <1>4, <1>5, <1>6
    <3>5. (n * p) * BASE = n * (BASE * p)
      BY Base
    <3> QED
      BY <3>4, <3>5, <1>5, <1>8
  <2> QED
    BY <2>1, <2>2
<1>15. flushed' = 5 => cache' = 0 /\ cacheSize' = 1
  <2> SUFFICES ASSUME k = 4 PROVE cache' = 0 /\ cacheSize' = 1
    BY <1>8
  <2>1. low = 0
    BY <1>13
  <2>2. low \div TOP = 0
    <3>1. 0 = TOP * 0 + 0 /\ 0 \in 0 .. TOP - 1 /\ TOP \in Nat \ {0} /\ 0 \in Nat
      BY Sizes
    <3>2. 0 \div TOP = 0
      BY <3>1, DivRemIs
    <3> QED
      BY <3>2, <2>1
  <2>3. ~ MustWait
    BY <2>2, Base DEF MustWait
  <2>4. 0 % BASE = 0
    <3>1. 0 = BASE * 0 + 0 /\ 0 \in 0 .. BASE - 1 /\ 0 \in Nat
      BY Base
    <3> QED
      BY <3>1, Base, DivRemIs
  <2> QED
    BY <1>1, <2>2, <2>3, <2>4 DEF ShiftLow
<1>16. InFlush'
  <2>1. flushed' \in 0 .. 5
    BY <1>8
  <2> QED
    BY <2>1, <1>6, <1>7, <1>12, <1>14, <1>15 DEF InFlush
<1>17. Ended' /\ InEncode' /\ Written'
  BY <1>1, <1>8 DEF Ended, InEncode, Written, Results
<1> QED
  BY <1>9, <1>11, <1>16, <1>17 DEF EncInv

LEMMA FlushedInv == ASSUME EncInv, Flushed PROVE EncInv'
<1>1. Calls /\ Traced /\ InFlush /\ Ended /\ pc = "flush" /\ pc' = "stored" /\ flushed = 5
  BY DEF EncInv, Flushed
<1>2. UNCHANGED <<caller, ops, done, range, low, exact, cache, cacheSize, out, flushed, probs>>
  BY DEF Flushed, encoder
<1>3. CarryType /\ low < SPAN /\ Held * SPAN + low = exact * Power(BASE, 5) /\ cache = 0 /\ cacheSize = 1
  BY <1>1 DEF InFlush
<1>4. PICK m \in Nat : low = m * Power(BASE, 5)
  BY <1>1 DEF InFlush
<1>5. Power(BASE, 5) = SPAN * BASE
  <2>1. /\ Power(BASE, 0) = 1 /\ Power(BASE, 0 + 1) = BASE * Power(BASE, 0)
        /\ Power(BASE, 1 + 1) = BASE * Power(BASE, 1) /\ Power(BASE, 2 + 1) = BASE * Power(BASE, 2)
        /\ Power(BASE, 3 + 1) = BASE * Power(BASE, 3) /\ Power(BASE, 4 + 1) = BASE * Power(BASE, 4)
    BY Base, PowerIs
  <2>2. Power(BASE, 5) = BASE * (BASE * (BASE * (BASE * (BASE * 1))))
    BY <2>1
  <2>3. BASE * (BASE * (BASE * (BASE * (BASE * 1)))) = ((BASE * BASE * BASE) * BASE) * BASE
    BY Base
  <2> QED
    BY <2>2, <2>3, Sizes
<1>6. low = 0
  <2>1. m # 0 => 1 * (SPAN * BASE) <= m * (SPAN * BASE)
    <3>1. SPAN * BASE \in Nat
      BY Sizes, Base
    <3> QED
      BY <3>1, Times
  <2>2. SPAN <= SPAN * BASE /\ SPAN * BASE \in Nat /\ 1 * (SPAN * BASE) = SPAN * BASE
    <3>1. 1 * SPAN <= BASE * SPAN /\ 1 * SPAN = SPAN /\ BASE * SPAN = SPAN * BASE
      BY Sizes, Base, Times
    <3> QED
      BY <3>1, Sizes, Base
  <2>3. PICK z \in Nat : z = SPAN * BASE
    BY <2>2
  <2>4. low = m * z /\ (m # 0 => z <= m * z) /\ SPAN <= z /\ low < SPAN /\ low \in Nat /\ SPAN \in Nat
    BY <2>1, <2>2, <2>3, <1>3, <1>4, <1>5, Sizes DEF CarryType
  <2>5. m = 0
    BY <2>4
  <2> QED
    BY <2>4, <2>5
<1>7. Number(out, 0) = exact
  <2>1. out \in Seq(Nat) /\ 0 \in Nat
    BY <1>3, Base DEF CarryType, Digit
  <2>2. PICK x \in Nat : x = Number(out, 0)
    BY <2>1, NumberType
  <2>3. Hold(out, 0, 0) = Number(out, 0) * BASE + 0
    BY <2>1, HoldIs
  <2>4. Held = Hold(out, 0, 1 - 1) /\ 1 - 1 = 0
    BY <1>3 DEF Held
  <2>5. PICK y \in Nat : y = exact
    BY <1>1, HereIs
  <2>6. Held = x * BASE
    <3>1. x * BASE + 0 = x * BASE
      BY Base
    <3> QED
      BY <2>2, <2>3, <2>4, <3>1
  <2>7. (x * BASE) * SPAN = y * (SPAN * BASE)
    <3>1. (x * BASE) * SPAN + 0 = (x * BASE) * SPAN
      BY Base, Sizes
    <3> QED
      BY <3>1, <2>5, <2>6, <1>3, <1>5, <1>6
  <2>8. PICK z \in Nat \ {0} : z = SPAN * BASE
    <3>1. SPAN * BASE \in Nat \ {0}
      BY Sizes, Base
    <3> QED
      BY <3>1
  <2>9. x * z = y * z
    <3>1. (x * BASE) * SPAN = x * (SPAN * BASE)
      BY Base, Sizes
    <3> QED
      BY <3>1, <2>7, <2>8
  <2>10. ~ x < y
    <3>1. x < y => x * z + z <= y * z
      BY Times
    <3>2. x * z \in Nat
      BY Times
    <3> QED
      BY <3>1, <3>2, <2>9
  <2>11. ~ y < x
    <3>1. y < x => y * z + z <= x * z
      BY Times
    <3>2. y * z \in Nat
      BY Times
    <3> QED
      BY <3>1, <3>2, <2>9
  <2> QED
    BY <2>2, <2>5, <2>10, <2>11
<1>8. out # <<>>
  <2>1. Len(out) + 1 - 1 - 5 \in Nat
    BY <1>1, <1>3, HereIs
  <2>2. Len(out) \in Nat
    BY <1>3 DEF CarryType
  <2>3. Len(out) # 0
    BY <2>1, <2>2
  <2> QED
    BY <2>3
<1>9. out \in Seq(Digit) /\ out[1] = 0
  BY <1>3, <1>8 DEF CarryType
<1>10. Calls'
  BY <1>1, <1>2 DEF Calls
<1>11. Here' = Here
  BY <1>1, <1>2 DEF Here
<1>12. Traced'
  BY <1>1, <1>2, <1>11, TracedKept
<1>13. Written'
  BY <1>1, <1>2, <1>3, <1>7, <1>8, <1>9 DEF Written
<1>14. Ended' /\ InEncode' /\ InFlush'
  BY <1>1, <1>2 DEF Ended, InEncode, InFlush
<1> QED
  BY <1>10, <1>12, <1>13, <1>14 DEF EncInv

LEMMA EncKept ==
    ASSUME EncInv, UNCHANGED <<caller, ops, done, range, low, exact, cache, cacheSize, out, flushed, probs>>,
           \/ UNCHANGED <<pc, i, node>>
           \/ pc \in {"stored", "decode"} \cup Results /\ pc' \in {"stored", "decode"} \cup Results
    PROVE  EncInv'
<1>1. Calls /\ Traced /\ Ended /\ InEncode /\ InFlush /\ Written
  BY DEF EncInv
<1>2. Here' = Here
  BY DEF Here, Results
<1>3. Traced'
  BY <1>1, <1>2, TracedKept
<1>4. Calls' /\ Ended' /\ Written'
  BY <1>1 DEF Calls, Ended, Written, Results
<1>5. CarryType' = CarryType /\ NoCarry' = NoCarry /\ Held' = Held
  BY DEF CarryType, NoCarry, Held
<1>6. InEncode' /\ InFlush'
  BY <1>1, <1>5 DEF InEncode, InFlush, Results
<1> QED
  BY <1>3, <1>4, <1>6 DEF EncInv

\* The encoder's part of the invariant, whatever step is taken.
LEMMA EncNext ==
    ASSUME EncInv, [Next]_vars, pc = "decode" => dpos \in Nat /\ kept \in Nat
    PROVE  EncInv'
<1>1. CASE EncodeBit
  BY <1>1, EncodeBitInv
<1>2. CASE EncodeNormalize
  BY <1>2, EncodeNormalizeInv
<1>3. CASE EncodeReturn
  BY <1>3, EncodeReturnInv
<1>4. CASE Finish
  BY <1>4, FinishInv
<1>5. CASE Flush
  BY <1>5, FlushInv
<1>6. CASE Flushed
  BY <1>6, FlushedInv
<1>7. CASE DecoderNew
  <2>1. UNCHANGED <<caller, ops, done, range, low, exact, cache, cacheSize, out, flushed, probs>>
    BY <1>7 DEF DecoderNew, encoder
  <2>2. pc = "stored" /\ pc' \in {"eof", "corrupt", "decode"}
    <3>1. PICK n \in 0 .. Len(out) :
            pc' = CASE n = 0 -> "eof"
                    [] n > 0 /\ out[1] # 0 -> "corrupt"
                    [] OTHER -> "decode"
      BY <1>7 DEF DecoderNew
    <3>2. pc = "stored"
      BY <1>7 DEF DecoderNew
    <3> QED
      BY <3>1, <3>2
  <2> QED
    BY <2>1, <2>2, EncKept DEF Results
<1>8. CASE Decode
  <2>1. UNCHANGED <<caller, ops, done, range, low, exact, cache, cacheSize, out, flushed, probs>>
    BY <1>8 DEF Decode, DecodeBit, DecodeNormalize, DecodeReturn, DecoderFinish, encoder
  <2>2. pc = "decode" /\ pc' \in {"decode"} \cup Results
    <3>1. pc = "decode"
      BY <1>8 DEF Decode, DecodeBit, DecodeNormalize, DecodeReturn, DecoderFinish, Decoding
    <3>2. Verdict \in Results
      BY <3>1 DEF Verdict, Results
    <3>3. pc' = "decode" \/ pc' = Verdict
      BY <1>8, <3>1 DEF Decode, DecodeBit, DecodeNormalize, DecodeReturn, DecoderFinish
    <3> QED
      BY <3>1, <3>2, <3>3
  <2> QED
    BY <2>1, <2>2, EncKept
<1>9. CASE UNCHANGED vars
  <2>1. UNCHANGED <<caller, ops, done, range, low, exact, cache, cacheSize, out, flushed, probs>>
        /\ UNCHANGED <<pc, i, node>>
    BY <1>9 DEF vars, encoder
  <2> QED
    BY <2>1, EncKept
<1> QED
  BY <1>1, <1>2, <1>3, <1>4, <1>5, <1>6, <1>7, <1>8, <1>9 DEF Next, Encode

LEMMA CarryExactIs ==
    ASSUME EncInv
    PROVE  CarryExact
<1> SUFFICES ASSUME pc = "encode"
             PROVE  /\ Held * SPAN + low = exact
                    /\ Head(out \o <<cache>>) = 0
  BY DEF CarryExact, Held, Hold, Run
<1>1. CarryType /\ Held * SPAN + low = exact
  BY DEF EncInv, InEncode
<1>2. CASE out = <<>>
  <2>1. cache = 0 /\ cache \in Digit
    BY <1>1, <1>2 DEF CarryType
  <2>2. out \o <<cache>> = <<cache>>
    BY <1>2, <2>1
  <2>3. Head(<<cache>>) = cache
    BY <2>1
  <2> QED
    BY <1>1, <2>1, <2>2, <2>3
<1>3. CASE out # <<>>
  <2>1. PICK o \in Seq(Digit), c \in Digit : o = out /\ c = cache /\ o # <<>> /\ o[1] = 0
    BY <1>1, <1>3 DEF CarryType
  <2>2. 1 \in 1 .. Len(o)
    BY <2>1, EmptySeq
  <2>3. (o \o <<c>>)[1] = o[1]
    BY <2>2, ConcatProperties
  <2>4. o \o <<c>> \in Seq(Digit)
    OBVIOUS
  <2>5. Head(o \o <<c>>) = (o \o <<c>>)[1]
    BY <2>4
  <2> QED
    BY <1>1, <2>1, <2>3, <2>5
<1> QED
  BY <1>2, <1>3

-----------------------------------------------------------------------------
(* The decoder.                                                             *)

\* Less of something is less.
LEMMA Cancel ==
    ASSUME NEW a \in Nat, NEW b \in Nat, NEW s \in Nat \ {0}, a * s < b * s
    PROVE  a < b
<1>1. b <= a => b * s <= a * s
  BY Times
<1>2. a * s \in Nat /\ b * s \in Nat
  BY Times
<1> QED
  BY <1>1, <1>2

\* What the value of an operation is after k bits of it.
Part(op, k) ==
    IF op.kind = "reverse" THEN op.value % Power(2, k) ELSE op.value \div Power(2, op.bits - k)

LEMMA PowerTwo ==
    ASSUME NEW n \in Nat
    PROVE  Power(2, n) \in Nat \ {0} /\ Power(2, 0) = 1 /\ Power(2, n + 1) = 2 * Power(2, n)
<1>1. 2 \in Nat \ {0}
  OBVIOUS
<1> QED
  BY <1>1, PowerIs

LEMMA PartEnds ==
    ASSUME NEW op, Possible(op)
    PROVE  Part(op, 0) = 0 /\ Part(op, op.bits) = op.value
<1>1. PICK v \in Nat, b \in Nat : v = op.value /\ b = op.bits /\ v < Power(2, b)
  BY PossibleIs
<1>2. PICK p \in Nat \ {0} : p = Power(2, b) /\ v < p
  BY <1>1, PowerTwo
<1>3. Power(2, 0) = 1 /\ b - 0 = b /\ b - b = 0
  BY PowerTwo
<1>4. v = p * 0 + v /\ v \in 0 .. p - 1 /\ v = 1 * v + 0 /\ 0 \in 0 .. 1 - 1 /\ 1 \in Nat \ {0} /\ 0 \in Nat
  BY <1>2
<1>5. v \div p = 0 /\ v % p = v
  BY <1>4, DivRemIs
<1>6. v \div 1 = v /\ v % 1 = 0
  BY <1>4, DivRemIs
<1>7. CASE op.kind = "reverse"
  BY <1>1, <1>2, <1>3, <1>5, <1>6, <1>7 DEF Part
<1>8. CASE op.kind # "reverse"
  BY <1>1, <1>2, <1>3, <1>5, <1>6, <1>8 DEF Part
<1> QED
  BY <1>7, <1>8

LEMMA PartNext ==
    ASSUME NEW op, Possible(op), NEW k \in Nat, k < op.bits
    PROVE  Part(op, k + 1) = IF op.kind = "reverse" THEN Part(op, k) + BitOf(op, k) * Power(2, k)
                             ELSE 2 * Part(op, k) + BitOf(op, k)
<1>1. PICK v \in Nat, b \in Nat : v = op.value /\ b = op.bits /\ k < b
  BY PossibleIs
<1>2. CASE op.kind = "reverse"
  <2>1. PICK p \in Nat \ {0} : p = Power(2, k) /\ Power(2, k + 1) = 2 * p
    <3>1. Power(2, k) \in Nat \ {0} /\ Power(2, k + 1) = 2 * Power(2, k)
      BY PowerTwo
    <3> QED
      BY <3>1
  <2>2. PICK q \in Nat, r \in 0 .. p - 1 : q = v \div p /\ r = v % p /\ v = p * q + r
    BY DivRem
  <2>3. PICK e \in Nat, s \in 0 .. 1 : s = q % 2 /\ q = 2 * e + s
    BY DivRem
  <2>4. v = (2 * p) * e + (s * p + r)
    <3>1. p * (2 * e + s) + r = (2 * p) * e + (s * p + r)
      OBVIOUS
    <3> QED
      BY <3>1, <2>2, <2>3
  <2>5. s * p + r \in 0 .. 2 * p - 1
    <3>1. s * p = IF s = 1 THEN p ELSE 0
      OBVIOUS
    <3> QED
      BY <3>1
  <2> DEFINE y == 2 * p
             z == s * p + r
  <2>6. y \in Nat \ {0} /\ z \in 0 .. y - 1 /\ v = y * e + z
    BY <2>4, <2>5
  <2> HIDE DEF y, z
  <2>7. v % y = z
    BY <2>6, DivRemIs
  <2>8. BitOf(op, k) = s
    BY <1>1, <1>2, <2>1, <2>2, <2>3 DEF BitOf
  <2>9. Part(op, k + 1) = s * p + r /\ Part(op, k) = r
    BY <1>1, <1>2, <2>1, <2>2, <2>7 DEF Part, y, z
  <2>10. r + s * p = s * p + r
    OBVIOUS
  <2> QED
    BY <1>2, <2>1, <2>8, <2>9, <2>10
<1>3. CASE op.kind # "reverse"
  <2>1. PICK m \in Nat : m = b - 1 - k /\ m + 1 = b - k /\ m = b - (k + 1)
    BY <1>1
  <2>2. PICK a \in Nat \ {0} : a = Power(2, m) /\ Power(2, m + 1) = 2 * a
    <3>1. Power(2, m) \in Nat \ {0} /\ Power(2, m + 1) = 2 * Power(2, m)
      BY PowerTwo
    <3> QED
      BY <3>1
  <2>3. PICK q \in Nat : q = v \div a
    BY DivRem
  <2>4. PICK e \in Nat, s \in 0 .. 1 : e = q \div 2 /\ s = q % 2 /\ q = 2 * e + s
    BY DivRem
  <2>5. e = v \div (2 * a)
    <3>1. 2 \in Nat \ {0}
      OBVIOUS
    <3>2. (v \div a) \div 2 = v \div (2 * a)
      BY <3>1, DivDiv
    <3> QED
      BY <3>2, <2>3, <2>4
  <2>6. BitOf(op, k) = s
    BY <1>1, <1>3, <2>1, <2>2, <2>3, <2>4 DEF BitOf
  <2>7. Part(op, k + 1) = q
    BY <1>1, <1>3, <2>1, <2>2, <2>3 DEF Part
  <2>8. Part(op, k) = e
    BY <1>1, <1>3, <2>1, <2>2, <2>5 DEF Part
  <2> QED
    BY <1>3, <2>4, <2>6, <2>7, <2>8
<1> QED
  BY <1>2, <1>3

LEMMA QuestionIs ==
    ASSUME NEW op, Possible(op)
    PROVE  /\ Question(op).kind = op.kind /\ Question(op).bits = op.bits
           /\ Question(op) # Done
           /\ [Question(op) EXCEPT !.value = op.value] = op
           /\ \A nd, r, ps, bit :
                /\ BoundAt(nd, Question(op), r, ps) = BoundAt(nd, op, r, ps)
                /\ RangeOf(nd, Question(op), r, ps, bit) = RangeOf(nd, op, r, ps, bit)
                /\ ProbsOf(nd, Question(op), ps, bit) = ProbsOf(nd, op, ps, bit)
<1> DEFINE qn == Question(op)
<1>1. op = [kind |-> op.kind, bits |-> op.bits, value |-> op.value, p0 |-> op.p0,
            array |-> op.array, first |-> op.first]
  BY DEF Possible, Call
<1>2. qn = [kind |-> op.kind, bits |-> op.bits, value |-> 0, p0 |-> op.p0,
            array |-> op.array, first |-> op.first]
  BY <1>1 DEF Question
<1>3. /\ qn.kind = op.kind /\ qn.bits = op.bits /\ qn.p0 = op.p0 /\ qn.array = op.array
      /\ qn.first = op.first
  BY <1>2
<1>4. [qn EXCEPT !.value = op.value]
        = [kind |-> op.kind, bits |-> op.bits, value |-> op.value, p0 |-> op.p0,
           array |-> op.array, first |-> op.first]
  BY <1>2
<1>5. op.kind \in Kinds
  BY PossibleIs
<1>6. qn # Done
  <2>1. Done.kind = "done"
    BY DEF Done, Call
  <2>2. op.kind # "done"
    BY <1>5 DEF Kinds
  <2> QED
    BY <1>3, <2>1, <2>2
<1> HIDE DEF qn
<1>7. \A nd : SlotAt(nd, qn) = SlotAt(nd, op)
  BY <1>3 DEF SlotAt
<1>8. Adaptive(qn) = Adaptive(op)
  BY <1>3 DEF Adaptive
<1>9. ASSUME NEW nd, NEW r, NEW ps, NEW bit
      PROVE  /\ BoundAt(nd, qn, r, ps) = BoundAt(nd, op, r, ps)
             /\ RangeOf(nd, qn, r, ps, bit) = RangeOf(nd, op, r, ps, bit)
             /\ ProbsOf(nd, qn, ps, bit) = ProbsOf(nd, op, ps, bit)
  <2>1. BoundAt(nd, qn, r, ps) = BoundAt(nd, op, r, ps)
    BY <1>3, <1>7, <1>8 DEF BoundAt
  <2>2. ProbsOf(nd, qn, ps, bit) = ProbsOf(nd, op, ps, bit)
    BY <1>7, <1>8 DEF ProbsOf
  <2> QED
    BY <1>3, <2>1, <2>2 DEF RangeOf
<1> QED
  BY <1>1, <1>3, <1>4, <1>6, <1>9 DEF qn

\* What was read lies in the interval the encoder had at that point.
LEMMA CodeRange ==
    ASSUME NEW o, NEW t, Good(o, t), NEW u, Good(o, u), Within(t, u),
           NEW d \in Seq(Digit), Len(d) = 5 + u.norms, Number(d, 0) = u.exact
    PROVE  /\ 5 + t.norms \in 0 .. Len(d) /\ Read(d, 5 + t.norms) \in Nat
           /\ t.exact <= Read(d, 5 + t.norms)
           /\ Read(d, 5 + t.norms) < t.exact + t.range
<1>1. PICK x \in Nat, n \in Nat, r \in Nat : x = t.exact /\ n = t.norms /\ r = t.range
  BY GoodIs
<1>2. PICK y \in Nat, m \in Nat, q \in Nat : y = u.exact /\ m = u.norms /\ q = u.range /\ q >= 1
  BY GoodIs
<1>3. n <= m
  BY <1>1, <1>2 DEF Within
<1>4. PICK k \in Nat : k = m - n /\ 5 + n + k = 5 + m
  BY <1>3
<1>5. PICK s \in Nat \ {0} : s = Power(BASE, k)
  BY Base, PowerIs
<1>6. x * s <= y /\ y + q <= (x + r) * s
  BY <1>1, <1>2, <1>4, <1>5 DEF Within
<1>7. PICK p \in 0 .. Len(d) : p = 5 + n /\ p + k = Len(d)
  BY <1>2, <1>3, <1>4
<1>8. d \in Seq(Nat)
  BY Base DEF Digit
<1>9. PICK z \in Nat : z = Read(d, p)
  BY <1>8, ReadType
<1>10. Read(d, Len(d)) = y
  <2>1. SubSeq(d, 1, Len(d)) = d
    OBVIOUS
  <2> QED
    BY <2>1, <1>2 DEF Read
<1>11. z * s <= y /\ y < (z + 1) * s
  BY <1>4, <1>5, <1>7, <1>9, <1>10, ReadWithin
<1>12. x * s \in Nat /\ (x + r) * s \in Nat /\ z * s \in Nat /\ (z + 1) * s \in Nat
  BY Times
<1> DEFINE xs == x * s
           ts == (x + r) * s
           zs == z * s
           us == (z + 1) * s
<1>17. xs \in Nat /\ ts \in Nat /\ zs \in Nat /\ us \in Nat /\ xs <= y /\ y + q <= ts /\ zs <= y /\ y < us
  BY <1>6, <1>11, <1>12
<1> HIDE DEF xs, ts, zs, us
<1>18. xs < us /\ zs < ts
  BY <1>2, <1>17
<1>13. x * s < (z + 1) * s
  BY <1>18 DEF xs, us
<1>14. z * s < (x + r) * s
  BY <1>18 DEF zs, ts
<1>15. x < z + 1
  BY <1>13, Cancel
<1>16. z < x + r
  BY <1>14, Cancel
<1> QED
  BY <1>1, <1>7, <1>9, <1>15, <1>16

\* The decoder is where the encoder was in entry t.
Sync(t) ==
    /\ got = SubSeq(ops, 1, t.done)
    /\ i = t.i /\ node = t.node /\ drange = t.range /\ dprobs = t.probs
    /\ dpos = 5 + t.norms
    /\ code \in Nat /\ code + t.exact = Read(out, dpos)
    /\ t.done < Len(ops) => value = Part(ops[t.done + 1], t.i)

Along(T, n) == History(ops, T, n, Here) /\ \E j \in 0 .. n : Sync(T[j])

Synced == \E n \in Nat : \E T : Along(T, n)

DecInv ==
    /\ pc \in {"encode", "flush", "stored"} => got = <<>> /\ dprobs = <<>> /\ value = 0
    /\ pc \in {"flush", "stored"} => i = 0 /\ node = 1
    /\ pc = "decode" =>
         /\ dpos \in Nat /\ kept \in 0 .. Len(out)
         /\ dpos <= kept => Synced
         /\ dpos > kept => kept < Len(out)
    /\ pc = "ok" => kept = Len(out) /\ got = ops
    /\ pc \in {"eof", "corrupt"} => kept < Len(out)

IInv == EncInv /\ DecInv

\* The entries, when the stream is written.
LEMMA Entries ==
    ASSUME EncInv, pc \in {"stored", "decode"}, NEW n \in Nat, NEW T, History(ops, T, n, Here),
           NEW j \in 0 .. n
    PROVE  /\ Good(ops, T[j])
           /\ 5 + T[j].norms \in 0 .. Len(out) /\ Read(out, 5 + T[j].norms) \in Nat
           /\ T[j].exact <= Read(out, 5 + T[j].norms)
           /\ Read(out, 5 + T[j].norms) < T[j].exact + T[j].range
           /\ j = n => 5 + T[j].norms = Len(out) /\ T[j].done = Len(ops) /\ T[j].range >= TOP
                       /\ T[j].range = range /\ T[j].probs = probs
           /\ j # n => j + 1 \in 0 .. n /\ EncStep(ops, T[j], T[j + 1])
<1>1. out \in Seq(Digit) /\ Number(out, 0) = exact /\ cacheSize = 1 /\ flushed = 5
  BY DEF EncInv, Written
<1>2. done = Len(ops) /\ range >= TOP
  BY DEF EncInv, Ended
<1>3. /\ Here.range = range /\ Here.exact = exact /\ Here.done = done /\ Here.probs = probs
      /\ Here.norms = Len(out) + 1 - 1 - 5
  BY <1>1 DEF Here, Entry
<1>4. Good(ops, Here)
  BY HereGood DEF EncInv
<1>5. Good(ops, T[j]) /\ Within(T[j], Here) /\ T[n] = Here
  BY DEF History
<1>6. Len(out) = 5 + Here.norms /\ Number(out, 0) = Here.exact
  <2>1. Len(out) \in Nat
    BY <1>1
  <2> QED
    BY <2>1, <1>1, <1>3
<1>10. PICK o, h : o = ops /\ h = Here
  OBVIOUS
<1>11. PICK d \in Seq(Digit) : d = out
  BY <1>1
<1>7. o = ops /\ h = Here /\ d = out
  BY <1>10, <1>11
<1>8. /\ 5 + T[j].norms \in 0 .. Len(d) /\ Read(d, 5 + T[j].norms) \in Nat
      /\ T[j].exact <= Read(d, 5 + T[j].norms)
      /\ Read(d, 5 + T[j].norms) < T[j].exact + T[j].range
  BY <1>4, <1>5, <1>6, <1>7, CodeRange
<1>9. ASSUME j # n PROVE j + 1 \in 0 .. n /\ EncStep(ops, T[j], T[j + 1])
  <2>1. j + 1 \in 1 .. n /\ (j + 1) - 1 = j
    BY <1>9
  <2>2. EncStep(ops, T[(j + 1) - 1], T[j + 1])
    BY <2>1 DEF History
  <2> QED
    BY <2>1, <2>2
<1> QED
  BY <1>2, <1>3, <1>5, <1>6, <1>7, <1>8, <1>9

\* What the decoder is asked for when it is where the encoder was.
LEMMA AskedIs ==
    ASSUME Calls, NEW t, Good(ops, t), got = SubSeq(ops, 1, t.done)
    PROVE  /\ t.done = Len(ops) => Asked = Done /\ got = ops /\ t.i = 0
           /\ t.done # Len(ops) => /\ t.done \in Nat /\ t.done + 1 \in 1 .. Len(ops)
                                   /\ Possible(ops[t.done + 1])
                                   /\ Asked = Question(ops[t.done + 1])
<1>1. /\ Sound(ops) /\ Len(ops) \in Nat
      /\ \A k \in 1 .. Len(ops) : Ask(caller, SubSeq(ops, 1, k - 1)) = Question(ops[k])
      /\ Ask(caller, ops) = Done
  BY CallsSound
<1>2. PICK m \in 0 .. Len(ops) : m = t.done
  BY DEF Good
<1>3. CASE m = Len(ops)
  <2>1. SubSeq(ops, 1, Len(ops)) = ops
    BY <1>1 DEF Sound
  <2> QED
    BY <1>1, <1>2, <1>3, <2>1 DEF Asked, Good
<1>4. CASE m # Len(ops)
  <2>1. m \in Nat /\ m + 1 \in 1 .. Len(ops) /\ (m + 1) - 1 = m
    BY <1>1, <1>2, <1>4
  <2>2. Ask(caller, SubSeq(ops, 1, (m + 1) - 1)) = Question(ops[m + 1])
    BY <1>1, <2>1
  <2> QED
    BY <1>1, <1>2, <1>4, <2>1, <2>2 DEF Asked, Sound
<1> QED
  BY <1>2, <1>3, <1>4

LEMMA SyncedNext ==
    ASSUME NEW n \in Nat, NEW T, History(ops, T, n, Here), ops' = ops, Here' = Here,
           NEW k \in 0 .. n, Sync(T[k])'
    PROVE  Synced'
<1>1. PICK o, h : o = ops /\ h = Here /\ o = ops' /\ h = Here'
  OBVIOUS
<1>2. History(o, T, n, h)
  BY <1>1
<1>3. Along(T, n)'
  BY <1>1, <1>2 DEF Along
<1> QED
  BY <1>3 DEF Synced

\* The encoder's variables and where it is.
Stored == <<caller, ops, done, range, low, exact, cache, cacheSize, out, flushed, probs>>

LEMMA StoredKept ==
    ASSUME UNCHANGED Stored, pc # "encode", pc' # "encode"
    PROVE  Here' = Here /\ ops' = ops /\ out' = out
  BY DEF Here, Stored

LEMMA DecInit == Init => DecInv
  BY DEF Init, DecInv, Results

\* Until there is a decoder, nothing of it changes.
LEMMA EncodeDec == ASSUME EncInv, DecInv, Encode PROVE DecInv'
<1>1. pc \in {"encode", "flush"} /\ pc' \in {"encode", "flush", "stored"}
      /\ (pc' \in {"flush", "stored"} /\ pc = "flush" => UNCHANGED <<i, node>>)
      /\ UNCHANGED <<got, dprobs, value>>
  BY DEF Encode, EncodeBit, EncodeNormalize, EncodeReturn, Finish, Flush, Flushed, Encoding, decoder
<1>2. pc = "encode" /\ pc' # "encode" => i' = 0 /\ node' = 1 /\ pc' = "flush"
  <2> SUFFICES ASSUME pc = "encode", pc' # "encode" PROVE i' = 0 /\ node' = 1 /\ pc' = "flush"
    OBVIOUS
  <2>1. Finish
    BY DEF Encode, EncodeBit, EncodeNormalize, EncodeReturn, Flush, Flushed, Encoding
  <2>2. Calls /\ Traced
    BY DEF EncInv
  <2> QED
    BY <2>1, <2>2, HereIs DEF Finish
<1>3. pc = "flush" => pc' # "encode"
  BY DEF Encode, EncodeBit, EncodeNormalize, EncodeReturn, Finish, Flush, Flushed, Encoding
<1> QED
  BY <1>1, <1>2, <1>3 DEF DecInv

LEMMA DecoderNewDec == ASSUME EncInv, DecInv, DecoderNew PROVE DecInv'
<1>1. Calls /\ Traced /\ Written /\ pc = "stored"
  BY DEF EncInv, DecoderNew
<1>2. /\ out \in Seq(Digit) /\ out[1] = 0 /\ cacheSize = 1 /\ flushed = 5
      /\ got = <<>> /\ dprobs = <<>> /\ value = 0 /\ i = 0 /\ node = 1
  BY <1>1 DEF Written, DecInv
<1>3. UNCHANGED Stored /\ UNCHANGED <<i, node, value, got, dprobs>> /\ dpos' = 5 /\ drange' = SPAN - 1
  BY DEF DecoderNew, encoder, Stored
<1>4. PICK L \in Nat : L = Len(out) /\ L >= 5
  <2>1. Len(out) + 1 - 1 - 5 \in Nat /\ Len(out) \in Nat
    BY <1>1, <1>2, HereIs
  <2> QED
    BY <2>1
<1>5. PICK m \in 0 .. L :
        /\ kept' = m
        /\ pc' = CASE m = 0 -> "eof"
                   [] m > 0 /\ out[1] # 0 -> "corrupt"
                   [] OTHER -> "decode"
  BY <1>4 DEF DecoderNew
<1>6. pc' = (IF m = 0 THEN "eof" ELSE "decode")
  BY <1>2, <1>5
<1>7. ASSUME m >= 5 PROVE Synced'
  <2>1. PICK d \in Seq(Nat) : d = out /\ Len(d) = L
    BY <1>2, <1>4, Base DEF Digit
  <2>2. PICK b1 \in Nat, b2 \in Nat, b3 \in Nat, b4 \in Nat :
          b1 = d[2] /\ b2 = d[3] /\ b3 = d[4] /\ b4 = d[5]
    <3>1. d[2] \in Nat /\ d[3] \in Nat /\ d[4] \in Nat /\ d[5] \in Nat
      BY <2>1, <1>4
    <3> QED
      BY <3>1
  <2>3. ByteAt(1) = b1 /\ ByteAt(2) = b2 /\ ByteAt(3) = b3 /\ ByteAt(4) = b4
    BY <1>5, <1>7, <2>1, <2>2 DEF ByteAt
  <2>4. code' = ((b1 * BASE + b2) * BASE + b3) * BASE + b4
    BY <2>3 DEF DecoderNew
  <2>5. /\ Read(d, 0) = 0
        /\ Read(d, 0 + 1) = Read(d, 0) * BASE + d[0 + 1]
        /\ Read(d, 1 + 1) = Read(d, 1) * BASE + d[1 + 1]
        /\ Read(d, 2 + 1) = Read(d, 2) * BASE + d[2 + 1]
        /\ Read(d, 3 + 1) = Read(d, 3) * BASE + d[3 + 1]
        /\ Read(d, 4 + 1) = Read(d, 4) * BASE + d[4 + 1]
    <3>1. \A p \in 0 .. 4 : p \in Nat /\ p < Len(d)
      BY <2>1, <1>4
    <3>2. \A p \in 0 .. 4 : Read(d, 0) = 0 /\ Read(d, p + 1) = Read(d, p) * BASE + d[p + 1]
      BY <3>1, ReadNext
    <3>3. 0 \in 0 .. 4 /\ 1 \in 0 .. 4 /\ 2 \in 0 .. 4 /\ 3 \in 0 .. 4 /\ 4 \in 0 .. 4
      OBVIOUS
    <3> QED
      BY <3>2, <3>3, Zenon
  <2>6. Read(d, 1) = 0
    BY <2>1, <2>5, <1>2, Base
  <2>7. 0 * BASE + b1 = b1
    BY Base
  <2>8. Read(d, 2) = b1
    BY <2>2, <2>5, <2>6, <2>7
  <2>9. Read(d, 5) = ((b1 * BASE + b2) * BASE + b3) * BASE + b4
    BY <2>2, <2>5, <2>8
  <2>10. ((b1 * BASE + b2) * BASE + b3) * BASE + b4 \in Nat
    BY Base
  <2>11. code' \in Nat /\ code' + 0 = Read(d, 5)
    BY <2>4, <2>9, <2>10
  <2>12. Sync(Start)'
    <3>1. /\ Start.i = 0 /\ Start.node = 1 /\ Start.range = SPAN - 1 /\ Start.exact = 0
          /\ Start.norms = 0 /\ Start.done = 0 /\ Start.probs = <<>>
      BY DEF Start, Entry
    <3>2. ops' = ops /\ out' = out
      BY <1>3 DEF Stored
    <3>3. PICK o \in Seq(ToSet(ops)) : o = ops
      BY <1>1, CallsSound DEF Sound
    <3>4. SubSeq(o, 1, 0) = <<>>
      OBVIOUS
    <3>5. 0 < Len(ops) => Part(ops[0 + 1], 0) = 0
      <4> SUFFICES ASSUME 0 < Len(ops) PROVE Part(ops[1], 0) = 0
        OBVIOUS
      <4>1. Possible(ops[1])
        BY <1>1, CallsSound DEF Sound
      <4> QED
        BY <4>1, PartEnds
    <3> QED
      BY <1>2, <1>3, <2>1, <2>11, <3>1, <3>2, <3>3, <3>4, <3>5 DEF Sync
  <2>13. PICK n \in Nat : \E T : History(ops, T, n, Here)
    BY <1>1 DEF Traced
  <2>14. PICK T : History(ops, T, n, Here)
    BY <2>13
  <2>15. T[0] = Start /\ 0 \in 0 .. n
    BY <2>14 DEF History
  <2>16. Here' = Here /\ ops' = ops
    BY <1>1, <1>3, <1>6, StoredKept
  <2>17. PICK s : s = T[0] /\ s = Start
    BY <2>15
  <2>18. Sync(T[0])'
    BY <2>12, <2>15
  <2> QED
    BY <2>14, <2>15, <2>16, <2>18, SyncedNext
<1>8. out' = out
  BY <1>3 DEF Stored
<1> QED
  BY <1>2, <1>3, <1>4, <1>5, <1>6, <1>7, <1>8 DEF DecInv

\* Steps of the decoder that take it past the end keep it there.
LEMMA DecodePast ==
    ASSUME DecInv, UNCHANGED <<out, kept>>, pc = "decode", pc' = "decode",
           dpos' \in Nat, dpos' >= dpos, dpos' <= kept => Synced',
           dpos' > kept => kept < Len(out)
    PROVE  DecInv'
  BY DEF DecInv

\* The entry the decoder is at, and the next if there is one.
LEMMA Position ==
    ASSUME EncInv, DecInv, pc = "decode", dpos <= kept
    PROVE  \E n \in Nat : \E T : History(ops, T, n, Here) /\ \E j \in 0 .. n : Sync(T[j])
<1>1. PICK n \in Nat : \E T : Along(T, n)
  BY DEF DecInv, Synced
<1>2. PICK T : Along(T, n)
  BY <1>1
<1> QED
  BY <1>2 DEF Along

\* A bit: code is above the bound if and only if the encoder's bit was 1.
LEMMA DecodeBitSync ==
    ASSUME EncInv, DecodeBit, NEW n \in Nat, NEW T, History(ops, T, n, Here), NEW j \in 0 .. n,
           Sync(T[j])
    PROVE  Synced'
<1>1. Calls /\ pc = "decode" /\ pc' = "decode" /\ drange >= TOP
  BY DEF EncInv, DecodeBit, Decoding
<1>2. PICK t : t = T[j]
  OBVIOUS
<1>3. /\ Good(ops, t) /\ got = SubSeq(ops, 1, t.done)
      /\ i = t.i /\ node = t.node /\ drange = t.range /\ dprobs = t.probs
      /\ dpos = 5 + t.norms /\ code \in Nat /\ code + t.exact = Read(out, dpos)
      /\ (t.done < Len(ops) => value = Part(ops[t.done + 1], t.i))
  BY <1>1, <1>2, Entries DEF Sync
<1>4. t.done # Len(ops)
  <2> SUFFICES ASSUME t.done = Len(ops) PROVE FALSE
    OBVIOUS
  <2>1. Asked = Done /\ i = 0
    BY <1>1, <1>3, AskedIs
  <2>2. i < Asked.bits
    BY DEF DecodeBit
  <2> QED
    BY <2>1, <2>2 DEF Done, Call
<1>5. PICK op : op = ops[t.done + 1] /\ Possible(op) /\ Asked = Question(op)
  BY <1>1, <1>3, <1>4, AskedIs
<1>6. op.bits \in Nat /\ i \in Nat /\ i < op.bits /\ t.i = i /\ t.done < Len(ops) /\ t.done \in Nat
  <2>1. op.bits \in Nat
    BY <1>5, PossibleIs
  <2>2. i < Asked.bits
    BY DEF DecodeBit
  <2>3. i < op.bits
    BY <1>5, <2>2, QuestionIs
  <2>4. i \in Nat /\ t.done \in 0 .. Len(ops) /\ Len(ops) \in Nat
    BY <1>1, <1>3, CallsSound DEF Good
  <2> QED
    BY <2>1, <2>3, <2>4, <1>3, <1>4
<1>7. PICK k \in 0 .. n : k = j + 1 /\ EncStep(ops, t, T[k])
  <2>1. j # n
    BY <1>1, <1>2, <1>4, Entries
  <2>2. j + 1 \in 0 .. n /\ EncStep(ops, T[j], T[j + 1])
    BY <1>1, <2>1, Entries
  <2> QED
    BY <1>2, <2>2
<1>8. PICK u : u = T[k]
  OBVIOUS
<1>9. PICK bit \in Bit : bit = BitOf(op, i)
  BY <1>5, <1>6, BitIs
<1>10. PICK r \in TOP .. SPAN - 1 : r = t.range
  BY <1>1, <1>3, Sizes DEF Good
<1>11. PICK b \in Nat : b = BoundAt(node, op, r, t.probs) /\ bit * b \in Nat
                        /\ bit * b = (IF bit = 1 THEN b ELSE 0)
                        /\ (bit = 0 => RangeOf(node, op, r, t.probs, bit) = b)
  <2>1. ProbType(t.probs)
    BY <1>3 DEF Good
  <2>2. PICK b : b = BoundAt(node, op, r, t.probs)
    OBVIOUS
  <2>3. /\ b \in Nat /\ bit * b \in Nat /\ bit * b = (IF bit = 1 THEN b ELSE 0)
        /\ (bit = 0 => RangeOf(node, op, r, t.probs, bit) = b)
    BY <1>5, <2>1, <2>2, PartIs
  <2> QED
    BY <2>2, <2>3
<1>12. u = Entry(i + 1, 2 * node + bit, RangeOf(node, op, r, t.probs, bit), t.exact + bit * b,
                 t.norms, t.done, ProbsOf(node, op, t.probs, bit))
  <2>1. ~ NormStep(t, u)
    BY <1>10, Sizes DEF NormStep
  <2>2. ~ ReturnStep(ops, t, u)
    BY <1>5, <1>6 DEF ReturnStep
  <2>3. BitStep(ops, t, u)
    BY <1>7, <1>8, <2>1, <2>2 DEF EncStep
  <2> QED
    BY <2>3, <1>3, <1>5, <1>9, <1>10, <1>11 DEF BitStep
<1>13. /\ u.i = i + 1 /\ u.node = 2 * node + bit
       /\ u.range = RangeOf(node, op, r, t.probs, bit) /\ u.exact = t.exact + bit * b
       /\ u.norms = t.norms /\ u.done = t.done /\ u.probs = ProbsOf(node, op, t.probs, bit)
  BY <1>12 DEF Entry
<1>14. PICK x \in Nat, s \in Nat, z \in Nat, c \in Nat :
         /\ x = t.exact /\ s = u.range /\ z = Read(out, dpos) /\ c = code /\ c + x = z
  <2>1. t.exact \in Nat /\ Good(ops, u)
    BY <1>1, <1>3, <1>8, Entries, GoodIs
  <2>2. u.range \in Nat
    BY <2>1, GoodIs
  <2>3. Read(out, dpos) \in Nat
    BY <1>1, <1>2, <1>3, Entries
  <2> QED
    BY <2>1, <2>2, <2>3, <1>3
<1>15. x + bit * b <= z /\ z < x + bit * b + s
  <2>1. u.exact <= Read(out, 5 + u.norms) /\ Read(out, 5 + u.norms) < u.exact + u.range
    BY <1>1, <1>8, Entries
  <2> QED
    BY <2>1, <1>3, <1>13, <1>14
<1>16. bit = IF c >= b THEN 1 ELSE 0
  <2>1. CASE bit = 1
    BY <2>1, <1>11, <1>14, <1>15
  <2>2. CASE bit = 0
    <3>1. s = b
      BY <2>2, <1>11, <1>13, <1>14
    <3> QED
      BY <2>2, <3>1, <1>11, <1>14, <1>15
  <2> QED
    BY <2>1, <2>2, <1>9 DEF Bit
<1>17. /\ Bound(Asked, drange, dprobs) = b
       /\ RangeAfter(Asked, drange, dprobs, bit) = u.range
       /\ ProbsAfter(Asked, dprobs, bit) = u.probs
  <2>1. drange = r /\ dprobs = t.probs /\ Asked = Question(op)
    BY <1>3, <1>5, <1>10
  <2>2. /\ Bound(Question(op), r, t.probs) = BoundAt(node, Question(op), r, t.probs)
        /\ RangeAfter(Question(op), r, t.probs, bit) = RangeOf(node, Question(op), r, t.probs, bit)
        /\ ProbsAfter(Question(op), t.probs, bit) = ProbsOf(node, Question(op), t.probs, bit)
    BY AtNode
  <2> QED
    BY <2>1, <2>2, <1>5, <1>11, <1>13, QuestionIs
<1>18. bit = IF IsOne(Bound(Asked, drange, dprobs)) THEN 1 ELSE 0
  BY <1>14, <1>16, <1>17 DEF IsOne
<1>19. /\ code' = c - bit * b /\ drange' = u.range /\ dprobs' = u.probs
       /\ node' = 2 * node + bit /\ value' = ValueAfter(Asked, bit) /\ i' = i + 1
  BY <1>14, <1>17, <1>18 DEF DecodeBit
<1>20. UNCHANGED Stored /\ UNCHANGED <<kept, dpos, got>>
  BY DEF DecodeBit, encoder, Stored
<1>21. ops' = ops /\ Here' = Here /\ out' = out
  BY <1>1, <1>20, StoredKept
<1>22. value' = Part(ops[u.done + 1], u.i)
  <2>1. Part(op, i + 1) = IF op.kind = "reverse" THEN Part(op, i) + bit * Power(2, i)
                          ELSE 2 * Part(op, i) + bit
    BY <1>5, <1>6, <1>9, PartNext
  <2>2. value = Part(op, i) /\ Asked.kind = op.kind
    BY <1>3, <1>5, <1>6, QuestionIs
  <2>3. ValueAfter(Asked, bit) = Part(op, i + 1)
    BY <2>1, <2>2 DEF ValueAfter
  <2> QED
    BY <2>3, <1>5, <1>13, <1>19
<1>23. code' \in Nat /\ code' + u.exact = z
  BY <1>11, <1>13, <1>14, <1>15, <1>19
<1>24. Sync(u)'
  BY <1>3, <1>13, <1>14, <1>19, <1>20, <1>21, <1>22, <1>23 DEF Sync
<1> QED
  BY <1>8, <1>21, <1>24, SyncedNext

LEMMA DecodeBitDec == ASSUME EncInv, DecInv, DecodeBit PROVE DecInv'
<1>1. pc = "decode" /\ pc' = "decode" /\ UNCHANGED <<out, kept, dpos>>
  BY DEF DecodeBit, Decoding, encoder
<1>2. dpos \in Nat
  BY <1>1 DEF DecInv
<1>3. dpos <= kept => Synced'
  BY <1>1, Position, DecodeBitSync
<1> QED
  BY <1>1, <1>2, <1>3 DEF DecInv

\* A byte read is one the encoder had before it: none past the end.
LEMMA DecodeNormalizeSync ==
    ASSUME EncInv, DecodeNormalize, NEW n \in Nat, NEW T, History(ops, T, n, Here), NEW j \in 0 .. n,
           Sync(T[j])
    PROVE  dpos + 1 <= Len(out) /\ (dpos < kept => Synced')
<1>1. Calls /\ pc = "decode" /\ pc' = "decode" /\ drange < TOP
  BY DEF EncInv, DecodeNormalize
<1>2. PICK t : t = T[j]
  OBVIOUS
<1>3. /\ Good(ops, t) /\ got = SubSeq(ops, 1, t.done)
      /\ i = t.i /\ node = t.node /\ drange = t.range /\ dprobs = t.probs
      /\ dpos = 5 + t.norms /\ code \in Nat /\ code + t.exact = Read(out, dpos)
      /\ (t.done < Len(ops) => value = Part(ops[t.done + 1], t.i))
  BY <1>1, <1>2, Entries DEF Sync
<1>4. PICK r \in Nat : r = t.range /\ r = drange /\ r < TOP
  BY <1>1, <1>3, GoodIs
<1>5. PICK k \in 0 .. n : k = j + 1 /\ EncStep(ops, t, T[k])
  <2>1. j # n
    <3>1. j = n => T[j].range >= TOP
      BY <1>1, Entries
    <3> QED
      BY <3>1, <1>2, <1>4, Sizes
  <2>2. j + 1 \in 0 .. n /\ EncStep(ops, T[j], T[j + 1])
    BY <1>1, <2>1, Entries
  <2> QED
    BY <1>2, <2>2
<1>6. PICK u : u = T[k]
  OBVIOUS
<1>7. NormStep(t, u)
  <2>1. ~ BitStep(ops, t, u) /\ ~ ReturnStep(ops, t, u)
    BY <1>4, Sizes DEF BitStep, ReturnStep
  <2> QED
    BY <1>5, <1>6, <2>1 DEF EncStep
<1>8. /\ u.i = t.i /\ u.node = t.node /\ u.range = t.range * BASE /\ u.exact = t.exact * BASE
      /\ u.norms = t.norms + 1 /\ u.done = t.done /\ u.probs = t.probs
  BY <1>7 DEF NormStep, Entry
<1>9. PICK L \in Nat, p \in Nat : L = Len(out) /\ p = dpos /\ p + 1 <= L /\ 5 + u.norms = p + 1
  <2>1. out \in Seq(Digit)
    BY <1>1 DEF EncInv, Written
  <2>2. 5 + u.norms \in 0 .. Len(out) /\ Len(out) \in Nat
    <3>1. 5 + T[k].norms \in 0 .. Len(out)
      BY <1>1, Entries
    <3> QED
      BY <3>1, <2>1, <1>6
  <2>3. t.norms \in Nat
    BY <1>3, GoodIs
  <2> QED
    BY <2>2, <2>3, <1>3, <1>8
<1>10. ASSUME dpos < kept PROVE Synced'
  <2>1. PICK d \in Seq(Nat) : d = out /\ Len(d) = L
    <3>1. out \in Seq(Digit)
      BY <1>1 DEF EncInv, Written
    <3> QED
      BY <3>1, <1>9, Base DEF Digit
  <2>2. PICK y \in Nat : y = d[p + 1]
    <3>1. d[p + 1] \in Nat
      BY <2>1, <1>9
    <3> QED
      BY <3>1
  <2>3. PICK x \in Nat, z \in Nat, c \in Nat : x = t.exact /\ z = Read(d, p) /\ c = code /\ c + x = z
    <3>1. t.exact \in Nat
      BY <1>3, GoodIs
    <3>2. Read(d, p) \in Nat
      BY <1>9, <2>1, ReadNext
    <3> QED
      BY <3>1, <3>2, <2>1, <1>3, <1>9
  <2>4. Read(d, p + 1) = z * BASE + y
    <3>1. p < Len(d)
      BY <1>9, <2>1
    <3>2. Read(d, p + 1) = Read(d, p) * BASE + d[p + 1]
      BY <3>1, ReadNext
    <3> QED
      BY <3>2, <2>2, <2>3
  <2>5. c < r
    <3>1. Read(out, 5 + t.norms) < t.exact + t.range
      BY <1>1, <1>2, Entries
    <3> QED
      BY <3>1, <1>3, <1>4, <1>9, <2>1, <2>3
  <2>6. PICK v \in Nat : v = c * BASE /\ v < SPAN
    <3>1. c + 1 <= TOP /\ TOP \in Nat /\ c + 1 \in Nat
      BY <1>4, <2>5, Sizes
    <3>2. (c + 1) * BASE <= TOP * BASE
      BY <3>1, Base, Times
    <3>3. (c + 1) * BASE = c * BASE + BASE /\ TOP * BASE = SPAN /\ c * BASE \in Nat
      BY Base, Sizes, Times
    <3>4. PICK v \in Nat : v = c * BASE
      BY <3>3
    <3>5. v + BASE <= SPAN
      BY <3>2, <3>3, <3>4
    <3> QED
      BY <3>4, <3>5, Base, Sizes
  <2>7. v % SPAN = v
    <3>1. SPAN \in Nat \ {0} /\ v = SPAN * 0 + v /\ v \in 0 .. SPAN - 1 /\ 0 \in Nat
      BY <2>6, Sizes
    <3> QED
      BY <3>1, DivRemIs
  <2>8. ByteAt(dpos) = y
    BY <1>9, <1>10, <2>1, <2>2 DEF DecodeNormalize, ByteAt
  <2>9. code' = v + y /\ drange' = u.range /\ dpos' = p + 1
    BY <1>3, <1>8, <1>9, <2>3, <2>6, <2>7, <2>8 DEF DecodeNormalize
  <2>10. code' \in Nat /\ code' + u.exact = Read(d, p + 1)
    <3>1. (c + x) * BASE + y = (c * BASE + y) + x * BASE
      BY Base
    <3> QED
      BY <3>1, <1>8, <2>3, <2>4, <2>6, <2>9
  <2>11. UNCHANGED Stored /\ UNCHANGED <<i, node, value, dprobs, got>>
    BY DEF DecodeNormalize, encoder, Stored
  <2>12. ops' = ops /\ Here' = Here /\ out' = out
    BY <1>1, <2>11, StoredKept
  <2>13. Sync(u)'
    BY <1>3, <1>8, <1>9, <2>1, <2>9, <2>10, <2>11, <2>12 DEF Sync
  <2> QED
    BY <1>6, <2>12, <2>13, SyncedNext
<1> QED
  BY <1>9, <1>10

LEMMA DecodeNormalizeDec == ASSUME EncInv, DecInv, DecodeNormalize PROVE DecInv'
<1>1. pc = "decode" /\ pc' = "decode" /\ UNCHANGED <<out, kept>> /\ dpos' = dpos + 1
  BY DEF DecodeNormalize, encoder
<1>2. dpos \in Nat /\ kept \in 0 .. Len(out) /\ (dpos > kept => kept < Len(out))
  BY <1>1 DEF DecInv
<1>3. dpos <= kept => dpos + 1 <= Len(out) /\ (dpos < kept => Synced')
  BY <1>1, Position, DecodeNormalizeSync
<1>4. Len(out) \in Nat
  BY <1>1 DEF EncInv, Written
<1>5. (dpos' <= kept => Synced') /\ (dpos' > kept => kept < Len(out))
  BY <1>1, <1>2, <1>3, <1>4
<1> QED
  BY <1>1, <1>2, <1>5, DecodePast

LEMMA DecodeReturnSync ==
    ASSUME EncInv, DecodeReturn, NEW n \in Nat, NEW T, History(ops, T, n, Here), NEW j \in 0 .. n,
           Sync(T[j])
    PROVE  Synced'
<1>1. Calls /\ pc = "decode" /\ pc' = "decode" /\ drange >= TOP /\ Asked # Done /\ i = Asked.bits
  BY DEF EncInv, DecodeReturn, Decoding
<1>2. PICK t : t = T[j]
  OBVIOUS
<1>3. /\ Good(ops, t) /\ got = SubSeq(ops, 1, t.done)
      /\ i = t.i /\ node = t.node /\ drange = t.range /\ dprobs = t.probs
      /\ dpos = 5 + t.norms /\ code \in Nat /\ code + t.exact = Read(out, dpos)
      /\ (t.done < Len(ops) => value = Part(ops[t.done + 1], t.i))
  BY <1>1, <1>2, Entries DEF Sync
<1>4. t.done # Len(ops)
  BY <1>1, <1>3, AskedIs
<1>16. PICK m \in Nat : m = t.done /\ m + 1 \in 1 .. Len(ops)
  BY <1>1, <1>3, <1>4, AskedIs
<1>17. PICK op : op = ops[m + 1] /\ Possible(op) /\ Asked = Question(op)
  BY <1>1, <1>3, <1>4, <1>16, AskedIs
<1>5. /\ m = t.done /\ m + 1 \in 1 .. Len(ops) /\ op = ops[m + 1]
      /\ Possible(op) /\ Asked = Question(op)
  BY <1>16, <1>17
<1>6. i = op.bits /\ value = op.value
  <2>1. i = op.bits
    BY <1>1, <1>5, QuestionIs
  <2>2. Len(ops) \in Nat
    BY <1>1, CallsSound
  <2>3. m < Len(ops)
    BY <2>2, <1>5
  <2>4. value = Part(op, op.bits)
    BY <2>1, <2>3, <1>3, <1>5
  <2> QED
    BY <2>1, <2>4, <1>5, PartEnds
<1>7. PICK k \in 0 .. n : k = j + 1 /\ EncStep(ops, t, T[k])
  <2>1. j # n
    BY <1>1, <1>2, <1>4, Entries
  <2>2. j + 1 \in 0 .. n /\ EncStep(ops, T[j], T[j + 1])
    BY <1>1, <2>1, Entries
  <2> QED
    BY <1>2, <2>2
<1>8. PICK u : u = T[k]
  OBVIOUS
<1>9. ReturnStep(ops, t, u)
  <2>1. t.range >= TOP /\ t.range \in Nat
    BY <1>1, <1>3, GoodIs
  <2>2. ~ NormStep(t, u)
    BY <2>1, Sizes DEF NormStep
  <2>3. ~ BitStep(ops, t, u)
    <3>1. op.bits \in Nat
      BY <1>5, PossibleIs
    <3> QED
      BY <3>1, <1>3, <1>5, <1>6 DEF BitStep
  <2> QED
    BY <1>7, <1>8, <2>2, <2>3 DEF EncStep
<1>10. /\ u.i = 0 /\ u.node = 1 /\ u.range = t.range /\ u.exact = t.exact
       /\ u.norms = t.norms /\ u.done = m + 1 /\ u.probs = t.probs
  BY <1>5, <1>9 DEF ReturnStep, Entry
<1>11. /\ got' = Append(got, op) /\ i' = 0 /\ node' = 1 /\ value' = 0
       /\ UNCHANGED <<dpos, drange, code, dprobs>> /\ UNCHANGED Stored
  <2>1. [Asked EXCEPT !.value = value] = op
    BY <1>5, <1>6, QuestionIs
  <2> QED
    BY <2>1 DEF DecodeReturn, encoder, Stored
<1>12. Append(got, op) = SubSeq(ops, 1, m + 1)
  <2>1. PICK o \in Seq(ToSet(ops)) : o = ops
    BY <1>1, CallsSound DEF Sound
  <2>2. Append(SubSeq(o, 1, m), o[m + 1]) = SubSeq(o, 1, m + 1)
    <3>1. SubSeq(o, 1, m + 1) \in Seq(ToSet(ops)) /\ Len(SubSeq(o, 1, m + 1)) = m + 1
      BY <1>5, <2>1
    <3>2. Append(SubSeq(o, 1, m), o[m + 1]) \in Seq(ToSet(ops))
          /\ Len(Append(SubSeq(o, 1, m), o[m + 1])) = m + 1
      BY <1>5, <2>1
    <3>3. ASSUME NEW e \in 1 .. m + 1
          PROVE  SubSeq(o, 1, m + 1)[e] = Append(SubSeq(o, 1, m), o[m + 1])[e]
      BY <1>5, <2>1
    <3> QED
      BY <3>1, <3>2, <3>3, SeqEqual
  <2> QED
    BY <1>3, <1>5, <2>1, <2>2
<1>13. ops' = ops /\ Here' = Here /\ out' = out
  BY <1>1, <1>11, StoredKept
<1>14. u.done < Len(ops) => Part(ops[u.done + 1], 0) = 0
  <2> SUFFICES ASSUME m + 1 < Len(ops) PROVE Part(ops[(m + 1) + 1], 0) = 0
    BY <1>10
  <2>1. (m + 1) + 1 \in 1 .. Len(ops)
    BY <1>1, CallsSound
  <2>2. Possible(ops[(m + 1) + 1])
    BY <1>1, <2>1, CallsSound DEF Sound
  <2> QED
    BY <2>2, PartEnds
<1>15. Sync(u)'
  BY <1>3, <1>10, <1>11, <1>12, <1>13, <1>14 DEF Sync
<1> QED
  BY <1>8, <1>13, <1>15, SyncedNext

LEMMA DecodeReturnDec == ASSUME EncInv, DecInv, DecodeReturn PROVE DecInv'
<1>1. pc = "decode" /\ pc' = "decode" /\ UNCHANGED <<out, kept, dpos>>
  BY DEF DecodeReturn, Decoding, encoder
<1>2. dpos \in Nat
  BY <1>1 DEF DecInv
<1>3. dpos <= kept => Synced'
  BY <1>1, Position, DecodeReturnSync
<1> QED
  BY <1>1, <1>2, <1>3 DEF DecInv

\* No step of the encoder is left when all operations are done.
LEMMA LastEntry ==
    ASSUME EncInv, pc \in {"stored", "decode"}, NEW n \in Nat, NEW T, History(ops, T, n, Here),
           NEW j \in 0 .. n, T[j].done = Len(ops), T[j].range >= TOP
    PROVE  j = n
<1> SUFFICES ASSUME j # n PROVE FALSE
  OBVIOUS
<1>1. Calls
  BY DEF EncInv
<1>2. PICK t : t = T[j] /\ t.done = Len(ops) /\ t.range >= TOP
  OBVIOUS
<1>3. PICK u : EncStep(ops, t, u)
  <2>1. EncStep(ops, T[j], T[j + 1])
    BY Entries
  <2> QED
    BY <2>1, <1>2
<1>4. Good(ops, t)
  BY <1>2, Entries
<1>5. t.range \in Nat /\ Len(ops) \in Nat
  BY <1>1, <1>4, GoodIs, CallsSound
<1> QED
  BY <1>2, <1>3, <1>5, Sizes DEF EncStep, NormStep, BitStep, ReturnStep

\* The end is reached with the last byte of all.
LEMMA DecoderFinishDec == ASSUME EncInv, DecInv, DecoderFinish PROVE DecInv'
<1>1. Calls /\ pc = "decode" /\ pc' = Verdict /\ drange >= TOP /\ Asked = Done
  BY DEF EncInv, DecoderFinish, Decoding
<1>2. UNCHANGED <<out, kept, got, ops, dpos>>
  BY DEF DecoderFinish, encoder, decoder
<1>3. dpos \in Nat /\ kept \in 0 .. Len(out) /\ (dpos > kept => kept < Len(out))
  BY <1>1 DEF DecInv
<1>4. CASE dpos > kept
  <2>1. Verdict = "eof"
    BY <1>3, <1>4 DEF Verdict
  <2> QED
    BY <1>1, <1>2, <1>3, <1>4, <2>1 DEF DecInv
<1>5. CASE dpos <= kept
  <2>1. PICK n \in Nat : \E T : History(ops, T, n, Here) /\ \E j \in 0 .. n : Sync(T[j])
    BY <1>1, <1>5, Position
  <2>2. PICK T : History(ops, T, n, Here) /\ \E j \in 0 .. n : Sync(T[j])
    BY <2>1
  <2>3. PICK j \in 0 .. n : Sync(T[j])
    BY <2>2
  <2>4. PICK t : t = T[j]
    OBVIOUS
  <2>5. Good(ops, t) /\ got = SubSeq(ops, 1, t.done) /\ drange = t.range /\ dpos = 5 + t.norms
    BY <1>1, <2>2, <2>3, <2>4, Entries DEF Sync
  <2>6. t.done = Len(ops)
    <3> SUFFICES ASSUME t.done # Len(ops) PROVE FALSE
      OBVIOUS
    <3>1. PICK op : Possible(op) /\ Asked = Question(op)
      BY <1>1, <2>5, AskedIs
    <3> QED
      BY <1>1, <3>1, QuestionIs
  <2>7. got = ops
    BY <1>1, <2>5, <2>6, AskedIs
  <2>8. j = n
    BY <1>1, <2>2, <2>4, <2>5, <2>6, LastEntry
  <2>9. 5 + T[j].norms = Len(out)
    BY <1>1, <2>2, <2>8, Entries
  <2>10. out \in Seq(Digit)
    BY <1>1 DEF EncInv, Written
  <2>11. Len(out) \in Nat /\ dpos = Len(out)
    BY <2>4, <2>5, <2>9, <2>10
  <2>12. kept = Len(out) /\ dpos = kept
    BY <1>3, <1>5, <2>11
  <2>13. Verdict = "ok"
    BY <2>12, <1>3 DEF Verdict
  <2> QED
    BY <1>1, <1>2, <2>7, <2>12, <2>13 DEF DecInv
<1> QED
  BY <1>3, <1>4, <1>5

LEMMA DecStutter == ASSUME EncInv, DecInv, UNCHANGED vars PROVE DecInv'
<1>1. UNCHANGED <<caller, ops, pc, i, node, value, range, exact, cacheSize, out, flushed, done, probs,
                  kept, dpos, drange, code, dprobs, got>>
  BY DEF vars, encoder, decoder
<1>2. pc = "decode" /\ dpos <= kept => Synced'
  <2> SUFFICES ASSUME pc = "decode", dpos <= kept PROVE Synced'
    OBVIOUS
  <2>1. PICK n \in Nat : \E T : History(ops, T, n, Here) /\ \E j \in 0 .. n : Sync(T[j])
    BY Position
  <2>2. PICK T : History(ops, T, n, Here) /\ \E j \in 0 .. n : Sync(T[j])
    BY <2>1
  <2>3. PICK j \in 0 .. n : Sync(T[j])
    BY <2>2
  <2>4. Here' = Here /\ ops' = ops
    BY <1>1 DEF Here
  <2>5. PICK t : t = T[j]
    OBVIOUS
  <2>6. Sync(t)'
    BY <1>1, <2>3, <2>5 DEF Sync
  <2> QED
    BY <2>2, <2>4, <2>5, <2>6, SyncedNext
<1> QED
  BY <1>1, <1>2 DEF DecInv

LEMMA IInvNext == ASSUME IInv, [Next]_vars PROVE IInv'
<1>1. EncInv /\ DecInv
  BY DEF IInv
<1>2. EncInv'
  <2>1. pc = "decode" => dpos \in Nat /\ kept \in Nat
    <3>1. pc = "decode" => dpos \in Nat /\ kept \in 0 .. Len(out)
      BY <1>1 DEF DecInv
    <3> QED
      BY <3>1
  <2> QED
    BY <1>1, <2>1, EncNext
<1>3. DecInv'
  <2>1. CASE Encode
    BY <1>1, <2>1, EncodeDec
  <2>2. CASE DecoderNew
    BY <1>1, <2>2, DecoderNewDec
  <2>3. CASE DecodeBit
    BY <1>1, <2>3, DecodeBitDec
  <2>4. CASE DecodeNormalize
    BY <1>1, <2>4, DecodeNormalizeDec
  <2>5. CASE DecodeReturn
    BY <1>1, <2>5, DecodeReturnDec
  <2>6. CASE DecoderFinish
    BY <1>1, <2>6, DecoderFinishDec
  <2>7. CASE UNCHANGED vars
    BY <1>1, <2>7, DecStutter
  <2> QED
    BY <2>1, <2>2, <2>3, <2>4, <2>5, <2>6, <2>7 DEF Next, Decode
<1> QED
  BY <1>2, <1>3 DEF IInv

LEMMA InStepIs == ASSUME IInv PROVE InStep
<1> SUFFICES ASSUME pc = "decode", dpos <= kept
             PROVE  /\ code < drange /\ IsPrefix(got, ops)
                    /\ Len(got) = Len(ops) /\ drange >= TOP => dprobs = probs /\ drange = range
  BY DEF InStep
<1>1. EncInv /\ DecInv /\ Calls
  BY DEF IInv, EncInv
<1>2. PICK n \in Nat : \E T : History(ops, T, n, Here) /\ \E j \in 0 .. n : Sync(T[j])
  BY <1>1, Position
<1>3. PICK T : History(ops, T, n, Here) /\ \E j \in 0 .. n : Sync(T[j])
  BY <1>2
<1>4. PICK j \in 0 .. n : Sync(T[j])
  BY <1>3
<1>5. PICK t : t = T[j]
  OBVIOUS
<1>6. /\ Good(ops, t) /\ got = SubSeq(ops, 1, t.done)
      /\ drange = t.range /\ dprobs = t.probs
      /\ dpos = 5 + t.norms /\ code \in Nat /\ code + t.exact = Read(out, dpos)
  BY <1>1, <1>3, <1>4, <1>5, Entries DEF Sync
<1>7. PICK o \in Seq(ToSet(ops)) : o = ops
  BY <1>1, CallsSound DEF Sound
<1>8. PICK m \in 0 .. Len(o) : m = t.done
  BY <1>6, <1>7 DEF Good
<1>9. Len(SubSeq(o, 1, m)) = m /\ SubSeq(SubSeq(o, 1, m), 1, m) = SubSeq(o, 1, m)
  <2>1. SubSeq(o, 1, m) \in Seq(ToSet(ops)) /\ Len(SubSeq(o, 1, m)) = m
    OBVIOUS
  <2> QED
    BY <2>1
<1>10. IsPrefix(got, ops)
  BY <1>6, <1>7, <1>8, <1>9 DEF IsPrefix
<1>11. code < drange
  <2>1. Read(out, 5 + T[j].norms) < T[j].exact + T[j].range
    BY <1>1, <1>3, Entries
  <2>2. Read(out, dpos) < t.exact + t.range
    BY <2>1, <1>5, <1>6
  <2>3. t.exact \in Nat /\ t.range \in Nat
    BY <1>6, GoodIs
  <2> QED
    BY <2>2, <2>3, <1>6
<1>12. ASSUME Len(got) = Len(ops), drange >= TOP PROVE dprobs = probs /\ drange = range
  <2>1. t.done = Len(ops)
    BY <1>6, <1>7, <1>8, <1>9, <1>12
  <2>2. j = n
    BY <1>1, <1>3, <1>5, <1>6, <1>12, <2>1, LastEntry
  <2>3. T[j].range = range /\ T[j].probs = probs
    BY <1>1, <1>3, <2>2, Entries
  <2> QED
    BY <2>3, <1>5, <1>6
<1> QED
  BY <1>10, <1>11, <1>12

-----------------------------------------------------------------------------
(* The results.                                                             *)

(***************************************************************************)
(* Encoder and Decoder keep the invariant: the stream, the held bytes and  *)
(* low are the bottom of the interval, and a decoder whose bytes have all  *)
(* arrived is at one of the points the encoder went through.               *)
(***************************************************************************)
THEOREM Invariance == Spec => []IInv
<1>1. Init => IInv
  BY EncInit, DecInit DEF IInv
<1>2. IInv /\ [Next]_vars => IInv'
  BY IInvNext
<1> QED
  BY <1>1, <1>2, PTL DEF Spec

(***************************************************************************)
(* No carry of shift_low is lost, and none leaves the first byte, whatever *)
(* is coded: what is written, held back and left in low is the bottom of   *)
(* the interval, digit for digit.                                          *)
(***************************************************************************)
THEOREM CarryAlwaysExact == Spec => []CarryExact
<1>1. IInv => CarryExact
  BY CarryExactIs DEF IInv
<1> QED
  BY <1>1, Invariance, PTL

(***************************************************************************)
(* As long as the bytes it reads have arrived, Decoder is where Encoder    *)
(* was: the same interval, the same operations, the same probabilities.    *)
(***************************************************************************)
THEOREM DecoderInStep == Spec => []InStep
<1>1. IInv => InStep
  BY InStepIs
<1> QED
  BY <1>1, Invariance, PTL

(***************************************************************************)
(* What finish wrote is read to its last byte and gives what was coded; a  *)
(* stream that lost its end never does, whatever its caller makes of the   *)
(* zeros read in its place.                                                *)
(***************************************************************************)
THEOREM StreamUsedExactly == Spec => []UsedExactly
<1>1. ASSUME IInv PROVE UsedExactly
  <2>1. Calls /\ DecInv
    BY <1>1 DEF IInv, EncInv
  <2>2. Understood(caller, ops) = caller.means
    BY <2>1, CallsSound
  <2> QED
    BY <2>1, <2>2 DEF DecInv, UsedExactly
<1> QED
  BY <1>1, Invariance, PTL
=============================================================================
