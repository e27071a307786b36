----------------------------- MODULE BitProofs -----------------------------
(* Proofs about BitIO: whatever is written is read back, however far ahead  *)
(* the reader looks, and a stream that was cut is noticed.                  *)
EXTENDS BitIO, NatLemmas

-----------------------------------------------------------------------------
(* Powers of two.                                                           *)

\* The steps of the recursion of Pow.
Doubles(g, n) ==
    /\ g \in [0 .. n -> Nat \ {0}]
    /\ g[0] = 1 /\ Pow(n) = g[n]
    /\ \A k \in 1 .. n : g[k] = 2 * g[k - 1]

LEMMA PowSteps ==
    ASSUME NEW n \in Nat
    PROVE  \E g : Doubles(g, n)
<1> DEFINE P == Nat \ {0}
           step == [x \in P \X (1 .. n) |-> 2 * x[1]]
           Eq(f) == [j \in 0 .. n |-> IF j = 0 THEN 1 ELSE 2 * f[j - 1]]
           p == CHOOSE f : f = Eq(f)
<1>1. \A x \in P, k \in 1 .. n : step[<<x, k>>] = 2 * x /\ 2 * x \in P
  OBVIOUS
<1>2. StepsIn(step, P, n)
  <2> HIDE DEF step
  <2> QED
    BY <1>1 DEF StepsIn
<1>3. \E g : Solves(g, P, n, 1, step)
  <2> HIDE DEF step
  <2> QED
    BY <1>2, Recursion
<1>4. PICK g : Solves(g, P, n, 1, step)
  BY <1>3
<1>5. g \in [0 .. n -> P] /\ g[0] = 1
  BY <1>4 DEF Solves
<1>6. ASSUME NEW k \in 1 .. n PROVE g[k] = 2 * g[k - 1]
  <2>1. g[k - 1] \in P
    BY <1>5
  <2>2. g[k] = step[<<g[k - 1], k>>]
    BY <1>4 DEF Solves
  <2> HIDE DEF step, P
  <2> QED
    BY <2>1, <2>2, <1>1
<1>7. g = Eq(g)
  <2>1. \A k \in 0 .. n : g[k] = IF k = 0 THEN 1 ELSE 2 * g[k - 1]
    BY <1>5, <1>6
  <2>2. g = [k \in 0 .. n |-> g[k]]
    BY <1>5
  <2> QED
    BY <2>1, <2>2
<1>8. Pow(n) = p[n]
  BY DEF Pow
<1> HIDE DEF Eq
<1>9. p = Eq(p)
  BY <1>7
<1> HIDE DEF p
<1>10. \A k \in 0 .. n : p[k] = IF k = 0 THEN 1 ELSE 2 * p[k - 1]
  BY <1>9 DEF Eq
<1>11. ASSUME NEW k \in 1 .. n PROVE p[k - 1] = g[k - 1] => p[k] = g[k]
  <2>1. k \in 0 .. n /\ k # 0
    OBVIOUS
  <2>2. p[k] = 2 * p[k - 1] /\ g[k] = 2 * g[k - 1]
    BY <2>1, <1>10, <1>6
  <2> QED
    BY <2>2
<1>12. Alike(p, g, n)
  BY <1>5, <1>10, <1>11 DEF Alike
<1>13. p[n] = g[n]
  BY <1>12, EndAlike
<1>14. Doubles(g, n)
  BY <1>5, <1>6, <1>8, <1>13 DEF Doubles
<1> QED
  BY <1>14

LEMMA PowIs ==
    ASSUME NEW n \in Nat
    PROVE  /\ Pow(n) \in Nat \ {0}
           /\ Pow(0) = 1
           /\ Pow(n + 1) = 2 * Pow(n)
<1>1. PICK g : Doubles(g, n)
  BY PowSteps
<1>2. PICK h : Doubles(h, n + 1)
  BY PowSteps, n + 1 \in Nat
<1>3. PICK z : Doubles(z, 0)
  BY PowSteps
<1>4. ASSUME NEW k \in 1 .. n PROVE h[k - 1] = g[k - 1] => h[k] = g[k]
  <2>1. h[k] = 2 * h[k - 1] /\ g[k] = 2 * g[k - 1]
    BY <1>1, <1>2 DEF Doubles
  <2> QED
    BY <2>1
<1>5. Alike(h, g, n)
  BY <1>1, <1>2, <1>4 DEF Doubles, Alike
<1>6. h[n] = g[n]
  BY <1>5, EndAlike
<1>7. h[n + 1] = 2 * h[n]
  <2>1. n + 1 \in 1 .. n + 1 /\ (n + 1) - 1 = n
    OBVIOUS
  <2> QED
    BY <1>2, <2>1 DEF Doubles
<1>8. Pow(n) = g[n] /\ Pow(n) \in Nat \ {0} /\ Pow(n + 1) = h[n + 1]
  BY <1>1, <1>2 DEF Doubles
<1>9. Pow(0) = 1
  BY <1>3 DEF Doubles
<1> QED
  BY <1>6, <1>7, <1>8, <1>9

LEMMA PowSum ==
    ASSUME NEW a \in Nat, NEW b \in Nat
    PROVE  Pow(a + b) = Pow(a) * Pow(b)
<1> DEFINE T == {k \in Nat : Pow(a + k) = Pow(a) * Pow(k)}
<1>1. 0 \in T
  <2>1. Pow(a) \in Nat /\ Pow(0) = 1 /\ a + 0 = a
    BY PowIs
  <2> QED
    BY <2>1
<1>2. ASSUME NEW k \in Nat, k \in T PROVE k + 1 \in T
  <2>1. PICK x \in Nat, y \in Nat : x = Pow(a) /\ y = Pow(k)
    BY PowIs
  <2>2. Pow(a + k) = x * y
    BY <1>2, <2>1
  <2>3. Pow((a + k) + 1) = 2 * Pow(a + k) /\ Pow(k + 1) = 2 * y
    BY <2>1, PowIs, a + k \in Nat
  <2>4. 2 * (x * y) = x * (2 * y) /\ a + (k + 1) = (a + k) + 1
    OBVIOUS
  <2> QED
    BY <2>1, <2>2, <2>3, <2>4
<1>3. Nat \subseteq T
  <2> HIDE DEF T
  <2> QED
    BY <1>1, <1>2, NatSetInduction
<1> QED
  BY <1>3

LEMMA PowMono ==
    ASSUME NEW a \in Nat, NEW b \in Nat
    PROVE  /\ a <= b => Pow(a) <= Pow(b)
           /\ a < b => 2 * Pow(a) <= Pow(b)
<1>1. ASSUME NEW c \in Nat, NEW d \in Nat, c <= d PROVE Pow(c) <= Pow(d)
  <2>1. d - c \in Nat /\ c + (d - c) = d
    BY <1>1
  <2>2. PICK x \in Nat \ {0}, y \in Nat \ {0} : x = Pow(c) /\ y = Pow(d - c)
    BY <2>1, PowIs
  <2>3. Pow(d) = x * y
    BY <2>1, <2>2, PowSum
  <2>4. 1 * x <= y * x
    BY Times
  <2> QED
    BY <2>2, <2>3, <2>4
<1>2. a < b => Pow(a + 1) <= Pow(b)
  BY <1>1, a + 1 \in Nat
<1>3. Pow(a + 1) = 2 * Pow(a)
  BY PowIs
<1> QED
  BY <1>1, <1>2, <1>3

-----------------------------------------------------------------------------
(* The bits of a number.                                                    *)

\* The n bits of v from bit c on.
Field(v, c, n) == (v \div Pow(c)) % Pow(n)

LEMMA FieldType ==
    ASSUME NEW v \in Nat, NEW c \in Nat, NEW n \in Nat
    PROVE  Field(v, c, n) \in 0 .. Pow(n) - 1 /\ Field(v, c, n) \in Nat
<1>1. PICK x \in Nat \ {0}, y \in Nat \ {0} : x = Pow(c) /\ y = Pow(n)
  BY PowIs
<1>2. v \div x \in Nat
  BY DivRem
<1>3. (v \div x) % y \in 0 .. y - 1
  BY <1>2, DivRem
<1> QED
  BY <1>1, <1>3 DEF Field

\* A field is its low bits and its high ones.
LEMMA FieldSplit ==
    ASSUME NEW v \in Nat, NEW c \in Nat, NEW a \in Nat, NEW b \in Nat,
           NEW d \in Nat, d = c + a, NEW n \in Nat, n = a + b
    PROVE  /\ Field(v, c, n) = Field(v, c, a) + Field(v, d, b) * Pow(a)
           /\ Field(v, c, n) % Pow(a) = Field(v, c, a)
           /\ Field(v, c, n) \div Pow(a) = Field(v, d, b)
<1>1. PICK C \in Nat \ {0}, A \in Nat \ {0}, B \in Nat \ {0} :
         C = Pow(c) /\ A = Pow(a) /\ B = Pow(b)
  BY PowIs
<1>2. Pow(n) = B * A /\ Pow(d) = A * C
  <2>1. Pow(n) = A * B /\ Pow(d) = C * A
    BY <1>1, PowSum
  <2> QED
    BY <2>1
<1>3. PICK g \in Nat : g = v \div C
  BY DivRem
<1>4. PICK q \in Nat, l \in 0 .. A - 1 : q = g \div A /\ l = g % A /\ g = A * q + l
  BY DivParts
<1>5. PICK e \in Nat, h \in 0 .. B - 1 : e = q \div B /\ h = q % B /\ q = B * e + h
  BY DivParts
<1>6. Field(v, c, a) = l
  BY <1>1, <1>3, <1>4 DEF Field
<1>7. Field(v, d, b) = h
  <2>1. (v \div C) \div A = v \div (A * C)
    BY DivDiv
  <2> QED
    BY <1>1, <1>2, <1>3, <1>4, <1>5, <2>1 DEF Field
<1>8. Field(v, c, n) = g % (B * A)
  BY <1>1, <1>2, <1>3 DEF Field
<1>9. g % (B * A) = A * h + l
  <2> DEFINE m == B * A
             z == A * h + l
  <2>1. m \in Nat \ {0}
    OBVIOUS
  <2>2. h * A + A <= B * A
    BY Times
  <2>3. z \in 0 .. m - 1
    <3>1. h * A = A * h /\ h * A \in Nat /\ m \in Nat
      OBVIOUS
    <3> QED
      BY <2>2, <3>1
  <2>4. g = m * e + z
    <3>1. A * (B * e + h) + l = (B * A) * e + (A * h + l)
      OBVIOUS
    <3> QED
      BY <1>4, <1>5, <3>1
  <2> HIDE DEF m, z
  <2>5. g % m = z
    BY <2>1, <2>3, <2>4, DivRemIs
  <2> QED
    BY <2>5 DEF m, z
<1>10. A * h = h * A /\ A * h \in Nat
  OBVIOUS
<1> DEFINE f == Field(v, c, n)
<1>11. f = A * h + l /\ f \in Nat
  BY <1>8, <1>9, <1>10
<1> HIDE DEF f
<1>12. f \div A = h /\ f % A = l
  BY <1>11, DivRemIs
<1> QED
  BY <1>1, <1>6, <1>7, <1>10, <1>11, <1>12 DEF f

\* The same, about named numbers: n is a + b and d is c + a.
Parts(v, c, a, b, d, n) ==
    /\ Field(v, c, n) = Field(v, c, a) + Field(v, d, b) * Pow(a)
    /\ Field(v, c, n) % Pow(a) = Field(v, c, a)
    /\ Field(v, c, n) \div Pow(a) = Field(v, d, b)

LEMMA FieldParts ==
    ASSUME NEW v \in Nat, NEW c \in Nat, NEW a \in Nat, NEW b \in Nat,
           NEW d \in Nat, d = c + a, NEW n \in Nat, n = a + b
    PROVE  Parts(v, c, a, b, d, n)
  BY FieldSplit DEF Parts

\* The bits of a field.
LEMMA FieldOfField ==
    ASSUME NEW v \in Nat, NEW a \in Nat, NEW l \in Nat, NEW c \in Nat, NEW n \in Nat,
           c + n <= l
    PROVE  Field(Field(v, a, l), c, n) = Field(v, a + c, n)
<1>1. PICK m \in Nat, k \in Nat, d \in Nat : l = c + m /\ m = n + k /\ d = a + c
  <2>1. l - c \in Nat /\ (l - c) - n \in Nat /\ a + c \in Nat
    OBVIOUS
  <2> QED
    BY <2>1
<1>2. Field(v, a, l) \div Pow(c) = Field(v, d, m)
  BY <1>1, FieldSplit
<1>3. Field(v, d, m) % Pow(n) = Field(v, d, n)
  <2>1. PICK e \in Nat : e = d + n
    OBVIOUS
  <2>2. /\ Field(v, d, m) % Pow(n) = Field(v, d, n)
        /\ Field(v, d, m) \div Pow(n) = Field(v, e, k)
    BY <1>1, <2>1, FieldSplit
  <2> QED
    BY <2>2
<1> QED
  BY <1>1, <1>2, <1>3 DEF Field

\* All bits, and none.
LEMMA FieldAll ==
    ASSUME NEW v \in Nat, NEW n \in Nat
    PROVE  /\ Field(v, 0, n) = v % Pow(n)
           /\ v < Pow(n) => Field(v, 0, n) = v
           /\ \A c \in Nat : Field(v, c, 0) = 0
<1>1. Pow(0) = 1
  BY PowIs
<1>2. v \div 1 = v
  OBVIOUS
<1>3. PICK y \in Nat \ {0} : y = Pow(n)
  BY PowIs
<1>4. v < y => v % y = v
  OBVIOUS
<1>5. ASSUME NEW c \in Nat PROVE Field(v, c, 0) = 0
  BY <1>1, FieldType
<1> QED
  BY <1>1, <1>2, <1>3, <1>4, <1>5 DEF Field

\* j is v with the n bits of x put in front of its l bits.
Joined(j, v, l, x, n) ==
    /\ j \in Nat /\ j < Pow(l + n)
    /\ Field(j, l, n) = x
    /\ \A c, m \in Nat : c + m <= l => Field(j, c, m) = Field(v, c, m)

LEMMA FieldJoin ==
    ASSUME NEW v \in Nat, NEW l \in Nat, v < Pow(l),
           NEW n \in Nat, NEW x \in Nat, x < Pow(n), NEW j, j = v + x * Pow(l)
    PROVE  Joined(j, v, l, x, n)
<1>1. PICK L \in Nat \ {0}, M \in Nat \ {0} : L = Pow(l) /\ M = Pow(n)
  BY PowIs
<1> DEFINE u == v + x * L
<1>2. x * L \in Nat /\ u \in Nat
  OBVIOUS
<1>3. x * L + L <= M * L
  BY <1>1, Times
<1>4. Pow(l + n) = M * L
  <2>1. Pow(l + n) = L * M
    BY <1>1, PowSum
  <2> QED
    BY <2>1
<1>5. u < Pow(l + n)
  <2>1. M * L \in Nat
    OBVIOUS
  <2> QED
    BY <1>1, <1>2, <1>3, <1>4, <2>1
<1>6. u = L * x + v /\ v \in 0 .. L - 1
  BY <1>1, <1>2
<1> HIDE DEF u
<1>7. u \div L = x /\ u % L = v
  BY <1>2, <1>6, DivRemIs
<1>8. Field(u, l, n) = x
  <2>1. x % M = x
    BY <1>1
  <2> QED
    BY <1>1, <1>7, <2>1 DEF Field
<1>9. Field(u, 0, l) = v
  BY <1>1, <1>2, <1>7, FieldAll
<1>10. ASSUME NEW c \in Nat, NEW m \in Nat, c + m <= l PROVE Field(u, c, m) = Field(v, c, m)
  <2>1. Field(Field(u, 0, l), c, m) = Field(u, 0 + c, m)
    BY <1>2, <1>10, FieldOfField
  <2> QED
    BY <2>1, <1>9
<1> QED
  BY <1>1, <1>2, <1>5, <1>8, <1>10 DEF u, Joined

-----------------------------------------------------------------------------
(* The writer.  v is everything written, as one number.                     *)

LEMMA Byte == BYTE \in Nat \ {0} /\ BYTE \in Nat /\ FIELD \in Nat \ {0} /\ FIELD \in Nat
  BY BitsAssumption

Writers == [out: Seq(Nat), acc: Nat, nbits: Nat]

\* The bytes of v from byte k on.
BytesOf(s, v, k) ==
    \A i \in 1 .. Len(s) : s[i] = Field(v, BYTE * (k + i - 1), BYTE)

\* out holds the full bytes of v, acc the bits after them.
Holds(b, v) ==
    /\ b \in Writers /\ v \in Nat
    /\ b.nbits < BYTE
    /\ v < Pow(bit_len(b))
    /\ BytesOf(b.out, v, 0)
    /\ b.acc = Field(v, BYTE * Len(b.out), b.nbits)

\* The first l bits are the same.
Keeps(u, v, l) ==
    \A c, m \in Nat : c + m <= l => Field(u, c, m) = Field(v, c, m)

LEMMA LenIs ==
    ASSUME NEW b \in Writers
    PROVE  /\ Len(b.out) \in Nat /\ b.nbits \in Nat /\ b.acc \in Nat /\ b.out \in Seq(Nat)
           /\ bit_len(b) \in Nat
           /\ bit_len(b) = BYTE * Len(b.out) + b.nbits
<1>1. PICK k \in Nat : k = Len(b.out)
  BY DEF Writers
<1>2. b.nbits \in Nat /\ b.acc \in Nat /\ b.out \in Seq(Nat)
  BY DEF Writers
<1>3. k * BYTE \in Nat /\ k * BYTE = BYTE * k
  BY Byte
<1> QED
  BY <1>1, <1>2, <1>3 DEF bit_len

LEMMA KeepsChain ==
    ASSUME NEW t, NEW u, NEW v, NEW l \in Nat, NEW m \in Nat, l <= m,
           Keeps(u, v, l), Keeps(t, u, m)
    PROVE  Keeps(t, v, l)
<1> SUFFICES ASSUME NEW c \in Nat, NEW n \in Nat, c + n <= l
             PROVE  Field(t, c, n) = Field(v, c, n)
  BY DEF Keeps
<1>1. Field(u, c, n) = Field(v, c, n)
  BY DEF Keeps
<1>2. c + n <= m
  OBVIOUS
<1>3. Field(t, c, n) = Field(u, c, n)
  BY <1>2 DEF Keeps
<1> QED
  BY <1>1, <1>3

LEMMA KeepsBytes ==
    ASSUME NEW s \in Seq(Nat), NEW u, NEW v, NEW l \in Nat, BYTE * Len(s) <= l,
           Keeps(u, v, l), BytesOf(s, v, 0)
    PROVE  BytesOf(s, u, 0)
<1> SUFFICES ASSUME NEW i \in 1 .. Len(s)
             PROVE  s[i] = Field(u, BYTE * (0 + i - 1), BYTE)
  BY DEF BytesOf
<1>1. PICK k \in Nat, j \in Nat : k = Len(s) /\ j = i - 1 /\ j < k
  <2>1. Len(s) \in Nat
    OBVIOUS
  <2>2. i - 1 \in Nat /\ i - 1 < Len(s)
    BY <2>1
  <2> QED
    BY <2>1, <2>2
<1>2. BYTE * j \in Nat /\ BYTE * j + BYTE <= l
  <2>1. j * BYTE + BYTE <= k * BYTE
    BY <1>1, Byte, Times
  <2>2. j * BYTE = BYTE * j /\ k * BYTE = BYTE * k /\ BYTE * j \in Nat /\ BYTE * k \in Nat
    BY Byte
  <2> QED
    BY <2>1, <2>2, <1>1, Byte
<1>3. Field(u, BYTE * j, BYTE) = Field(v, BYTE * j, BYTE)
  BY <1>2, Byte DEF Keeps
<1>4. 0 + i - 1 = j
  BY <1>1
<1> QED
  BY <1>3, <1>4 DEF BytesOf

\* The bytes of a number, one after the other.
Cut(x, full) == [i \in 1 .. full |-> (x \div Pow(BYTE * (i - 1))) % Pow(BYTE)]

LEMMA BytesFrom ==
    ASSUME NEW x \in Nat, NEW u \in Nat, NEW k \in Nat, NEW t \in Nat,
           x = Field(u, BYTE * k, t), NEW full \in Nat, BYTE * full <= t
    PROVE  /\ Cut(x, full) \in Seq(Nat) /\ Len(Cut(x, full)) = full
           /\ BytesOf(Cut(x, full), u, k)
<1> DEFINE s == Cut(x, full)
<1>1. ASSUME NEW i \in 1 .. full
      PROVE  /\ s[i] = Field(u, BYTE * (k + i - 1), BYTE)
             /\ s[i] \in Nat
  <2>1. PICK j \in Nat : j = i - 1 /\ j < full
    <3>1. i - 1 \in Nat /\ i - 1 < full
      OBVIOUS
    <3> QED
      BY <3>1
  <2>2. PICK c \in Nat, d \in Nat, e \in Nat :
           c = BYTE * j /\ d = BYTE * k /\ e = BYTE * (k + i - 1) /\ e = d + c
    <3>1. PICK m \in Nat : m = k + i - 1 /\ m = k + j
      <4>1. k + j \in Nat /\ k + i - 1 = k + j
        BY <2>1
      <4> QED
        BY <4>1
    <3>2. BYTE * j \in Nat /\ BYTE * k \in Nat /\ BYTE * m \in Nat
      BY Byte
    <3>3. BYTE * (k + j) = BYTE * k + BYTE * j
      BY Byte
    <3>4. BYTE * m = BYTE * k + BYTE * j
      BY <3>1, <3>3
    <3> QED
      BY <3>1, <3>2, <3>4
  <2>3. c + BYTE <= t
    <3>1. j * BYTE + BYTE <= full * BYTE
      BY <2>1, Byte, Times
    <3>2. j * BYTE = c
      BY <2>2, Byte
    <3>3. PICK p \in Nat : p = BYTE * full /\ p = full * BYTE
      BY Byte
    <3>4. p <= t
      BY <3>3
    <3>5. c + BYTE <= p
      BY <3>1, <3>2, <3>3
    <3> QED
      BY <3>4, <3>5, Byte
  <2>4. s[i] = Field(x, c, BYTE)
    BY <2>1, <2>2 DEF Field, Cut
  <2>5. Field(x, c, BYTE) = Field(u, d + c, BYTE)
    BY <2>2, <2>3, Byte, FieldOfField
  <2>6. Field(u, e, BYTE) \in Nat
    BY Byte, FieldType
  <2> QED
    BY <2>2, <2>4, <2>5, <2>6
<1>2. s \in [1 .. full -> Nat]
  <2>1. s = [i \in 1 .. full |-> s[i]]
    BY DEF Cut
  <2> HIDE DEF s
  <2> QED
    BY <1>1, <2>1
<1> HIDE DEF s
<1>3. s \in Seq(Nat) /\ Len(s) = full
  BY <1>2
<1> QED
  BY <1>1, <1>3 DEF BytesOf, s

LEMMA BytesConcat ==
    ASSUME NEW s \in Seq(Nat), NEW t \in Seq(Nat), NEW u,
           BytesOf(s, u, 0), BytesOf(t, u, Len(s))
    PROVE  /\ s \o t \in Seq(Nat) /\ Len(s \o t) = Len(s) + Len(t)
           /\ BytesOf(s \o t, u, 0)
<1>1. /\ s \o t \in Seq(Nat) /\ Len(s \o t) = Len(s) + Len(t)
      /\ \A i \in 1 .. Len(s) + Len(t) :
            (s \o t)[i] = IF i <= Len(s) THEN s[i] ELSE t[i - Len(s)]
  BY ConcatProperties
<1>2. Len(s) \in Nat /\ Len(t) \in Nat
  OBVIOUS
<1>3. ASSUME NEW i \in 1 .. Len(s) + Len(t)
      PROVE  (s \o t)[i] = Field(u, BYTE * (0 + i - 1), BYTE)
  <2>1. CASE i <= Len(s)
    <3>1. i \in 1 .. Len(s)
      BY <1>2, <2>1
    <3> QED
      BY <1>1, <2>1, <3>1 DEF BytesOf
  <2>2. CASE ~ i <= Len(s)
    <3>1. PICK j \in 1 .. Len(t) : j = i - Len(s) /\ Len(s) + j - 1 = 0 + i - 1
      <4>1. i - Len(s) \in 1 .. Len(t) /\ Len(s) + (i - Len(s)) - 1 = 0 + i - 1
        BY <1>2, <2>2
      <4> QED
        BY <4>1
    <3>2. t[j] = Field(u, BYTE * (Len(s) + j - 1), BYTE)
      BY DEF BytesOf
    <3> QED
      BY <1>1, <2>2, <3>1, <3>2
  <2> QED
    BY <2>1, <2>2
<1> QED
  BY <1>1, <1>3 DEF BytesOf

\* A field of n bits was written: v became u, and b became d.
Wrote(b, v, d, u, value, n) ==
    /\ Holds(d, u)
    /\ bit_len(d) = bit_len(b) + n
    /\ Keeps(u, v, bit_len(b))
    /\ Field(u, bit_len(b), n) = value

LEMMA WriteIs ==
    ASSUME NEW b, NEW v, Holds(b, v), NEW n \in Nat, NEW value \in Nat, value < Pow(n)
    PROVE  \E u : Wrote(b, v, write_bits(b, value, n), u, value, n)
<1>1. PICK k \in Nat, m \in Nat, L \in Nat, K \in Nat :
         /\ k = Len(b.out) /\ m = b.nbits /\ L = bit_len(b) /\ K = BYTE * k /\ L = K + m
         /\ m < BYTE
  <2>1. b \in Writers /\ b.nbits < BYTE
    BY DEF Holds
  <2>2. BYTE * Len(b.out) \in Nat
    BY <2>1, LenIs, Byte
  <2> QED
    BY <2>1, <2>2, LenIs
<1>2. /\ b.out \in Seq(Nat) /\ v \in Nat /\ v < Pow(L) /\ BytesOf(b.out, v, 0)
      /\ b.acc = Field(v, K, m)
  <2>1. b \in Writers
    BY DEF Holds
  <2> QED
    BY <1>1, <2>1, LenIs DEF Holds
<1>3. PICK u \in Nat : /\ u < Pow(L + n) /\ Field(u, L, n) = value
                       /\ Keeps(u, v, L)
  <2>1. PICK u : u = v + value * Pow(L)
    OBVIOUS
  <2>2. Joined(u, v, L, value, n)
    BY <1>2, <2>1, FieldJoin
  <2> QED
    BY <2>2 DEF Joined, Keeps
<1>4. PICK t \in Nat : t = m + n
  BY <1>1
<1>5. PICK full \in Nat, rest \in 0 .. BYTE - 1 :
         full = t \div BYTE /\ rest = t % BYTE /\ t = BYTE * full + rest
  BY Byte, DivParts
<1>6. PICK D \in Nat, E \in Nat : D = BYTE * full /\ E = BYTE * (k + full) /\ E = K + D
  <2>1. BYTE * full \in Nat /\ BYTE * (k + full) \in Nat
    BY Byte
  <2>2. BYTE * (k + full) = BYTE * k + BYTE * full
    BY Byte
  <2> QED
    BY <1>1, <2>1, <2>2
<1>7. PICK acc \in Nat : acc = b.acc + value * Pow(b.nbits) /\ acc = Field(u, K, t)
  <2>1. Field(u, K, t) = Field(u, K, m) + Field(u, L, n) * Pow(m)
    <3>1. L = K + m /\ t = m + n
      BY <1>1, <1>4
    <3> QED
      BY <3>1, FieldSplit
  <2>2. Field(u, K, m) = Field(v, K, m)
    <3>1. K + m <= L
      BY <1>1
    <3> QED
      BY <1>1, <1>3, <3>1 DEF Keeps
  <2>3. Field(u, K, t) \in Nat
    BY <1>1, <1>3, <1>4, FieldType
  <2> QED
    BY <1>1, <1>2, <1>3, <2>1, <2>2, <2>3
<1>8. PICK s : s = Cut(acc, full)
  OBVIOUS
<1>9. s \in Seq(Nat) /\ Len(s) = full /\ BytesOf(s, u, k)
  <2>1. BYTE * full <= t
    BY <1>5, <1>6, Byte
  <2>2. acc = Field(u, BYTE * k, t)
    BY <1>1, <1>7
  <2> QED
    BY <1>8, <2>1, <2>2, BytesFrom
<1>10. /\ b.out \o s \in Seq(Nat) /\ Len(b.out \o s) = k + full
       /\ BytesOf(b.out \o s, u, 0)
  <2>1. BYTE * Len(b.out) <= L
    BY <1>1
  <2>2. BytesOf(b.out, u, 0)
    BY <2>1, <1>1, <1>2, <1>3, KeepsBytes
  <2> QED
    BY <1>1, <1>2, <1>9, <2>2, BytesConcat
<1> DEFINE d == write_bits(b, value, n)
<1>11. d = [out |-> b.out \o s, acc |-> acc \div Pow(BYTE * full), nbits |-> t % BYTE]
  BY <1>1, <1>4, <1>5, <1>7, <1>8 DEF write_bits, Cut
<1> HIDE DEF d
<1>12. d.out = b.out \o s /\ d.acc = acc \div Pow(D) /\ d.nbits = rest
  BY <1>11, <1>5, <1>6
<1>13. acc \div Pow(D) = Field(u, E, rest) /\ Field(u, E, rest) \in Nat
  <2>1. t = D + rest /\ rest \in Nat /\ E = K + D
    BY <1>5, <1>6, Byte
  <2>2. Field(u, K, t) \div Pow(D) = Field(u, E, rest)
    BY <2>1, FieldSplit
  <2>3. Field(u, E, rest) \in Nat
    BY <1>3, <1>6, <2>1, FieldType
  <2> QED
    BY <1>7, <2>2, <2>3
<1>14. d \in Writers
  <2>1. rest \in Nat /\ acc \div Pow(D) \in Nat
    BY <1>13
  <2> QED
    BY <2>1, <1>5, <1>6, <1>10, <1>11 DEF Writers
<1>15. bit_len(d) = L + n
  <2>1. bit_len(d) = E + rest
    BY <1>6, <1>10, <1>12, <1>14, LenIs
  <2>2. t = D + rest /\ E = K + D /\ L = K + m /\ t = m + n
    BY <1>1, <1>4, <1>5, <1>6
  <2> QED
    BY <2>1, <2>2, Byte
<1>16. Holds(d, u)
  <2>1. d.nbits < BYTE
    BY <1>12, Byte
  <2>2. u < Pow(bit_len(d))
    BY <1>3, <1>15
  <2>3. d.acc = Field(u, BYTE * Len(d.out), d.nbits)
    BY <1>6, <1>10, <1>12, <1>13
  <2> QED
    BY <2>1, <2>2, <2>3, <1>3, <1>10, <1>12, <1>14 DEF Holds
<1>17. Wrote(b, v, d, u, value, n)
  BY <1>1, <1>3, <1>15, <1>16 DEF Wrote
<1> QED
  BY <1>17 DEF d

LEMMA HoldsType ==
    ASSUME NEW b, NEW v, Holds(b, v)
    PROVE  v \in Nat /\ b \in Writers /\ bit_len(b) \in Nat /\ b.nbits \in Nat
<1>1. b \in Writers /\ v \in Nat
  BY DEF Holds
<1> QED
  BY <1>1, LenIs

\* Two fields one after the other.
LEMMA WroteTwo ==
    ASSUME NEW b, NEW v, Holds(b, v), NEW d, NEW u, NEW e, NEW t,
           NEW low \in Nat, NEW high \in Nat, NEW a \in Nat, NEW n \in Nat,
           Wrote(b, v, d, u, low, a), Wrote(d, u, e, t, high, n)
    PROVE  /\ Wrote(b, v, e, t, low + high * Pow(a), a + n)
           /\ Field(t, bit_len(b), a) = low /\ Field(t, bit_len(b) + a, n) = high
<1>1. PICK L \in Nat, M \in Nat :
         L = bit_len(b) /\ M = bit_len(d) /\ M = L + a /\ bit_len(e) = M + n
  <2>1. Holds(d, u) /\ bit_len(d) = bit_len(b) + a /\ bit_len(e) = bit_len(d) + n
    BY DEF Wrote
  <2> QED
    BY <2>1, HoldsType
<1>2. /\ Holds(e, t) /\ Keeps(t, u, M) /\ Keeps(u, v, L)
      /\ Field(u, L, a) = low /\ Field(t, M, n) = high
  BY <1>1 DEF Wrote
<1>3. t \in Nat
  BY <1>2, HoldsType
<1>4. Field(t, L, a) = low
  <2>1. L + a <= M
    BY <1>1
  <2> QED
    BY <1>1, <1>2, <2>1 DEF Keeps
<1>5. PICK k \in Nat : k = a + n
  OBVIOUS
<1>6. Field(t, L, k) = Field(t, L, a) + Field(t, M, n) * Pow(a)
  BY <1>1, <1>3, <1>5, FieldSplit
<1>7. Keeps(t, v, L)
  <2>1. L <= M
    BY <1>1
  <2> QED
    BY <1>1, <1>2, <2>1, KeepsChain
<1>8. bit_len(e) = L + (a + n)
  BY <1>1
<1>9. Wrote(b, v, e, t, low + high * Pow(a), a + n)
  BY <1>1, <1>2, <1>4, <1>5, <1>6, <1>7, <1>8 DEF Wrote
<1> QED
  BY <1>1, <1>2, <1>4, <1>9

LEMMA WriteLongIs ==
    ASSUME NEW b, NEW v, Holds(b, v), NEW n \in Nat, NEW value \in Nat, value < Pow(n)
    PROVE  \E u : Wrote(b, v, WriteLong(b, value, n), u, value, n)
<1>1. CASE n <= FIELD
  <2>1. WriteLong(b, value, n) = write_bits(b, value, n)
    BY <1>1, Byte DEF WriteLong
  <2> QED
    BY <2>1, WriteIs
<1>2. CASE n > FIELD
  <2>1. PICK F \in Nat, h \in Nat : F = FIELD /\ h = n - FIELD /\ n = F + h
    BY <1>2, Byte
  <2>2. PICK P \in Nat \ {0}, Q \in Nat \ {0} : P = Pow(F) /\ Q = Pow(h) /\ Pow(n) = P * Q
    <3>1. Pow(F + h) = Pow(F) * Pow(h)
      BY PowSum
    <3> QED
      BY <2>1, <3>1, PowIs
  <2>3. PICK q \in Nat, l \in 0 .. P - 1 :
           q = value \div P /\ l = value % P /\ value = P * q + l
    BY DivParts
  <2>4. q < Q
    <3>1. ~ Q <= q
      <4>1. Q <= q => Q * P <= q * P
        BY Times
      <4>2. Q * P = P * Q /\ q * P = P * q /\ P * q \in Nat /\ P * Q \in Nat
        OBVIOUS
      <4> QED
        BY <4>1, <4>2, <2>2, <2>3
    <3> QED
      BY <3>1
  <2> DEFINE d == write_bits(b, l, F)
             e == write_bits(d, q, h)
  <2>5. PICK u : Wrote(b, v, d, u, l, F)
    <3>1. l \in Nat /\ l < Pow(F)
      BY <2>2
    <3> QED
      BY <3>1, WriteIs
  <2> HIDE DEF d
  <2>6. PICK t : Wrote(d, u, e, t, q, h)
    <3>1. Holds(d, u) /\ q < Pow(h)
      BY <2>2, <2>4, <2>5 DEF Wrote
    <3> QED
      BY <3>1, WriteIs
  <2> HIDE DEF e
  <2>7. Wrote(b, v, e, t, l + q * Pow(F), F + h)
    <3>1. l \in Nat
      OBVIOUS
    <3> QED
      BY <2>5, <2>6, <3>1, WroteTwo
  <2>8. l + q * Pow(F) = value
    <3>1. q * P = P * q /\ q * P \in Nat
      OBVIOUS
    <3> QED
      BY <2>2, <2>3, <3>1
  <2>9. WriteLong(b, value, n) = e
    BY <1>2, <2>1, <2>2, <2>3 DEF WriteLong, d, e
  <2> QED
    BY <2>1, <2>7, <2>8, <2>9
<1> QED
  BY <1>1, <1>2, Byte

\* The gamma code of value at bit c: x zeros, a one, the x bits below it.
GammaAt(v, value, c, x) ==
    /\ Pow(x) <= value /\ value < Pow(x + 1)
    /\ Field(v, c, x) = 0
    /\ Field(v, c + x, 1) = 1
    /\ Field(v, c + x + 1, x) = value - Pow(x)

\* What an operation leaves between the bits c and e.
Coded(v, op, c, e) ==
    /\ op.kind = "bits" => e = c + op.n /\ Field(v, c, op.n) = op.value
    /\ op.kind = "gamma" =>
          \E x \in 0 .. 2 * FIELD - 1 : GammaAt(v, op.value, c, x) /\ e = c + x + 1 + x
    /\ op.kind = "align" => \E k \in Nat : e = BYTE * k /\ c <= e /\ e < c + BYTE

\* What every operation does to the writer.
Extends(b, v, d, u, op) ==
    /\ Holds(d, u) /\ Keeps(u, v, bit_len(b))
    /\ bit_len(b) <= bit_len(d)
    /\ Coded(u, op, bit_len(b), bit_len(d))

LEMMA CodedKept ==
    ASSUME NEW u, NEW v, NEW op \in Op, NEW c \in Nat, NEW e \in Nat,
           NEW l \in Nat, e <= l, Keeps(u, v, l), Coded(v, op, c, e)
    PROVE  Coded(u, op, c, e)
<1>1. op.kind = "bits" => e = c + op.n /\ Field(u, c, op.n) = op.value
  <2>1. op.n \in Nat
    BY Byte DEF Op
  <2> QED
    BY <2>1 DEF Coded, Keeps
<1>2. ASSUME op.kind = "gamma"
      PROVE  \E x \in 0 .. 2 * FIELD - 1 : GammaAt(u, op.value, c, x) /\ e = c + x + 1 + x
  <2>1. PICK x \in 0 .. 2 * FIELD - 1 : GammaAt(v, op.value, c, x) /\ e = c + x + 1 + x
    BY <1>2 DEF Coded
  <2>2. x \in Nat /\ c + x \in Nat /\ c + x + 1 \in Nat /\ 1 \in Nat
    BY Byte
  <2>3. c + x <= l /\ (c + x) + 1 <= l /\ (c + x + 1) + x <= l
    BY <2>1, <2>2
  <2>4. /\ Field(u, c, x) = Field(v, c, x)
        /\ Field(u, c + x, 1) = Field(v, c + x, 1)
        /\ Field(u, c + x + 1, x) = Field(v, c + x + 1, x)
    BY <2>2, <2>3 DEF Keeps
  <2>5. GammaAt(u, op.value, c, x)
    BY <2>1, <2>4 DEF GammaAt
  <2> QED
    BY <2>1, <2>5
<1>3. op.kind = "align" => \E k \in Nat : e = BYTE * k /\ c <= e /\ e < c + BYTE
  BY DEF Coded
<1> QED
  BY <1>1, <1>2, <1>3 DEF Coded

\* The leading one of a number.
LEMMA ExtraIs ==
    ASSUME NEW n \in 1 .. Pow(2 * FIELD) - 1
    PROVE  /\ Extra(n) \in 0 .. 2 * FIELD - 1
           /\ Pow(Extra(n)) <= n /\ n < Pow(Extra(n) + 1)
<1>1. PICK F \in Nat : F = 2 * FIELD
  BY Byte
<1>2. Pow(F) \in Nat /\ Pow(0) = 1
  BY PowIs
<1> DEFINE S == {k \in Nat : n < Pow(k)}
<1>3. n \in Nat /\ F \in S
  BY <1>1, <1>2
<1>4. PICK k \in S : \A j \in S : k <= j
  BY <1>3, LeastNat
<1>5. k \in Nat /\ n < Pow(k) /\ k <= F
  BY <1>3, <1>4
<1>6. k # 0
  BY <1>2, <1>5
<1>7. PICK j \in Nat : k = j + 1
  <2>1. k - 1 \in Nat /\ k = (k - 1) + 1
    BY <1>5, <1>6
  <2> QED
    BY <2>1
<1>8. j \notin S
  BY <1>4, <1>7
<1>9. Pow(j) <= n
  <2>1. Pow(j) \in Nat
    BY PowIs
  <2> QED
    BY <2>1, <1>8, <1>3
<1>10. j \in 0 .. 2 * FIELD - 1
  BY <1>1, <1>5, <1>7
<1>11. Pow(j) <= n /\ n < Pow(j + 1)
  BY <1>5, <1>7, <1>9
<1> QED
  BY <1>10, <1>11 DEF Extra

LEMMA WroteIs ==
    ASSUME NEW b, NEW v, Holds(b, v), NEW d, NEW u, NEW x, NEW n \in Nat,
           Wrote(b, v, d, u, x, n)
    PROVE  /\ Holds(d, u) /\ Keeps(u, v, bit_len(b)) /\ Field(u, bit_len(b), n) = x
           /\ bit_len(d) = bit_len(b) + n /\ bit_len(b) \in Nat /\ bit_len(d) \in Nat
           /\ bit_len(b) <= bit_len(d)
<1>1. /\ Holds(d, u) /\ Keeps(u, v, bit_len(b)) /\ Field(u, bit_len(b), n) = x
      /\ bit_len(d) = bit_len(b) + n
  BY DEF Wrote
<1>2. bit_len(b) \in Nat /\ bit_len(d) \in Nat
  BY <1>1, HoldsType
<1> QED
  BY <1>1, <1>2

LEMMA GammaIs ==
    ASSUME NEW b, NEW v, Holds(b, v), NEW op \in Op, op.kind = "gamma",
           op.value \in 1 .. Pow(2 * FIELD) - 1
    PROVE  \E u : Extends(b, v, write_gamma(b, op.value), u, op)
<1>1. PICK n \in Nat, x \in 0 .. 2 * FIELD - 1 :
         /\ n = op.value /\ x = Extra(n)
         /\ Pow(x) <= n /\ n < Pow(x + 1)
  BY ExtraIs
<1>2. x \in Nat
  BY Byte
<1>3. PICK rest \in Nat : rest = n - Pow(x) /\ rest < Pow(x)
  <2>1. PICK P \in Nat : P = Pow(x) /\ Pow(x + 1) = 2 * P
    BY <1>2, PowIs
  <2>2. n - P \in Nat /\ n - P < P
    BY <1>1, <2>1
  <2> QED
    BY <2>1, <2>2
<1>4. Pow(x) \in Nat \ {0} /\ Pow(1) = 2
  <2>1. Pow(0) = 1 /\ Pow(0 + 1) = 2 * Pow(0)
    BY PowIs
  <2> QED
    BY <2>1, <1>2, PowIs
<1> DEFINE d == WriteLong(b, 0, x)
           e == write_bits(d, 1, 1)
           f == WriteLong(e, rest, x)
<1>5. f = write_gamma(b, op.value)
  BY <1>1, <1>3 DEF write_gamma
<1>6. PICK u1 : Wrote(b, v, d, u1, 0, x)
  <2>1. 0 < Pow(x)
    BY <1>4
  <2> QED
    BY <1>2, <2>1, WriteLongIs
<1> HIDE DEF d
<1>7. Holds(d, u1)
  BY <1>6 DEF Wrote
<1>8. PICK u2 : Wrote(d, u1, e, u2, 1, 1)
  <2>1. 1 < Pow(1)
    BY <1>4
  <2> QED
    BY <1>7, <2>1, WriteIs
<1> HIDE DEF e
<1>9. Holds(e, u2)
  BY <1>8 DEF Wrote
<1>10. PICK u3 : Wrote(e, u2, f, u3, rest, x)
  BY <1>2, <1>3, <1>9, WriteLongIs
<1> HIDE DEF f
<1>11. PICK L \in Nat, M \in Nat, K \in Nat, E \in Nat :
          /\ L = bit_len(b) /\ M = bit_len(d) /\ K = bit_len(e) /\ E = bit_len(f)
          /\ M = L + x /\ K = M + 1 /\ E = K + x
  BY <1>2, <1>6, <1>7, <1>8, <1>9, <1>10, WroteIs
<1>12. /\ Keeps(u1, v, L) /\ Keeps(u2, u1, M) /\ Keeps(u3, u2, K)
       /\ Field(u1, L, x) = 0 /\ Field(u2, M, 1) = 1 /\ Field(u3, K, x) = rest
       /\ Holds(f, u3)
  BY <1>6, <1>8, <1>10, <1>11 DEF Wrote
<1>13. Keeps(u3, u1, M)
  <2>1. M <= K
    BY <1>11
  <2> QED
    BY <2>1, <1>12, KeepsChain
<1>14. Keeps(u3, v, L)
  <2>1. L <= M
    BY <1>2, <1>11
  <2> QED
    BY <2>1, <1>12, <1>13, KeepsChain
<1>15. Field(u3, L, x) = 0
  <2>1. L + x <= M
    BY <1>2, <1>11
  <2> QED
    BY <2>1, <1>2, <1>12, <1>13 DEF Keeps
<1>16. Field(u3, M, 1) = 1
  <2>1. M + 1 <= K
    BY <1>11
  <2> QED
    BY <2>1, <1>12 DEF Keeps
<1>17. L + x = M /\ L + x + 1 = K /\ E = L + x + 1 + x /\ L <= E
  BY <1>2, <1>11
<1>18. GammaAt(u3, op.value, L, x)
  BY <1>1, <1>3, <1>12, <1>15, <1>16, <1>17 DEF GammaAt
<1>19. Coded(u3, op, L, E)
  BY <1>17, <1>18 DEF Coded
<1>20. Extends(b, v, f, u3, op)
  BY <1>11, <1>12, <1>14, <1>17, <1>19 DEF Extends
<1> QED
  BY <1>5, <1>20

\* Padding: to a multiple of BYTE.
LEMMA PadIs ==
    ASSUME NEW b, NEW v, Holds(b, v)
    PROVE  \E u : /\ Holds(WriterAlign(b), u) /\ Keeps(u, v, bit_len(b))
                  /\ WriterAlign(b).nbits = 0
                  /\ bit_len(b) <= bit_len(WriterAlign(b))
                  /\ bit_len(WriterAlign(b)) < bit_len(b) + BYTE
                  /\ bit_len(WriterAlign(b)) = BYTE * Len(WriterAlign(b).out)
<1>1. /\ b \in Writers /\ Len(b.out) \in Nat /\ b.nbits \in Nat /\ b.nbits < BYTE
      /\ bit_len(b) = BYTE * Len(b.out) + b.nbits /\ bit_len(b) \in Nat
  BY LenIs DEF Holds
<1>2. CASE b.nbits = 0
  <2>1. WriterAlign(b) = b
    BY <1>2 DEF WriterAlign
  <2>2. BYTE * Len(b.out) \in Nat
    BY <1>1, Byte
  <2> QED
    BY <2>1, <2>2, <1>1, <1>2, Byte DEF Keeps
<1>3. CASE b.nbits # 0
  <2>1. PICK m \in Nat, n \in Nat, k \in Nat :
           m = b.nbits /\ n = BYTE - m /\ k = Len(b.out) /\ n # 0 /\ m # 0 /\ m + n = BYTE
    <3>1. BYTE - b.nbits \in Nat /\ BYTE - b.nbits # 0 /\ b.nbits + (BYTE - b.nbits) = BYTE
      BY <1>1, Byte
    <3> QED
      BY <1>1, <1>3, <3>1
  <2> DEFINE d == write_bits(b, 0, n)
  <2>2. WriterAlign(b) = d
    BY <1>3, <2>1 DEF WriterAlign
  <2>3. PICK u : Wrote(b, v, d, u, 0, n)
    <3>1. 0 < Pow(n)
      BY PowIs
    <3> QED
      BY <3>1, WriteIs
  <2>4. d.nbits = 0
    <3>1. d.nbits = (m + n) % BYTE
      BY <2>1 DEF write_bits
    <3>2. BYTE = BYTE * 1 + 0 /\ 0 \in 0 .. BYTE - 1 /\ 1 \in Nat
      BY Byte
    <3>3. BYTE % BYTE = 0
      BY <3>2, Byte, DivRemIs
    <3> QED
      BY <2>1, <3>1, <3>3
  <2> HIDE DEF d
  <2>5. /\ Holds(d, u) /\ Keeps(u, v, bit_len(b)) /\ bit_len(d) = bit_len(b) + n
    BY <2>3 DEF Wrote
  <2>6. bit_len(d) = BYTE * Len(d.out) + 0
    <3>1. d \in Writers
      BY <2>5 DEF Holds
    <3> QED
      BY <3>1, <2>4, LenIs
  <2>7. BYTE * Len(d.out) \in Nat
    <3>1. Len(d.out) \in Nat
      BY <2>5, LenIs DEF Holds
    <3> QED
      BY <3>1, Byte
  <2>8. bit_len(b) <= bit_len(d) /\ bit_len(d) < bit_len(b) + BYTE
    <3>1. bit_len(b) \in Nat /\ m < BYTE
      BY <1>1, <2>1
    <3>2. bit_len(d) = bit_len(b) + n /\ n < BYTE
      BY <2>1, <2>5, Byte
    <3> QED
      BY <3>1, <3>2, Byte
  <2>9. bit_len(d) = BYTE * Len(d.out)
    BY <2>6, <2>7
  <2> QED
    BY <2>2, <2>4, <2>5, <2>8, <2>9
<1> QED
  BY <1>2, <1>3

GoodOp(op) ==
    /\ op \in Op
    /\ op.kind = "bits" => op.value < Pow(op.n)
    /\ op.kind = "gamma" => op.value \in 1 .. Pow(2 * FIELD) - 1

LEMMA OpIs ==
    ASSUME NEW p \in Programs
    PROVE  p \in Seq(Op) /\ \A i \in 1 .. Len(p) : GoodOp(p[i])
<1>1. p \in Seq(Op)
  BY BitsAssumption
<1>2. \A i \in 1 .. Len(p) : p[i] \in Op /\ i \in DOMAIN p
  BY <1>1, ElementOfSeq, LenProperties
<1> QED
  BY <1>1, <1>2, BitsAssumption DEF GoodOp

LEMMA WrittenIs ==
    ASSUME NEW v, Holds(w, v), NEW op, GoodOp(op)
    PROVE  \E u : Extends(w, v, Written(op), u, op)
<1>1. op \in Op /\ op.n \in Nat /\ op.value \in Nat /\ op.kind \in {"bits", "gamma", "align"}
  BY Byte DEF Op, GoodOp
<1>2. bit_len(w) \in Nat
  BY HoldsType
<1>3. CASE op.kind = "bits"
  <2>1. Written(op) = write_bits(w, op.value, op.n)
    BY <1>3 DEF Written
  <2>2. PICK u : Wrote(w, v, write_bits(w, op.value, op.n), u, op.value, op.n)
    <3>1. op.value < Pow(op.n)
      BY <1>3 DEF GoodOp
    <3> QED
      BY <1>1, <3>1, WriteIs
  <2> DEFINE d == write_bits(w, op.value, op.n)
  <2> HIDE DEF d
  <2>3. /\ Holds(d, u) /\ Keeps(u, v, bit_len(w)) /\ Field(u, bit_len(w), op.n) = op.value
        /\ bit_len(d) = bit_len(w) + op.n /\ bit_len(w) <= bit_len(d)
    BY <2>2, <1>1, WroteIs DEF d
  <2>4. Coded(u, op, bit_len(w), bit_len(d))
    BY <2>3, <1>3 DEF Coded
  <2> QED
    BY <2>1, <2>3, <2>4 DEF Extends, d
<1>4. CASE op.kind = "gamma"
  <2>1. Written(op) = write_gamma(w, op.value)
    BY <1>4 DEF Written
  <2>2. op.value \in 1 .. Pow(2 * FIELD) - 1
    BY <1>4 DEF GoodOp
  <2> QED
    BY <1>1, <1>4, <2>1, <2>2, GammaIs
<1>5. CASE op.kind = "align"
  <2> DEFINE d == WriterAlign(w)
  <2>1. Written(op) = d
    BY <1>5 DEF Written
  <2>2. PICK u : /\ Holds(d, u) /\ Keeps(u, v, bit_len(w))
                 /\ bit_len(w) <= bit_len(d) /\ bit_len(d) < bit_len(w) + BYTE
                 /\ bit_len(d) = BYTE * Len(d.out)
    BY PadIs
  <2> HIDE DEF d
  <2>3. Len(d.out) \in Nat
    BY <2>2, HoldsType, LenIs
  <2>4. Coded(u, op, bit_len(w), bit_len(d))
    BY <1>5, <2>2, <2>3 DEF Coded
  <2> QED
    BY <2>1, <2>2, <2>4 DEF Extends, d
<1> QED
  BY <1>1, <1>3, <1>4, <1>5

-----------------------------------------------------------------------------
(* What has been written: the marks of the history are where the operations *)
(* begin, and every operation left its code between its mark and the next.  *)

\* Where operation k begins; the one after the last begins at the end.
Mark(b, s, k) == IF k <= Len(s) THEN s[k] ELSE bit_len(b)

Story(v, b, s, p) ==
    /\ Holds(b, v) /\ s \in Seq(Nat)
    /\ Mark(b, s, 1) = 0
    /\ \A k \in 1 .. Len(s) :
          /\ s[k] <= bit_len(b)
          /\ k <= Len(p) => Coded(v, p[k], s[k], Mark(b, s, k + 1))

LEMMA StoryNext ==
    ASSUME NEW p, p \in Programs, NEW v, NEW b, NEW s, Story(v, b, s, p),
           NEW u, NEW d, Holds(d, u), Keeps(u, v, bit_len(b)), bit_len(b) <= bit_len(d),
           Len(s) + 1 <= Len(p) => Coded(u, p[Len(s) + 1], bit_len(b), bit_len(d))
    PROVE  Story(u, d, Append(s, bit_len(b)), p)
<1>1. Holds(b, v) /\ s \in Seq(Nat) /\ Mark(b, s, 1) = 0
  BY DEF Story
<1>2. bit_len(b) \in Nat /\ bit_len(d) \in Nat
  BY <1>1, HoldsType
<1>3. PICK n \in Nat : n = Len(s)
  BY <1>1
<1>4. PICK t : t = Append(s, bit_len(b))
  OBVIOUS
<1>5. /\ t \in Seq(Nat) /\ Len(t) = n + 1 /\ t[n + 1] = bit_len(b)
      /\ \A k \in 1 .. n : t[k] = s[k]
  BY <1>1, <1>2, <1>3, <1>4, AppendProperties
<1>6. \A k \in 1 .. n + 1 : Mark(d, t, k) = Mark(b, s, k)
  <2> TAKE k \in 1 .. n + 1
  <2>1. CASE k = n + 1
    BY <2>1, <1>3, <1>5 DEF Mark
  <2>2. CASE k \in 1 .. n
    BY <2>2, <1>3, <1>5 DEF Mark
  <2> QED
    BY <2>1, <2>2
<1>7. Mark(d, t, 1) = 0
  BY <1>1, <1>6
<1>8. ASSUME NEW k \in 1 .. n + 1 PROVE t[k] <= bit_len(d)
  <2>1. CASE k = n + 1
    BY <2>1, <1>5
  <2>2. CASE k \in 1 .. n
    <3>1. s[k] <= bit_len(b) /\ s[k] \in Nat
      BY <1>1, <1>3, <2>2 DEF Story
    <3> QED
      BY <3>1, <2>2, <1>2, <1>5
  <2> QED
    BY <2>1, <2>2
<1>9. ASSUME NEW k \in 1 .. n + 1, k <= Len(p)
      PROVE  Coded(u, p[k], t[k], Mark(d, t, k + 1))
  <2>1. CASE k = n + 1
    <3>1. Mark(d, t, k + 1) = bit_len(d)
      BY <2>1, <1>5 DEF Mark
    <3> QED
      BY <2>1, <3>1, <1>3, <1>5, <1>9
  <2>2. CASE k \in 1 .. n
    <3>1. PICK c \in Nat, e \in Nat :
             c = s[k] /\ e = Mark(b, s, k + 1) /\ e <= bit_len(b) /\ Coded(v, p[k], c, e)
      <4>1. s[k] \in Nat /\ Coded(v, p[k], s[k], Mark(b, s, k + 1))
        BY <2>2, <1>1, <1>3, <1>9 DEF Story
      <4>2. Mark(b, s, k + 1) \in Nat /\ Mark(b, s, k + 1) <= bit_len(b)
        <5>1. CASE k + 1 <= n
          <6>1. k + 1 \in 1 .. n
            BY <5>1, <2>2
          <6>2. s[k + 1] \in Nat /\ s[k + 1] <= bit_len(b)
            BY <6>1, <1>1, <1>3 DEF Story
          <6> QED
            BY <6>2, <5>1, <1>3 DEF Mark
        <5>2. CASE ~ k + 1 <= n
          BY <5>2, <1>2, <1>3 DEF Mark
        <5> QED
          BY <5>1, <5>2
      <4> QED
        BY <4>1, <4>2
    <3>2. p[k] \in Op
      <4>1. Len(p) \in Nat
        BY OpIs
      <4>2. k \in 1 .. Len(p)
        BY <4>1, <1>9
      <4> QED
        BY <4>2, OpIs DEF GoodOp
    <3>3. Coded(u, p[k], c, e)
      BY <3>1, <3>2, <1>2, CodedKept
    <3>4. t[k] = c /\ Mark(d, t, k + 1) = e
      <4>1. k + 1 \in 1 .. n + 1
        BY <2>2
      <4> QED
        BY <4>1, <2>2, <3>1, <1>5, <1>6
    <3> QED
      BY <3>3, <3>4
  <2> QED
    BY <2>1, <2>2
<1>10. Story(u, d, t, p)
  BY <1>5, <1>7, <1>8, <1>9 DEF Story
<1> QED
  BY <1>4, <1>10

-----------------------------------------------------------------------------
(* The reader.  It stands at bit c of v, however many bytes are loaded.     *)

Readers == [pos: Nat, acc: Nat, nbits: Nat]

\* The bytes of data are those of v.
DataOf(v) == v \in Nat /\ data \in Seq(Nat) /\ BytesOf(data, v, 0)

Cursor(v, b, c) ==
    /\ b \in Readers /\ b.pos <= Len(data)
    /\ c + b.nbits = BYTE * b.pos
    /\ b.acc = Field(v, c, b.nbits)

\* The bytes Loaded takes.
Count(b, n) ==
    LET wanted == IF b.nbits >= n THEN 0 ELSE (n - b.nbits + BYTE - 1) \div BYTE
        left == Len(data) - b.pos
    IN IF wanted <= left THEN wanted ELSE left

LEMMA CountIs ==
    ASSUME data \in Seq(Nat), NEW b \in Readers, b.pos <= Len(data), NEW n \in Nat
    PROVE  /\ Count(b, n) \in Nat /\ b.pos + Count(b, n) <= Len(data)
           /\ \/ b.nbits + BYTE * Count(b, n) >= n
              \/ b.pos + Count(b, n) = Len(data)
<1>1. PICK m \in Nat, k \in Nat, left \in Nat :
         m = b.nbits /\ k = b.pos /\ left = Len(data) - k /\ k + left = Len(data)
  <2>1. b.nbits \in Nat /\ b.pos \in Nat /\ Len(data) \in Nat
    BY DEF Readers
  <2>2. Len(data) - b.pos \in Nat /\ b.pos + (Len(data) - b.pos) = Len(data)
    BY <2>1
  <2> QED
    BY <2>1, <2>2
<1>2. CASE m >= n
  <2>1. Count(b, n) = 0
    <3>1. b.nbits >= n /\ 0 <= Len(data) - b.pos
      BY <1>1, <1>2
    <3> QED
      BY <3>1 DEF Count
  <2>2. BYTE * Count(b, n) = 0
    BY <2>1, Byte
  <2>3. k + Count(b, n) <= Len(data)
    <3>1. k + 0 = k
      OBVIOUS
    <3>2. k + Count(b, n) = k
      BY <3>1, <2>1, Zenon
    <3>3. k <= k + left
      OBVIOUS
    <3> QED
      BY <3>2, <3>3, <1>1, Zenon
  <2>4. m + BYTE * Count(b, n) >= n
    <3>1. m + BYTE * Count(b, n) = m
      BY <2>2, <1>1
    <3> QED
      BY <3>1, <1>2
  <2>5. Count(b, n) \in Nat
    BY <2>1
  <2> QED
    BY <2>3, <2>4, <2>5, <1>1
<1>3. CASE ~ m >= n
  <2>1. PICK t \in Nat, x \in Nat : x = n - m /\ t = n - m + BYTE - 1 /\ t = x + (BYTE - 1)
    <3>1. n - m \in Nat
      BY <1>3
    <3>2. n - m + BYTE - 1 \in Nat /\ n - m + BYTE - 1 = (n - m) + (BYTE - 1)
      BY <3>1, Byte
    <3> QED
      BY <3>1, <3>2
  <2>2. PICK q \in Nat, z \in 0 .. BYTE - 1 :
           q = t \div BYTE /\ z = t % BYTE /\ t = BYTE * q + z
    BY Byte, DivParts
  <2>3. PICK p \in Nat : p = BYTE * q /\ p >= x
    <3>1. PICK y \in Nat : y = BYTE * q
      BY Byte
    <3>2. t = y + z /\ t = x + (BYTE - 1)
      BY <2>1, <2>2, <3>1
    <3>3. y >= x
      BY <3>2, Byte
    <3> QED
      BY <3>1, <3>3
  <2>4. Count(b, n) = IF q <= left THEN q ELSE left
    BY <1>1, <1>3, <2>1, <2>2 DEF Count
  <2>5. m + p >= n
    BY <2>1, <2>3
  <2>6. CASE q <= left
    <3>1. Count(b, n) = q /\ BYTE * Count(b, n) = p
      BY <2>3, <2>4, <2>6
    <3>2. k + q <= Len(data)
      BY <1>1, <2>6
    <3> QED
      BY <1>1, <2>5, <3>1, <3>2
  <2>7. CASE ~ q <= left
    BY <1>1, <2>4, <2>7
  <2> QED
    BY <2>6, <2>7
<1> QED
  BY <1>2, <1>3

\* The steps of the recursion of Loaded.
Loads(g, b, n) ==
    /\ g \in [0 .. Count(b, n) -> Nat]
    /\ g[0] = b.acc
    /\ \A i \in 1 .. Count(b, n) :
          g[i] = g[i - 1] + data[b.pos + i] * Pow(b.nbits + BYTE * (i - 1))
    /\ Loaded(b, n) = [pos |-> b.pos + Count(b, n), acc |-> g[Count(b, n)],
                       nbits |-> b.nbits + BYTE * Count(b, n)]

LEMMA LoadSteps ==
    ASSUME data \in Seq(Nat), NEW b \in Readers, b.pos <= Len(data), NEW n \in Nat
    PROVE  \E g : Loads(g, b, n)
<1>1. PICK m \in Nat : m = Count(b, n) /\ b.pos + m <= Len(data)
  BY CountIs
<1>2. b.pos \in Nat /\ b.nbits \in Nat /\ b.acc \in Nat
  BY DEF Readers
<1> DEFINE A(i) == data[b.pos + i] * Pow(b.nbits + BYTE * (i - 1))
           step == [x \in Nat \X (1 .. m) |-> x[1] + A(x[2])]
           Eq(f) == [i \in 0 .. m |-> IF i = 0 THEN b.acc ELSE f[i - 1] + A(i)]
           p == CHOOSE f : f = Eq(f)
<1>3. ASSUME NEW i \in 1 .. m PROVE A(i) \in Nat
  <2>1. b.pos + i \in 1 .. Len(data)
    BY <1>1, <1>2
  <2>2. data[b.pos + i] \in Nat
    BY <2>1, ElementOfSeq
  <2>3. PICK j \in Nat : j = BYTE * (i - 1)
    BY Byte
  <2>4. PICK k \in Nat : k = b.nbits + j
    BY <1>2
  <2>5. Pow(k) \in Nat
    BY PowIs
  <2> QED
    BY <2>2, <2>3, <2>4, <2>5
<1> HIDE DEF A
<1>4. ASSUME NEW x \in Nat, NEW i \in 1 .. m
      PROVE  step[<<x, i>>] = x + A(i) /\ x + A(i) \in Nat
  BY <1>3
<1>5. StepsIn(step, Nat, m)
  <2> HIDE DEF step
  <2> QED
    BY <1>4 DEF StepsIn
<1>6. PICK g : Solves(g, Nat, m, b.acc, step)
  <2> HIDE DEF step
  <2> QED
    BY <1>2, <1>5, Recursion
<1>7. g \in [0 .. m -> Nat] /\ g[0] = b.acc
  BY <1>6 DEF Solves
<1>8. ASSUME NEW i \in 1 .. m PROVE g[i] = g[i - 1] + A(i)
  <2>1. g[i - 1] \in Nat
    BY <1>7
  <2>2. g[i] = step[<<g[i - 1], i>>]
    BY <1>6 DEF Solves
  <2> HIDE DEF step
  <2> QED
    BY <2>1, <2>2, <1>4
<1>9. g = Eq(g)
  <2>1. \A i \in 0 .. m : g[i] = IF i = 0 THEN b.acc ELSE g[i - 1] + A(i)
    BY <1>7, <1>8
  <2>2. g = [i \in 0 .. m |-> g[i]]
    BY <1>7
  <2> QED
    BY <2>1, <2>2
<1>10. Loaded(b, n) = [pos |-> b.pos + m, acc |-> p[m], nbits |-> b.nbits + BYTE * m]
  BY <1>1 DEF Loaded, Count, A
<1> HIDE DEF Eq
<1>11. p = Eq(p)
  BY <1>9
<1> HIDE DEF p
<1>12. \A i \in 0 .. m : p[i] = IF i = 0 THEN b.acc ELSE p[i - 1] + A(i)
  BY <1>11 DEF Eq
<1>13. ASSUME NEW i \in 1 .. m PROVE p[i - 1] = g[i - 1] => p[i] = g[i]
  <2>1. i \in 0 .. m /\ i # 0
    OBVIOUS
  <2>2. p[i] = p[i - 1] + A(i) /\ g[i] = g[i - 1] + A(i)
    BY <2>1, <1>12, <1>8
  <2> QED
    BY <2>2
<1>14. Alike(p, g, m)
  BY <1>7, <1>12, <1>13 DEF Alike
<1>15. p[m] = g[m]
  BY <1>14, EndAlike
<1>16. Loads(g, b, n)
  BY <1>1, <1>7, <1>8, <1>10, <1>15 DEF Loads, A
<1> QED
  BY <1>16

\* Any reader stays one.
LEMMA LoadedType ==
    ASSUME data \in Seq(Nat), NEW b \in Readers, b.pos <= Len(data), NEW n \in Nat
    PROVE  /\ Loaded(b, n) \in Readers /\ Loaded(b, n).pos <= Len(data)
           /\ Loaded(b, n).nbits >= n \/ Loaded(b, n).pos = Len(data)
<1>1. PICK g : Loads(g, b, n)
  BY LoadSteps
<1>2. PICK m \in Nat : /\ m = Count(b, n) /\ b.pos + m <= Len(data)
                       /\ b.nbits + BYTE * m >= n \/ b.pos + m = Len(data)
  BY CountIs
<1>3. b.pos \in Nat /\ b.nbits \in Nat
  BY DEF Readers
<1>4. PICK j \in Nat : j = BYTE * m
  BY Byte
<1>5. Loaded(b, n) = [pos |-> b.pos + m, acc |-> g[m], nbits |-> b.nbits + j] /\ g[m] \in Nat
  BY <1>1, <1>2, <1>4 DEF Loads
<1>6. b.pos + m \in Nat /\ b.nbits + j \in Nat
  BY <1>3
<1> QED
  BY <1>2, <1>4, <1>5, <1>6 DEF Readers

\* Loading does not move it.
LEMMA LoadedIs ==
    ASSUME NEW v, DataOf(v), NEW b, NEW c \in Nat, Cursor(v, b, c), NEW n \in Nat
    PROVE  /\ Cursor(v, Loaded(b, n), c)
           /\ Loaded(b, n).nbits >= n \/ Loaded(b, n).pos = Len(data)
<1>1. data \in Seq(Nat) /\ v \in Nat /\ b \in Readers /\ b.pos <= Len(data)
  BY DEF DataOf, Cursor
<1>2. PICK g : Loads(g, b, n)
  BY <1>1, LoadSteps
<1>3. PICK m \in Nat : /\ m = Count(b, n) /\ b.pos + m <= Len(data)
  BY <1>1, CountIs
<1>4. PICK k \in Nat, z \in Nat, B \in Nat :
         k = b.pos /\ z = b.nbits /\ B = BYTE * k /\ c + z = B /\ b.acc = Field(v, c, z)
  <2>1. b.pos \in Nat /\ b.nbits \in Nat
    BY <1>1 DEF Readers
  <2>2. BYTE * b.pos \in Nat
    BY <2>1, Byte
  <2> QED
    BY <2>1, <2>2 DEF Cursor
<1> DEFINE f == [i \in 0 .. m |-> Field(v, c, z + BYTE * i)]
<1>5. f[0] = g[0]
  <2>1. z + BYTE * 0 = z
    BY Byte
  <2>2. f[0] = Field(v, c, z)
    BY <2>1
  <2> QED
    BY <2>2, <1>2, <1>4 DEF Loads
<1>6. ASSUME NEW i \in 1 .. m PROVE g[i - 1] = f[i - 1] => g[i] = f[i]
  <2>1. PICK j \in Nat : j = i - 1 /\ i = j + 1 /\ k + i - 1 = k + j
    <3>1. i - 1 \in Nat /\ i = (i - 1) + 1 /\ k + i - 1 = k + (i - 1)
      OBVIOUS
    <3> QED
      BY <3>1
  <2>2. PICK J \in Nat, I \in Nat, D \in Nat :
           J = BYTE * j /\ I = BYTE * i /\ I = J + BYTE /\ D = BYTE * (k + j) /\ D = B + J
    <3>1. BYTE * j \in Nat /\ BYTE * i \in Nat /\ BYTE * (k + j) \in Nat
      BY <2>1, Byte
    <3>2. BYTE * (j + 1) = BYTE * j + BYTE /\ BYTE * (k + j) = BYTE * k + BYTE * j
      BY Byte
    <3> QED
      BY <3>1, <3>2, <2>1, <1>4
  <2>3. data[k + i] = Field(v, D, BYTE)
    <3>1. PICK y \in 1 .. Len(data) : y = k + i
      <4>1. k + m <= Len(data) /\ Len(data) \in Nat
        BY <1>1, <1>3, <1>4
      <4>2. k + i \in 1 .. Len(data)
        BY <4>1
      <4> QED
        BY <4>2
    <3>2. 0 + y - 1 = k + j
      BY <3>1, <2>1
    <3>3. data[y] = Field(v, BYTE * (0 + y - 1), BYTE)
      BY DEF DataOf, BytesOf
    <3> QED
      BY <3>1, <3>2, <3>3, <2>2
  <2>4. g[i] = g[i - 1] + data[k + i] * Pow(z + J)
    BY <1>2, <1>3, <1>4, <2>1, <2>2 DEF Loads
  <2>5. Field(v, c, z + I) = Field(v, c, z + J) + Field(v, D, BYTE) * Pow(z + J)
    <3>1. PICK x \in Nat, y \in Nat : x = z + J /\ y = z + I /\ y = x + BYTE /\ D = c + x
      <4>1. I = J + BYTE /\ D = B + J /\ c + z = B
        BY <1>4, <2>2
      <4>2. z + J \in Nat /\ z + I \in Nat /\ z + I = (z + J) + BYTE /\ D = c + (z + J)
        BY <4>1, Byte
      <4> QED
        BY <4>2
    <3>2. v \in Nat /\ BYTE \in Nat /\ y = x + BYTE /\ D = c + x
      BY <1>1, <3>1, Byte
    <3>3. Field(v, c, y) = Field(v, c, x) + Field(v, D, BYTE) * Pow(x)
      BY <3>2, FieldSplit
    <3> QED
      BY <3>1, <3>3
  <2>6. f[i] = Field(v, c, z + I) /\ f[i - 1] = Field(v, c, z + J)
    <3>1. i \in 0 .. m /\ i - 1 \in 0 .. m
      OBVIOUS
    <3> QED
      BY <3>1, <2>1, <2>2
  <2> HIDE DEF f
  <2> QED
    BY <2>3, <2>4, <2>5, <2>6
<1> HIDE DEF f
<1>7. Alike(g, f, m)
  BY <1>5, <1>6 DEF Alike
<1>8. g[m] = f[m]
  BY <1>7, EndAlike
<1>9. PICK M \in Nat, P \in Nat : M = BYTE * m /\ P = BYTE * (k + m) /\ P = B + M
  <2>1. BYTE * m \in Nat /\ BYTE * (k + m) \in Nat
    BY Byte
  <2>2. BYTE * (k + m) = BYTE * k + BYTE * m
    BY Byte
  <2> QED
    BY <2>1, <2>2, <1>4
<1>10. f[m] = Field(v, c, z + M)
  BY <1>9 DEF f
<1> DEFINE d == Loaded(b, n)
<1>11. d = [pos |-> k + m, acc |-> g[m], nbits |-> z + M]
  BY <1>2, <1>3, <1>4, <1>9 DEF Loads
<1>12. d \in Readers /\ d.pos <= Len(data) /\ (d.nbits >= n \/ d.pos = Len(data))
  BY <1>1, LoadedType
<1> HIDE DEF d
<1>13. d.pos = k + m /\ d.nbits = z + M /\ d.acc = Field(v, c, z + M)
  BY <1>8, <1>10, <1>11
<1>14. c + (z + M) = P
  BY <1>4, <1>9
<1>15. Cursor(v, d, c)
  BY <1>9, <1>12, <1>13, <1>14 DEF Cursor
<1> QED
  BY <1>12, <1>15 DEF d

\* Bits before e do not exist.
Past(e) == e > BYTE * Len(data)

LEMMA CursorType ==
    ASSUME NEW v, NEW b, NEW c \in Nat, Cursor(v, b, c)
    PROVE  /\ b.pos \in Nat /\ b.nbits \in Nat /\ b.acc \in Nat
           /\ c + b.nbits = BYTE * b.pos /\ b.acc = Field(v, c, b.nbits)
  BY DEF Cursor, Readers

LEMMA DroppedIs ==
    ASSUME NEW v \in Nat, NEW b, NEW c \in Nat, Cursor(v, b, c), NEW n \in Nat, n <= b.nbits
    PROVE  /\ Cursor(v, Dropped(b, n), c + n)
           /\ b.acc % Pow(n) = Field(v, c, n)
<1>1. PICK m \in Nat, k \in Nat, d \in Nat :
         m = b.nbits /\ m = n + k /\ d = c + n /\ k = m - n
  <2>1. b.nbits \in Nat
    BY CursorType
  <2>2. b.nbits - n \in Nat /\ b.nbits = n + (b.nbits - n)
    BY <2>1
  <2> QED
    BY <2>1, <2>2
<1>2. b.acc = Field(v, c, m) /\ b \in Readers /\ b.pos <= Len(data)
  BY <1>1 DEF Cursor
<1>3. PICK B \in Nat : B = BYTE * b.pos /\ c + m = B
  <2>1. b.pos \in Nat /\ c + b.nbits = BYTE * b.pos
    BY CursorType
  <2>2. BYTE * b.pos \in Nat
    BY <2>1, Byte
  <2> QED
    BY <1>1, <2>1, <2>2
<1>4. m = n + k /\ d = c + n
  BY <1>1
<1>5. /\ Field(v, c, m) % Pow(n) = Field(v, c, n)
      /\ Field(v, c, m) \div Pow(n) = Field(v, d, k)
  <2>1. Parts(v, c, n, k, d, m)
    BY <1>4, FieldParts
  <2> QED
    BY <2>1 DEF Parts
<1>6. Field(v, d, k) \in Nat
  BY FieldType
<1>7. Dropped(b, n) = [pos |-> b.pos, acc |-> Field(v, d, k), nbits |-> k]
  <2>1. PICK q : q = Field(v, d, k)
    OBVIOUS
  <2>2. b.acc \div Pow(n) = q /\ b.nbits - n = k
    BY <1>1, <1>2, <1>5, <2>1
  <2>3. Dropped(b, n) = [b EXCEPT !.acc = q, !.nbits = k]
    BY <2>2 DEF Dropped
  <2>4. [b EXCEPT !.acc = q, !.nbits = k] = [pos |-> b.pos, acc |-> q, nbits |-> k]
    <3>1. PICK x \in Nat, y \in Nat, z \in Nat : b = [pos |-> x, acc |-> y, nbits |-> z]
      BY <1>2 DEF Readers
    <3>2. [b EXCEPT !.acc = q] = [pos |-> x, acc |-> q, nbits |-> z]
      BY <3>1
    <3> DEFINE e == [b EXCEPT !.acc = q]
    <3>3. [b EXCEPT !.acc = q, !.nbits = k] = [e EXCEPT !.nbits = k]
      OBVIOUS
    <3>4. e = [pos |-> x, acc |-> q, nbits |-> z]
      BY <3>2
    <3> HIDE DEF e
    <3>5. [e EXCEPT !.nbits = k] = [pos |-> x, acc |-> q, nbits |-> k]
      BY <3>4
    <3> QED
      BY <3>1, <3>3, <3>5
  <2> QED
    BY <2>1, <2>3, <2>4
<1>8. d + k = B
  BY <1>3, <1>4
<1>9. Cursor(v, Dropped(b, n), d)
  BY <1>2, <1>3, <1>6, <1>7, <1>8 DEF Cursor, Readers
<1> QED
  BY <1>1, <1>2, <1>5, <1>9

\* A read of the n bits from c on: they are read, or do not all exist.
Answer(v, x, c, n) ==
    /\ x.ok \in BOOLEAN
    /\ x.ok => x.value = Field(v, c, n) /\ Cursor(v, x.reader, c + n)
    /\ ~ x.ok => Past(c + n)

LEMMA ReadBitsIs ==
    ASSUME NEW v, DataOf(v), NEW b, NEW c \in Nat, Cursor(v, b, c), NEW n \in Nat
    PROVE  /\ Answer(v, read_bits(b, n), c, n)
           /\ ~ read_bits(b, n).ok => read_bits(b, n).value = 0
<1>1. v \in Nat /\ data \in Seq(Nat) /\ Len(data) \in Nat
  BY DEF DataOf
<1>2. PICK d : d = Loaded(b, n) /\ Cursor(v, d, c) /\ (d.nbits >= n \/ d.pos = Len(data))
  BY LoadedIs
<1>3. PICK m \in Nat, B \in Nat : m = d.nbits /\ B = BYTE * d.pos /\ c + m = B
  BY <1>2, CursorType
<1>4. CASE m < n
  <2>1. read_bits(b, n) = Result(FALSE, 0, d)
    BY <1>2, <1>3, <1>4 DEF read_bits
  <2>2. Past(c + n)
    <3>1. d.pos = Len(data)
      BY <1>2, <1>3, <1>4
    <3>2. c + n > B
      BY <1>3, <1>4
    <3> QED
      BY <3>1, <3>2, <1>3 DEF Past
  <2>3. read_bits(b, n).ok = FALSE /\ read_bits(b, n).value = 0
    BY <2>1 DEF Result
  <2> QED
    BY <2>2, <2>3 DEF Answer
<1>5. CASE ~ m < n
  <2>1. read_bits(b, n) = Result(TRUE, d.acc % Pow(n), Dropped(d, n))
    BY <1>2, <1>3, <1>5 DEF read_bits
  <2>2. Cursor(v, Dropped(d, n), c + n) /\ d.acc % Pow(n) = Field(v, c, n)
    BY <1>1, <1>2, <1>3, <1>5, DroppedIs
  <2>3. /\ read_bits(b, n).ok = TRUE /\ read_bits(b, n).value = d.acc % Pow(n)
        /\ read_bits(b, n).reader = Dropped(d, n)
    BY <2>1 DEF Result
  <2> QED
    BY <2>2, <2>3 DEF Answer
<1> QED
  BY <1>4, <1>5

LEMMA ReadLongIs ==
    ASSUME NEW v, DataOf(v), NEW b, NEW c \in Nat, Cursor(v, b, c), NEW n \in Nat
    PROVE  Answer(v, ReadLong(b, n), c, n)
<1>1. CASE n <= FIELD
  <2>1. ReadLong(b, n) = read_bits(b, n)
    BY <1>1 DEF ReadLong
  <2> QED
    BY <2>1, ReadBitsIs
<1>2. CASE ~ n <= FIELD
  <2>1. PICK F \in Nat, h \in Nat, e \in Nat :
           F = FIELD /\ h = n - FIELD /\ n = F + h /\ e = c + F /\ e + h = c + n
    <3>1. n - FIELD \in Nat /\ n = FIELD + (n - FIELD)
      BY <1>2, Byte
    <3>2. c + FIELD \in Nat /\ (c + FIELD) + (n - FIELD) = c + n
      BY <3>1, Byte
    <3> QED
      BY <3>1, <3>2, Byte
  <2>2. PICK low : low = read_bits(b, F) /\ Answer(v, low, c, F)
    BY ReadBitsIs
  <2>3. PICK high : high = read_bits(low.reader, h)
    OBVIOUS
  <2>4. ReadLong(b, n) = IF low.ok
                         THEN Result(high.ok, low.value + high.value * Pow(F), high.reader)
                         ELSE low
    BY <1>2, <2>1, <2>2, <2>3 DEF ReadLong
  <2>5. CASE ~ low.ok
    <3>1. Past(e)
      BY <2>1, <2>2, <2>5 DEF Answer
    <3>2. Past(c + n)
      <4>1. PICK B \in Nat : B = BYTE * Len(data)
        BY Byte DEF DataOf
      <4>2. e > B
        BY <3>1, <4>1 DEF Past
      <4>3. c + n > B
        BY <4>2, <2>1
      <4> QED
        BY <4>1, <4>3 DEF Past
    <3> QED
      BY <2>2, <2>4, <2>5, <3>2 DEF Answer
  <2>6. CASE low.ok
    <3>1. low.value = Field(v, c, F) /\ Cursor(v, low.reader, e)
      BY <2>1, <2>2, <2>6 DEF Answer
    <3>2. Answer(v, high, e, h)
      BY <2>3, <3>1, ReadBitsIs
    <3>3. ReadLong(b, n) = Result(high.ok, low.value + high.value * Pow(F), high.reader)
      BY <2>4, <2>6
    <3>4. high.ok \in BOOLEAN
      BY <3>2 DEF Answer
    <3>5. CASE high.ok
      <4>1. high.value = Field(v, e, h) /\ Cursor(v, high.reader, c + n)
        BY <2>1, <3>2, <3>5 DEF Answer
      <4>2. Field(v, c, n) = Field(v, c, F) + Field(v, e, h) * Pow(F)
        <5>1. v \in Nat /\ n = F + h /\ e = c + F
          BY <2>1 DEF DataOf
        <5> QED
          BY <5>1, FieldSplit
      <4>3. low.value + high.value * Pow(F) = Field(v, c, n)
        BY <4>1, <4>2, <3>1
      <4>4. /\ ReadLong(b, n).ok = TRUE
            /\ ReadLong(b, n).value = low.value + high.value * Pow(F)
            /\ ReadLong(b, n).reader = high.reader
        BY <3>3, <3>4, <3>5 DEF Result
      <4> QED
        BY <4>1, <4>3, <4>4 DEF Answer
    <3>6. CASE ~ high.ok
      <4>1. Past(c + n)
        BY <2>1, <3>2, <3>6 DEF Answer
      <4>2. ReadLong(b, n).ok = FALSE
        BY <3>3, <3>4, <3>6 DEF Result
      <4> QED
        BY <4>1, <4>2 DEF Answer
    <3> QED
      BY <3>5, <3>6
  <2> QED
    BY <2>5, <2>6
<1> QED
  BY <1>1, <1>2

-----------------------------------------------------------------------------
(* The gamma code.                                                          *)

InData == {b \in Readers : b.pos <= Len(data)}

Answers == [ok: BOOLEAN, value: Nat, reader: InData]

LEMMA ReadBitsType ==
    ASSUME data \in Seq(Nat), NEW b \in InData, NEW n \in Nat
    PROVE  read_bits(b, n) \in Answers
<1>1. PICK d : d = Loaded(b, n) /\ d \in Readers /\ d.pos <= Len(data)
  BY LoadedType DEF InData
<1>2. d.nbits \in Nat /\ d.acc \in Nat /\ d.pos \in Nat
  BY <1>1 DEF Readers
<1>3. CASE d.nbits < n
  <2>1. read_bits(b, n) = Result(FALSE, 0, d)
    BY <1>1, <1>3 DEF read_bits
  <2> QED
    BY <2>1, <1>1 DEF Result, Answers, InData
<1>4. CASE ~ d.nbits < n
  <2>1. PICK P \in Nat \ {0} : P = Pow(n)
    BY PowIs
  <2>2. d.acc % P \in Nat /\ d.acc \div P \in Nat
    <3>1. PICK y \in Nat : y = d.acc
      BY <1>2
    <3>2. y % P \in 0 .. P - 1 /\ y \div P \in Nat
      BY DivRem
    <3>3. y % P \in Nat
      BY <3>2
    <3> QED
      BY <3>1, <3>2, <3>3
  <2>3. PICK k \in Nat : k = d.nbits - n
    BY <1>2, <1>4
  <2>4. PICK e : e = Dropped(d, n)
    OBVIOUS
  <2>5. e \in Readers /\ e.pos = d.pos
    BY <1>1, <2>1, <2>2, <2>3, <2>4 DEF Dropped, Readers
  <2>6. read_bits(b, n) = Result(TRUE, d.acc % P, e)
    BY <1>1, <1>4, <2>1, <2>4 DEF read_bits
  <2>7. e \in InData
    BY <1>1, <2>5 DEF InData
  <2> QED
    BY <2>2, <2>6, <2>7 DEF Result, Answers
<1> QED
  BY <1>3, <1>4

\* One more zero, if all before it were.
OneMore(x) ==
    LET bit == read_bits(x.reader, 1)
    IN IF x.ok THEN Result(bit.ok /\ bit.value = 0, bit.value, bit.reader) ELSE x

\* The steps of the recursion of read_gamma.
Zeros(g, b) ==
    /\ g \in [0 .. 2 * FIELD -> Answers]
    /\ g[0] = Result(TRUE, 0, b)
    /\ \A k \in 1 .. 2 * FIELD : g[k] = OneMore(g[k - 1])

\* The number of zeros, and what read_gamma makes of it.
ExtraOf(g) == CHOOSE k \in 0 .. 2 * FIELD - 1 : g[k].ok /\ ~ g[k + 1].ok

GammaOf(g) ==
    LET extra == ExtraOf(g)
        rest == ReadLong(g[extra + 1].reader, extra)
    IN IF g[2 * FIELD].ok \/ g[extra + 1].value = 0
       THEN Result(FALSE, 0, g[2 * FIELD].reader)
       ELSE Result(rest.ok, Pow(extra) + rest.value, rest.reader)

LEMMA OneMoreType ==
    ASSUME data \in Seq(Nat), NEW x \in Answers
    PROVE  OneMore(x) \in Answers
<1>1. x.reader \in InData
  BY DEF Answers
<1>2. PICK bit : bit = read_bits(x.reader, 1) /\ bit \in Answers
  BY <1>1, ReadBitsType
<1>3. CASE x.ok
  <2>1. OneMore(x) = Result(bit.ok /\ bit.value = 0, bit.value, bit.reader)
    BY <1>2, <1>3 DEF OneMore
  <2>2. bit.value \in Nat /\ bit.reader \in InData
    BY <1>2 DEF Answers
  <2>3. (bit.ok /\ bit.value = 0) \in BOOLEAN
    OBVIOUS
  <2> QED
    BY <2>1, <2>2, <2>3 DEF Result, Answers
<1>4. CASE ~ x.ok
  BY <1>4 DEF OneMore
<1> QED
  BY <1>3, <1>4

LEMMA GammaSteps ==
    ASSUME data \in Seq(Nat), NEW b \in InData
    PROVE  \E g : Zeros(g, b) /\ read_gamma(b) = GammaOf(g)
<1>1. PICK n \in Nat : n = 2 * FIELD
  BY Byte
<1>2. PICK base \in Answers : base = Result(TRUE, 0, b)
  BY DEF Result, Answers
<1> DEFINE step == [x \in Answers \X (1 .. n) |-> OneMore(x[1])]
           Eq(f) == [k \in 0 .. n |-> IF k = 0 THEN Result(TRUE, 0, b) ELSE
                       LET before == f[k - 1]
                           bit == read_bits(before.reader, 1)
                       IN IF before.ok
                          THEN Result(bit.ok /\ bit.value = 0, bit.value, bit.reader)
                          ELSE before]
           p == CHOOSE f : f = Eq(f)
<1>3. \A x \in Answers, k \in 1 .. n : step[<<x, k>>] = OneMore(x) /\ OneMore(x) \in Answers
  BY OneMoreType
<1>4. StepsIn(step, Answers, n)
  <2> HIDE DEF step
  <2> QED
    BY <1>3 DEF StepsIn
<1>5. PICK g : Solves(g, Answers, n, base, step)
  <2> HIDE DEF step
  <2> QED
    BY <1>4, Recursion
<1>6. g \in [0 .. n -> Answers] /\ g[0] = base
  BY <1>5 DEF Solves
<1>7. ASSUME NEW k \in 1 .. n PROVE g[k] = OneMore(g[k - 1])
  <2>1. g[k - 1] \in Answers
    BY <1>6
  <2>2. g[k] = step[<<g[k - 1], k>>]
    BY <1>5 DEF Solves
  <2> HIDE DEF step
  <2> QED
    BY <2>1, <2>2, <1>3
<1>8. ASSUME NEW f
      PROVE  Eq(f) = [k \in 0 .. n |-> IF k = 0 THEN base ELSE OneMore(f[k - 1])]
  BY <1>2 DEF OneMore
<1>9. read_gamma(b) = GammaOf(p)
  BY <1>1 DEF read_gamma, GammaOf, ExtraOf
<1> HIDE DEF Eq
<1>10. g = Eq(g)
  <2>1. \A k \in 0 .. n : g[k] = IF k = 0 THEN base ELSE OneMore(g[k - 1])
    BY <1>6, <1>7
  <2>2. g = [k \in 0 .. n |-> g[k]]
    BY <1>6
  <2>3. g = [k \in 0 .. n |-> IF k = 0 THEN base ELSE OneMore(g[k - 1])]
    BY <2>1, <2>2
  <2> QED
    BY <2>3, <1>8
<1>11. p = Eq(p)
  BY <1>10
<1> HIDE DEF p
<1>12. p = [k \in 0 .. n |-> IF k = 0 THEN base ELSE OneMore(p[k - 1])]
  BY <1>11, <1>8
<1>13. \A k \in 0 .. n : p[k] = IF k = 0 THEN base ELSE OneMore(p[k - 1])
  BY <1>12
<1>14. ASSUME NEW k \in 1 .. n PROVE p[k - 1] = g[k - 1] => p[k] = g[k]
  <2>1. k \in 0 .. n /\ k # 0
    OBVIOUS
  <2>2. p[k] = OneMore(p[k - 1]) /\ g[k] = OneMore(g[k - 1])
    BY <2>1, <1>13, <1>7
  <2> QED
    BY <2>2
<1>15. p[0] = g[0]
  BY <1>6, <1>13
<1>16. \A k \in 0 .. n : p[k] = g[k]
  <2>1. Alike(p, g, n)
    BY <1>14, <1>15 DEF Alike
  <2> QED
    BY <2>1, AllAlike
<1>17. p = g
  <2>1. p = [k \in 0 .. n |-> p[k]]
    BY <1>12
  <2>2. g = [k \in 0 .. n |-> g[k]]
    BY <1>6
  <2> QED
    BY <2>1, <2>2, <1>16
<1>18. Zeros(g, b)
  BY <1>1, <1>2, <1>6, <1>7 DEF Zeros
<1> QED
  BY <1>9, <1>17, <1>18

\* After k reads of one bit, where x zeros and a one begin at bit c: k zeros
\* read, or the one, or there was no bit.
Reached(v, c, x, y, k) ==
    \/ y.ok /\ k <= x /\ Cursor(v, y.reader, c + k)
    \/ ~ y.ok /\ y.value = 1 /\ k > x /\ Cursor(v, y.reader, c + x + 1)
    \/ ~ y.ok /\ y.value = 0 /\ Past(c + x + 1)

LEMMA FieldOfZero ==
    ASSUME NEW c \in Nat, NEW n \in Nat
    PROVE  Field(0, c, n) = 0
<1>1. PICK C \in Nat \ {0}, A \in Nat \ {0} : C = Pow(c) /\ A = Pow(n)
  BY PowIs
<1>2. 0 \div C = 0 /\ 0 % A = 0
  OBVIOUS
<1> QED
  BY <1>1, <1>2 DEF Field

\* Each bit of the zeros is zero.
AllZero(v, c, x) == \A k \in 0 .. x - 1 : Field(v, c + k, 1) = 0

LEMMA ZeroBit ==
    ASSUME NEW v \in Nat, NEW c \in Nat, NEW x \in Nat, Field(v, c, x) = 0
    PROVE  AllZero(v, c, x)
<1> SUFFICES ASSUME NEW k \in 0 .. x - 1 PROVE Field(v, c + k, 1) = 0
  BY DEF AllZero
<1>1. k \in Nat /\ k + 1 <= x /\ 1 \in Nat
  OBVIOUS
<1>2. Field(Field(v, c, x), k, 1) = Field(v, c + k, 1)
  BY <1>1, FieldOfField
<1>3. Field(0, k, 1) = 0
  BY <1>1, FieldOfZero
<1> QED
  BY <1>2, <1>3

LEMMA PastMore ==
    ASSUME data \in Seq(Nat), NEW c \in Nat, NEW d \in Nat, c <= d, Past(c)
    PROVE  Past(d)
<1>1. PICK B \in Nat : B = BYTE * Len(data)
  BY Byte
<1>2. c > B
  BY <1>1 DEF Past
<1>3. d > B
  BY <1>2
<1> QED
  BY <1>1, <1>3 DEF Past

LEMMA ReachedNext ==
    ASSUME NEW v, DataOf(v), NEW c \in Nat, NEW x \in Nat,
           Field(v, c, x) = 0, Field(v, c + x, 1) = 1,
           NEW y, y.ok \in BOOLEAN, NEW k \in Nat, Reached(v, c, x, y, k)
    PROVE  Reached(v, c, x, OneMore(y), k + 1)
<1>1. v \in Nat /\ data \in Seq(Nat)
  BY DEF DataOf
<1>2. CASE ~ y.ok
  <2>1. OneMore(y) = y
    BY <1>2 DEF OneMore
  <2> QED
    BY <2>1, <1>2 DEF Reached
<1>3. CASE y.ok
  <2>1. k <= x /\ Cursor(v, y.reader, c + k)
    BY <1>3 DEF Reached
  <2>2. PICK d \in Nat, e \in Nat : d = c + k /\ e = c + x + 1 /\ d + 1 <= e
    <3>1. c + k \in Nat /\ c + x + 1 \in Nat /\ (c + k) + 1 <= c + x + 1
      BY <2>1
    <3> QED
      BY <3>1
  <2>3. PICK bit : bit = read_bits(y.reader, 1)
    OBVIOUS
  <2>4. Answer(v, bit, d, 1) /\ (~ bit.ok => bit.value = 0)
    BY <2>1, <2>2, <2>3, ReadBitsIs
  <2>5. PICK z : z = Result(bit.ok /\ bit.value = 0, bit.value, bit.reader)
    OBVIOUS
  <2>6. OneMore(y) = z
    BY <1>3, <2>3, <2>5 DEF OneMore
  <2>7. /\ z.ok <=> (bit.ok /\ bit.value = 0)
        /\ z.value = bit.value /\ z.reader = bit.reader
    BY <2>5 DEF Result
  <2>8. CASE ~ bit.ok
    <3>1. Past(d + 1) /\ bit.value = 0
      BY <2>4, <2>8 DEF Answer
    <3>2. Past(e)
      BY <3>1, <2>2, <1>1, PastMore, d + 1 \in Nat
    <3> QED
      BY <3>1, <3>2, <2>2, <2>6, <2>7, <2>8 DEF Reached
  <2>9. CASE bit.ok /\ k < x
    <3>1. bit.value = Field(v, d, 1) /\ Cursor(v, bit.reader, d + 1)
      BY <2>4, <2>9 DEF Answer
    <3>2. Field(v, c + k, 1) = 0
      <4>1. AllZero(v, c, x)
        BY <1>1, ZeroBit
      <4>2. k \in 0 .. x - 1
        BY <2>9
      <4> QED
        BY <4>1, <4>2 DEF AllZero
    <3>3. d + 1 = c + (k + 1) /\ k + 1 <= x
      BY <2>2, <2>9
    <3>4. z.ok /\ Cursor(v, z.reader, c + (k + 1))
      BY <3>1, <3>2, <3>3, <2>2, <2>7, <2>9
    <3> QED
      BY <3>3, <3>4, <2>6 DEF Reached
  <2>10. CASE bit.ok /\ k = x
    <3>1. bit.value = Field(v, d, 1) /\ Cursor(v, bit.reader, d + 1)
      BY <2>4, <2>10 DEF Answer
    <3>2. bit.value = 1
      BY <3>1, <2>2, <2>10
    <3>3. d + 1 = c + x + 1 /\ k + 1 > x
      BY <2>2, <2>10
    <3>4. ~ z.ok /\ z.value = 1 /\ Cursor(v, z.reader, c + x + 1)
      BY <3>1, <3>2, <3>3, <2>7
    <3> QED
      BY <3>3, <3>4, <2>6 DEF Reached
  <2> QED
    BY <2>1, <2>8, <2>9, <2>10
<1> QED
  BY <1>2, <1>3

\* The value read is the value written.
LEMMA ReadGammaIs ==
    ASSUME NEW v, DataOf(v), NEW b, NEW c \in Nat, Cursor(v, b, c),
           NEW value \in Nat, NEW x \in 0 .. 2 * FIELD - 1, GammaAt(v, value, c, x)
    PROVE  /\ read_gamma(b).ok \in BOOLEAN
           /\ read_gamma(b).ok => /\ read_gamma(b).value = value
                                  /\ Cursor(v, read_gamma(b).reader, c + x + 1 + x)
           /\ ~ read_gamma(b).ok => Past(c + x + 1 + x)
<1>1. v \in Nat /\ data \in Seq(Nat) /\ b \in InData
  BY DEF DataOf, Cursor, InData
<1>2. PICK g : Zeros(g, b) /\ read_gamma(b) = GammaOf(g)
  BY <1>1, GammaSteps
<1>3. PICK n \in Nat : n = 2 * FIELD /\ x \in 0 .. n - 1 /\ x \in Nat /\ x < n
  <2>1. 2 * FIELD \in Nat
    BY Byte
  <2>2. x \in Nat /\ x < 2 * FIELD
    BY <2>1
  <2> QED
    BY <2>1, <2>2
<1>4. /\ g \in [0 .. n -> Answers] /\ g[0] = Result(TRUE, 0, b)
      /\ \A k \in 1 .. n : g[k] = OneMore(g[k - 1])
  BY <1>2, <1>3 DEF Zeros
<1>5. \A k \in 0 .. n : g[k].ok \in BOOLEAN
  BY <1>4 DEF Answers
<1>6. Field(v, c, x) = 0 /\ Field(v, c + x, 1) = 1
  BY DEF GammaAt
<1> DEFINE T == {k \in Nat : k <= n => Reached(v, c, x, g[k], k)}
<1>7. 0 \in T
  <2>1. g[0].ok = TRUE /\ g[0].reader = b
    BY <1>4 DEF Result
  <2>2. c + 0 = c
    OBVIOUS
  <2>3. Reached(v, c, x, g[0], 0)
    BY <2>1, <2>2, <1>3 DEF Reached
  <2> QED
    BY <2>3
<1>8. ASSUME NEW k \in Nat, k \in T PROVE k + 1 \in T
  <2>1. SUFFICES ASSUME k + 1 <= n PROVE Reached(v, c, x, g[k + 1], k + 1)
    OBVIOUS
  <2>2. Reached(v, c, x, g[k], k) /\ k \in 0 .. n
    BY <1>8, <2>1
  <2>3. g[k + 1] = OneMore(g[k])
    <3>1. k + 1 \in 1 .. n /\ (k + 1) - 1 = k
      BY <2>1
    <3>2. g[k + 1] = OneMore(g[(k + 1) - 1])
      BY <3>1, <1>4
    <3> QED
      BY <3>1, <3>2
  <2>4. g[k].ok \in BOOLEAN
    BY <2>2, <1>5
  <2> HIDE DEF T
  <2> QED
    BY <2>2, <2>3, <2>4, <1>3, <1>6, ReachedNext
<1>9. Nat \subseteq T
  <2> HIDE DEF T
  <2> QED
    BY <1>7, <1>8, NatSetInduction
<1>10. \A k \in 0 .. n : Reached(v, c, x, g[k], k)
  BY <1>9
<1> HIDE DEF T
<1>11. ~ g[n].ok
  <2>1. Reached(v, c, x, g[n], n)
    BY <1>10
  <2> QED
    BY <2>1, <1>3 DEF Reached
<1>12. \E k \in 0 .. n - 1 : g[k].ok /\ ~ g[k + 1].ok
  <2> DEFINE U == {k \in Nat : k <= n /\ ~ g[k].ok}
  <2>1. n \in U
    BY <1>11
  <2>2. PICK k \in U : \A m \in U : k <= m
    BY <2>1, LeastNat
  <2>3. g[0].ok
    BY <1>4 DEF Result
  <2>4. k \in Nat /\ k <= n /\ ~ g[k].ok /\ k # 0
    BY <2>2, <2>3
  <2>5. PICK m \in Nat : k = m + 1
    <3>1. k - 1 \in Nat /\ k = (k - 1) + 1
      BY <2>4
    <3> QED
      BY <3>1
  <2>6. m \notin U
    BY <2>2, <2>5
  <2>7. g[m].ok /\ m \in 0 .. n - 1
    BY <2>4, <2>5, <2>6
  <2> QED
    BY <2>4, <2>5, <2>7
<1>13. PICK extra \in 0 .. n - 1 : extra = ExtraOf(g) /\ g[extra].ok /\ ~ g[extra + 1].ok
  BY <1>3, <1>12 DEF ExtraOf
<1>14. PICK o \in Nat : o = extra + 1 /\ o \in 0 .. n /\ extra \in Nat /\ extra \in 0 .. n
  BY <1>3
<1>15. PICK y : y = g[o] /\ ~ y.ok
  BY <1>13, <1>14
<1>16. Reached(v, c, x, y, o) /\ Reached(v, c, x, g[extra], extra)
  BY <1>10, <1>14, <1>15
<1>17. PICK e \in Nat, f \in Nat : e = c + x + 1 /\ f = c + x + 1 + x /\ f = e + x
  <2>1. c + x + 1 \in Nat /\ c + x + 1 + x \in Nat
    BY <1>3
  <2> QED
    BY <2>1
<1>18. PICK rest : rest = ReadLong(y.reader, extra)
  OBVIOUS
<1>19. read_gamma(b) = IF g[n].ok \/ y.value = 0
                       THEN Result(FALSE, 0, g[n].reader)
                       ELSE Result(rest.ok, Pow(extra) + rest.value, rest.reader)
  BY <1>2, <1>3, <1>13, <1>14, <1>15, <1>18 DEF GammaOf
<1>20. CASE y.value = 0
  <2>1. read_gamma(b) = Result(FALSE, 0, g[n].reader)
    BY <1>19, <1>20
  <2>2. read_gamma(b).ok = FALSE
    BY <2>1 DEF Result
  <2>3. Past(e)
    BY <1>15, <1>16, <1>17, <1>20 DEF Reached
  <2>4. Past(f)
    <3>1. e <= f
      BY <1>3, <1>17
    <3> QED
      BY <2>3, <3>1, <1>1, PastMore
  <2> QED
    BY <2>2, <2>4, <1>17
<1>21. CASE y.value # 0
  <2>1. o > x /\ Cursor(v, y.reader, e)
    BY <1>15, <1>16, <1>17, <1>21 DEF Reached
  <2>2. extra <= x
    BY <1>13, <1>16 DEF Reached
  <2>3. extra = x
    BY <2>1, <2>2, <1>3, <1>14
  <2>4. Answer(v, rest, e, x)
    BY <2>1, <2>3, <1>18, <1>3, ReadLongIs
  <2>5. read_gamma(b) = Result(rest.ok, Pow(x) + rest.value, rest.reader)
    BY <1>11, <1>19, <1>21, <2>3
  <2>6. /\ read_gamma(b).ok = rest.ok
        /\ read_gamma(b).value = Pow(x) + rest.value
        /\ read_gamma(b).reader = rest.reader
    BY <2>5 DEF Result
  <2>7. CASE rest.ok
    <3>1. rest.value = Field(v, e, x) /\ Cursor(v, rest.reader, f)
      BY <2>4, <2>7, <1>17 DEF Answer
    <3>2. Field(v, e, x) = value - Pow(x) /\ Pow(x) \in Nat
      BY <1>3, <1>17, PowIs DEF GammaAt
    <3>3. Pow(x) + rest.value = value
      BY <3>1, <3>2
    <3>4. read_gamma(b).ok \in BOOLEAN
      BY <2>4, <2>6 DEF Answer
    <3> QED
      BY <2>6, <2>7, <3>1, <3>3, <3>4, <1>17
  <2>8. CASE ~ rest.ok
    <3>1. Past(f)
      BY <2>4, <2>8, <1>17 DEF Answer
    <3>2. read_gamma(b).ok \in BOOLEAN
      BY <2>4, <2>6 DEF Answer
    <3> QED
      BY <2>6, <2>8, <3>1, <3>2, <1>17
  <2> QED
    BY <2>7, <2>8
<1> QED
  BY <1>20, <1>21

-----------------------------------------------------------------------------
(* The inductive invariant.                                                 *)

TypeOk ==
    /\ program \in Programs
    /\ pc \in {"write", "stored", "read", "ok", "eof"}
    /\ at \in 0 .. Len(program)

\* How far the writer and the reader are.
Progress ==
    /\ pc = "write" => Len(lens) = at
    /\ pc # "write" =>
          /\ Len(lens) = Len(program) + 1
          /\ bit_len(w) = BYTE * Len(w.out)
          /\ bit_len(w) < lens[Len(program) + 1] + BYTE
    /\ pc \in {"write", "stored"} => got = <<>> /\ r = [pos |-> 0, acc |-> 0, nbits |-> 0]
    /\ pc = "stored" => at = 0
    /\ pc = "ok" => at = Len(program)

\* The values read are those written.
Same(s, p) ==
    \A i \in 1 .. Len(s) : p[i].kind # "align" => s[i] = p[i].value

\* The reader has the beginning of what was written and stands at a mark.
Reading(v) ==
    pc \notin {"write", "stored"} =>
        /\ \E n \in 0 .. Len(w.out) : data = SubSeq(w.out, 1, n)
        /\ got \in Seq(Nat) /\ Len(got) = at /\ Same(got, program)
        /\ pc # "eof" => Cursor(v, r, lens[at + 1])
        /\ pc = "eof" => data # w.out

Whole(v) == Story(v, w, lens, program) /\ Reading(v)

Inv == TypeOk /\ Progress /\ \E v : Whole(v)

LEMMA InitInv == Init => Inv
<1> SUFFICES ASSUME Init PROVE Inv
  OBVIOUS
<1>1. w = [out |-> <<>>, acc |-> 0, nbits |-> 0] /\ lens = <<>> /\ pc = "write" /\ at = 0
  BY DEF Init
<1>2. program \in Programs /\ Len(program) \in Nat
  BY OpIs DEF Init
<1>3. w \in Writers /\ w.out = <<>> /\ w.acc = 0 /\ w.nbits = 0
  BY <1>1 DEF Writers
<1>4. Len(w.out) = 0 /\ Len(lens) = 0 /\ lens \in Seq(Nat)
  BY <1>1, <1>3
<1>5. BYTE * 0 = 0 /\ 0 * BYTE = 0
  BY Byte
<1>6. bit_len(w) = 0
  BY <1>3, <1>4, <1>5 DEF bit_len
<1>7. Holds(w, 0)
  <2>1. 0 < Pow(0)
    BY PowIs
  <2>2. Field(0, 0, 0) = 0
    BY FieldOfZero
  <2>3. BytesOf(w.out, 0, 0)
    BY <1>4 DEF BytesOf
  <2> QED
    BY <2>1, <2>2, <2>3, <1>3, <1>4, <1>5, <1>6, Byte DEF Holds
<1>8. Story(0, w, lens, program)
  BY <1>4, <1>6, <1>7 DEF Story, Mark
<1>9. Reading(0)
  BY <1>1 DEF Reading
<1>10. TypeOk /\ Progress
  BY <1>1, <1>2, <1>4 DEF Init, TypeOk, Progress
<1> QED
  BY <1>8, <1>9, <1>10 DEF Inv, Whole

LEMMA WriteInv == ASSUME Inv, Write PROVE Inv'
<1>1. PICK v : Story(v, w, lens, program)
  BY DEF Inv, Whole
<1>2. /\ program \in Programs /\ at \in 0 .. Len(program) /\ pc = "write" /\ at < Len(program)
      /\ Len(lens) = at /\ Len(program) \in Nat
  BY OpIs DEF Inv, TypeOk, Progress, Write
<1>3. PICK op : op = program[at + 1] /\ GoodOp(op)
  <2>1. at + 1 \in 1 .. Len(program)
    BY <1>2
  <2> QED
    BY <1>2, <2>1, OpIs
<1>4. Holds(w, v) /\ lens \in Seq(Nat)
  BY <1>1 DEF Story
<1>5. PICK u : Extends(w, v, Written(op), u, op)
  BY <1>3, <1>4, WrittenIs
<1>6. /\ w' = Written(op) /\ lens' = Append(lens, bit_len(w)) /\ at' = at + 1
      /\ UNCHANGED <<program, pc, data, r, got>>
  BY <1>3 DEF Write
<1>7. Story(u, Written(op), Append(lens, bit_len(w)), program)
  BY <1>1, <1>2, <1>3, <1>5, StoryNext DEF Extends
<1>8. Story(u, w', lens', program')
  BY <1>6, <1>7
<1>9. (Story(u, w, lens, program))'
  BY <1>8
<1>10. Len(lens') = at + 1
  BY <1>2, <1>4, <1>6, HoldsType, AppendProperties
<1>11. TypeOk'
  BY <1>2, <1>6 DEF TypeOk
<1>12. Progress'
  BY <1>2, <1>6, <1>10 DEF Progress, Inv
<1>13. Reading(u)'
  BY <1>2, <1>6 DEF Reading
<1> QED
  BY <1>9, <1>11, <1>12, <1>13 DEF Inv, Whole

LEMMA FinishInv == ASSUME Inv, Finish PROVE Inv'
<1>1. PICK v : Story(v, w, lens, program)
  BY DEF Inv, Whole
<1>2. /\ program \in Programs /\ pc = "write" /\ at = Len(program)
      /\ Len(lens) = at /\ Len(program) \in Nat
  BY OpIs DEF Inv, TypeOk, Progress, Finish
<1>3. Holds(w, v) /\ lens \in Seq(Nat) /\ bit_len(w) \in Nat
  BY <1>1, HoldsType DEF Story
<1>4. PICK d : d = WriterAlign(w)
  OBVIOUS
<1>5. PICK u : /\ Holds(d, u) /\ Keeps(u, v, bit_len(w))
               /\ bit_len(w) <= bit_len(d) /\ bit_len(d) < bit_len(w) + BYTE
               /\ bit_len(d) = BYTE * Len(d.out)
  BY <1>3, <1>4, PadIs
<1>6. /\ w' = d /\ lens' = Append(lens, bit_len(w)) /\ at' = 0 /\ pc' = "stored"
      /\ UNCHANGED <<program, data, r, got>>
  BY <1>4 DEF Finish
<1>7. Story(u, d, Append(lens, bit_len(w)), program)
  <2>1. ~ Len(lens) + 1 <= Len(program)
    BY <1>2
  <2> QED
    BY <1>1, <1>2, <1>5, <2>1, StoryNext
<1>8. (Story(u, w, lens, program))'
  <2>1. Story(u, w', lens', program')
    BY <1>6, <1>7
  <2> QED
    BY <2>1
<1>9. Len(lens') = Len(program) + 1 /\ lens'[Len(program) + 1] = bit_len(w)
  BY <1>2, <1>3, <1>6, AppendProperties
<1>10. TypeOk'
  BY <1>2, <1>6 DEF TypeOk
<1>11. Progress'
  <2>1. got = <<>> /\ r = [pos |-> 0, acc |-> 0, nbits |-> 0]
    BY <1>2 DEF Inv, Progress
  <2>2. bit_len(w') = BYTE * Len(w'.out)
    BY <1>5, <1>6
  <2>3. bit_len(w') < lens'[Len(program') + 1] + BYTE
    BY <1>5, <1>6, <1>9
  <2>4. bit_len(w)' = bit_len(w')
    BY DEF bit_len
  <2> QED
    BY <1>6, <1>9, <2>1, <2>2, <2>3, <2>4 DEF Progress
<1>12. Reading(u)'
  BY <1>6 DEF Reading
<1> QED
  BY <1>8, <1>10, <1>11, <1>12 DEF Inv, Whole

\* Only reading: nothing of the writer changes.
LEMMA StoryKept ==
    ASSUME NEW v, Story(v, w, lens, program), UNCHANGED <<w, lens, program>>
    PROVE  Story(v, w, lens, program)'
<1>1. Story(v, w', lens', program')
  OBVIOUS
<1> QED
  BY <1>1

LEMMA TransportInv == ASSUME Inv, Transport PROVE Inv'
<1>1. PICK v : Story(v, w, lens, program)
  BY DEF Inv, Whole
<1>2. /\ pc = "stored" /\ pc' = "read" /\ at = 0 /\ got = <<>>
      /\ r = [pos |-> 0, acc |-> 0, nbits |-> 0]
      /\ UNCHANGED <<program, at, w, lens, r, got>>
  BY DEF Inv, Progress, Transport
<1>3. PICK n \in 0 .. Len(w.out) : data' = SubSeq(w.out, 1, n)
  BY DEF Transport
<1>4. Holds(w, v) /\ lens \in Seq(Nat) /\ v \in Nat /\ Mark(w, lens, 1) = 0
  BY <1>1, HoldsType DEF Story
<1>5. program \in Programs /\ Len(lens) = Len(program) + 1 /\ Len(program) \in Nat
  BY <1>2, OpIs DEF Inv, TypeOk, Progress
<1>6. lens[1] = 0
  BY <1>4, <1>5 DEF Mark
<1>7. w.out \in Seq(Nat) /\ Len(w.out) \in Nat
  BY <1>4, HoldsType, LenIs
<1>8. data' \in Seq(Nat) /\ Len(data') \in Nat
  <2>1. \A i \in 1 .. n : w.out[i] \in Nat
    BY <1>7, ElementOfSeq
  <2>2. SubSeq(w.out, 1, n) \in Seq(Nat)
    BY <1>7, <2>1, SubSeqProperties
  <2> QED
    BY <2>2, <1>3
<1>9. Cursor(v, r, lens[at + 1])'
  <2>1. lens'[at' + 1] = 0
    BY <1>2, <1>6
  <2>2. Field(v, 0, 0) = 0 /\ BYTE * 0 = 0
    BY <1>4, FieldAll, Byte
  <2>3. r' \in Readers /\ r'.pos = 0 /\ r'.nbits = 0 /\ r'.acc = 0
    BY <1>2 DEF Readers
  <2> QED
    BY <2>1, <2>2, <2>3, <1>8 DEF Cursor
<1>10. Reading(v)'
  <2>1. got' \in Seq(Nat) /\ Len(got') = at' /\ Same(got', program')
    BY <1>2 DEF Same
  <2>2. \E m \in 0 .. Len(w'.out) : data' = SubSeq(w'.out, 1, m)
    BY <1>2, <1>3
  <2>3. Same(got, program)'
    BY <2>1 DEF Same
  <2> QED
    BY <1>2, <1>9, <2>1, <2>2, <2>3 DEF Reading
<1>11. TypeOk' /\ Progress'
  <2>1. bit_len(w)' = bit_len(w)
    BY <1>2 DEF bit_len
  <2> QED
    BY <1>2, <2>1 DEF Inv, TypeOk, Progress
<1>12. Story(v, w, lens, program)'
  BY <1>1, <1>2, StoryKept
<1> QED
  BY <1>10, <1>11, <1>12 DEF Inv, Whole

\* The padding dropped ends at the next byte.
LEMMA AlignIs ==
    ASSUME NEW v \in Nat, NEW b, NEW c \in Nat, Cursor(v, b, c),
           NEW e \in Nat, NEW k \in Nat, e = BYTE * k, c <= e, e < c + BYTE
    PROVE  Cursor(v, ReaderAlign(b), e)
<1>1. PICK m \in Nat, p \in Nat : m = b.nbits /\ p = b.pos /\ c + m = BYTE * p
  BY CursorType
<1>2. PICK q \in Nat, n \in 0 .. BYTE - 1 :
         q = m \div BYTE /\ n = m % BYTE /\ m = BYTE * q + n
  BY Byte, DivParts
<1>3. PICK Q \in Nat, P \in Nat, K \in Nat :
         /\ Q = BYTE * q /\ P = BYTE * p /\ K = BYTE * (k + q) /\ K = e + Q
  <2>1. BYTE * q \in Nat /\ BYTE * p \in Nat /\ BYTE * (k + q) \in Nat
    BY Byte
  <2>2. BYTE * (k + q) = BYTE * k + BYTE * q
    BY Byte
  <2> QED
    BY <2>1, <2>2
<1>4. n \in Nat /\ n < BYTE /\ m = Q + n /\ c + m = P
  <2>1. n \in Nat /\ n < BYTE
    BY <1>2, Byte
  <2>2. m = Q + n
    BY <1>2, <1>3, Zenon
  <2>3. c + m = P
    BY <1>1, <1>3, Zenon
  <2> QED
    BY <2>1, <2>2, <2>3
<1>5. P = p * BYTE /\ K = (k + q) * BYTE
  BY <1>3, Byte
<1>6. ~ k + q < p
  <2>1. k + q < p => (k + q) * BYTE + BYTE <= p * BYTE
    BY Byte, Times, k + q \in Nat
  <2>2. k + q < p => K + BYTE <= P
    BY <2>1, <1>5
  <2> QED
    BY <2>2, <1>3, <1>4, Byte
<1>7. ~ p < k + q
  <2>1. p < k + q => p * BYTE + BYTE <= (k + q) * BYTE
    BY Byte, Times, k + q \in Nat
  <2>2. p < k + q => P + BYTE <= K
    BY <2>1, <1>5
  <2> QED
    BY <2>2, <1>3, <1>4, Byte
<1>8. k + q = p
  BY <1>6, <1>7
<1>9. P = K
  BY <1>5, <1>8
<1>10. c + n = e
  BY <1>3, <1>4, <1>9
<1>11. n <= b.nbits
  BY <1>1, <1>4
<1>12. Cursor(v, Dropped(b, n), c + n)
  BY <1>4, <1>11, DroppedIs
<1>13. ReaderAlign(b) = Dropped(b, n)
  BY <1>1, <1>2 DEF ReaderAlign
<1> QED
  BY <1>10, <1>12, <1>13

\* What a reader about to read stands before.
Ahead(v, op, c, e) ==
    /\ DataOf(v) /\ c \in Nat /\ e \in Nat /\ GoodOp(op)
    /\ Coded(v, op, c, e) /\ Cursor(v, r, c)

LEMMA HereIs ==
    ASSUME Inv, pc = "read", NEW v, Whole(v)
    PROVE  /\ DataOf(v) /\ Cursor(v, r, lens[at + 1]) /\ lens[at + 1] \in Nat
           /\ at \in Nat /\ program \in Programs /\ at \in 0 .. Len(program)
           /\ at < Len(program) =>
                 /\ Ahead(v, program[at + 1], lens[at + 1], lens[at + 2])
                 /\ lens[at + 2] <= bit_len(w)
<1>1. /\ program \in Programs /\ Len(program) \in Nat /\ at \in Nat /\ at <= Len(program)
      /\ Len(lens) = Len(program) + 1
  BY OpIs DEF Inv, TypeOk, Progress
<1>2. Story(v, w, lens, program) /\ lens \in Seq(Nat) /\ Holds(w, v)
  BY DEF Whole, Story
<1>3. PICK n \in 0 .. Len(w.out) : data = SubSeq(w.out, 1, n)
  BY DEF Whole, Reading
<1>4. w.out \in Seq(Nat) /\ Len(w.out) \in Nat /\ BytesOf(w.out, v, 0) /\ v \in Nat
  BY <1>2, HoldsType, LenIs DEF Holds
<1>5. DataOf(v)
  <2>1. \A i \in 1 .. n : w.out[i] \in Nat
    BY <1>4, ElementOfSeq
  <2>2. data \in Seq(Nat) /\ Len(data) = n /\ \A i \in 1 .. n : data[i] = w.out[i]
    BY <1>3, <1>4, <2>1, SubSeqProperties
  <2>3. \A i \in 1 .. Len(data) : i \in 1 .. Len(w.out)
    BY <2>2, <1>4
  <2>4. BytesOf(data, v, 0)
    BY <2>2, <2>3, <1>4 DEF BytesOf
  <2> QED
    BY <2>2, <2>4, <1>4 DEF DataOf
<1>6. Cursor(v, r, lens[at + 1])
  BY DEF Whole, Reading
<1>7. lens[at + 1] \in Nat
  <2>1. at + 1 \in 1 .. Len(lens)
    BY <1>1
  <2> QED
    BY <2>1, <1>2, ElementOfSeq
<1>8. ASSUME at < Len(program)
      PROVE  /\ Ahead(v, program[at + 1], lens[at + 1], lens[at + 2])
             /\ lens[at + 2] <= bit_len(w)
  <2>1. /\ at + 1 \in 1 .. Len(program) /\ at + 1 \in 1 .. Len(lens)
        /\ at + 2 \in 1 .. Len(lens) /\ (at + 1) + 1 = at + 2
    BY <1>1, <1>8
  <2>2. GoodOp(program[at + 1])
    BY <1>1, <2>1, OpIs
  <2>3. lens[at + 2] \in Nat /\ lens[at + 2] <= bit_len(w)
    BY <1>2, <2>1, ElementOfSeq DEF Story
  <2>4. Mark(w, lens, (at + 1) + 1) = lens[at + 2]
    BY <2>1 DEF Mark
  <2>5. Coded(v, program[at + 1], lens[at + 1], Mark(w, lens, (at + 1) + 1))
    BY <1>2, <2>1 DEF Story
  <2> QED
    BY <1>5, <1>6, <1>7, <2>2, <2>3, <2>4, <2>5 DEF Ahead
<1> QED
  BY <1>1, <1>5, <1>6, <1>7, <1>8

\* The end of the data before the end of what was written: a cut.
LEMMA PastIs ==
    ASSUME Inv, pc = "read", NEW e \in Nat, e <= bit_len(w), Past(e)
    PROVE  data # w.out
<1>1. PICK v : Whole(v)
  BY DEF Inv
<1>2. Holds(w, v)
  BY <1>1 DEF Whole, Story
<1>3. bit_len(w) \in Nat /\ bit_len(w) = BYTE * Len(w.out)
  BY <1>2, HoldsType DEF Inv, Progress
<1> SUFFICES ASSUME data = w.out PROVE FALSE
  OBVIOUS
<1>4. e > bit_len(w)
  BY <1>3 DEF Past
<1> QED
  BY <1>3, <1>4

LEMMA ReadByIs ==
    ASSUME NEW v, NEW op, NEW c, NEW e, Ahead(v, op, c, e)
    PROVE  /\ ReadBy(op).ok \in BOOLEAN
           /\ ReadBy(op).ok => /\ Cursor(v, ReadBy(op).reader, e)
                               /\ ReadBy(op).value \in Nat
                               /\ op.kind # "align" => ReadBy(op).value = op.value
           /\ ~ ReadBy(op).ok => Past(e)
<1>1. /\ DataOf(v) /\ c \in Nat /\ e \in Nat /\ op \in Op /\ Coded(v, op, c, e)
      /\ Cursor(v, r, c) /\ v \in Nat
  BY DEF Ahead, GoodOp, DataOf
<1>2. op.kind \in {"bits", "gamma", "align"} /\ op.n \in Nat /\ op.value \in Nat
  BY <1>1, Byte DEF Op
<1>3. CASE op.kind = "bits"
  <2>1. PICK x : x = ReadBy(op) /\ x = read_bits(r, op.n)
    BY <1>3 DEF ReadBy
  <2>2. Answer(v, x, c, op.n)
    BY <1>1, <1>2, <2>1, ReadBitsIs
  <2>3. e = c + op.n /\ Field(v, c, op.n) = op.value
    BY <1>1, <1>3 DEF Coded
  <2> QED
    BY <1>2, <2>1, <2>2, <2>3 DEF Answer
<1>4. CASE op.kind = "gamma"
  <2>1. PICK y : y = ReadBy(op) /\ y = read_gamma(r)
    BY <1>4 DEF ReadBy
  <2>2. PICK x \in 0 .. 2 * FIELD - 1 : GammaAt(v, op.value, c, x) /\ e = c + x + 1 + x
    BY <1>1, <1>4 DEF Coded
  <2>3. /\ y.ok \in BOOLEAN
        /\ y.ok => y.value = op.value /\ Cursor(v, y.reader, c + x + 1 + x)
        /\ ~ y.ok => Past(c + x + 1 + x)
    BY <1>1, <1>2, <2>1, <2>2, ReadGammaIs
  <2>4. /\ y.ok => y.value = op.value /\ Cursor(v, y.reader, e)
        /\ ~ y.ok => Past(e)
    BY <2>2, <2>3
  <2>5. y.ok => y.value \in Nat
    BY <2>4, <1>2
  <2> QED
    BY <2>1, <2>3, <2>4, <2>5
<1>5. CASE op.kind = "align"
  <2>1. PICK y : y = ReadBy(op) /\ y = Result(TRUE, 0, ReaderAlign(r))
    BY <1>5 DEF ReadBy
  <2>2. /\ y.ok = TRUE /\ y.ok \in BOOLEAN /\ y.ok
        /\ y.value = 0 /\ y.reader = ReaderAlign(r)
    BY <2>1 DEF Result
  <2>3. PICK k \in Nat : e = BYTE * k /\ c <= e /\ e < c + BYTE
    BY <1>1, <1>5 DEF Coded
  <2>4. Cursor(v, ReaderAlign(r), e)
    BY <1>1, <2>3, AlignIs
  <2>5. y.ok /\ y.value \in Nat /\ Cursor(v, y.reader, e)
    BY <2>2, <2>4
  <2>6. ReadBy(op).ok \in BOOLEAN /\ ReadBy(op).ok
    BY <2>1, <2>2
  <2>7. Cursor(v, ReadBy(op).reader, e) /\ ReadBy(op).value \in Nat
    BY <2>1, <2>5
  <2> QED
    BY <1>5, <2>6, <2>7
<1> QED
  BY <1>2, <1>3, <1>4, <1>5

-----------------------------------------------------------------------------
(* The steps of the reader.                                                 *)

\* One more value read.
LEMMA SameNext ==
    ASSUME got \in Seq(Nat), Len(got) = at, at \in Nat, Same(got, program), NEW x \in Nat,
           program[at + 1].kind # "align" => x = program[at + 1].value
    PROVE  /\ Append(got, x) \in Seq(Nat) /\ Len(Append(got, x)) = at + 1
           /\ Same(Append(got, x), program)
<1>1. PICK s : s = Append(got, x)
  OBVIOUS
<1>2. /\ s \in Seq(Nat) /\ Len(s) = at + 1 /\ s[at + 1] = x
      /\ \A i \in 1 .. at : s[i] = got[i]
  BY <1>1, AppendProperties
<1>3. ASSUME NEW i \in 1 .. at + 1, program[i].kind # "align" PROVE s[i] = program[i].value
  <2>1. CASE i = at + 1
    BY <2>1, <1>2, <1>3
  <2>2. CASE i \in 1 .. at
    BY <2>2, <1>2, <1>3 DEF Same
  <2> QED
    BY <2>1, <2>2
<1> QED
  BY <1>1, <1>2, <1>3 DEF Same

\* The three ways a step of the reader ends.
LEMMA Moved ==
    ASSUME Inv, pc = "read", NEW v, Whole(v), UNCHANGED <<program, w, lens, data>>,
           \/ pc' = "read" /\ UNCHANGED <<at, got>> /\ Cursor(v, r', lens[at + 1])
           \/ /\ pc' = "read" /\ at < Len(program) /\ at' = at + 1
              /\ Cursor(v, r', lens[at + 2])
              /\ \E x \in Nat : /\ got' = Append(got, x)
                                /\ program[at + 1].kind # "align" => x = program[at + 1].value
           \/ pc' = "eof" /\ at < Len(program) /\ UNCHANGED <<at, got>> /\ Past(lens[at + 2])
    PROVE  Inv'
<1>1. /\ DataOf(v) /\ at \in Nat /\ program \in Programs /\ at \in 0 .. Len(program)
      /\ Len(program) \in Nat
  BY HereIs, OpIs
<1>2. /\ \E n \in 0 .. Len(w.out) : data = SubSeq(w.out, 1, n)
      /\ got \in Seq(Nat) /\ Len(got) = at /\ Same(got, program)
  BY DEF Whole, Reading
<1>3. Story(v, w, lens, program)'
  BY StoryKept DEF Whole
<1>4. bit_len(w)' = bit_len(w)
  BY DEF bit_len
<1>5. (\E n \in 0 .. Len(w.out) : data = SubSeq(w.out, 1, n))'
  BY <1>2
<1>6. CASE pc' = "read" /\ UNCHANGED <<at, got>> /\ Cursor(v, r', lens[at + 1])
  <2>1. TypeOk' /\ Progress'
    BY <1>1, <1>4, <1>6 DEF Inv, TypeOk, Progress
  <2>2. Cursor(v, r, lens[at + 1])'
    BY <1>6 DEF Cursor
  <2>3. Same(got, program)'
    BY <1>2, <1>6 DEF Same
  <2>4. Reading(v)'
    BY <1>2, <1>5, <1>6, <2>2, <2>3 DEF Reading
  <2> QED
    BY <1>3, <2>1, <2>4 DEF Inv, Whole
<1>7. CASE /\ pc' = "read" /\ at < Len(program) /\ at' = at + 1
           /\ Cursor(v, r', lens[at + 2])
           /\ \E x \in Nat : /\ got' = Append(got, x)
                             /\ program[at + 1].kind # "align" => x = program[at + 1].value
  <2>1. TypeOk' /\ Progress'
    BY <1>1, <1>4, <1>7 DEF Inv, TypeOk, Progress
  <2>2. at' + 1 = at + 2
    BY <1>1, <1>7
  <2>3. Cursor(v, r, lens[at + 1])'
    <3>1. Cursor(v, r', lens[at' + 1])
      BY <1>7, <2>2
    <3> QED
      BY <3>1 DEF Cursor
  <2>4. got' \in Seq(Nat) /\ Len(got') = at' /\ Same(got', program)
    BY <1>1, <1>2, <1>7, SameNext
  <2>5. Same(got, program)'
    BY <2>4 DEF Same
  <2>6. Reading(v)'
    BY <1>5, <1>7, <2>3, <2>4, <2>5 DEF Reading
  <2> QED
    BY <1>3, <2>1, <2>6 DEF Inv, Whole
<1>8. CASE pc' = "eof" /\ at < Len(program) /\ UNCHANGED <<at, got>> /\ Past(lens[at + 2])
  <2>1. TypeOk' /\ Progress'
    BY <1>1, <1>4, <1>8 DEF Inv, TypeOk, Progress
  <2>2. lens[at + 2] \in Nat /\ lens[at + 2] <= bit_len(w)
    BY <1>8, HereIs DEF Ahead
  <2>3. data # w.out
    BY <1>8, <2>2, PastIs
  <2>4. Same(got, program)'
    BY <1>2, <1>8 DEF Same
  <2>5. Reading(v)'
    BY <1>2, <1>5, <1>8, <2>3, <2>4 DEF Reading
  <2> QED
    BY <1>3, <2>1, <2>5 DEF Inv, Whole
<1> QED
  BY <1>6, <1>7, <1>8

LEMMA ReadInv == ASSUME Inv, Read PROVE Inv'
<1>1. PICK v : Whole(v)
  BY DEF Inv
<1>2. /\ pc = "read" /\ at < Len(program) /\ at \in Nat
      /\ UNCHANGED <<program, w, lens, data>>
  BY <1>1, HereIs DEF Read
<1>3. PICK op, c, e : /\ op = program[at + 1] /\ c = lens[at + 1] /\ e = lens[at + 2]
                      /\ Ahead(v, op, c, e)
  BY <1>1, <1>2, HereIs
<1>4. PICK x : x = ReadBy(op)
  OBVIOUS
<1>5. /\ x.ok \in BOOLEAN
      /\ x.ok => Cursor(v, x.reader, e) /\ x.value \in Nat
                 /\ (op.kind # "align" => x.value = op.value)
      /\ ~ x.ok => Past(e)
  BY <1>3, <1>4, ReadByIs
<1>6. /\ r' = x.reader
      /\ pc' = IF x.ok THEN "read" ELSE "eof"
      /\ at' = IF x.ok THEN at + 1 ELSE at
      /\ got' = IF x.ok THEN Append(got, x.value) ELSE got
  BY <1>3, <1>4 DEF Read
<1>7. CASE x.ok
  <2>1. pc' = "read" /\ at' = at + 1 /\ got' = Append(got, x.value)
    BY <1>6, <1>7
  <2>2. Cursor(v, r', lens[at + 2])
    BY <1>3, <1>5, <1>6, <1>7
  <2>3. x.value \in Nat /\ (program[at + 1].kind # "align" => x.value = program[at + 1].value)
    BY <1>3, <1>5, <1>7
  <2> QED
    BY <1>1, <1>2, <2>1, <2>2, <2>3, Moved
<1>8. CASE ~ x.ok
  <2>1. pc' = "eof" /\ UNCHANGED <<at, got>> /\ Past(lens[at + 2])
    BY <1>3, <1>5, <1>6, <1>8
  <2> QED
    BY <1>1, <1>2, <2>1, Moved
<1> QED
  BY <1>7, <1>8

LEMMA PeekInv == ASSUME Inv, Peek PROVE Inv'
<1>1. PICK v : Whole(v)
  BY DEF Inv
<1>2. pc = "read" /\ UNCHANGED <<program, pc, at, w, lens, data, got>>
  BY DEF Peek
<1>3. PICK n \in 0 .. FIELD : r' = Loaded(r, n)
  BY DEF Peek
<1>4. DataOf(v) /\ Cursor(v, r, lens[at + 1]) /\ lens[at + 1] \in Nat
  BY <1>1, <1>2, HereIs
<1>5. n \in Nat
  BY Byte
<1>6. Cursor(v, r', lens[at + 1])
  BY <1>3, <1>4, <1>5, LoadedIs
<1>7. pc' = "read" /\ UNCHANGED <<at, got>>
  BY <1>2
<1> QED
  BY <1>1, <1>2, <1>6, <1>7, Moved

LEMMA PeekConsumeInv == ASSUME Inv, PeekConsume PROVE Inv'
<1>1. PICK v : Whole(v)
  BY DEF Inv
<1>2. /\ pc = "read" /\ at < Len(program) /\ at \in Nat
      /\ UNCHANGED <<program, w, lens, data>>
  BY <1>1, HereIs DEF PeekConsume
<1>3. PICK op, c, e : /\ op = program[at + 1] /\ c = lens[at + 1] /\ e = lens[at + 2]
                      /\ Ahead(v, op, c, e)
  BY <1>1, <1>2, HereIs
<1>4. PICK ahead \in op.n .. FIELD :
         LET loaded == Loaded(r, ahead) IN
           IF op.n > loaded.nbits
           THEN pc' = "eof" /\ r' = loaded /\ UNCHANGED <<at, got>>
           ELSE /\ r' = Dropped(loaded, op.n)
                /\ got' = Append(got, peek_bits(ahead) % Pow(op.n))
                /\ at' = at + 1
                /\ UNCHANGED pc
  BY <1>3 DEF PeekConsume
<1>5. op.kind = "bits"
  BY <1>3 DEF PeekConsume
<1>6. /\ DataOf(v) /\ v \in Nat /\ c \in Nat /\ e \in Nat /\ op \in Op /\ Cursor(v, r, c)
      /\ e = c + op.n /\ Field(v, c, op.n) = op.value
  BY <1>3, <1>5 DEF Ahead, GoodOp, DataOf, Coded
<1>7. PICK n \in Nat, k \in Nat : n = op.n /\ k = ahead - n /\ ahead = n + k
  <2>1. op.n \in Nat
    BY <1>6, Byte DEF Op
  <2>2. ahead \in Nat /\ ahead - op.n \in Nat /\ ahead = op.n + (ahead - op.n)
    BY <2>1, Byte
  <2> QED
    BY <2>1, <2>2
<1>8. ahead \in Nat /\ op.value \in Nat
  BY <1>6, <1>7 DEF Op
<1>9. PICK d : d = Loaded(r, ahead) /\ Cursor(v, d, c) /\ (d.nbits >= ahead \/ d.pos = Len(data))
  BY <1>6, <1>8, LoadedIs
<1>10. PICK m \in Nat, B \in Nat :
          m = d.nbits /\ B = BYTE * d.pos /\ c + m = B /\ d.acc = Field(v, c, m)
  BY <1>6, <1>9, CursorType
<1>11. CASE n > m
  <2>1. pc' = "eof" /\ UNCHANGED <<at, got>>
    BY <1>4, <1>7, <1>9, <1>10, <1>11
  <2>2. d.pos = Len(data)
    <3>1. ~ m >= ahead
      BY <1>7, <1>11
    <3> QED
      BY <3>1, <1>9, <1>10
  <2>3. e > B
    BY <1>6, <1>7, <1>10, <1>11
  <2>4. Past(lens[at + 2])
    BY <1>3, <1>10, <2>2, <2>3 DEF Past
  <2> QED
    BY <1>1, <1>2, <2>1, <2>4, Moved
<1>12. CASE ~ n > m
  <2>1. /\ r' = Dropped(d, n) /\ got' = Append(got, peek_bits(ahead) % Pow(n))
        /\ at' = at + 1 /\ pc' = "read"
    BY <1>2, <1>4, <1>7, <1>9, <1>10, <1>12
  <2>2. Cursor(v, Dropped(d, n), c + n) /\ d.acc % Pow(n) = Field(v, c, n)
    BY <1>6, <1>9, <1>10, <1>12, DroppedIs
  <2>3. Cursor(v, r', lens[at + 2])
    BY <2>1, <2>2, <1>3, <1>6, <1>7
  <2>4. peek_bits(ahead) % Pow(n) = op.value
    <3>1. PICK a \in Nat : a = d.acc
      BY <1>6, <1>9, CursorType
    <3>2. Field(a, 0, ahead) = a % Pow(ahead) /\ Field(a, 0, n) = a % Pow(n)
      BY <1>8, FieldAll
    <3>3. Field(a, 0, ahead) % Pow(n) = Field(a, 0, n)
      <4>1. k = 0 + k /\ n = 0 + n /\ 0 \in Nat
        OBVIOUS
      <4>2. Parts(a, 0, n, k, n, ahead)
        BY <4>1, <1>7, <1>8, FieldParts
      <4> QED
        BY <4>2 DEF Parts
    <3>4. peek_bits(ahead) = a % Pow(ahead)
      BY <3>1, <1>9 DEF peek_bits
    <3> QED
      BY <3>1, <3>2, <3>3, <3>4, <2>2, <1>6, <1>7
  <2>5. \E x \in Nat : /\ got' = Append(got, x)
                       /\ program[at + 1].kind # "align" => x = program[at + 1].value
    BY <2>1, <2>4, <1>3, <1>8
  <2> QED
    BY <1>1, <1>2, <2>1, <2>3, <2>5, Moved
<1> QED
  BY <1>11, <1>12

LEMMA ReadAllInv == ASSUME Inv, ReadAll PROVE Inv'
<1>1. PICK v : Whole(v)
  BY DEF Inv
<1>2. /\ pc = "read" /\ pc' = "ok" /\ at = Len(program)
      /\ UNCHANGED <<program, at, w, lens, data, r, got>>
  BY DEF ReadAll
<1>3. Story(v, w, lens, program)'
  BY <1>1, <1>2, StoryKept DEF Whole
<1>4. bit_len(w)' = bit_len(w)
  BY <1>2 DEF bit_len
<1>5. TypeOk' /\ Progress'
  BY <1>2, <1>4 DEF Inv, TypeOk, Progress
<1>6. Reading(v)'
  <2>1. Cursor(v, r, lens[at + 1])'
    BY <1>1, <1>2 DEF Whole, Reading, Cursor
  <2>2. Same(got, program)'
    BY <1>1, <1>2 DEF Whole, Reading, Same
  <2>3. /\ (\E n \in 0 .. Len(w.out) : data = SubSeq(w.out, 1, n))'
        /\ got' \in Seq(Nat) /\ Len(got') = at'
    BY <1>1, <1>2 DEF Whole, Reading
  <2> QED
    BY <1>2, <2>1, <2>2, <2>3 DEF Reading
<1> QED
  BY <1>3, <1>5, <1>6 DEF Inv, Whole

LEMMA StutterInv == ASSUME Inv, UNCHANGED vars PROVE Inv'
<1>1. PICK v : Whole(v)
  BY DEF Inv
<1>2. UNCHANGED <<program, pc, at, w, lens, data, r, got>>
  BY DEF vars
<1>3. Story(v, w, lens, program)'
  BY <1>1, <1>2, StoryKept DEF Whole
<1>4. bit_len(w)' = bit_len(w)
  BY <1>2 DEF bit_len
<1>5. TypeOk' /\ Progress'
  BY <1>2, <1>4 DEF Inv, TypeOk, Progress
<1>6. Reading(v)'
  BY <1>1, <1>2 DEF Whole, Reading, Same, Cursor
<1> QED
  BY <1>3, <1>5, <1>6 DEF Inv, Whole

\* The invariant is inductive.
LEMMA Invariance == Spec => []Inv
<1>1. Init => Inv
  BY InitInv
<1>2. Inv /\ [Next]_vars => Inv'
  <2> SUFFICES ASSUME Inv, [Next]_vars PROVE Inv'
    OBVIOUS
  <2>1. CASE Write
    BY <2>1, WriteInv
  <2>2. CASE Finish
    BY <2>2, FinishInv
  <2>3. CASE Transport
    BY <2>3, TransportInv
  <2>4. CASE Read
    BY <2>4, ReadInv
  <2>5. CASE Peek
    BY <2>5, PeekInv
  <2>6. CASE PeekConsume
    BY <2>6, PeekConsumeInv
  <2>7. CASE ReadAll
    BY <2>7, ReadAllInv
  <2>8. CASE UNCHANGED vars
    BY <2>8, StutterInv
  <2> QED
    BY <2>1, <2>2, <2>3, <2>4, <2>5, <2>6, <2>7, <2>8 DEF Next
<1> QED
  BY <1>1, <1>2, PTL DEF Spec

-----------------------------------------------------------------------------
(* The properties.                                                          *)

\* Where the invariant holds the reader stands at the operation it is to read.
LEMMA CursorExactIs == ASSUME Inv PROVE CursorExact
<1> SUFFICES ASSUME pc \in {"read", "ok"}
             PROVE  /\ r.pos * BYTE - r.nbits = lens[at + 1]
                    /\ bits_remaining = Len(data) * BYTE - lens[at + 1]
                    /\ lens[at + 1] % BYTE = 0 => byte_position * BYTE = lens[at + 1]
  BY DEF CursorExact
<1>1. PICK v : Whole(v)
  BY DEF Inv
<1>2. /\ Cursor(v, r, lens[at + 1]) /\ lens \in Seq(Nat)
      /\ \E n \in 0 .. Len(w.out) : data = SubSeq(w.out, 1, n)
  BY <1>1 DEF Whole, Reading, Story
<1>3. lens[at + 1] \in Nat
  <2>1. at \in Nat /\ at <= Len(program) /\ Len(lens) = Len(program) + 1
    BY OpIs DEF Inv, TypeOk, Progress
  <2>2. at + 1 \in 1 .. Len(lens)
    BY <2>1, OpIs DEF Inv, TypeOk
  <2> QED
    BY <2>2, <1>2, ElementOfSeq
<1>4. PICK c \in Nat, m \in Nat, p \in Nat :
         c = lens[at + 1] /\ m = r.nbits /\ p = r.pos /\ c + m = BYTE * p
  BY <1>2, <1>3, CursorType
<1>5. PICK P \in Nat : P = BYTE * p /\ P = p * BYTE /\ c + m = P
  BY <1>4, Byte
<1>6. r.pos * BYTE - r.nbits = c
  <2>1. P - m = c
    BY <1>5
  <2> QED
    BY <2>1, <1>4, <1>5
<1>7. Len(data) \in Nat
  <2>1. w.out \in Seq(Nat)
    BY <1>1, HoldsType, LenIs DEF Whole, Story
  <2>2. PICK n \in 0 .. Len(w.out) : data = SubSeq(w.out, 1, n)
    BY <1>2
  <2>3. \A i \in 1 .. n : w.out[i] \in Nat
    BY <2>1, ElementOfSeq
  <2>4. data \in Seq(Nat)
    BY <2>1, <2>2, <2>3, SubSeqProperties
  <2> QED
    BY <2>4
<1>8. bits_remaining = Len(data) * BYTE - c
  <2>1. PICK D \in Nat : D = Len(data)
    BY <1>7
  <2>2. (D - p) * BYTE = D * BYTE - p * BYTE
    BY Byte
  <2>3. PICK E \in Nat : E = D * BYTE
    BY Byte
  <2>4. (E - P) + m = E - c
    BY <1>5
  <2> QED
    BY <2>1, <2>2, <2>3, <2>4, <1>4, <1>5 DEF bits_remaining
<1>9. ASSUME c % BYTE = 0 PROVE byte_position * BYTE = c
  <2>1. PICK k \in Nat : c = BYTE * k
    <3>1. c = BYTE * (c \div BYTE) + (c % BYTE) /\ c \div BYTE \in Nat
      BY Byte, DivRem
    <3>2. PICK k \in Nat : k = c \div BYTE
      BY <3>1
    <3>3. BYTE * k \in Nat
      BY Byte
    <3>4. c = BYTE * k
      BY <1>9, <3>1, <3>2, <3>3
    <3> QED
      BY <3>4
  <2>2. k <= p
    <3>1. p < k => p * BYTE + BYTE <= k * BYTE
      BY Byte, Times
    <3>2. k * BYTE = c
      BY <2>1, Byte
    <3>3. p < k => P + BYTE <= c
      BY <3>1, <3>2, <1>5
    <3> QED
      BY <3>3, <1>5, Byte
  <2>3. PICK q \in Nat : q = p - k /\ p = k + q
    <3>1. p - k \in Nat /\ p = k + (p - k)
      BY <2>2
    <3> QED
      BY <3>1
  <2>4. m = BYTE * q + 0 /\ 0 \in 0 .. BYTE - 1
    <3>1. BYTE * (k + q) = BYTE * k + BYTE * q
      BY Byte
    <3>2. PICK Q \in Nat : Q = BYTE * q
      BY Byte
    <3>3. P = c + Q
      BY <1>5, <2>1, <2>3, <3>1, <3>2
    <3>4. m = Q
      BY <1>5, <3>3
    <3>5. 0 \in 0 .. BYTE - 1 /\ Q + 0 = Q
      BY Byte
    <3> QED
      BY <3>2, <3>4, <3>5
  <2>5. m \div BYTE = q
    BY <2>4, Byte, DivRemIs
  <2>6. byte_position = p - q
    BY <1>4, <2>5 DEF byte_position
  <2>7. byte_position = k
    BY <2>3, <2>6
  <2> QED
    BY <2>1, <2>7, Byte
<1> QED
  BY <1>4, <1>6, <1>8, <1>9

LEMMA ReadsWrittenIs == ASSUME Inv PROVE ReadsWritten
<1>1. CASE pc \in {"write", "stored"}
  <2>1. got = <<>>
    BY <1>1 DEF Inv, Progress
  <2>2. DOMAIN got = {}
    BY <2>1
  <2> QED
    BY <2>2 DEF ReadsWritten
<1>2. CASE pc \notin {"write", "stored"}
  <2>1. got \in Seq(Nat) /\ Same(got, program)
    BY <1>2 DEF Inv, Whole, Reading
  <2>2. DOMAIN got = 1 .. Len(got)
    BY <2>1
  <2> QED
    BY <2>1, <2>2 DEF ReadsWritten, Same
<1> QED
  BY <1>1, <1>2

\* A reader at the last mark has seen all the bytes.
LEMMA ReadIffWholeIs == ASSUME Inv PROVE ReadIffWhole
<1>1. PICK v : Whole(v)
  BY DEF Inv
<1>2. pc = "eof" => data # w.out
  BY <1>1 DEF Whole, Reading
<1>3. ASSUME pc = "ok" PROVE data = w.out
  <2>1. PICK n \in 0 .. Len(w.out) : data = SubSeq(w.out, 1, n)
    BY <1>1, <1>3 DEF Whole, Reading
  <2>2. w.out \in Seq(Nat) /\ Len(w.out) \in Nat /\ lens \in Seq(Nat)
    BY <1>1, HoldsType, LenIs DEF Whole, Story
  <2>3. /\ Len(program) \in Nat /\ at = Len(program) /\ Len(lens) = Len(program) + 1
        /\ bit_len(w) = BYTE * Len(w.out) /\ bit_len(w) < lens[Len(program) + 1] + BYTE
    BY <1>3, OpIs DEF Inv, TypeOk, Progress
  <2>4. PICK c \in Nat : c = lens[at + 1]
    <3>1. at + 1 \in 1 .. Len(lens)
      BY <2>3
    <3> QED
      BY <3>1, <2>2, ElementOfSeq
  <2>5. Cursor(v, r, c)
    BY <1>1, <1>3, <2>4 DEF Whole, Reading
  <2>6. \A i \in 1 .. n : w.out[i] \in Nat
    BY <2>2, ElementOfSeq
  <2>7. Len(data) = n
    BY <2>1, <2>2, <2>6, SubSeqProperties
  <2>8. PICK p \in Nat, m \in Nat : p = r.pos /\ m = r.nbits /\ c + m = BYTE * p /\ p <= n
    BY <2>5, <2>7, CursorType DEF Cursor
  <2>9. PICK L \in Nat : L = Len(w.out)
    BY <2>2
  <2>10. ~ n < L
    <3>1. PICK P \in Nat, N \in Nat : P = p * BYTE /\ N = L * BYTE
      BY Byte
    <3>2. c + m = P
      BY <2>8, <3>1, Byte
    <3>3. N < c + BYTE
      <4>1. BYTE * L = L * BYTE
        BY Byte
      <4> QED
        BY <4>1, <2>3, <2>4, <2>9, <3>1
    <3>4. p < L => P + BYTE <= N
      BY <3>1, Byte, Times
    <3>5. ~ p < L
      BY <3>2, <3>3, <3>4, Byte
    <3> QED
      BY <3>5, <2>8
  <2>11. n = L
    BY <2>9, <2>10
  <2>12. SubSeq(w.out, 1, L) = w.out
    BY <2>2, <2>9
  <2> QED
    BY <2>1, <2>11, <2>12
<1> QED
  BY <1>2, <1>3 DEF ReadIffWhole

\* However far ahead peek_bits loads bytes, BitReader stands exactly where the
\* operation it is to read begins: its pos, nbits, byte_position and
\* bits_remaining agree with the bits the writer had written before it.
THEOREM NothingLostAhead == Spec => []CursorExact
<1>1. Inv => CursorExact
  BY CursorExactIs
<1> QED
  BY <1>1, Invariance, PTL

\* Every value read is the value written, for bit fields of any width up to
\* FIELD and gamma codes of up to 2 * FIELD bits, with any peeks in between.
THEOREM ValuesReturn == Spec => []ReadsWritten
<1>1. Inv => ReadsWritten
  BY ReadsWrittenIs
<1> QED
  BY <1>1, Invariance, PTL

\* A stream is read to its end if and only if no byte of it was cut.
THEOREM CutsAreSeen == Spec => []ReadIffWhole
<1>1. Inv => ReadIffWhole
  BY ReadIffWholeIs
<1> QED
  BY <1>1, Invariance, PTL
=============================================================================
