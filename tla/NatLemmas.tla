----------------------------- MODULE NatLemmas -----------------------------
(* Induction over the natural numbers in the form the provers can use: a   *)
(* set of naturals has a least element.  The theorems of the library take  *)
(* the property as an operator; here it is a set, and the proof is by      *)
(* counting: the numbers below all of S would map one to one into fewer.   *)
EXTENDS Integers, SequencesExt, FiniteSetTheorems, SequenceTheorems, TLAPS

\* A set of natural numbers that is not empty has a least element.
LEMMA LeastNat ==
    ASSUME NEW S \in SUBSET Nat, NEW n \in S
    PROVE  \E x \in S : \A y \in S : x <= y
<1> SUFFICES ASSUME \A x \in S : \E y \in S : y < x
             PROVE  FALSE
  OBVIOUS
<1> DEFINE U == {u \in 0 .. n : \A y \in S : u < y}
           Up == [u \in U |-> u + 1]
<1>1. \A u \in U : u + 1 \in U \ {0}
  <2> SUFFICES ASSUME NEW u \in U, NEW y \in S PROVE u + 1 < y
    OBVIOUS
  <2>1. PICK z \in S : z < y
    OBVIOUS
  <2> QED
    BY <2>1
<1>2. 0 \in U
  <2> SUFFICES ASSUME NEW y \in S PROVE 0 < y
    OBVIOUS
  <2> QED
    OBVIOUS
<1>3. U \in SUBSET (0 .. n) /\ \A u \in U : u \in Nat
  OBVIOUS
<1>4. Up \in [U -> U \ {0}] /\ \A u \in U : Up[u] = u + 1
  BY <1>1
<1> HIDE DEF U, Up
<1>5. IsFiniteSet(0 .. n)
  BY FS_Interval
<1>6. IsFiniteSet(U)
  BY <1>3, <1>5, FS_Subset
<1>7. IsFiniteSet(U \ {0}) /\ Cardinality(U \ {0}) = Cardinality(U) - 1
  BY <1>2, <1>6, FS_RemoveElement
<1>8. Cardinality(U) \in Nat
  BY <1>6, FS_CardinalityType
<1>9. Cardinality(U \ {0}) < Cardinality(U)
  BY <1>7, <1>8
<1>10. \E a, b \in U : a # b /\ Up[a] = Up[b]
  BY <1>4, <1>6, <1>7, <1>9, FS_PigeonHole
<1> QED
  BY <1>3, <1>4, <1>10

\* What holds of 0, and of n + 1 whenever it holds of n, holds of all.
LEMMA NatSetInduction ==
    ASSUME NEW S, 0 \in S, \A n \in Nat : n \in S => n + 1 \in S
    PROVE  Nat \subseteq S
<1> SUFFICES ASSUME NEW k \in Nat \ S PROVE FALSE
  OBVIOUS
<1>1. PICK x \in Nat \ S : \A y \in Nat \ S : x <= y
  BY LeastNat
<1>2. x # 0 /\ x - 1 \in Nat /\ x - 1 \in S
  BY <1>1
<1> QED
  BY <1>2

\* Every step stays in S; the step is a function of the value before it and of
\* its number.
StepsIn(step, S, n) == \A x \in S, k \in 1 .. n : step[<<x, k>>] \in S

\* g takes n such steps from base.
Solves(g, S, n, base, step) ==
    /\ g \in [0 .. n -> S]
    /\ g[0] = base
    /\ \A k \in 1 .. n : g[k] = step[<<g[k - 1], k>>]

\* A recursion that stays in a set has a solution.
LEMMA Recursion ==
    ASSUME NEW S, NEW n \in Nat, NEW base \in S, NEW step, StepsIn(step, S, n)
    PROVE  \E g : Solves(g, S, n, base, step)
<1> DEFINE Takes(g, m) == g[0] = base /\ \A k \in 1 .. m : g[k] = step[<<g[k - 1], k>>]
           T == {m \in Nat : m <= n => \E g \in [0 .. m -> S] : Takes(g, m)}
<1>1. 0 \in T
  <2>1. [k \in 0 .. 0 |-> base] \in [0 .. 0 -> S] /\ Takes([k \in 0 .. 0 |-> base], 0)
    OBVIOUS
  <2> HIDE DEF Takes
  <2> QED
    BY <2>1
<1>2. ASSUME NEW m \in Nat, m \in T PROVE m + 1 \in T
  <2>1. SUFFICES ASSUME m + 1 <= n PROVE \E g \in [0 .. m + 1 -> S] : Takes(g, m + 1)
    <3> HIDE DEF Takes
    <3> QED
      OBVIOUS
  <2>2. PICK g \in [0 .. m -> S] : Takes(g, m)
    BY <1>2, <2>1
  <2> DEFINE last == step[<<g[m], m + 1>>]
             h == [k \in 0 .. m + 1 |-> IF k = m + 1 THEN last ELSE g[k]]
  <2>3. last \in S
    <3>1. g[m] \in S /\ m + 1 \in 1 .. n
      BY <2>1
    <3> QED
      BY <3>1 DEF StepsIn
  <2>4. h \in [0 .. m + 1 -> S]
    <3> HIDE DEF last
    <3> QED
      BY <2>3
  <2>5. h[0] = base
    BY <2>2
  <2>6. ASSUME NEW k \in 1 .. m + 1 PROVE h[k] = step[<<h[k - 1], k>>]
    <3>1. CASE k = m + 1
      <4>1. h[k] = last /\ h[k - 1] = g[m]
        BY <3>1
      <4> QED
        BY <3>1, <4>1
    <3>2. CASE k \in 1 .. m
      <4>1. h[k] = g[k] /\ h[k - 1] = g[k - 1]
        BY <3>2
      <4> QED
        BY <3>2, <4>1, <2>2
    <3> QED
      BY <3>1, <3>2
  <2> HIDE DEF h
  <2> QED
    BY <2>4, <2>5, <2>6
<1>3. Nat \subseteq T
  <2> HIDE DEF T
  <2> QED
    BY <1>1, <1>2, NatSetInduction
<1> HIDE DEF Takes
<1>4. PICK g \in [0 .. n -> S] : Takes(g, n)
  BY <1>3
<1> QED
  BY <1>4 DEF Takes, Solves

\* Functions that start alike and stay alike from one step to the next are alike.
LEMMA SameSteps ==
    ASSUME NEW n \in Nat, NEW f, NEW g, f[0] = g[0],
           \A k \in 1 .. n : f[k - 1] = g[k - 1] => f[k] = g[k]
    PROVE  \A k \in 0 .. n : f[k] = g[k]
<1> DEFINE T == {m \in Nat : m <= n => f[m] = g[m]}
<1>1. 0 \in T
  OBVIOUS
<1>2. ASSUME NEW m \in Nat, m \in T PROVE m + 1 \in T
  <2>1. m + 1 <= n => m + 1 \in 1 .. n /\ (m + 1) - 1 = m
    OBVIOUS
  <2> QED
    BY <1>2, <2>1
<1>3. Nat \subseteq T
  <2> HIDE DEF T
  <2> QED
    BY <1>1, <1>2, NatSetInduction
<1> QED
  BY <1>3

\* Two functions that SameSteps applies to.
Alike(f, g, n) == f[0] = g[0] /\ \A k \in 1 .. n : f[k - 1] = g[k - 1] => f[k] = g[k]

LEMMA AllAlike ==
    ASSUME NEW n \in Nat, NEW f, NEW g, Alike(f, g, n)
    PROVE  \A k \in 0 .. n : f[k] = g[k]
  BY SameSteps DEF Alike

LEMMA EndAlike ==
    ASSUME NEW n \in Nat, NEW f, NEW g, Alike(f, g, n)
    PROVE  f[n] = g[n]
<1>1. \A k \in 0 .. n : f[k] = g[k]
  BY AllAlike
<1> QED
  BY <1>1
\* Sequences are put together one by one.
LEMMA FlattenSteps ==
    ASSUME NEW T, NEW p \in Seq(Seq(T))
    PROVE  \E g \in [0 .. Len(p) -> Seq(T)] :
              /\ g[0] = <<>> /\ FlattenSeq(p) = g[Len(p)]
              /\ \A i \in 1 .. Len(p) : g[i] = g[i - 1] \o p[i]
<1>1. PICK m \in Nat : m = Len(p)
  OBVIOUS
<1>2. \A i \in 1 .. m : p[i] \in Seq(T)
  BY <1>1
<1>3. \A a, b \in Seq(T) : a \o b \in Seq(T)
  OBVIOUS
<1> DEFINE Then(g, i) == IF i = 1 THEN p[i] ELSE g[i - 1] \o p[i]
           Eq(g) == [i \in 1 .. m |-> Then(g, i)]
           Joined(n, g) == \A i \in 1 .. n : g[i] = Then(g, i)
           S == {n \in Nat : n <= m => \E g \in [1 .. n -> Seq(T)] : Joined(n, g)}
<1>4. 0 \in S
  <2>1. [i \in 1 .. 0 |-> <<>>] \in [1 .. 0 -> Seq(T)] /\ Joined(0, [i \in 1 .. 0 |-> <<>>])
    OBVIOUS
  <2> QED
    BY <2>1
<1>5. ASSUME NEW n \in Nat, n \in S PROVE n + 1 \in S
  <2>1. SUFFICES ASSUME n + 1 <= m PROVE \E g \in [1 .. n + 1 -> Seq(T)] : Joined(n + 1, g)
    <3> HIDE DEF Joined
    <3> QED
      OBVIOUS
  <2>2. n <= m
    BY <2>1
  <2>3. PICK g \in [1 .. n -> Seq(T)] : Joined(n, g)
    BY <1>5, <2>2
  <2> DEFINE last == Then(g, n + 1)
             h == [i \in 1 .. n + 1 |-> IF i = n + 1 THEN last ELSE g[i]]
  <2>4. last \in Seq(T)
    <3>1. n # 0 => g[n] \in Seq(T)
      OBVIOUS
    <3>2. p[n + 1] \in Seq(T)
      BY <1>2, <2>1
    <3> QED
      BY <3>1, <3>2, <1>3
  <2>5. h \in [1 .. n + 1 -> Seq(T)]
    <3> HIDE DEF last
    <3> QED
      BY <2>4
  <2>6. ASSUME NEW i \in 1 .. n + 1
        PROVE  h[i] = Then(h, i)
    <3>1. CASE i = n + 1
      <4>1. h[i] = Then(g, i)
        BY <3>1
      <4>2. i # 1 => h[i - 1] = g[i - 1]
        BY <3>1
      <4> QED
        BY <4>1, <4>2
    <3>2. CASE i \in 1 .. n
      <4>1. h[i] = g[i] /\ g[i] = Then(g, i)
        BY <3>2, <2>3
      <4>2. i # 1 => h[i - 1] = g[i - 1]
        BY <3>2
      <4> QED
        BY <4>1, <4>2
    <3> QED
      BY <3>1, <3>2
  <2> HIDE DEF h, Then
  <2> QED
    BY <2>5, <2>6
<1>6. Nat \subseteq S
  <2> HIDE DEF S
  <2> QED
    BY <1>4, <1>5, NatSetInduction
<1>7. PICK g \in [1 .. m -> Seq(T)] : Joined(m, g)
  <2> HIDE DEF Joined
  <2> QED
    BY <1>6
<1>8. g = Eq(g)
  <2> HIDE DEF Then
  <2>1. g = [i \in 1 .. m |-> g[i]]
    OBVIOUS
  <2>2. \A i \in 1 .. m : g[i] = Then(g, i)
    BY <1>7
  <2> QED
    BY <2>1, <2>2
<1>9. CASE m = 0
  <2>1. p = <<>>
    BY <1>1, <1>9, EmptySeq
  <2>2. FlattenSeq(p) = <<>>
    BY <2>1, <1>1, <1>9 DEF FlattenSeq
  <2> DEFINE h == [i \in 0 .. m |-> <<>>]
  <2>3. h \in [0 .. m -> Seq(T)] /\ h[0] = <<>> /\ h[m] = <<>>
    BY <1>9
  <2>4. 1 .. m = {}
    BY <1>9
  <2> HIDE DEF h
  <2> QED
    BY <2>2, <2>3, <2>4, <1>1
<1>10. CASE m # 0
  <2> DEFINE flat == CHOOSE h : h = Eq(h)
  <2>1. FlattenSeq(p) = flat[m]
    BY <1>1, <1>10 DEF FlattenSeq
  <2> HIDE DEF Eq
  <2>2. flat = Eq(flat)
    BY <1>8
  <2> HIDE DEF flat
  <2> DEFINE k(i) == IF i = 0 THEN <<>> ELSE flat[i]
             all == [i \in 0 .. m |-> k(i)]
             R == {n \in Nat : n <= m => all[n] \in Seq(T)}
  <2>3. \A i \in 1 .. m : flat[i] = Then(flat, i)
    <3> HIDE DEF Then
    <3> QED
      BY <2>2 DEF Eq
  <2>4. ASSUME NEW i \in 1 .. m PROVE all[i] = all[i - 1] \o p[i]
    <3>1. p[i] \in Seq(T) /\ <<>> \o p[i] = p[i]
      BY <1>2, ConcatEmptySeq
    <3>2. i - 1 \in 0 .. m /\ all[i] = flat[i] /\ (i # 1 => all[i - 1] = flat[i - 1])
          /\ (i = 1 => all[i - 1] = <<>>)
      OBVIOUS
    <3> HIDE DEF all
    <3> QED
      BY <2>3, <3>1, <3>2
  <2>5. all[0] = <<>> /\ all[m] = flat[m]
    BY <1>10
  <2> HIDE DEF all
  <2>6. 0 \in R
    <3>1. all[0] \in Seq(T)
      BY <2>5, EmptySeq
    <3> QED
      BY <3>1
  <2>7. ASSUME NEW n \in Nat, n \in R PROVE n + 1 \in R
    <3> SUFFICES ASSUME n + 1 <= m PROVE all[n + 1] \in Seq(T)
      OBVIOUS
    <3>1. PICK i \in 1 .. m : i = n + 1 /\ i - 1 = n /\ n <= m
      OBVIOUS
    <3>2. all[i] = all[i - 1] \o p[i] /\ p[i] \in Seq(T)
      BY <2>4, <1>2
    <3>3. all[i - 1] \in Seq(T)
      BY <3>1, <2>7
    <3> QED
      BY <3>1, <3>2, <3>3, <1>3
  <2>8. Nat \subseteq R
    <3> HIDE DEF R
    <3> QED
      BY <2>6, <2>7, NatSetInduction
  <2>9. all \in [0 .. m -> Seq(T)]
    <3>1. \A i \in 0 .. m : all[i] \in Seq(T)
      BY <2>8
    <3>2. all = [i \in 0 .. m |-> k(i)]
      BY DEF all
    <3>3. \A i \in 0 .. m : k(i) \in Seq(T)
      BY <3>1 DEF all
    <3> HIDE DEF k
    <3> QED
      BY <3>2, <3>3
  <2> QED
    BY <2>1, <2>4, <2>5, <2>9, <1>1
<1> QED
  BY <1>1, <1>9, <1>10

\* Put together, sequences over a set are a sequence over it.
LEMMA FlattenType ==
    ASSUME NEW T, NEW p \in Seq(Seq(T))
    PROVE  FlattenSeq(p) \in Seq(T)
<1>1. PICK g \in [0 .. Len(p) -> Seq(T)] :
        /\ g[0] = <<>> /\ FlattenSeq(p) = g[Len(p)]
        /\ \A i \in 1 .. Len(p) : g[i] = g[i - 1] \o p[i]
  BY FlattenSteps
<1>2. Len(p) \in 0 .. Len(p)
  OBVIOUS
<1> QED
  BY <1>1, <1>2

\* Nothing is left out: each of them has its place in the whole.
LEMMA FlattenContains ==
    ASSUME NEW T, NEW p \in Seq(Seq(T)), NEW i \in 1 .. Len(p), NEW k \in 1 .. Len(p[i])
    PROVE  \E j \in 1 .. Len(FlattenSeq(p)) : FlattenSeq(p)[j] = p[i][k]
<1>1. PICK m \in Nat : m = Len(p)
  OBVIOUS
<1>2. PICK g \in [0 .. m -> Seq(T)] :
        /\ FlattenSeq(p) = g[m]
        /\ \A n \in 1 .. m : g[n] = g[n - 1] \o p[n]
  BY <1>1, FlattenSteps
<1>3. \A n \in 1 .. m : p[n] \in Seq(T)
  BY <1>1
<1>4. i \in 1 .. m
  BY <1>1
<1> DEFINE Has(n) == \E j \in 1 .. Len(g[n]) : g[n][j] = p[i][k]
           S == {d \in Nat : i + d <= m => Has(i + d)}
           Joins(n, a, b, l, h) ==
               /\ a = g[n - 1] /\ b = p[n] /\ l = Len(a) /\ h = Len(b)
               /\ Len(g[n]) = l + h
               /\ \A j \in 1 .. l + h : g[n][j] = IF j <= l THEN a[j] ELSE b[j - l]
<1>5. ASSUME NEW n \in 1 .. m
      PROVE  \E a \in Seq(T), b \in Seq(T), l \in Nat, h \in Nat : Joins(n, a, b, l, h)
  <2>1. n - 1 \in 0 .. m
    OBVIOUS
  <2>2. g[n] = g[n - 1] \o p[n] /\ g[n - 1] \in Seq(T) /\ p[n] \in Seq(T)
    BY <2>1, <1>2, <1>3
  <2>3. PICK a \in Seq(T), b \in Seq(T) : a = g[n - 1] /\ b = p[n] /\ g[n] = a \o b
    BY <2>2
  <2>4. /\ Len(a \o b) = Len(a) + Len(b)
        /\ \A j \in 1 .. Len(a) + Len(b) : (a \o b)[j] = IF j <= Len(a) THEN a[j] ELSE b[j - Len(a)]
    BY ConcatProperties
  <2>5. PICK l \in Nat, h \in Nat : l = Len(a) /\ h = Len(b)
    OBVIOUS
  <2>6. Len(g[n]) = l + h /\ \A j \in 1 .. l + h : g[n][j] = IF j <= l THEN a[j] ELSE b[j - l]
    BY <2>3, <2>4, <2>5
  <2>7. Joins(n, a, b, l, h)
    BY <2>3, <2>5, <2>6
  <2> HIDE DEF Joins
  <2> QED
    BY <2>7
<1>6. 0 \in S
  <2>1. PICK a \in Seq(T), b \in Seq(T), l \in Nat, h \in Nat : Joins(i, a, b, l, h)
    <3> HIDE DEF Joins
    <3> QED
      BY <1>4, <1>5
  <2>2. PICK j \in 1 .. l + h : j = l + k /\ ~(j <= l) /\ j - l = k
    <3>1. k \in 1 .. h
      BY <2>1
    <3>2. l + k \in 1 .. l + h /\ ~(l + k <= l) /\ (l + k) - l = k
      BY <3>1
    <3> QED
      BY <3>2
  <2>3. g[i][j] = p[i][k]
    BY <2>1, <2>2
  <2>4. Has(i)
    BY <2>1, <2>3
  <2>5. i + 0 = i
    BY <1>4
  <2> HIDE DEF Has
  <2> QED
    BY <2>4, <2>5
<1>7. ASSUME NEW d \in Nat, d \in S PROVE d + 1 \in S
  <2> SUFFICES ASSUME i + (d + 1) <= m PROVE Has(i + (d + 1))
    <3> HIDE DEF Has
    <3> QED
      OBVIOUS
  <2>1. PICK n \in 1 .. m : n = i + (d + 1) /\ n - 1 = i + d /\ i + d <= m
    BY <1>4
  <2>2. Has(n - 1)
    <3> HIDE DEF Has
    <3> QED
      BY <2>1, <1>7
  <2>3. PICK a \in Seq(T), b \in Seq(T), l \in Nat, h \in Nat : Joins(n, a, b, l, h)
    <3> HIDE DEF Joins
    <3> QED
      BY <1>5
  <2>4. PICK j \in 1 .. l : a[j] = p[i][k]
    BY <2>2, <2>3
  <2>5. j \in 1 .. l + h /\ j <= l
    OBVIOUS
  <2>6. g[n][j] = p[i][k]
    BY <2>3, <2>4, <2>5
  <2>7. Has(n)
    BY <2>3, <2>5, <2>6
  <2> HIDE DEF Has
  <2> QED
    BY <2>1, <2>7
<1>8. Nat \subseteq S
  <2> HIDE DEF S
  <2> QED
    BY <1>6, <1>7, NatSetInduction
<1>9. Has(m)
  <2>1. PICK d \in Nat : i + d = m
    <3>1. m - i \in Nat /\ i + (m - i) = m
      BY <1>4
    <3> QED
      BY <3>1
  <2>2. d \in S /\ i + d <= m
    <3> HIDE DEF S
    <3> QED
      BY <2>1, <1>8
  <2> HIDE DEF Has
  <2>3. Has(i + d)
    BY <2>2
  <2> QED
    BY <2>1, <2>3
<1> QED
  BY <1>2, <1>9

-----------------------------------------------------------------------------
(* Arithmetic.                                                              *)

LEMMA Times ==
    ASSUME NEW a \in Nat, NEW b \in Nat, NEW c \in Nat
    PROVE  /\ a * c \in Nat
           /\ a <= b => a * c <= b * c
           /\ a < b => a * c + c <= b * c
  OBVIOUS

LEMMA DivRem ==
    ASSUME NEW v \in Nat, NEW a \in Nat \ {0}
    PROVE  /\ v \div a \in Nat /\ v % a \in 0 .. a - 1
           /\ v = a * (v \div a) + (v % a)
  OBVIOUS

\* The same, to name them.
LEMMA DivParts ==
    ASSUME NEW v \in Nat, NEW a \in Nat \ {0}
    PROVE  \E q \in Nat, m \in 0 .. a - 1 : q = v \div a /\ m = v % a /\ v = a * q + m
<1>1. /\ v \div a \in Nat /\ v % a \in 0 .. a - 1
      /\ v = a * (v \div a) + (v % a)
  BY DivRem
<1> QED
  BY <1>1

\* There is one quotient and one remainder.
LEMMA DivRemIs ==
    ASSUME NEW v \in Nat, NEW a \in Nat \ {0}, NEW q \in Nat, NEW r \in 0 .. a - 1,
           v = a * q + r
    PROVE  v \div a = q /\ v % a = r
<1>1. PICK d \in Nat, m \in 0 .. a - 1 : d = v \div a /\ m = v % a /\ v = a * d + m
  BY DivRem
<1>2. a * q \in Nat /\ a * d \in Nat
  BY Times
<1>3. ~ q < d
  <2>1. q < d => q * a + a <= d * a
    BY Times
  <2> QED
    BY <2>1, <1>1, <1>2
<1>4. ~ d < q
  <2>1. d < q => d * a + a <= q * a
    BY Times
  <2> QED
    BY <2>1, <1>1, <1>2
<1>5. d = q
  BY <1>3, <1>4
<1> QED
  BY <1>1, <1>2, <1>5

\* A common factor of both comes out of a remainder.
LEMMA RemTimes ==
    ASSUME NEW m \in Nat, NEW a \in Nat \ {0}, NEW c \in Nat \ {0}
    PROVE  (m * c) % (a * c) = (m % a) * c
<1>1. PICK q \in Nat, r \in 0 .. a - 1 : r = m % a /\ m = a * q + r
  BY DivRem
<1>2. a * c \in Nat \ {0} /\ m * c \in Nat /\ r * c \in Nat
  OBVIOUS
<1>3. m * c = (a * c) * q + r * c
  <2>1. (a * q + r) * c = (a * c) * q + r * c
    OBVIOUS
  <2> QED
    BY <1>1, <2>1
<1>4. r * c + c <= a * c
  BY Times
<1> DEFINE x == m * c
           y == a * c
           z == r * c
<1>5. x \in Nat /\ y \in Nat \ {0} /\ z \in 0 .. y - 1 /\ x = y * q + z
  BY <1>2, <1>3, <1>4
<1> HIDE DEF x, y, z
<1>6. x % y = z
  BY <1>5, DivRemIs
<1> QED
  BY <1>1, <1>6 DEF x, y, z

\* Dividing twice.
LEMMA DivDiv ==
    ASSUME NEW v \in Nat, NEW a \in Nat \ {0}, NEW b \in Nat \ {0}
    PROVE  (v \div a) \div b = v \div (b * a)
<1>1. PICK d \in Nat, r \in 0 .. a - 1 : d = v \div a /\ v = a * d + r
  BY DivRem
<1>2. PICK e \in Nat, s \in 0 .. b - 1 : e = d \div b /\ d = b * e + s
  BY DivRem
<1>3. b * a \in Nat \ {0} /\ s * a \in Nat /\ (b * a) * e \in Nat
  OBVIOUS
<1>4. s * a + a <= b * a
  BY Times
<1>5. v = (b * a) * e + (s * a + r)
  <2>1. a * (b * e + s) + r = (b * a) * e + (s * a + r)
    OBVIOUS
  <2> QED
    BY <1>1, <1>2, <2>1
<1> DEFINE y == b * a
           z == s * a + r
<1>6. y \in Nat \ {0} /\ z \in 0 .. y - 1 /\ v = y * e + z
  BY <1>3, <1>4, <1>5
<1> HIDE DEF y, z
<1>7. v \div y = e
  BY <1>6, DivRemIs
<1> QED
  BY <1>1, <1>2, <1>7 DEF y
=============================================================================
