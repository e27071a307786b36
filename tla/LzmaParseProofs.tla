-------------------------- MODULE LzmaParseProofs --------------------------
(* Proofs about LzmaParse: whatever the input, the prices and the effort,  *)
(* both parsers search every position once and decide from the matches of  *)
(* the right one, and what the optimal parser predicts along a path is     *)
(* what coding the path does and costs.                                    *)
EXTENDS LzmaParse, NatLemmas, SequenceTheorems

-----------------------------------------------------------------------------
(* Facts about constants and inputs.                                       *)

LEMMA Limits ==
    /\ MATCH_MIN_LEN \in Nat /\ MATCH_MIN_LEN >= 2 /\ MATCH_MAX_LEN \in Nat
    /\ OPT_LEN \in Nat /\ OPT_LEN >= 1
    /\ MaxNode \in Nat /\ MaxNode = OPT_LEN + 2 * MATCH_MAX_LEN + 1
    /\ MaxPrice \in Nat /\ Infinity \in Nat
  BY LimitsAssumption, PriceAssumption DEF MaxNode

LEMMA LensType ==
    \A l \in Lens : l \in Nat /\ l >= 2 /\ l >= MATCH_MIN_LEN /\ l <= MATCH_MAX_LEN
  BY Limits DEF Lens

LEMMA InputType ==
    ASSUME data \in Inputs
    PROVE  /\ data \in Seq(Nat) /\ N \in Nat /\ N = Len(data)
           /\ \A i \in 1 .. N : data[i] \in Bytes
           /\ \A p \in 0 .. N - 1 : p \in Positions
<1>1. data \in Seq(Nat) /\ N \in Nat /\ N = Len(data)
  BY LimitsAssumption DEF N
<1>2. \A i \in 1 .. Len(data) : data[i] \in Bytes
  BY DEF Bytes
<1>3. \A p \in 0 .. Len(data) - 1 : p \in Positions
  BY DEF Positions
<1> QED
  BY <1>1, <1>2, <1>3

LEMMA EffortType ==
    ASSUME effort \in Efforts
    PROVE  /\ effort.parse \in {"Fast", "Optimal"}
           /\ effort.nice_len \in Nat /\ effort.nice_len >= 2
           /\ effort.nice_len >= MATCH_MIN_LEN /\ effort.nice_len <= MATCH_MAX_LEN
<1>1. effort \in Effort /\ effort.nice_len \in MATCH_MIN_LEN .. MATCH_MAX_LEN
  BY LimitsAssumption
<1> QED
  BY <1>1, Limits DEF Effort

\* What repeats as a whole repeats from its start.
LEMMA Repeated ==
    ASSUME data \in Inputs, NEW p \in Nat, NEW dist \in Nat, NEW l \in Nat,
           Repeats(data, p, dist, l), NEW k \in 0 .. l
    PROVE  Repeats(data, p, dist, k)
<1>1. Len(data) \in Nat
  BY InputType
<1>2. dist <= p /\ p + l <= Len(data) /\ \A i \in 1 .. l : data[p + i] = data[p - dist + i]
  BY DEF Repeats
<1>3. p + k <= Len(data) /\ \A i \in 1 .. k : i \in 1 .. l
  BY <1>1, <1>2
<1> QED
  BY <1>2, <1>3 DEF Repeats

LEMMA SmallerIs ==
    ASSUME NEW a \in Int, NEW b \in Int
    PROVE  /\ Smaller(a, b) \in Int /\ Smaller(a, b) <= a /\ Smaller(a, b) <= b
           /\ Smaller(a, b) = a \/ Smaller(a, b) = b
  BY DEF Smaller

\* len_at finds how far the bytes agree.
LEMMA LenAtIs ==
    ASSUME data \in Inputs, NEW p \in 0 .. N, NEW dist \in Nat, NEW limit \in Nat
    PROVE  /\ LenAt(p, dist, limit) \in Nat
           /\ LenAt(p, dist, limit) <= limit /\ p + LenAt(p, dist, limit) <= N
           /\ LenAt(p, dist, limit) > 0 => Repeats(data, p, dist, LenAt(p, dist, limit))
           /\ \A l \in 1 .. limit :
                Repeats(data, p, dist, l) => l <= LenAt(p, dist, limit)
<1> DEFINE max == Smaller(limit, N - p)
           Longest0(l) == Repeats(data, p, dist, l) /\ (l < max => ~Repeats(data, p, dist, l + 1))
<1>1. N \in Nat /\ N = Len(data) /\ p \in Nat /\ p <= N
  BY InputType
<1>2. max \in Nat /\ max <= limit /\ p + max <= N /\ (max = limit \/ max = N - p)
  <2>1. PICK b \in Int : b = N - p /\ b >= 0 /\ p + b = N
    <3>1. PICK n \in Nat : n = N
      BY <1>1
    <3>2. n - p \in Int /\ n - p >= 0 /\ p + (n - p) = n
      BY <3>1, <1>1
    <3> QED
      BY <3>1, <3>2
  <2>2. /\ Smaller(limit, b) \in Int /\ Smaller(limit, b) <= limit /\ Smaller(limit, b) <= b
        /\ Smaller(limit, b) = limit \/ Smaller(limit, b) = b
    BY <2>1 DEF Smaller
  <2>3. max = Smaller(limit, b)
    BY <2>1
  <2> HIDE DEF max
  <2> QED
    BY <2>1, <2>2, <2>3, <1>1
<1>3. CASE dist > p
  <2>1. LenAt(p, dist, limit) = 0
    BY <1>3 DEF LenAt
  <2>2. \A l \in 1 .. limit : ~Repeats(data, p, dist, l)
    BY <1>3, <1>1 DEF Repeats
  <2> QED
    BY <2>1, <2>2, <1>1
<1>4. CASE ~(dist > p)
  <2> DEFINE S == {l \in 0 .. max : l = max \/ ~Repeats(data, p, dist, l + 1)}
  <2> HIDE DEF max
  <2>1. S \in SUBSET Nat /\ max \in S
    BY <1>2
  <2>2. PICK l \in S : \A k \in S : l <= k
    BY <2>1, LeastNat
  <2>3. l \in 0 .. max
    BY <2>2
  <2>4. Repeats(data, p, dist, l)
    <3>1. CASE l = 0
      BY <3>1, <1>1, <1>4 DEF Repeats
    <3>2. CASE l # 0
      <4>1. l - 1 \in 0 .. max /\ l - 1 < l /\ l - 1 # max /\ (l - 1) + 1 = l
        BY <3>2, <2>3, <1>2
      <4>2. l - 1 \notin S
        BY <4>1, <2>2, <2>3
      <4> QED
        BY <4>1, <4>2
    <3> QED
      BY <3>1, <3>2
  <2>5. Longest0(l)
    BY <2>2, <2>3, <2>4
  <2> DEFINE len == LenAt(p, dist, limit)
  <2>6. len = CHOOSE k \in 0 .. max : Longest0(k)
    BY <1>4 DEF LenAt, max
  <2> HIDE DEF Longest0
  <2>7. len \in 0 .. max /\ Longest0(len)
    BY <2>3, <2>5, <2>6
  <2> HIDE DEF len
  <2>8. len \in Nat /\ len <= max
    BY <2>7, <1>2
  <2>9. ASSUME NEW k \in 1 .. limit, Repeats(data, p, dist, k) PROVE k <= len
    <3> SUFFICES ASSUME len + 1 <= k PROVE FALSE
      BY <2>8
    <3>1. p + k <= N
      BY <2>9, <1>1 DEF Repeats
    <3>2. len < max
      BY <3>1, <1>1, <1>2, <2>8
    <3>3. Repeats(data, p, dist, len + 1)
      BY <2>8, <2>9, <1>1, Repeated
    <3> QED
      BY <3>2, <3>3, <2>7 DEF Longest0
  <2>10. Repeats(data, p, dist, len)
    BY <2>7 DEF Longest0
  <2> QED
    BY <2>8, <2>9, <2>10, <1>1, <1>2 DEF len
<1> QED
  BY <1>3, <1>4

\* The first of the longest of four.
LEMMA LongestIs ==
    ASSUME NEW lens \in [0 .. 3 -> Nat]
    PROVE  /\ Longest(lens) \in 0 .. 3
           /\ \A j \in 0 .. 3 : lens[j] <= lens[Longest(lens)]
<1> DEFINE First(i) == \A j \in 0 .. 3 : lens[j] <= lens[i] /\ (j < i => lens[j] < lens[i])
           S == {i \in 0 .. 3 : \A j \in 0 .. 3 : lens[j] <= lens[i]}
<1>1. lens[0] \in Nat /\ lens[1] \in Nat /\ lens[2] \in Nat /\ lens[3] \in Nat
  OBVIOUS
<1>2. \E i \in {0, 1, 2, 3} : \A j \in {0, 1, 2, 3} : lens[j] <= lens[i]
  BY <1>1
<1>3. 0 .. 3 = {0, 1, 2, 3}
  OBVIOUS
<1>4. PICK n \in S : TRUE
  BY <1>2, <1>3
<1>5. PICK i \in S : \A j \in S : i <= j
  <2>1. S \in SUBSET Nat
    OBVIOUS
  <2> QED
    BY <2>1, <1>4, LeastNat
<1>6. First(i)
  <2> SUFFICES ASSUME NEW j \in 0 .. 3, j < i PROVE lens[j] < lens[i]
    BY <1>5
  <2>1. j \notin S
    BY <1>5
  <2>2. PICK k \in 0 .. 3 : ~(lens[k] <= lens[j])
    BY <2>1
  <2>3. lens[k] <= lens[i] /\ lens[k] \in Nat /\ lens[j] \in Nat /\ lens[i] \in Nat
    BY <1>5
  <2> QED
    BY <2>2, <2>3
<1>7. Longest(lens) = CHOOSE k \in 0 .. 3 : First(k)
  BY DEF Longest
<1> HIDE DEF First
<1>8. Longest(lens) \in 0 .. 3 /\ First(Longest(lens))
  BY <1>5, <1>6, <1>7
<1> QED
  BY <1>8 DEF First

\* The matches there may be at p.
GoodMatches(p) == {m \in [len : Lens, dist : 1 .. p] : Repeats(data, p, m.dist, m.len)}

\* What find returns is there.
LEMMA MatchesAtType ==
    ASSUME data \in Inputs, effort \in Efforts, NEW p \in 0 .. N - 1
    PROVE  MatchesAt(p) \in Seq(GoodMatches(p))
<1> DEFINE At(d) == [len |-> LenAt(p, d, MATCH_MAX_LEN), dist |-> d]
           candidates == {m \in {At(d) : d \in 1 .. p} : m.len >= MATCH_MIN_LEN}
           Best(m) == LET closer == {c \in candidates : c.dist < m.dist} IN
                      /\ Cardinality(closer) < effort.depth
                      /\ \A c \in closer : c.len < Smaller(m.len, effort.nice_len)
           Taken(d) == At(d) \in candidates /\ Best(At(d))
           Eq(u) == [d \in 0 .. p |-> IF d = 0 THEN <<>>
                                      ELSE IF Taken(d) THEN Append(u[d - 1], At(d))
                                      ELSE u[d - 1]]
           S == Seq(GoodMatches(p))
           Step(u, d) == IF Taken(d) THEN Append(u, At(d)) ELSE u
           step == [x \in S \X (1 .. p) |-> Step(x[1], x[2])]
           upto == CHOOSE u : u = Eq(u)
<1>1. MatchesAt(p) = upto[p]
  BY DEF MatchesAt
<1>2. p \in Nat /\ p \in 0 .. N
  BY InputType
<1>3. ASSUME NEW d \in 1 .. p, At(d) \in candidates PROVE At(d) \in GoodMatches(p)
  <2>1. At(d).len >= MATCH_MIN_LEN /\ At(d).len = LenAt(p, d, MATCH_MAX_LEN) /\ At(d).dist = d
    BY <1>3
  <2>2. PICK l : l = LenAt(p, d, MATCH_MAX_LEN)
    OBVIOUS
  <2>3. l \in Nat /\ l <= MATCH_MAX_LEN /\ (l > 0 => Repeats(data, p, d, l))
    BY <2>2, <1>2, Limits, LenAtIs
  <2>4. l \in Lens /\ Repeats(data, p, d, l)
    BY <2>1, <2>2, <2>3, Limits DEF Lens
  <2>5. At(d) = [len |-> l, dist |-> d]
    BY <2>2
  <2> QED
    BY <2>4, <2>5 DEF GoodMatches
<1> HIDE DEF Best
<1>4. ASSUME NEW u \in S, NEW d \in 1 .. p PROVE Step(u, d) \in S
  <2>1. CASE Taken(d)
    <3>1. At(d) \in GoodMatches(p)
      BY <2>1, <1>3
    <3> HIDE DEF At
    <3> QED
      BY <2>1, <3>1
  <2>2. CASE ~Taken(d)
    BY <2>2
  <2> QED
    BY <2>1, <2>2
<1> HIDE DEF At, candidates, Taken
<1>5. <<>> \in S
  OBVIOUS
<1> HIDE DEF S, Step, Eq, upto
<1>6. StepsIn(step, S, p)
  BY <1>4 DEF StepsIn
<1>7. \A u \in S, d \in 1 .. p : step[<<u, d>>] = Step(u, d)
  OBVIOUS
<1> HIDE DEF step
<1>8. PICK g : Solves(g, S, p, <<>>, step)
  BY <1>2, <1>5, <1>6, Recursion
<1>9. \A d \in 1 .. p : g[d] = Step(g[d - 1], d)
  <2>1. \A d \in 1 .. p : g[d - 1] \in S
    BY <1>2, <1>8 DEF Solves
  <2> QED
    BY <1>7, <1>8, <2>1 DEF Solves
<1>10. g = Eq(g)
  <2>1. \A d \in 0 .. p : g[d] = IF d = 0 THEN <<>> ELSE Step(g[d - 1], d)
    BY <1>2, <1>8, <1>9 DEF Solves
  <2>2. g = [d \in 0 .. p |-> g[d]]
    BY <1>8 DEF Solves
  <2> QED
    BY <2>1, <2>2 DEF Step, Eq
<1>11. upto = Eq(upto)
  BY <1>10 DEF upto
<1>12. upto[0] = <<>> /\ \A d \in 1 .. p : upto[d] = Step(upto[d - 1], d)
  <2>1. \A d \in 0 .. p : upto[d] = IF d = 0 THEN <<>> ELSE Step(upto[d - 1], d)
    BY <1>11 DEF Step, Eq
  <2>2. 0 \in 0 .. p /\ \A d \in 1 .. p : d \in 0 .. p /\ d # 0
    BY <1>2
  <2> QED
    BY <2>1, <2>2
<1>13. upto[p] = g[p]
  <2>1. \A d \in 1 .. p : upto[d - 1] = g[d - 1] => upto[d] = g[d]
    BY <1>9, <1>12
  <2>2. upto[0] = g[0]
    BY <1>8, <1>12 DEF Solves
  <2>3. \A d \in 0 .. p : upto[d] = g[d]
    <3>1. p \in Nat
      BY <1>2
    <3> QED
      BY <2>1, <2>2, <3>1, SameSteps
  <2> QED
    BY <1>2, <2>3
<1> QED
  BY <1>1, <1>2, <1>8, <1>13 DEF S, Solves

-----------------------------------------------------------------------------
(* Coding one operation.                                                   *)

Reps == [1 .. 4 -> Nat]
Places == [pos : Nat, state : States, reps : Reps, price : Nat]

\* Coding can be at c: in the input, and with a match byte if it needs one.
Valid(c) == c \in Places /\ c.pos <= N /\ (IsLiteral(c.state) \/ c.reps[1] < c.pos)

\* Coding op at a says what the input holds there, and leads to b.
CodesOp(a, op, b) ==
    /\ op \in Ops /\ Valid(a) /\ Valid(b)
    /\ Describes(data, a.pos, a.reps, op)
    /\ b = Coded(a, op)

LEMMA OpKinds ==
    ASSUME NEW op \in Ops
    PROVE  /\ op.kind \in {"Literal", "ShortRep", "Rep", "Match"}
           /\ op.len \in Nat /\ op.len >= 1 /\ op.index \in 0 .. 3 /\ op.dist \in Nat
           /\ op.len <= MATCH_MAX_LEN + 1
           /\ op.kind = "Literal" <=> op = Literal
           /\ op.kind \in {"Literal", "ShortRep"} => op.len = 1
           /\ op.kind = "Match" => op.dist >= 1
<1>1. CASE op \in {Literal, ShortRep}
  BY <1>1, Limits DEF Literal, ShortRep, Op
<1>2. CASE \E i \in 0 .. 3, l \in Lens : op = Rep(i, l)
  BY <1>2, LensType, Limits DEF Rep, Op, Literal
<1>3. CASE \E d \in Positions \ {0}, l \in Lens : op = Match(d, l)
  <2>1. PICK d \in Positions \ {0}, l \in Lens : op = Match(d, l)
    BY <1>3
  <2>2. d \in Nat /\ d >= 1
    <3>1. PICK e \in Inputs : d \in 0 .. Len(e) - 1
      BY <2>1 DEF Positions
    <3> QED
      BY <3>1
  <2> QED
    BY <2>1, <2>2, LensType, Limits DEF Match, Op, Literal
<1> QED
  BY <1>1, <1>2, <1>3 DEF Ops

LEMMA StateType ==
    ASSUME NEW s \in States
    PROVE  /\ AfterLiteral(s) \in States /\ IsLiteral(AfterLiteral(s))
           /\ AfterShortRep(s) \in States /\ AfterRep(s) \in States /\ AfterMatch(s) \in States
  BY DEF States, IsLiteral, LIT_STATES, AfterLiteral, AfterShortRep, AfterRep, AfterMatch

LEMMA RepsType ==
    ASSUME NEW r \in Reps
    PROVE  /\ \A i \in 1 .. 4 : r[i] \in Nat
           /\ \A i \in 0 .. 3 : MovedToFront(r, i) \in Reps /\ MovedToFront(r, i)[1] = r[i + 1]
           /\ \A d \in Nat : NewFront(r, d) \in Reps /\ NewFront(r, d)[1] = d
<1>1. \A i \in 1 .. 4 : r[i] \in Nat
  BY DEF Reps
<1>2. \A i \in 0 .. 3 : MovedToFront(r, i) \in Reps /\ MovedToFront(r, i)[1] = r[i + 1]
  BY <1>1 DEF MovedToFront, Reps
<1>3. ASSUME NEW a \in Nat, NEW b \in Nat, NEW c \in Nat, NEW d \in Nat
      PROVE  <<a, b, c, d>> \in Reps /\ <<a, b, c, d>>[1] = a
  BY DEF Reps
<1>4. \A d \in Nat : NewFront(r, d) \in Reps /\ NewFront(r, d)[1] = d
  BY <1>1, <1>3 DEF NewFront
<1> QED
  BY <1>1, <1>2, <1>4

LEMMA PlaceType ==
    ASSUME NEW c, Valid(c)
    PROVE  /\ c \in Places
           /\ c.pos \in Nat /\ c.state \in States /\ c.reps \in Reps /\ c.price \in Nat
           /\ c.pos <= N /\ (IsLiteral(c.state) \/ c.reps[1] < c.pos)
           /\ \A i \in 1 .. 4 : c.reps[i] \in Nat
           /\ c = [pos |-> c.pos, state |-> c.state, reps |-> c.reps, price |-> c.price]
  BY RepsType DEF Valid, Places

\* What an operation does to state and distances, by kind.
LEMMA EmittedIs ==
    ASSUME NEW c, NEW op \in Ops
    PROVE  LET e == Emitted(c, op) IN
           /\ op.kind = "Literal" => e.state = AfterLiteral(c.state) /\ e.reps = c.reps
           /\ op.kind = "ShortRep" => e.state = AfterShortRep(c.state) /\ e.reps = c.reps
           /\ op.kind = "Rep" =>
                e.state = AfterRep(c.state) /\ e.reps = MovedToFront(c.reps, op.index)
           /\ op.kind = "Match" =>
                e.state = AfterMatch(c.state) /\ e.reps = NewFront(c.reps, op.dist - 1)
  BY OpKinds DEF Emitted

\* An operation that describes the input stays inside it, and leaves a distance
\* that reaches into what is coded.
LEMMA DescribesIs ==
    ASSUME data \in Inputs, NEW p \in Nat, NEW r \in Reps, NEW op \in Ops,
           Describes(data, p, r, op)
    PROVE  /\ p < N /\ p + op.len <= N
           /\ op.kind = "ShortRep" => r[1] < p
           /\ op.kind = "Rep" => r[op.index + 1] < p
           /\ op.kind = "Match" => op.dist <= p
<1>1. N \in Nat /\ N = Len(data)
  BY InputType
<1>2. op.len \in Nat /\ op.len >= 1 /\ op.index \in 0 .. 3 /\ op.dist \in Nat
  BY OpKinds
<1>3. r[1] \in Nat /\ r[op.index + 1] \in Nat
  <2>1. PICK i \in 1 .. 4 : i = op.index + 1
    BY <1>2
  <2>2. \A j \in 1 .. 4 : r[j] \in Nat
    BY RepsType
  <2> QED
    BY <2>1, <2>2
<1>4. CASE op.kind = "Literal"
  BY <1>1, <1>4, OpKinds DEF Describes
<1>5. CASE op.kind = "ShortRep"
  <2>1. Repeats(data, p, r[1] + 1, 1) /\ op.len = 1
    BY <1>5, OpKinds DEF Describes
  <2> QED
    BY <1>1, <1>3, <1>5, <2>1 DEF Repeats
<1>6. CASE op.kind = "Rep"
  <2>1. Repeats(data, p, r[op.index + 1] + 1, op.len)
    BY <1>6 DEF Describes
  <2> QED
    BY <1>1, <1>2, <1>3, <1>6, <2>1 DEF Repeats
<1>7. CASE op.kind = "Match"
  <2>1. Repeats(data, p, op.dist, op.len)
    BY <1>7 DEF Describes
  <2> QED
    BY <1>1, <1>2, <1>7, <2>1 DEF Repeats
<1> QED
  BY <1>4, <1>5, <1>6, <1>7, OpKinds

\* Whatever may be coded has a price.
LEMMA CostType ==
    ASSUME data \in Inputs, model \in Models, NEW c, Valid(c), c.pos < N, NEW op \in Ops
    PROVE  Cost(c.state, c.pos, c.reps, op) \in Nat /\ Cost(c.state, c.pos, c.reps, op) <= MaxPrice
<1> DEFINE against == IF op = Literal THEN MatchByte(c.state, c.pos, c.reps) ELSE NoMatchByte
<1>1. /\ c.pos \in Nat /\ c.state \in States /\ c.reps[1] \in Nat
      /\ IsLiteral(c.state) \/ c.reps[1] < c.pos
  BY PlaceType
<1>2. N \in Nat /\ c.pos \in 0 .. N - 1
  BY <1>1, InputType
<1>3. against \in Bytes \cup {NoMatchByte}
  <2>1. ASSUME ~IsLiteral(c.state) PROVE data[c.pos - c.reps[1]] \in Bytes
    <3>1. PICK i \in 1 .. N : i = c.pos - c.reps[1]
      BY <1>1, <1>2, <2>1
    <3> QED
      BY <3>1, InputType
  <2> QED
    BY <2>1 DEF MatchByte
<1>4. c.pos \in Positions
  BY <1>2, InputType
<1> HIDE DEF against
<1>5. Price(model, c.state, c.pos, op, against) \in 0 .. MaxPrice
  BY <1>1, <1>3, <1>4, PriceAssumption
<1>6. Cost(c.state, c.pos, c.reps, op) = Price(model, c.state, c.pos, op, against)
  BY DEF Cost, against
<1> QED
  BY <1>5, <1>6, Limits

\* An operation that describes the input can be coded.
LEMMA CodeOne ==
    ASSUME data \in Inputs, model \in Models, NEW c, Valid(c), NEW op \in Ops,
           Describes(data, c.pos, c.reps, op)
    PROVE  /\ CodesOp(c, op, Coded(c, op))
           /\ Coded(c, op).pos = c.pos + op.len
           /\ Coded(c, op).price = c.price + Cost(c.state, c.pos, c.reps, op)
           /\ Coded(c, op).state = Emitted([state |-> c.state, reps |-> c.reps], op).state
           /\ Coded(c, op).reps = Emitted([state |-> c.state, reps |-> c.reps], op).reps
           /\ Coded(c, op).price <= c.price + MaxPrice
<1> DEFINE at == [state |-> c.state, reps |-> c.reps]
           e == Emitted(at, op)
           b == Coded(c, op)
           cost == Cost(c.state, c.pos, c.reps, op)
<1>1. b = [pos |-> c.pos + op.len, state |-> e.state, reps |-> e.reps, price |-> c.price + cost]
  BY DEF Coded
<1>2. /\ c.pos \in Nat /\ c.state \in States /\ c.reps \in Reps /\ c.price \in Nat
      /\ \A i \in 1 .. 4 : c.reps[i] \in Nat
  BY PlaceType
<1>3. at.state = c.state /\ at.reps = c.reps
  OBVIOUS
<1>4. /\ op.kind \in {"Literal", "ShortRep", "Rep", "Match"}
      /\ op.len \in Nat /\ op.len >= 1 /\ op.index \in 0 .. 3 /\ op.dist \in Nat
      /\ op.kind = "Match" => op.dist >= 1
  BY OpKinds
<1>5. /\ c.pos < N /\ c.pos + op.len <= N /\ N \in Nat
      /\ op.kind = "ShortRep" => c.reps[1] < c.pos
      /\ op.kind = "Rep" => c.reps[op.index + 1] < c.pos
      /\ op.kind = "Match" => op.dist <= c.pos
  BY <1>2, DescribesIs, InputType
<1>6. cost \in Nat /\ cost <= MaxPrice
  BY <1>5, CostType
<1> HIDE DEF at, cost
<1>7. e.state \in States /\ e.reps \in Reps /\ (IsLiteral(e.state) \/ e.reps[1] < c.pos + op.len)
  <2>1. CASE op.kind = "Literal"
    BY <2>1, <1>2, <1>3, EmittedIs, StateType
  <2>2. CASE op.kind = "ShortRep"
    <3>1. e.reps[1] < c.pos + op.len
      <4>1. e.reps = c.reps
        BY <2>2, <1>3, EmittedIs
      <4> QED
        BY <4>1, <2>2, <1>2, <1>4, <1>5
    <3> QED
      BY <3>1, <2>2, <1>2, <1>3, EmittedIs, StateType
  <2>3. CASE op.kind = "Rep"
    <3>1. PICK i \in 0 .. 3 : i = op.index
      BY <1>4
    <3>2. e.reps = MovedToFront(c.reps, i) /\ e.state = AfterRep(c.state)
      BY <3>1, <2>3, <1>3, EmittedIs
    <3>3. MovedToFront(c.reps, i) \in Reps /\ MovedToFront(c.reps, i)[1] = c.reps[i + 1]
      BY <1>2, RepsType
    <3>4. c.reps[i + 1] < c.pos /\ c.reps[i + 1] \in Nat
      BY <3>1, <2>3, <1>2, <1>5
    <3>5. e.reps[1] < c.pos + op.len
      BY <3>2, <3>3, <3>4, <1>2, <1>4
    <3> QED
      BY <3>2, <3>3, <3>5, <1>2, StateType
  <2>4. CASE op.kind = "Match"
    <3>1. PICK d \in Nat : d = op.dist - 1
      BY <2>4, <1>4
    <3>2. e.reps = NewFront(c.reps, d) /\ e.state = AfterMatch(c.state)
      BY <3>1, <2>4, <1>3, EmittedIs
    <3>3. NewFront(c.reps, d) \in Reps /\ NewFront(c.reps, d)[1] = d
      BY <1>2, RepsType
    <3>4. d < c.pos + op.len
      BY <3>1, <2>4, <1>2, <1>4, <1>5
    <3> QED
      BY <3>2, <3>3, <3>4, <1>2, StateType
  <2> QED
    BY <2>1, <2>2, <2>3, <2>4, <1>4
<1> HIDE DEF e
<1>8. b \in Places
  <2>1. c.pos + op.len \in Nat /\ c.price + cost \in Nat
    BY <1>2, <1>4, <1>6
  <2> HIDE DEF b
  <2> QED
    BY <2>1, <1>1, <1>7 DEF Places
<1>9. b.pos = c.pos + op.len /\ b.state = e.state /\ b.reps = e.reps /\ b.price = c.price + cost
  BY <1>1
<1> HIDE DEF b
<1>10. Valid(b)
  BY <1>5, <1>7, <1>8, <1>9 DEF Valid
<1>11. b.price <= c.price + MaxPrice
  BY <1>2, <1>6, <1>9, Limits
<1>12. CodesOp(c, op, Coded(c, op))
  BY <1>10 DEF CodesOp, b
<1> QED
  BY <1>9, <1>11, <1>12 DEF b, e, at, cost

-----------------------------------------------------------------------------
(* Coding a sequence of operations.                                        *)

\* The places C on the way from a to b.
Chain(C, a, ops, b) ==
    /\ C[0] = a /\ C[Len(ops)] = b
    /\ \A k \in 1 .. Len(ops) : CodesOp(C[k - 1], ops[k], C[k])

Codes(a, ops, b) == ops \in Seq(Ops) /\ Valid(a) /\ Valid(b) /\ \E C : Chain(C, a, ops, b)

LEMMA CodesType ==
    ASSUME NEW a, NEW ops, NEW b, Codes(a, ops, b)
    PROVE  ops \in Seq(Ops) /\ Len(ops) \in Nat /\ Valid(a) /\ Valid(b)
  BY DEF Codes

LEMMA CodesNone ==
    ASSUME NEW a, Valid(a)
    PROVE  Codes(a, <<>>, a)
<1>1. <<>> \in Seq(Ops) /\ Len(<<>>) = 0
  BY EmptySeq
<1>2. Chain([k \in 0 .. 0 |-> a], a, <<>>, a)
  BY <1>1 DEF Chain
<1> QED
  BY <1>1, <1>2 DEF Codes

LEMMA CodesSingle ==
    ASSUME NEW a, NEW op, NEW b, CodesOp(a, op, b)
    PROVE  Codes(a, <<op>>, b)
<1>1. <<op>> \in Seq(Ops) /\ Len(<<op>>) = 1 /\ <<op>>[1] = op
  BY DEF CodesOp
<1> DEFINE C == [k \in 0 .. 1 |-> IF k = 0 THEN a ELSE b]
<1>2. C[0] = a /\ C[1] = b
  OBVIOUS
<1> HIDE DEF C
<1>3. Chain(C, a, <<op>>, b)
  BY <1>1, <1>2 DEF Chain
<1> QED
  BY <1>1, <1>3 DEF Codes, CodesOp

LEMMA CodesJoined ==
    ASSUME NEW a, NEW s, NEW b, NEW t, NEW c, Codes(a, s, b), Codes(b, t, c)
    PROVE  Codes(a, s \o t, c)
<1>1. s \in Seq(Ops) /\ t \in Seq(Ops) /\ Valid(a) /\ Valid(c)
  BY DEF Codes
<1>2. PICK C : Chain(C, a, s, b)
  BY DEF Codes
<1>3. PICK D : Chain(D, b, t, c)
  BY DEF Codes
<1>4. PICK m \in Nat, n \in Nat : m = Len(s) /\ n = Len(t)
  BY <1>1
<1>5. /\ s \o t \in Seq(Ops) /\ Len(s \o t) = m + n
      /\ \A k \in 1 .. m + n : (s \o t)[k] = IF k <= m THEN s[k] ELSE t[k - m]
  BY <1>1, <1>4, ConcatProperties
<1> DEFINE E == [k \in 0 .. m + n |-> IF k <= m THEN C[k] ELSE D[k - m]]
           st == s \o t
<1>6. C[0] = a /\ C[m] = b /\ \A k \in 1 .. m : CodesOp(C[k - 1], s[k], C[k])
  BY <1>2, <1>4 DEF Chain
<1>7. D[0] = b /\ D[n] = c /\ \A k \in 1 .. n : CodesOp(D[k - 1], t[k], D[k])
  BY <1>3, <1>4 DEF Chain
<1>8. E[0] = a /\ E[m + n] = c
  <2>1. 0 \in 0 .. m + n /\ m + n \in 0 .. m + n /\ 0 <= m /\ (m + n <= m <=> n = 0) /\ (m + n) - m = n
    OBVIOUS
  <2> QED
    BY <2>1, <1>6, <1>7
<1>9. ASSUME NEW k \in 1 .. m + n PROVE CodesOp(E[k - 1], st[k], E[k])
  <2>1. CASE k <= m
    <3>1. E[k - 1] = C[k - 1] /\ E[k] = C[k] /\ k \in 1 .. m
      BY <2>1
    <3>2. st[k] = s[k]
      BY <1>5, <2>1
    <3> HIDE DEF E, st
    <3> QED
      BY <3>1, <3>2, <1>6
  <2>2. CASE ~(k <= m)
    <3>1. PICK j \in 1 .. n : j = k - m /\ j - 1 = (k - 1) - m
      BY <2>2
    <3>2. E[k] = D[j]
      BY <2>2, <3>1
    <3>3. E[k - 1] = D[j - 1]
      <4>1. CASE k - 1 = m
        <5>1. E[k - 1] = C[m] /\ j - 1 = 0
          BY <3>1, <4>1
        <5> QED
          BY <5>1, <1>6, <1>7
      <4>2. CASE k - 1 # m
        BY <2>2, <3>1, <4>2
      <4> QED
        BY <4>1, <4>2
    <3>4. st[k] = t[j]
      BY <1>5, <2>2, <3>1
    <3> HIDE DEF E, st
    <3> QED
      BY <3>2, <3>3, <3>4, <1>7
  <2> QED
    BY <2>1, <2>2
<1> HIDE DEF E
<1>10. Chain(E, a, st, c)
  <2>1. Len(st) = m + n
    BY <1>5
  <2> HIDE DEF st
  <2> QED
    BY <2>1, <1>8, <1>9 DEF Chain
<1> QED
  BY <1>1, <1>5, <1>10 DEF Codes

\* The first operation of a sequence, and the others.
LEMMA CodesHead ==
    ASSUME NEW a, NEW ops, NEW c, Codes(a, ops, c), ops # <<>>
    PROVE  \E b : CodesOp(a, Head(ops), b) /\ Codes(b, Tail(ops), c)
<1>1. ops \in Seq(Ops) /\ Valid(c)
  BY DEF Codes
<1>2. PICK C : Chain(C, a, ops, c)
  BY DEF Codes
<1>3. PICK n \in Nat : Len(ops) = n + 1
  <2>1. Len(ops) \in Nat /\ Len(ops) # 0
    BY <1>1, EmptySeq
  <2> QED
    BY <2>1
<1>4. /\ Tail(ops) \in Seq(Ops) /\ Len(Tail(ops)) = n /\ Head(ops) = ops[1]
      /\ \A k \in 1 .. n : Tail(ops)[k] = ops[k + 1]
  BY <1>1, <1>3, HeadTailProperties
<1>5. C[0] = a /\ C[n + 1] = c /\ \A k \in 1 .. n + 1 : CodesOp(C[k - 1], ops[k], C[k])
  BY <1>2, <1>3 DEF Chain
<1>6. CodesOp(a, Head(ops), C[1])
  <2>1. 1 \in 1 .. n + 1 /\ 1 - 1 = 0
    OBVIOUS
  <2>2. CodesOp(C[1 - 1], ops[1], C[1])
    BY <2>1, <1>5
  <2> QED
    BY <2>1, <2>2, <1>4, <1>5
<1> DEFINE D == [k \in 0 .. n |-> C[k + 1]]
<1>7. D[0] = C[1] /\ D[n] = c
  BY <1>5
<1>8. ASSUME NEW k \in 1 .. n PROVE CodesOp(D[k - 1], Tail(ops)[k], D[k])
  <2>1. D[k - 1] = C[k] /\ D[k] = C[k + 1]
    OBVIOUS
  <2>2. k + 1 \in 1 .. n + 1 /\ (k + 1) - 1 = k
    OBVIOUS
  <2>3. CodesOp(C[(k + 1) - 1], ops[k + 1], C[k + 1])
    BY <2>2, <1>5
  <2> HIDE DEF D
  <2> QED
    BY <2>1, <2>2, <2>3, <1>4
<1> HIDE DEF D
<1>9. Chain(D, C[1], Tail(ops), c)
  BY <1>4, <1>7, <1>8 DEF Chain
<1>10. Codes(C[1], Tail(ops), c)
  BY <1>1, <1>4, <1>6, <1>9 DEF Codes, CodesOp
<1> QED
  BY <1>6, <1>10

\* Coding goes forward, and costs at most so much per byte.
LEMMA CodesBounds ==
    ASSUME data \in Inputs, model \in Models, NEW a, NEW ops, NEW c, Codes(a, ops, c)
    PROVE  /\ c.pos >= a.pos /\ (ops # <<>> => c.pos > a.pos)
           /\ c.price >= a.price /\ c.price <= a.price + MaxPrice * (c.pos - a.pos)
<1>1. ops \in Seq(Ops) /\ Valid(a) /\ Valid(c)
  BY DEF Codes
<1>2. PICK C : Chain(C, a, ops, c)
  BY DEF Codes
<1>3. PICK n \in Nat : n = Len(ops) /\ (ops # <<>> => n > 0)
  BY <1>1, EmptySeq
<1>4. C[0] = a /\ C[n] = c /\ \A k \in 1 .. n : CodesOp(C[k - 1], ops[k], C[k])
  BY <1>2, <1>3 DEF Chain
<1>5. a.pos \in Nat /\ a.price \in Nat /\ MaxPrice \in Nat
  BY <1>1, PlaceType, Limits
<1> DEFINE Within(c1) == /\ c1.price >= a.price
                         /\ c1.price <= a.price + MaxPrice * (c1.pos - a.pos)
           T == {k \in Nat : k <= n => /\ C[k].pos >= a.pos + k /\ C[k].pos \in Nat
                                       /\ C[k].price \in Nat /\ Within(C[k])}
<1>6. 0 \in T
  <2>1. a.pos - a.pos = 0 /\ MaxPrice * 0 = 0
    BY <1>5
  <2>2. Within(a)
    BY <2>1, <1>5
  <2> HIDE DEF Within
  <2> QED
    BY <2>2, <1>4, <1>5
<1>7. ASSUME NEW k \in Nat, k \in T PROVE k + 1 \in T
  <2> SUFFICES ASSUME k + 1 <= n
               PROVE  /\ C[k + 1].pos >= a.pos + (k + 1) /\ C[k + 1].pos \in Nat
                      /\ C[k + 1].price \in Nat /\ Within(C[k + 1])
    <3> HIDE DEF Within
    <3> QED
      OBVIOUS
  <2>1. PICK x, y : x = C[k] /\ y = C[k + 1]
    OBVIOUS
  <2>2. PICK op : CodesOp(x, op, y)
    <3>1. k + 1 \in 1 .. n /\ (k + 1) - 1 = k
      OBVIOUS
    <3> QED
      BY <3>1, <2>1, <1>4
  <2>3. x.pos >= a.pos + k /\ x.pos \in Nat /\ x.price \in Nat /\ Within(x)
    <3> HIDE DEF Within
    <3> QED
      BY <2>1, <1>7
  <2>4. op \in Ops /\ Valid(x) /\ Valid(y) /\ Describes(data, x.pos, x.reps, op) /\ y = Coded(x, op)
    BY <2>2 DEF CodesOp
  <2>5. /\ x.pos < N /\ op.len \in Nat /\ op.len >= 1
    BY <2>4, PlaceType, DescribesIs, OpKinds
  <2>6. PICK cost \in Nat : cost = Cost(x.state, x.pos, x.reps, op) /\ cost <= MaxPrice
    BY <2>4, <2>5, CostType
  <2>7. PICK l \in Nat : l = op.len /\ l >= 1
    BY <2>5
  <2>8. y.pos = x.pos + l /\ y.price = x.price + cost
    BY <2>4, <2>6, <2>7, CodeOne
  <2>9. PICK d \in Nat : d = x.pos - a.pos /\ y.pos - a.pos = d + l
    BY <2>3, <2>8, <1>5
  <2>10. MaxPrice * (d + l) >= MaxPrice * d + MaxPrice
    <3>1. MaxPrice * (d + l) = MaxPrice * d + MaxPrice * l
      BY <1>5
    <3>2. MaxPrice * l >= MaxPrice
      BY <1>5, <2>7
    <3>3. MaxPrice * (d + l) \in Nat /\ MaxPrice * d \in Nat /\ MaxPrice * l \in Nat
      BY <1>5
    <3> QED
      BY <3>1, <3>2, <3>3, <1>5
  <2>11. x.price <= a.price + MaxPrice * d /\ x.price >= a.price
    BY <2>3, <2>9
  <2>12. MaxPrice * d \in Nat /\ MaxPrice * (d + l) \in Nat
    BY <1>5
  <2>13. y.price <= a.price + MaxPrice * (d + l) /\ y.price >= a.price
    BY <2>6, <2>8, <2>10, <2>11, <2>12, <2>3, <1>5
  <2>14. Within(y)
    BY <2>9, <2>13
  <2>15. y.pos >= a.pos + (k + 1) /\ y.pos \in Nat /\ y.price \in Nat
    BY <2>3, <2>6, <2>7, <2>8, <1>5
  <2> HIDE DEF Within
  <2> QED
    BY <2>1, <2>14, <2>15
<1>8. Nat \subseteq T
  <2> HIDE DEF T
  <2> QED
    BY <1>6, <1>7, NatSetInduction
<1>9. c.pos >= a.pos + n /\ c.pos \in Nat /\ Within(c)
  <2> HIDE DEF Within
  <2> QED
    BY <1>8, <1>4
<1> QED
  BY <1>3, <1>5, <1>9

\* State and distances of a place.
Coder(c) == [state |-> c.state, reps |-> c.reps]

\* apply mirrors the encoder.
LEMMA ApplyIs ==
    ASSUME NEW c, NEW op \in Ops
    PROVE  /\ Apply(Coder(c), op) = [state |-> Emitted(Coder(c), op).state,
                                     reps  |-> Emitted(Coder(c), op).reps]
           /\ Apply(Coder(c), op) = Coder(Coded(c, op))
<1>1. PICK s, r, at : s = c.state /\ r = c.reps /\ at = [state |-> s, reps |-> r]
  OBVIOUS
<1>2. at = Coder(c)
  BY <1>1 DEF Coder
<1>3. at.state = s /\ at.reps = r
  BY <1>1
<1>4. Apply(at, op) = [state |-> Emitted(at, op).state, reps |-> Emitted(at, op).reps]
  <2>1. CASE op.kind = "Literal"
    <3>1. Apply(at, op) = [state |-> AfterLiteral(s), reps |-> r]
      BY <2>1, <1>1 DEF Apply
    <3> QED
      BY <3>1, <2>1, <1>3, EmittedIs
  <2>2. CASE op.kind = "ShortRep"
    <3>1. Apply(at, op) = [state |-> AfterShortRep(s), reps |-> r]
      BY <2>2, <1>1 DEF Apply
    <3> QED
      BY <3>1, <2>2, <1>3, EmittedIs
  <2>3. CASE op.kind = "Rep"
    <3>1. Apply(at, op) = [state |-> AfterRep(s), reps |-> MovedToFront(r, op.index)]
      BY <2>3, <1>3 DEF Apply
    <3> QED
      BY <3>1, <2>3, <1>3, EmittedIs
  <2>4. CASE op.kind = "Match"
    <3>1. Apply(at, op) = [state |-> AfterMatch(s), reps |-> NewFront(r, op.dist - 1)]
      BY <2>4, <1>3 DEF Apply, Pushed
    <3> QED
      BY <3>1, <2>4, <1>3, EmittedIs
  <2> QED
    BY <2>1, <2>2, <2>3, <2>4, OpKinds
<1>5. Coder(Coded(c, op)) = [state |-> Emitted(at, op).state, reps |-> Emitted(at, op).reps]
  <2>1. at = [state |-> c.state, reps |-> c.reps]
    BY <1>1
  <2>2. Coded(c, op).state = Emitted(at, op).state /\ Coded(c, op).reps = Emitted(at, op).reps
    BY <2>1 DEF Coded
  <2> QED
    BY <2>2 DEF Coder
<1> QED
  BY <1>2, <1>4, <1>5

\* What the parser makes of a sequence of operations is what coding it does.
LEMMA AppliedIs ==
    ASSUME NEW a, NEW ops, NEW b, Codes(a, ops, b)
    PROVE  Applied(Coder(a), ops) = Coder(b)
<1>1. PICK C : Chain(C, a, ops, b)
  BY DEF Codes
<1>2. PICK n \in Nat : n = Len(ops)
  BY CodesType
<1>3. C[0] = a /\ C[n] = b /\ \A k \in 1 .. n : CodesOp(C[k - 1], ops[k], C[k])
  BY <1>1, <1>2 DEF Chain
<1> DEFINE Eq(f) == [k \in 0 .. n |-> IF k = 0 THEN Coder(a) ELSE Apply(f[k - 1], ops[k])]
           g == [k \in 0 .. n |-> Coder(C[k])]
           after == CHOOSE f : f = Eq(f)
<1>4. Applied(Coder(a), ops) = after[n]
  BY <1>2 DEF Applied
<1>5. \A k \in 0 .. n : g[k] = Coder(C[k])
  OBVIOUS
<1>6. ASSUME NEW k \in 1 .. n PROVE g[k] = Apply(g[k - 1], ops[k])
  <2>1. ops[k] \in Ops /\ C[k] = Coded(C[k - 1], ops[k])
    BY <1>3 DEF CodesOp
  <2>2. g[k] = Coder(C[k]) /\ g[k - 1] = Coder(C[k - 1])
    BY <1>5
  <2> HIDE DEF g
  <2> QED
    BY <2>1, <2>2, ApplyIs
<1>7. g = Eq(g)
  <2>1. \A k \in 0 .. n : g[k] = IF k = 0 THEN Coder(a) ELSE Apply(g[k - 1], ops[k])
    <3>1. g[0] = Coder(a)
      BY <1>3
    <3> HIDE DEF g
    <3> QED
      BY <3>1, <1>6
  <2>2. g = [k \in 0 .. n |-> g[k]]
    OBVIOUS
  <2> HIDE DEF g
  <2> QED
    BY <2>1, <2>2
<1> HIDE DEF Eq
<1>8. after = Eq(after)
  BY <1>7
<1> HIDE DEF after, g
<1>9. /\ after[0] = g[0]
      /\ \A k \in 1 .. n : after[k - 1] = g[k - 1] => after[k] = g[k]
  <2>1. \A k \in 0 .. n : after[k] = IF k = 0 THEN Coder(a) ELSE Apply(after[k - 1], ops[k])
    BY <1>8 DEF Eq
  <2>2. \A k \in 0 .. n : g[k] = IF k = 0 THEN Coder(a) ELSE Apply(g[k - 1], ops[k])
    BY <1>7 DEF Eq
  <2> QED
    BY <2>1, <2>2
<1>10. \A k \in 0 .. n : after[k] = g[k]
  BY <1>9, SameSteps
<1> QED
  BY <1>3, <1>4, <1>5, <1>10

\* Coding all of a sequence ends where coding its operations does.
LEMMA CodedAllIs ==
    ASSUME NEW a, NEW ops, NEW b, Codes(a, ops, b)
    PROVE  CodedAll(a, ops) = b
<1>1. PICK C : Chain(C, a, ops, b)
  BY DEF Codes
<1>2. PICK n \in Nat : n = Len(ops)
  BY CodesType
<1>3. C[0] = a /\ C[n] = b /\ \A k \in 1 .. n : CodesOp(C[k - 1], ops[k], C[k])
  BY <1>1, <1>2 DEF Chain
<1> DEFINE Eq(f) == [k \in 0 .. n |-> IF k = 0 THEN a ELSE Coded(f[k - 1], ops[k])]
           g == [k \in 0 .. n |-> C[k]]
           after == CHOOSE f : f = Eq(f)
<1>4. CodedAll(a, ops) = after[n]
  BY <1>2 DEF CodedAll
<1>5. \A k \in 0 .. n : g[k] = C[k]
  OBVIOUS
<1>6. \A k \in 1 .. n : g[k] = Coded(g[k - 1], ops[k])
  <2>1. \A k \in 1 .. n : C[k] = Coded(C[k - 1], ops[k])
    BY <1>3 DEF CodesOp
  <2>2. \A k \in 1 .. n : k \in 0 .. n /\ k - 1 \in 0 .. n
    OBVIOUS
  <2> HIDE DEF g
  <2> QED
    BY <2>1, <2>2, <1>5
<1>7. g = Eq(g)
  <2>1. \A k \in 0 .. n : g[k] = IF k = 0 THEN a ELSE Coded(g[k - 1], ops[k])
    <3>1. g[0] = a
      BY <1>3
    <3> HIDE DEF g
    <3> QED
      BY <3>1, <1>6
  <2>2. g = [k \in 0 .. n |-> g[k]]
    OBVIOUS
  <2> HIDE DEF g
  <2> QED
    BY <2>1, <2>2
<1> HIDE DEF Eq
<1>8. after = Eq(after)
  BY <1>7
<1> HIDE DEF after, g
<1>9. /\ after[0] = g[0]
      /\ \A k \in 1 .. n : after[k - 1] = g[k - 1] => after[k] = g[k]
  <2>1. \A k \in 0 .. n : after[k] = IF k = 0 THEN a ELSE Coded(after[k - 1], ops[k])
    BY <1>8 DEF Eq
  <2>2. \A k \in 0 .. n : g[k] = IF k = 0 THEN a ELSE Coded(g[k - 1], ops[k])
    BY <1>7 DEF Eq
  <2> QED
    BY <2>1, <2>2
<1>10. \A k \in 0 .. n : after[k] = g[k]
  BY <1>9, SameSteps
<1> QED
  BY <1>3, <1>4, <1>5, <1>10

-----------------------------------------------------------------------------
(* The edges of the stretch.                                               *)

PlaceAt(n, p) == [pos |-> p, state |-> n.state, reps |-> n.reps, price |-> n.price]

\* Coding ops at c reaches the end of an edge of that length, at that price.
Arrives(c, e) == \E b : Codes(c, e.ops, b) /\ b.pos = c.pos + e.to /\ b.price = e.price

GoodEdges(c) ==
    {e \in [to : Nat, price : Nat, ops : Seq(Ops)] :
        e.to >= 1 /\ e.to <= 2 * MATCH_MAX_LEN + 1 /\ Arrives(c, e)}

LEMMA GoodEdge ==
    ASSUME NEW c, Valid(c), NEW ops, NEW b, Codes(c, ops, b), NEW to \in Nat,
           b.pos = c.pos + to, to >= 1, to <= 2 * MATCH_MAX_LEN + 1
    PROVE  Edge(to, b.price, ops) \in GoodEdges(c)
<1> DEFINE e == Edge(to, b.price, ops)
<1>1. e = [to |-> to, price |-> b.price, ops |-> ops]
  BY DEF Edge
<1>2. e.to = to /\ e.price = b.price /\ e.ops = ops
  BY <1>1
<1>3. b.price \in Nat /\ ops \in Seq(Ops)
  BY CodesType, PlaceType
<1>4. e \in [to : Nat, price : Nat, ops : Seq(Ops)]
  BY <1>1, <1>3
<1> HIDE DEF e
<1>5. Arrives(c, e)
  BY <1>2 DEF Arrives
<1> QED
  BY <1>2, <1>4, <1>5 DEF GoodEdges, e

\* Where edges may be drawn: at a node, before the end of the input.
CanExpand(n, p) ==
    /\ data \in Inputs /\ effort \in Efforts /\ model \in Models
    /\ Valid(PlaceAt(n, p)) /\ p < N

LEMMA NodeType ==
    ASSUME NEW n, NEW p, CanExpand(n, p)
    PROVE  /\ p \in Nat /\ p \in 0 .. N - 1 /\ N \in Nat /\ N = Len(data)
           /\ n.state \in States /\ n.reps \in Reps /\ n.price \in Nat
           /\ \A i \in 1 .. 4 : n.reps[i] \in Nat
           /\ PlaceAt(n, p).pos = p /\ PlaceAt(n, p).state = n.state
           /\ PlaceAt(n, p).reps = n.reps /\ PlaceAt(n, p).price = n.price
           /\ Coder(PlaceAt(n, p)) = [state |-> n.state, reps |-> n.reps]
<1>1. /\ PlaceAt(n, p).pos = p /\ PlaceAt(n, p).state = n.state
      /\ PlaceAt(n, p).reps = n.reps /\ PlaceAt(n, p).price = n.price
  BY DEF PlaceAt
<1>2. N \in Nat /\ N = Len(data)
  BY InputType DEF CanExpand
<1>3. p \in Nat /\ n.state \in States /\ n.reps \in Reps /\ n.price \in Nat
  BY <1>1, PlaceType DEF CanExpand
<1>4. p \in 0 .. N - 1
  BY <1>2, <1>3 DEF CanExpand
<1> QED
  BY <1>1, <1>2, <1>3, <1>4, RepsType DEF Coder

\* One operation.
LEMMA OneIs ==
    ASSUME NEW n, NEW p, CanExpand(n, p), NEW op \in Ops, Describes(data, p, n.reps, op)
    PROVE  /\ One(n, p, op) \in GoodEdges(PlaceAt(n, p))
           /\ CodesOp(PlaceAt(n, p), op, Coded(PlaceAt(n, p), op))
           /\ Coded(PlaceAt(n, p), op).pos = p + op.len
           /\ Coded(PlaceAt(n, p), op).price = One(n, p, op).price
           /\ One(n, p, op).to = op.len /\ One(n, p, op).ops = <<op>>
           /\ One(n, p, op).price = n.price + Cost(n.state, p, n.reps, op)
<1> DEFINE c == PlaceAt(n, p)
           b == Coded(c, op)
<1>1. data \in Inputs /\ model \in Models /\ Valid(c)
  BY DEF CanExpand
<1>2. c.pos = p /\ c.state = n.state /\ c.reps = n.reps /\ c.price = n.price
  BY NodeType
<1> HIDE DEF c
<1>3. /\ CodesOp(c, op, b) /\ b.pos = c.pos + op.len
      /\ b.price = c.price + Cost(c.state, c.pos, c.reps, op)
  BY <1>1, <1>2, CodeOne
<1> HIDE DEF b
<1>4. One(n, p, op) = Edge(op.len, b.price, <<op>>)
  BY <1>2, <1>3 DEF One
<1>5. Codes(c, <<op>>, b)
  BY <1>3, CodesSingle
<1>6. op.len \in Nat /\ op.len >= 1 /\ op.len <= 2 * MATCH_MAX_LEN + 1
  BY OpKinds, Limits
<1>7. Edge(op.len, b.price, <<op>>) \in GoodEdges(c)
  BY <1>1, <1>3, <1>5, <1>6, GoodEdge
<1>8. One(n, p, op).to = op.len /\ One(n, p, op).ops = <<op>> /\ One(n, p, op).price = b.price
  BY <1>4 DEF Edge
<1> QED
  BY <1>2, <1>3, <1>4, <1>7, <1>8 DEF b, c

LEMMA SomeOps ==
    /\ Literal \in Ops /\ ShortRep \in Ops
    /\ \A i \in 0 .. 3, l \in Lens : Rep(i, l) \in Ops
    /\ \A d \in Positions \ {0}, l \in Lens : Match(d, l) \in Ops
    /\ Literal.kind = "Literal" /\ Literal.len = 1 /\ ShortRep.kind = "ShortRep"
    /\ ShortRep.len = 1 /\ Literal # ShortRep
    /\ \A i, l : /\ Rep(i, l).kind = "Rep" /\ Rep(i, l).index = i /\ Rep(i, l).len = l
                 /\ Rep(i, l) # Literal
    /\ \A d, l : /\ Match(d, l).kind = "Match" /\ Match(d, l).dist = d /\ Match(d, l).len = l
                 /\ Match(d, l) # Literal
<1>1. /\ Literal \in Ops /\ ShortRep \in Ops
      /\ \A i \in 0 .. 3, l \in Lens : Rep(i, l) \in Ops
      /\ \A d \in Positions \ {0}, l \in Lens : Match(d, l) \in Ops
  BY DEF Ops
<1>2. /\ Literal.kind = "Literal" /\ Literal.len = 1 /\ ShortRep.kind = "ShortRep"
      /\ ShortRep.len = 1
  BY DEF Literal, ShortRep, Op
<1>3. \A i, l : Rep(i, l).kind = "Rep" /\ Rep(i, l).index = i /\ Rep(i, l).len = l
  BY DEF Rep, Op
<1>4. \A d, l : Match(d, l).kind = "Match" /\ Match(d, l).dist = d /\ Match(d, l).len = l
  BY DEF Match, Op
<1>5. "Literal" # "ShortRep" /\ "Literal" # "Rep" /\ "Literal" # "Match"
  OBVIOUS
<1>6. /\ Literal # ShortRep
      /\ \A i, l : Rep(i, l) # Literal
      /\ \A d, l : Match(d, l) # Literal
  BY <1>2, <1>3, <1>4, <1>5
<1> QED
  BY <1>1, <1>2, <1>3, <1>4, <1>6

LEMMA PairJoined ==
    ASSUME NEW x, NEW y
    PROVE  <<x>> \o <<y>> = <<x, y>>
<1> DEFINE S == {x, y}
<1>1. <<x>> \in Seq(S) /\ <<y>> \in Seq(S) /\ <<x, y>> \in Seq(S)
      /\ Len(<<x>>) = 1 /\ Len(<<y>>) = 1 /\ Len(<<x, y>>) = 2
  OBVIOUS
<1>2. PICK a \in Seq(S), b \in Seq(S), c \in Seq(S) : a = <<x>> /\ b = <<y>> /\ c = <<x, y>>
  BY <1>1
<1>3. a[1] = x /\ b[1] = y /\ c[1] = x /\ c[2] = y /\ Len(a) = 1 /\ Len(b) = 1 /\ Len(c) = 2
  BY <1>1, <1>2
<1> HIDE DEF S
<1>4. a \o b \in Seq(S) /\ Len(a \o b) = 2 /\ (a \o b)[1] = x /\ (a \o b)[2] = y
  BY <1>3, ConcatProperties
<1>5. a \o b = c
  BY <1>3, <1>4, SeqEqual
<1> QED
  BY <1>2, <1>5

\* A literal and rep0 after what leads to b.
LEMMA LitRep0Is ==
    ASSUME NEW n, NEW p, CanExpand(n, p), NEW first, NEW b, Codes(PlaceAt(n, p), first, b),
           b.pos = p + (IF first = <<>> THEN 0 ELSE first[1].len), b.pos <= p + MATCH_MAX_LEN
    PROVE  LitRep0(n, p, b.price, first) \in Seq(GoodEdges(PlaceAt(n, p)))
<1> DEFINE c == PlaceAt(n, p)
           after == Applied([state |-> n.state, reps |-> n.reps], first)
           at == p + (IF first = <<>> THEN 0 ELSE first[1].len)
           rep0 == after.reps[1] + 1
           len == LenAt(at + 1, rep0, MATCH_MAX_LEN)
           rep == Rep(0, len)
           e == Edge(at - p + 1 + len,
                     b.price + Cost(after.state, at, after.reps, Literal)
                       + Cost(Rep0State(after.state), at + 1, after.reps, rep),
                     first \o <<Literal, rep>>)
           No == \/ at + 1 + MATCH_MIN_LEN > N \/ rep0 > at
                 \/ data[at + 1] = data[at + 1 - rep0]
                 \/ len < MATCH_MIN_LEN
<1>1. LitRep0(n, p, b.price, first) = IF No THEN <<>> ELSE <<e>>
  BY DEF LitRep0
<1>2. CASE No
  <2>1. LitRep0(n, p, b.price, first) = <<>>
    BY <1>1, <1>2
  <2> QED
    BY <2>1, EmptySeq
<1>3. CASE ~No
  <2>1. data \in Inputs /\ model \in Models /\ Valid(c) /\ Valid(b)
    BY CodesType DEF CanExpand
  <2>2. c.pos = p /\ c.price = n.price /\ p \in Nat /\ N \in Nat /\ N = Len(data)
    BY NodeType
  <2>3. after = Coder(b)
    BY NodeType, AppliedIs
  <2>4. after.state = b.state /\ after.reps = b.reps
    BY <2>3 DEF Coder
  <2>5. /\ b.pos \in Nat /\ b.state \in States /\ b.reps \in Reps /\ b.price \in Nat
        /\ b.reps[1] \in Nat
    BY <2>1, PlaceType
  <2>6. PICK q \in Nat : q = b.pos /\ q = at /\ q <= p + MATCH_MAX_LEN
    BY <2>5
  <2>7. b.pos >= c.pos
    BY <2>1, CodesBounds
  <2> HIDE DEF after, at, c
  <2>8. PICK r \in Nat : r = rep0 /\ r = b.reps[1] + 1
    BY <2>4, <2>5
  <2>9. len = LenAt(q + 1, r, MATCH_MAX_LEN) /\ q + 1 + MATCH_MIN_LEN <= N /\ r <= q
        /\ ~(len < MATCH_MIN_LEN)
    <3>1. ~(q + 1 + MATCH_MIN_LEN > N) /\ ~(r > q) /\ ~(len < MATCH_MIN_LEN)
      BY <1>3, <2>6, <2>8
    <3>2. len = LenAt(q + 1, r, MATCH_MAX_LEN)
      BY <2>6, <2>8
    <3> HIDE DEF len, rep0
    <3> QED
      BY <3>1, <3>2, <2>2, Limits
  <2>10. PICK l \in Lens : l = len /\ Repeats(data, q + 1, r, l)
    <3>1. PICK k : k = LenAt(q + 1, r, MATCH_MAX_LEN)
      OBVIOUS
    <3>2. q + 1 \in 0 .. N
      BY <2>2, <2>9, Limits
    <3>3. k \in Nat /\ k <= MATCH_MAX_LEN /\ (k > 0 => Repeats(data, q + 1, r, k))
      BY <2>1, <3>1, <3>2, Limits, LenAtIs
    <3>4. k \in Lens /\ k > 0
      BY <2>9, <3>1, <3>3, Limits DEF Lens
    <3> QED
      BY <2>9, <3>1, <3>3, <3>4
  <2> HIDE DEF len, rep0, No
  <2>11. l \in Nat /\ l >= 2 /\ l <= MATCH_MAX_LEN
    BY LensType
  <2>12. PICK b1 : b1 = Coded(b, Literal)
    OBVIOUS
  <2>13. /\ CodesOp(b, Literal, b1) /\ Valid(b1) /\ b1.pos = q + 1
         /\ b1.price = b.price + Cost(after.state, at, after.reps, Literal)
         /\ b1.state = Rep0State(after.state) /\ b1.reps = after.reps
    <3>1. Describes(data, b.pos, b.reps, Literal)
      BY <2>2, <2>6, <2>9, Limits, SomeOps DEF Describes
    <3>2. /\ CodesOp(b, Literal, b1) /\ b1.pos = b.pos + Literal.len
          /\ b1.price = b.price + Cost(b.state, b.pos, b.reps, Literal)
          /\ b1.state = Emitted([state |-> b.state, reps |-> b.reps], Literal).state
          /\ b1.reps = Emitted([state |-> b.state, reps |-> b.reps], Literal).reps
      BY <2>1, <2>12, <3>1, SomeOps, CodeOne
    <3>3. Valid(b1)
      BY <3>2 DEF CodesOp
    <3>4. PICK co : co = [state |-> b.state, reps |-> b.reps]
      OBVIOUS
    <3>5. co.state = b.state /\ co.reps = b.reps
      BY <3>4
    <3>6. Emitted(co, Literal).state = AfterLiteral(b.state) /\ Emitted(co, Literal).reps = b.reps
      BY <3>5, SomeOps, EmittedIs
    <3> QED
      BY <2>4, <2>6, <3>2, <3>3, <3>4, <3>6, SomeOps DEF Rep0State
  <2>14. PICK b2 : b2 = Coded(b1, rep)
    OBVIOUS
  <2>15. rep = Rep(0, l) /\ rep \in Ops /\ rep.len = l /\ rep.kind = "Rep" /\ rep.index = 0
    <3>1. rep = Rep(0, l)
      BY <2>10
    <3> QED
      BY <3>1, SomeOps
  <2> HIDE DEF rep
  <2>16. /\ CodesOp(b1, rep, b2) /\ b2.pos = b1.pos + l
         /\ b2.price = b1.price + Cost(b1.state, b1.pos, b1.reps, rep)
    <3>1. b1.reps[1] + 1 = r
      BY <2>4, <2>8, <2>13
    <3>2. Repeats(data, b1.pos, b1.reps[rep.index + 1] + 1, rep.len)
      BY <2>10, <2>13, <2>15, <3>1
    <3>3. Describes(data, b1.pos, b1.reps, rep)
      BY <2>15, <3>2 DEF Describes
    <3> QED
      BY <2>1, <2>13, <2>14, <2>15, <3>3, CodeOne
  <2>17. Codes(c, first \o <<Literal, rep>>, b2)
    <3>1. Codes(b, <<Literal>>, b1) /\ Codes(b1, <<rep>>, b2)
      BY <2>13, <2>16, CodesSingle
    <3>2. <<Literal>> \o <<rep>> = <<Literal, rep>>
      BY PairJoined
    <3>3. Codes(b, <<Literal, rep>>, b2)
      BY <3>1, <3>2, CodesJoined
    <3> QED
      BY <3>3, CodesJoined DEF c
  <2>18. PICK to \in Nat : to = at - p + 1 + l /\ b2.pos = p + to /\ to >= 1
                           /\ to <= 2 * MATCH_MAX_LEN + 1
    <3>1. PICK d \in Nat : d = q - p /\ d <= MATCH_MAX_LEN /\ q = p + d
      BY <2>2, <2>6, <2>7, Limits
    <3>2. PICK to \in Nat : to = d + 1 + l
      BY <3>1, <2>11
    <3>3. to >= 1 /\ to <= 2 * MATCH_MAX_LEN + 1
      <4>1. d <= MATCH_MAX_LEN /\ l <= MATCH_MAX_LEN /\ to = d + 1 + l /\ l \in Nat
        BY <3>1, <3>2, <2>11
      <4> QED
        BY <4>1, Limits
    <3>4. to = at - p + 1 + l
      BY <3>1, <3>2, <2>6
    <3>5. b2.pos = q + 1 + l
      BY <2>13, <2>16
    <3>6. q + 1 + l = p + to
      <4>1. p \in Nat /\ q = p + d /\ to = d + 1 + l /\ l \in Nat
        BY <3>1, <3>2, <2>2, <2>11
      <4> QED
        BY <4>1
    <3> QED
      BY <3>3, <3>4, <3>5, <3>6
  <2>19. e = Edge(to, b2.price, first \o <<Literal, rep>>)
    <3>1. b1.pos = at + 1
      BY <2>6, <2>13
    <3>2. Cost(b1.state, b1.pos, b1.reps, rep) = Cost(Rep0State(after.state), at + 1, after.reps, rep)
      BY <3>1, <2>13
    <3>3. b2.price = b.price + Cost(after.state, at, after.reps, Literal)
                       + Cost(Rep0State(after.state), at + 1, after.reps, rep)
      BY <3>2, <2>13, <2>16
    <3> QED
      BY <2>10, <2>18, <3>3
  <2> HIDE DEF e
  <2>20. e \in GoodEdges(c)
    BY <2>1, <2>2, <2>17, <2>18, <2>19, GoodEdge
  <2>21. LitRep0(n, p, b.price, first) = <<e>>
    BY <1>1, <1>3
  <2> QED
    BY <2>20, <2>21 DEF c
<1> QED
  BY <1>2, <1>3

\* x is somewhere in s.
Has(s, x) == \E j \in 1 .. Len(s) : s[j] = x

LEMMA HasJoined ==
    ASSUME NEW S, NEW a \in Seq(S), NEW b \in Seq(S), NEW x, Has(a, x) \/ Has(b, x)
    PROVE  a \o b \in Seq(S) /\ Has(a \o b, x)
<1>1. PICK m \in Nat, n \in Nat : m = Len(a) /\ n = Len(b)
  OBVIOUS
<1>2. /\ a \o b \in Seq(S) /\ Len(a \o b) = m + n
      /\ \A j \in 1 .. m + n : (a \o b)[j] = IF j <= m THEN a[j] ELSE b[j - m]
  BY <1>1, ConcatProperties
<1>3. CASE Has(a, x)
  <2>1. PICK j \in 1 .. m : a[j] = x
    BY <1>1, <1>3 DEF Has
  <2>2. j \in 1 .. m + n /\ (a \o b)[j] = x
    BY <1>2, <2>1
  <2> QED
    BY <1>2, <2>2 DEF Has
<1>4. CASE Has(b, x)
  <2>1. PICK j \in 1 .. n : b[j] = x
    BY <1>1, <1>4 DEF Has
  <2>2. PICK k \in 1 .. m + n : k = m + j /\ ~(k <= m) /\ k - m = j
    <3>1. m + j \in 1 .. m + n /\ ~(m + j <= m) /\ (m + j) - m = j
      OBVIOUS
    <3> QED
      BY <3>1
  <2>3. (a \o b)[k] = x
    BY <1>2, <2>1, <2>2
  <2> QED
    BY <1>2, <2>3 DEF Has
<1> QED
  BY <1>3, <1>4

LEMMA HasFlattened ==
    ASSUME NEW S, NEW ss \in Seq(Seq(S)), NEW i \in 1 .. Len(ss), NEW x, Has(ss[i], x)
    PROVE  Has(FlattenSeq(ss), x)
<1>1. PICK k \in 1 .. Len(ss[i]) : ss[i][k] = x
  BY DEF Has
<1>2. \E j \in 1 .. Len(FlattenSeq(ss)) : FlattenSeq(ss)[j] = ss[i][k]
  BY FlattenContains
<1> QED
  BY <1>1, <1>2 DEF Has

\* Each length of a distance, and what follows the longest.
LEMMA LengthsIs ==
    ASSUME NEW n, NEW p, CanExpand(n, p), NEW ops \in Seq(Ops),
           \A k \in 1 .. Len(ops) :
              Describes(data, p, n.reps, ops[k]) /\ ops[k].len <= MATCH_MAX_LEN
    PROVE  /\ Lengths(n, p, ops) \in Seq(GoodEdges(PlaceAt(n, p)))
           /\ \A k \in 1 .. Len(ops) : Has(Lengths(n, p, ops), One(n, p, ops[k]))
<1> DEFINE c == PlaceAt(n, p)
           G == GoodEdges(c)
           longest == One(n, p, Last(ops))
           ones == [k \in DOMAIN ops |-> One(n, p, ops[k])]
           more == LitRep0(n, p, longest.price, longest.ops)
<1>1. PICK m \in Nat : m = Len(ops) /\ DOMAIN ops = 1 .. m /\ (ops = <<>> <=> m = 0)
  <2>1. Len(ops) \in Nat /\ DOMAIN ops = 1 .. Len(ops) /\ (ops = <<>> <=> Len(ops) = 0)
    BY EmptySeq
  <2> QED
    BY <2>1
<1>2. CASE m = 0
  <2>1. Lengths(n, p, ops) = <<>>
    BY <1>1, <1>2 DEF Lengths
  <2>2. 1 .. Len(ops) = {}
    BY <1>1, <1>2
  <2> QED
    BY <2>1, <2>2, EmptySeq
<1>3. CASE m # 0
  <2>1. Lengths(n, p, ops) = ones \o more
    BY <1>1, <1>3 DEF Lengths
  <2>2. \A k \in 1 .. m :
           /\ ops[k] \in Ops /\ Describes(data, p, n.reps, ops[k])
           /\ ops[k].len <= MATCH_MAX_LEN
    BY <1>1
  <2>3. \A k \in 1 .. m : One(n, p, ops[k]) \in G
    BY <2>2, OneIs
  <2> HIDE DEF G
  <2>4. ones \in Seq(G) /\ Len(ones) = m /\ \A k \in 1 .. m : ones[k] = One(n, p, ops[k])
    BY <1>1, <2>3
  <2>5. PICK op \in Ops : /\ op = Last(ops) /\ Describes(data, p, n.reps, op)
                        /\ op.len <= MATCH_MAX_LEN
    <3>1. m \in 1 .. m /\ Last(ops) = ops[m]
      BY <1>1, <1>3 DEF Last
    <3> QED
      BY <3>1, <2>2
  <2>6. PICK b : /\ CodesOp(c, op, b) /\ b.pos = p + op.len /\ b.price = longest.price
                 /\ longest.ops = <<op>>
    BY <2>5, OneIs
  <2>7. more \in Seq(G)
    <3>1. Codes(c, <<op>>, b)
      BY <2>6, CodesSingle
    <3>2. <<op>> # <<>> /\ <<op>>[1] = op
      OBVIOUS
    <3>3. op.len \in Nat /\ op.len <= MATCH_MAX_LEN /\ p \in Nat
      BY <2>5, OpKinds, NodeType
    <3>4. b.pos <= p + MATCH_MAX_LEN
      BY <2>6, <3>3, Limits
    <3>5. LitRep0(n, p, b.price, <<op>>) \in Seq(GoodEdges(PlaceAt(n, p)))
      BY <2>6, <3>1, <3>2, <3>4, LitRep0Is
    <3> QED
      BY <2>6, <3>5 DEF G
  <2>8. ASSUME NEW k \in 1 .. m PROVE Has(ones \o more, One(n, p, ops[k]))
    <3>1. Has(ones, One(n, p, ops[k]))
      BY <2>4 DEF Has
    <3> HIDE DEF ones, more
    <3> QED
      BY <2>4, <2>7, <3>1, HasJoined
  <2>9. ones \o more \in Seq(G)
    <3> HIDE DEF ones, more
    <3> QED
      BY <2>4, <2>7, ConcatProperties
  <2> HIDE DEF ones, more
  <2> QED
    BY <1>1, <2>1, <2>8, <2>9 DEF G
<1> QED
  BY <1>2, <1>3

LEMMA AvailIs ==
    ASSUME data \in Inputs, NEW p \in 0 .. N
    PROVE  Avail(p) \in Nat /\ Avail(p) <= MATCH_MAX_LEN /\ p + Avail(p) <= N
<1>1. PICK n \in Nat : n = N
  BY InputType
<1>2. p \in Nat /\ n - p \in Nat /\ p + (n - p) = n
  BY <1>1
<1>3. Avail(p) = Smaller(MATCH_MAX_LEN, n - p)
  BY <1>1 DEF Avail
<1>4. PICK a : a = Avail(p)
  OBVIOUS
<1>5. a \in Int /\ a <= MATCH_MAX_LEN /\ a <= n - p /\ (a = MATCH_MAX_LEN \/ a = n - p)
  BY <1>2, <1>3, <1>4, Limits, SmallerIs
<1>6. a \in Nat /\ a <= MATCH_MAX_LEN /\ p + a <= n
  BY <1>2, <1>5, Limits
<1> QED
  BY <1>1, <1>4, <1>6

LEMMA RepsEntry ==
    ASSUME NEW r \in Reps, NEW i \in 0 .. 3
    PROVE  r[i + 1] \in Nat /\ r[i + 1] + 1 \in Nat
<1>1. PICK j \in 1 .. 4 : j = i + 1
  OBVIOUS
<1>2. r[j] \in Nat
  BY RepsType
<1>3. r[j] + 1 \in Nat
  BY <1>2
<1> QED
  BY <1>1, <1>2, <1>3

\* How often each recent distance repeats.
LEMMA RepLensIs ==
    ASSUME data \in Inputs, NEW p \in 0 .. N, NEW r \in Reps, NEW limit \in Nat
    PROVE  /\ RepLens(p, r, limit) \in [0 .. 3 -> Nat]
           /\ \A i \in 0 .. 3 :
                /\ RepLens(p, r, limit)[i] <= limit
                /\ p + RepLens(p, r, limit)[i] <= N
                /\ RepLens(p, r, limit)[i] > 0
                     => Repeats(data, p, r[i + 1] + 1, RepLens(p, r, limit)[i])
                /\ \A l \in 1 .. limit :
                     Repeats(data, p, r[i + 1] + 1, l) => l <= RepLens(p, r, limit)[i]
<1>1. ASSUME NEW i \in 0 .. 3
      PROVE  /\ LenAt(p, r[i + 1] + 1, limit) \in Nat
             /\ LenAt(p, r[i + 1] + 1, limit) <= limit
             /\ p + LenAt(p, r[i + 1] + 1, limit) <= N
             /\ LenAt(p, r[i + 1] + 1, limit) > 0
                  => Repeats(data, p, r[i + 1] + 1, LenAt(p, r[i + 1] + 1, limit))
             /\ \A l \in 1 .. limit :
                  Repeats(data, p, r[i + 1] + 1, l) => l <= LenAt(p, r[i + 1] + 1, limit)
  <2>1. PICK j \in 1 .. 4 : j = i + 1
    OBVIOUS
  <2>2. r[j] \in Nat
    BY RepsType
  <2>3. PICK d \in Nat : d = r[j] + 1
    BY <2>2
  <2> QED
    BY <2>1, <2>3, LenAtIs
<1>2. \A i \in 0 .. 3 : RepLens(p, r, limit)[i] = LenAt(p, r[i + 1] + 1, limit)
  BY DEF RepLens
<1>3. RepLens(p, r, limit) \in [0 .. 3 -> Nat]
  BY <1>1 DEF RepLens
<1> QED
  BY <1>1, <1>2, <1>3

\* The numbers from `from` to l, counted from 1.
Spans(m, from, l) ==
    /\ 1 .. l - from + 1 = 1 .. m
    /\ \A k \in 1 .. m : from + k - 1 \in Nat /\ from <= from + k - 1 /\ from + k - 1 <= l
    /\ \A x \in from .. l : \E k \in 1 .. m : from + k - 1 = x

LEMMA SpanIs ==
    ASSUME NEW from \in Nat, NEW l \in Nat
    PROVE  \E m \in Nat : Spans(m, from, l)
<1>1. CASE from <= l
  <2>1. PICK m \in Nat : m = l - from + 1
    BY <1>1
  <2>2. \A k \in 1 .. m : from + k - 1 \in Nat /\ from <= from + k - 1 /\ from + k - 1 <= l
    BY <2>1
  <2>3. ASSUME NEW x \in from .. l PROVE \E k \in 1 .. m : from + k - 1 = x
    <3>1. x - from + 1 \in 1 .. m /\ from + (x - from + 1) - 1 = x
      BY <2>1
    <3> QED
      BY <3>1
  <2> QED
    BY <2>1, <2>2, <2>3 DEF Spans
<1>2. CASE l < from
  <2>1. 1 .. l - from + 1 = 1 .. 0 /\ from .. l = {} /\ 1 .. 0 = {}
    BY <1>2
  <2>2. Spans(0, from, l)
    BY <2>1 DEF Spans
  <2> QED
    BY <2>2
<1> QED
  BY <1>1, <1>2

LEMMA RepEdgesIs ==
    ASSUME NEW n, NEW p, CanExpand(n, p)
    PROVE  /\ RepEdges(n, p) \in Seq(GoodEdges(PlaceAt(n, p)))
           /\ \A i \in 0 .. 3, l \in MATCH_MIN_LEN .. Avail(p) :
                Repeats(data, p, n.reps[i + 1] + 1, l)
                  => Has(RepEdges(n, p), One(n, p, Rep(i, l)))
<1> DEFINE G == GoodEdges(PlaceAt(n, p))
           lens == RepLens(p, n.reps, Avail(p))
           Some(i) == [k \in 1 .. lens[i - 1] - MATCH_MIN_LEN + 1 |->
                         Rep(i - 1, MATCH_MIN_LEN + k - 1)]
           ss == [i \in 1 .. 4 |-> Lengths(n, p, Some(i))]
<1>1. data \in Inputs /\ p \in 0 .. N - 1 /\ N \in Nat /\ n.reps \in Reps
  BY NodeType DEF CanExpand
<1>2. p \in 0 .. N /\ Avail(p) \in Nat /\ Avail(p) <= MATCH_MAX_LEN
  BY <1>1, AvailIs
<1>3. /\ lens \in [0 .. 3 -> Nat]
      /\ \A i \in 0 .. 3 :
           /\ lens[i] <= Avail(p)
           /\ lens[i] > 0 => Repeats(data, p, n.reps[i + 1] + 1, lens[i])
           /\ \A l \in 1 .. Avail(p) : Repeats(data, p, n.reps[i + 1] + 1, l) => l <= lens[i]
  BY <1>1, <1>2, RepLensIs
<1> HIDE DEF lens
<1>4. ASSUME NEW i \in 0 .. 3
      PROVE  /\ Lengths(n, p, Some(i + 1)) \in Seq(G)
             /\ \A l \in MATCH_MIN_LEN .. Avail(p) :
                  Repeats(data, p, n.reps[i + 1] + 1, l)
                    => Has(Lengths(n, p, Some(i + 1)), One(n, p, Rep(i, l)))
  <2>1. PICK l \in Nat : l = lens[i] /\ l <= Avail(p)
    BY <1>3
  <2>2. PICK m \in Nat :
          /\ 1 .. l - MATCH_MIN_LEN + 1 = 1 .. m
          /\ \A k \in 1 .. m : /\ MATCH_MIN_LEN + k - 1 \in Nat
                               /\ MATCH_MIN_LEN <= MATCH_MIN_LEN + k - 1
                               /\ MATCH_MIN_LEN + k - 1 <= l
          /\ \A x \in MATCH_MIN_LEN .. l : \E k \in 1 .. m : MATCH_MIN_LEN + k - 1 = x
    <3>1. PICK m \in Nat : Spans(m, MATCH_MIN_LEN, l)
      BY Limits, SpanIs
    <3> QED
      BY <3>1 DEF Spans
  <2> DEFINE ops == [k \in 1 .. m |-> Rep(i, MATCH_MIN_LEN + k - 1)]
  <2>3. Some(i + 1) = ops
    <3>1. (i + 1) - 1 = i
      OBVIOUS
    <3>2. Some(i + 1) = [k \in 1 .. lens[i] - MATCH_MIN_LEN + 1 |-> Rep(i, MATCH_MIN_LEN + k - 1)]
      BY <3>1
    <3> QED
      BY <3>2, <2>1, <2>2
  <2>4. ASSUME NEW k \in 1 .. m
        PROVE  /\ ops[k] \in Ops /\ Describes(data, p, n.reps, ops[k])
               /\ ops[k].len <= MATCH_MAX_LEN
    <3>1. PICK x \in Nat : x = MATCH_MIN_LEN + k - 1 /\ MATCH_MIN_LEN <= x /\ x <= l
      BY <2>2
    <3>2. ops[k] = Rep(i, x)
      BY <3>1
    <3>3. x \in Lens /\ x <= MATCH_MAX_LEN
      <4>1. x <= MATCH_MAX_LEN
        BY <3>1, <2>1, <1>2, Limits
      <4> QED
        BY <3>1, <4>1, Limits DEF Lens
    <3>4. x \in 0 .. l /\ l > 0
      BY <3>1, Limits
    <3>5. n.reps[i + 1] + 1 \in Nat
      BY <1>1, RepsEntry
    <3>6. Repeats(data, p, n.reps[i + 1] + 1, x)
      BY <1>1, <1>3, <2>1, <3>4, <3>5, Repeated
    <3>7. ops[k].kind = "Rep" /\ ops[k].index = i /\ ops[k].len = x /\ ops[k] \in Ops
      BY <3>2, <3>3, SomeOps
    <3>8. Describes(data, p, n.reps, ops[k])
      BY <3>6, <3>7 DEF Describes
    <3> QED
      BY <3>3, <3>7, <3>8
  <2>5. ops \in Seq(Ops) /\ Len(ops) = m
    <3>1. \A k \in 1 .. m : ops[k] \in Ops
      BY <2>4
    <3> QED
      BY <3>1
  <2> HIDE DEF ops
  <2>6. /\ Lengths(n, p, ops) \in Seq(G)
        /\ \A k \in 1 .. m : Has(Lengths(n, p, ops), One(n, p, ops[k]))
    BY <2>4, <2>5, LengthsIs
  <2>7. ASSUME NEW x \in MATCH_MIN_LEN .. Avail(p), Repeats(data, p, n.reps[i + 1] + 1, x)
        PROVE  Has(Lengths(n, p, ops), One(n, p, Rep(i, x)))
    <3>1. x \in 1 .. Avail(p) /\ x \in Nat /\ MATCH_MIN_LEN <= x
      BY <1>2, Limits
    <3>2. x \in MATCH_MIN_LEN .. l
      BY <3>1, <2>1, <2>7, <1>3
    <3>3. PICK k \in 1 .. m : MATCH_MIN_LEN + k - 1 = x
      BY <3>2, <2>2
    <3>4. ops[k] = Rep(i, x)
      BY <3>3 DEF ops
    <3> QED
      BY <3>4, <2>6
  <2> HIDE DEF Some
  <2> QED
    BY <2>3, <2>6, <2>7
<1>5. ASSUME NEW i \in 1 .. 4
      PROVE  \E j \in 0 .. 3 : j + 1 = i
  <2>1. i - 1 \in 0 .. 3 /\ (i - 1) + 1 = i
    OBVIOUS
  <2> QED
    BY <2>1
<1> HIDE DEF Some, G
<1>6. ss \in Seq(Seq(G)) /\ Len(ss) = 4 /\ \A i \in 0 .. 3 : ss[i + 1] = Lengths(n, p, Some(i + 1))
  <2>1. \A i \in 1 .. 4 : Lengths(n, p, Some(i)) \in Seq(G)
    BY <1>4, <1>5
  <2>2. ss \in [1 .. 4 -> Seq(G)]
    BY <2>1
  <2>3. \A i \in 0 .. 3 : i + 1 \in 1 .. 4
    OBVIOUS
  <2> QED
    BY <2>2, <2>3
<1>7. RepEdges(n, p) = FlattenSeq(ss)
  BY DEF RepEdges, lens, Some
<1> HIDE DEF ss
<1>8. FlattenSeq(ss) \in Seq(G)
  BY <1>6, FlattenType
<1>9. ASSUME NEW i \in 0 .. 3, NEW l \in MATCH_MIN_LEN .. Avail(p),
             Repeats(data, p, n.reps[i + 1] + 1, l)
      PROVE  Has(FlattenSeq(ss), One(n, p, Rep(i, l)))
  <2>1. i + 1 \in 1 .. Len(ss)
    BY <1>6
  <2>2. Has(ss[i + 1], One(n, p, Rep(i, l)))
    BY <1>4, <1>6, <1>9
  <2> QED
    BY <2>1, <2>2, <1>6, HasFlattened
<1> QED
  BY <1>7, <1>8, <1>9 DEF G

\* The matches that were found at p.
Searched(p) == matches = Found(p) /\ Found(p) \in Seq(GoodMatches(p))

LEMMA MatchType ==
    ASSUME data \in Inputs, NEW p \in 0 .. N - 1, NEW m \in GoodMatches(p)
    PROVE  /\ m.len \in Lens /\ m.dist \in Positions \ {0} /\ m.dist \in Nat /\ m.dist >= 1
           /\ Repeats(data, p, m.dist, m.len)
<1>1. m.len \in Lens /\ m.dist \in 1 .. p /\ Repeats(data, p, m.dist, m.len)
  BY DEF GoodMatches
<1>2. PICK n \in Nat, d \in Nat : n = N /\ d = m.dist
  <2>1. N \in Nat /\ p \in Nat
    BY InputType
  <2> QED
    BY <1>1, <2>1
<1>3. d \in 0 .. n - 1 /\ d >= 1
  BY <1>1, <1>2
<1>4. d \in Positions
  BY <1>2, <1>3, InputType
<1> QED
  BY <1>1, <1>2, <1>3, <1>4

LEMMA MatchEdgesIs ==
    ASSUME NEW n, NEW p, CanExpand(n, p), Searched(p)
    PROVE  /\ MatchEdges(n, p) \in Seq(GoodEdges(PlaceAt(n, p)))
           /\ \A l \in MATCH_MIN_LEN .. Avail(p) : \A d \in DistFor(p, l) :
                Has(MatchEdges(n, p), One(n, p, Match(d, l)))
<1> DEFINE G == GoodEdges(PlaceAt(n, p))
           From(i) == IF i = 1 THEN MATCH_MIN_LEN ELSE matches[i - 1].len + 1
           Some(i) == [k \in 1 .. matches[i].len - From(i) + 1 |->
                         Match(matches[i].dist, From(i) + k - 1)]
           ss == [i \in DOMAIN matches |-> Lengths(n, p, Some(i))]
<1>1. data \in Inputs /\ p \in 0 .. N - 1 /\ N \in Nat /\ p \in Nat
  BY NodeType DEF CanExpand
<1>2. PICK m \in Nat : /\ m = Len(matches) /\ DOMAIN matches = 1 .. m
                       /\ \A i \in 1 .. m : matches[i] \in GoodMatches(p)
  <2>1. matches \in Seq(GoodMatches(p))
    BY DEF Searched
  <2> HIDE DEF Searched
  <2> QED
    BY <2>1
<1>3. \A i \in 1 .. m :
         /\ matches[i].len \in Lens /\ matches[i].dist \in Positions \ {0}
         /\ matches[i].dist \in Nat
         /\ Repeats(data, p, matches[i].dist, matches[i].len)
  BY <1>1, <1>2, MatchType
<1>4. ASSUME NEW i \in 1 .. m PROVE From(i) \in Nat /\ From(i) >= MATCH_MIN_LEN
  <2>1. CASE i = 1
    BY <2>1, Limits
  <2>2. CASE i # 1
    <3>1. i - 1 \in 1 .. m
      BY <2>2
    <3>2. matches[i - 1].len \in Nat /\ matches[i - 1].len >= MATCH_MIN_LEN
      BY <3>1, <1>3, LensType
    <3> QED
      BY <2>2, <3>2, Limits
  <2> QED
    BY <2>1, <2>2
<1>5. ASSUME NEW i \in 1 .. m
      PROVE  /\ Lengths(n, p, Some(i)) \in Seq(G)
             /\ \A l \in Nat : l >= From(i) /\ l <= matches[i].len
                  => Has(Lengths(n, p, Some(i)), One(n, p, Match(matches[i].dist, l)))
  <2>1. PICK from \in Nat : from = From(i) /\ from >= MATCH_MIN_LEN
    BY <1>4
  <2>2. PICK len \in Nat : len = matches[i].len /\ len <= MATCH_MAX_LEN
    BY <1>3, LensType
  <2>3. PICK dist \in Positions \ {0} : /\ dist = matches[i].dist /\ dist \in Nat
                                        /\ Repeats(data, p, dist, len)
    BY <2>2, <1>3
  <2> HIDE DEF From
  <2>4. PICK h \in Nat :
          /\ 1 .. len - from + 1 = 1 .. h
          /\ \A k \in 1 .. h : from + k - 1 \in Nat /\ from <= from + k - 1 /\ from + k - 1 <= len
          /\ \A x \in from .. len : \E k \in 1 .. h : from + k - 1 = x
    <3>1. PICK h \in Nat : Spans(h, from, len)
      BY SpanIs
    <3> QED
      BY <3>1 DEF Spans
  <2> DEFINE ops == [k \in 1 .. h |-> Match(dist, from + k - 1)]
  <2>5. Some(i) = ops
    BY <2>1, <2>2, <2>3, <2>4
  <2>6. ASSUME NEW k \in 1 .. h
        PROVE  /\ ops[k] \in Ops /\ Describes(data, p, n.reps, ops[k])
               /\ ops[k].len <= MATCH_MAX_LEN
    <3>1. PICK x \in Nat : x = from + k - 1 /\ from <= x /\ x <= len
      BY <2>4
    <3>2. ops[k] = Match(dist, x)
      BY <3>1
    <3>3. x <= MATCH_MAX_LEN /\ x >= MATCH_MIN_LEN
      BY <3>1, <2>1, <2>2, Limits
    <3>4. x \in Lens /\ x \in 0 .. len
      BY <3>1, <3>3, Limits DEF Lens
    <3>5. Repeats(data, p, dist, x)
      BY <1>1, <2>3, <3>4, Repeated
    <3>6. ops[k].kind = "Match" /\ ops[k].dist = dist /\ ops[k].len = x /\ ops[k] \in Ops
      BY <3>2, <3>4, SomeOps
    <3>7. Describes(data, p, n.reps, ops[k])
      BY <3>5, <3>6 DEF Describes
    <3> QED
      BY <3>3, <3>6, <3>7
  <2>7. ops \in Seq(Ops) /\ Len(ops) = h
    <3>1. \A k \in 1 .. h : ops[k] \in Ops
      BY <2>6
    <3> QED
      BY <3>1
  <2> HIDE DEF ops
  <2>8. /\ Lengths(n, p, ops) \in Seq(G)
        /\ \A k \in 1 .. h : Has(Lengths(n, p, ops), One(n, p, ops[k]))
    BY <2>6, <2>7, LengthsIs
  <2>9. ASSUME NEW l \in Nat, l >= from, l <= len
        PROVE  Has(Lengths(n, p, ops), One(n, p, Match(dist, l)))
    <3>1. PICK k \in 1 .. h : from + k - 1 = l
      BY <2>4, <2>9
    <3>2. ops[k] = Match(dist, l)
      BY <3>1 DEF ops
    <3> QED
      BY <3>2, <2>8
  <2> HIDE DEF Some
  <2> QED
    BY <2>1, <2>2, <2>3, <2>5, <2>8, <2>9
<1> HIDE DEF Some, G
<1>6. ss \in Seq(Seq(G)) /\ Len(ss) = m /\ \A i \in 1 .. m : ss[i] = Lengths(n, p, Some(i))
  <2>1. \A i \in 1 .. m : Lengths(n, p, Some(i)) \in Seq(G)
    BY <1>5
  <2>2. ss \in [1 .. m -> Seq(G)]
    BY <1>2, <2>1
  <2> QED
    BY <1>2, <2>2
<1>7. MatchEdges(n, p) = FlattenSeq(ss)
  BY DEF MatchEdges, Some, From
<1> HIDE DEF ss
<1>8. FlattenSeq(ss) \in Seq(G)
  BY <1>6, FlattenType
<1>9. ASSUME NEW l \in MATCH_MIN_LEN .. Avail(p), NEW d \in DistFor(p, l)
      PROVE  Has(FlattenSeq(ss), One(n, p, Match(d, l)))
  <2>1. Found(p) = matches
    BY DEF Searched
  <2>2. PICK i \in 1 .. m : /\ d = matches[i].dist /\ l <= matches[i].len
                            /\ \A j \in 1 .. i - 1 : l > matches[j].len
    BY <1>2, <2>1 DEF DistFor
  <2>3. l \in Nat /\ l >= MATCH_MIN_LEN
    <3>1. Avail(p) \in Nat
      BY <1>1, AvailIs
    <3> QED
      BY <3>1, Limits
  <2>4. l >= From(i)
    <3>1. CASE i = 1
      BY <3>1, <2>3
    <3>2. CASE i # 1
      <4>1. i - 1 \in 1 .. i - 1 /\ i - 1 \in 1 .. m
        BY <3>2
      <4>2. l > matches[i - 1].len /\ matches[i - 1].len \in Nat
        BY <4>1, <2>2, <1>3, LensType
      <4> QED
        BY <3>2, <4>2, <2>3
    <3> QED
      BY <3>1, <3>2
  <2>5. Has(ss[i], One(n, p, Match(d, l)))
    BY <1>5, <1>6, <2>2, <2>3, <2>4
  <2> QED
    BY <2>5, <1>6, HasFlattened
<1> QED
  BY <1>7, <1>8, <1>9 DEF G

\* Every operation that describes the input has its edge, and every edge is the
\* price of coding what is on it.
LEMMA EdgesIs ==
    ASSUME NEW n, NEW p, CanExpand(n, p), Searched(p)
    PROVE  /\ Edges(n, p) \in Seq(GoodEdges(PlaceAt(n, p)))
           /\ \A op \in OpsAt(n, p) : Has(Edges(n, p), One(n, p, op))
<1> DEFINE G == GoodEdges(PlaceAt(n, p))
           lit == <<One(n, p, Literal)>>
           short == IF Repeats(data, p, n.reps[1] + 1, 1) THEN <<One(n, p, ShortRep)>> ELSE <<>>
           rep0 == LitRep0(n, p, n.price, <<>>)
           both == RepEdges(n, p) \o MatchEdges(n, p)
           long == IF Avail(p) < MATCH_MIN_LEN THEN <<>> ELSE both
<1>1. Edges(n, p) = ((lit \o short) \o rep0) \o long
  BY DEF Edges
<1>2. data \in Inputs /\ Valid(PlaceAt(n, p)) /\ p \in Nat /\ p \in 0 .. N - 1 /\ N = Len(data)
      /\ N \in Nat
  BY NodeType DEF CanExpand
<1>3. lit \in Seq(G) /\ Has(lit, One(n, p, Literal))
  <2>1. Describes(data, p, n.reps, Literal)
    BY <1>2, SomeOps DEF Describes
  <2>2. PICK e \in G : e = One(n, p, Literal)
    BY <2>1, OneIs, SomeOps
  <2>3. <<e>> \in Seq(G) /\ Len(<<e>>) = 1 /\ <<e>>[1] = e
    <3> HIDE DEF G
    <3> QED
      OBVIOUS
  <2> QED
    BY <2>2, <2>3 DEF Has
<1>4. /\ short \in Seq(G)
      /\ Repeats(data, p, n.reps[1] + 1, 1) => Has(short, One(n, p, ShortRep))
  <2>1. CASE Repeats(data, p, n.reps[1] + 1, 1)
    <3>1. Describes(data, p, n.reps, ShortRep)
      BY <2>1, SomeOps DEF Describes
    <3>2. PICK e \in G : e = One(n, p, ShortRep)
      BY <3>1, OneIs, SomeOps
    <3>3. <<e>> \in Seq(G) /\ Len(<<e>>) = 1 /\ <<e>>[1] = e
      <4> HIDE DEF G
      <4> QED
        OBVIOUS
    <3>4. short = <<e>>
      BY <2>1, <3>2
    <3> QED
      BY <3>2, <3>3, <3>4 DEF Has
  <2>2. CASE ~Repeats(data, p, n.reps[1] + 1, 1)
    BY <2>2, EmptySeq
  <2> QED
    BY <2>1, <2>2
<1>5. rep0 \in Seq(G)
  <2>1. PICK b : b = PlaceAt(n, p)
    OBVIOUS
  <2>2. Codes(b, <<>>, b)
    BY <2>1, <1>2, CodesNone
  <2>3. b.pos = p /\ b.price = n.price
    BY <2>1, NodeType
  <2>4. b.pos = p + 0 /\ b.pos <= p + MATCH_MAX_LEN
    BY <2>3, <1>2, Limits
  <2>5. LitRep0(n, p, b.price, <<>>) \in Seq(GoodEdges(PlaceAt(n, p)))
    BY <2>1, <2>2, <2>4, LitRep0Is
  <2> QED
    BY <2>3, <2>5
<1>6. RepEdges(n, p) \in Seq(G) /\ MatchEdges(n, p) \in Seq(G)
  BY RepEdgesIs, MatchEdgesIs
<1>7. both \in Seq(G) /\ \A e : Has(RepEdges(n, p), e) \/ Has(MatchEdges(n, p), e) => Has(both, e)
  <2> HIDE DEF G
  <2>1. both \in Seq(G)
    BY <1>6, ConcatProperties
  <2>2. ASSUME NEW e, Has(RepEdges(n, p), e) \/ Has(MatchEdges(n, p), e) PROVE Has(both, e)
    BY <1>6, <2>2, HasJoined
  <2> QED
    BY <2>1, <2>2
<1> HIDE DEF both
<1>8. long \in Seq(G)
  BY <1>7, EmptySeq
<1> HIDE DEF G, lit, short, rep0, long
<1>9. /\ lit \o short \in Seq(G)
      /\ \A e : Has(lit, e) \/ Has(short, e) => Has(lit \o short, e)
  <2>1. lit \o short \in Seq(G)
    BY <1>3, <1>4, ConcatProperties
  <2>2. ASSUME NEW e, Has(lit, e) \/ Has(short, e) PROVE Has(lit \o short, e)
    BY <1>3, <1>4, <2>2, HasJoined
  <2> QED
    BY <2>1, <2>2
<1> DEFINE ls == lit \o short
           lsr == ls \o rep0
<1> HIDE DEF ls
<1>10. ls \in Seq(G)
  BY <1>9 DEF ls
<1>11. lsr \in Seq(G) /\ \A e : Has(ls, e) => Has(lsr, e)
  <2>1. lsr \in Seq(G)
    BY <1>5, <1>10, ConcatProperties
  <2>2. ASSUME NEW e, Has(ls, e) PROVE Has(lsr, e)
    BY <1>5, <1>10, <2>2, HasJoined
  <2> QED
    BY <2>1, <2>2
<1> HIDE DEF lsr
<1>12. /\ lsr \o long \in Seq(G)
       /\ \A e : Has(lsr, e) \/ Has(long, e) => Has(lsr \o long, e)
  <2>1. lsr \o long \in Seq(G)
    BY <1>8, <1>11, ConcatProperties
  <2>2. ASSUME NEW e, Has(lsr, e) \/ Has(long, e) PROVE Has(lsr \o long, e)
    BY <1>8, <1>11, <2>2, HasJoined
  <2> QED
    BY <2>1, <2>2
<1>13. Edges(n, p) = lsr \o long
  BY <1>1 DEF lsr, ls
<1>14. \A e : Has(lit, e) \/ Has(short, e) \/ Has(long, e) => Has(Edges(n, p), e)
  BY <1>9, <1>11, <1>12, <1>13 DEF ls
<1>15. ASSUME NEW op \in OpsAt(n, p) PROVE Has(Edges(n, p), One(n, p, op))
  <2>1. PICK av \in Nat : av = Avail(p)
    <3>1. p \in 0 .. N
      BY <1>2
    <3> QED
      BY <1>2, <3>1, AvailIs
  <2>2. CASE op = Literal
    BY <2>2, <1>3, <1>14
  <2>3. CASE op = ShortRep /\ Describes(data, p, n.reps, op)
    <3>1. Repeats(data, p, n.reps[1] + 1, 1)
      BY <2>3, SomeOps DEF Describes
    <3> QED
      BY <2>3, <3>1, <1>4, <1>14
  <2>4. CASE \E i \in 0 .. 3, l \in MATCH_MIN_LEN .. Avail(p) :
               op = Rep(i, l) /\ Describes(data, p, n.reps, op)
    <3>1. PICK i \in 0 .. 3, l \in MATCH_MIN_LEN .. Avail(p) :
                 op = Rep(i, l) /\ Describes(data, p, n.reps, op)
      BY <2>4
    <3>2. Repeats(data, p, n.reps[i + 1] + 1, l)
      <4>1. op.kind = "Rep" /\ op.index = i /\ op.len = l
        BY <3>1, SomeOps
      <4> QED
        BY <3>1, <4>1 DEF Describes
    <3>3. Has(RepEdges(n, p), One(n, p, op))
      BY <3>1, <3>2, RepEdgesIs
    <3>4. ~(Avail(p) < MATCH_MIN_LEN)
      BY <3>1, <2>1, Limits
    <3>5. Has(long, One(n, p, op))
      BY <3>3, <3>4, <1>7 DEF long
    <3> QED
      BY <3>5, <1>14
  <2>5. CASE \E l \in MATCH_MIN_LEN .. Avail(p) : \E d \in DistFor(p, l) : op = Match(d, l)
    <3>1. PICK l \in MATCH_MIN_LEN .. Avail(p) : \E d \in DistFor(p, l) : op = Match(d, l)
      BY <2>5
    <3>2. PICK d \in DistFor(p, l) : op = Match(d, l)
      BY <3>1
    <3>3. Has(MatchEdges(n, p), One(n, p, op))
      BY <3>2, MatchEdgesIs
    <3>4. ~(Avail(p) < MATCH_MIN_LEN)
      BY <3>1, <2>1, Limits
    <3>5. Has(long, One(n, p, op))
      BY <3>3, <3>4, <1>7 DEF long
    <3> QED
      BY <3>5, <1>14
  <2> QED
    BY <2>2, <2>3, <2>4, <2>5 DEF OpsAt
<1> QED
  BY <1>12, <1>13, <1>15 DEF G

-----------------------------------------------------------------------------
(* Relaxing edges.                                                         *)

NodeRecs == [price : Nat, prev : 0 .. MaxNode, ops : Seq(Ops), state : States, reps : Reps]
Graphs == [nodes : [0 .. MaxNode -> NodeRecs], len_end : 0 .. MaxNode]

\* Node i of ns, as a place.
Placed(ns, i) == PlaceAt(ns[i], pos + i)

\* Node i is reached at its price, from its predecessor.
Reaches(ns, i) ==
    \E b : /\ Codes(Placed(ns, ns[i].prev), ns[i].ops, b)
           /\ b.pos = pos + i /\ b.price = ns[i].price

\* Nodes before the current one are not touched; what is reached after it is
\* reached from it or from a node before.
GoodGraph(g) ==
    /\ g \in Graphs
    /\ cur <= g.len_end /\ pos + g.len_end <= N
    /\ \A i \in 1 .. MaxNode : g.nodes[i].prev < i
    /\ \A i \in 0 .. cur : g.nodes[i] = nodes[i]
    /\ \A i \in cur + 1 .. g.len_end :
         g.nodes[i].price < Infinity => g.nodes[i].prev <= cur /\ Reaches(g.nodes, i)

Cheaper(g, h) ==
    /\ g.len_end <= h.len_end
    /\ \A i \in 0 .. g.len_end : h.nodes[i].price <= g.nodes[i].price

\* h has the end of edge e, at no more than its price.
Offers(h, e) == cur + e.to <= h.len_end /\ h.nodes[cur + e.to].price <= e.price

Expanding ==
    /\ data \in Inputs /\ model \in Models
    /\ pos \in Nat /\ cur \in Nat /\ cur < OPT_LEN
    /\ nodes \in [0 .. MaxNode -> NodeRecs]

LEMMA RelaxedIs ==
    ASSUME Expanding, NEW g, GoodGraph(g), NEW e \in GoodEdges(Placed(nodes, cur))
    PROVE  /\ GoodGraph(Relaxed(g, e))
           /\ Cheaper(g, Relaxed(g, e))
           /\ Offers(Relaxed(g, e), e)
<1> DEFINE h == Relaxed(g, e)
           reset == [i \in DOMAIN g.nodes |->
                       IF i \in g.len_end + 1 .. cur + e.to
                       THEN [g.nodes[i] EXCEPT !.price = Infinity] ELSE g.nodes[i]]
           new == Node(e.price, cur, e.ops, reset[cur + e.to].state, reset[cur + e.to].reps)
           hn == IF e.price < reset[cur + e.to].price
                 THEN [reset EXCEPT ![cur + e.to] = new] ELSE reset
<1>1. /\ pos \in Nat /\ cur \in Nat /\ cur < OPT_LEN /\ MaxNode \in Nat /\ Infinity \in Nat
      /\ MaxNode = OPT_LEN + 2 * MATCH_MAX_LEN + 1 /\ MATCH_MAX_LEN \in Nat /\ OPT_LEN \in Nat
      /\ N \in Nat
  BY Limits, InputType DEF Expanding
<1>2. PICK b : /\ Codes(Placed(nodes, cur), e.ops, b)
               /\ b.pos = Placed(nodes, cur).pos + e.to /\ b.price = e.price
  BY DEF GoodEdges, Arrives
<1>3. /\ e.to \in Nat /\ e.to >= 1 /\ e.to <= 2 * MATCH_MAX_LEN + 1
      /\ e.price \in Nat /\ e.ops \in Seq(Ops)
  BY DEF GoodEdges
<1>4. PICK to \in 0 .. MaxNode : to = cur + e.to /\ cur < to /\ to \in Nat
  <2>1. cur + e.to \in 0 .. MaxNode /\ cur < cur + e.to /\ cur + e.to \in Nat
    BY <1>1, <1>3
  <2> QED
    BY <2>1
<1>5. b.pos = pos + to /\ pos + to <= N
  <2>1. Placed(nodes, cur).pos = pos + cur
    BY DEF Placed, PlaceAt
  <2>2. b.pos = pos + to
    BY <2>1, <1>1, <1>2, <1>3, <1>4
  <2>3. b.pos <= N
    BY <1>2, CodesType, PlaceType
  <2> QED
    BY <2>2, <2>3
<1>6. PICK ns, le : ns = g.nodes /\ le = g.len_end
  OBVIOUS
<1>7. /\ ns \in [0 .. MaxNode -> NodeRecs] /\ DOMAIN ns = 0 .. MaxNode
      /\ le \in 0 .. MaxNode /\ le \in Nat /\ cur <= le /\ pos + le <= N
      /\ \A i \in 1 .. MaxNode : ns[i].prev < i
      /\ \A i \in 0 .. cur : ns[i] = nodes[i]
      /\ \A i \in cur + 1 .. le : ns[i].price < Infinity => ns[i].prev <= cur /\ Reaches(ns, i)
  <2>1. ns \in [0 .. MaxNode -> NodeRecs] /\ le \in 0 .. MaxNode
    BY <1>6 DEF GoodGraph, Graphs
  <2>2. le \in Nat /\ DOMAIN ns = 0 .. MaxNode
    BY <2>1, <1>1
  <2> QED
    BY <2>1, <2>2, <1>6 DEF GoodGraph
<1>8. PICK rs : rs = reset
  OBVIOUS
<1>9. rs = [i \in 0 .. MaxNode |-> IF i \in le + 1 .. to THEN [ns[i] EXCEPT !.price = Infinity]
                                   ELSE ns[i]]
  BY <1>4, <1>6, <1>7, <1>8
<1>10. /\ \A i \in le + 1 .. to : /\ rs[i] \in NodeRecs /\ rs[i].price = Infinity
                                  /\ rs[i].prev = ns[i].prev
       /\ \A i \in 0 .. le : rs[i] = ns[i]
       /\ \A i \in 0 .. MaxNode : rs[i] \in NodeRecs /\ rs[i].prev = ns[i].prev
       /\ rs \in [0 .. MaxNode -> NodeRecs]
  <2>1. ASSUME NEW i \in 0 .. MaxNode, i \in le + 1 .. to
        PROVE  rs[i] \in NodeRecs /\ rs[i].price = Infinity /\ rs[i].prev = ns[i].prev
    <3>1. rs[i] = [ns[i] EXCEPT !.price = Infinity] /\ ns[i] \in NodeRecs
      BY <2>1, <1>7, <1>9
    <3> QED
      BY <3>1, <1>1 DEF NodeRecs
  <2>2. ASSUME NEW i \in 0 .. MaxNode, ~(i \in le + 1 .. to)
        PROVE  rs[i] \in NodeRecs /\ rs[i] = ns[i]
    BY <2>2, <1>7, <1>9
  <2>3. \A i \in le + 1 .. to : i \in 0 .. MaxNode
    BY <1>1, <1>4, <1>7
  <2>4. \A i \in 0 .. le : i \in 0 .. MaxNode /\ ~(i \in le + 1 .. to)
    BY <1>1, <1>4, <1>7
  <2>5. \A i \in 0 .. MaxNode : rs[i] \in NodeRecs /\ rs[i].prev = ns[i].prev
    BY <2>1, <2>2
  <2>6. rs \in [0 .. MaxNode -> NodeRecs]
    BY <2>5, <1>9
  <2> QED
    BY <2>1, <2>2, <2>3, <2>4, <2>5, <2>6
<1>11. PICK nw : nw = Node(e.price, cur, e.ops, rs[to].state, rs[to].reps)
  OBVIOUS
<1>12. nw \in NodeRecs /\ nw.price = e.price /\ nw.prev = cur /\ nw.ops = e.ops
  <2>1. rs[to].state \in States /\ rs[to].reps \in Reps
    BY <1>10 DEF NodeRecs
  <2>2. cur \in 0 .. MaxNode
    BY <1>1
  <2> QED
    BY <2>1, <2>2, <1>3, <1>11 DEF Node, NodeRecs
<1>13. PICK hs, hl : /\ hs = IF e.price < rs[to].price THEN [rs EXCEPT ![to] = nw] ELSE rs
                     /\ hl = IF to > le THEN to ELSE le
  OBVIOUS
<1>14. h.nodes = hs /\ h.len_end = hl /\ h = [nodes |-> hs, len_end |-> hl]
  <2>1. h = [nodes |-> hs, len_end |-> hl]
    BY <1>4, <1>6, <1>8, <1>11, <1>13 DEF Relaxed
  <2> QED
    BY <2>1
<1> HIDE DEF h, reset, new, hn
<1>15. /\ hl \in Nat /\ hl \in 0 .. MaxNode /\ to <= hl /\ le <= hl /\ cur <= hl
       /\ (hl = to \/ hl = le) /\ pos + hl <= N
  BY <1>1, <1>4, <1>5, <1>7, <1>13
<1>16. /\ hs \in [0 .. MaxNode -> NodeRecs]
       /\ \A i \in 0 .. MaxNode : i # to => hs[i] = rs[i]
       /\ e.price < rs[to].price => hs[to] = nw
       /\ ~(e.price < rs[to].price) => hs[to] = rs[to]
  BY <1>10, <1>12, <1>13
<1>17. rs[to].price \in Nat /\ hs[to].price <= e.price
  <2>1. rs[to].price \in Nat
    BY <1>10 DEF NodeRecs
  <2>2. CASE e.price < rs[to].price
    <3>1. hs[to].price = e.price
      BY <2>2, <1>12, <1>16
    <3> QED
      BY <2>1, <3>1, <1>3
  <2>3. CASE ~(e.price < rs[to].price)
    <3>1. hs[to].price = rs[to].price
      BY <2>3, <1>16
    <3> QED
      BY <2>1, <2>3, <3>1, <1>3
  <2> QED
    BY <2>1, <2>2, <2>3
<1>18. \A i \in 0 .. cur : i \in 0 .. MaxNode /\ i # to /\ i \in 0 .. le /\ hs[i] = ns[i]
  <2>1. \A i \in 0 .. cur : i \in 0 .. MaxNode /\ i # to /\ i \in 0 .. le
    BY <1>1, <1>4, <1>7
  <2> QED
    BY <2>1, <1>10, <1>16
<1>19. \A i \in 1 .. MaxNode : hs[i].prev < i
  <2>1. ASSUME NEW i \in 1 .. MaxNode PROVE hs[i].prev < i
    <3>1. i \in 0 .. MaxNode
      OBVIOUS
    <3>2. CASE hs[i] = rs[i]
      BY <3>1, <3>2, <1>7, <1>10
    <3>3. CASE i = to /\ hs[to] = nw
      BY <3>3, <1>4, <1>12
    <3> QED
      BY <3>1, <3>2, <3>3, <1>16
  <2> QED
    BY <2>1
<1>20. ASSUME NEW i \in cur + 1 .. hl, hs[i].price < Infinity
       PROVE  hs[i].prev <= cur /\ Reaches(hs, i)
  <2>1. i \in 0 .. MaxNode /\ i \in Nat /\ cur \in 0 .. cur /\ i \in 1 .. MaxNode
    BY <1>1, <1>15
  <2>2. CASE i = to /\ hs[to] = nw
    <3>1. hs[i].prev = cur /\ hs[i].ops = e.ops /\ hs[i].price = b.price
      BY <2>2, <1>2, <1>12
    <3>2. Placed(hs, cur) = Placed(nodes, cur)
      BY <2>1, <1>7, <1>18 DEF Placed
    <3>3. Reaches(hs, i)
      BY <3>1, <3>2, <2>2, <1>2, <1>5 DEF Reaches
    <3> QED
      BY <3>1, <3>3, <1>1
  <2>3. CASE hs[i] = rs[i]
    <3>1. ~(i \in le + 1 .. to)
      <4> SUFFICES ASSUME i \in le + 1 .. to PROVE FALSE
        OBVIOUS
      <4>1. hs[i].price = Infinity
        BY <2>3, <1>10
      <4> QED
        BY <4>1, <1>20, <1>1
    <3>2. i \in cur + 1 .. le /\ i \in 0 .. le
      BY <3>1, <2>1, <1>1, <1>4, <1>7, <1>15
    <3>3. hs[i] = ns[i]
      BY <3>2, <2>3, <1>10
    <3>4. ns[i].prev <= cur /\ Reaches(ns, i)
      BY <3>2, <3>3, <1>7, <1>20
    <3>5. ns[i].prev \in 0 .. cur
      <4>1. ns[i].prev \in 0 .. MaxNode
        BY <2>1, <1>7 DEF NodeRecs
      <4> QED
        BY <4>1, <3>4, <1>1
    <3>6. Placed(hs, ns[i].prev) = Placed(ns, ns[i].prev)
      BY <3>5, <1>18 DEF Placed
    <3> QED
      BY <3>3, <3>4, <3>6 DEF Reaches
  <2> QED
    BY <2>1, <2>2, <2>3, <1>16
<1>21. GoodGraph(h)
  <2>1. h \in Graphs
    BY <1>14, <1>15, <1>16 DEF Graphs
  <2>2. \A i \in 0 .. cur : hs[i] = nodes[i]
    BY <1>7, <1>18
  <2> QED
    BY <2>1, <2>2, <1>14, <1>15, <1>19, <1>20 DEF GoodGraph
<1>22. Cheaper(g, h)
  <2>1. ASSUME NEW i \in 0 .. le PROVE hs[i].price <= ns[i].price
    <3>1. i \in 0 .. MaxNode /\ rs[i] = ns[i]
      BY <1>1, <1>7, <1>10
    <3>2. ns[i].price \in Nat
      BY <3>1, <1>7 DEF NodeRecs
    <3>3. CASE hs[i] = rs[i]
      BY <3>1, <3>2, <3>3
    <3>4. CASE i = to /\ e.price < rs[to].price /\ hs[to] = nw
      <4>1. hs[i].price = e.price
        BY <3>4, <1>12
      <4> QED
        BY <3>1, <3>2, <3>4, <4>1, <1>3
    <3> QED
      BY <3>1, <3>3, <3>4, <1>16
  <2> QED
    BY <2>1, <1>6, <1>14, <1>15 DEF Cheaper
<1>23. Offers(h, e)
  BY <1>4, <1>14, <1>15, <1>17 DEF Offers
<1> QED
  BY <1>21, <1>22, <1>23 DEF h

LEMMA CheaperIs ==
    ASSUME NEW f \in Graphs, NEW g \in Graphs, NEW h \in Graphs, Cheaper(f, g), Cheaper(g, h)
    PROVE  Cheaper(f, h)
<1>1. /\ f.len_end \in Nat /\ g.len_end \in Nat /\ h.len_end \in Nat
      /\ f.len_end <= g.len_end /\ g.len_end <= h.len_end
      /\ f.len_end \in 0 .. MaxNode
  BY Limits DEF Cheaper, Graphs
<1>2. ASSUME NEW i \in 0 .. f.len_end PROVE h.nodes[i].price <= f.nodes[i].price
  <2>1. i \in 0 .. g.len_end /\ i \in 0 .. MaxNode
    BY <1>1, Limits
  <2>2. f.nodes[i].price \in Nat /\ g.nodes[i].price \in Nat /\ h.nodes[i].price \in Nat
    BY <2>1 DEF Graphs, NodeRecs
  <2>3. h.nodes[i].price <= g.nodes[i].price /\ g.nodes[i].price <= f.nodes[i].price
    BY <2>1 DEF Cheaper
  <2> QED
    BY <2>2, <2>3
<1> QED
  BY <1>1, <1>2 DEF Cheaper

\* What a graph offers, a cheaper one offers too.
LEMMA OffersStill ==
    ASSUME Expanding, NEW g \in Graphs, NEW h \in Graphs, Cheaper(g, h),
           NEW e \in GoodEdges(Placed(nodes, cur)), Offers(g, e)
    PROVE  Offers(h, e)
<1>1. e.to \in Nat /\ e.price \in Nat /\ cur \in Nat
  BY DEF GoodEdges, Expanding
<1>2. PICK to \in Nat : to = cur + e.to
  BY <1>1
<1>3. /\ g.len_end \in Nat /\ h.len_end \in Nat /\ g.len_end <= h.len_end /\ to <= g.len_end
      /\ g.len_end <= MaxNode /\ g.nodes[to].price <= e.price
  BY <1>2, Limits DEF Cheaper, Graphs, Offers
<1>4. to \in 0 .. g.len_end /\ to \in 0 .. MaxNode /\ to <= h.len_end
  BY <1>2, <1>3, Limits
<1>5. g.nodes[to].price \in Nat /\ h.nodes[to].price \in Nat
  BY <1>4 DEF Graphs, NodeRecs
<1>6. h.nodes[to].price <= g.nodes[to].price
  BY <1>4 DEF Cheaper
<1>7. h.nodes[to].price <= e.price
  BY <1>1, <1>3, <1>5, <1>6
<1> QED
  BY <1>2, <1>4, <1>7 DEF Offers

LEMMA RelaxedAllIs ==
    ASSUME Expanding, NEW edges \in Seq(GoodEdges(Placed(nodes, cur))),
           GoodGraph([nodes |-> nodes, len_end |-> len_end])
    PROVE  /\ GoodGraph(RelaxedAll(edges))
           /\ Cheaper([nodes |-> nodes, len_end |-> len_end], RelaxedAll(edges))
           /\ \A k \in 1 .. Len(edges) : Offers(RelaxedAll(edges), edges[k])
<1> DEFINE G == GoodEdges(Placed(nodes, cur))
           base == [nodes |-> nodes, len_end |-> len_end]
           n == Len(edges)
           S == {g \in Graphs : GoodGraph(g)}
           step == [x \in S \X (1 .. n) |-> Relaxed(x[1], edges[x[2]])]
           Eq(f) == [k \in 0 .. n |-> IF k = 0 THEN base ELSE Relaxed(f[k - 1], edges[k])]
           after == CHOOSE f : f = Eq(f)
<1>1. RelaxedAll(edges) = after[n]
  BY DEF RelaxedAll
<1>2. n \in Nat /\ \A k \in 1 .. n : edges[k] \in G
  OBVIOUS
<1> HIDE DEF G, n, Eq, after
<1>3. ASSUME NEW g \in S, NEW k \in 1 .. n
      PROVE  /\ Relaxed(g, edges[k]) \in S /\ Cheaper(g, Relaxed(g, edges[k]))
             /\ Offers(Relaxed(g, edges[k]), edges[k])
  <2>1. GoodGraph(Relaxed(g, edges[k])) /\ Cheaper(g, Relaxed(g, edges[k]))
        /\ Offers(Relaxed(g, edges[k]), edges[k])
    BY <1>2, RelaxedIs DEF G
  <2>2. Relaxed(g, edges[k]) \in Graphs
    BY <2>1 DEF GoodGraph
  <2> QED
    BY <2>1, <2>2
<1>4. base \in S
  <2>1. base \in Graphs
    BY DEF GoodGraph
  <2> QED
    BY <2>1
<1>5. S \subseteq Graphs /\ \A g \in S : GoodGraph(g)
  OBVIOUS
<1>6. \A g \in S, k \in 1 .. n : step[<<g, k>>] = Relaxed(g, edges[k])
  OBVIOUS
<1> HIDE DEF S, base, step
<1>7. StepsIn(step, S, n)
  BY <1>3, <1>6 DEF StepsIn
<1>8. PICK f : Solves(f, S, n, base, step)
  BY <1>2, <1>4, <1>7, Recursion
<1>9. /\ f \in [0 .. n -> S] /\ f[0] = base
      /\ \A k \in 1 .. n : f[k - 1] \in S /\ f[k] \in S /\ f[k] = Relaxed(f[k - 1], edges[k])
  <2>1. f \in [0 .. n -> S] /\ f[0] = base /\ \A k \in 1 .. n : f[k] = step[<<f[k - 1], k>>]
    BY <1>8 DEF Solves
  <2>2. \A k \in 1 .. n : k - 1 \in 0 .. n /\ k \in 0 .. n
    BY <1>2
  <2> QED
    BY <2>1, <2>2, <1>6
<1>10. f = Eq(f)
  <2>1. \A k \in 0 .. n : f[k] = IF k = 0 THEN base ELSE Relaxed(f[k - 1], edges[k])
    BY <1>2, <1>9
  <2>2. f = [k \in 0 .. n |-> f[k]]
    BY <1>9
  <2> QED
    BY <2>1, <2>2 DEF Eq
<1>11. after = Eq(after)
  BY <1>10 DEF after
<1>12. /\ after[0] = f[0]
       /\ \A k \in 1 .. n : after[k - 1] = f[k - 1] => after[k] = f[k]
  <2>1. \A k \in 0 .. n : after[k] = IF k = 0 THEN base ELSE Relaxed(after[k - 1], edges[k])
    BY <1>11 DEF Eq
  <2>2. 0 \in 0 .. n /\ \A k \in 1 .. n : k \in 0 .. n /\ k # 0
    BY <1>2
  <2> QED
    BY <2>1, <2>2, <1>9
<1>13. after[n] = f[n]
  <2>1. \A k \in 0 .. n : after[k] = f[k]
    BY <1>2, <1>12, SameSteps
  <2> QED
    BY <2>1, <1>2
<1> DEFINE T == {m \in Nat : m <= n => /\ Cheaper(f[0], f[m])
                                       /\ \A k \in 1 .. m : Offers(f[m], edges[k])}
<1>14. 0 \in T
  <2>1. f[0] \in Graphs
    BY <1>4, <1>5, <1>9
  <2>2. Cheaper(f[0], f[0])
    <3>1. f[0].len_end \in Nat /\ f[0].len_end \in 0 .. MaxNode
      BY <2>1, Limits DEF Graphs
    <3>2. \A i \in 0 .. f[0].len_end : f[0].nodes[i].price \in Nat
      <4>1. \A i \in 0 .. f[0].len_end : i \in 0 .. MaxNode
        BY <3>1, Limits
      <4> QED
        BY <4>1, <2>1 DEF Graphs, NodeRecs
    <3>3. \A i \in 0 .. f[0].len_end : f[0].nodes[i].price <= f[0].nodes[i].price
      BY <3>2
    <3> QED
      BY <3>1, <3>3 DEF Cheaper
  <2> QED
    BY <2>2
<1>15. ASSUME NEW m \in Nat, m \in T PROVE m + 1 \in T
  <2> SUFFICES ASSUME m + 1 <= n
               PROVE  /\ Cheaper(f[0], f[m + 1])
                      /\ \A k \in 1 .. m + 1 : Offers(f[m + 1], edges[k])
    OBVIOUS
  <2>1. Cheaper(f[0], f[m]) /\ \A k \in 1 .. m : Offers(f[m], edges[k])
    BY <1>2, <1>15
  <2>2. m + 1 \in 1 .. n /\ (m + 1) - 1 = m
    BY <1>2
  <2>3. /\ f[m] \in S /\ f[m + 1] \in S /\ f[m + 1] = Relaxed(f[m], edges[m + 1])
        /\ f[0] \in S
    BY <2>2, <1>4, <1>9
  <2>4. Cheaper(f[m], f[m + 1]) /\ Offers(f[m + 1], edges[m + 1])
    BY <2>2, <2>3, <1>3
  <2>5. f[0] \in Graphs /\ f[m] \in Graphs /\ f[m + 1] \in Graphs
    BY <2>3, <1>5
  <2>6. Cheaper(f[0], f[m + 1])
    BY <2>1, <2>4, <2>5, CheaperIs
  <2>7. ASSUME NEW k \in 1 .. m + 1 PROVE Offers(f[m + 1], edges[k])
    <3>1. CASE k = m + 1
      BY <3>1, <2>4
    <3>2. CASE k # m + 1
      <4>1. k \in 1 .. m /\ k \in 1 .. n
        BY <3>2, <2>2, <1>2
      <4>2. edges[k] \in GoodEdges(Placed(nodes, cur))
        BY <4>1, <1>2 DEF G
      <4> QED
        BY <4>1, <4>2, <2>1, <2>4, <2>5, OffersStill
    <3> QED
      BY <3>1, <3>2
  <2> QED
    BY <2>6, <2>7
<1>16. Nat \subseteq T
  <2> HIDE DEF T
  <2> QED
    BY <1>14, <1>15, NatSetInduction
<1>17. Cheaper(f[0], f[n]) /\ \A k \in 1 .. n : Offers(f[n], edges[k])
  BY <1>2, <1>16
<1>18. GoodGraph(f[n])
  BY <1>2, <1>5, <1>9
<1> QED
  BY <1>1, <1>9, <1>13, <1>17, <1>18 DEF base, n

-----------------------------------------------------------------------------
(* The path back.                                                          *)

\* Where the encoder is.
Here == [pos |-> pos, state |-> state, reps |-> reps, price |-> 0]

\* The nodes before n have the state and distances of their paths.
SettledTo(n) ==
    /\ Placed(nodes, 0) = Here
    /\ \A i \in 1 .. n - 1 :
         Codes(Placed(nodes, nodes[i].prev), nodes[i].ops, Placed(nodes, i))

\* Predecessors come before.
NodesType ==
    /\ nodes \in [0 .. MaxNode -> NodeRecs]
    /\ \A i \in 1 .. MaxNode : nodes[i].prev < i

LEMMA NodesAre ==
    ASSUME NodesType, NEW i \in 1 .. MaxNode
    PROVE  /\ nodes[i].prev \in 0 .. i - 1 /\ nodes[i].prev \in 0 .. MaxNode
           /\ nodes[i].ops \in Seq(Ops) /\ nodes[i].price \in Nat
<1>1. i \in 0 .. MaxNode /\ i \in Nat
  BY Limits
<1>2. nodes[i] \in NodeRecs /\ nodes[i].prev < i
  BY <1>1 DEF NodesType
<1>3. nodes[i].prev \in 0 .. MaxNode /\ nodes[i].ops \in Seq(Ops) /\ nodes[i].price \in Nat
  BY <1>2 DEF NodeRecs
<1> QED
  BY <1>1, <1>2, <1>3, Limits

LEMMA PathToIs ==
    ASSUME NodesType
    PROVE  /\ PathTo[0] = <<>>
           /\ \A i \in 1 .. MaxNode : PathTo[i] = PathTo[nodes[i].prev] \o nodes[i].ops
<1> DEFINE S == Seq(Ops)
           Then(f, i) == f[nodes[i].prev] \o nodes[i].ops
           Eq(f) == [i \in 0 .. MaxNode |-> IF i = 0 THEN <<>> ELSE Then(f, i)]
           Paths(f, m) == f[0] = <<>> /\ \A k \in 1 .. m : f[k] = Then(f, k)
           T == {m \in Nat : m <= MaxNode => \E f \in [0 .. m -> S] : Paths(f, m)}
           to == CHOOSE f : f = Eq(f)
<1>1. PathTo = to
  BY DEF PathTo
<1>2. MaxNode \in Nat
  BY Limits
<1>3. \A i \in 1 .. MaxNode : nodes[i].prev \in 0 .. i - 1 /\ nodes[i].ops \in S
  BY NodesAre
<1>4. <<>> \in S /\ \A a, b \in S : a \o b \in S
  BY EmptySeq, ConcatProperties
<1> HIDE DEF S, to
<1>5. 0 \in T
  <2>1. [k \in 0 .. 0 |-> <<>>] \in [0 .. 0 -> S] /\ Paths([k \in 0 .. 0 |-> <<>>], 0)
    BY <1>4
  <2> HIDE DEF Paths
  <2> QED
    BY <2>1
<1>6. ASSUME NEW m \in Nat, m \in T PROVE m + 1 \in T
  <2> SUFFICES ASSUME m + 1 <= MaxNode PROVE \E g \in [0 .. m + 1 -> S] : Paths(g, m + 1)
    <3> HIDE DEF Paths
    <3> QED
      OBVIOUS
  <2>1. PICK f \in [0 .. m -> S] : Paths(f, m)
    <3> HIDE DEF Paths
    <3> QED
      BY <1>2, <1>6
  <2>2. PICK last \in S : last = Then(f, m + 1)
    <3>1. m + 1 \in 1 .. MaxNode /\ (m + 1) - 1 = m
      BY <1>2
    <3>2. nodes[m + 1].prev \in 0 .. m /\ nodes[m + 1].ops \in S
      BY <3>1, <1>3
    <3>3. f[nodes[m + 1].prev] \in S
      BY <3>2
    <3> QED
      BY <3>2, <3>3, <1>4
  <2> DEFINE g == [k \in 0 .. m + 1 |-> IF k = m + 1 THEN last ELSE f[k]]
  <2>3. g \in [0 .. m + 1 -> S] /\ \A k \in 0 .. m : g[k] = f[k]
    BY <2>1
  <2>4. g[m + 1] = last
    OBVIOUS
  <2> HIDE DEF g
  <2>5. g[0] = <<>>
    BY <2>1, <2>3
  <2>6. ASSUME NEW k \in 1 .. m + 1 PROVE g[k] = Then(g, k)
    <3>1. nodes[k].prev \in 0 .. m
      <4>1. k \in 1 .. MaxNode
        BY <1>2
      <4> QED
        BY <4>1, <1>3
    <3>2. Then(g, k) = Then(f, k)
      BY <3>1, <2>3
    <3>3. CASE k = m + 1
      BY <3>2, <3>3, <2>2, <2>4
    <3>4. CASE k # m + 1
      <4>1. k \in 1 .. m /\ k \in 0 .. m
        BY <3>4
      <4>2. f[k] = Then(f, k)
        BY <4>1, <2>1
      <4> QED
        BY <4>1, <4>2, <3>2, <2>3
    <3> QED
      BY <3>3, <3>4
  <2>7. Paths(g, m + 1)
    BY <2>5, <2>6
  <2> HIDE DEF Paths
  <2> QED
    BY <2>3, <2>7
<1>7. Nat \subseteq T
  <2> HIDE DEF T
  <2> QED
    BY <1>5, <1>6, NatSetInduction
<1>8. PICK f \in [0 .. MaxNode -> S] : Paths(f, MaxNode)
  <2> HIDE DEF Paths
  <2> QED
    BY <1>2, <1>7
<1>9. f = Eq(f)
  <2>1. \A i \in 0 .. MaxNode : f[i] = IF i = 0 THEN <<>> ELSE Then(f, i)
    <3>1. f[0] = <<>> /\ \A k \in 1 .. MaxNode : f[k] = Then(f, k)
      BY <1>8
    <3>2. \A i \in 0 .. MaxNode : i # 0 => i \in 1 .. MaxNode
      BY <1>2
    <3> HIDE DEF Then
    <3> QED
      BY <3>1, <3>2
  <2>2. f = [i \in 0 .. MaxNode |-> f[i]]
    BY <1>8
  <2> HIDE DEF Then
  <2> QED
    BY <2>1, <2>2
<1> HIDE DEF Eq
<1>10. to = Eq(to)
  BY <1>9 DEF to
<1> HIDE DEF Then
<1>11. \A i \in 0 .. MaxNode : to[i] = IF i = 0 THEN <<>> ELSE Then(to, i)
  BY <1>10 DEF Eq
<1>12. 0 \in 0 .. MaxNode /\ \A i \in 1 .. MaxNode : i \in 0 .. MaxNode /\ i # 0
  BY <1>2
<1>13. to[0] = <<>> /\ \A i \in 1 .. MaxNode : to[i] = Then(to, i)
  BY <1>11, <1>12
<1> QED
  BY <1>1, <1>13 DEF Then

\* Coding the path to a node leads to it.
LEMMA PathCodes ==
    ASSUME NodesType, Valid(Here), NEW n \in 1 .. MaxNode, SettledTo(n)
    PROVE  /\ \A i \in 0 .. n - 1 : Codes(Here, PathTo[i], Placed(nodes, i))
           /\ \A b : Codes(Placed(nodes, nodes[n].prev), nodes[n].ops, b)
                       => Codes(Here, PathTo[n], b)
<1>1. n \in Nat /\ MaxNode \in Nat /\ n <= MaxNode
  BY Limits
<1>2. PathTo[0] = <<>> /\ \A i \in 1 .. MaxNode : PathTo[i] = PathTo[nodes[i].prev] \o nodes[i].ops
  BY PathToIs
<1>3. \A i \in 1 .. MaxNode : nodes[i].prev \in 0 .. i - 1
  BY NodesAre
<1> DEFINE Good(i) == Codes(Here, PathTo[i], Placed(nodes, i))
           T == {m \in Nat : \A i \in 0 .. m : i < n => Good(i)}
<1>4. ASSUME NEW i \in 1 .. MaxNode, Good(nodes[i].prev), NEW b,
             Codes(Placed(nodes, nodes[i].prev), nodes[i].ops, b)
      PROVE  Codes(Here, PathTo[i], b)
  BY <1>2, <1>4, CodesJoined
<1>5. Good(0)
  BY <1>2, CodesNone DEF SettledTo
<1>6. \A i \in 1 .. n - 1 : Codes(Placed(nodes, nodes[i].prev), nodes[i].ops, Placed(nodes, i))
  BY DEF SettledTo
<1>7. 0 \in T
  <2> HIDE DEF Good
  <2> QED
    BY <1>5
<1>8. ASSUME NEW m \in Nat, m \in T PROVE m + 1 \in T
  <2>1. ASSUME NEW i \in 0 .. m + 1, i < n PROVE Good(i)
    <3>1. CASE i \in 0 .. m
      <4> HIDE DEF Good
      <4> QED
        BY <1>8, <2>1, <3>1
    <3>2. CASE i = m + 1
      <4>1. i \in 1 .. n - 1 /\ i \in 1 .. MaxNode
        BY <1>1, <2>1, <3>2
      <4>2. nodes[i].prev \in 0 .. m /\ nodes[i].prev < n
        <5>1. nodes[i].prev \in 0 .. i - 1
          BY <4>1, <1>3
        <5> QED
          BY <5>1, <3>2, <2>1, <1>1
      <4>3. Good(nodes[i].prev)
        <5> HIDE DEF Good
        <5> QED
          BY <4>2, <1>8
      <4>4. Codes(Placed(nodes, nodes[i].prev), nodes[i].ops, Placed(nodes, i))
        BY <4>1, <1>6
      <4> QED
        BY <4>1, <4>3, <4>4, <1>4
    <3> QED
      BY <3>1, <3>2
  <2> HIDE DEF Good
  <2> QED
    BY <2>1
<1>9. \A i \in 0 .. n - 1 : Good(i)
  <2>1. Nat \subseteq T
    <3> HIDE DEF T
    <3> QED
      BY <1>7, <1>8, NatSetInduction
  <2> HIDE DEF Good
  <2> QED
    BY <2>1, <1>1
<1>10. nodes[n].prev \in 0 .. n - 1
  BY <1>3
<1>11. \A b : Codes(Placed(nodes, nodes[n].prev), nodes[n].ops, b) => Codes(Here, PathTo[n], b)
  <2>1. Good(nodes[n].prev)
    <3> HIDE DEF Good
    <3> QED
      BY <1>9, <1>10
  <2> QED
    BY <2>1, <1>4
<1> QED
  BY <1>9, <1>11

\* No path costs as much as Infinity, not even with one more operation.
LEMMA PathPrice ==
    ASSUME data \in Inputs, model \in Models, NodesType, Valid(Here),
           NEW n \in 1 .. MaxNode, SettledTo(n), NEW i \in 0 .. n - 1
    PROVE  Placed(nodes, i).price + MaxPrice < Infinity
<1>1. Codes(Here, PathTo[i], Placed(nodes, i))
  BY PathCodes
<1>2. /\ Placed(nodes, i).price <= Here.price + MaxPrice * (Placed(nodes, i).pos - Here.pos)
      /\ Valid(Placed(nodes, i))
  BY <1>1, CodesBounds, CodesType
<1>3. Here.price = 0 /\ Here.pos = pos /\ Placed(nodes, i).pos = pos + i
  BY DEF Here, Placed, PlaceAt
<1>4. pos \in Nat /\ i \in Nat /\ i + 1 <= MaxNode /\ MaxNode \in Nat
  BY <1>3, PlaceType, Limits
<1>5. PICK x \in Nat : x = Placed(nodes, i).price
  BY <1>2, PlaceType
<1>6. x <= MaxPrice * i
  <2>1. (pos + i) - pos = i
    BY <1>4
  <2>2. MaxPrice * i \in Nat
    BY <1>4, Limits
  <2>3. x <= 0 + MaxPrice * i
    BY <2>1, <1>2, <1>3, <1>5
  <2> QED
    BY <2>2, <2>3, <1>5
<1>7. MaxPrice * i + MaxPrice <= MaxPrice * MaxNode
  <2>1. PICK d \in Nat : MaxNode = (i + 1) + d
    <3>1. MaxNode - (i + 1) \in Nat /\ MaxNode = (i + 1) + (MaxNode - (i + 1))
      BY <1>4
    <3> QED
      BY <3>1
  <2>2. MaxPrice * ((i + 1) + d) = MaxPrice * i + MaxPrice + MaxPrice * d
    BY <1>4, Limits
  <2>3. MaxPrice * i \in Nat /\ MaxPrice * d \in Nat
    BY <1>4, Limits
  <2>4. MaxPrice * i + MaxPrice <= MaxPrice * i + MaxPrice + MaxPrice * d
    BY <2>3, Limits
  <2> QED
    BY <2>1, <2>2, <2>4
<1>8. MaxPrice * MaxNode < Infinity /\ MaxPrice * MaxNode \in Nat /\ MaxPrice * i \in Nat
  BY <1>4, PriceAssumption, Limits
<1>9. x + MaxPrice < Infinity
  BY <1>5, <1>6, <1>7, <1>8, Limits
<1> QED
  BY <1>5, <1>9

-----------------------------------------------------------------------------
(* Decisions say what the input holds.                                     *)

\* op may be coded at position p.
Right(op, p, r) == op \in Ops /\ Describes(data, p, r, op)

Deciding == data \in Inputs /\ effort \in Efforts /\ Valid(Here) /\ pos < N

LEMMA DecidingIs ==
    ASSUME Deciding
    PROVE  /\ pos \in Nat /\ pos \in 0 .. N - 1 /\ pos \in 0 .. N /\ N \in Nat /\ N = Len(data)
           /\ state \in States /\ reps \in Reps
<1>1. Here.pos = pos /\ Here.state = state /\ Here.reps = reps
  BY DEF Here
<1>2. pos \in Nat /\ state \in States /\ reps \in Reps
  BY <1>1, PlaceType DEF Deciding
<1>3. N \in Nat /\ N = Len(data) /\ pos < N
  BY InputType DEF Deciding
<1> QED
  BY <1>2, <1>3

LEMMA RepRight ==
    ASSUME data \in Inputs, NEW p \in 0 .. N, NEW r \in Reps, NEW limit \in Nat,
           limit <= MATCH_MAX_LEN, NEW i \in 0 .. 3,
           RepLens(p, r, limit)[i] >= MATCH_MIN_LEN
    PROVE  Right(Rep(i, RepLens(p, r, limit)[i]), p, r)
<1>1. PICK l \in Nat : /\ l = RepLens(p, r, limit)[i] /\ l <= limit
                       /\ (l > 0 => Repeats(data, p, r[i + 1] + 1, l))
  BY RepLensIs
<1>2. l >= MATCH_MIN_LEN /\ l > 0 /\ l <= MATCH_MAX_LEN
  BY <1>1, Limits
<1>3. l \in Lens
  BY <1>2, Limits DEF Lens
<1>4. Rep(i, l) \in Ops /\ Rep(i, l).kind = "Rep" /\ Rep(i, l).index = i /\ Rep(i, l).len = l
  BY <1>3, SomeOps
<1>5. Describes(data, p, r, Rep(i, l))
  BY <1>1, <1>2, <1>4 DEF Describes
<1> QED
  BY <1>1, <1>4, <1>5 DEF Right

LEMMA MatchRight ==
    ASSUME data \in Inputs, NEW p \in 0 .. N - 1, NEW r, NEW m \in GoodMatches(p)
    PROVE  Right(Match(m.dist, m.len), p, r)
<1>1. m.len \in Lens /\ m.dist \in Positions \ {0} /\ Repeats(data, p, m.dist, m.len)
  BY MatchType
<1>2. PICK op : op = Match(m.dist, m.len)
  OBVIOUS
<1>3. op \in Ops /\ op.kind = "Match" /\ op.dist = m.dist /\ op.len = m.len
  BY <1>1, <1>2, SomeOps
<1>4. Describes(data, p, r, op)
  BY <1>1, <1>3 DEF Describes
<1> QED
  BY <1>2, <1>3, <1>4 DEF Right

\* The last match, if it is a nice one.
LEMMA NiceLast ==
    ASSUME effort \in Efforts, NEW p, Searched(p), Nice(LastOf(matches).len)
    PROVE  Last(matches) \in GoodMatches(p)
<1>1. LastOf(matches).len >= effort.nice_len
  BY DEF Nice
<1>2. CASE matches = <<>>
  <2>1. LastOf(matches).len = 0
    BY <1>2 DEF LastOf, NoMatch
  <2> QED
    BY <1>1, <2>1, EffortType
<1>3. CASE matches # <<>>
  <2>1. matches \in Seq(GoodMatches(p))
    BY DEF Searched
  <2>2. Len(matches) \in Nat /\ Len(matches) # 0
    BY <1>3, <2>1, EmptySeq
  <2>3. Len(matches) \in 1 .. Len(matches)
    BY <2>2
  <2>4. matches[Len(matches)] \in GoodMatches(p)
    BY <2>1, <2>3
  <2> QED
    BY <2>4 DEF Last
<1> QED
  BY <1>2, <1>3

LEMMA LongOpsIs ==
    ASSUME data \in Inputs, effort \in Efforts, NEW p \in 0 .. N - 1, NEW r \in Reps,
           Searched(p), LongOps(p, r) # <<>>
    PROVE  \E op : LongOps(p, r) = <<op>> /\ Right(op, p, r)
<1> DEFINE lens == RepLens(p, r, Avail(p))
           best == Longest(lens)
<1>1. p \in 0 .. N
  BY InputType
<1>2. PICK av \in Nat : av = Avail(p) /\ av <= MATCH_MAX_LEN
  BY <1>1, AvailIs
<1>3. lens \in [0 .. 3 -> Nat]
  BY <1>1, <1>2, RepLensIs
<1>4. PICK i \in 0 .. 3 : i = best
  <2> HIDE DEF lens
  <2> QED
    BY <1>3, LongestIs
<1>5. effort.nice_len \in Nat /\ effort.nice_len >= 2 /\ effort.nice_len >= MATCH_MIN_LEN
  BY EffortType
<1>6. LongOps(p, r) = IF Avail(p) < MATCH_MIN_LEN THEN <<>>
                      ELSE IF Nice(lens[i]) THEN <<Rep(i, lens[i])>>
                      ELSE IF Nice(LastOf(matches).len)
                      THEN <<Match(Last(matches).dist, Last(matches).len)>>
                      ELSE <<>>
  BY <1>4 DEF LongOps
<1>7. CASE Nice(lens[i])
  <2>1. LongOps(p, r) = <<Rep(i, lens[i])>>
    BY <1>6, <1>7
  <2>2. lens[i] \in Nat
    <3> HIDE DEF lens
    <3> QED
      BY <1>3
  <2>3. lens[i] >= MATCH_MIN_LEN
    <3>1. lens[i] >= effort.nice_len
      BY <1>7 DEF Nice
    <3> HIDE DEF lens
    <3> QED
      BY <2>2, <3>1, <1>5, Limits
  <2>4. Right(Rep(i, lens[i]), p, r)
    BY <2>3, <1>1, <1>2, RepRight
  <2> QED
    BY <2>1, <2>4
<1>8. CASE ~Nice(lens[i])
  <2>1. /\ LongOps(p, r) = <<Match(Last(matches).dist, Last(matches).len)>>
        /\ Nice(LastOf(matches).len)
    BY <1>6, <1>8
  <2>2. Last(matches) \in GoodMatches(p)
    BY <2>1, NiceLast
  <2>3. Right(Match(Last(matches).dist, Last(matches).len), p, r)
    BY <2>2, MatchRight
  <2> QED
    BY <2>1, <2>3
<1> QED
  BY <1>7, <1>8

\* The match that was stepped down to is one of them.
LEMMA MainIs ==
    ASSUME Deciding, Searched(pos)
    PROVE  Main.len \in Nat /\ (Main.len >= MATCH_MIN_LEN => Main \in GoodMatches(pos))
<1> DEFINE G == GoodMatches(pos)
           Fits(k) == \A j \in k .. Len(matches) - 1 :
                        /\ matches[j].len + 1 = matches[j + 1].len
                        /\ MuchFurther(matches[j].dist, matches[j + 1].dist)
           First(k) == Fits(k) /\ \A j \in 1 .. k - 1 : ~Fits(j)
           first == CHOOSE k \in DOMAIN matches : First(k)
<1>1. matches \in Seq(G)
  BY DEF Searched
<1>2. CASE matches = <<>>
  <2>1. SteppedDown = NoMatch
    BY <1>2 DEF SteppedDown
  <2>2. SteppedDown.len = 0 /\ 0 # 2
    BY <2>1 DEF NoMatch
  <2>3. Main = SteppedDown
    BY <2>2 DEF Main
  <2> QED
    BY <2>2, <2>3, Limits
<1>3. CASE matches # <<>>
  <2>1. PICK m \in Nat : m = Len(matches) /\ m # 0 /\ DOMAIN matches = 1 .. m
    BY <1>1, <1>3, EmptySeq
  <2>2. SteppedDown = matches[first]
    BY <1>3 DEF SteppedDown
  <2> DEFINE S == {k \in 1 .. m : Fits(k)}
  <2>3. m \in S
    <3>1. m .. Len(matches) - 1 = {}
      BY <2>1
    <3>2. m \in 1 .. m
      BY <2>1
    <3> QED
      BY <3>1, <3>2
  <2> HIDE DEF Fits, G
  <2>4. PICK k \in S : \A j \in S : k <= j
    <3>1. S \in SUBSET Nat
      OBVIOUS
    <3> HIDE DEF S
    <3> QED
      BY <2>3, <3>1, LeastNat
  <2>5. First(k)
    <3>1. ASSUME NEW j \in 1 .. k - 1 PROVE ~Fits(j)
      <4>1. j \in 1 .. m /\ ~(k <= j)
        BY <2>4
      <4> QED
        BY <4>1, <2>4
    <3> QED
      BY <3>1, <2>4
  <2>6. k \in DOMAIN matches
    BY <2>1, <2>4
  <2> HIDE DEF First
  <2>7. first \in 1 .. m
    BY <2>1, <2>5, <2>6
  <2> HIDE DEF first
  <2>8. SteppedDown \in G
    BY <1>1, <2>1, <2>2, <2>7
  <2>9. SteppedDown.len \in Lens /\ SteppedDown.len \in Nat
    BY <2>8, LensType DEF G, GoodMatches
  <2>10. CASE SteppedDown.len = 2 /\ SteppedDown.dist > Far
    <3>1. Main = [SteppedDown EXCEPT !.len = 1]
      BY <2>10 DEF Main
    <3>2. SteppedDown \in [len : Lens, dist : 1 .. pos]
      BY <2>8 DEF G, GoodMatches
    <3>3. Main.len = 1
      BY <3>1, <3>2
    <3> QED
      BY <3>3, Limits
  <2>11. CASE ~(SteppedDown.len = 2 /\ SteppedDown.dist > Far)
    <3>1. Main = SteppedDown
      BY <2>11 DEF Main
    <3> QED
      BY <3>1, <2>8, <2>9 DEF G
  <2> QED
    BY <2>10, <2>11
<1> QED
  BY <1>2, <1>3

LEMMA LiteralRight ==
    ASSUME Deciding
    PROVE  Right(LiteralOrShortRep, pos, reps) /\ LiteralOrShortRep.len = 1
<1>1. CASE LiteralOrShortRep = Literal
  BY <1>1, SomeOps, DecidingIs DEF Right, Describes, Deciding
<1>2. CASE LiteralOrShortRep = ShortRep /\ Repeats(data, pos, reps[1] + 1, 1)
  BY <1>2, SomeOps DEF Right, Describes
<1> QED
  BY <1>1, <1>2 DEF LiteralOrShortRep

\* The operations of the fast parser.
LEMMA RepsHereRight ==
    ASSUME Deciding
    PROVE  /\ \A i \in NiceReps : Right(Rep(i, RepsHere[i]), pos, reps)
           /\ RepWins => Right(Rep(Longest(RepsHere), RepsHere[Longest(RepsHere)]), pos, reps)
<1>1. pos \in 0 .. N /\ reps \in Reps /\ data \in Inputs /\ effort \in Efforts
  BY DecidingIs DEF Deciding
<1>2. PICK av \in Nat : av = Avail(pos) /\ av <= MATCH_MAX_LEN
  BY <1>1, AvailIs
<1>3. RepsHere = RepLens(pos, reps, av)
  BY <1>2 DEF RepsHere
<1>4. RepsHere \in [0 .. 3 -> Nat]
  BY <1>1, <1>3, RepLensIs
<1>5. \A i \in 0 .. 3 : RepsHere[i] >= MATCH_MIN_LEN => Right(Rep(i, RepsHere[i]), pos, reps)
  BY <1>1, <1>2, <1>3, RepRight
<1>6. effort.nice_len \in Nat /\ effort.nice_len >= MATCH_MIN_LEN
  BY <1>1, EffortType
<1>7. ASSUME NEW i \in NiceReps PROVE Right(Rep(i, RepsHere[i]), pos, reps)
  <2>1. i \in 0 .. 3 /\ RepsHere[i] >= effort.nice_len
    BY DEF NiceReps, Nice
  <2>2. RepsHere[i] \in Nat
    BY <2>1, <1>4
  <2>3. RepsHere[i] >= MATCH_MIN_LEN
    BY <2>1, <2>2, <1>6, Limits
  <2> QED
    BY <2>1, <2>3, <1>5
<1>8. Longest(RepsHere) \in 0 .. 3
  BY <1>4, LongestIs
<1>9. RepWins => RepsHere[Longest(RepsHere)] >= MATCH_MIN_LEN
  BY DEF RepWins
<1> QED
  BY <1>5, <1>7, <1>8, <1>9

-----------------------------------------------------------------------------
(* What depends on the input, on the finder and on the prices alone does   *)
(* not change while they do not.                                           *)

LEMMA InputSame ==
    ASSUME data' = data
    PROVE  /\ N' = N
           /\ \A p : Avail(p)' = Avail(p)
           /\ \A p, d, l : LenAt(p, d, l)' = LenAt(p, d, l)
           /\ \A p, r, l : RepLens(p, r, l)' = RepLens(p, r, l)
           /\ \A c : Valid(c)' <=> Valid(c)
<1>1. N' = N
  BY DEF N
<1>2. \A p : Avail(p)' = Avail(p)
  BY <1>1 DEF Avail, Smaller
<1> DEFINE F(dt, n, p, d, l) ==
             LET max == Smaller(l, n - p) IN
             IF d > p THEN 0
             ELSE CHOOSE k \in 0 .. max :
                    Repeats(dt, p, d, k) /\ (k < max => ~Repeats(dt, p, d, k + 1))
<1>3. ASSUME NEW p, NEW d, NEW l PROVE LenAt(p, d, l)' = LenAt(p, d, l)
  <2>1. LenAt(p, d, l) = F(data, N, p, d, l)
    BY DEF LenAt
  <2>2. LenAt(p, d, l)' = F(data', N', p, d, l)
    BY DEF LenAt
  <2> HIDE DEF F
  <2> QED
    BY <2>1, <2>2, <1>1
<1>4. ASSUME NEW p, NEW r, NEW l PROVE RepLens(p, r, l)' = RepLens(p, r, l)
  BY <1>3 DEF RepLens
<1>5. \A c : Valid(c)' <=> Valid(c)
  BY <1>1 DEF Valid, Places, States, Reps
<1> QED
  BY <1>1, <1>2, <1>3, <1>4, <1>5

LEMMA LongSame ==
    ASSUME data' = data, effort' = effort, matches' = matches, NEW p, NEW r
    PROVE  LongOps(p, r)' = LongOps(p, r)
<1>1. Avail(p)' = Avail(p)
  BY InputSame
<1>2. RepLens(p, r, Avail(p))' = RepLens(p, r, Avail(p))
  <2>1. PICK a : a = Avail(p)
    OBVIOUS
  <2>2. RepLens(p, r, a)' = RepLens(p, r, a)
    BY InputSame
  <2> QED
    BY <2>1, <2>2, <1>1
<1>3. \A l : Nice(l)' <=> Nice(l)
  BY DEF Nice
<1>4. LastOf(matches)' = LastOf(matches)
  BY DEF LastOf
<1> QED
  BY <1>1, <1>2, <1>3, <1>4 DEF LongOps

LEMMA CodesSame ==
    ASSUME data' = data, model' = model
    PROVE  /\ \A s, p, r, op : Cost(s, p, r, op)' = Cost(s, p, r, op)
           /\ \A a, ops, b : Codes(a, ops, b)' <=> Codes(a, ops, b)
<1>1. \A s, p, r, op : Cost(s, p, r, op)' = Cost(s, p, r, op)
  BY DEF Cost, MatchByte, NoMatchByte, Literal, Op
<1>2. \A a, op : Coded(a, op)' = Coded(a, op)
  BY <1>1 DEF Coded
<1>3. \A a, op, b : CodesOp(a, op, b)' <=> CodesOp(a, op, b)
  BY <1>2, InputSame DEF CodesOp, Ops
<1>4. \A C, a, ops, b : Chain(C, a, ops, b)' <=> Chain(C, a, ops, b)
  BY <1>3 DEF Chain
<1> QED
  BY <1>1, <1>4, InputSame DEF Codes, Ops

LEMMA OpsSame ==
    ASSUME data' = data, finder' = finder
    PROVE  /\ \A p : Found(p)' = Found(p)
           /\ \A n, p : OpsAt(n, p)' = OpsAt(n, p)
<1>1. \A p : Found(p)' = Found(p)
  BY DEF Found
<1>2. \A p, l : DistFor(p, l)' = DistFor(p, l)
  BY <1>1 DEF DistFor
<1>3. \A p : Avail(p)' = Avail(p)
  BY InputSame
<1> QED
  BY <1>1, <1>2, <1>3 DEF OpsAt

-----------------------------------------------------------------------------
(* The inductive invariant.                                                *)

Increasing(s) == \A i \in 1 .. Len(s) - 1 : s[i] < s[i + 1]
Below(s, n) == \A i \in 1 .. Len(s) : s[i] < n

LEMMA SearchMore ==
    ASSUME NEW s \in Seq(Nat), Increasing(s), NEW n \in Nat, Below(s, n)
    PROVE  /\ Append(s, n) \in Seq(Nat)
           /\ Increasing(Append(s, n)) /\ Below(Append(s, n), n + 1)
<1>1. PICK m \in Nat : m = Len(s) /\ \A i \in 1 .. m : s[i] \in Nat /\ s[i] < n
  BY DEF Below
<1> DEFINE t == Append(s, n)
<1>2. /\ t \in Seq(Nat) /\ Len(t) = m + 1 /\ t[m + 1] = n
      /\ \A i \in 1 .. m : t[i] = s[i]
  BY <1>1
<1> HIDE DEF t
<1>3. ASSUME NEW i \in 1 .. m PROVE t[i] < t[i + 1]
  <2>1. CASE i = m
    BY <2>1, <1>1, <1>2
  <2>2. CASE i # m
    <3>1. i + 1 \in 1 .. m /\ i \in 1 .. m - 1
      BY <2>2
    <3>2. s[i] < s[i + 1]
      BY <3>1, <1>1 DEF Increasing
    <3> QED
      BY <3>1, <3>2, <1>2
  <2> QED
    BY <2>1, <2>2
<1>4. Increasing(t)
  BY <1>2, <1>3 DEF Increasing
<1>5. ASSUME NEW i \in 1 .. m + 1 PROVE t[i] < n + 1
  <2>1. CASE i = m + 1
    BY <2>1, <1>2
  <2>2. CASE i # m + 1
    <3>1. i \in 1 .. m
      BY <2>2
    <3> QED
      BY <3>1, <1>1, <1>2
  <2> QED
    BY <2>1, <2>2
<1>6. Below(t, n + 1)
  BY <1>2, <1>5 DEF Below
<1> QED
  BY <1>2, <1>4, <1>6 DEF t

LEMMA BelowMore ==
    ASSUME NEW s \in Seq(Nat), NEW m \in Nat, NEW n \in Nat, Below(s, m), m <= n
    PROVE  Below(s, n)
<1>1. \A i \in 1 .. Len(s) : s[i] \in Nat /\ s[i] < m
  BY DEF Below
<1>2. \A i \in 1 .. Len(s) : s[i] < n
  BY <1>1
<1> QED
  BY <1>2 DEF Below

TypeOK ==
    /\ data \in Inputs /\ effort \in Efforts /\ model \in Models
    /\ \A p \in 0 .. N - 1 : Found(p) \in Seq(GoodMatches(p))
    /\ Valid(Here)
    /\ asked \in Seq(Nat) /\ have \in BOOLEAN
    /\ NodesType
    /\ len_end \in 0 .. MaxNode /\ cur \in 0 .. OPT_LEN
    /\ pc \in {"search", "choose", "stretch", "relax", "visit", "long", "trace", "emit", "done"}

\* One more position has been searched if matches are kept.
Ahead == IF have THEN 1 ELSE 0

\* The search may go on at c, where a decision ends; matches that are kept are
\* those of c, and a stretch that kept them did so for a long operation.
Ready(c) ==
    /\ Below(asked, c.pos + Ahead)
    /\ have /\ c.pos < N => matches = Found(c.pos)
    /\ have /\ effort.parse = "Optimal" => LongOps(c.pos, c.reps) # <<>>

Optimal == pc \in {"stretch", "relax", "visit", "long", "trace"}

InSearch == pc = "search" => Ready(Here)

InDecision ==
    pc \in {"choose", "stretch"} =>
        /\ pos < N /\ Below(asked, pos + 1) /\ matches = Found(pos)
        /\ pc = "stretch" /\ have => LongOps(pos, reps) # <<>>

\* The operations not yet emitted can be coded from here.
InEmit ==
    pc = "emit" =>
        \E a, c : /\ a.pos = pos /\ a.state = state /\ a.reps = reps
                  /\ Codes(a, path, c) /\ Ready(c)

\* Whatever node has been reached has been reached from those before n.
ReachedFrom(n) ==
    \A i \in n .. len_end :
        nodes[i].price < Infinity => nodes[i].prev < n /\ Reaches(nodes, i)

\* No operation leads from a node before n to another one for less.
Passed(n) ==
    \A i \in 0 .. n - 1 : \A op \in OpsAt(nodes[i], pos + i) :
        /\ i + op.len <= len_end
        /\ nodes[i + op.len].price
             <= nodes[i].price + Cost(nodes[i].state, pos + i, nodes[i].reps, op)

\* The nodes before n are settled and nothing is kept.
InStretch(n) ==
    /\ cur <= len_end /\ pos + len_end <= N
    /\ SettledTo(n) /\ ReachedFrom(n) /\ Passed(cur)
    /\ ~have /\ Below(asked, pos + n)

InVisit ==
    pc = "visit" => InStretch(cur) /\ cur >= 1 /\ nodes[cur].price < Infinity

InNode ==
    pc \in {"long", "relax"} =>
        /\ InStretch(cur + 1)
        /\ cur < OPT_LEN /\ pos + cur < N /\ matches = Found(pos + cur)
        /\ pc = "long" => cur >= 1

InTrace ==
    pc = "trace" =>
        /\ cur >= 1 /\ cur <= len_end
        /\ SettledTo(cur) /\ Passed(cur) /\ Reaches(nodes, cur)
        /\ Below(asked, pos + cur + Ahead)
        /\ have => /\ Codes(Placed(nodes, nodes[cur].prev), nodes[cur].ops, Placed(nodes, cur))
                   /\ matches = Found(pos + cur)
                   /\ LongOps(pos + cur, nodes[cur].reps) # <<>>

IInv ==
    /\ TypeOK
    /\ Increasing(asked)
    /\ pc = "choose" => effort.parse = "Fast"
    /\ Optimal => effort.parse = "Optimal"
    /\ InSearch /\ InDecision /\ InEmit
    /\ InVisit /\ InNode /\ InTrace

LEMMA HereIs ==
    ASSUME TypeOK
    PROVE  /\ Here.pos = pos /\ Here.state = state /\ Here.reps = reps /\ Here.price = 0
           /\ pos \in Nat /\ state \in States /\ reps \in Reps /\ N \in Nat /\ pos <= N
           /\ N = Len(data)
<1>1. Here.pos = pos /\ Here.state = state /\ Here.reps = reps /\ Here.price = 0
  BY DEF Here
<1>2. Valid(Here) /\ data \in Inputs
  BY DEF TypeOK
<1> QED
  BY <1>1, <1>2, PlaceType, InputType

\* What a step that changes nothing but prices and what has been searched keeps.
LEMMA TypeKept ==
    ASSUME TypeOK, UNCHANGED input, model' \in Models, Valid(Here)',
           asked' \in Seq(Nat), have' \in BOOLEAN, NodesType',
           len_end' \in 0 .. MaxNode, cur' \in 0 .. OPT_LEN,
           pc' \in {"search", "choose", "stretch", "relax", "visit", "long", "trace", "emit", "done"}
    PROVE  TypeOK'
<1>1. data' = data /\ effort' = effort /\ finder' = finder
  BY DEF input
<1>2. N' = N /\ \A p : Found(p)' = Found(p)
  BY <1>1, InputSame, OpsSame
<1>3. \A p : GoodMatches(p)' = GoodMatches(p)
  BY <1>1 DEF GoodMatches, Lens
<1>4. \A p \in 0 .. N' - 1 : Found(p)' \in Seq(GoodMatches(p)')
  BY <1>2, <1>3 DEF TypeOK
<1> QED
  BY <1>1, <1>4 DEF TypeOK

LEMMA EncoderKept ==
    ASSUME TypeOK, UNCHANGED <<input, encoder>>
    PROVE  /\ Here' = Here /\ Valid(Here)'
           /\ data' = data /\ effort' = effort /\ finder' = finder
           /\ pos' = pos /\ state' = state /\ reps' = reps /\ N' = N
           /\ data \in Inputs /\ effort \in Efforts
<1>1. /\ data' = data /\ effort' = effort /\ finder' = finder
      /\ pos' = pos /\ state' = state /\ reps' = reps
  BY DEF input, encoder
<1>2. Here' = Here
  BY <1>1 DEF Here
<1>3. PICK h : h = Here
  OBVIOUS
<1>4. Valid(h)' /\ N' = N
  BY <1>1, <1>3, InputSame DEF TypeOK
<1> QED
  BY <1>1, <1>2, <1>3, <1>4 DEF TypeOK

LEMMA GraphKept ==
    ASSUME TypeOK, UNCHANGED graph
    PROVE  /\ NodesType' /\ nodes' = nodes /\ len_end' = len_end /\ cur' = cur
           /\ len_end' \in 0 .. MaxNode /\ cur' \in 0 .. OPT_LEN
<1>1. nodes' = nodes /\ len_end' = len_end /\ cur' = cur
  BY DEF graph
<1>2. NodesType /\ len_end \in 0 .. MaxNode /\ cur \in 0 .. OPT_LEN
  BY DEF TypeOK
<1>3. NodesType'
  BY <1>1, <1>2 DEF NodesType
<1> QED
  BY <1>1, <1>2, <1>3

LEMMA SearchStep ==
    ASSUME IInv, Search
    PROVE  IInv'
<1>1. /\ TypeOK /\ Increasing(asked) /\ Ready(Here) /\ pc = "search"
  BY DEF IInv, InSearch, Search
<1>2. /\ pos < N /\ model' \in Models /\ UNCHANGED <<input, encoder, have, path, graph>>
      /\ pc' = IF effort.parse = "Fast" THEN "choose" ELSE "stretch"
      /\ IF have THEN UNCHANGED search ELSE Find(pos)
  BY DEF Search
<1>3. /\ Here' = Here /\ Valid(Here)'
      /\ data' = data /\ effort' = effort /\ finder' = finder
      /\ pos' = pos /\ state' = state /\ reps' = reps /\ N' = N
      /\ data \in Inputs /\ effort \in Efforts
  BY <1>1, <1>2, EncoderKept
<1>4. effort.parse \in {"Fast", "Optimal"}
  BY <1>3, EffortType
<1>5. pc' \in {"choose", "stretch"} /\ (pc' = "choose" <=> effort.parse = "Fast")
  BY <1>2, <1>4
<1>6. have' = have /\ have \in BOOLEAN /\ asked \in Seq(Nat)
  BY <1>1, <1>2 DEF TypeOK
<1>7. pos \in Nat /\ Here.pos = pos /\ Here.reps = reps
  BY <1>1, HereIs
<1>8. /\ asked' \in Seq(Nat) /\ Increasing(asked') /\ Below(asked', pos + 1)
      /\ matches' = Found(pos)
      /\ pc' = "stretch" /\ have => LongOps(pos, reps)' # <<>>
  <2>1. CASE have
    <3>1. asked' = asked /\ matches' = matches
      BY <1>2, <2>1 DEF search
    <3>2. /\ Below(asked, pos + 1) /\ matches = Found(pos)
          /\ effort.parse = "Optimal" => LongOps(pos, reps) # <<>>
      BY <1>1, <1>2, <1>7, <2>1 DEF Ready, Ahead
    <3>3. LongOps(pos, reps)' = LongOps(pos, reps)
      <4>1. PICK p, r : p = pos /\ r = reps
        OBVIOUS
      <4>2. LongOps(p, r)' = LongOps(p, r)
        BY <1>3, <3>1, LongSame
      <4> QED
        BY <4>1, <4>2, <1>3
    <3> QED
      BY <3>1, <3>2, <3>3, <1>1, <1>4, <1>5, <1>6
  <2>2. CASE ~have
    <3>1. asked' = Append(asked, pos) /\ matches' = Found(pos)
      BY <1>2, <2>2 DEF Find
    <3>2. Below(asked, pos)
      <4>1. Below(asked, pos + 0)
        BY <1>1, <1>7, <2>2 DEF Ready, Ahead
      <4> QED
        BY <4>1, <1>7
    <3> QED
      BY <3>1, <3>2, <2>2, <1>1, <1>6, <1>7, SearchMore
  <2> QED
    BY <2>1, <2>2
<1>9. TypeOK'
  <2>1. NodesType' /\ len_end' \in 0 .. MaxNode /\ cur' \in 0 .. OPT_LEN
    BY <1>1, <1>2, GraphKept
  <2> QED
    BY <2>1, <1>1, <1>2, <1>3, <1>5, <1>6, <1>8, TypeKept
<1>10. InDecision'
  <2>1. Found(pos)' = Found(pos)
    BY <1>3 DEF Found
  <2> QED
    BY <2>1, <1>2, <1>3, <1>6, <1>8 DEF InDecision
<1> QED
  BY <1>3, <1>4, <1>5, <1>8, <1>9, <1>10
     DEF IInv, Optimal, InSearch, InEmit, InVisit, InNode, InTrace

\* A step that decides on one operation.
LEMMA DecisionStep ==
    ASSUME IInv, pc \in {"choose", "stretch"}, UNCHANGED <<input, encoder, model, graph>>,
           pc' = "emit", NEW op, Right(op, pos, reps), path' = <<op>>,
           asked' \in Seq(Nat), Increasing(asked'), have' \in BOOLEAN,
           Below(asked', pos + op.len + (IF have' THEN 1 ELSE 0)),
           have' => effort.parse = "Fast",
           have' /\ pos + op.len < N => matches' = Found(pos + op.len)
    PROVE  IInv'
<1>1. TypeOK
  BY DEF IInv
<1>2. UNCHANGED input /\ UNCHANGED encoder /\ model' = model /\ UNCHANGED graph
  OBVIOUS
<1>3. /\ Here' = Here /\ Valid(Here)'
      /\ data' = data /\ effort' = effort /\ finder' = finder
      /\ pos' = pos /\ state' = state /\ reps' = reps /\ N' = N
      /\ data \in Inputs /\ effort \in Efforts /\ model \in Models
  BY <1>1, <1>2, EncoderKept DEF TypeOK
<1>4. TypeOK'
  <2>1. NodesType' /\ len_end' \in 0 .. MaxNode /\ cur' \in 0 .. OPT_LEN
    BY <1>1, <1>2, GraphKept
  <2> QED
    BY <2>1, <1>1, <1>2, <1>3, TypeKept
<1>5. PICK h : h = Here
  OBVIOUS
<1>6. h.pos = pos /\ h.state = state /\ h.reps = reps /\ Valid(h) /\ pos \in Nat
  BY <1>1, <1>5, HereIs DEF TypeOK
<1>7. PICK c : Codes(h, <<op>>, c) /\ c.pos = pos + op.len
  <2>1. op \in Ops /\ Describes(data, h.pos, h.reps, op)
    BY <1>6 DEF Right
  <2>2. CodesOp(h, op, Coded(h, op)) /\ Coded(h, op).pos = h.pos + op.len
    BY <2>1, <1>3, <1>6, CodeOne
  <2>3. Codes(h, <<op>>, Coded(h, op))
    BY <2>2, CodesSingle
  <2> QED
    BY <2>2, <2>3, <1>6
<1>8. Codes(h, <<op>>, c)'
  <2>1. PICK ops : ops = <<op>>
    OBVIOUS
  <2>2. Codes(h, ops, c)'
    BY <2>1, <1>2, <1>3, <1>7, CodesSame
  <2> QED
    BY <2>1, <2>2
<1>9. Ready(c)'
  <2>1. Below(asked', c.pos + Ahead')
    BY <1>7 DEF Ahead
  <2>2. have' /\ c.pos < N' => matches' = Found(c.pos)'
    <3>1. Found(c.pos)' = Found(c.pos)
      BY <1>3 DEF Found
    <3> QED
      BY <3>1, <1>3, <1>7
  <2>3. ~(have' /\ effort'.parse = "Optimal")
    BY <1>3
  <2> QED
    BY <2>1, <2>2, <2>3 DEF Ready
<1>10. InEmit'
  <2>1. h.pos = pos' /\ h.state = state' /\ h.reps = reps'
    BY <1>3, <1>6
  <2>2. Codes(h, path, c)'
    BY <1>8
  <2> QED
    BY <2>1, <2>2, <1>9 DEF InEmit
<1> QED
  BY <1>4, <1>10 DEF IInv, Optimal, InSearch, InDecision, InVisit, InNode, InTrace

LEMMA RightLen ==
    ASSUME NEW op, NEW p, NEW r, Right(op, p, r)
    PROVE  op.len \in Nat /\ op.len >= 1
  BY OpKinds DEF Right

\* One that keeps nothing.
LEMMA DecisionKeepsNone ==
    ASSUME IInv, pc \in {"choose", "stretch"}, UNCHANGED <<input, encoder, model, graph>>,
           pc' = "emit", NEW op, Right(op, pos, reps), path' = <<op>>, have' = FALSE,
           asked' = asked \/ (asked' = Append(asked, pos + 1) /\ op.len >= 2)
    PROVE  IInv'
<1>1. /\ TypeOK /\ Increasing(asked) /\ asked \in Seq(Nat) /\ Below(asked, pos + 1)
  BY DEF IInv, TypeOK, InDecision
<1>2. pos \in Nat /\ op.len \in Nat /\ op.len >= 1
  BY <1>1, HereIs, RightLen
<1>3. PICK l \in Nat : l = op.len /\ l >= 1
  BY <1>2
<1>4. asked' \in Seq(Nat) /\ Increasing(asked') /\ Below(asked', pos + l)
  <2>1. CASE asked' = asked
    <3>1. pos + 1 <= pos + l /\ pos + 1 \in Nat /\ pos + l \in Nat
      BY <1>2, <1>3
    <3>2. Below(asked, pos + l)
      BY <3>1, <1>1, BelowMore
    <3> QED
      BY <2>1, <3>2, <1>1
  <2>2. CASE asked' = Append(asked, pos + 1) /\ l >= 2
    <3>1. PICK n \in Nat : n = pos + 1
      BY <1>2
    <3>2. /\ Append(asked, n) \in Seq(Nat)
          /\ Increasing(Append(asked, n)) /\ Below(Append(asked, n), n + 1)
      BY <3>1, <1>1, SearchMore
    <3>3. n + 1 <= pos + l /\ n + 1 \in Nat /\ pos + l \in Nat
      BY <3>1, <2>2, <1>2
    <3>4. Below(Append(asked, n), pos + l)
      BY <3>2, <3>3, BelowMore
    <3> QED
      BY <2>2, <3>1, <3>2, <3>4
  <2> QED
    BY <2>1, <2>2, <1>3
<1>5. Below(asked', pos + op.len + (IF have' THEN 1 ELSE 0))
  <2>1. pos + op.len + 0 = pos + l
    BY <1>2, <1>3
  <2> QED
    BY <2>1, <1>4
<1> QED
  BY <1>4, <1>5, DecisionStep

LEMMA ChoosingIs ==
    ASSUME IInv, pc \in {"choose", "stretch"}
    PROVE  /\ Deciding /\ Searched(pos) /\ pos \in Nat /\ N \in Nat
           /\ pc = "choose" => effort.parse = "Fast"
<1>1. /\ data \in Inputs /\ effort \in Efforts /\ Valid(Here)
      /\ pos < N /\ matches = Found(pos)
      /\ pc = "choose" => effort.parse = "Fast"
      /\ \A p \in 0 .. N - 1 : Found(p) \in Seq(GoodMatches(p))
  BY DEF IInv, TypeOK, InDecision
<1>2. Deciding
  BY <1>1 DEF Deciding
<1>3. pos \in 0 .. N - 1
  BY <1>2, DecidingIs
<1> QED
  BY <1>1, <1>2, <1>3, DecidingIs DEF Searched

LEMMA ChooseRepStep ==
    ASSUME IInv, ChooseRep
    PROVE  IInv'
<1>1. pc = "choose" /\ have' = FALSE /\ asked' = asked
  BY DEF ChooseRep, Choosing, search
<1>2. PICK op : Right(op, pos, reps) /\ Decide(op)
  <2>1. /\ \A i \in NiceReps : Right(Rep(i, RepsHere[i]), pos, reps)
        /\ RepWins => Right(Rep(Longest(RepsHere), RepsHere[Longest(RepsHere)]), pos, reps)
    BY <1>1, ChoosingIs, RepsHereRight
  <2> QED
    BY <2>1 DEF ChooseRep
<1>3. path' = <<op>> /\ pc' = "emit" /\ UNCHANGED <<input, encoder, model, graph>>
  BY <1>2 DEF Decide
<1> QED
  BY <1>1, <1>2, <1>3, DecisionKeepsNone

LEMMA ChooseNiceMatchStep ==
    ASSUME IInv, ChooseNiceMatch
    PROVE  IInv'
<1>1. /\ pc = "choose" /\ have' = FALSE /\ asked' = asked /\ Nice(LastOf(matches).len)
      /\ Decide(Match(Last(matches).dist, Last(matches).len))
  BY DEF ChooseNiceMatch, Choosing, search
<1>2. Deciding /\ Searched(pos) /\ pos \in 0 .. N - 1 /\ data \in Inputs /\ effort \in Efforts
  BY <1>1, ChoosingIs, DecidingIs DEF Deciding
<1>3. PICK op : op = Match(Last(matches).dist, Last(matches).len)
  OBVIOUS
<1>4. Right(op, pos, reps)
  BY <1>1, <1>2, <1>3, NiceLast, MatchRight
<1>5. path' = <<op>> /\ pc' = "emit" /\ UNCHANGED <<input, encoder, model, graph>>
  BY <1>1, <1>3 DEF Decide
<1> QED
  BY <1>1, <1>4, <1>5, DecisionKeepsNone

LEMMA ChooseMatchStep ==
    ASSUME IInv, ChooseMatch
    PROVE  IInv'
<1>1. /\ pc = "choose" /\ have' = FALSE /\ asked' = Append(asked, pos + 1)
      /\ NothingNice /\ ~RepWins /\ ~NothingGood
      /\ Decide(Match(Main.dist, Main.len))
  BY DEF ChooseMatch, LookingAhead, Choosing
<1>2. Deciding /\ Searched(pos) /\ pos \in 0 .. N - 1 /\ data \in Inputs
  BY <1>1, ChoosingIs, DecidingIs DEF Deciding
<1>3. Main.len \in Nat /\ (Main.len >= MATCH_MIN_LEN => Main \in GoodMatches(pos))
  BY <1>2, MainIs
<1>4. Main.len >= MATCH_MIN_LEN /\ Main.len >= 2
  <2>1. ~(Main.len < MATCH_MIN_LEN)
    BY <1>1 DEF NothingGood
  <2> QED
    BY <2>1, <1>3, Limits
<1>5. PICK op : op = Match(Main.dist, Main.len)
  OBVIOUS
<1>6. Right(op, pos, reps)
  BY <1>2, <1>3, <1>4, <1>5, MatchRight
<1>7. op.len >= 2
  BY <1>4, <1>5, SomeOps
<1>8. path' = <<op>> /\ pc' = "emit" /\ UNCHANGED <<input, encoder, model, graph>>
  BY <1>1, <1>5 DEF Decide
<1> QED
  BY <1>1, <1>6, <1>7, <1>8, DecisionKeepsNone

\* A literal keeps the matches after it.
LEMMA LiteralStep ==
    ASSUME IInv, pc = "choose", Decide(LiteralOrShortRep), have' = TRUE,
           IF pos + 1 < N THEN LookAhead ELSE UNCHANGED asked
    PROVE  IInv'
<1>1. Deciding /\ pos \in Nat /\ effort.parse = "Fast"
  BY ChoosingIs
<1>2. PICK op : op = LiteralOrShortRep
  OBVIOUS
<1>3. Right(op, pos, reps) /\ op.len = 1
  BY <1>1, <1>2, LiteralRight
<1>4. path' = <<op>> /\ pc' = "emit" /\ UNCHANGED <<input, encoder, model, graph>>
  BY <1>2 DEF Decide
<1>5. Increasing(asked) /\ asked \in Seq(Nat) /\ Below(asked, pos + 1)
  BY DEF IInv, TypeOK, InDecision
<1>6. PICK n \in Nat : n = pos + 1 /\ pos + 1 + 1 = n + 1
  BY <1>1
<1>7. asked' \in Seq(Nat) /\ Increasing(asked') /\ Below(asked', n + 1)
      /\ (n < N => matches' = Found(n))
  <2>1. CASE n < N
    <3>1. asked' = Append(asked, n) /\ matches' = Found(n)
      BY <2>1, <1>6 DEF LookAhead, Find
    <3> QED
      BY <3>1, <1>5, <1>6, SearchMore
  <2>2. CASE ~(n < N)
    <3>1. asked' = asked
      BY <2>2, <1>6
    <3>2. n <= n + 1 /\ n + 1 \in Nat
      OBVIOUS
    <3>3. Below(asked, n + 1)
      BY <3>2, <1>5, <1>6, BelowMore
    <3> QED
      BY <2>2, <3>1, <3>3, <1>5
  <2> QED
    BY <2>1, <2>2
<1>8. /\ Below(asked', pos + op.len + (IF have' THEN 1 ELSE 0))
      /\ have' /\ pos + op.len < N => matches' = Found(pos + op.len)
      /\ have' \in BOOLEAN /\ (have' => effort.parse = "Fast")
  BY <1>1, <1>3, <1>6, <1>7
<1> QED
  BY <1>3, <1>4, <1>7, <1>8, DecisionStep

LEMMA ChooseLiteralStep ==
    ASSUME IInv, ChooseLiteral
    PROVE  IInv'
<1>1. /\ pc = "choose" /\ Decide(LiteralOrShortRep) /\ have' = TRUE
      /\ IF pos + 1 < N THEN LookAhead ELSE UNCHANGED asked
  BY DEF ChooseLiteral
<1> QED
  BY <1>1, LiteralStep

LEMMA ChooseLaterStep ==
    ASSUME IInv, ChooseLater
    PROVE  IInv'
<1>1. /\ pc = "choose" /\ Decide(LiteralOrShortRep) /\ have' = TRUE /\ LookAhead
      /\ ~TooShort
  BY DEF ChooseLater, LookingAhead, Choosing
<1>2. pos + 1 < N
  <2>1. Deciding
    BY <1>1, ChoosingIs
  <2>2. pos \in Nat /\ N \in Nat /\ pos \in 0 .. N /\ data \in Inputs
    BY <2>1, DecidingIs DEF Deciding
  <2>3. PICK a \in Nat : a = Avail(pos) /\ pos + a <= N
    BY <2>2, AvailIs
  <2>4. a >= 2
    <3>1. ~(a < MATCH_MIN_LEN)
      BY <2>3, <1>1 DEF TooShort
    <3> QED
      BY <3>1, Limits
  <2> QED
    BY <2>2, <2>3, <2>4
<1> QED
  BY <1>1, <1>2, LiteralStep

LEMMA TakeLongStep ==
    ASSUME IInv, TakeLong
    PROVE  IInv'
<1>1. /\ pc = "stretch" /\ LongOps(pos, reps) # <<>> /\ path' = LongOps(pos, reps)
      /\ have' = FALSE /\ pc' = "emit" /\ asked' = asked
      /\ UNCHANGED <<input, encoder, model, graph>>
  BY DEF TakeLong, search
<1>2. /\ Searched(pos) /\ pos \in 0 .. N - 1 /\ reps \in Reps
      /\ data \in Inputs /\ effort \in Efforts
  BY <1>1, ChoosingIs, DecidingIs DEF Deciding
<1>3. PICK op : LongOps(pos, reps) = <<op>> /\ Right(op, pos, reps)
  BY <1>1, <1>2, LongOpsIs
<1> QED
  BY <1>1, <1>3, DecisionKeepsNone

\* A node is all a place has but where it is.
LEMMA PlacedIs ==
    ASSUME NEW ns, NEW i
    PROVE  /\ Placed(ns, i).pos = pos + i /\ Placed(ns, i).state = ns[i].state
           /\ Placed(ns, i).reps = ns[i].reps /\ Placed(ns, i).price = ns[i].price
  BY DEF Placed, PlaceAt

LEMMA BeginStretchStep ==
    ASSUME IInv, BeginStretch
    PROVE  IInv'
<1> DEFINE first == Node(0, 0, <<Literal>>, state, reps)
<1>1. /\ pc = "stretch" /\ nodes' = [nodes EXCEPT ![0] = first]
      /\ len_end' = 0 /\ cur' = 0 /\ have' = FALSE /\ pc' = "relax"
      /\ asked' = asked /\ matches' = matches /\ model' = model
      /\ UNCHANGED <<input, encoder>> /\ UNCHANGED input
  BY DEF BeginStretch, search
<1>2. /\ TypeOK /\ Increasing(asked) /\ asked \in Seq(Nat) /\ Below(asked, pos + 1)
      /\ pos < N /\ matches = Found(pos) /\ NodesType /\ model \in Models
      /\ effort.parse = "Optimal"
  BY <1>1 DEF IInv, TypeOK, InDecision, Optimal
<1>3. /\ Here' = Here /\ Valid(Here)'
      /\ data' = data /\ effort' = effort /\ finder' = finder
      /\ pos' = pos /\ state' = state /\ reps' = reps /\ N' = N
  BY <1>1, <1>2, EncoderKept
<1>4. pos \in Nat /\ N \in Nat /\ state \in States /\ reps \in Reps /\ pos + 0 = pos
  BY <1>2, HereIs
<1>5. MaxNode \in Nat /\ 0 \in 0 .. MaxNode /\ OPT_LEN \in Nat /\ OPT_LEN >= 1
  BY Limits
<1>6. first \in NodeRecs /\ first.state = state /\ first.reps = reps /\ first.price = 0
  <2>1. <<Literal>> \in Seq(Ops)
    BY SomeOps
  <2> QED
    BY <2>1, <1>4, <1>5 DEF Node, NodeRecs
<1> HIDE DEF first
<1>7. NodesType' /\ nodes'[0] = first
  <2>1. nodes \in [0 .. MaxNode -> NodeRecs] /\ \A i \in 1 .. MaxNode : nodes[i].prev < i
    BY <1>2 DEF NodesType
  <2>2. nodes' \in [0 .. MaxNode -> NodeRecs] /\ nodes'[0] = first
    BY <2>1, <1>1, <1>5, <1>6
  <2>3. \A i \in 1 .. MaxNode : nodes'[i] = nodes[i]
    BY <2>1, <1>1
  <2> QED
    BY <2>1, <2>2, <2>3 DEF NodesType
<1>8. TypeOK'
  <2>1. len_end' \in 0 .. MaxNode /\ cur' \in 0 .. OPT_LEN
    BY <1>1, <1>5
  <2> QED
    BY <2>1, <1>1, <1>2, <1>3, <1>7, TypeKept
<1>9. Placed(nodes, 0)' = Here'
  <2>1. Placed(nodes, 0)' = PlaceAt(first, pos)
    BY <1>3, <1>4, <1>7 DEF Placed
  <2>2. PlaceAt(first, pos) = Here
    BY <1>6 DEF PlaceAt, Here
  <2> QED
    BY <2>1, <2>2, <1>3
<1>10. InNode'
  <2>1. SettledTo(1)'
    BY <1>9 DEF SettledTo
  <2>2. ReachedFrom(1)' /\ Passed(0)'
    <3>1. 1 .. len_end' = {} /\ 0 .. 0 - 1 = {}
      BY <1>1
    <3> QED
      BY <3>1 DEF ReachedFrom, Passed
  <2>3. Found(pos)' = Found(pos)
    BY <1>3 DEF Found
  <2>4. InStretch(1)'
    BY <2>1, <2>2, <1>1, <1>2, <1>3, <1>4 DEF InStretch
  <2>5. cur' + 1 = 1 /\ cur' < OPT_LEN /\ pos' + cur' = pos
    BY <1>1, <1>3, <1>4, <1>5
  <2>6. InStretch(cur + 1)'
    BY <2>4, <2>5
  <2>7. matches' = Found(pos + cur)'
    <3>1. PICK p : p = pos' + cur'
      OBVIOUS
    <3>2. Found(p)' = Found(pos)
      BY <3>1, <2>5, <1>3 DEF Found
    <3> QED
      BY <3>1, <3>2, <1>1, <1>2
  <2> QED
    BY <2>5, <2>6, <2>7, <1>1, <1>2, <1>3 DEF InNode
<1> QED
  BY <1>1, <1>2, <1>3, <1>8, <1>10
     DEF IInv, Optimal, InSearch, InDecision, InEmit, InVisit, InTrace

\* The operations at a node are right, and have their price.
LEMMA OpsAtIs ==
    ASSUME NEW n, NEW p, CanExpand(n, p), Found(p) \in Seq(GoodMatches(p)), NEW op \in OpsAt(n, p)
    PROVE  /\ Right(op, p, n.reps) /\ op.len \in Nat /\ op.len >= 1
           /\ Cost(n.state, p, n.reps, op) \in Nat /\ Cost(n.state, p, n.reps, op) <= MaxPrice
<1>1. data \in Inputs /\ model \in Models /\ p \in 0 .. N - 1 /\ N \in Nat /\ N = Len(data)
      /\ p \in Nat /\ n.reps \in Reps /\ Valid(PlaceAt(n, p))
  BY NodeType DEF CanExpand
<1>2. PICK av \in Nat : av = Avail(p) /\ av <= MATCH_MAX_LEN
  <2>1. p \in 0 .. N
    BY <1>1
  <2> QED
    BY <2>1, <1>1, AvailIs
<1>3. MATCH_MIN_LEN .. av \subseteq Lens
  BY <1>2, Limits DEF Lens
<1>4. Right(op, p, n.reps)
  <2>1. CASE op = Literal
    BY <2>1, <1>1, SomeOps DEF Right, Describes
  <2>2. CASE op = ShortRep /\ Describes(data, p, n.reps, op)
    BY <2>2, SomeOps DEF Right
  <2>3. CASE \E i \in 0 .. 3, l \in MATCH_MIN_LEN .. av :
               op = Rep(i, l) /\ Describes(data, p, n.reps, op)
    BY <2>3, <1>3, SomeOps DEF Right
  <2>4. CASE \E l \in MATCH_MIN_LEN .. av : \E d \in DistFor(p, l) : op = Match(d, l)
    <3>1. PICK l \in MATCH_MIN_LEN .. av : \E d \in DistFor(p, l) : op = Match(d, l)
      BY <2>4
    <3>2. PICK d \in DistFor(p, l) : op = Match(d, l)
      BY <3>1
    <3>3. PICK k \in DOMAIN Found(p) : d = Found(p)[k].dist /\ l <= Found(p)[k].len
      BY <3>2 DEF DistFor
    <3>4. PICK m \in GoodMatches(p) : d = m.dist /\ l <= m.len
      <4>1. Found(p)[k] \in GoodMatches(p)
        BY <3>3
      <4> QED
        BY <3>3, <4>1
    <3>5. m.len \in Lens /\ d \in Positions \ {0} /\ d \in Nat /\ Repeats(data, p, d, m.len)
      BY <1>1, <3>4, MatchType
    <3>6. PICK ml \in Nat : ml = m.len
      BY <3>5, LensType
    <3>7. l \in Nat /\ l \in 0 .. ml /\ l \in Lens
      BY <1>2, <1>3, <3>4, <3>6, Limits
    <3>8. Repeats(data, p, d, l)
      BY <1>1, <3>5, <3>6, <3>7, Repeated
    <3>9. op.kind = "Match" /\ op.dist = d /\ op.len = l /\ op \in Ops
      BY <3>2, <3>5, <3>7, SomeOps
    <3> QED
      BY <3>8, <3>9 DEF Right, Describes
  <2> QED
    BY <2>1, <2>2, <2>3, <2>4, <1>2 DEF OpsAt
<1>5. op.len \in Nat /\ op.len >= 1 /\ op \in Ops
  BY <1>4, OpKinds DEF Right
<1>6. PICK c : c = PlaceAt(n, p)
  OBVIOUS
<1>7. c.pos = p /\ c.state = n.state /\ c.reps = n.reps /\ Valid(c)
  BY <1>1, <1>6, NodeType
<1>8. c.pos < N
  BY <1>1, <1>7
<1>9. Cost(c.state, c.pos, c.reps, op) \in Nat /\ Cost(c.state, c.pos, c.reps, op) <= MaxPrice
  BY <1>1, <1>5, <1>7, <1>8, CostType
<1> QED
  BY <1>4, <1>5, <1>7, <1>9

\* Settled nodes can be drawn edges from.
LEMMA SettledIs ==
    ASSUME TypeOK, NEW n \in 1 .. MaxNode, SettledTo(n), NEW i \in 0 .. n - 1, pos + i < N
    PROVE  /\ CanExpand(nodes[i], pos + i) /\ Placed(nodes, i) = PlaceAt(nodes[i], pos + i)
           /\ Found(pos + i) \in Seq(GoodMatches(pos + i))
<1>1. Placed(nodes, i) = PlaceAt(nodes[i], pos + i)
  BY DEF Placed
<1>2. Codes(Here, PathTo[i], Placed(nodes, i))
  BY PathCodes DEF TypeOK
<1>3. Valid(Placed(nodes, i))
  BY <1>2, CodesType
<1>4. CanExpand(nodes[i], pos + i)
  BY <1>1, <1>3 DEF CanExpand, TypeOK
<1>5. PICK p : p = pos + i
  OBVIOUS
<1>6. p \in 0 .. N - 1
  BY <1>4, <1>5, NodeType
<1> QED
  BY <1>1, <1>4, <1>5, <1>6 DEF TypeOK

\* Falling prices and more nodes reached leave no node behind.
LEMMA PassedStill ==
    ASSUME TypeOK, data' = data, finder' = finder, model' = model, pos' = pos,
           nodes' \in [0 .. MaxNode -> NodeRecs], len_end' \in 0 .. MaxNode,
           NEW n \in 1 .. MaxNode, SettledTo(n), Passed(n), pos + (n - 1) < N,
           \A i \in 0 .. n - 1 : nodes'[i] = nodes[i],
           len_end <= len_end',
           \A i \in 0 .. len_end : nodes'[i].price <= nodes[i].price
    PROVE  Passed(n)'
<1>1. /\ pos \in Nat /\ N \in Nat /\ len_end \in Nat /\ len_end' \in Nat /\ len_end <= MaxNode
      /\ nodes \in [0 .. MaxNode -> NodeRecs] /\ n \in Nat
  BY Limits, HereIs DEF TypeOK, NodesType
<1>2. ASSUME NEW i \in 0 .. n - 1, NEW x, x = nodes'[i], NEW p, p = pos' + i,
             NEW op \in OpsAt(x, p)'
      PROVE  /\ i + op.len <= len_end'
             /\ nodes'[i + op.len].price <= x.price + Cost(x.state, p, x.reps, op)'
  <2>1. x = nodes[i] /\ p = pos + i
    BY <1>2
  <2>2. OpsAt(x, p)' = OpsAt(x, p)
    BY OpsSame
  <2>3. op \in OpsAt(x, p)
    BY <2>2
  <2>4. i + op.len <= len_end
        /\ nodes[i + op.len].price <= x.price + Cost(x.state, p, x.reps, op)
    BY <2>1, <2>3 DEF Passed
  <2>5. pos + i < N
    BY <1>1
  <2>6. CanExpand(x, p) /\ Found(p) \in Seq(GoodMatches(p))
    BY <2>1, <2>5, SettledIs
  <2>7. PICK c \in Nat : c = Cost(x.state, p, x.reps, op)
    BY <2>3, <2>6, OpsAtIs
  <2>8. PICK j \in Nat : j = i + op.len
    <3>1. op.len \in Nat
      BY <2>3, <2>6, OpsAtIs
    <3> QED
      BY <3>1
  <2>9. j <= len_end /\ j \in 0 .. len_end /\ j \in 0 .. MaxNode
    <3>1. j <= len_end
      BY <2>4, <2>8
    <3> QED
      BY <3>1, <1>1, Limits
  <2>10. nodes[j].price \in Nat /\ nodes'[j].price \in Nat /\ nodes'[j].price <= nodes[j].price
    BY <2>9, <1>1 DEF NodeRecs
  <2>11. x.price \in Nat
    BY <2>6, NodeType
  <2>12. nodes[j].price <= x.price + c
    BY <2>4, <2>7, <2>8
  <2>13. nodes'[j].price <= x.price + c /\ j <= len_end'
    BY <2>9, <2>10, <2>11, <2>12, <1>1
  <2>14. Cost(x.state, p, x.reps, op)' = c
    BY <2>7, CodesSame
  <2> QED
    BY <2>8, <2>13, <2>14
<1> QED
  BY <1>2 DEF Passed

\* Settled nodes stay settled.
LEMMA SettledStill ==
    ASSUME NodesType, data' = data, model' = model, pos' = pos, state' = state, reps' = reps,
           NEW n \in 1 .. MaxNode, SettledTo(n), \A i \in 0 .. n - 1 : nodes'[i] = nodes[i]
    PROVE  /\ SettledTo(n)'
           /\ \A i \in 0 .. n - 1 : Placed(nodes, i)' = Placed(nodes, i)
<1>1. n \in Nat /\ 0 \in 0 .. n - 1
  BY Limits
<1>2. \A i \in 0 .. n - 1 : Placed(nodes, i)' = Placed(nodes, i)
  BY DEF Placed, PlaceAt
<1>3. Placed(nodes, 0)' = Here'
  BY <1>1, <1>2 DEF SettledTo, Here
<1>4. ASSUME NEW i \in 1 .. n - 1
      PROVE  Codes(Placed(nodes, nodes[i].prev), nodes[i].ops, Placed(nodes, i))'
  <2>1. i \in 1 .. MaxNode /\ i \in 0 .. n - 1
    BY <1>1, Limits
  <2>2. nodes[i].prev \in 0 .. n - 1
    <3>1. nodes[i].prev \in 0 .. i - 1
      BY <2>1, NodesAre
    <3> QED
      BY <3>1, <1>1
  <2>3. PICK a, ops, b, j : /\ j = nodes[i].prev /\ a = Placed(nodes, j) /\ ops = nodes[i].ops
                            /\ b = Placed(nodes, i)
    OBVIOUS
  <2>4. Codes(a, ops, b)
    BY <2>3 DEF SettledTo
  <2>5. Codes(a, ops, b)'
    BY <2>4, CodesSame
  <2>6. j = nodes'[i].prev /\ ops = nodes'[i].ops /\ b = Placed(nodes, i)' /\ a = Placed(nodes, j)'
    BY <2>1, <2>2, <2>3, <1>2
  <2> QED
    BY <2>5, <2>6
<1> QED
  BY <1>2, <1>3, <1>4 DEF SettledTo

\* The invariant of a stretch, with what it says of types.
LEMMA StretchIs ==
    ASSUME TypeOK, NEW n, InStretch(n)
    PROVE  /\ data \in Inputs /\ model \in Models /\ NodesType /\ Valid(Here)
           /\ nodes \in [0 .. MaxNode -> NodeRecs] /\ asked \in Seq(Nat)
           /\ pos \in Nat /\ N \in Nat /\ cur \in Nat /\ cur <= OPT_LEN
           /\ len_end \in Nat /\ len_end <= MaxNode /\ len_end \in 0 .. MaxNode
           /\ cur < MaxNode /\ MaxNode \in Nat
           /\ cur <= len_end /\ pos + len_end <= N
           /\ SettledTo(n) /\ ReachedFrom(n) /\ Passed(cur)
           /\ ~have /\ Below(asked, pos + n)
<1>1. /\ data \in Inputs /\ model \in Models /\ NodesType /\ Valid(Here)
      /\ asked \in Seq(Nat) /\ cur \in 0 .. OPT_LEN /\ len_end \in 0 .. MaxNode
  BY DEF TypeOK
<1>2. pos \in Nat /\ N \in Nat
  BY HereIs
<1>3. /\ MaxNode \in Nat /\ cur \in Nat /\ cur <= OPT_LEN /\ cur < MaxNode
      /\ len_end \in Nat /\ len_end <= MaxNode
  BY <1>1, Limits
<1>4. nodes \in [0 .. MaxNode -> NodeRecs]
  BY <1>1 DEF NodesType
<1>5. /\ cur <= len_end /\ pos + len_end <= N
      /\ SettledTo(n) /\ ReachedFrom(n) /\ Passed(cur)
      /\ ~have /\ Below(asked, pos + n)
  BY DEF InStretch
<1> QED
  BY <1>1, <1>2, <1>3, <1>4, <1>5

LEMMA VisitStep ==
    ASSUME IInv, Visit
    PROVE  IInv'
<1>1. /\ pc = "visit" /\ cur # len_end /\ cur < OPT_LEN
      /\ nodes' = [nodes EXCEPT ![cur] = Settled]
      /\ asked' = Append(asked, pos + cur) /\ matches' = Found(pos + cur)
      /\ pc' = "long" /\ have' = have /\ model' = model
      /\ len_end' = len_end /\ cur' = cur
      /\ UNCHANGED <<input, encoder>> /\ UNCHANGED input
  BY DEF Visit, Find
<1>2. /\ TypeOK /\ Increasing(asked) /\ InStretch(cur) /\ cur >= 1
      /\ nodes[cur].price < Infinity /\ effort.parse = "Optimal"
  BY <1>1 DEF IInv, InVisit, Optimal
<1>3. /\ data \in Inputs /\ model \in Models /\ NodesType /\ Valid(Here)
      /\ nodes \in [0 .. MaxNode -> NodeRecs] /\ asked \in Seq(Nat)
      /\ pos \in Nat /\ N \in Nat /\ cur \in Nat
      /\ len_end \in Nat /\ len_end <= MaxNode /\ len_end \in 0 .. MaxNode
      /\ cur < MaxNode /\ MaxNode \in Nat
      /\ cur <= len_end /\ pos + len_end <= N
      /\ SettledTo(cur) /\ ReachedFrom(cur) /\ Passed(cur)
      /\ ~have /\ Below(asked, pos + cur)
  BY <1>2, StretchIs
<1>4. /\ Here' = Here /\ Valid(Here)'
      /\ data' = data /\ effort' = effort /\ finder' = finder
      /\ pos' = pos /\ state' = state /\ reps' = reps /\ N' = N
  BY <1>1, <1>2, EncoderKept
<1>5. /\ cur \in 1 .. MaxNode /\ cur \in 0 .. MaxNode /\ cur < len_end /\ cur \in cur .. len_end
      /\ pos + cur < N /\ pos + (cur - 1) < N /\ pos + cur \in Nat
  BY <1>1, <1>2, <1>3
<1>6. PICK b : /\ Codes(Placed(nodes, nodes[cur].prev), nodes[cur].ops, b)
               /\ b.pos = pos + cur /\ b.price = nodes[cur].price
               /\ nodes[cur].prev < cur
  BY <1>2, <1>3, <1>5 DEF ReachedFrom, Reaches
<1>7. Valid(b) /\ b.state \in States /\ b.reps \in Reps /\ b = PlaceAt(b, pos + cur)
  BY <1>6, CodesType, PlaceType DEF PlaceAt
<1>8. Settled = [nodes[cur] EXCEPT !.state = b.state, !.reps = b.reps]
  <2>1. PICK from : from = Placed(nodes, nodes[cur].prev)
    OBVIOUS
  <2>2. Coder(from) = [state |-> nodes[nodes[cur].prev].state, reps |-> nodes[nodes[cur].prev].reps]
    BY <2>1, PlacedIs DEF Coder
  <2>3. Applied(Coder(from), nodes[cur].ops) = Coder(b)
    BY <2>1, <1>6, AppliedIs
  <2>4. Coder(b).state = b.state /\ Coder(b).reps = b.reps
    BY DEF Coder
  <2> QED
    BY <2>2, <2>3, <2>4 DEF Settled
<1>9. PICK new \in NodeRecs :
        /\ new = Settled /\ new.price = nodes[cur].price /\ new.prev = nodes[cur].prev
        /\ new.ops = nodes[cur].ops /\ new.state = b.state /\ new.reps = b.reps
  <2>1. PICK old \in NodeRecs : old = nodes[cur]
    BY <1>3, <1>5
  <2>2. PICK new : new = [old EXCEPT !.state = b.state, !.reps = b.reps]
    OBVIOUS
  <2>3. /\ new \in NodeRecs /\ new.price = old.price /\ new.prev = old.prev
        /\ new.ops = old.ops /\ new.state = b.state /\ new.reps = b.reps
    BY <2>2, <1>7 DEF NodeRecs
  <2> QED
    BY <2>1, <2>2, <2>3, <1>8
<1>10. /\ nodes' \in [0 .. MaxNode -> NodeRecs] /\ nodes'[cur] = new
       /\ \A i \in 0 .. MaxNode : i # cur => nodes'[i] = nodes[i]
  BY <1>1, <1>3, <1>5, <1>9
<1>11. /\ \A i \in 0 .. MaxNode : nodes'[i].price = nodes[i].price /\ nodes'[i].prev = nodes[i].prev
       /\ \A i \in 0 .. cur - 1 : nodes'[i] = nodes[i]
  <2>1. \A i \in 0 .. cur - 1 : i \in 0 .. MaxNode /\ i # cur
    BY <1>3, <1>5
  <2> QED
    BY <2>1, <1>9, <1>10
<1>12. NodesType'
  <2>1. \A i \in 1 .. MaxNode : i \in 0 .. MaxNode /\ nodes[i].prev < i
    BY <1>3 DEF NodesType
  <2>2. \A i \in 1 .. MaxNode : nodes'[i].prev < i
    BY <2>1, <1>11
  <2> QED
    BY <2>2, <1>10 DEF NodesType
<1>13. SettledTo(cur)' /\ \A i \in 0 .. cur - 1 : Placed(nodes, i)' = Placed(nodes, i)
  <2>1. PICK n \in 1 .. MaxNode : n = cur
    BY <1>5
  <2>2. SettledTo(n)' /\ \A i \in 0 .. n - 1 : Placed(nodes, i)' = Placed(nodes, i)
    BY <2>1, <1>1, <1>3, <1>4, <1>11, SettledStill
  <2> QED
    BY <2>1, <2>2, <1>1
<1>14. nodes[cur].prev \in 0 .. cur - 1
  BY <1>3, <1>5, NodesAre
<1>15. SettledTo(cur + 1)'
  <2>1. Codes(Placed(nodes, nodes[cur].prev), nodes[cur].ops, Placed(nodes, cur))'
    <3>1. PICK a, ops, j, k : /\ j = nodes[cur].prev /\ a = Placed(nodes, j) /\ ops = nodes[cur].ops
                              /\ k = cur
      OBVIOUS
    <3>2. Codes(a, ops, b)'
      BY <3>1, <1>1, <1>4, <1>6, CodesSame
    <3>3. a = Placed(nodes, j)'
      BY <3>1, <1>13, <1>14
    <3>4. b = Placed(nodes, k)'
      <4>1. Placed(nodes, k)' = PlaceAt(nodes'[k], pos' + k)
        BY DEF Placed
      <4>2. PlaceAt(nodes'[k], pos' + k) = b
        BY <3>1, <1>4, <1>6, <1>7, <1>9, <1>10 DEF PlaceAt
      <4> QED
        BY <4>1, <4>2
    <3>5. j = nodes'[k].prev /\ ops = nodes'[k].ops /\ k = cur'
      BY <3>1, <1>1, <1>9, <1>10
    <3> QED
      BY <3>2, <3>3, <3>4, <3>5
  <2>2. \A i \in 1 .. (cur + 1) - 1 : i \in 1 .. cur - 1 \/ i = cur
    BY <1>3
  <2> QED
    BY <2>1, <2>2, <1>1, <1>13 DEF SettledTo
<1>16. ReachedFrom(cur + 1)'
  <2>1. ASSUME NEW i \in cur + 1 .. len_end, nodes'[i].price < Infinity
        PROVE  nodes'[i].prev < cur + 1 /\ Reaches(nodes, i)'
    <3>1. i \in 0 .. MaxNode /\ i # cur /\ i \in cur .. len_end /\ i \in 1 .. MaxNode
      BY <1>3
    <3>2. nodes'[i] = nodes[i]
      BY <3>1, <1>10
    <3>3. nodes[i].prev < cur /\ Reaches(nodes, i)
      BY <2>1, <3>1, <3>2, <1>3 DEF ReachedFrom
    <3>4. PICK j \in 0 .. cur - 1 : j = nodes[i].prev
      <4>1. nodes[i].prev \in 0 .. i - 1 /\ i \in Nat
        BY <3>1, <1>3, NodesAre
      <4> QED
        BY <4>1, <3>3, <1>3
    <3>5. PICK e, a, ops : /\ a = Placed(nodes, j) /\ ops = nodes[i].ops /\ Codes(a, ops, e)
                           /\ e.pos = pos + i /\ e.price = nodes[i].price
      BY <3>3, <3>4 DEF Reaches
    <3>6. Codes(a, ops, e)'
      BY <3>5, <1>1, <1>4, CodesSame
    <3>7. a = Placed(nodes, j)' /\ j = nodes'[i].prev /\ ops = nodes'[i].ops
          /\ e.pos = pos' + i /\ e.price = nodes'[i].price
      BY <3>2, <3>4, <3>5, <1>4, <1>13
    <3>8. Reaches(nodes, i)'
      BY <3>6, <3>7 DEF Reaches
    <3> QED
      BY <3>2, <3>3, <3>4, <3>8, <1>3
  <2> QED
    BY <2>1, <1>1 DEF ReachedFrom
<1>17. Passed(cur)'
  <2>1. PICK n \in 1 .. MaxNode : n = cur
    BY <1>5
  <2>2. \A i \in 0 .. len_end : nodes'[i].price <= nodes[i].price
    <3>1. \A i \in 0 .. len_end : i \in 0 .. MaxNode /\ nodes[i].price \in Nat
      <4>1. \A i \in 0 .. MaxNode : nodes[i].price \in Nat
        BY <1>3 DEF NodeRecs
      <4>2. \A i \in 0 .. len_end : i \in 0 .. MaxNode
        BY <1>3
      <4> QED
        BY <4>1, <4>2
    <3>2. \A i \in 0 .. len_end : nodes[i].price <= nodes[i].price
      BY <3>1
    <3> QED
      BY <3>1, <3>2, <1>11
  <2>3. len_end <= len_end' /\ len_end' \in 0 .. MaxNode
    BY <1>1, <1>3
  <2>4. Passed(n)'
    BY <2>1, <2>2, <2>3, <1>1, <1>2, <1>3, <1>4, <1>5, <1>10, <1>11, PassedStill
  <2> QED
    BY <2>1, <2>4, <1>1
<1>18. /\ asked' \in Seq(Nat) /\ Increasing(asked') /\ Below(asked', pos + cur + 1)
  BY <1>1, <1>2, <1>3, <1>5, SearchMore
<1>19. InNode'
  <2>1. InStretch(cur + 1)'
    <3>1. Below(asked', pos' + (cur' + 1))
      <4>1. pos' + (cur' + 1) = pos + cur + 1
        BY <1>1, <1>3, <1>4
      <4> QED
        BY <4>1, <1>18
    <3> QED
      BY <3>1, <1>1, <1>3, <1>4, <1>15, <1>16, <1>17 DEF InStretch
  <2>2. matches' = Found(pos + cur)'
    BY <1>1, <1>4 DEF Found
  <2> QED
    BY <2>1, <2>2, <1>1, <1>2, <1>4, <1>5 DEF InNode
<1>20. TypeOK'
  <2>1. len_end' \in 0 .. MaxNode /\ cur' \in 0 .. OPT_LEN /\ have' \in BOOLEAN
    BY <1>1, <1>2 DEF TypeOK
  <2> QED
    BY <2>1, <1>1, <1>2, <1>3, <1>4, <1>12, <1>18, TypeKept
<1> QED
  BY <1>1, <1>2, <1>4, <1>18, <1>19, <1>20
     DEF IInv, Optimal, InSearch, InDecision, InEmit, InVisit, InTrace

\* A step that leaves a stretch as it is.
LEMMA StretchKept ==
    ASSUME data' = data, model' = model, finder' = finder,
           pos' = pos, state' = state, reps' = reps,
           nodes' = nodes, len_end' = len_end
    PROVE  /\ \A n : SettledTo(n)' <=> SettledTo(n)
           /\ \A n : Passed(n)' <=> Passed(n)
           /\ \A i : Reaches(nodes, i)' <=> Reaches(nodes, i)
           /\ \A n : ReachedFrom(n)' <=> ReachedFrom(n)
           /\ \A i : Placed(nodes, i)' = Placed(nodes, i)
<1>1. \A i : Placed(nodes, i)' = Placed(nodes, i)
  BY DEF Placed
<1>2. Here' = Here
  BY DEF Here
<1>3. /\ \A s, p, r, op : Cost(s, p, r, op)' = Cost(s, p, r, op)
      /\ \A a, ops, b : Codes(a, ops, b)' <=> Codes(a, ops, b)
      /\ \A n, p : OpsAt(n, p)' = OpsAt(n, p)
  BY CodesSame, OpsSame
<1>4. \A n : SettledTo(n)' <=> SettledTo(n)
  BY <1>1, <1>2, <1>3 DEF SettledTo
<1>5. \A i : Reaches(nodes, i)' <=> Reaches(nodes, i)
  BY <1>1, <1>3 DEF Reaches
<1>6. \A n : ReachedFrom(n)' <=> ReachedFrom(n)
  BY <1>5 DEF ReachedFrom
<1>7. \A n : Passed(n)' <=> Passed(n)
  BY <1>3 DEF Passed
<1> QED
  BY <1>1, <1>4, <1>5, <1>6, <1>7

LEMMA EndStretchStep ==
    ASSUME IInv, EndStretch
    PROVE  IInv'
<1>1. /\ pc = "visit" /\ pc' = "trace"
      /\ UNCHANGED <<input, encoder>> /\ UNCHANGED input /\ UNCHANGED graph
      /\ model' = model /\ asked' = asked /\ matches' = matches /\ have' = have
  BY DEF EndStretch, search
<1>2. /\ TypeOK /\ Increasing(asked) /\ InStretch(cur) /\ cur >= 1
      /\ nodes[cur].price < Infinity /\ effort.parse = "Optimal"
  BY <1>1 DEF IInv, InVisit, Optimal
<1>3. /\ data \in Inputs /\ model \in Models /\ NodesType /\ Valid(Here)
      /\ nodes \in [0 .. MaxNode -> NodeRecs] /\ asked \in Seq(Nat)
      /\ pos \in Nat /\ N \in Nat /\ cur \in Nat /\ len_end \in Nat
      /\ cur < MaxNode /\ MaxNode \in Nat
      /\ cur <= len_end
      /\ SettledTo(cur) /\ ReachedFrom(cur) /\ Passed(cur)
      /\ ~have /\ Below(asked, pos + cur)
  BY <1>2, StretchIs
<1>4. /\ Here' = Here /\ Valid(Here)'
      /\ data' = data /\ effort' = effort /\ finder' = finder
      /\ pos' = pos /\ state' = state /\ reps' = reps /\ N' = N
  BY <1>1, <1>2, EncoderKept
<1>5. /\ NodesType' /\ nodes' = nodes /\ len_end' = len_end /\ cur' = cur
      /\ len_end' \in 0 .. MaxNode /\ cur' \in 0 .. OPT_LEN
  BY <1>1, <1>2, GraphKept
<1>6. Reaches(nodes, cur)
  <2>1. cur \in cur .. len_end
    BY <1>3
  <2> QED
    BY <2>1, <1>2, <1>3 DEF ReachedFrom
<1>7. SettledTo(cur)' /\ Passed(cur)' /\ Reaches(nodes, cur)'
  BY <1>1, <1>2, <1>3, <1>4, <1>5, <1>6, StretchKept
<1>8. Below(asked, pos + cur + 0)
  BY <1>3
<1>9. InTrace'
  BY <1>1, <1>2, <1>3, <1>4, <1>5, <1>7, <1>8 DEF InTrace, Ahead
<1>10. TypeOK'
  BY <1>1, <1>2, <1>3, <1>4, <1>5, TypeKept DEF TypeOK
<1> QED
  BY <1>1, <1>2, <1>4, <1>9, <1>10
     DEF IInv, Optimal, InSearch, InDecision, InEmit, InVisit, InNode

LEMMA StopAtLongStep ==
    ASSUME IInv, StopAtLong
    PROVE  IInv'
<1>1. /\ pc = "long" /\ have' = (LongHere # <<>>)
      /\ pc' = IF LongHere # <<>> THEN "trace" ELSE "relax"
      /\ UNCHANGED <<input, encoder>> /\ UNCHANGED input /\ UNCHANGED graph
      /\ model' = model /\ asked' = asked /\ matches' = matches
  BY DEF StopAtLong, Carried, search
<1>2. /\ TypeOK /\ Increasing(asked) /\ InStretch(cur + 1) /\ cur >= 1
      /\ cur < OPT_LEN /\ pos + cur < N /\ matches = Found(pos + cur)
      /\ effort.parse = "Optimal"
  BY <1>1 DEF IInv, InNode, Optimal
<1>3. /\ data \in Inputs /\ model \in Models /\ NodesType /\ Valid(Here)
      /\ nodes \in [0 .. MaxNode -> NodeRecs] /\ asked \in Seq(Nat)
      /\ pos \in Nat /\ N \in Nat /\ cur \in Nat /\ len_end \in Nat
      /\ cur < MaxNode /\ MaxNode \in Nat
      /\ cur <= len_end /\ pos + len_end <= N
      /\ SettledTo(cur + 1) /\ ReachedFrom(cur + 1) /\ Passed(cur)
      /\ ~have /\ Below(asked, pos + (cur + 1))
  BY <1>2, StretchIs
<1>4. /\ Here' = Here /\ Valid(Here)'
      /\ data' = data /\ effort' = effort /\ finder' = finder
      /\ pos' = pos /\ state' = state /\ reps' = reps /\ N' = N
  BY <1>1, <1>2, EncoderKept
<1>5. /\ NodesType' /\ nodes' = nodes /\ len_end' = len_end /\ cur' = cur
      /\ len_end' \in 0 .. MaxNode /\ cur' \in 0 .. OPT_LEN
  BY <1>1, <1>2, GraphKept
<1>6. Found(pos + cur)' = Found(pos + cur)
  BY <1>4, <1>5 DEF Found
<1>7. TypeOK'
  <2>1. have' \in BOOLEAN
    BY <1>1
  <2>2. pc' \in {"trace", "relax"}
    BY <1>1
  <2> QED
    BY <2>1, <2>2, <1>1, <1>2, <1>3, <1>4, <1>5, TypeKept
<1>8. CASE LongHere = <<>>
  <2>1. pc' = "relax" /\ ~have'
    BY <1>1, <1>8
  <2>2. InStretch(cur + 1)'
    <3>1. /\ SettledTo(cur + 1)' /\ ReachedFrom(cur + 1)' /\ Passed(cur)'
      BY <1>1, <1>3, <1>4, <1>5, StretchKept
    <3>2. Below(asked', pos' + (cur' + 1))
      BY <1>1, <1>3, <1>4, <1>5
    <3> QED
      BY <2>1, <3>1, <3>2, <1>1, <1>3, <1>4, <1>5 DEF InStretch
  <2>3. InNode'
    BY <2>1, <2>2, <1>1, <1>2, <1>4, <1>5, <1>6 DEF InNode
  <2> QED
    BY <2>1, <2>3, <1>1, <1>2, <1>4, <1>7
       DEF IInv, Optimal, InSearch, InDecision, InEmit, InVisit, InTrace
<1>9. CASE LongHere # <<>>
  <2>1. pc' = "trace" /\ have' = TRUE
    BY <1>1, <1>9
  <2>2. SettledTo(cur)
    <3>1. \A i \in 1 .. cur - 1 : i \in 1 .. (cur + 1) - 1
      BY <1>3
    <3> QED
      BY <3>1, <1>3 DEF SettledTo
  <2>3. Codes(Placed(nodes, nodes[cur].prev), nodes[cur].ops, Placed(nodes, cur))
    <3>1. cur \in 1 .. (cur + 1) - 1
      BY <1>2, <1>3
    <3> QED
      BY <3>1, <1>3 DEF SettledTo
  <2>4. Reaches(nodes, cur)
    BY <2>3, PlacedIs DEF Reaches
  <2>5. SettledTo(cur)' /\ Passed(cur)' /\ Reaches(nodes, cur)'
    BY <2>2, <2>4, <1>1, <1>3, <1>4, <1>5, StretchKept
  <2>6. Codes(Placed(nodes, nodes[cur].prev), nodes[cur].ops, Placed(nodes, cur))'
    <3>1. PICK a, ops, b, j, k : /\ k = cur /\ j = nodes[k].prev /\ a = Placed(nodes, j)
                                 /\ ops = nodes[k].ops /\ b = Placed(nodes, k)
      OBVIOUS
    <3>2. Codes(a, ops, b)'
      BY <2>3, <3>1, <1>1, <1>4, CodesSame
    <3>3. k = cur' /\ j = nodes'[k].prev /\ ops = nodes'[k].ops
          /\ a = Placed(nodes, j)' /\ b = Placed(nodes, k)'
      BY <3>1, <1>1, <1>4, <1>5, StretchKept
    <3> QED
      BY <3>2, <3>3
  <2>7. LongOps(pos + cur, nodes[cur].reps)' # <<>>
    <3>1. PICK p, r : p = pos + cur /\ r = nodes[cur].reps
      OBVIOUS
    <3>2. LongOps(p, r)' = LongOps(p, r)
      BY <1>1, <1>4, LongSame
    <3>3. p = pos' + cur' /\ r = nodes'[cur'].reps
      BY <3>1, <1>4, <1>5
    <3>4. LongOps(p, r) # <<>>
      BY <3>1, <1>9 DEF LongHere
    <3> QED
      BY <3>2, <3>3, <3>4
  <2>8. Below(asked', pos' + cur' + 1)
    <3>1. pos' + cur' + 1 = pos + (cur + 1)
      BY <1>3, <1>4, <1>5
    <3> QED
      BY <3>1, <1>1, <1>3
  <2>9. InTrace'
    BY <2>1, <2>5, <2>6, <2>7, <2>8, <1>1, <1>2, <1>3, <1>4, <1>5, <1>6 DEF InTrace, Ahead
  <2> QED
    BY <2>1, <2>9, <1>1, <1>2, <1>4, <1>7
       DEF IInv, Optimal, InSearch, InDecision, InEmit, InVisit, InNode
<1> QED
  BY <1>8, <1>9

\* The node that is expanded, and what comes of it.
LEMMA ExpandedIs ==
    ASSUME TypeOK, InStretch(cur + 1), cur < OPT_LEN, pos + cur < N, matches = Found(pos + cur),
           NEW g, g = RelaxedAll(Edges(nodes[cur], pos + cur))
    PROVE  /\ GoodGraph(g)
           /\ Cheaper([nodes |-> nodes, len_end |-> len_end], g)
           /\ \A op \in OpsAt(nodes[cur], pos + cur) : Offers(g, One(nodes[cur], pos + cur, op))
           /\ CanExpand(nodes[cur], pos + cur)
           /\ Found(pos + cur) \in Seq(GoodMatches(pos + cur))
           /\ nodes[cur].price + MaxPrice < Infinity
<1>1. /\ data \in Inputs /\ model \in Models /\ NodesType /\ Valid(Here)
      /\ nodes \in [0 .. MaxNode -> NodeRecs]
      /\ pos \in Nat /\ N \in Nat /\ cur \in Nat /\ len_end \in Nat /\ len_end \in 0 .. MaxNode
      /\ cur < MaxNode /\ MaxNode \in Nat
      /\ cur <= len_end /\ pos + len_end <= N
      /\ SettledTo(cur + 1) /\ ReachedFrom(cur + 1)
  BY StretchIs
<1>2. PICK n \in 1 .. MaxNode : n = cur + 1 /\ cur \in 0 .. n - 1
  BY <1>1
<1>3. /\ CanExpand(nodes[cur], pos + cur)
      /\ Placed(nodes, cur) = PlaceAt(nodes[cur], pos + cur)
      /\ Found(pos + cur) \in Seq(GoodMatches(pos + cur))
  BY <1>1, <1>2, SettledIs
<1>4. nodes[cur].price + MaxPrice < Infinity
  <2>1. Placed(nodes, cur).price + MaxPrice < Infinity
    BY <1>1, <1>2, PathPrice
  <2> QED
    BY <2>1, PlacedIs
<1>5. PICK edges : edges = Edges(nodes[cur], pos + cur)
  OBVIOUS
<1>6. /\ edges \in Seq(GoodEdges(Placed(nodes, cur)))
      /\ \A op \in OpsAt(nodes[cur], pos + cur) : Has(edges, One(nodes[cur], pos + cur, op))
  BY <1>3, <1>5, EdgesIs DEF Searched
<1>7. PICK g0 : g0 = [nodes |-> nodes, len_end |-> len_end]
  OBVIOUS
<1>8. GoodGraph(g0)
  <2>1. g0 \in Graphs /\ g0.nodes = nodes /\ g0.len_end = len_end
    BY <1>1, <1>7 DEF Graphs
  <2>2. \A i \in 1 .. MaxNode : nodes[i].prev < i
    BY <1>1 DEF NodesType
  <2>3. ASSUME NEW i \in cur + 1 .. len_end, nodes[i].price < Infinity
        PROVE  nodes[i].prev <= cur /\ Reaches(nodes, i)
    <3>1. nodes[i].prev < cur + 1 /\ Reaches(nodes, i)
      BY <2>3, <1>1 DEF ReachedFrom
    <3>2. i \in 1 .. MaxNode /\ i \in Nat
      BY <1>1
    <3>3. nodes[i].prev \in 0 .. i - 1
      BY <3>2, <1>1, NodesAre
    <3> QED
      BY <3>1, <3>2, <3>3, <1>1
  <2> QED
    BY <2>1, <2>2, <2>3, <1>1 DEF GoodGraph
<1>9. Expanding
  BY <1>1 DEF Expanding
<1>10. /\ GoodGraph(g) /\ Cheaper(g0, g)
       /\ \A k \in 1 .. Len(edges) : Offers(g, edges[k])
  BY <1>5, <1>6, <1>7, <1>8, <1>9, RelaxedAllIs
<1>11. \A op \in OpsAt(nodes[cur], pos + cur) : Offers(g, One(nodes[cur], pos + cur, op))
  BY <1>6, <1>10 DEF Has
<1> QED
  BY <1>3, <1>4, <1>7, <1>10, <1>11

LEMMA RelaxStep ==
    ASSUME IInv, Relax
    PROVE  IInv'
<1> DEFINE edges == Edges(nodes[cur], pos + cur)
<1>1. /\ pc = "relax" /\ pc' = "visit"
      /\ nodes' = RelaxedAll(edges).nodes /\ len_end' = RelaxedAll(edges).len_end
      /\ cur' = cur + 1 /\ UNCHANGED <<input, encoder>> /\ UNCHANGED input
      /\ model' = model /\ asked' = asked /\ matches' = matches /\ have' = have
  BY DEF Relax, search
<1>2. PICK g : g = RelaxedAll(edges)
  OBVIOUS
<1> HIDE DEF edges
<1>3. /\ TypeOK /\ Increasing(asked) /\ InStretch(cur + 1)
      /\ cur < OPT_LEN /\ pos + cur < N /\ matches = Found(pos + cur)
      /\ effort.parse = "Optimal"
  BY <1>1 DEF IInv, InNode, Optimal
<1>4. /\ data \in Inputs /\ model \in Models /\ NodesType /\ Valid(Here)
      /\ nodes \in [0 .. MaxNode -> NodeRecs] /\ asked \in Seq(Nat)
      /\ pos \in Nat /\ N \in Nat /\ cur \in Nat /\ len_end \in Nat /\ len_end \in 0 .. MaxNode
      /\ cur < MaxNode /\ MaxNode \in Nat
      /\ cur <= len_end /\ pos + len_end <= N
      /\ SettledTo(cur + 1) /\ ReachedFrom(cur + 1) /\ Passed(cur)
      /\ ~have /\ Below(asked, pos + (cur + 1))
  BY <1>3, StretchIs
<1>5. /\ Here' = Here /\ Valid(Here)'
      /\ data' = data /\ effort' = effort /\ finder' = finder
      /\ pos' = pos /\ state' = state /\ reps' = reps /\ N' = N
  BY <1>1, <1>3, EncoderKept
<1>6. /\ GoodGraph(g)
      /\ Cheaper([nodes |-> nodes, len_end |-> len_end], g)
      /\ \A op \in OpsAt(nodes[cur], pos + cur) : Offers(g, One(nodes[cur], pos + cur, op))
      /\ CanExpand(nodes[cur], pos + cur)
      /\ Found(pos + cur) \in Seq(GoodMatches(pos + cur))
      /\ nodes[cur].price + MaxPrice < Infinity
  BY <1>2, <1>3, ExpandedIs DEF edges
<1>7. nodes' = g.nodes /\ len_end' = g.len_end
  BY <1>1, <1>2
<1>8. /\ nodes' \in [0 .. MaxNode -> NodeRecs] /\ len_end' \in 0 .. MaxNode
      /\ cur <= len_end' /\ pos + len_end' <= N
      /\ \A i \in 1 .. MaxNode : nodes'[i].prev < i
      /\ \A i \in 0 .. cur : nodes'[i] = nodes[i]
      /\ \A i \in cur + 1 .. len_end' :
           nodes'[i].price < Infinity => nodes'[i].prev <= cur /\ Reaches(g.nodes, i)
  BY <1>6, <1>7 DEF GoodGraph, Graphs
<1>9. /\ len_end <= len_end'
      /\ \A i \in 0 .. len_end : nodes'[i].price <= nodes[i].price
  BY <1>6, <1>7 DEF Cheaper
<1>10. NodesType'
  BY <1>8 DEF NodesType
<1>11. PICK n \in 1 .. MaxNode : n = cur + 1 /\ n = cur' /\ n \in Nat
  BY <1>1, <1>4
<1>12. SettledTo(n)' /\ \A i \in 0 .. n - 1 : Placed(nodes, i)' = Placed(nodes, i)
  <2>1. \A i \in 0 .. n - 1 : nodes'[i] = nodes[i]
    <3>1. n - 1 = cur
      BY <1>4, <1>11
    <3> QED
      BY <3>1, <1>8
  <2> QED
    BY <2>1, <1>1, <1>4, <1>5, <1>11, SettledStill
<1>13. ReachedFrom(n)'
  <2>1. ASSUME NEW i \in n .. len_end', nodes'[i].price < Infinity
        PROVE  nodes'[i].prev < n /\ Reaches(nodes, i)'
    <3>1. i \in cur + 1 .. len_end' /\ i \in 1 .. MaxNode /\ i \in 0 .. MaxNode
      BY <1>4, <1>8, <1>11
    <3>2. nodes'[i].prev <= cur /\ Reaches(g.nodes, i)
      BY <2>1, <3>1, <1>8
    <3>3. PICK e, a, ops, j : /\ j = nodes'[i].prev /\ a = Placed(g.nodes, j)
                              /\ ops = nodes'[i].ops /\ Codes(a, ops, e)
                              /\ e.pos = pos + i /\ e.price = nodes'[i].price
      BY <3>2, <1>7 DEF Reaches
    <3>4. Codes(a, ops, e)'
      BY <3>3, <1>1, <1>5, CodesSame
    <3>5. a = Placed(nodes, j)'
      BY <3>3, <1>5, <1>7 DEF Placed
    <3>6. Reaches(nodes, i)'
      BY <3>3, <3>4, <3>5, <1>5 DEF Reaches
    <3>7. nodes'[i].prev \in 0 .. MaxNode
      BY <3>1, <1>8 DEF NodeRecs
    <3> QED
      BY <3>2, <3>6, <3>7, <1>4, <1>11
  <2> QED
    BY <2>1, <1>8 DEF ReachedFrom
<1>14. ASSUME NEW i \in 0 .. n - 1, NEW op \in OpsAt(nodes[i], pos + i)
       PROVE  /\ i + op.len <= len_end'
              /\ nodes'[i + op.len].price
                   <= nodes[i].price + Cost(nodes[i].state, pos + i, nodes[i].reps, op)
  <2>1. CASE i = cur
    <3>1. PICK e : e = One(nodes[i], pos + i, op)
      OBVIOUS
    <3>2. e.to = op.len
          /\ e.price = nodes[i].price + Cost(nodes[i].state, pos + i, nodes[i].reps, op)
      BY <3>1 DEF One, Edge
    <3>3. Offers(g, e)
      BY <2>1, <3>1, <1>6
    <3> QED
      BY <2>1, <3>2, <3>3, <1>7 DEF Offers
  <2>2. CASE i # cur
    <3>1. i \in 0 .. cur - 1 /\ cur \in 1 .. MaxNode /\ pos + (cur - 1) < N
      BY <2>2, <1>3, <1>4, <1>11
    <3>2. PICK m \in 1 .. MaxNode : m = cur /\ i \in 0 .. m - 1
      BY <3>1
    <3>3. SettledTo(m)
      <4>1. \A k \in 1 .. m - 1 : k \in 1 .. (cur + 1) - 1
        BY <3>2, <1>4
      <4> QED
        BY <4>1, <1>4 DEF SettledTo
    <3>4. \A k \in 0 .. m - 1 : nodes'[k] = nodes[k]
      <4>1. \A k \in 0 .. m - 1 : k \in 0 .. cur
        BY <3>2, <1>4
      <4> QED
        BY <4>1, <1>8
    <3>5. Passed(m)'
      BY <3>1, <3>2, <3>3, <3>4, <1>1, <1>3, <1>4, <1>5, <1>8, <1>9, PassedStill
    <3>6. PICK x, p : x = nodes[i] /\ p = pos + i
      OBVIOUS
    <3>7. x = nodes'[i] /\ p = pos' + i
      BY <3>2, <3>4, <3>6, <1>5
    <3>8. OpsAt(x, p)' = OpsAt(x, p) /\ Cost(x.state, p, x.reps, op)' = Cost(x.state, p, x.reps, op)
      BY <1>1, <1>5, OpsSame, CodesSame
    <3>9. op \in OpsAt(x, p)'
      BY <3>6, <3>8
    <3>10. /\ i + op.len <= len_end'
           /\ nodes'[i + op.len].price <= x.price + Cost(x.state, p, x.reps, op)'
      BY <3>2, <3>5, <3>7, <3>9 DEF Passed
    <3> QED
      BY <3>6, <3>8, <3>10
  <2> QED
    BY <2>1, <2>2
<1>15. Passed(n)'
  <2>1. ASSUME NEW i \in 0 .. n - 1, NEW x, x = nodes'[i], NEW p, p = pos' + i,
               NEW op \in OpsAt(x, p)'
        PROVE  /\ i + op.len <= len_end'
               /\ nodes'[i + op.len].price <= x.price + Cost(x.state, p, x.reps, op)'
    <3>1. i \in 0 .. cur
      BY <1>4, <1>11
    <3>2. x = nodes[i] /\ p = pos + i
      BY <2>1, <3>1, <1>5, <1>8
    <3>3. OpsAt(x, p)' = OpsAt(x, p) /\ Cost(x.state, p, x.reps, op)' = Cost(x.state, p, x.reps, op)
      BY <1>1, <1>5, OpsSame, CodesSame
    <3>4. op \in OpsAt(nodes[i], pos + i)
      BY <3>2, <3>3
    <3> QED
      BY <3>2, <3>3, <3>4, <1>14
  <2> QED
    BY <2>1 DEF Passed
<1>16. n <= len_end' /\ nodes'[n].price < Infinity
  <2>1. Literal \in OpsAt(nodes[cur], pos + cur) /\ Literal.len = 1 /\ cur \in 0 .. n - 1
    BY <1>4, <1>11, SomeOps DEF OpsAt
  <2>2. PICK c : c = Cost(nodes[cur].state, pos + cur, nodes[cur].reps, Literal)
    OBVIOUS
  <2>3. c \in Nat /\ c <= MaxPrice
    BY <2>1, <2>2, <1>6, OpsAtIs
  <2>4. cur + 1 <= len_end' /\ nodes'[cur + 1].price <= nodes[cur].price + c
    BY <2>1, <2>2, <1>14
  <2>5. nodes[cur].price \in Nat
    BY <1>6, NodeType
  <2>6. n \in 0 .. MaxNode
    BY <1>11, <1>4
  <2>7. nodes'[n].price \in Nat
    BY <2>6, <1>8 DEF NodeRecs
  <2> QED
    BY <2>3, <2>4, <2>5, <2>7, <1>6, <1>11, Limits
<1>17. InStretch(n)'
  <2>1. Below(asked', pos' + n)
    BY <1>1, <1>4, <1>5, <1>11
  <2>2. cur' <= len_end' /\ pos' + len_end' <= N'
    BY <1>5, <1>8, <1>11, <1>16
  <2>3. Passed(cur)'
    BY <1>11, <1>15
  <2> QED
    BY <2>1, <2>2, <2>3, <1>1, <1>4, <1>12, <1>13 DEF InStretch
<1>18. InVisit'
  <2>1. InStretch(cur)' /\ cur' >= 1
    BY <1>11, <1>17
  <2> QED
    BY <2>1, <1>11, <1>16 DEF InVisit
<1>19. TypeOK'
  <2>1. cur' \in 0 .. OPT_LEN /\ have' \in BOOLEAN
    BY <1>1, <1>3, <1>4, Limits DEF TypeOK
  <2> QED
    BY <2>1, <1>1, <1>3, <1>4, <1>5, <1>8, <1>10, TypeKept
<1> QED
  BY <1>1, <1>3, <1>5, <1>18, <1>19
     DEF IInv, Optimal, InSearch, InDecision, InEmit, InNode, InTrace

LEMMA TraceBackStep ==
    ASSUME IInv, TraceBack
    PROVE  IInv'
<1>1. /\ pc = "trace" /\ pc' = "emit" /\ path' = PathTo[cur]
      /\ UNCHANGED <<input, encoder>> /\ UNCHANGED input /\ UNCHANGED graph
      /\ model' = model /\ asked' = asked /\ matches' = matches /\ have' = have
  BY DEF TraceBack, search
<1>2. /\ TypeOK /\ Increasing(asked) /\ cur >= 1 /\ cur <= len_end
      /\ SettledTo(cur) /\ Reaches(nodes, cur)
      /\ Below(asked, pos + cur + Ahead)
      /\ have => /\ Codes(Placed(nodes, nodes[cur].prev), nodes[cur].ops, Placed(nodes, cur))
                 /\ matches = Found(pos + cur)
                 /\ LongOps(pos + cur, nodes[cur].reps) # <<>>
  BY <1>1 DEF IInv, InTrace
<1>3. /\ data \in Inputs /\ model \in Models /\ NodesType /\ Valid(Here)
      /\ asked \in Seq(Nat) /\ have \in BOOLEAN /\ cur \in 0 .. OPT_LEN
  BY <1>2 DEF TypeOK
<1>4. /\ Here' = Here /\ Valid(Here)'
      /\ data' = data /\ effort' = effort /\ finder' = finder
      /\ pos' = pos /\ state' = state /\ reps' = reps /\ N' = N
  BY <1>1, <1>2, EncoderKept
<1>5. /\ NodesType' /\ nodes' = nodes /\ len_end' = len_end /\ cur' = cur
      /\ len_end' \in 0 .. MaxNode /\ cur' \in 0 .. OPT_LEN
  BY <1>1, <1>2, GraphKept
<1>6. PICK n \in 1 .. MaxNode : n = cur
  BY <1>2, <1>3, Limits
<1>7. \E b : /\ Codes(Placed(nodes, nodes[n].prev), nodes[n].ops, b)
             /\ b.pos = pos + n
             /\ have => b.reps = nodes[n].reps
  <2>1. CASE have
    <3>1. Placed(nodes, n).pos = pos + n /\ Placed(nodes, n).reps = nodes[n].reps
      BY PlacedIs
    <3> QED
      BY <2>1, <3>1, <1>2, <1>6
  <2>2. CASE ~have
    BY <2>2, <1>2, <1>6 DEF Reaches
  <2> QED
    BY <2>1, <2>2
<1>8. PICK b : /\ Codes(Placed(nodes, nodes[n].prev), nodes[n].ops, b)
               /\ b.pos = pos + n
               /\ have => b.reps = nodes[n].reps
  BY <1>7
<1>9. PICK h, ops : h = Here /\ ops = PathTo[n] /\ Codes(h, ops, b)
  BY <1>2, <1>3, <1>6, <1>8, PathCodes
<1>10. Codes(h, ops, b)'
  BY <1>1, <1>4, <1>9, CodesSame
<1>11. Ready(b)'
  <2>1. Below(asked', b.pos + Ahead')
    <3>1. Ahead' = Ahead
      BY <1>1 DEF Ahead
    <3> QED
      BY <3>1, <1>1, <1>2, <1>6, <1>8
  <2>2. ASSUME have'
        PROVE  matches' = Found(b.pos)' /\ LongOps(b.pos, b.reps)' # <<>>
    <3>1. have
      BY <2>2, <1>1
    <3>2. Found(b.pos)' = Found(b.pos)
      BY <1>4, OpsSame
    <3>3. LongOps(b.pos, b.reps)' = LongOps(b.pos, b.reps)
      BY <1>1, <1>4, LongSame
    <3> QED
      BY <3>1, <3>2, <3>3, <1>1, <1>2, <1>6, <1>8
  <2> QED
    BY <2>1, <2>2 DEF Ready
<1>12. InEmit'
  <2>1. /\ h.pos = pos' /\ h.state = state' /\ h.reps = reps'
        /\ ops = path'
    BY <1>1, <1>2, <1>4, <1>6, <1>9, HereIs
  <2> QED
    BY <2>1, <1>10, <1>11 DEF InEmit
<1>13. TypeOK'
  BY <1>1, <1>2, <1>3, <1>4, <1>5, TypeKept
<1> QED
  BY <1>1, <1>2, <1>4, <1>12, <1>13
     DEF IInv, Optimal, InSearch, InDecision, InVisit, InNode, InTrace

LEMMA EmitOpStep ==
    ASSUME IInv, EmitOp
    PROVE  IInv'
<1> DEFINE after == Emitted([state |-> state, reps |-> reps], Head(path))
<1>1. /\ pc = "emit" /\ pc' = "emit" /\ path # <<>> /\ path' = Tail(path)
      /\ state' = after.state /\ reps' = after.reps
      /\ pos' = pos + Head(path).len
      /\ UNCHANGED input /\ UNCHANGED graph
      /\ model' = model /\ asked' = asked /\ matches' = matches /\ have' = have
  BY DEF EmitOp, search
<1> HIDE DEF after
<1>2. TypeOK /\ Increasing(asked) /\ InEmit
  BY DEF IInv
<1>3. PICK a, c : /\ a.pos = pos /\ a.state = state /\ a.reps = reps
                  /\ Codes(a, path, c) /\ Ready(c)
  BY <1>1, <1>2 DEF InEmit
<1>4. PICK b : CodesOp(a, Head(path), b) /\ Codes(b, Tail(path), c)
  BY <1>1, <1>3, CodesHead
<1>5. b.pos = pos' /\ b.state = state' /\ b.reps = reps' /\ Valid(b)
  <2>1. b = Coded(a, Head(path)) /\ Valid(b)
    BY <1>4 DEF CodesOp
  <2> QED
    BY <2>1, <1>1, <1>3 DEF Coded, after
<1>6. data' = data /\ effort' = effort /\ finder' = finder
  BY <1>1 DEF input
<1>7. PICK ops : ops = path' /\ Codes(b, ops, c)'
  <2>1. PICK ops : ops = Tail(path)
    OBVIOUS
  <2>2. Codes(b, ops, c)'
    BY <2>1, <1>1, <1>4, <1>6, CodesSame
  <2> QED
    BY <2>1, <2>2, <1>1
<1>8. Ready(c)'
  <2>1. Ahead' = Ahead /\ N' = N
    BY <1>1, <1>6 DEF Ahead, N
  <2>2. Found(c.pos)' = Found(c.pos) /\ LongOps(c.pos, c.reps)' = LongOps(c.pos, c.reps)
    BY <1>1, <1>6, OpsSame, LongSame
  <2> QED
    BY <2>1, <2>2, <1>1, <1>3, <1>6 DEF Ready
<1>9. InEmit'
  BY <1>5, <1>7, <1>8, <1>1 DEF InEmit
<1>10. /\ NodesType' /\ len_end' \in 0 .. MaxNode /\ cur' \in 0 .. OPT_LEN
  BY <1>1, <1>2, GraphKept
<1>11. Valid(Here)'
  <2>1. PICK h : h = [pos |-> b.pos, state |-> b.state, reps |-> b.reps, price |-> 0]
    OBVIOUS
  <2>2. Valid(h)
    BY <2>1, <1>5, PlaceType DEF Valid, Places
  <2>3. Valid(h)'
    BY <2>2, <1>6, InputSame
  <2>4. h = Here'
    BY <2>1, <1>5 DEF Here
  <2> QED
    BY <2>3, <2>4
<1>12. TypeOK'
  <2>1. model' \in Models /\ asked' \in Seq(Nat) /\ have' \in BOOLEAN
    BY <1>1, <1>2 DEF TypeOK
  <2> QED
    BY <2>1, <1>1, <1>2, <1>10, <1>11, TypeKept
<1> QED
  BY <1>1, <1>2, <1>9, <1>12
     DEF IInv, Optimal, InSearch, InDecision, InVisit, InNode, InTrace

LEMMA EmittedAllStep ==
    ASSUME IInv, EmittedAll
    PROVE  IInv'
<1>1. /\ pc = "emit" /\ pc' = "search" /\ path = <<>>
      /\ UNCHANGED <<input, encoder>> /\ UNCHANGED input /\ UNCHANGED graph
      /\ model' = model /\ asked' = asked /\ matches' = matches /\ have' = have
  BY DEF EmittedAll, search
<1>2. TypeOK /\ Increasing(asked) /\ InEmit
  BY DEF IInv
<1>3. PICK a, c : /\ a.pos = pos /\ a.state = state /\ a.reps = reps
                  /\ Codes(a, path, c) /\ Ready(c)
  BY <1>1, <1>2 DEF InEmit
<1>4. c = a
  <2>1. PICK C : Chain(C, a, <<>>, c)
    BY <1>1, <1>3 DEF Codes
  <2>2. Len(<<>>) = 0
    OBVIOUS
  <2> QED
    BY <2>1, <2>2 DEF Chain
<1>5. /\ Here' = Here /\ Valid(Here)'
      /\ data' = data /\ effort' = effort /\ finder' = finder
      /\ pos' = pos /\ state' = state /\ reps' = reps /\ N' = N
  BY <1>1, <1>2, EncoderKept
<1>6. Ready(Here)'
  <2>1. PICK h : h = Here
    OBVIOUS
  <2>2. h.pos = c.pos /\ h.reps = c.reps
    BY <2>1, <1>2, <1>3, <1>4, HereIs
  <2>3. Ready(h)
    BY <2>2, <1>3 DEF Ready
  <2>4. Ahead' = Ahead
    BY <1>1 DEF Ahead
  <2>5. Found(h.pos)' = Found(h.pos) /\ LongOps(h.pos, h.reps)' = LongOps(h.pos, h.reps)
    BY <1>1, <1>5, OpsSame, LongSame
  <2>6. Ready(h)'
    BY <2>3, <2>4, <2>5, <1>1, <1>5 DEF Ready
  <2> QED
    BY <2>1, <2>6, <1>5
<1>7. InSearch'
  BY <1>6 DEF InSearch
<1>8. TypeOK'
  <2>1. /\ NodesType' /\ len_end' \in 0 .. MaxNode /\ cur' \in 0 .. OPT_LEN
    BY <1>1, <1>2, GraphKept
  <2>2. model' \in Models /\ asked' \in Seq(Nat) /\ have' \in BOOLEAN
    BY <1>1, <1>2 DEF TypeOK
  <2> QED
    BY <2>1, <2>2, <1>1, <1>2, <1>5, TypeKept
<1> QED
  BY <1>1, <1>2, <1>7, <1>8
     DEF IInv, Optimal, InDecision, InEmit, InVisit, InNode, InTrace

LEMMA FinishStep ==
    ASSUME IInv, Finish
    PROVE  IInv'
<1>1. /\ pc' = "done"
      /\ UNCHANGED <<input, encoder>> /\ UNCHANGED input /\ UNCHANGED graph
      /\ model' = model /\ asked' = asked /\ have' = have
  BY DEF Finish, search
<1>2. TypeOK /\ Increasing(asked)
  BY DEF IInv
<1>3. /\ NodesType' /\ len_end' \in 0 .. MaxNode /\ cur' \in 0 .. OPT_LEN
  BY <1>1, <1>2, GraphKept
<1>4. Valid(Here)'
  BY <1>1, <1>2, EncoderKept
<1>5. TypeOK'
  <2>1. model' \in Models /\ asked' \in Seq(Nat) /\ have' \in BOOLEAN
    BY <1>1, <1>2 DEF TypeOK
  <2> QED
    BY <2>1, <1>1, <1>2, <1>3, <1>4, TypeKept
<1> QED
  BY <1>1, <1>2, <1>5
     DEF IInv, Optimal, InSearch, InDecision, InEmit, InVisit, InNode, InTrace

LEMMA StutterStep ==
    ASSUME IInv, UNCHANGED vars
    PROVE  IInv'
<1>1. /\ pc' = pc /\ path' = path
      /\ UNCHANGED <<input, encoder>> /\ UNCHANGED input /\ UNCHANGED graph
      /\ model' = model /\ asked' = asked /\ matches' = matches /\ have' = have
  BY DEF vars, search
<1>2. TypeOK /\ Increasing(asked)
  BY DEF IInv
<1>3. /\ Here' = Here /\ Valid(Here)'
      /\ data' = data /\ effort' = effort /\ finder' = finder
      /\ pos' = pos /\ state' = state /\ reps' = reps /\ N' = N
  BY <1>1, <1>2, EncoderKept
<1>4. /\ NodesType' /\ nodes' = nodes /\ len_end' = len_end /\ cur' = cur
      /\ len_end' \in 0 .. MaxNode /\ cur' \in 0 .. OPT_LEN
  BY <1>1, <1>2, GraphKept
<1>5. TypeOK'
  <2>1. /\ model' \in Models /\ asked' \in Seq(Nat) /\ have' \in BOOLEAN
        /\ pc' \in {"search", "choose", "stretch", "relax", "visit", "long", "trace", "emit", "done"}
    BY <1>1, <1>2 DEF TypeOK
  <2> QED
    BY <2>1, <1>1, <1>2, <1>3, <1>4, TypeKept
<1>6. /\ \A p : Found(p)' = Found(p)
      /\ \A p, r : LongOps(p, r)' = LongOps(p, r)
  BY <1>1, <1>3, OpsSame, LongSame
<1>7. Ahead' = Ahead
  BY <1>1 DEF Ahead
<1>8. /\ \A n : SettledTo(n)' <=> SettledTo(n)
      /\ \A n : Passed(n)' <=> Passed(n)
      /\ \A i : Reaches(nodes, i)' <=> Reaches(nodes, i)
      /\ \A n : ReachedFrom(n)' <=> ReachedFrom(n)
      /\ \A i : Placed(nodes, i)' = Placed(nodes, i)
  BY <1>1, <1>3, <1>4, StretchKept
<1>9. \A c : Ready(c)' <=> Ready(c)
  BY <1>1, <1>3, <1>6, <1>7 DEF Ready
<1>10. InSearch'
  <2>1. PICK h : h = Here
    OBVIOUS
  <2> QED
    BY <2>1, <1>1, <1>3, <1>9 DEF IInv, InSearch
<1>11. InDecision'
  BY <1>1, <1>3, <1>6 DEF IInv, InDecision
<1>12. InEmit'
  <2>1. CASE pc = "emit"
    <3>1. PICK a, c, ops : /\ a.pos = pos /\ a.state = state /\ a.reps = reps
                           /\ ops = path /\ Codes(a, ops, c) /\ Ready(c)
      BY <2>1 DEF IInv, InEmit
    <3>2. Codes(a, ops, c)' /\ Ready(c)'
      BY <3>1, <1>1, <1>3, <1>9, CodesSame
    <3> QED
      BY <3>1, <3>2, <1>1, <1>3 DEF InEmit
  <2> QED
    BY <2>1, <1>1 DEF InEmit
<1>13. \A n : InStretch(n)' <=> InStretch(n)
  BY <1>1, <1>3, <1>4, <1>8 DEF InStretch
<1>14. InVisit'
  BY <1>1, <1>4, <1>13 DEF IInv, InVisit
<1>15. InNode'
  BY <1>1, <1>3, <1>4, <1>6, <1>13 DEF IInv, InNode
<1>16. InTrace'
  <2>1. ASSUME Codes(Placed(nodes, nodes[cur].prev), nodes[cur].ops, Placed(nodes, cur))
        PROVE  Codes(Placed(nodes, nodes[cur].prev), nodes[cur].ops, Placed(nodes, cur))'
    <3>1. PICK a, ops, b, j, k : /\ k = cur /\ j = nodes[k].prev /\ a = Placed(nodes, j)
                                 /\ ops = nodes[k].ops /\ b = Placed(nodes, k)
      OBVIOUS
    <3>2. Codes(a, ops, b)'
      BY <2>1, <3>1, <1>1, <1>3, CodesSame
    <3>3. k = cur' /\ j = nodes'[k].prev /\ ops = nodes'[k].ops
          /\ a = Placed(nodes, j)' /\ b = Placed(nodes, k)'
      BY <3>1, <1>4, <1>8
    <3> QED
      BY <3>2, <3>3
  <2> QED
    BY <2>1, <1>1, <1>3, <1>4, <1>6, <1>7, <1>8 DEF IInv, InTrace
<1> QED
  BY <1>1, <1>2, <1>3, <1>5, <1>10, <1>11, <1>12, <1>14, <1>15, <1>16 DEF IInv, Optimal

LEMMA InitIInv ==
    ASSUME Init
    PROVE  IInv
<1>1. /\ data \in Inputs /\ effort \in Efforts /\ model \in Models
      /\ finder = [p \in 0 .. N - 1 |-> MatchesAt(p)]
      /\ pc = "search" /\ pos = 0 /\ state = 0 /\ reps = <<0, 0, 0, 0>>
      /\ asked = <<>> /\ have = FALSE
      /\ nodes = [i \in 0 .. MaxNode |-> Node(0, 0, <<Literal>>, 0, <<0, 0, 0, 0>>)]
      /\ len_end = 0 /\ cur = 0
  BY DEF Init
<1>2. \A p \in 0 .. N - 1 : Found(p) \in Seq(GoodMatches(p))
  BY <1>1, MatchesAtType DEF Found
<1>3. 0 \in States /\ IsLiteral(0) /\ <<0, 0, 0, 0>> \in Reps
  <2>1. 0 \in States /\ IsLiteral(0)
    BY DEF States, IsLiteral, LIT_STATES
  <2>2. <<0, 0, 0, 0>> \in Reps
    BY DEF Reps
  <2> QED
    BY <2>1, <2>2
<1>4. N \in Nat /\ MaxNode \in Nat /\ OPT_LEN \in Nat
  BY <1>1, InputType, Limits
<1>5. Valid(Here)
  BY <1>1, <1>3, <1>4 DEF Valid, Places, Here
<1>6. PICK z : /\ z = Node(0, 0, <<Literal>>, 0, <<0, 0, 0, 0>>)
               /\ z \in NodeRecs /\ z.prev = 0
  <2>1. <<Literal>> \in Seq(Ops)
    BY SomeOps
  <2>2. PICK r, ops : /\ r = <<0, 0, 0, 0>> /\ r \in Reps
                      /\ ops = <<Literal>> /\ ops \in Seq(Ops)
    BY <2>1, <1>3
  <2>3. PICK x : x = [price |-> 0, prev |-> 0, ops |-> ops, state |-> 0, reps |-> r]
    OBVIOUS
  <2>4. 0 \in 0 .. MaxNode
    BY <1>4
  <2>5. x \in NodeRecs /\ x.prev = 0
    BY <2>2, <2>3, <2>4, <1>3 DEF NodeRecs
  <2>6. x = Node(0, 0, <<Literal>>, 0, <<0, 0, 0, 0>>)
    BY <2>2, <2>3 DEF Node
  <2> QED
    BY <2>5, <2>6
<1>7. NodesType
  BY <1>1, <1>4, <1>6 DEF NodesType
<1>8. Ready(Here) /\ Increasing(asked) /\ asked \in Seq(Nat)
  <2>1. asked \in Seq(Nat) /\ Len(asked) = 0
    BY <1>1
  <2>2. Increasing(asked)
    BY <2>1 DEF Increasing
  <2>3. \A n : Below(asked, n)
    BY <2>1 DEF Below
  <2> QED
    BY <2>1, <2>2, <2>3, <1>1 DEF Ready
<1>9. TypeOK
  <2>1. len_end \in 0 .. MaxNode /\ cur \in 0 .. OPT_LEN
    BY <1>1, <1>4
  <2>2. have \in BOOLEAN
    BY <1>1
  <2> QED
    BY <2>1, <2>2, <1>1, <1>2, <1>5, <1>7, <1>8 DEF TypeOK
<1> QED
  BY <1>1, <1>8, <1>9
     DEF IInv, Optimal, InSearch, InDecision, InEmit, InVisit, InNode, InTrace

LEMMA NextIInv ==
    ASSUME IInv, [Next]_vars
    PROVE  IInv'
<1>1. CASE ParseFast
  BY <1>1, ChooseRepStep, ChooseNiceMatchStep, ChooseLiteralStep, ChooseLaterStep,
     ChooseMatchStep DEF ParseFast
<1>2. CASE Stretch
  BY <1>2, TakeLongStep, BeginStretchStep, EndStretchStep, VisitStep, StopAtLongStep,
     RelaxStep, TraceBackStep DEF Stretch
<1>3. CASE UNCHANGED vars
  BY <1>3, StutterStep
<1>4. CASE Search \/ EmitOp \/ EmittedAll \/ Finish
  BY <1>4, SearchStep, EmitOpStep, EmittedAllStep, FinishStep
<1> QED
  BY <1>1, <1>2, <1>3, <1>4 DEF Next

-----------------------------------------------------------------------------
(* What the invariant says, and the properties of the runs.                *)

LEMMA SearchedOnceIs ==
    ASSUME IInv
    PROVE  SearchedOnce
  BY DEF IInv, Increasing, SearchedOnce

LEMMA MatchesCurrentIs ==
    ASSUME IInv
    PROVE  MatchesCurrent
  BY DEF IInv, InDecision, InNode, MatchesCurrent

LEMMA OpsDescribeInputIs ==
    ASSUME IInv
    PROVE  OpsDescribeInput
<1>1. SUFFICES ASSUME pc = "emit", path # <<>>
               PROVE  Describes(data, pos, reps, Head(path))
  BY DEF OpsDescribeInput
<1>2. PICK a, c : a.pos = pos /\ a.reps = reps /\ Codes(a, path, c)
  BY <1>1 DEF IInv, InEmit
<1>3. PICK b : CodesOp(a, Head(path), b)
  BY <1>1, <1>2, CodesHead
<1> QED
  BY <1>2, <1>3 DEF CodesOp

LEMMA PricedAsCodedIs ==
    ASSUME IInv
    PROVE  PricedAsCoded
<1> DEFINE end == CodedAll([pos |-> pos, state |-> state, reps |-> reps, price |-> 0],
                           PathTo[cur])
<1>1. SUFFICES ASSUME pc = "trace"
               PROVE  end.pos = pos + cur /\ end.price = nodes[cur].price
  BY DEF PricedAsCoded
<1>2. /\ TypeOK /\ cur >= 1 /\ cur \in 0 .. OPT_LEN /\ NodesType /\ Valid(Here)
      /\ SettledTo(cur) /\ Reaches(nodes, cur)
  BY <1>1 DEF IInv, InTrace, TypeOK
<1>3. PICK n \in 1 .. MaxNode : n = cur
  BY <1>2, Limits
<1>4. PICK b : /\ Codes(Placed(nodes, nodes[n].prev), nodes[n].ops, b)
               /\ b.pos = pos + n /\ b.price = nodes[n].price
  BY <1>2, <1>3 DEF Reaches
<1>5. Codes(Here, PathTo[n], b)
  BY <1>2, <1>3, <1>4, PathCodes
<1>6. end = b
  BY <1>3, <1>5, CodedAllIs DEF Here
<1> QED
  BY <1>3, <1>4, <1>6

LEMMA CheapestArrivalIs ==
    ASSUME IInv
    PROVE  CheapestArrival
  BY DEF IInv, InTrace, Passed, CheapestArrival

LEMMA CarriedIsTakenIs ==
    ASSUME IInv
    PROVE  CarriedIsTaken
  BY DEF IInv, InDecision, CarriedIsTaken

(***************************************************************************)
(* The state of both parsers is what IInv says: what is kept from one      *)
(* decision to the next was found at the position that is next, the nodes  *)
(* of a stretch that have been passed carry the state and the distances of *)
(* their paths, and what they offer has been taken.                        *)
(***************************************************************************)
THEOREM Invariant == Spec => []IInv
<1>1. Init => IInv
  BY InitIInv
<1>2. IInv /\ [Next]_vars => IInv'
  BY NextIInv
<1> QED
  BY <1>1, <1>2, PTL DEF Spec

(***************************************************************************)
(* Match finding: whatever the input and the effort, no position is        *)
(* searched twice and none after a later one, by parse_fast (which looks   *)
(* one position ahead) as by parse (which searches every node it visits).  *)
(***************************************************************************)
THEOREM EachSearchedOnce == Spec => []SearchedOnce
<1>1. IInv => SearchedOnce
  BY SearchedOnceIs
<1> QED
  BY <1>1, Invariant, PTL

(***************************************************************************)
(* Encoder::choose and stretch decide from the matches of the position     *)
(* they decide for, however those came to be in self.matches.              *)
(***************************************************************************)
THEOREM DecidesFromMatchesHere == Spec => []MatchesCurrent
<1>1. IInv => MatchesCurrent
  BY MatchesCurrentIs
<1> QED
  BY <1>1, Invariant, PTL

(***************************************************************************)
(* Every operation both parsers hand to Encoder::emit describes the input  *)
(* at its position, given the distances the encoder has when it is emitted.*)
(***************************************************************************)
THEOREM EmitsWhatIsThere == Spec => []OpsDescribeInput
<1>1. IInv => OpsDescribeInput
  BY OpsDescribeInputIs
<1> QED
  BY <1>1, Invariant, PTL

(***************************************************************************)
(* The path stretch chooses covers it exactly and costs, coded by the      *)
(* encoder, what the parser took it for: the states and distances it       *)
(* predicted for every node on the way are those the encoder comes to.     *)
(***************************************************************************)
THEOREM PathCostsWhatItTook == Spec => []PricedAsCoded
<1>1. IInv => PricedAsCoded
  BY PricedAsCodedIs
<1> QED
  BY <1>1, Invariant, PTL

(***************************************************************************)
(* No operation the parser knows of leads from a node it has passed to a   *)
(* later one for less than the price it found for that one: the relaxation *)
(* leaves no operation out and undoes nothing.                             *)
(***************************************************************************)
THEOREM NothingCheaperMissed == Spec => []CheapestArrival
<1>1. IInv => CheapestArrival
  BY CheapestArrivalIs
<1> QED
  BY <1>1, Invariant, PTL

(***************************************************************************)
(* A stretch that stopped at a long operation, keeping its matches, hands  *)
(* the next one a long operation.                                          *)
(***************************************************************************)
THEOREM LongOpIsTaken == Spec => []CarriedIsTaken
<1>1. IInv => CarriedIsTaken
  BY CarriedIsTakenIs
<1> QED
  BY <1>1, Invariant, PTL
=============================================================================
