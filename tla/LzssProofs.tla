---------------------------- MODULE LzssProofs ----------------------------
(* Proofs about Lz77, for every input, every effort and every window, and   *)
(* about Lzss: a stream that arrives whole round-trips, whatever arrives    *)
(* stays in bounds, and LZSS implements Codec.                              *)
EXTENDS Lzss, Integers, TLAPS, SequenceTheorems

-----------------------------------------------------------------------------
(* The inductive invariant.                                                *)

\* A match the parser may emit at p.
Usable(p, len, dist) ==
    /\ len \in MIN_MATCH .. MAX_MATCH
    /\ dist \in 1 .. WINDOW
    /\ IsMatch(p, len, dist)

\* What find was told to beat.
Beat == IF ahead THEN firstLen ELSE MIN_MATCH - 1

\* During a call of find: where it searches, and what it has found so far.
Finding ==
    /\ pos < N /\ at < N
    /\ at = IF ahead THEN pos + 1 ELSE pos
    /\ ahead => Usable(pos, firstLen, firstDist)
    /\ bestDist = 0 => bestLen = Beat
    /\ bestDist # 0 => bestLen >= MIN_MATCH /\ Usable(at, bestLen, bestDist)
    /\ indexed <= at
    /\ ~pending

Walking ==
    /\ indexed = at
    /\ bestLen < MaxLen(at)
    /\ MIN_MATCH <= MaxLen(at)
    /\ cand <= at

\* No chain starts beyond the index.
HeadsBounded == \A h \in HashSlots : head[h] <= indexed

\* Where the parser may be, loop by loop.
Control ==
    /\ pos <= N
    /\ HeadsBounded
    /\ pc \in {"index", "walk"} => Finding
    /\ pc = "walk" => Walking
    /\ pc = "choose" =>
        /\ pos < N /\ at = pos /\ ~pending /\ indexed <= pos
        /\ bestLen >= MIN_MATCH => Usable(pos, bestLen, bestDist)
    /\ pc = "compare" =>
        /\ pos + 1 < N /\ at = pos + 1 /\ ~pending /\ indexed <= at
        /\ Usable(pos, firstLen, firstDist)
        /\ bestLen > firstLen => Usable(at, bestLen, bestDist)
    /\ pc = "parse" =>
        /\ indexed <= pos
        /\ pending => /\ pos < N /\ at = pos
                      /\ Usable(pos, bestLen, bestDist)

IInv == TypeOK /\ Control /\ TokensTile
-----------------------------------------------------------------------------
(* Facts about the operators.                                              *)

LEMMA NaturalLength == ASSUME data \in Inputs PROVE N \in Nat
  BY InputAssumption DEF N

LEMMA MaxLenBounds ==
    ASSUME data \in Inputs, NEW p \in Nat, p <= N
    PROVE  MaxLen(p) \in Nat /\ MaxLen(p) <= MAX_MATCH /\ p + MaxLen(p) <= N
  BY NaturalLength, LimitsAssumption DEF MaxLen, Smaller

LEMMA HashAtType ==
    ASSUME data \in Inputs, NEW p \in Nat, Hashable(p)
    PROVE  HashAt(p) \in HashSlots
<1>1. data \in Seq(Byte)
  BY InputAssumption
<1>2. \A i \in 1 .. MIN_MATCH : p + i \in 1 .. Len(data)
  BY <1>1, LimitsAssumption DEF Hashable, N
<1>3. [i \in 1 .. MIN_MATCH |-> data[p + i]] \in [1 .. MIN_MATCH -> Byte]
  BY <1>1, <1>2
<1> QED
  BY <1>3, HashAssumption DEF HashAt

LEMMA SlotInRing == ASSUME NEW p \in Nat PROVE p % WINDOW \in 0 .. WINDOW - 1
  BY LimitsAssumption

THEOREM InitInductive == Init => IInv
<1> SUFFICES ASSUME Init PROVE IInv
  OBVIOUS
<1> USE LimitsAssumption, InputAssumption DEF Init
<1>1. TypeOK
  BY DEF TypeOK, NONE
<1>2. Control
  BY NaturalLength DEF Control, HeadsBounded, NONE
<1>3. TokensTile
  BY DEF TokensTile, StartAfter
<1> QED
  BY <1>1, <1>2, <1>3 DEF IInv
-----------------------------------------------------------------------------
(* How the steps change the tokens.                                        *)

LEMMA TokensUnchanged ==
    ASSUME TokensTile, UNCHANGED <<data, tokens, starts, pos>>
    PROVE  TokensTile'
  BY DEF TokensTile, StartAfter, Describes, IsMatch, N, ByteLen

LEMMA TokenEmitted ==
    ASSUME TypeOK, TokensTile, NEW token \in Token,
           Emit(token), Describes(token, pos), pos' = pos + ByteLen(token), data' = data
    PROVE  TokensTile'
<1>1. /\ tokens \in Seq(Token) /\ starts \in Seq(Nat) /\ pos \in Nat
      /\ Len(starts) = Len(tokens)
  BY DEF TypeOK, TokensTile
<1>2. /\ Len(tokens') = Len(tokens) + 1
      /\ Len(starts') = Len(starts) + 1
      /\ tokens'[Len(tokens) + 1] = token
      /\ starts'[Len(tokens) + 1] = pos
      /\ \A i \in 1 .. Len(tokens) : tokens'[i] = tokens[i] /\ starts'[i] = starts[i]
  BY <1>1 DEF Emit
<1>3. \A i \in 0 .. Len(tokens) : StartAfter(i)' = StartAfter(i)
  BY <1>1, <1>2 DEF StartAfter
<1>4. \A i \in Nat : i >= Len(tokens') => StartAfter(i)' = pos'
  BY <1>1, <1>2 DEF StartAfter
<1>5. \A t, p : Describes(t, p)' <=> Describes(t, p)
  BY DEF Describes, IsMatch, N
<1>6. StartAfter(0)' = 0
  BY <1>1, <1>3 DEF TokensTile
<1>7. ASSUME NEW i \in 1 .. Len(tokens')
      PROVE  /\ Describes(tokens[i], starts[i])'
             /\ StartAfter(i)' = starts'[i] + ByteLen(tokens'[i])
  <2>1. CASE i = Len(tokens) + 1
    BY <2>1, <1>1, <1>2, <1>4, <1>5
  <2>2. CASE i \in 1 .. Len(tokens)
    BY <2>2, <1>1, <1>2, <1>3, <1>5 DEF TokensTile
  <2> QED
    BY <2>1, <2>2, <1>1, <1>2
<1> QED
  BY <1>1, <1>2, <1>6, <1>7 DEF TokensTile, ByteLen

\* A usable match is a token of the format.
LEMMA MatchEmitted ==
    ASSUME NEW p, NEW len, NEW dist, Usable(p, len, dist)
    PROVE  /\ Match(len, dist) \in Token
           /\ Describes(Match(len, dist), p)
           /\ ByteLen(Match(len, dist)) = len
           /\ len \in Nat /\ len >= 1 /\ p + len <= N
  BY LimitsAssumption DEF Usable, Match, Token, Describes, ByteLen, IsMatch

LEMMA LiteralEmitted ==
    ASSUME data \in Inputs, NEW p \in Nat, p < N
    PROVE  /\ Literal(data[p + 1]) \in Token
           /\ Describes(Literal(data[p + 1]), p)
           /\ ByteLen(Literal(data[p + 1])) = 1
<1>1. data \in Seq(Byte)
  BY InputAssumption
<1>2. data[p + 1] \in Byte
  BY <1>1 DEF N
<1> QED
  BY <1>2 DEF Literal, Token, Describes, ByteLen

\* The input never changes, and with it what holds of a match.
LEMMA InputUnchanged ==
    ASSUME data' = data
    PROVE  /\ N' = N
           /\ \A p : (MaxLen(p)' = MaxLen(p)) /\ (Hashable(p)' <=> Hashable(p))
           /\ \A p, len, dist : Usable(p, len, dist)' <=> Usable(p, len, dist)
  BY DEF N, MaxLen, Hashable, Usable, IsMatch
-----------------------------------------------------------------------------
(* Each step of find preserves the invariant.                              *)

\* find is back at its caller.
Returned == pc = ReturnPc

\* What holds while find runs is what its caller needs when it returns.
LEMMA FindReturns == TypeOK /\ Finding /\ HeadsBounded /\ Returned => Control
<1> SUFFICES ASSUME TypeOK, Finding, HeadsBounded, Returned PROVE Control
  OBVIOUS
<1>1. N \in Nat
  BY NaturalLength DEF TypeOK
<1>2. CASE ahead
  <2>1. bestLen > firstLen => Usable(at, bestLen, bestDist)
    BY <1>1, <1>2 DEF Finding, Beat, TypeOK
  <2>2. pc = "compare"
    BY <1>2 DEF Returned, ReturnPc
  <2> QED
    BY <1>1, <1>2, <2>1, <2>2 DEF Finding, Control, TypeOK
<1>3. CASE ~ahead
  <2>1. bestLen >= MIN_MATCH => Usable(pos, bestLen, bestDist)
    BY <1>1, <1>3, LimitsAssumption DEF Finding, Beat, TypeOK
  <2>2. pc = "choose"
    BY <1>3 DEF Returned, ReturnPc
  <2> QED
    BY <1>1, <1>3, <2>1, <2>2 DEF Finding, Control, TypeOK
<1> QED
  BY <1>2, <1>3

LEMMA IndexPositionStep == ASSUME IInv, IndexPosition PROVE IInv'
<1> USE DEF IInv
<1>1. data' = data /\ UNCHANGED <<tokens, starts, pos>>
  BY DEF IndexPosition, inputVars, outputVars
<1>2. HashAt(indexed) \in HashSlots /\ indexed % WINDOW \in 0 .. WINDOW - 1
  BY HashAtType, SlotInRing DEF TypeOK, IndexPosition
<1>3. TypeOK'
  BY <1>2 DEF TypeOK, IndexPosition, inputVars, outputVars, findVars
<1>4. HeadsBounded'
  BY <1>2 DEF TypeOK, Control, HeadsBounded, IndexPosition
<1>5. Control'
  BY <1>1, <1>4, InputUnchanged
  DEF TypeOK, Control, Finding, Beat, IndexPosition, inputVars, outputVars, findVars
<1>6. TokensTile'
  BY <1>1, TokensUnchanged
<1> QED
  BY <1>3, <1>5, <1>6

LEMMA StartWalkStep == ASSUME IInv, StartWalk PROVE IInv'
<1> USE DEF IInv
<1>1. data' = data /\ UNCHANGED <<tokens, starts, pos>>
  BY DEF StartWalk, inputVars, outputVars
<1>2. /\ Finding /\ indexed' = at
      /\ at \in Nat /\ indexed \in Nat /\ N \in Nat /\ at < N /\ data \in Inputs
  BY NaturalLength DEF StartWalk, Control, TypeOK, Finding, Larger
<1>3. ~Hopeless => /\ MIN_MATCH <= MaxLen(at) /\ bestLen < MaxLen(at)
                   /\ Hashable(at) /\ HashAt(at) \in HashSlots
  <2>1. SUFFICES ASSUME ~Hopeless PROVE MIN_MATCH <= MaxLen(at) /\ bestLen < MaxLen(at)
                                        /\ Hashable(at)
    BY <1>2, HashAtType DEF TypeOK
  <2>2. MaxLen(at) \in Nat /\ at + MaxLen(at) <= N
    BY <1>2, MaxLenBounds
  <2> QED
    BY <1>2, <2>1, <2>2, LimitsAssumption DEF Hopeless, Hashable, TypeOK
<1>4. TypeOK'
  BY <1>2, <1>3 DEF TypeOK, StartWalk, NONE, ReturnPc, inputVars, outputVars
<1>5. HeadsBounded'
  BY <1>2 DEF TypeOK, Control, HeadsBounded, StartWalk, Finding
<1>6. Control'
  <2>1. Finding'
    BY <1>1, <1>2, InputUnchanged DEF Finding, Beat, StartWalk
  <2>2. CASE Hopeless
    <3>1. Returned'
      BY <2>2 DEF StartWalk, Returned, ReturnPc
    <3> QED
      BY <2>1, <3>1, <1>4, <1>5, FindReturns, PTL
  <2>3. CASE ~Hopeless
    <3>1. pc' = "walk" /\ cand' = head[HashAt(at)] /\ cand' <= at
      BY <2>3, <1>2, <1>3 DEF TypeOK, Control, HeadsBounded, StartWalk, Finding
    <3>2. Walking'
      BY <2>3, <3>1, <1>1, <1>2, <1>3, InputUnchanged DEF Walking, StartWalk
    <3> QED
      BY <2>1, <3>1, <3>2, <1>1, <1>2, <1>5, InputUnchanged DEF Control, TypeOK, Finding
  <2> QED
    BY <2>2, <2>3
<1>7. TokensTile'
  BY <1>1, TokensUnchanged
<1> QED
  BY <1>4, <1>6, <1>7

LEMMA StopWalkStep == ASSUME IInv, StopWalk PROVE IInv'
<1> USE DEF IInv
<1>1. data' = data /\ UNCHANGED <<tokens, starts, pos>>
  BY DEF StopWalk, inputVars, outputVars
<1>2. TypeOK'
  BY DEF TypeOK, StopWalk, ReturnPc, inputVars, outputVars, indexVars, findVars
<1>3. Finding' /\ HeadsBounded' /\ Returned'
  BY <1>1, InputUnchanged
  DEF Control, HeadsBounded, Finding, Beat, StopWalk, Returned, ReturnPc, indexVars, findVars
<1>4. Control'
  BY <1>2, <1>3, FindReturns, PTL
<1>5. TokensTile'
  BY <1>1, TokensUnchanged
<1> QED
  BY <1>2, <1>4, <1>5
\* A candidate within reach that agrees on len bytes is a match.
LEMMA AgreeIsMatch ==
    ASSUME TypeOK, Finding, Walking, ~ChainEnds,
           NEW len \in 0 .. MaxLen(at), Agree(cand - 1, at, MaxLen(at), len),
           len >= MIN_MATCH
    PROVE  Usable(at, len, at - (cand - 1))
<1>1. /\ at \in Nat /\ cand \in Nat /\ cand >= 1 /\ at < N /\ N \in Nat /\ data \in Inputs
      /\ cand - 1 < at /\ at - (cand - 1) \in 1 .. WINDOW
  BY NaturalLength, LimitsAssumption DEF TypeOK, Finding, Walking, ChainEnds, NONE
<1>2. len \in MIN_MATCH .. MAX_MATCH /\ at + len <= N
  <2>1. MaxLen(at) \in Nat /\ MaxLen(at) <= MAX_MATCH /\ at + MaxLen(at) <= N
    BY <1>1, MaxLenBounds
  <2> QED
    BY <1>1, <2>1, LimitsAssumption
<1>3. \A k \in 0 .. len - 1 : data[at - (at - (cand - 1)) + k + 1] = data[at + k + 1]
  <2>1. at - (at - (cand - 1)) = cand - 1
    BY <1>1
  <2> QED
    BY <2>1 DEF Agree
<1> QED
  BY <1>1, <1>2, <1>3 DEF Usable, IsMatch

LEMMA ExamineStep == ASSUME IInv, Examine PROVE IInv'
<1> USE DEF IInv
<1>1. data' = data /\ UNCHANGED <<tokens, starts, pos>>
  BY DEF Examine, inputVars, outputVars
<1>2. /\ Finding /\ Walking /\ ~ChainEnds /\ HeadsBounded
      /\ at \in Nat /\ cand \in Nat /\ cand >= 1 /\ chain \in Nat /\ chain >= 1
      /\ cand - 1 < at /\ at - (cand - 1) \in Nat /\ at - (cand - 1) # 0
  BY DEF Examine, Control, TypeOK, Walking, ChainEnds, NONE
<1>3. NextLink \in Nat
  <2>1. cand - 1 \in Nat
    BY <1>2
  <2>2. (cand - 1) % WINDOW \in 0 .. WINDOW - 1
    BY <2>1, SlotInRing
  <2> QED
    BY <2>2 DEF NextLink, TypeOK
<1>4. MaxLen(at) \in Nat
  BY <1>2, NaturalLength, MaxLenBounds DEF TypeOK, Finding
<1>5. PICK len \in 0 .. MaxLen(at) :
        /\ Agree(cand - 1, at, MaxLen(at), len)
        /\ bestLen' = IF Improves(len) THEN len ELSE bestLen
        /\ bestDist' = IF Improves(len) THEN at - (cand - 1) ELSE bestDist
        /\ pc' = IF StopsAt(len) THEN ReturnPc ELSE "walk"
        /\ cand' = IF StopsAt(len) THEN cand ELSE NextLink
        /\ chain' = IF StopsAt(len) THEN chain ELSE chain - 1
  BY DEF Examine
<1>6. UNCHANGED <<data, params, head, prev, indexed, at, ahead, pos, firstLen, firstDist,
                  pending, tokens, starts>>
  BY DEF Examine, inputVars, indexVars, outputVars
<1>7. TypeOK'
  BY <1>2, <1>3, <1>4, <1>5, <1>6 DEF TypeOK, ReturnPc
<1>8. bestLen \in Nat /\ bestLen >= MIN_MATCH - 1
  BY <1>2, LimitsAssumption DEF Finding, Beat, Usable, TypeOK
<1>9. Finding'
  <2>1. CASE Improves(len)
    <3>1. len >= MIN_MATCH
      BY <2>1, <1>4, <1>8, LimitsAssumption DEF Improves
    <3>2. Usable(at, len, at - (cand - 1))
      BY <3>1, <1>2, <1>5, AgreeIsMatch
    <3>3. bestLen' = len /\ bestDist' = at - (cand - 1)
      BY <2>1, <1>5
    <3> QED
      BY <3>1, <3>2, <3>3, <1>1, <1>2, <1>6, InputUnchanged DEF Finding, Beat
  <2>2. CASE ~Improves(len)
    <3>1. bestLen' = bestLen /\ bestDist' = bestDist
      BY <2>2, <1>5
    <3> QED
      BY <3>1, <1>1, <1>2, <1>6, InputUnchanged DEF Finding, Beat
  <2> QED
    BY <2>1, <2>2
<1>10. HeadsBounded'
  BY <1>2, <1>6 DEF HeadsBounded
<1>11. Control'
  <2>1. CASE StopsAt(len)
    <3>1. Returned'
      BY <2>1, <1>5, <1>6 DEF Returned, ReturnPc
    <3> QED
      BY <3>1, <1>7, <1>9, <1>10, FindReturns, PTL
  <2>2. CASE ~StopsAt(len)
    <3>1. pc' = "walk" /\ cand' = NextLink /\ NextLink < cand
      BY <2>2, <1>2, <1>3, <1>5 DEF StopsAt
    <3>2. bestLen' < MaxLen(at)
      <4>1. CASE Improves(len)
        BY <4>1, <2>2, <1>4, <1>5 DEF StopsAt
      <4>2. CASE ~Improves(len)
        BY <4>2, <1>2, <1>5 DEF Walking
      <4> QED
        BY <4>1, <4>2
    <3>3. cand' <= at
      BY <3>1, <1>2, <1>3
    <3>4. Walking'
      BY <3>2, <3>3, <1>1, <1>2, <1>6, InputUnchanged DEF Walking
    <3> QED
      BY <3>1, <3>4, <1>1, <1>6, <1>9, <1>10, InputUnchanged DEF Control
  <2> QED
    BY <2>1, <2>2
<1>12. TokensTile'
  BY <1>1, TokensUnchanged
<1> QED
  BY <1>7, <1>11, <1>12
-----------------------------------------------------------------------------
(* Each step of the parser preserves the invariant.                        *)

LEMMA SearchStep == ASSUME IInv, Search PROVE IInv'
<1> USE DEF IInv
<1>1. data' = data /\ UNCHANGED <<tokens, starts, pos>>
  BY DEF Search, inputVars, outputVars
<1>2. pc' = "index" /\ at' = pos /\ ahead' = FALSE /\ bestLen' = MIN_MATCH - 1 /\ bestDist' = 0
  BY DEF Search, CallFind
<1>3. params.max_chain \in Nat /\ MIN_MATCH - 1 \in Nat
  BY InputAssumption, LimitsAssumption DEF TypeOK, Params
<1>4. TypeOK'
  <2>1. chain' = params.max_chain /\ cand' = 0 /\ UNCHANGED indexVars
        /\ UNCHANGED <<inputVars, pos, firstLen, firstDist, pending, outputVars>>
    BY DEF Search, CallFind, NONE
  <2>2. at' \in Nat /\ bestLen' \in Nat /\ chain' \in Nat /\ ahead' \in BOOLEAN
    BY <1>2, <1>3, <2>1 DEF TypeOK
  <2> QED
    BY <1>2, <2>1, <2>2 DEF TypeOK, inputVars, outputVars, indexVars
<1>5. Finding'
  BY <1>1, <1>2, InputUnchanged DEF TypeOK, Control, Finding, Beat, Search, CallFind, indexVars
<1>6. Control'
  BY <1>1, <1>2, <1>5, InputUnchanged
  DEF TypeOK, Control, HeadsBounded, Search, CallFind, indexVars
<1>7. TokensTile'
  BY <1>1, TokensUnchanged
<1> QED
  BY <1>4, <1>6, <1>7

LEMMA TakePendingStep == ASSUME IInv, TakePending PROVE IInv'
<1> USE DEF IInv
<1>1. data' = data /\ UNCHANGED <<tokens, starts, pos>>
  BY DEF TakePending, inputVars, outputVars
<1>2. TypeOK'
  BY DEF TypeOK, TakePending, inputVars, outputVars, indexVars, findVars
<1>3. Control'
  BY <1>1, InputUnchanged
  DEF TypeOK, Control, HeadsBounded, TakePending, indexVars, findVars
<1>4. TokensTile'
  BY <1>1, TokensUnchanged
<1> QED
  BY <1>2, <1>3, <1>4

LEMMA ChooseLookAheadStep == ASSUME IInv, ChooseLookAhead PROVE IInv'
<1> USE DEF IInv
<1>1. data' = data /\ UNCHANGED <<tokens, starts, pos>>
  BY DEF ChooseLookAhead, inputVars, outputVars
<1>2. /\ pc' = "index" /\ at' = pos + 1 /\ ahead' = TRUE /\ bestLen' = bestLen /\ bestDist' = 0
      /\ firstLen' = bestLen /\ firstDist' = bestDist
  BY DEF ChooseLookAhead, CallFind
<1>3. Effort \in Nat
  <2>1. params.max_chain \in Nat
    BY InputAssumption DEF TypeOK, Params
  <2>2. params.max_chain \div 4 \in Nat
    BY <2>1
  <2> QED
    BY <2>1, <2>2 DEF Effort, Larger
<1>4. TypeOK'
  BY <1>2, <1>3 DEF TypeOK, ChooseLookAhead, CallFind, NONE, inputVars, outputVars, indexVars
<1>5. Usable(pos, bestLen, bestDist) /\ pos + 1 < N /\ indexed <= pos /\ ~pending
  BY DEF ChooseLookAhead, LookAhead, Control
<1>6. Finding'
  <2>1. indexed' <= at' /\ ~pending' /\ pos' < N' /\ at' < N'
    BY <1>1, <1>2, <1>5, InputUnchanged, NaturalLength
    DEF TypeOK, ChooseLookAhead, CallFind, indexVars
  <2>2. Usable(pos, firstLen, firstDist)'
    BY <1>1, <1>2, <1>5, InputUnchanged
  <2>3. bestLen' = Beat'
    BY <1>2 DEF Beat
  <2> QED
    BY <1>1, <1>2, <2>1, <2>2, <2>3 DEF Finding
<1>7. Control'
  BY <1>1, <1>2, <1>6, InputUnchanged
  DEF TypeOK, Control, HeadsBounded, ChooseLookAhead, CallFind, indexVars
<1>8. TokensTile'
  BY <1>1, TokensUnchanged
<1> QED
  BY <1>4, <1>7, <1>8

LEMMA ChooseLiteralStep == ASSUME IInv, ChooseLiteral PROVE IInv'
<1> USE DEF IInv
<1>1. data' = data /\ pos' = pos + 1 /\ pc' = "parse" /\ Emit(Literal(data[pos + 1]))
      /\ data \in Inputs /\ pos \in Nat /\ pos < N /\ indexed <= pos /\ indexed \in Nat
      /\ ~pending /\ N \in Nat
  BY NaturalLength DEF TypeOK, Control, ChooseLiteral, Emit, inputVars
<1>2. /\ Literal(data[pos + 1]) \in Token
      /\ Describes(Literal(data[pos + 1]), pos)
      /\ ByteLen(Literal(data[pos + 1])) = 1
  BY <1>1, LiteralEmitted
<1>3. TypeOK'
  BY <1>1, <1>2 DEF TypeOK, ChooseLiteral, Emit, inputVars, indexVars, findVars
<1>4. Control'
  BY <1>1, InputUnchanged DEF TypeOK, Control, HeadsBounded, ChooseLiteral, indexVars
<1>5. TokensTile'
  BY <1>1, <1>2, TokenEmitted
<1> QED
  BY <1>3, <1>4, <1>5

LEMMA ChooseMatchStep == ASSUME IInv, ChooseMatch PROVE IInv'
<1> USE DEF IInv
<1>1. /\ data' = data /\ pos' = pos + bestLen /\ pc' = "parse" /\ Emit(Match(bestLen, bestDist))
      /\ pos \in Nat /\ indexed <= pos /\ indexed \in Nat /\ ~pending /\ N \in Nat
      /\ Usable(pos, bestLen, bestDist)
  BY NaturalLength DEF TypeOK, Control, ChooseMatch, Emit, inputVars
<1>2. /\ Match(bestLen, bestDist) \in Token
      /\ Describes(Match(bestLen, bestDist), pos)
      /\ ByteLen(Match(bestLen, bestDist)) = bestLen
      /\ bestLen \in Nat /\ bestLen >= 1 /\ pos + bestLen <= N
  BY <1>1, MatchEmitted
<1>3. TypeOK'
  BY <1>1, <1>2 DEF TypeOK, ChooseMatch, Emit, inputVars, indexVars, findVars
<1>4. Control'
  BY <1>1, <1>2, InputUnchanged DEF TypeOK, Control, HeadsBounded, ChooseMatch, indexVars
<1>5. TokensTile'
  BY <1>1, <1>2, TokenEmitted
<1> QED
  BY <1>3, <1>4, <1>5

LEMMA DeferStep == ASSUME IInv, Defer PROVE IInv'
<1> USE DEF IInv
<1>1. /\ data' = data /\ pos' = pos + 1 /\ pc' = "parse" /\ Emit(Literal(data[pos + 1]))
      /\ data \in Inputs /\ pos \in Nat /\ pos < N /\ N \in Nat
      /\ pos + 1 < N /\ at = pos + 1 /\ indexed <= at /\ Usable(at, bestLen, bestDist)
  BY NaturalLength DEF TypeOK, Control, Defer, Emit, inputVars
<1>2. /\ Literal(data[pos + 1]) \in Token
      /\ Describes(Literal(data[pos + 1]), pos)
      /\ ByteLen(Literal(data[pos + 1])) = 1
  BY <1>1, LiteralEmitted
<1>3. TypeOK'
  BY <1>1, <1>2 DEF TypeOK, Defer, Emit, inputVars, indexVars, findVars
<1>4. Control'
  <2>1. UNCHANGED <<head, indexed, at, bestLen, bestDist>> /\ pos' = at
    BY <1>1 DEF Defer, indexVars, findVars
  <2> QED
    BY <2>1, <1>1, InputUnchanged DEF TypeOK, Control, HeadsBounded
<1>5. TokensTile'
  BY <1>1, <1>2, TokenEmitted
<1> QED
  BY <1>3, <1>4, <1>5

LEMMA TakeFirstStep == ASSUME IInv, TakeFirst PROVE IInv'
<1> USE DEF IInv
<1>1. /\ data' = data /\ pos' = pos + firstLen /\ pc' = "parse"
      /\ Emit(Match(firstLen, firstDist)) /\ pos \in Nat /\ indexed <= pos + 1
      /\ indexed \in Nat /\ ~pending /\ N \in Nat /\ Usable(pos, firstLen, firstDist)
  BY NaturalLength DEF TypeOK, Control, TakeFirst, Emit, inputVars
<1>2. /\ Match(firstLen, firstDist) \in Token
      /\ Describes(Match(firstLen, firstDist), pos)
      /\ ByteLen(Match(firstLen, firstDist)) = firstLen
      /\ firstLen \in Nat /\ firstLen >= 1 /\ pos + firstLen <= N
  BY <1>1, MatchEmitted
<1>3. TypeOK'
  BY <1>1, <1>2 DEF TypeOK, TakeFirst, Emit, inputVars, indexVars, findVars
<1>4. Control'
  BY <1>1, <1>2, InputUnchanged DEF TypeOK, Control, HeadsBounded, TakeFirst, indexVars
<1>5. TokensTile'
  BY <1>1, <1>2, TokenEmitted
<1> QED
  BY <1>3, <1>4, <1>5

LEMMA FinishStep == ASSUME IInv, Finish PROVE IInv'
<1> USE DEF IInv
<1>1. data' = data /\ UNCHANGED <<tokens, starts, pos>>
  BY DEF Finish, inputVars, outputVars
<1>2. TypeOK'
  BY DEF TypeOK, Finish, inputVars, outputVars, indexVars, findVars
<1>3. Control'
  BY <1>1, InputUnchanged DEF TypeOK, Control, HeadsBounded, Finish, indexVars
<1>4. TokensTile'
  BY <1>1, TokensUnchanged
<1> QED
  BY <1>2, <1>3, <1>4

LEMMA StutterStep == ASSUME IInv, UNCHANGED vars PROVE IInv'
<1> USE DEF IInv
<1>1. data' = data /\ UNCHANGED <<tokens, starts, pos>>
  BY DEF vars
<1>2. TypeOK'
  BY DEF TypeOK, vars
<1>3. Control'
  BY <1>1, InputUnchanged DEF Control, HeadsBounded, Finding, Walking, Beat, vars
<1>4. TokensTile'
  BY <1>1, TokensUnchanged
<1> QED
  BY <1>2, <1>3, <1>4

THEOREM StepInductive == IInv /\ [Next]_vars => IInv'
<1> SUFFICES ASSUME IInv, [Next]_vars PROVE IInv'
  OBVIOUS
<1> QED
  BY IndexPositionStep, StartWalkStep, StopWalkStep, ExamineStep, SearchStep,
     TakePendingStep, ChooseLiteralStep, ChooseLookAheadStep, ChooseMatchStep, DeferStep,
     TakeFirstStep, FinishStep, StutterStep DEF Next

THEOREM Invariance == Spec => []IInv
  BY InitInductive, StepInductive, PTL DEF Spec

(***************************************************************************)
(* Every variable keeps its type: no subtraction of find or parse goes     *)
(* below zero, for every input, effort, window and hash.                   *)
(***************************************************************************)
THEOREM TypeCorrect == Spec => []TypeOK
<1>1. IInv => TypeOK
  BY DEF IInv
<1> QED
  BY <1>1, Invariance, PTL

(***************************************************************************)
(* The tokens always tile the input read so far, whatever the input, the   *)
(* effort, the limits and the hash function.                               *)
(***************************************************************************)
THEOREM TokensCorrect == Spec => []TokensTile
<1>1. IInv => TokensTile
  BY DEF IInv
<1> QED
  BY <1>1, Invariance, PTL
-----------------------------------------------------------------------------
(* The index: what stands in a slot of the ring is the newest of the       *)
(* positions that share it, and it is within reach for WINDOW positions.   *)

LEMMA Division ==
    ASSUME NEW a \in Nat
    PROVE  /\ a = WINDOW * (a \div WINDOW) + (a % WINDOW)
           /\ a \div WINDOW \in Int /\ a % WINDOW \in Int
  BY LimitsAssumption

LEMMA PositiveMultiple ==
    ASSUME NEW q \in Int, WINDOW * q > 0
    PROVE  WINDOW * q >= WINDOW
<1>1. q >= 1
  BY LimitsAssumption
<1>2. WINDOW * q = WINDOW + WINDOW * (q - 1)
  BY LimitsAssumption
<1>3. WINDOW * (q - 1) >= 0
  BY <1>1, LimitsAssumption
<1> QED
  BY <1>2, <1>3, LimitsAssumption

\* Positions less than WINDOW apart have slots of their own.
LEMMA SlotsDiffer ==
    ASSUME NEW a \in Nat, NEW b \in Nat, a < b, b - a < WINDOW
    PROVE  a % WINDOW # b % WINDOW
<1> SUFFICES ASSUME a % WINDOW = b % WINDOW PROVE FALSE
  OBVIOUS
<1> DEFINE q == b \div WINDOW - a \div WINDOW
<1>1. b - a = WINDOW * q /\ q \in Int
  BY Division, LimitsAssumption
<1> HIDE DEF q
<1> QED
  BY <1>1, PositiveMultiple, LimitsAssumption

\* The candidate of a walk is on the chain of the position searched.
OnChain ==
    cand # NONE => Indexed(cand - 1) /\ HashAt(cand - 1) = HashAt(at)

ChainInv == ChainsExact /\ (pc = "walk" => OnChain)

LEMMA HashesUnchanged ==
    ASSUME data' = data
    PROVE  /\ \A p : Hashable(p)' <=> Hashable(p)
           /\ \A p : HashAt(p)' = HashAt(p)
  BY DEF Hashable, HashAt, N

\* Steps that leave the index alone keep the chains.
LEMMA IndexUnchanged ==
    ASSUME ChainsExact, UNCHANGED <<data, head, prev, indexed>>
    PROVE  ChainsExact'
<1>1. \A p : Indexed(p)' <=> Indexed(p)
  BY DEF Indexed, Hashable, N
<1>2. \A p : HashAt(p)' = HashAt(p)
  BY DEF HashAt
<1>3. \A link, h, before : IsNewest(link, h, before)' <=> IsNewest(link, h, before)
  BY <1>1, <1>2, Zenon DEF IsNewest
<1> QED
  BY <1>1, <1>2, <1>3, Zenon DEF ChainsExact

LEMMA IndexPositionChains == ASSUME IInv, ChainInv, IndexPosition PROVE ChainInv'
<1>1. PICK new \in Nat : new = indexed /\ Hashable(new)
  BY DEF IndexPosition, IInv, TypeOK
<1>2. PICK h0 \in HashSlots : h0 = HashAt(new)
  BY <1>1, HashAtType DEF IInv, TypeOK
<1>3. new % WINDOW \in 0 .. WINDOW - 1
  BY SlotInRing
<1>4. /\ data' = data /\ pc' = "index" /\ indexed' = new + 1
      /\ prev' = [prev EXCEPT ![new % WINDOW] = head[h0]]
      /\ head' = [head EXCEPT ![h0] = new + 1]
      /\ head \in [HashSlots -> Nat] /\ prev \in [0 .. WINDOW - 1 -> Nat]
  BY <1>1, <1>2 DEF IndexPosition, inputVars, IInv, TypeOK
<1>5. \A p \in Nat : HashAt(p)' = HashAt(p)
  BY <1>4, HashesUnchanged
<1>6. \A p \in Nat : Indexed(p)' <=> (Indexed(p) \/ p = new)
  BY <1>1, <1>4, HashesUnchanged DEF Indexed
<1>7. \A p \in Nat : Indexed(p) => p < new
  BY <1>1 DEF Indexed
<1>8. \A h \in HashSlots : IsNewest(head[h], h, new)
  BY <1>1 DEF ChainInv, ChainsExact
<1>9. ASSUME NEW h \in HashSlots PROVE IsNewest(head[h], h, indexed)'
  <2>1. CASE h = h0
    <3>1. head'[h] = new + 1
      BY <1>4, <2>1
    <3>2. Indexed(new)' /\ HashAt(new)' = h
      BY <1>1, <1>2, <1>5, <1>6, <2>1
    <3>3. new + 1 - 1 = new /\ new < new + 1 /\ new + 1 .. (new + 1) - 1 = {}
      OBVIOUS
    <3> QED
      BY <1>4, <3>1, <3>2, <3>3 DEF IsNewest
  <2>2. CASE h # h0
    <3>1. head'[h] = head[h] /\ head[h] \in Nat
      BY <1>4, <2>2
    <3>2. IsNewest(head[h], h, new)
      BY <1>8
    <3>3. head[h] # NONE => /\ head[h] - 1 < new + 1 /\ Indexed(head[h] - 1)
                            /\ HashAt(head[h] - 1) = h /\ head[h] - 1 \in Nat
      BY <3>1, <3>2 DEF IsNewest, NONE
    <3>4. \A p \in head[h] .. new : ~((Indexed(p) \/ p = new) /\ HashAt(p) = h)
      BY <1>2, <2>2, <3>1, <3>2 DEF IsNewest
    <3>5. head'[h] # NONE => /\ head'[h] - 1 < new + 1 /\ Indexed(head[h] - 1)'
                             /\ HashAt(head[h] - 1)' = h
      BY <1>5, <1>6, <3>1, <3>3
    <3>6. \A p \in head'[h] .. new : ~(Indexed(p)' /\ HashAt(p)' = h)
      BY <1>5, <1>6, <3>1, <3>4
    <3> QED
      BY <1>4, <3>5, <3>6 DEF IsNewest
  <2> QED
    BY <2>1, <2>2
<1>10. ASSUME NEW link \in Nat, NEW p \in Nat, p <= new, NEW h, IsNewest(link, h, p)
       PROVE  IsNewest(link, h, p)'
  <2>1. link # NONE => /\ link - 1 \in Nat /\ link - 1 < p /\ Indexed(link - 1)'
                       /\ HashAt(link - 1)' = h
    BY <1>5, <1>6, <1>10 DEF IsNewest, NONE
  <2>2. \A q \in link .. p - 1 : ~(Indexed(q)' /\ HashAt(q)' = h)
    BY <1>5, <1>6, <1>10 DEF IsNewest
  <2> QED
    BY <2>1, <2>2 DEF IsNewest
<1>11. ASSUME NEW p \in 0 .. new, Indexed(p)', new + 1 - p <= WINDOW
       PROVE  IsNewest(prev[p % WINDOW], HashAt(p), p)'
  <2>1. PICK link \in Nat, h \in HashSlots :
             /\ prev'[p % WINDOW] = link /\ HashAt(p)' = h /\ IsNewest(link, h, p)
    <3>1. CASE p = new
      BY <3>1, <1>2, <1>3, <1>4, <1>5, <1>8
    <3>2. CASE p # new
      <4>1. p \in Nat /\ p < new /\ new - p < WINDOW /\ Indexed(p)
        BY <3>2, <1>6, <1>11, LimitsAssumption
      <4>2. p % WINDOW # new % WINDOW /\ p % WINDOW \in 0 .. WINDOW - 1
        BY <4>1, SlotsDiffer, SlotInRing
      <4>3. prev'[p % WINDOW] = prev[p % WINDOW] /\ prev[p % WINDOW] \in Nat
        BY <4>2, <1>3, <1>4
      <4>4. HashAt(p) \in HashSlots
        BY <4>1, HashAtType DEF Indexed, IInv, TypeOK
      <4>5. IsNewest(prev[p % WINDOW], HashAt(p), p)
        BY <4>1, <1>1, LimitsAssumption DEF ChainInv, ChainsExact
      <4> QED
        BY <4>1, <4>3, <4>4, <4>5, <1>5
    <3> QED
      BY <3>1, <3>2
  <2>2. IsNewest(link, h, p)'
    BY <2>1, <1>10
  <2> QED
    BY <2>1, <2>2 DEF IsNewest
<1>12. ChainsExact'
  BY <1>4, <1>9, <1>11 DEF ChainsExact
<1> QED
  BY <1>4, <1>12 DEF ChainInv

LEMMA StartWalkChains == ASSUME IInv, ChainInv, StartWalk PROVE ChainInv'
<1>1. /\ data' = data /\ UNCHANGED <<head, prev, at>> /\ indexed' = at
      /\ indexed \in Nat /\ at \in Nat /\ indexed <= at /\ N \in Nat
      /\ head \in [HashSlots -> Nat] /\ prev \in [0 .. WINDOW - 1 -> Nat]
  BY NaturalLength DEF StartWalk, IInv, Control, TypeOK, Finding, Larger, inputVars
<1>2. \A p \in Nat : Hashable(p) /\ p < at => p < indexed
  BY <1>1, LimitsAssumption DEF StartWalk, Hashable
<1>3. \A p \in Nat : /\ Indexed(p)' <=> Indexed(p)
                     /\ HashAt(p)' = HashAt(p)
                     /\ Indexed(p) => p < indexed
  BY <1>1, <1>2, HashesUnchanged DEF Indexed
<1>4. ASSUME NEW h \in HashSlots PROVE IsNewest(head[h], h, indexed)'
  <2>1. IsNewest(head[h], h, indexed) /\ head[h] \in Nat
    BY <1>1 DEF ChainInv, ChainsExact
  <2>2. head[h] # NONE => /\ head[h] - 1 \in Nat /\ head[h] - 1 < indexed
                          /\ Indexed(head[h] - 1) /\ HashAt(head[h] - 1) = h
    BY <2>1 DEF IsNewest, NONE
  <2>3. \A p \in head[h] .. at - 1 : ~(Indexed(p) /\ HashAt(p) = h)
    BY <2>1, <1>1, <1>3 DEF IsNewest
  <2> QED
    BY <2>2, <2>3, <1>1, <1>3 DEF IsNewest
<1>5. ASSUME NEW p \in 0 .. at - 1, Indexed(p)', at - p <= WINDOW
      PROVE  IsNewest(prev[p % WINDOW], HashAt(p), p)'
  <2>1. p \in Nat /\ Indexed(p) /\ p < indexed /\ indexed - p <= WINDOW
    BY <1>1, <1>3, <1>5, LimitsAssumption
  <2>2. IsNewest(prev[p % WINDOW], HashAt(p), p)
    BY <2>1, <1>1 DEF ChainInv, ChainsExact
  <2>3. p % WINDOW \in 0 .. WINDOW - 1
    BY <2>1, SlotInRing
  <2>4. PICK link \in Nat : link = prev[p % WINDOW]
    BY <2>3, <1>1
  <2>5. PICK h : h = HashAt(p)
    OBVIOUS
  <2>6. IsNewest(link, h, p)
    BY <2>2, <2>4, <2>5
  <2>7. link # NONE => /\ link - 1 \in Nat /\ link - 1 < p /\ Indexed(link - 1)'
                       /\ HashAt(link - 1)' = h
    BY <2>6, <1>3 DEF IsNewest, NONE
  <2>8. \A q \in link .. p - 1 : ~(Indexed(q)' /\ HashAt(q)' = h)
    BY <2>1, <2>6, <1>3 DEF IsNewest
  <2> QED
    BY <2>1, <2>4, <2>5, <2>7, <2>8, <1>1, <1>3 DEF IsNewest
<1>6. ChainsExact'
  BY <1>1, <1>4, <1>5 DEF ChainsExact
<1>7. pc' = "walk" => OnChain'
  <2>1. SUFFICES ASSUME pc' = "walk", cand' # NONE
                 PROVE  Indexed(cand - 1)' /\ HashAt(cand - 1)' = HashAt(at)'
    BY DEF OnChain
  <2>2. ~Hopeless /\ cand' = head[HashAt(at)]
    BY <2>1 DEF StartWalk, ReturnPc
  <2>3. Hashable(at)
    <3>1. data \in Inputs /\ at <= N
      BY <1>1 DEF StartWalk, IInv, Control, Finding, TypeOK
    <3>2. MaxLen(at) \in Nat /\ at + MaxLen(at) <= N
      BY <1>1, <3>1, MaxLenBounds
    <3> QED
      BY <2>2, <3>2, <1>1, LimitsAssumption DEF Hopeless, Hashable
  <2>4. HashAt(at) \in HashSlots
    BY <1>1, <2>3, HashAtType DEF IInv, TypeOK
  <2>5. IsNewest(head[HashAt(at)], HashAt(at), indexed)
    BY <2>4 DEF ChainInv, ChainsExact
  <2>6. /\ Indexed(cand' - 1) /\ HashAt(cand' - 1) = HashAt(at) /\ cand' - 1 \in Nat
    BY <2>1, <2>2, <2>4, <2>5, <1>1 DEF IsNewest, NONE
  <2> QED
    BY <2>6, <1>1, <1>3
<1> QED
  BY <1>6, <1>7 DEF ChainInv

\* The link of a candidate within reach is the position before it on the chain.
LEMMA LinkIsExact ==
    ASSUME IInv, ChainInv, pc = "walk", ~ChainEnds
    PROVE  /\ NextLink \in Nat /\ NextLink < cand
           /\ NextLink # NONE => /\ Indexed(NextLink - 1)
                                /\ HashAt(NextLink - 1) = HashAt(at)
           /\ \A p \in NextLink .. cand - 2 : ~(Indexed(p) /\ HashAt(p) = HashAt(at))
<1>1. /\ cand \in Nat /\ cand >= 1 /\ cand - 1 \in Nat /\ cand - 1 < at /\ at \in Nat
      /\ indexed = at /\ at - (cand - 1) <= WINDOW
      /\ Indexed(cand - 1) /\ HashAt(cand - 1) = HashAt(at)
  <2>1. cand \in Nat /\ at \in Nat /\ Walking /\ OnChain
    BY DEF IInv, Control, TypeOK, ChainInv
  <2>2. cand # 0 /\ ~(at - (cand - 1) > WINDOW)
    BY DEF ChainEnds, NONE
  <2>3. /\ cand >= 1 /\ cand - 1 \in Nat /\ cand - 1 < at /\ indexed = at
        /\ at - (cand - 1) <= WINDOW
    BY <2>1, <2>2, LimitsAssumption DEF Walking
  <2> QED
    BY <2>1, <2>2, <2>3 DEF OnChain, NONE
<1>2. cand - 1 \in 0 .. indexed - 1 /\ indexed - (cand - 1) <= WINDOW
  BY <1>1
<1>3. IsNewest(NextLink, HashAt(at), cand - 1)
  BY <1>1, <1>2 DEF ChainInv, ChainsExact, NextLink
<1>4. (cand - 1) % WINDOW \in 0 .. WINDOW - 1
  BY <1>1, SlotInRing
<1>5. NextLink \in Nat
  BY <1>4 DEF NextLink, IInv, TypeOK
<1>6. NextLink # NONE => NextLink - 1 < cand - 1
  BY <1>3 DEF IsNewest
<1> QED
  BY <1>1, <1>3, <1>5, <1>6 DEF IsNewest, NONE

LEMMA ExamineChains == ASSUME IInv, ChainInv, Examine PROVE ChainInv'
<1>1. UNCHANGED <<data, head, prev, indexed, at>> /\ ~ChainEnds /\ pc = "walk"
  BY DEF Examine, inputVars, indexVars
<1>2. ChainsExact'
  BY <1>1, IndexUnchanged DEF ChainInv
<1>3. pc' = "walk" => cand' = NextLink
  BY DEF Examine, ReturnPc
<1>4. /\ NextLink \in Nat
      /\ NextLink # NONE => Indexed(NextLink - 1) /\ HashAt(NextLink - 1) = HashAt(at)
  BY <1>1, LinkIsExact
<1>5. /\ \A p : Indexed(p)' <=> Indexed(p)
      /\ \A p : HashAt(p)' = HashAt(p)
  BY <1>1, HashesUnchanged DEF Indexed
<1>6. pc' = "walk" => OnChain'
  BY <1>1, <1>3, <1>4, <1>5 DEF OnChain
<1> QED
  BY <1>2, <1>6 DEF ChainInv

THEOREM InitChains == Init => ChainInv
<1> SUFFICES ASSUME Init PROVE ChainInv
  OBVIOUS
<1>1. indexed = 0 /\ pc = "parse" /\ \A h \in HashSlots : head[h] = 0
  BY DEF Init, NONE
<1>2. \A h \in HashSlots : IsNewest(head[h], h, indexed)
  BY <1>1 DEF IsNewest, NONE
<1> QED
  BY <1>1, <1>2 DEF ChainInv, ChainsExact

THEOREM StepChains == IInv /\ ChainInv /\ [Next]_vars => ChainInv'
<1> SUFFICES ASSUME IInv, ChainInv, [Next]_vars PROVE ChainInv'
  OBVIOUS
<1>1. CASE IndexPosition
  BY <1>1, IndexPositionChains
<1>2. CASE StartWalk
  BY <1>2, StartWalkChains
<1>3. CASE Examine
  BY <1>3, ExamineChains
<1>4. CASE \/ StopWalk \/ Search \/ TakePending \/ ChooseLiteral \/ ChooseLookAhead
           \/ ChooseMatch \/ Defer \/ TakeFirst \/ Finish
  <2>1. UNCHANGED <<data, head, prev, indexed>> /\ pc' # "walk"
    BY <1>4
    DEF StopWalk, Search, TakePending, ChooseLiteral, ChooseLookAhead, ChooseMatch, Defer,
        TakeFirst, Finish, CallFind, Emit, ReturnPc, inputVars, indexVars
  <2> QED
    BY <2>1, IndexUnchanged DEF ChainInv
<1>5. CASE UNCHANGED vars
  <2>1. UNCHANGED <<data, head, prev, indexed, at, cand, pc>>
    BY <1>5 DEF vars
  <2>2. ChainsExact'
    BY <2>1, IndexUnchanged DEF ChainInv
  <2>3. pc = "walk" => OnChain'
    BY <2>1 DEF ChainInv, OnChain, Indexed, Hashable, HashAt, N
  <2> QED
    BY <2>1, <2>2, <2>3 DEF ChainInv
<1> QED
  BY <1>1, <1>2, <1>3, <1>4, <1>5 DEF Next

THEOREM ChainInvariance == Spec => []ChainInv
  BY InitChains, StepChains, Invariance, PTL DEF Spec

(***************************************************************************)
(* The chains are exact: a ring of WINDOW slots is enough for every search *)
(* the parser makes, for every window and input.                           *)
(***************************************************************************)
THEOREM ChainsCorrect == Spec => []ChainsExact
<1>1. ChainInv => ChainsExact
  BY DEF ChainInv
<1> QED
  BY <1>1, ChainInvariance, PTL

(***************************************************************************)
(* No search meets an overwritten link: the guard for it in find is never  *)
(* what ends a search.                                                     *)
(***************************************************************************)
THEOREM LinksGoBack == Spec => []NeverOverwritten
<1>1. IInv /\ ChainInv => NeverOverwritten
  BY LinkIsExact DEF NeverOverwritten
<1> QED
  BY <1>1, Invariance, ChainInvariance, PTL

-----------------------------------------------------------------------------
(* find returns the longest match.                                         *)

\* No match at `at` with a position from `first` on is longer than the best.
NoLonger(first) ==
    \A dist \in 1 .. Smaller(WINDOW, at), len \in bestLen + 1 .. MaxLen(at) :
        at - dist >= first => ~IsMatch(at, len, dist)

Longest == chain > 0 /\ bestLen < params.nice_len => NoLonger(0)

\* A walk has nothing to gain from the positions after its candidate.
LongestInv ==
    /\ pc = "walk" => NoLonger(cand)
    /\ pc \in {"choose", "compare"} => Longest
    /\ pc = "parse" /\ pending => Longest

\* Positions of a match of MIN_MATCH bytes have the same hash.
LEMMA MatchSameHash ==
    ASSUME NEW p \in Nat, NEW dist \in 1 .. p, NEW len \in Nat, len >= MIN_MATCH,
           IsMatch(p, len, dist)
    PROVE  HashAt(p - dist) = HashAt(p)
<1>1. ASSUME NEW i \in 1 .. MIN_MATCH
      PROVE  data[(p - dist) + i] = data[p + i]
  <2>1. i - 1 \in 0 .. len - 1
    BY LimitsAssumption
  <2>2. data[p - dist + (i - 1) + 1] = data[p + (i - 1) + 1]
    BY <2>1 DEF IsMatch
  <2>3. p - dist + (i - 1) + 1 = (p - dist) + i /\ p + (i - 1) + 1 = p + i
    BY LimitsAssumption
  <2> QED
    BY <2>2, <2>3
<1> QED
  BY <1>1 DEF HashAt

\* Two positions that agree on len bytes and no more have no longer match.
LEMMA AgreeIsLongest ==
    ASSUME NEW p \in Nat, NEW c \in Nat, c < p, NEW max \in Nat, NEW len \in 0 .. max,
           Agree(c, p, max, len), NEW longer \in len + 1 .. max
    PROVE  ~IsMatch(p, longer, p - c)
<1>1. data[c + len + 1] # data[p + len + 1]
  BY DEF Agree
<1>2. len \in 0 .. longer - 1 /\ p - (p - c) + len + 1 = c + len + 1
  OBVIOUS
<1> QED
  BY <1>1, <1>2 DEF IsMatch

LEMMA NoLongerUnchanged ==
    ASSUME UNCHANGED <<data, at, bestLen>>
    PROVE  \A first : NoLonger(first)' <=> NoLonger(first)
  BY DEF NoLonger, MaxLen, IsMatch, N

LEMMA StartWalkLongest == ASSUME IInv, ChainInv, StartWalk PROVE LongestInv'
<1>1. /\ UNCHANGED <<data, at, bestLen>> /\ at \in Nat /\ bestLen \in Nat
      /\ Finding /\ bestLen >= MIN_MATCH - 1
  BY LimitsAssumption
  DEF StartWalk, IInv, TypeOK, Control, Finding, Beat, Usable, inputVars
<1>2. MaxLen(at) \in Nat /\ at + MaxLen(at) <= N /\ N \in Nat
  <2>1. at <= N /\ data \in Inputs /\ N \in Nat
    BY <1>1, NaturalLength DEF Finding, IInv, TypeOK
  <2> QED
    BY <1>1, <2>1, MaxLenBounds
<1>3. CASE Hopeless
  <2>1. bestLen + 1 .. MaxLen(at) = {}
    BY <1>1, <1>2, <1>3, LimitsAssumption DEF Hopeless
  <2>2. NoLonger(0)'
    BY <2>1, <1>1, NoLongerUnchanged DEF NoLonger
  <2>3. pc' \in {"choose", "compare"}
    BY <1>3 DEF StartWalk, ReturnPc
  <2> QED
    BY <2>2, <2>3 DEF LongestInv, Longest
<1>4. CASE ~Hopeless
  <2>1. pc' = "walk" /\ cand' = head[HashAt(at)] /\ UNCHANGED <<data, head, prev>>
        /\ indexed' = at
    BY <1>1, <1>4 DEF StartWalk, inputVars, IInv, TypeOK, Finding, Larger
  <2>2. Hashable(at)
    BY <1>1, <1>2, <1>4, LimitsAssumption DEF Hopeless, Hashable
  <2>3. HashAt(at) \in HashSlots
    BY <1>1, <2>2, HashAtType DEF IInv, TypeOK
  <2>4. ChainsExact'
    BY StartWalkChains DEF ChainInv
  <2>5. PICK h \in HashSlots : h = HashAt(at)
    BY <2>3
  <2>6. IsNewest(head[h], h, indexed)'
    BY <2>4 DEF ChainsExact
  <2>7. ASSUME NEW dist \in 1 .. Smaller(WINDOW, at), NEW len \in bestLen + 1 .. MaxLen(at),
               at - dist >= head[h], IsMatch(at, len, dist)
        PROVE  FALSE
    <3>1. dist \in 1 .. at /\ len \in Nat /\ len >= MIN_MATCH
      BY <1>1, <1>2, LimitsAssumption DEF Smaller
    <3>2. HashAt(at - dist) = h
      BY <3>1, <2>5, <2>7, <1>1, MatchSameHash
    <3>3. PICK p \in Nat : p = at - dist
      BY <3>1, <1>1
    <3>4. p < at /\ Hashable(p) /\ HashAt(p) = h /\ p >= head[h]
      BY <3>1, <3>2, <3>3, <2>2, <2>7, <1>1, <1>2, LimitsAssumption DEF Hashable
    <3>5. Indexed(p)' /\ HashAt(p)' = h
      BY <3>4, <2>1, HashesUnchanged DEF Indexed
    <3>6. head[h] \in Nat
      BY DEF IInv, TypeOK
    <3>7. p \in head'[h] .. indexed' - 1
      BY <3>4, <3>6, <2>1, <1>1
    <3> QED
      BY <3>5, <3>7, <2>6 DEF IsNewest
  <2>8. NoLonger(head[h])
    BY <2>7 DEF NoLonger
  <2>9. NoLonger(cand)'
    <3>1. PICK c : c = head[h]
      OBVIOUS
    <3>2. NoLonger(c)' /\ cand' = c
      BY <3>1, <2>1, <2>5, <2>8, <1>1, NoLongerUnchanged
    <3> QED
      BY <3>2 DEF NoLonger
  <2> QED
    BY <2>1, <2>9 DEF LongestInv
<1> QED
  BY <1>3, <1>4

LEMMA StopWalkLongest == ASSUME IInv, LongestInv, StopWalk PROVE LongestInv'
<1>1. /\ NoLonger(cand) /\ pc' \in {"choose", "compare"}
      /\ UNCHANGED <<data, params, at, bestLen, chain>>
  BY DEF StopWalk, LongestInv, ReturnPc, inputVars, findVars
<1>2. at \in Nat /\ cand \in Nat /\ chain \in Nat
  BY DEF IInv, TypeOK
<1>3. CASE chain = 0
  BY <1>1, <1>3 DEF LongestInv, Longest
<1>4. CASE cand = NONE
  BY <1>1, <1>4, NoLongerUnchanged DEF LongestInv, Longest, NONE
<1>5. CASE at - (cand - 1) > WINDOW
  <2>1. \A dist \in 1 .. Smaller(WINDOW, at) : at - dist >= cand
    BY <1>2, <1>5, LimitsAssumption DEF Smaller
  <2>2. NoLonger(0)
    BY <1>1, <2>1 DEF NoLonger
  <2> QED
    BY <1>1, <2>2, NoLongerUnchanged DEF LongestInv, Longest
<1> QED
  BY <1>3, <1>4, <1>5 DEF StopWalk, ChainEnds
LEMMA ExamineLongest == ASSUME IInv, ChainInv, LongestInv, Examine PROVE LongestInv'
<1>1. /\ pc = "walk" /\ ~ChainEnds /\ NoLonger(cand) /\ Finding /\ Walking
      /\ UNCHANGED <<data, params, at>>
  BY DEF Examine, LongestInv, IInv, Control, inputVars
<1>2. /\ at \in Nat /\ cand \in Nat /\ cand - 1 \in Nat /\ cand - 1 < at /\ chain > 0
      /\ bestLen \in Nat /\ at - (at - (cand - 1)) = cand - 1 /\ chain \in Nat
  BY <1>1 DEF IInv, TypeOK, Walking, ChainEnds, NONE
<1>3. MaxLen(at) \in Nat /\ at + MaxLen(at) <= N /\ N \in Nat
  <2>1. at <= N /\ data \in Inputs /\ N \in Nat
    BY <1>1, <1>2, NaturalLength DEF Finding, IInv, TypeOK
  <2> QED
    BY <1>2, <2>1, MaxLenBounds
<1>4. /\ NextLink \in Nat /\ NextLink < cand
      /\ \A p \in NextLink .. cand - 2 : ~(Indexed(p) /\ HashAt(p) = HashAt(at))
  BY <1>1, LinkIsExact
<1>5. PICK len \in 0 .. MaxLen(at) :
        /\ Agree(cand - 1, at, MaxLen(at), len)
        /\ bestLen' = IF Improves(len) THEN len ELSE bestLen
        /\ pc' = IF StopsAt(len) THEN ReturnPc ELSE "walk"
        /\ cand' = IF StopsAt(len) THEN cand ELSE NextLink
        /\ chain' = IF StopsAt(len) THEN chain ELSE chain - 1
  BY DEF Examine
<1>6. len \in Nat /\ len <= MaxLen(at)
  BY <1>3
<1>7. PICK best \in Nat : best = bestLen' /\ best >= bestLen
  BY <1>2, <1>5, <1>6 DEF Improves
<1>8. best \in Nat /\ best >= bestLen
  BY <1>7
<1>9. ASSUME NEW longer \in best + 1 .. MaxLen(at)
      PROVE  ~IsMatch(at, longer, at - (cand - 1))
  <2>1. CASE longer > len
    BY <2>1, <1>2, <1>3, <1>5, <1>7, AgreeIsLongest
  <2>2. CASE longer <= len
    <3>1. ~Improves(len) /\ best = bestLen /\ bestLen < len /\ longer > bestLen
      BY <2>2, <1>2, <1>3, <1>5, <1>6, <1>7
    <3>2. data[cand - 1 + bestLen + 1] # data[at + bestLen + 1]
      BY <3>1 DEF Improves
    <3>3. bestLen \in 0 .. longer - 1
      BY <3>1, <1>2, <1>3
    <3> QED
      BY <3>2, <3>3, <1>2 DEF IsMatch
  <2> QED
    BY <2>1, <2>2, <1>3, <1>6, <1>7
<1>10. \A dist \in 1 .. Smaller(WINDOW, at), longer \in best + 1 .. MaxLen(at) :
        at - dist >= cand - 1 => ~IsMatch(at, longer, dist)
  <2>1. SUFFICES ASSUME NEW dist \in 1 .. Smaller(WINDOW, at),
                        NEW longer \in best + 1 .. MaxLen(at),
                        at - dist >= cand - 1
                 PROVE  ~IsMatch(at, longer, dist)
    OBVIOUS
  <2>2. dist \in 1 .. at
    BY <1>2, LimitsAssumption DEF Smaller
  <2>3. CASE at - dist = cand - 1
    <3>1. dist = at - (cand - 1)
      BY <2>2, <2>3, <1>2
    <3> QED
      BY <3>1, <1>9
  <2>4. CASE at - dist >= cand
    <3>1. longer \in bestLen + 1 .. MaxLen(at)
      BY <1>2, <1>3, <1>8
    <3> QED
      BY <3>1, <2>4, <1>1 DEF NoLonger
  <2> QED
    BY <2>1, <2>2, <2>3, <2>4, <1>2
<1>11. CASE StopsAt(len)
  <2>1. pc' \in {"choose", "compare"} /\ chain' = chain
    BY <1>5, <1>11 DEF ReturnPc
  <2>2. Improves(len) /\ (len >= params.nice_len \/ len = MaxLen(at))
    BY <1>2, <1>4, <1>11 DEF StopsAt
  <2>3. bestLen' = len
    BY <2>2, <1>5
  <2>4. CASE len >= params.nice_len
    <3>1. params.nice_len \in Nat
      BY InputAssumption DEF IInv, TypeOK, Params
    <3>2. ~(bestLen' < params'.nice_len)
      BY <3>1, <2>3, <2>4, <1>1, <1>6
    <3> QED
      BY <3>2, <2>1 DEF LongestInv, Longest
  <2>5. CASE len = MaxLen(at)
    <3>1. best + 1 .. MaxLen(at) = {}
      BY <2>3, <2>5, <1>3, <1>6, <1>7
    <3>2. NoLonger(0)'
      BY <3>1, <1>1, <1>7 DEF NoLonger, MaxLen, N
    <3> QED
      BY <3>2, <2>1 DEF LongestInv, Longest
  <2> QED
    BY <2>2, <2>4, <2>5
<1>12. CASE ~StopsAt(len)
  <2>1. pc' = "walk" /\ cand' = NextLink
    BY <1>5, <1>12
  <2>2. ASSUME NEW dist \in 1 .. Smaller(WINDOW, at),
               NEW longer \in best + 1 .. MaxLen(at),
               at - dist >= NextLink
        PROVE  ~IsMatch(at, longer, dist)
    <3>1. dist \in 1 .. at /\ dist <= at
      BY <1>2, LimitsAssumption DEF Smaller
    <3>2. CASE at - dist >= cand - 1
      BY <3>2, <1>10
    <3>3. CASE at - dist < cand - 1
      <4>1. PICK p \in Nat : p = at - dist
        BY <3>1, <1>2
      <4>2. p \in NextLink .. cand - 2
        BY <4>1, <3>3, <2>2, <1>2, <1>4
      <4>3. p < indexed /\ Hashable(p)
        <5>1. indexed = at /\ Hashable(at)
          BY <1>1, <1>2, <1>3, LimitsAssumption DEF Walking, Hashable
        <5> QED
          BY <5>1, <4>1, <3>1, <1>2, <1>3, LimitsAssumption DEF Hashable
      <4>4. HashAt(p) # HashAt(at)
        BY <4>2, <4>3, <1>4 DEF Indexed
      <4>5. longer \in Nat /\ longer >= MIN_MATCH
        <5>1. bestLen >= MIN_MATCH - 1
          BY <1>1, <1>2, LimitsAssumption DEF Finding, Beat, Usable, IInv, TypeOK
        <5> QED
          BY <5>1, <1>2, <1>3, <1>8, LimitsAssumption
      <4> QED
        BY <4>1, <4>4, <4>5, <3>1, <1>2, MatchSameHash
    <3> QED
      BY <3>1, <3>2, <3>3, <1>2
  <2>3. /\ Smaller(WINDOW, at') = Smaller(WINDOW, at) /\ MaxLen(at)' = MaxLen(at)
        /\ \A len2, dist2 : IsMatch(at, len2, dist2)' <=> IsMatch(at, len2, dist2)
    BY <1>1 DEF MaxLen, IsMatch, N
  <2>4. NoLonger(cand)'
    BY <2>1, <2>2, <2>3, <1>1, <1>7, Zenon DEF NoLonger
  <2> QED
    BY <2>1, <2>4 DEF LongestInv
<1> QED
  BY <1>11, <1>12

THEOREM StepLongest == IInv /\ ChainInv /\ LongestInv /\ [Next]_vars => LongestInv'
<1> SUFFICES ASSUME IInv, ChainInv, LongestInv, [Next]_vars PROVE LongestInv'
  OBVIOUS
<1>1. CASE StartWalk
  BY <1>1, StartWalkLongest
<1>2. CASE StopWalk
  BY <1>2, StopWalkLongest
<1>3. CASE Examine
  BY <1>3, ExamineLongest
<1>4. CASE IndexPosition \/ Search \/ ChooseLookAhead
  <2>1. pc' = "index"
    BY <1>4 DEF IndexPosition, Search, ChooseLookAhead, CallFind
  <2> QED
    BY <2>1 DEF LongestInv
<1>5. CASE ChooseLiteral \/ ChooseMatch \/ TakeFirst
  <2>1. pc' = "parse" /\ ~pending'
    BY <1>5 DEF ChooseLiteral, ChooseMatch, TakeFirst, Emit, IInv, Control
  <2> QED
    BY <2>1 DEF LongestInv
<1>6. CASE TakePending \/ Defer
  <2>1. Longest /\ UNCHANGED <<data, params, at, bestLen, chain>> /\ pc' # "walk"
    BY <1>6 DEF TakePending, Defer, Emit, LongestInv, inputVars, findVars
  <2>2. Longest'
    BY <2>1, NoLongerUnchanged DEF Longest
  <2> QED
    BY <2>1, <2>2 DEF LongestInv
<1>7. CASE Finish
  BY <1>7 DEF Finish, LongestInv
<1>8. CASE UNCHANGED vars
  <2>1. UNCHANGED <<data, params, at, bestLen, chain, cand, pc, pending>>
    BY <1>8 DEF vars
  <2> QED
    BY <2>1 DEF LongestInv, Longest, NoLonger, MaxLen, IsMatch, N
<1> QED
  BY <1>1, <1>2, <1>3, <1>4, <1>5, <1>6, <1>7, <1>8 DEF Next

(***************************************************************************)
(* find returns the longest match within WINDOW, unless it ran out of      *)
(* effort or stopped at a nice match: the hash, the chains and the cheap   *)
(* reject lose nothing.                                                    *)
(***************************************************************************)
THEOREM LongestCorrect == Spec => []LongestFound
<1>1. Init => LongestInv
  BY DEF Init, LongestInv
<1>2. LongestInv /\ TypeOK => LongestFound
  <2> SUFFICES ASSUME LongestInv, TypeOK, pc \in {"choose", "compare"}, chain > 0,
                      bestLen < params.nice_len
               PROVE  \A dist \in 1 .. Smaller(WINDOW, at), len \in bestLen + 1 .. MaxLen(at) :
                        ~IsMatch(at, len, dist)
    BY DEF LongestFound
  <2>1. NoLonger(0)
    BY DEF LongestInv, Longest
  <2>2. \A dist \in 1 .. Smaller(WINDOW, at) : at - dist >= 0
    BY LimitsAssumption DEF Smaller, TypeOK
  <2> QED
    BY <2>1, <2>2 DEF NoLonger
<1> QED
  BY <1>1, <1>2, StepLongest, Invariance, ChainInvariance, TypeCorrect, PTL DEF Spec

-----------------------------------------------------------------------------
(* The codec: its stream, its decoder, and what the two promise.           *)

\* Where compress and decompress are with respect to each other.
Phases ==
    /\ pc # "parsed" => wire = <<>> /\ status = "writing"
    /\ pc = "parsed" => pos = N
    /\ status = "writing" => read = 0 /\ out = <<>> /\ good = 0 /\ left = 0
    /\ status # "writing" => Len(wire) = Len(tokens)
    /\ Len(wire) <= Len(tokens)
    /\ \A i \in 1 .. Len(wire) : wire[i] = Fields(tokens[i])

OutIsPrefix ==
    /\ Len(out) <= N
    /\ \A i \in 1 .. Len(out) : out[i] = data[i]

\* While nothing damaged was read: the output is what the tokens read describe.
Faithful ==
    read <= good =>
        /\ status \notin {"eof", "corrupt"}
        /\ OutIsPrefix
        /\ status = "reading" => Len(out) = StartAfter(read)
        /\ status = "copying" =>
            /\ Len(out) + left = StartAfter(read)
            /\ from < Len(out)
            /\ \A k \in 0 .. left - 1 : data[from + k + 1] = data[Len(out) + k + 1]

Bounds ==
    /\ Len(out) + left <= N
    /\ status = "copying" => from < Len(out)
    /\ status = "reading" => left = 0
    /\ status = "ok" => Len(out) = N
    /\ status # "writing" /\ good = Len(wire) => read <= good
    /\ cut /\ good < Len(wire) => status # "ok"
    /\ cut /\ status \in {"reading", "copying"} => read <= good

DecodeInv == LzssTypeOK /\ Phases /\ Faithful /\ Bounds

-----------------------------------------------------------------------------
(* The fields hold every token of the parse.                               *)

LEMMA SmallMod == ASSUME NEW n \in Nat, NEW x \in Nat, x < n PROVE x % n = x
  OBVIOUS

LEMMA FieldsType == ASSUME NEW token \in Token PROVE Fields(token) \in Garbage
<1>1. LenField > 0 /\ DistField > 0 /\ LenField \in Nat /\ DistField \in Nat
  BY FieldsAssumption, LimitsAssumption
<1>2. CASE token \in [kind: {"literal"}, byte: Byte]
  BY <1>2 DEF Fields, Garbage
<1>3. CASE token \in [kind: {"match"}, len: Nat, dist: Nat]
  <2>1. /\ (token.len - MIN_MATCH) % LenField \in 0 .. LenField - 1
        /\ (token.dist - 1) % DistField \in 0 .. DistField - 1
    BY <1>1, <1>3, LimitsAssumption
  <2> QED
    BY <1>3, <2>1 DEF Fields, Garbage
<1> QED
  BY <1>2, <1>3 DEF Token

LEMMA MatchFieldsExact ==
    ASSUME NEW token \in Token, NEW p, Describes(token, p), token.kind = "match"
    PROVE  /\ Fields(token).flag
           /\ Fields(token).len + MIN_MATCH = token.len
           /\ Fields(token).dist + 1 = token.dist
<1>1. /\ token.len \in MIN_MATCH .. MAX_MATCH /\ token.dist \in 1 .. WINDOW
  BY DEF Describes
<1>2. /\ token.len - MIN_MATCH \in Nat /\ token.len - MIN_MATCH < LenField
      /\ token.dist - 1 \in Nat /\ token.dist - 1 < DistField
      /\ token.len \in Nat /\ token.dist \in Nat
  BY <1>1, LimitsAssumption, FieldsAssumption
<1>3. /\ (token.len - MIN_MATCH) % LenField = token.len - MIN_MATCH
      /\ (token.dist - 1) % DistField = token.dist - 1
  BY <1>2, SmallMod, FieldsAssumption
<1>4. Fields(token) = MatchFields(token.len - MIN_MATCH, token.dist - 1)
  BY <1>3 DEF Fields
<1> QED
  BY <1>2, <1>4, LimitsAssumption DEF MatchFields

\* The token an undamaged stream delivers next.
LEMMA NextToken ==
    ASSUME IInv, DecodeInv, Reading, read < good
    PROVE  \E token \in Token :
              /\ wire[read + 1] = Fields(token)
              /\ Describes(token, Len(out))
              /\ StartAfter(read + 1) = Len(out) + ByteLen(token)
              /\ read + 1 <= good
<1>1. /\ read \in Nat /\ good \in 0 .. Len(wire) /\ Len(wire) = Len(tokens)
      /\ tokens \in Seq(Token) /\ starts \in Seq(Nat) /\ Len(starts) = Len(tokens)
      /\ Len(out) = StartAfter(read)
  BY DEF IInv, TypeOK, TokensTile, DecodeInv, LzssTypeOK, Phases, Faithful, Reading
<1>2. read + 1 \in 1 .. Len(tokens) /\ read + 1 \in 1 .. Len(wire)
  BY <1>1
<1>3. StartAfter(read) = starts[read + 1]
  BY <1>1, <1>2 DEF StartAfter
<1>4. /\ Describes(tokens[read + 1], starts[read + 1])
      /\ StartAfter(read + 1) = starts[read + 1] + ByteLen(tokens[read + 1])
  BY <1>2 DEF IInv, TokensTile
<1>5. wire[read + 1] = Fields(tokens[read + 1]) /\ tokens[read + 1] \in Token
  BY <1>1, <1>2 DEF DecodeInv, Phases
<1> QED
  BY <1>1, <1>3, <1>4, <1>5

\* A token stands for at least one byte, all of it within the input.
LEMMA TokenFits ==
    ASSUME TypeOK, NEW p \in Nat, NEW token \in Token, Describes(token, p)
    PROVE  ByteLen(token) \in Nat /\ ByteLen(token) >= 1 /\ p + ByteLen(token) <= N
<1>1. N \in Nat
  BY NaturalLength DEF TypeOK
<1>2. CASE token.kind = "literal"
  BY <1>1, <1>2 DEF Describes, ByteLen
<1>3. CASE token.kind # "literal"
  BY <1>1, <1>3, LimitsAssumption DEF Describes, ByteLen, IsMatch
<1> QED
  BY <1>2, <1>3

\* After the last token of a whole stream there is nothing left to read.
LEMMA ReadingMeansMore ==
    ASSUME IInv, DecodeInv, Reading
    PROVE  /\ pc = "parsed" /\ pos = N
           /\ read >= good => good < Len(wire)
           /\ Len(wire) = Len(tokens)
<1>1. /\ read \in Nat /\ good \in 0 .. Len(wire) /\ Len(wire) = Len(tokens)
      /\ pc = "parsed" /\ pos = N /\ N \in Nat /\ Len(tokens) \in Nat
  BY NaturalLength DEF IInv, TypeOK, DecodeInv, LzssTypeOK, Phases, Reading
<1>2. ASSUME good = Len(wire), read >= good PROVE FALSE
  <2>1. read = Len(tokens)
    BY <1>1, <1>2 DEF DecodeInv, Bounds, Reading
  <2>2. StartAfter(read) = pos
    BY <1>1, <2>1 DEF StartAfter
  <2> QED
    BY <1>1, <1>2, <2>1, <2>2 DEF DecodeInv, Faithful, Reading
<1> QED
  BY <1>1, <1>2

\* The parse is over while the stream is written and read.
LEMMA ParseUnchanged ==
    ASSUME UNCHANGED vars
    PROVE  /\ N' = N /\ UNCHANGED <<data, pc, pos, tokens, starts>>
           /\ \A i : StartAfter(i)' = StartAfter(i)
  BY DEF vars, N, StartAfter

-----------------------------------------------------------------------------
(* Each step preserves the invariant.                                      *)

LEMMA ParseStep == ASSUME IInv, DecodeInv, Parse PROVE DecodeInv'
<1>1. UNCHANGED lzssVars /\ Next
  BY DEF Parse
<1>2. pc # "parsed" /\ data' = data
  BY <1>1
  DEF Next, IndexPosition, StartWalk, StopWalk, Examine, Search, TakePending, ChooseLiteral,
      ChooseLookAhead, ChooseMatch, Defer, TakeFirst, Finish, CallFind, inputVars
<1>3. pc' = "parsed" => pos' = N
  <2>1. CASE Finish
    <3>1. pos' = pos /\ pos >= N /\ pos <= N /\ pos \in Nat /\ N \in Nat
      BY <2>1, NaturalLength DEF Finish, IInv, TypeOK, Control
    <3> QED
      BY <3>1
  <2>2. CASE ~Finish
    BY <2>2, <1>1
    DEF Next, IndexPosition, StartWalk, StopWalk, Examine, Search, TakePending,
        ChooseLiteral, ChooseLookAhead, ChooseMatch, Defer, TakeFirst, CallFind, Emit, ReturnPc
  <2> QED
    BY <2>1, <2>2
<1>4. wire = <<>> /\ status = "writing" /\ read = 0 /\ out = <<>> /\ good = 0 /\ left = 0
  BY <1>2 DEF DecodeInv, Phases
<1>5. UNCHANGED <<wire, good, cut, status, read, out, from, left>>
  BY <1>1 DEF lzssVars
<1>6. N' = N /\ N \in Nat
  BY <1>2, NaturalLength DEF N, IInv, TypeOK
<1>7. tokens' \in Seq(Token)
  BY <1>1, StepInductive DEF IInv, TypeOK
<1>8. LzssTypeOK'
  BY <1>5 DEF DecodeInv, LzssTypeOK, Results
<1>9. Phases'
  <2>1. wire' = <<>> /\ Len(wire') = 0 /\ Len(tokens') \in Nat
    BY <1>4, <1>5, <1>7
  <2> QED
    BY <2>1, <1>3, <1>4, <1>5, <1>6 DEF Phases
<1>10. Faithful'
  BY <1>4, <1>5, <1>6 DEF Faithful, OutIsPrefix
<1>11. Bounds'
  BY <1>4, <1>5, <1>6 DEF DecodeInv, Bounds
<1> QED
  BY <1>8, <1>9, <1>10, <1>11 DEF DecodeInv

LEMMA WriteTokenStep == ASSUME IInv, DecodeInv, WriteToken PROVE DecodeInv'
<1>1. /\ status = "writing" /\ pc = "parsed" /\ UNCHANGED vars
      /\ UNCHANGED <<good, cut, status, read, out, from, left>>
      /\ wire' = Append(wire, Fields(tokens[Len(wire) + 1]))
      /\ wire \in Seq(Garbage) /\ tokens \in Seq(Token) /\ Len(wire) < Len(tokens)
      /\ read = 0 /\ out = <<>> /\ good = 0 /\ left = 0 /\ N \in Nat
  BY NaturalLength DEF WriteToken, IInv, TypeOK, DecodeInv, LzssTypeOK, Phases
<1>2. Fields(tokens[Len(wire) + 1]) \in Garbage
  BY <1>1, FieldsType
<1>3. /\ wire' \in Seq(Garbage) /\ Len(wire') = Len(wire) + 1
      /\ wire'[Len(wire) + 1] = Fields(tokens[Len(wire) + 1])
      /\ \A i \in 1 .. Len(wire) : wire'[i] = wire[i]
  BY <1>1, <1>2
<1>4. LzssTypeOK'
  BY <1>1, <1>3 DEF DecodeInv, LzssTypeOK, Results
<1>5. Phases'
  <2>1. \A i \in 1 .. Len(wire') : wire'[i] = Fields(tokens[i])
    BY <1>1, <1>3 DEF DecodeInv, Phases
  <2>2. Len(wire') <= Len(tokens)
    BY <1>1, <1>3
  <2>3. UNCHANGED <<pc, pos, tokens>> /\ N' = N
    BY <1>1, ParseUnchanged
  <2> QED
    BY <2>1, <2>2, <2>3, <1>1 DEF DecodeInv, Phases
<1>6. Faithful'
  BY <1>1, ParseUnchanged DEF Faithful, OutIsPrefix
<1>7. Bounds'
  BY <1>1, ParseUnchanged DEF Bounds
<1> QED
  BY <1>4, <1>5, <1>6, <1>7 DEF DecodeInv

LEMMA TransportStep == ASSUME IInv, DecodeInv, Transport PROVE DecodeInv'
<1>1. /\ status = "writing" /\ pc = "parsed" /\ UNCHANGED vars /\ status' = "reading"
      /\ UNCHANGED <<wire, read, out, from, left>>
      /\ good' \in 0 .. Len(wire) /\ cut' \in BOOLEAN
      /\ Len(wire) = Len(tokens) /\ wire \in Seq(Garbage)
      /\ read = 0 /\ out = <<>> /\ left = 0 /\ N \in Nat /\ pos = N
  BY NaturalLength DEF Transport, IInv, TypeOK, DecodeInv, LzssTypeOK, Phases
<1>2. UNCHANGED <<pc, pos, tokens, data>> /\ N' = N /\ StartAfter(0)' = StartAfter(0)
  BY <1>1, ParseUnchanged
<1>3. LzssTypeOK'
  BY <1>1 DEF DecodeInv, LzssTypeOK, Results
<1>4. Phases'
  BY <1>1, <1>2 DEF DecodeInv, Phases
<1>5. StartAfter(0)' = 0
  BY <1>2 DEF IInv, TokensTile
<1>6. Faithful'
  BY <1>1, <1>2, <1>5 DEF Faithful, OutIsPrefix
<1>7. Bounds'
  BY <1>1, <1>2 DEF Bounds
<1> QED
  BY <1>3, <1>4, <1>6, <1>7 DEF DecodeInv

\* What reading steps leave alone.
LEMMA ReadingPhases ==
    ASSUME DecodeInv, Reading, UNCHANGED <<vars, wire, good, cut>>, status' # "writing"
    PROVE  Phases'
<1>1. UNCHANGED <<pc, pos, tokens>> /\ N' = N
  BY ParseUnchanged
<1> QED
  BY <1>1 DEF DecodeInv, Phases, Reading

LEMMA ReadLiteralStep == ASSUME IInv, DecodeInv, ReadLiteral PROVE DecodeInv'
<1>1. /\ Reading /\ UNCHANGED <<vars, wire, good, cut, status, from, left>>
      /\ status = "reading" /\ Len(out) < N /\ left = 0
      /\ out \in Seq(Byte) /\ read \in Nat /\ good \in Nat /\ wire \in Seq(Garbage)
      /\ good <= Len(wire) /\ Len(wire) \in Nat
      /\ N \in Nat /\ N' = N /\ data' = data
  BY NaturalLength, ParseUnchanged
  DEF ReadLiteral, Reading, IInv, TypeOK, DecodeInv, LzssTypeOK, Bounds
<1>2. PICK f \in Arriving : ~f.flag /\ out' = Append(out, f.byte)
  BY DEF ReadLiteral
<1>3. PICK r \in Nat : r = read + 1
  BY <1>1
<1>4. read' = r
  BY <1>3 DEF ReadLiteral
<1>5. f \in Garbage
  BY <1>1 DEF Arriving
<1>6. f.byte \in Byte
  BY <1>2, <1>5 DEF Garbage, LiteralFields, MatchFields
<1>7. /\ out' \in Seq(Byte) /\ Len(out') = Len(out) + 1 /\ out'[Len(out) + 1] = f.byte
      /\ \A i \in 1 .. Len(out) : out'[i] = out[i]
  BY <1>1, <1>2, <1>6
<1>8. PICK n \in Nat : n = Len(out) /\ Len(out') = n + 1 /\ n + 1 <= N
  BY <1>1, <1>7
<1>9. LzssTypeOK'
  BY <1>1, <1>4, <1>7 DEF DecodeInv, LzssTypeOK, Results
<1>10. Phases'
  BY <1>1, ReadingPhases
<1>11. read < good => /\ f.byte = data[n + 1] /\ StartAfter(r) = n + 1 /\ r <= good
                      /\ \A i \in 1 .. n : out[i] = data[i]
  <2>1. SUFFICES ASSUME read < good
                 PROVE  /\ f.byte = data[n + 1] /\ StartAfter(r) = n + 1 /\ r <= good
                        /\ \A i \in 1 .. n : out[i] = data[i]
    OBVIOUS
  <2>2. PICK token \in Token : /\ wire[read + 1] = Fields(token)
                               /\ Describes(token, Len(out))
                               /\ StartAfter(read + 1) = Len(out) + ByteLen(token)
                               /\ read + 1 <= good
    BY <1>1, <2>1, NextToken
  <2>3. f = Fields(token)
    BY <2>1, <2>2 DEF Arriving
  <2>4. token.kind = "literal"
    <3>1. token.kind = "match" => f.flag
      BY <2>2, <2>3, MatchFieldsExact
    <3> QED
      BY <3>1, <1>2 DEF Token
  <2>5. f.byte = token.byte
    BY <2>3, <2>4 DEF Fields, LiteralFields
  <2> QED
    BY <2>1, <2>2, <2>4, <2>5, <1>1, <1>3, <1>8
    DEF Describes, ByteLen, DecodeInv, Faithful, OutIsPrefix
<1>12. r <= good => read < good
  BY <1>1, <1>3
<1>13. Faithful'
  <2>1. \A i : StartAfter(i)' = StartAfter(i)
    BY <1>1, ParseUnchanged
  <2>2. SUFFICES ASSUME r <= good PROVE /\ OutIsPrefix' /\ Len(out') = StartAfter(r)
    BY <2>1, <1>1, <1>4 DEF Faithful
  <2>3. \A i \in 1 .. n + 1 : out'[i] = data[i]
    BY <2>2, <1>7, <1>8, <1>11, <1>12
  <2> QED
    BY <2>2, <2>3, <1>1, <1>8, <1>11, <1>12 DEF OutIsPrefix
<1>14. Bounds'
  <2>1. good = Len(wire) => r <= good
    BY <1>1, <1>3, ReadingMeansMore
  <2>2. cut => r <= good
    BY <1>1, <1>2, <1>3 DEF Arriving
  <2> QED
    BY <2>1, <2>2, <1>1, <1>4, <1>8 DEF DecodeInv, Bounds
<1> QED
  BY <1>9, <1>10, <1>13, <1>14 DEF DecodeInv

\* What a match that is not rejected gives copy_match to do.
LEMMA MatchRead ==
    ASSUME IInv, DecodeInv, Reading, NEW f \in Arriving, f.flag,
           ~Rejected(f.len + MIN_MATCH, f.dist + 1)
    PROVE  /\ f.len + MIN_MATCH \in 1 .. N - Len(out)
           /\ f.dist + 1 \in 1 .. Len(out)
           /\ read < good => /\ IsMatch(Len(out), f.len + MIN_MATCH, f.dist + 1)
                             /\ StartAfter(read + 1) = Len(out) + (f.len + MIN_MATCH)
                             /\ read + 1 <= good
           /\ cut => read + 1 <= good
<1>1. /\ read \in Nat /\ good \in Nat /\ wire \in Seq(Garbage) /\ good <= Len(wire)
      /\ N \in Nat /\ Len(out) \in Nat /\ LenField \in Nat /\ DistField \in Nat
  BY NaturalLength, FieldsAssumption DEF IInv, TypeOK, DecodeInv, LzssTypeOK
<1>2. f \in Garbage
  BY <1>1 DEF Arriving
<1>3. f.len \in 0 .. LenField - 1 /\ f.dist \in 0 .. DistField - 1
  BY <1>2 DEF Garbage, LiteralFields, MatchFields
<1>4. f.len + MIN_MATCH \in 1 .. N - Len(out) /\ f.dist + 1 \in 1 .. Len(out)
  BY <1>1, <1>3, LimitsAssumption DEF Rejected
<1>5. ASSUME read < good
      PROVE  /\ IsMatch(Len(out), f.len + MIN_MATCH, f.dist + 1)
             /\ StartAfter(read + 1) = Len(out) + (f.len + MIN_MATCH)
             /\ read + 1 <= good
  <2>1. PICK token \in Token : /\ wire[read + 1] = Fields(token)
                               /\ Describes(token, Len(out))
                               /\ StartAfter(read + 1) = Len(out) + ByteLen(token)
                               /\ read + 1 <= good
    BY <1>5, NextToken
  <2>2. f = Fields(token)
    BY <1>5, <2>1 DEF Arriving
  <2>3. token.kind = "match"
    BY <2>2 DEF Token, Fields, LiteralFields
  <2>4. f.len + MIN_MATCH = token.len /\ f.dist + 1 = token.dist
    BY <2>1, <2>2, <2>3, MatchFieldsExact
  <2> QED
    BY <2>1, <2>3, <2>4 DEF Describes, ByteLen
<1>6. cut => read + 1 <= good
  BY <1>1 DEF Arriving
<1> QED
  BY <1>4, <1>5, <1>6

LEMMA ReadMatchStep == ASSUME IInv, DecodeInv, ReadMatch PROVE DecodeInv'
<1>1. /\ Reading /\ UNCHANGED <<vars, wire, good, cut, status, from, left>>
      /\ status = "reading" /\ Len(out) < N /\ left = 0
      /\ out \in Seq(Byte) /\ read \in Nat /\ good \in Nat /\ Len(wire) \in Nat
      /\ good <= Len(wire) /\ N \in Nat /\ N' = N /\ data' = data
  BY NaturalLength, ParseUnchanged
  DEF ReadMatch, Reading, IInv, TypeOK, DecodeInv, LzssTypeOK, Bounds
<1>2. PICK f \in Arriving :
        /\ f.flag /\ ~Rejected(f.len + MIN_MATCH, f.dist + 1)
        /\ f.len + MIN_MATCH <= f.dist + 1
        /\ out' = out \o Source(f.len + MIN_MATCH, f.dist + 1)
  BY DEF ReadMatch
<1>3. PICK r \in Nat : r = read + 1
  BY <1>1
<1>4. read' = r
  BY <1>3 DEF ReadMatch
<1>5. PICK len \in Nat, dist \in Nat, n \in Nat :
        /\ len = f.len + MIN_MATCH /\ dist = f.dist + 1 /\ n = Len(out)
        /\ len \in 1 .. N - n /\ dist \in 1 .. n /\ len <= dist
  <2>1. f.len + MIN_MATCH \in Nat /\ f.dist + 1 \in Nat
    BY <1>1, <1>2, MatchRead
  <2> QED
    BY <2>1, <1>1, <1>2, MatchRead
<1>6. /\ read < good => IsMatch(n, len, dist) /\ StartAfter(r) = n + len /\ r <= good
      /\ cut => r <= good
  BY <1>1, <1>2, <1>3, <1>5, MatchRead
<1>7. /\ SubSeq(out, n - dist + 1, n - dist + len) \in Seq(Byte)
      /\ Len(SubSeq(out, n - dist + 1, n - dist + len)) = len
      /\ \A k \in 1 .. len :
            SubSeq(out, n - dist + 1, n - dist + len)[k] = out[n - dist + k]
  <2>1. n - dist + 1 \in 1 .. n /\ n - dist + len \in 1 .. n
    BY <1>5
  <2>2. \A i \in n - dist + 1 .. n - dist + len : out[i] \in Byte
    <3>1. \A i \in n - dist + 1 .. n - dist + len : i \in 1 .. n
      BY <1>5
    <3> QED
      BY <3>1, <1>1, <1>5
  <2>3. PICK a \in Int, b \in Int :
             a = n - dist + 1 /\ b = n - dist + len /\ b - a + 1 = len /\ a <= b
    BY <1>5
  <2>4. /\ SubSeq(out, a, b) \in Seq(Byte)
        /\ Len(SubSeq(out, a, b)) = len
        /\ \A k \in 1 .. len : SubSeq(out, a, b)[k] = out[a + k - 1]
    BY <2>2, <2>3, SubSeqProperties
  <2>5. \A k \in 1 .. len : a + k - 1 = n - dist + k
    BY <2>3, <1>5
  <2> QED
    BY <2>3, <2>4, <2>5
<1>8. /\ out' \in Seq(Byte) /\ Len(out') = n + len
      /\ \A i \in 1 .. n : out'[i] = out[i]
      /\ \A k \in 1 .. len : out'[n + k] = out[n - dist + k]
  <2>1. PICK copied \in Seq(Byte) : copied = SubSeq(out, n - dist + 1, n - dist + len)
    BY <1>7
  <2>2. out' = out \o copied /\ Len(copied) = len
        /\ \A k \in 1 .. len : copied[k] = out[n - dist + k]
    BY <2>1, <1>2, <1>5, <1>7 DEF Source
  <2>3. \A k \in 1 .. len : n + k \in 1 .. n + len /\ n + k > n /\ (n + k) - n = k
    BY <1>5
  <2>4. Len(out) = n
    BY <1>5
  <2>5. /\ out \o copied \in Seq(Byte) /\ Len(out \o copied) = Len(out) + Len(copied)
        /\ \A i \in 1 .. Len(out) + Len(copied) :
              (out \o copied)[i] = IF i <= Len(out) THEN out[i] ELSE copied[i - Len(out)]
    BY <1>1, ConcatProperties
  <2>6. \A i \in 1 .. n : (out \o copied)[i] = out[i]
    BY <2>2, <2>4, <2>5
  <2>7. \A k \in 1 .. len : (out \o copied)[n + k] = copied[k]
    BY <2>2, <2>3, <2>4, <2>5
  <2> QED
    BY <2>2, <2>4, <2>5, <2>6, <2>7
<1>9. LzssTypeOK'
  BY <1>1, <1>4, <1>8 DEF DecodeInv, LzssTypeOK, Results
<1>10. Phases'
  BY <1>1, ReadingPhases
<1>11. r <= good => read < good
  BY <1>1, <1>3
<1>12. Faithful'
  <2>1. \A i : StartAfter(i)' = StartAfter(i)
    BY <1>1, ParseUnchanged
  <2>2. SUFFICES ASSUME r <= good PROVE /\ OutIsPrefix' /\ Len(out') = StartAfter(r)
    BY <2>1, <1>1, <1>4 DEF Faithful
  <2>3. read < good /\ \A i \in 1 .. n : out[i] = data[i]
    BY <2>2, <1>1, <1>5, <1>11 DEF DecodeInv, Faithful, OutIsPrefix
  <2>4. \A k \in 1 .. len : out'[n + k] = data[n + k]
    <3>1. SUFFICES ASSUME NEW k \in 1 .. len PROVE out[n - dist + k] = data[n + k]
      BY <1>8
    <3>2. data[n - dist + (k - 1) + 1] = data[n + (k - 1) + 1]
      <4>1. \A j \in 0 .. len - 1 : data[n - dist + j + 1] = data[n + j + 1]
        BY <2>3, <1>6 DEF IsMatch
      <4>2. k - 1 \in 0 .. len - 1
        BY <1>5
      <4> QED
        BY <4>1, <4>2
    <3>3. n - dist + (k - 1) + 1 = n - dist + k /\ n + (k - 1) + 1 = n + k
          /\ n - dist + k \in 1 .. n
      BY <1>5
    <3> QED
      BY <3>2, <3>3, <2>3
  <2>5. ASSUME NEW i \in 1 .. n + len PROVE out'[i] = data[i]
    <3>1. CASE i <= n
      BY <3>1, <2>3, <1>8
    <3>2. CASE i > n
      <4>1. PICK k \in 1 .. len : i = n + k
        <5>1. i - n \in 1 .. len /\ i = n + (i - n)
          BY <3>2, <1>5
        <5> QED
          BY <5>1
      <4> QED
        BY <4>1, <2>4
    <3> QED
      BY <3>1, <3>2
  <2> QED
    BY <2>3, <2>5, <1>1, <1>5, <1>6, <1>8 DEF OutIsPrefix
<1>13. Bounds'
  <2>1. good = Len(wire) => r <= good
    BY <1>1, <1>3, ReadingMeansMore
  <2>2. n + len <= N
    BY <1>1, <1>5
  <2> QED
    BY <2>1, <2>2, <1>1, <1>4, <1>6, <1>8 DEF DecodeInv, Bounds
<1> QED
  BY <1>9, <1>10, <1>12, <1>13 DEF DecodeInv

LEMMA ReadOverlapStep == ASSUME IInv, DecodeInv, ReadOverlap PROVE DecodeInv'
<1>1. /\ Reading /\ UNCHANGED <<vars, wire, good, cut, out>> /\ status' = "copying"
      /\ status = "reading" /\ Len(out) < N
      /\ out \in Seq(Byte) /\ read \in Nat /\ good \in Nat /\ Len(wire) \in Nat
      /\ good <= Len(wire) /\ N \in Nat /\ N' = N /\ data' = data
  BY NaturalLength, ParseUnchanged
  DEF ReadOverlap, Reading, IInv, TypeOK, DecodeInv, LzssTypeOK, Bounds
<1>2. PICK f \in Arriving :
        /\ f.flag /\ ~Rejected(f.len + MIN_MATCH, f.dist + 1)
        /\ from' = Len(out) - (f.dist + 1)
        /\ left' = f.len + MIN_MATCH
  BY DEF ReadOverlap
<1>3. PICK r \in Nat : r = read + 1
  BY <1>1
<1>4. read' = r
  BY <1>3 DEF ReadOverlap
<1>5. PICK len \in Nat, dist \in Nat, n \in Nat :
        /\ len = f.len + MIN_MATCH /\ dist = f.dist + 1 /\ n = Len(out)
        /\ len \in 1 .. N - n /\ dist \in 1 .. n
  <2>1. f.len + MIN_MATCH \in Nat /\ f.dist + 1 \in Nat
    BY <1>1, <1>2, MatchRead
  <2> QED
    BY <2>1, <1>1, <1>2, MatchRead
<1>6. /\ read < good => IsMatch(n, len, dist) /\ StartAfter(r) = n + len /\ r <= good
      /\ cut => r <= good
  BY <1>1, <1>2, <1>3, <1>5, MatchRead
<1>7. PICK start \in Nat : start = n - dist /\ start < n
  BY <1>5
<1>8. from' = start /\ left' = len /\ Len(out') = n
  BY <1>1, <1>2, <1>5, <1>7
<1>9. LzssTypeOK'
  BY <1>1, <1>4, <1>8 DEF DecodeInv, LzssTypeOK, Results
<1>10. Phases'
  BY <1>1, ReadingPhases
<1>11. r <= good => read < good
  BY <1>1, <1>3
<1>12. Faithful'
  <2>1. \A i : StartAfter(i)' = StartAfter(i)
    BY <1>1, ParseUnchanged
  <2>2. ASSUME r <= good
        PROVE  /\ OutIsPrefix' /\ n + len = StartAfter(r)
               /\ \A k \in 0 .. len - 1 : data[start + k + 1] = data[n + k + 1]
    BY <2>2, <1>1, <1>5, <1>6, <1>7, <1>11 DEF DecodeInv, Faithful, OutIsPrefix, IsMatch
  <2> QED
    BY <2>1, <2>2, <1>1, <1>4, <1>7, <1>8 DEF Faithful
<1>13. Bounds'
  <2>1. good = Len(wire) => r <= good
    BY <1>1, <1>3, ReadingMeansMore
  <2>2. n + len <= N
    BY <1>1, <1>5
  <2> QED
    BY <2>1, <2>2, <1>1, <1>4, <1>6, <1>7, <1>8 DEF DecodeInv, Bounds
<1> QED
  BY <1>9, <1>10, <1>12, <1>13 DEF DecodeInv

LEMMA CopyByteStep == ASSUME IInv, DecodeInv, CopyByte PROVE DecodeInv'
<1>1. /\ status = "copying" /\ UNCHANGED <<vars, wire, good, cut, status, read>>
      /\ out \in Seq(Byte) /\ read \in Nat /\ good \in Nat /\ N \in Nat /\ N' = N /\ data' = data
      /\ pc = "parsed"
  BY NaturalLength, ParseUnchanged
  DEF CopyByte, IInv, TypeOK, DecodeInv, LzssTypeOK, Phases
<1>2. PICK n \in Nat, src \in Nat, todo \in Nat :
        /\ n = Len(out) /\ src = from /\ todo = left - 1 /\ left = todo + 1
        /\ src < n /\ n + 1 + todo <= N
  <2>1. left \in Nat /\ left > 0 /\ from \in Nat /\ from < Len(out) /\ Len(out) + left <= N
    BY <1>1 DEF CopyByte, DecodeInv, LzssTypeOK, Bounds
  <2> QED
    BY <2>1, <1>1
<1>3. out' = Append(out, out[src + 1]) /\ from' = src + 1 /\ left' = todo
  BY <1>2 DEF CopyByte
<1>4. /\ out' \in Seq(Byte) /\ Len(out') = n + 1 /\ out'[n + 1] = out[src + 1]
      /\ \A i \in 1 .. n : out'[i] = out[i]
  BY <1>1, <1>2, <1>3
<1>5. LzssTypeOK'
  BY <1>1, <1>2, <1>3, <1>4 DEF DecodeInv, LzssTypeOK, Results
<1>6. Phases'
  BY <1>1, ParseUnchanged DEF DecodeInv, Phases
<1>7. Faithful'
  <2>1. \A i : StartAfter(i)' = StartAfter(i)
    BY <1>1, ParseUnchanged
  <2>2. ASSUME read <= good
        PROVE  /\ OutIsPrefix' /\ n + 1 + todo = StartAfter(read)
               /\ \A k \in 0 .. todo - 1 : data[src + 1 + k + 1] = data[n + 1 + k + 1]
    <3>1. /\ \A i \in 1 .. n : out[i] = data[i]
          /\ n + (todo + 1) = StartAfter(read)
          /\ \A k \in 0 .. todo : data[src + k + 1] = data[n + k + 1]
      BY <2>2, <1>1, <1>2 DEF DecodeInv, Faithful, OutIsPrefix
    <3>2. out[src + 1] = data[n + 1]
      <4>1. 0 \in 0 .. todo /\ src + 0 + 1 = src + 1 /\ n + 0 + 1 = n + 1
        BY <1>2
      <4>2. data[src + 0 + 1] = data[n + 0 + 1]
        BY <4>1, <3>1, Zenon
      <4>3. src + 1 \in 1 .. n
        BY <1>2
      <4> QED
        BY <4>1, <4>2, <4>3, <3>1
    <3>3. \A i \in 1 .. n + 1 : out'[i] = data[i]
      BY <3>1, <3>2, <1>2, <1>4
    <3>4. ASSUME NEW k \in 0 .. todo - 1
          PROVE  data[src + 1 + k + 1] = data[n + 1 + k + 1]
      <4>1. k + 1 \in 0 .. todo /\ src + (k + 1) + 1 = src + 1 + k + 1
            /\ n + (k + 1) + 1 = n + 1 + k + 1
        BY <1>2
      <4>2. data[src + (k + 1) + 1] = data[n + (k + 1) + 1]
        BY <4>1, <3>1, Zenon
      <4> QED
        BY <4>1, <4>2
    <3>5. n + 1 <= N /\ n + 1 + todo = n + (todo + 1)
      BY <1>1, <1>2
    <3> QED
      BY <3>1, <3>3, <3>4, <3>5, <1>1, <1>4 DEF OutIsPrefix
  <2>3. src + 1 < n + 1
    BY <1>2
  <2> QED
    BY <2>1, <2>2, <2>3, <1>1, <1>3, <1>4 DEF Faithful
<1>8. Bounds'
  <2>1. src + 1 < n + 1
    BY <1>2
  <2> QED
    BY <2>1, <1>1, <1>2, <1>3, <1>4 DEF DecodeInv, Bounds
<1> QED
  BY <1>5, <1>6, <1>7, <1>8 DEF DecodeInv

LEMMA CopyDoneStep == ASSUME IInv, DecodeInv, CopyDone PROVE DecodeInv'
<1>1. /\ status = "copying" /\ left = 0 /\ status' = "reading" /\ pc = "parsed"
      /\ UNCHANGED <<vars, wire, good, cut, read, out, from, left>>
      /\ N' = N /\ data' = data /\ out \in Seq(Byte)
  BY ParseUnchanged DEF CopyDone, DecodeInv, LzssTypeOK, Phases
<1>2. \A i : StartAfter(i)' = StartAfter(i)
  BY <1>1, ParseUnchanged
<1>3. LzssTypeOK'
  BY <1>1 DEF DecodeInv, LzssTypeOK, Results
<1>4. Phases'
  BY <1>1, ParseUnchanged DEF DecodeInv, Phases
<1>5. read <= good => OutIsPrefix /\ Len(out) = StartAfter(read)
  BY <1>1 DEF DecodeInv, Faithful
<1>6. Faithful'
  BY <1>1, <1>2, <1>5 DEF Faithful, OutIsPrefix
<1>7. Bounds'
  BY <1>1 DEF DecodeInv, Bounds
<1> QED
  BY <1>3, <1>4, <1>6, <1>7 DEF DecodeInv

LEMMA RejectMatchStep == ASSUME IInv, DecodeInv, RejectMatch PROVE DecodeInv'
<1>1. /\ Reading /\ UNCHANGED <<vars, wire, good, cut, out, from, left>> /\ status' = "corrupt"
      /\ status = "reading" /\ N' = N /\ data' = data /\ N \in Nat /\ out \in Seq(Byte)
      /\ read \in Nat /\ good \in Nat /\ wire \in Seq(Garbage) /\ good <= Len(wire)
  BY ParseUnchanged, NaturalLength
  DEF RejectMatch, Reading, DecodeInv, LzssTypeOK, IInv, TypeOK
<1>2. PICK f \in Arriving : f.flag /\ Rejected(f.len + MIN_MATCH, f.dist + 1)
  BY DEF RejectMatch
<1>3. PICK r \in Nat : r = read + 1
  BY <1>1
<1>4. read' = r
  BY <1>3 DEF RejectMatch
<1>5. ~(read < good)
  <2>1. SUFFICES ASSUME read < good PROVE FALSE
    OBVIOUS
  <2>2. PICK token \in Token : /\ wire[read + 1] = Fields(token)
                               /\ Describes(token, Len(out))
                               /\ StartAfter(read + 1) = Len(out) + ByteLen(token)
                               /\ read + 1 <= good
    BY <1>1, <2>1, NextToken
  <2>3. f = Fields(token)
    BY <2>1, <2>2 DEF Arriving
  <2>4. token.kind = "match"
    BY <1>2, <2>3 DEF Token, Fields, LiteralFields
  <2>5. f.len + MIN_MATCH = token.len /\ f.dist + 1 = token.dist
    BY <2>2, <2>3, <2>4, MatchFieldsExact
  <2>6. /\ Len(out) + token.len <= N /\ token.dist <= Len(out)
        /\ token.len \in Nat /\ token.dist \in Nat /\ Len(out) \in Nat
    BY <2>2, <2>4, <1>1, LimitsAssumption DEF Describes, IsMatch
  <2> QED
    BY <2>5, <2>6, <1>1, <1>2 DEF Rejected
<1>6. ~(r <= good)
  BY <1>1, <1>3, <1>5
<1>7. LzssTypeOK'
  BY <1>1, <1>4 DEF DecodeInv, LzssTypeOK, Results
<1>8. Phases'
  BY <1>1, ReadingPhases
<1>9. Faithful'
  BY <1>1, <1>4, <1>6 DEF Faithful
<1>10. Bounds'
  <2>1. good < Len(wire)
    BY <1>1, <1>5, ReadingMeansMore
  <2> QED
    BY <2>1, <1>1 DEF DecodeInv, Bounds
<1> QED
  BY <1>7, <1>8, <1>9, <1>10 DEF DecodeInv

LEMMA ReadEofStep == ASSUME IInv, DecodeInv, ReadEof PROVE DecodeInv'
<1>1. /\ Reading /\ UNCHANGED <<vars, wire, good, cut, out, from, left>> /\ status' = "eof"
      /\ status = "reading" /\ N' = N /\ data' = data /\ read >= good
      /\ read \in Nat /\ good \in Nat /\ wire \in Seq(Garbage) /\ good <= Len(wire)
  BY ParseUnchanged DEF ReadEof, Reading, DecodeInv, LzssTypeOK
<1>2. PICK r \in Nat : r = read + 1 /\ ~(r <= good)
  BY <1>1
<1>3. read' = r
  BY <1>2 DEF ReadEof
<1>4. LzssTypeOK'
  BY <1>1, <1>3 DEF DecodeInv, LzssTypeOK, Results
<1>5. Phases'
  BY <1>1, ReadingPhases
<1>6. Faithful'
  BY <1>1, <1>2, <1>3 DEF Faithful
<1>7. Bounds'
  <2>1. good < Len(wire)
    BY <1>1, ReadingMeansMore
  <2> QED
    BY <2>1, <1>1 DEF DecodeInv, Bounds
<1> QED
  BY <1>4, <1>5, <1>6, <1>7 DEF DecodeInv

LEMMA CompleteStep == ASSUME IInv, DecodeInv, Complete PROVE DecodeInv'
<1>1. /\ status = "reading" /\ Len(out) >= N /\ status' = "ok" /\ pc = "parsed"
      /\ UNCHANGED <<vars, wire, good, cut, read, out, from, left>>
      /\ N' = N /\ data' = data /\ N \in Nat /\ out \in Seq(Byte) /\ left = 0
      /\ read \in Nat /\ good \in Nat /\ wire \in Seq(Garbage)
      /\ Len(wire) = Len(tokens) /\ tokens \in Seq(Token)
  BY ParseUnchanged, NaturalLength
  DEF Complete, IInv, TypeOK, DecodeInv, LzssTypeOK, Results, Phases, Bounds
<1>2. Len(out) = N
  BY <1>1 DEF DecodeInv, Bounds
<1>3. ~(cut /\ good < Len(wire))
  <2>1. SUFFICES ASSUME cut, good < Len(wire) PROVE FALSE
    OBVIOUS
  <2>2. read <= good /\ Len(out) = StartAfter(read)
    BY <2>1, <1>1 DEF DecodeInv, Bounds, Faithful
  <2>3. read + 1 \in 1 .. Len(tokens) /\ StartAfter(read) = starts[read + 1]
    BY <2>1, <2>2, <1>1 DEF StartAfter
  <2>4. /\ Describes(tokens[read + 1], starts[read + 1]) /\ tokens[read + 1] \in Token
        /\ starts[read + 1] \in Nat
    BY <2>3, <1>1 DEF IInv, TypeOK, TokensTile
  <2>5. starts[read + 1] < N
    BY <2>4, <1>1, TokenFits DEF IInv
  <2> QED
    BY <2>2, <2>3, <2>5, <1>1, <1>2
<1>4. LzssTypeOK'
  BY <1>1 DEF DecodeInv, LzssTypeOK, Results
<1>5. Phases'
  BY <1>1, ParseUnchanged DEF DecodeInv, Phases
<1>6. Faithful'
  BY <1>1 DEF DecodeInv, Faithful, OutIsPrefix
<1>7. Bounds'
  BY <1>1, <1>2, <1>3 DEF DecodeInv, Bounds
<1> QED
  BY <1>4, <1>5, <1>6, <1>7 DEF DecodeInv

LEMMA DecodeStutter == ASSUME IInv, DecodeInv, UNCHANGED allVars PROVE DecodeInv'
<1>1. UNCHANGED vars /\ UNCHANGED <<wire, good, cut, status, read, out, from, left>>
  BY DEF allVars, lzssVars
<1>2. N' = N /\ UNCHANGED <<data, pc, pos, tokens>> /\ \A i : StartAfter(i)' = StartAfter(i)
  BY <1>1, ParseUnchanged
<1>3. LzssTypeOK' /\ Phases' /\ Bounds'
  BY <1>1, <1>2 DEF DecodeInv, LzssTypeOK, Results, Phases, Bounds
<1>4. Faithful'
  BY <1>1, <1>2 DEF DecodeInv, Faithful, OutIsPrefix
<1> QED
  BY <1>3, <1>4 DEF DecodeInv

THEOREM DecodeInductive == IInv /\ DecodeInv /\ [LzssNext]_allVars => DecodeInv'
<1> SUFFICES ASSUME IInv, DecodeInv, [LzssNext]_allVars PROVE DecodeInv'
  OBVIOUS
<1> QED
  BY ParseStep, WriteTokenStep, TransportStep, ReadLiteralStep, ReadMatchStep,
     ReadOverlapStep, CopyByteStep, CopyDoneStep, RejectMatchStep, ReadEofStep,
     CompleteStep, DecodeStutter DEF LzssNext, Decompress

\* The parser is unchanged by what is composed with it.
LEMMA ParserStep == [LzssNext]_allVars => [Next]_vars
  BY DEF LzssNext, Decompress, Parse, WriteToken, Transport, ReadLiteral, ReadMatch,
         ReadOverlap, CopyByte, CopyDone, RejectMatch, ReadEof, Complete, allVars

LEMMA InitDecode == LzssInit => IInv /\ DecodeInv
<1> SUFFICES ASSUME LzssInit PROVE DecodeInv
  BY InitInductive DEF LzssInit
<1>1. N \in Nat
  BY NaturalLength DEF LzssInit, Init
<1>2. /\ wire = <<>> /\ out = <<>> /\ tokens = <<>> /\ good = 0 /\ cut = FALSE
      /\ status = "writing" /\ read = 0 /\ from = 0 /\ left = 0 /\ pos = 0
  BY DEF LzssInit, Init
<1>3. /\ wire \in Seq(Garbage) /\ Len(wire) = 0 /\ out \in Seq(Byte) /\ Len(out) = 0
      /\ Len(tokens) = 0 /\ pc # "parsed"
  <2>1. wire \in Seq(Garbage) /\ out \in Seq(Byte)
    BY <1>2
  <2>2. Len(wire) = 0 /\ Len(out) = 0 /\ Len(tokens) = 0
    BY <1>2
  <2>3. pc # "parsed"
    BY DEF LzssInit, Init
  <2> QED
    BY <2>1, <2>2, <2>3
<1>4. LzssTypeOK
  <2>1. good \in 0 .. Len(wire) /\ read \in Nat /\ from \in Nat /\ left \in Nat
    BY <1>2, <1>3
  <2>3. cut \in BOOLEAN
    BY <1>2
  <2>2. status \in {"writing", "reading", "copying"} \cup Results
    BY <1>2
  <2> QED
    BY <1>3, <2>1, <2>2, <2>3 DEF LzssTypeOK
<1>5. Phases
  <2>1. pc # "parsed" => wire = <<>> /\ status = "writing"
    BY <1>2
  <2>2. pc = "parsed" => pos = N
    BY <1>3
  <2>3. status = "writing" => read = 0 /\ out = <<>> /\ good = 0 /\ left = 0
    BY <1>2
  <2>4. status # "writing" => Len(wire) = Len(tokens)
    BY <1>2
  <2>5. Len(wire) <= Len(tokens) /\ \A i \in 1 .. Len(wire) : wire[i] = Fields(tokens[i])
    BY <1>3
  <2> QED
    BY <2>1, <2>2, <2>3, <2>4, <2>5 DEF Phases
<1>6. Faithful
  <2>1. status = "writing"
    BY <1>2
  <2>2. OutIsPrefix
    BY <1>1, <1>3 DEF OutIsPrefix
  <2> QED
    BY <2>1, <2>2 DEF Faithful
<1>7. Bounds
  BY <1>1, <1>2, <1>3 DEF Bounds
<1> QED
  BY <1>4, <1>5, <1>6, <1>7 DEF DecodeInv

THEOREM LzssInvariance == LzssSpec => [](IInv /\ DecodeInv)
<1>1. IInv /\ DecodeInv /\ [LzssNext]_allVars => (IInv /\ DecodeInv)'
  BY DecodeInductive, ParserStep, StepInductive
<1> QED
  BY <1>1, InitDecode, PTL DEF LzssSpec

(***************************************************************************)
(* LZSS round-trips every input: what arrives as it was written decodes to *)
(* what was compressed, for every window, effort, hash and field width the *)
(* assumptions allow.                                                      *)
(***************************************************************************)
THEOREM RoundTripCorrect == LzssSpec => []RoundTrip
<1>1. DecodeInv => RoundTrip
  BY DEF DecodeInv, Faithful, OutIsPrefix, Bounds, RoundTrip
<1> QED
  BY <1>1, LzssInvariance, PTL

(***************************************************************************)
(* The decoder never copies from outside its output nor beyond             *)
(* expected_len, whatever it reads.                                        *)
(***************************************************************************)
THEOREM CopyStaysInBounds == LzssSpec => []CopyInBounds
<1>1. DecodeInv => CopyInBounds
  BY DEF DecodeInv, Bounds, CopyInBounds
<1> QED
  BY <1>1, LzssInvariance, PTL

(***************************************************************************)
(* A cut stream is never decompressed without an error.                    *)
(***************************************************************************)
THEOREM CutAlwaysNoticed == LzssSpec => []CutIsNoticed
<1>1. DecodeInv => CutIsNoticed
  BY DEF DecodeInv, Bounds, CutIsNoticed
<1> QED
  BY <1>1, LzssInvariance, PTL
-----------------------------------------------------------------------------
(* LZSS implements Codec.                                                  *)

\* A read or a copy adds bytes after those that are there.
LEMMA Appended ==
    ASSUME IInv, DecodeInv, ReadLiteral \/ ReadMatch \/ CopyByte
    PROVE  C!IsPrefix(out, out')
<1>1. out \in Seq(Byte) /\ out' \in Seq(Byte)
  BY ReadLiteralStep, ReadMatchStep, CopyByteStep DEF DecodeInv, LzssTypeOK
<1>2. PICK n \in Nat, m \in Nat : n = Len(out) /\ Len(out') = m
  BY <1>1
<1>3. ASSUME NEW s \in Seq(Byte), out' = out \o s PROVE C!IsPrefix(out, out')
  <2>1. /\ Len(out \o s) = Len(out) + Len(s)
        /\ \A i \in 1 .. Len(out) + Len(s) :
              (out \o s)[i] = IF i <= Len(out) THEN out[i] ELSE s[i - Len(out)]
    BY <1>1, ConcatProperties
  <2> QED
    BY <2>1, <1>2, <1>3 DEF C!IsPrefix
<1>4. ASSUME NEW b, out' = Append(out, b) PROVE C!IsPrefix(out, out')
  <2>1. Len(Append(out, b)) = Len(out) + 1 /\ \A i \in 1 .. Len(out) : Append(out, b)[i] = out[i]
    BY <1>1
  <2> QED
    BY <2>1, <1>2, <1>4 DEF C!IsPrefix
<1>5. CASE ReadLiteral
  BY <1>4, <1>5 DEF ReadLiteral
<1>6. CASE CopyByte
  BY <1>4, <1>6 DEF CopyByte
<1>7. CASE ReadMatch
  <2>1. PICK f \in Arriving :
          /\ f.flag /\ ~Rejected(f.len + MIN_MATCH, f.dist + 1)
          /\ f.len + MIN_MATCH <= f.dist + 1
          /\ out' = out \o Source(f.len + MIN_MATCH, f.dist + 1)
    BY <1>7 DEF ReadMatch
  <2>2. /\ f.len + MIN_MATCH \in 1 .. N - Len(out)
        /\ f.dist + 1 \in 1 .. Len(out)
    <3>1. Reading
      BY <1>7 DEF ReadMatch
    <3> QED
      BY <3>1, <2>1, MatchRead
  <2>3. PICK a \in Int, b \in Int :
          /\ a = n - (f.dist + 1) + 1 /\ b = n - (f.dist + 1) + (f.len + MIN_MATCH)
          /\ \A i \in a .. b : i \in 1 .. n
    <3>1. PICK l \in Int, d \in Int : /\ l = f.len + MIN_MATCH /\ d = f.dist + 1
                                      /\ l >= 1 /\ d \in 1 .. n /\ l <= d
      <4>1. N \in Nat
        BY NaturalLength DEF IInv, TypeOK
      <4> QED
        BY <4>1, <2>1, <2>2, <1>2
    <3>2. n - d + 1 \in Int /\ n - d + l \in Int
          /\ \A i \in n - d + 1 .. n - d + l : i \in 1 .. n
      BY <3>1
    <3> QED
      BY <3>1, <3>2
  <2>4. \A i \in a .. b : out[i] \in Byte
    BY <2>3, <1>1, <1>2
  <2>5. SubSeq(out, a, b) \in Seq(Byte)
    BY <2>4, SubSeqProperties
  <2>6. Source(f.len + MIN_MATCH, f.dist + 1) = SubSeq(out, a, b)
    BY <2>3, <1>2 DEF Source
  <2> QED
    BY <2>1, <2>5, <2>6, <1>3
<1> QED
  BY <1>5, <1>6, <1>7

LEMMA RefineInit == LzssInit => C!Init
<1> SUFFICES ASSUME LzssInit PROVE C!Init
  OBVIOUS
<1>1. data \in Inputs /\ read = 0 /\ good = 0 /\ out = <<>> /\ status = "writing"
  BY DEF LzssInit, Init
<1> QED
  BY <1>1 DEF C!Init, Intact, Outcome

\* Reading more never makes what was damaged intact again.
LEMMA IntactFalls ==
    ASSUME IInv, DecodeInv, Decompress PROVE Intact' => Intact
<1>1. /\ read \in Nat /\ good \in Nat /\ good' = good
      /\ read' = read \/ read' = read + 1
  BY DEF DecodeInv, LzssTypeOK, Decompress, ReadLiteral, ReadMatch, ReadOverlap, CopyByte,
         CopyDone, RejectMatch, ReadEof, Complete
<1>2. PICK r \in Nat : read' = r /\ r >= read
  BY <1>1
<1> QED
  BY <1>1, <1>2 DEF Intact

LEMMA RefineProduce ==
    ASSUME IInv, DecodeInv, ReadLiteral \/ ReadMatch \/ ReadOverlap \/ CopyByte
    PROVE  C!Produce
<1>1. Decompress
  BY DEF Decompress
<1>2. DecodeInv' /\ IInv'
  BY <1>1, ReadLiteralStep, ReadMatchStep, ReadOverlapStep, CopyByteStep, ParserStep,
     StepInductive DEF LzssNext
<1>3. /\ UNCHANGED vars
      /\ status \in {"reading", "copying"} /\ status' \in {"reading", "copying"}
  BY DEF ReadLiteral, ReadMatch, ReadOverlap, CopyByte, Reading
<1>4. N \in Nat /\ N' = N /\ data' = data /\ out \in Seq(Byte) /\ out' \in Seq(Byte)
  <2>1. N' = N /\ data' = data
    BY <1>3, ParseUnchanged
  <2>2. N \in Nat
    BY NaturalLength DEF IInv, TypeOK
  <2> QED
    BY <1>2, <2>1, <2>2 DEF DecodeInv, LzssTypeOK
<1>5. Outcome = "running" /\ Outcome' = "running"
  BY <1>3 DEF Outcome
<1>6. Intact' \in {Intact, FALSE}
  <2>1. Intact \in BOOLEAN /\ Intact' \in BOOLEAN
    BY DEF Intact
  <2> QED
    BY <2>1, <1>1, IntactFalls
<1>7. C!IsPrefix(out, out')
  <2>1. CASE ReadOverlap
    <3>1. out' = out
      BY <2>1 DEF ReadOverlap
    <3> QED
      BY <3>1, <1>4 DEF C!IsPrefix
  <2> QED
    BY <2>1, Appended
<1>8. PICK m \in Nat, e \in Nat : Len(out') = m /\ e = left' /\ m + e <= N
  BY <1>2, <1>3, <1>4, ParseUnchanged DEF DecodeInv, Bounds, LzssTypeOK
<1>9. Intact' => C!IsPrefix(out', data)
  BY <1>2, <1>4 DEF Intact, DecodeInv, Faithful, OutIsPrefix, C!IsPrefix, N
<1>10. Len(out') <= Len(data)
  BY <1>4, <1>8 DEF N
<1> QED
  BY <1>4, <1>5, <1>6, <1>7, <1>9, <1>10, Zenon DEF C!Produce

LEMMA RefineSucceed == ASSUME IInv, DecodeInv, Complete PROVE C!Succeed
<1>1. /\ UNCHANGED <<vars, good, read, out>> /\ status = "reading" /\ status' = "ok"
  BY DEF Complete
<1>2. Len(out) = N
  BY <1>1, CompleteStep, ParseUnchanged DEF DecodeInv, Bounds
<1> QED
  BY <1>1, <1>2, ParseUnchanged DEF C!Succeed, Outcome, Intact, N

LEMMA RefineFail == ASSUME IInv, DecodeInv, RejectMatch \/ ReadEof PROVE C!Fail
<1>1. /\ UNCHANGED <<vars, out>> /\ status = "reading" /\ status' \in {"eof", "corrupt"}
  BY DEF RejectMatch, ReadEof, Reading
<1>2. ~Intact'
  BY <1>1, RejectMatchStep, ReadEofStep DEF DecodeInv, Faithful, Intact
<1>3. Intact' = FALSE
  BY <1>2 DEF Intact
<1> QED
  BY <1>1, <1>3, ParseUnchanged DEF C!Fail, Outcome

LEMMA RefineStutter ==
    ASSUME IInv, DecodeInv,
           Parse \/ WriteToken \/ Transport \/ CopyDone \/ UNCHANGED allVars
    PROVE  UNCHANGED C!vars
<1>1. [Next]_vars
  BY ParserStep DEF LzssNext, Decompress
<1>2. data' = data
  BY <1>1 DEF Next, IndexPosition, StartWalk, StopWalk, Examine, Search, TakePending,
       ChooseLiteral, ChooseLookAhead, ChooseMatch, Defer, TakeFirst, Finish, inputVars, vars
<1>3. out' = out
  BY DEF Parse, WriteToken, Transport, CopyDone, allVars, lzssVars
<1>4. Outcome' = Outcome
  BY DEF Parse, WriteToken, Transport, CopyDone, allVars, lzssVars, Outcome
<1>5. Intact' = Intact
  <2>1. CASE Transport
    <3>1. read = 0 /\ good = 0 /\ read' = 0 /\ good' \in Nat
      BY <2>1 DEF Transport, DecodeInv, Phases, LzssTypeOK
    <3>2. PICK g \in Nat : good' = g
      BY <3>1
    <3>3. Intact = TRUE
      BY <3>1 DEF Intact
    <3>4. Intact' = TRUE
      BY <3>1, <3>2 DEF Intact
    <3> QED
      BY <3>3, <3>4
  <2>2. CASE Parse \/ WriteToken \/ CopyDone \/ UNCHANGED allVars
    <3>1. read' = read /\ good' = good
      BY <2>2 DEF Parse, WriteToken, CopyDone, allVars, lzssVars
    <3> QED
      BY <3>1 DEF Intact
  <2> QED
    BY <2>1, <2>2
<1> QED
  BY <1>2, <1>3, <1>4, <1>5 DEF C!vars

(***************************************************************************)
(* LZSS implements the promise of trait Codec: a read of a token or a copy *)
(* of a byte produces output, expected_len bytes succeed, a rejected match *)
(* or the end of the stream fails, and all else is invisible.              *)
(***************************************************************************)
THEOREM LzssImplementsCodec == LzssSpec => ImplementsCodec
<1>1. IInv /\ DecodeInv /\ [LzssNext]_allVars => [C!Next]_C!vars
  <2> SUFFICES ASSUME IInv, DecodeInv, [LzssNext]_allVars PROVE [C!Next]_C!vars
    OBVIOUS
  <2> QED
    BY RefineProduce, RefineSucceed, RefineFail, RefineStutter
    DEF LzssNext, Decompress, C!Next
<1> QED
  BY <1>1, RefineInit, LzssInvariance, PTL DEF LzssSpec, ImplementsCodec, C!Spec
=============================================================================
