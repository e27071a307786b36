------------------------------- MODULE Lz77 -------------------------------
(***************************************************************************)
(* The LZ77 parser of crates/codecs/src/lz77.rs: a hash-chain match finder *)
(* (MatchFinder) and the lazy parse that drives it (parse).                *)
(*                                                                         *)
(* One action is one iteration of a loop of the code: one position added   *)
(* to the index, one candidate of a chain examined, one decision of the    *)
(* parser.  Positions are 0-based as in the code; data[p + 1] is the byte  *)
(* at position p.                                                          *)
(***************************************************************************)
EXTENDS Naturals, Sequences

CONSTANTS
    Byte,       \* the byte values
    Inputs,     \* the inputs parse may be called with
    ParamSet,   \* the search efforts it may be called with (struct Params)
    MIN_MATCH,  \* shortest match worth encoding; also the bytes hashed
    MAX_MATCH,  \* longest match
    WINDOW,     \* how far back a match may reach; size of the ring `prev`
    HashSlots,  \* the entries of `head`
    Hash        \* the hash of MIN_MATCH bytes, as a function

Params == [max_chain: Nat, nice_len: Nat, lazy_len: Nat, good_len: Nat]

ASSUME LimitsAssumption ==
    /\ MIN_MATCH \in Nat \ {0}
    /\ MAX_MATCH \in Nat
    /\ MAX_MATCH >= MIN_MATCH
    /\ WINDOW \in Nat \ {0}

ASSUME InputAssumption ==
    /\ Inputs \subseteq Seq(Byte)
    /\ ParamSet \subseteq Params

ASSUME HashAssumption ==
    Hash \in [[1 .. MIN_MATCH -> Byte] -> HashSlots]

VARIABLES
    data,      \* the input
    params,    \* the effort it is parsed with
    pc,        \* the loop the parser is in
    \* MatchFinder
    head,      \* most recent position + 1 of each hash, NONE if there is none
    prev,      \* previous position + 1 with the same hash, at pos % WINDOW
    indexed,   \* positions below this are in the index
    \* the running call of find
    at,        \* the position searched
    ahead,     \* TRUE: the look-ahead of the lazy parse
    cand,      \* candidate position + 1
    chain,     \* candidates left to try
    bestLen,   \* best match so far
    bestDist,
    \* parse
    pos,       \* next byte to describe
    firstLen,  \* the match at pos, kept while the parser looks ahead
    firstDist,
    pending,   \* TRUE: best* is a match already found for pos
    tokens,    \* the tokens emitted so far
    starts     \* history: the position each token was emitted at

findVars   == <<at, ahead, cand, chain>>
indexVars  == <<head, prev, indexed>>
inputVars  == <<data, params>>
outputVars == <<tokens, starts>>
vars == <<data, params, pc, head, prev, indexed, at, ahead, cand, chain, bestLen,
          bestDist, pos, firstLen, firstDist, pending, tokens, starts>>

NONE == 0

N == Len(data)

Smaller(a, b) == IF a <= b THEN a ELSE b
Larger(a, b) == IF a >= b THEN a ELSE b

Literal(b) == [kind |-> "literal", byte |-> b]
Match(len, dist) == [kind |-> "match", len |-> len, dist |-> dist]

\* The positions that have MIN_MATCH bytes after them, and so a hash.
Hashable(p) == p + MIN_MATCH <= N
HashAt(p) == Hash[[i \in 1 .. MIN_MATCH |-> data[p + i]]]

\* The longest match find may report at p.
MaxLen(p) == Smaller(MAX_MATCH, N - p)

\* len is the number of bytes at which c and p agree, counted up to max.
Agree(c, p, max, len) ==
    /\ \A k \in 0 .. len - 1 : data[c + k + 1] = data[p + k + 1]
    /\ len < max => data[c + len + 1] # data[p + len + 1]

Init ==
    /\ data \in Inputs
    /\ params \in ParamSet
    /\ pc = "parse"
    /\ head = [h \in HashSlots |-> NONE]
    /\ prev = [i \in 0 .. WINDOW - 1 |-> NONE]
    /\ indexed = 0
    /\ at = 0 /\ ahead = FALSE /\ cand = NONE /\ chain = 0
    /\ bestLen = 0 /\ bestDist = 0
    /\ pos = 0 /\ firstLen = 0 /\ firstDist = 0
    /\ pending = FALSE
    /\ tokens = <<>> /\ starts = <<>>

-----------------------------------------------------------------------------
(* find: index every position below `at`, then walk the chain of its hash. *)

\* finder.find(p, effort, nice_len, beat) is called.
CallFind(p, isAhead, effort, beat) ==
    /\ pc' = "index"
    /\ at' = p /\ ahead' = isAhead
    /\ chain' = effort /\ cand' = NONE
    /\ bestLen' = beat /\ bestDist' = 0
    /\ UNCHANGED indexVars

\* find returns best* to its caller.
ReturnPc == IF ahead THEN "compare" ELSE "choose"

\* Mutant: head is updated before the link to the older position is saved.
IndexPositionSwapped ==
    /\ pc = "index"
    /\ indexed < at /\ Hashable(indexed)
    /\ head' = [head EXCEPT ![HashAt(indexed)] = indexed + 1]
    /\ prev' = [prev EXCEPT ![indexed % WINDOW] = head'[HashAt(indexed)]]
    /\ indexed' = indexed + 1
    /\ UNCHANGED <<inputVars, pc, findVars, bestLen, bestDist, pos, firstLen, firstDist,
                   pending, outputVars>>

\* index_until: one position that has a hash joins the index.
IndexPosition ==
    /\ pc = "index"
    /\ indexed < at /\ Hashable(indexed)
    /\ prev' = [prev EXCEPT ![indexed % WINDOW] = head[HashAt(indexed)]]
    /\ head' = [head EXCEPT ![HashAt(indexed)] = indexed + 1]
    /\ indexed' = indexed + 1
    /\ UNCHANGED <<inputVars, pc, findVars, bestLen, bestDist, pos, firstLen, firstDist,
                   pending, outputVars>>

\* No match at `at` can be usable or beat what there is: find returns at once.
Hopeless == MaxLen(at) < MIN_MATCH \/ bestLen >= MaxLen(at)

\* index_until is done; find looks up the newest candidate.
StartWalk ==
    /\ pc = "index"
    /\ ~(indexed < at /\ Hashable(indexed))
    /\ indexed' = Larger(indexed, at)
    /\ pc' = IF Hopeless THEN ReturnPc ELSE "walk"
    /\ cand' = IF Hopeless THEN NONE ELSE head[HashAt(at)]
    /\ UNCHANGED <<inputVars, head, prev, at, ahead, chain, bestLen, bestDist, pos,
                   firstLen, firstDist, pending, outputVars>>

\* Mutant: one distance too few.
ChainEndsEarly == cand = NONE \/ chain = 0 \/ at - (cand - 1) >= WINDOW

\* The chain ends: no candidate, no effort left, or out of the window.
ChainEnds == cand = NONE \/ chain = 0 \/ at - (cand - 1) > WINDOW

StopWalk ==
    /\ pc = "walk" /\ ChainEnds
    /\ pc' = ReturnPc
    /\ UNCHANGED <<inputVars, indexVars, findVars, bestLen, bestDist, pos, firstLen,
                   firstDist, pending, outputVars>>

\* The candidate agrees on len bytes; is that the new best?  The cheap reject
\* compares the byte at bestLen first.
Improves(len) ==
    /\ data[cand - 1 + bestLen + 1] = data[at + bestLen + 1]
    /\ len > bestLen

\* A link that does not go back was overwritten by a newer position.
NextLink == prev[(cand - 1) % WINDOW]

StopsAt(len) ==
    \/ Improves(len) /\ (len >= params.nice_len \/ len = MaxLen(at))
    \/ NextLink >= cand

\* Mutant: a candidate the cheap reject turns down is left with `continue`, which
\* skips the end of the loop, where the chain is followed.
ExamineContinue ==
    /\ pc = "walk" /\ ~ChainEnds
    /\ IF data[cand - 1 + bestLen + 1] # data[at + bestLen + 1]
       THEN UNCHANGED <<pc, cand, chain, bestLen, bestDist>>
       ELSE \E len \in 0 .. MaxLen(at) :
                /\ Agree(cand - 1, at, MaxLen(at), len)
                /\ bestLen' = IF Improves(len) THEN len ELSE bestLen
                /\ bestDist' = IF Improves(len) THEN at - (cand - 1) ELSE bestDist
                /\ pc' = IF StopsAt(len) THEN ReturnPc ELSE "walk"
                /\ cand' = IF StopsAt(len) THEN cand ELSE NextLink
                /\ chain' = IF StopsAt(len) THEN chain ELSE chain - 1
    /\ UNCHANGED <<inputVars, indexVars, at, ahead, pos, firstLen, firstDist, pending,
                   outputVars>>

Examine ==
    /\ pc = "walk" /\ ~ChainEnds
    /\ \E len \in 0 .. MaxLen(at) :
        /\ Agree(cand - 1, at, MaxLen(at), len)
        /\ bestLen' = IF Improves(len) THEN len ELSE bestLen
        /\ bestDist' = IF Improves(len) THEN at - (cand - 1) ELSE bestDist
        /\ pc' = IF StopsAt(len) THEN ReturnPc ELSE "walk"
        /\ cand' = IF StopsAt(len) THEN cand ELSE NextLink
        /\ chain' = IF StopsAt(len) THEN chain ELSE chain - 1
    /\ UNCHANGED <<inputVars, indexVars, at, ahead, pos, firstLen, firstDist, pending,
                   outputVars>>

-----------------------------------------------------------------------------
(* parse: literals and matches, looking one byte ahead.                    *)

\* The top of the loop: search pos ...
Search ==
    /\ pc = "parse" /\ pos < N /\ ~pending
    /\ CallFind(pos, FALSE, params.max_chain, MIN_MATCH - 1)
    /\ UNCHANGED <<inputVars, pos, firstLen, firstDist, pending, outputVars>>

\* Mutant: the pending match is not taken, so the next position gets it too.
TakePendingKept ==
    /\ pc = "parse" /\ pos < N /\ pending
    /\ pc' = "choose"
    /\ UNCHANGED <<inputVars, indexVars, findVars, bestLen, bestDist, pos, firstLen,
                   firstDist, pending, outputVars>>

\* ... unless the look-ahead already did.
TakePending ==
    /\ pc = "parse" /\ pos < N /\ pending
    /\ pending' = FALSE
    /\ pc' = "choose"
    /\ UNCHANGED <<inputVars, indexVars, findVars, bestLen, bestDist, pos, firstLen,
                   firstDist, outputVars>>

Emit(token) ==
    /\ tokens' = Append(tokens, token)
    /\ starts' = Append(starts, pos)
    /\ pc' = "parse"

\* The lazy parse tries pos + 1 too while the match at pos is short.
LookAhead == bestLen < params.lazy_len /\ pos + 1 < N

Effort ==
    IF bestLen >= params.good_len
    THEN Larger(params.max_chain \div 4, 1)
    ELSE Larger(params.max_chain, 1)

ChooseLiteral ==
    /\ pc = "choose" /\ bestLen < MIN_MATCH
    /\ Emit(Literal(data[pos + 1]))
    /\ pos' = pos + 1
    /\ UNCHANGED <<inputVars, indexVars, findVars, bestLen, bestDist, firstLen, firstDist,
                   pending>>

ChooseLookAhead ==
    /\ pc = "choose" /\ bestLen >= MIN_MATCH /\ LookAhead
    /\ firstLen' = bestLen /\ firstDist' = bestDist
    /\ CallFind(pos + 1, TRUE, Effort, bestLen)
    /\ UNCHANGED <<inputVars, pos, pending, outputVars>>

ChooseMatch ==
    /\ pc = "choose" /\ bestLen >= MIN_MATCH /\ ~LookAhead
    /\ Emit(Match(bestLen, bestDist))
    /\ pos' = pos + bestLen
    /\ UNCHANGED <<inputVars, indexVars, findVars, bestLen, bestDist, firstLen, firstDist,
                   pending>>

\* pos + 1 has a longer match: a literal now, and that match is pending.
Defer ==
    /\ pc = "compare" /\ bestLen > firstLen
    /\ Emit(Literal(data[pos + 1]))
    /\ pos' = pos + 1
    /\ pending' = TRUE
    /\ UNCHANGED <<inputVars, indexVars, findVars, bestLen, bestDist, firstLen, firstDist>>

TakeFirst ==
    /\ pc = "compare" /\ bestLen <= firstLen
    /\ Emit(Match(firstLen, firstDist))
    /\ pos' = pos + firstLen
    /\ UNCHANGED <<inputVars, indexVars, findVars, bestLen, bestDist, firstLen, firstDist,
                   pending>>

\* The input is used up: parse returns the tokens.
Finish ==
    /\ pc = "parse" /\ pos >= N
    /\ pc' = "parsed"
    /\ UNCHANGED <<inputVars, indexVars, findVars, bestLen, bestDist, pos, firstLen,
                   firstDist, pending, outputVars>>

Next ==
    \/ IndexPosition \/ StartWalk \/ StopWalk \/ Examine
    \/ Search \/ TakePending \/ ChooseLiteral \/ ChooseLookAhead \/ ChooseMatch
    \/ Defer \/ TakeFirst \/ Finish

Spec == Init /\ [][Next]_vars

-----------------------------------------------------------------------------
Token ==
    [kind: {"literal"}, byte: Byte] \cup [kind: {"match"}, len: Nat, dist: Nat]

\* Types of all variables.
TypeOK ==
    /\ data \in Inputs /\ params \in ParamSet
    /\ pc \in {"parse", "index", "walk", "choose", "compare", "parsed"}
    /\ head \in [HashSlots -> Nat]
    /\ prev \in [0 .. WINDOW - 1 -> Nat]
    /\ indexed \in Nat /\ at \in Nat /\ ahead \in BOOLEAN
    /\ cand \in Nat /\ chain \in Nat
    /\ bestLen \in Nat /\ bestDist \in Nat
    /\ pos \in Nat /\ firstLen \in Nat /\ firstDist \in Nat
    /\ pending \in BOOLEAN
    /\ tokens \in Seq(Token) /\ starts \in Seq(Nat)

\* The len bytes at p repeat the bytes dist before them.
IsMatch(p, len, dist) ==
    /\ p + len <= N
    /\ dist >= 1 /\ dist <= p
    /\ \A k \in 0 .. len - 1 : data[p - dist + k + 1] = data[p + k + 1]

\* A token says what the input holds at p, within the limits of the format.
Describes(token, p) ==
    IF token.kind = "literal"
    THEN p < N /\ token.byte = data[p + 1]
    ELSE /\ token.len \in MIN_MATCH .. MAX_MATCH
         /\ token.dist \in 1 .. WINDOW
         /\ IsMatch(p, token.len, token.dist)

ByteLen(token) == IF token.kind = "literal" THEN 1 ELSE token.len

\* Where the token after token i starts.
StartAfter(i) == IF i < Len(tokens) THEN starts[i + 1] ELSE pos

(***************************************************************************)
(* The tokens tile the input: the first starts at 0, each starts where the *)
(* one before it ends, the last ends at pos, and each says what the input  *)
(* holds there, with a length and distance Deflate and LZSS can code.      *)
(* This is what reconstruct, the LZSS decoder and inflate rely on; a match *)
(* found for one position and emitted at another would break it.           *)
(***************************************************************************)
TokensTile ==
    /\ Len(starts) = Len(tokens)
    /\ StartAfter(0) = 0
    /\ \A i \in 1 .. Len(tokens) :
        /\ Describes(tokens[i], starts[i])
        /\ StartAfter(i) = starts[i] + ByteLen(tokens[i])

\* p is in the index.
Indexed(p) == p < indexed /\ Hashable(p)

\* link is the newest indexed position + 1 before `before` with hash h.
IsNewest(link, h, before) ==
    /\ link # NONE => /\ link - 1 < before
                      /\ Indexed(link - 1)
                      /\ HashAt(link - 1) = h
    /\ \A p \in link .. before - 1 : ~(Indexed(p) /\ HashAt(p) = h)

(***************************************************************************)
(* The index is a set of exact chains: head holds the newest position of   *)
(* each hash, and the link of every position still within WINDOW of the    *)
(* next one leads to the position before it with the same hash.  The field *)
(* comment of `prev` claims it ("older links are overwritten, but they are *)
(* out of reach by then"): a ring one slot short, or a position indexed    *)
(* late, would break a link a search still follows.                        *)
(***************************************************************************)
ChainsExact ==
    /\ \A h \in HashSlots : IsNewest(head[h], h, indexed)
    /\ \A p \in 0 .. indexed - 1 :
        Indexed(p) /\ indexed - p <= WINDOW
            => IsNewest(prev[p % WINDOW], HashAt(p), p)

(***************************************************************************)
(* A search never meets a link that goes forward, so the guard against     *)
(* overwritten links in find never ends a search early.                    *)
(***************************************************************************)
NeverOverwritten ==
    pc = "walk" /\ ~ChainEnds => NextLink < cand

(***************************************************************************)
(* find returns "the longest match for pos that is longer than beat": if   *)
(* it had effort left and did not stop at a nice match, no distance within *)
(* WINDOW has a longer one.  It takes exact chains, a hash that only       *)
(* rejects what cannot match, the cheap reject and the reuse of a match    *)
(* found by the look-ahead.                                                *)
(***************************************************************************)
LongestFound ==
    pc \in {"choose", "compare"} /\ chain > 0 /\ bestLen < params.nice_len
        => \A dist \in 1 .. Smaller(WINDOW, at), len \in bestLen + 1 .. MaxLen(at) :
               ~IsMatch(at, len, dist)

=============================================================================
