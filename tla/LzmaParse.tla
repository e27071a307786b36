------------------------------ MODULE LzmaParse ------------------------------
(***************************************************************************)
(* The two parsers of LZMA, crates/codecs/src/lzma: parse_fast of          *)
(* encode.rs decides with rules of thumb, parse of optimal.rs finds the    *)
(* cheapest path through a stretch of the input.  Both hand operations to  *)
(* Encoder::emit, whose state and distances the next decision rests on,    *)
(* and both search ahead of the position they are at.                      *)
(*                                                                         *)
(* The match finder is what LzmaMatchFinder shows of it: find returns real *)
(* matches, each longer and further than the one before, among as many     *)
(* candidates as its effort allows.  Prices are an arbitrary function,     *)
(* fixed for one stretch: they come from probabilities, which emit changes.*)
(* Positions are 0-based as in the code; data[p + 1] is the byte at p.     *)
(***************************************************************************)
EXTENDS Integers, SequencesExt, LzmaState

CONSTANTS
    Inputs,         \* the inputs, sequences of numbers
    Efforts,        \* the ways a parser may be called
    MATCH_MIN_LEN,
    MATCH_MAX_LEN,
    OPT_LEN,        \* most positions in one stretch
    Further,        \* much_further: this many times as far
    Far,            \* distances: a 2-byte match, a match 2 longer than a
    Far2,           \*   repeat and one 3 longer are not worth it from here
    Far3,
    Models,         \* the probabilities there may be: what prices depend on
    Price(_, _, _, _, _),   \* price of an operation: model, state, position,
                            \* operation, match byte
    MaxPrice,       \* no operation costs more
    Infinity        \* u32::MAX

Effort == [parse: {"Fast", "Optimal"}, depth: Nat, nice_len: Nat]

ASSUME LimitsAssumption ==
    /\ Inputs \subseteq Seq(Nat) /\ Efforts \subseteq Effort
    /\ MATCH_MIN_LEN \in Nat \ {0, 1} /\ MATCH_MAX_LEN \in Nat
    /\ OPT_LEN \in Nat \ {0}
    /\ \A e \in Efforts : e.nice_len \in MATCH_MIN_LEN .. MATCH_MAX_LEN

MaxNode == OPT_LEN + 2 * MATCH_MAX_LEN + 1

Positions == UNION {0 .. Len(d) - 1 : d \in Inputs}
Bytes == UNION {{d[i] : i \in 1 .. Len(d)} : d \in Inputs}
Lens == MATCH_MIN_LEN .. MATCH_MAX_LEN
Ops == {Literal, ShortRep}
         \cup {Rep(i, l) : i \in 0 .. 3, l \in Lens}
         \cup {Match(d, l) : d \in Positions \ {0}, l \in Lens}

\* There is no byte to code a literal against but after a match.
NoMatchByte == -1

\* The price of a path through a stretch does not reach Infinity.
ASSUME PriceAssumption ==
    /\ MaxPrice \in Nat /\ Infinity \in Nat /\ MaxPrice * MaxNode < Infinity
    /\ \A m \in Models, s \in States, p \in Positions, op \in Ops :
         \A against \in Bytes \cup {NoMatchByte} : Price(m, s, p, op, against) \in 0 .. MaxPrice

VARIABLES
    data, effort,
    finder,             \* what find returns at each position
    pc,
    pos, state, reps,   \* Encoder
    model,              \* its probabilities, as far as prices tell
    asked,              \* history: the positions find was called for
    matches,            \* what it returned
    have,               \* have_matches: they are those at pos, found early
    path,               \* operations decided on and not yet emitted
    \* stretch
    nodes,              \* node i: the first i bytes of the stretch are coded
    len_end,            \* nodes 1 .. len_end have been reached
    cur                 \* the node visited

input   == <<data, effort, finder>>
encoder == <<pos, state, reps>>
search  == <<asked, matches>>
graph   == <<nodes, len_end, cur>>
vars == <<input, pc, encoder, model, search, have, path, graph>>

N == Len(data)
Smaller(a, b) == IF a <= b THEN a ELSE b
Avail(p) == Smaller(MATCH_MAX_LEN, N - p)

Node(price, prev, ops, s, r) ==
    [price |-> price, prev |-> prev, ops |-> ops, state |-> s, reps |-> r]

\* len_at: how many bytes at p agree with what is dist before them.
LenAt(p, dist, limit) ==
    LET max == Smaller(limit, N - p) IN
    IF dist > p THEN 0
    ELSE CHOOSE l \in 0 .. max :
           Repeats(data, p, dist, l) /\ (l < max => ~Repeats(data, p, dist, l + 1))

\* The matches at p, closest first: of the closest `depth` candidates, each that
\* is longer than all closer ones.  Once one is nice the finder looks no further.
MatchesAt(p) ==
    LET At(d) == [len |-> LenAt(p, d, MATCH_MAX_LEN), dist |-> d]
        candidates == {m \in {At(d) : d \in 1 .. p} : m.len >= MATCH_MIN_LEN}
        Best(m) == LET closer == {c \in candidates : c.dist < m.dist} IN
                   /\ Cardinality(closer) < effort.depth
                   /\ \A c \in closer : c.len < Smaller(m.len, effort.nice_len)
        upto[d \in 0 .. p] ==      \* those no further than d
          IF d = 0 THEN <<>>
          ELSE IF At(d) \in candidates /\ Best(At(d)) THEN Append(upto[d - 1], At(d))
          ELSE upto[d - 1]
    IN upto[p]

Found(p) == finder[p]

Init ==
    /\ data \in Inputs /\ effort \in Efforts
    /\ finder = [p \in 0 .. N - 1 |-> MatchesAt(p)]
    /\ pc = "search"
    /\ pos = 0 /\ state = 0 /\ reps = <<0, 0, 0, 0>>
    /\ model \in Models
    /\ asked = <<>> /\ matches = <<>> /\ have = FALSE
    /\ path = <<>>
    /\ nodes = [i \in 0 .. MaxNode |-> Node(0, 0, <<Literal>>, 0, <<0, 0, 0, 0>>)]
    /\ len_end = 0 /\ cur = 0

-----------------------------------------------------------------------------
Find(p) == asked' = Append(asked, p) /\ matches' = Found(p)

\* The search for pos, unless it was made early.
Search ==
    /\ pc = "search" /\ pos < N
    /\ model' \in Models
    /\ IF have THEN UNCHANGED search ELSE Find(pos)
    /\ pc' = IF effort.parse = "Fast" THEN "choose" ELSE "stretch"
    /\ UNCHANGED <<input, encoder, have, path, graph>>

\* How long each of the recent distances repeats at p.
RepLens(p, r, limit) == [i \in 0 .. 3 |-> LenAt(p, r[i + 1] + 1, limit)]

\* The first of the longest.
Longest(lens) ==
    CHOOSE i \in 0 .. 3 : \A j \in 0 .. 3 : lens[j] <= lens[i] /\ (j < i => lens[j] < lens[i])

Nice(len) == len >= effort.nice_len
NoMatch == [len |-> 0, dist |-> 0]
LastOf(ms) == IF ms = <<>> THEN NoMatch ELSE Last(ms)

\* The byte a literal is coded against after a match.
MatchByte(s, p, r) == IF IsLiteral(s) THEN NoMatchByte ELSE data[p - r[1]]

Cost(s, p, r, op) ==
    Price(model, s, p, op, IF op = Literal THEN MatchByte(s, p, r) ELSE NoMatchByte)

-----------------------------------------------------------------------------
(* Encoder::choose of the fast parser. *)

Decide(op) ==
    /\ path' = <<op>>
    /\ pc' = "emit"
    /\ UNCHANGED <<input, encoder, model, graph>>

\* Is this byte, repeated from rep0, cheaper as a short rep?
LiteralOrShortRep ==
    IF Repeats(data, pos, reps[1] + 1, 1)
       /\ Cost(state, pos, reps, ShortRep) < Cost(state, pos, reps, Literal)
    THEN ShortRep ELSE Literal

MuchFurther(small, big) == (big - 1) \div Further > small - 1

\* The longest match; a shorter one for as long as it is one byte less and
\* far closer; not worth a match if it is short and far away.
SteppedDown ==
    LET Fits(k) == \A j \in k .. Len(matches) - 1 :
                     /\ matches[j].len + 1 = matches[j + 1].len
                     /\ MuchFurther(matches[j].dist, matches[j + 1].dist)
        first == CHOOSE k \in DOMAIN matches : Fits(k) /\ \A j \in 1 .. k - 1 : ~Fits(j)
    IN IF matches = <<>> THEN NoMatch ELSE matches[first]

Main ==
    IF SteppedDown.len = 2 /\ SteppedDown.dist > Far
    THEN [SteppedDown EXCEPT !.len = 1] ELSE SteppedDown

RepsHere == RepLens(pos, reps, Avail(pos))
NiceReps == {i \in 0 .. 3 : Nice(RepsHere[i])}
RepWins ==
    LET len == RepsHere[Longest(RepsHere)] IN
    /\ len >= MATCH_MIN_LEN
    /\ \/ len + 1 >= Main.len
       \/ len + 2 >= Main.len /\ Main.dist > Far2
       \/ len + 3 >= Main.len /\ Main.dist > Far3

TooShort == Avail(pos) < MATCH_MIN_LEN
NothingNice == NiceReps = {} /\ ~Nice(LastOf(matches).len)
Choosing == pc = "choose" /\ ~TooShort

ChooseRep ==
    /\ Choosing
    /\ IF NiceReps # {}
       THEN \E i \in NiceReps :
              (\A j \in NiceReps : i <= j) /\ Decide(Rep(i, RepsHere[i]))
       ELSE /\ NothingNice /\ RepWins
            /\ Decide(Rep(Longest(RepsHere), RepsHere[Longest(RepsHere)]))
    /\ have' = FALSE
    /\ UNCHANGED search

ChooseNiceMatch ==
    /\ Choosing
    /\ NiceReps = {} /\ Nice(LastOf(matches).len)
    /\ Decide(Match(Last(matches).dist, Last(matches).len))
    /\ have' = FALSE
    /\ UNCHANGED search

NothingGood == NothingNice /\ ~RepWins /\ (Main.len < MATCH_MIN_LEN \/ Avail(pos) <= 2)

\* pos + 1 is searched, and what was found there kept: matches and
\* next_matches are swapped.  Mutant: they are not.
LookAheadLost == asked' = Append(asked, pos + 1) /\ UNCHANGED matches
LookAhead == Find(pos + 1)

\* A literal: pos + 1 is searched first.
ChooseLiteral ==
    /\ pc = "choose" /\ (TooShort \/ NothingGood)
    /\ IF pos + 1 < N THEN LookAhead ELSE matches' = <<>> /\ UNCHANGED asked
    /\ Decide(LiteralOrShortRep)
    /\ have' = TRUE

\* Is starting one byte later better?
Later(next) ==
    \/ /\ next.len >= MATCH_MIN_LEN
       /\ \/ next.len >= Main.len /\ next.dist < Main.dist
          \/ next.len = Main.len + 1 /\ ~MuchFurther(Main.dist, next.dist)
          \/ next.len > Main.len + 1
          \/ next.len + 1 >= Main.len /\ Main.len >= 3 /\ MuchFurther(next.dist, Main.dist)
    \/ LET limit == IF Main.len - 1 > 2 THEN Main.len - 1 ELSE 2
       IN \E i \in 1 .. 4 : LenAt(pos + 1, reps[i] + 1, limit) >= limit

LookingAhead == Choosing /\ NothingNice /\ ~RepWins /\ ~NothingGood

\* What was found at pos + 1 is kept for a literal and dropped for a match.
ChooseLater ==
    /\ LookingAhead /\ Later(LastOf(Found(pos + 1)))
    /\ LookAhead
    /\ Decide(LiteralOrShortRep)
    /\ have' = TRUE

ChooseMatch ==
    /\ LookingAhead /\ ~Later(LastOf(Found(pos + 1)))
    /\ asked' = Append(asked, pos + 1) /\ UNCHANGED matches
    /\ Decide(Match(Main.dist, Main.len))
    /\ have' = FALSE

ParseFast == ChooseRep \/ ChooseNiceMatch \/ ChooseLiteral \/ ChooseLater \/ ChooseMatch

-----------------------------------------------------------------------------
(* stretch of the optimal parser. *)

\* long_op: a repeat or match of at least nice_len.
LongOps(p, r) ==
    LET lens == RepLens(p, r, Avail(p))
        best == Longest(lens)
    IN IF Avail(p) < MATCH_MIN_LEN THEN <<>>
       ELSE IF Nice(lens[best]) THEN <<Rep(best, lens[best])>>
       ELSE IF Nice(LastOf(matches).len)
       THEN <<Match(Last(matches).dist, Last(matches).len)>>
       ELSE <<>>

\* The stretch starts with a long one: taken as it is.
TakeLong ==
    /\ pc = "stretch" /\ LongOps(pos, reps) # <<>>
    /\ path' = LongOps(pos, reps)
    /\ have' = FALSE
    /\ pc' = "emit"
    /\ UNCHANGED <<input, encoder, model, search, graph>>

BeginStretch ==
    /\ pc = "stretch" /\ LongOps(pos, reps) = <<>>
    /\ nodes' = [nodes EXCEPT ![0] = Node(0, 0, <<Literal>>, state, reps)]
    /\ len_end' = 0 /\ cur' = 0
    /\ have' = FALSE
    /\ pc' = "relax"
    /\ UNCHANGED <<input, encoder, model, search, path>>

\* Mutant: 0-based and 1-based distances are mixed up.
PushedOneBased(r, dist) == NewFront(r, dist)
Pushed(r, dist) == NewFront(r, dist - 1)

\* apply: what op makes of state and distances, mirroring the encoder.
Apply(at, op) ==
    CASE op.kind = "Literal"  -> [at EXCEPT !.state = AfterLiteral(@)]
      [] op.kind = "ShortRep" -> [at EXCEPT !.state = AfterShortRep(@)]
      [] op.kind = "Rep"      -> [state |-> AfterRep(at.state),
                                  reps  |-> MovedToFront(at.reps, op.index)]
      [] op.kind = "Match"    -> [state |-> AfterMatch(at.state),
                                  reps  |-> Pushed(at.reps, op.dist)]

\* What a sequence of operations makes of them.
Applied(at, ops) ==
    LET after[k \in 0 .. Len(ops)] == IF k = 0 THEN at ELSE Apply(after[k - 1], ops[k])
    IN after[Len(ops)]

\* Mutant: cur is left as its predecessor was.
SettledLate ==
    [nodes[cur] EXCEPT !.state = nodes[nodes[cur].prev].state, !.reps = nodes[nodes[cur].prev].reps]
\* Node cur with the state and distances of its cheapest path.
Settled ==
    LET from == nodes[nodes[cur].prev]
        at == Applied([state |-> from.state, reps |-> from.reps], nodes[cur].ops)
    IN [nodes[cur] EXCEPT !.state = at.state, !.reps = at.reps]

EndStretch ==
    /\ pc = "visit" /\ (cur = len_end \/ cur >= OPT_LEN)
    /\ pc' = "trace"
    /\ UNCHANGED <<input, encoder, model, search, have, path, graph>>

Visit ==
    /\ pc = "visit" /\ cur # len_end /\ cur < OPT_LEN
    /\ nodes' = [nodes EXCEPT ![cur] = Settled]
    /\ Find(pos + cur)
    /\ pc' = "long"
    /\ UNCHANGED <<input, encoder, model, have, path, len_end, cur>>

LongHere == LongOps(pos + cur, nodes[cur].reps)

\* Mutant: the matches are searched again.
CarriedNever == FALSE
Carried == LongHere # <<>>

\* The next stretch starts with a long one, and with the matches found here.
StopAtLong ==
    /\ pc = "long"
    /\ have' = Carried
    /\ pc' = IF LongHere # <<>> THEN "trace" ELSE "relax"
    /\ UNCHANGED <<input, encoder, model, search, path, graph>>

Edge(to, price, ops) == [to |-> to, price |-> price, ops |-> ops]

\* The state rep0 is priced in.  Mutant: that of the literal.
Rep0StateEarly(s) == s
Rep0State(s) == AfterLiteral(s)

\* lit_rep0: after `first` (if any) a literal and then rep0, at node n and
\* position p; price includes first.
LitRep0(n, p, price, first) ==
    LET after == Applied([state |-> n.state, reps |-> n.reps], first)
        at == p + (IF first = <<>> THEN 0 ELSE first[1].len)
        rep0 == after.reps[1] + 1
        len == LenAt(at + 1, rep0, MATCH_MAX_LEN)
        rep == Rep(0, len)
    IN IF \/ at + 1 + MATCH_MIN_LEN > N \/ rep0 > at
          \/ data[at + 1] = data[at + 1 - rep0]
          \/ len < MATCH_MIN_LEN
       THEN <<>>
       ELSE <<Edge(at - p + 1 + len,
                   price + Cost(after.state, at, after.reps, Literal)
                         + Cost(Rep0State(after.state), at + 1, after.reps, rep),
                   first \o <<Literal, rep>>)>>

One(n, p, op) == Edge(op.len, n.price + Cost(n.state, p, n.reps, op), <<op>>)

\* The edges of operations ops at node n, all at one distance, and the longest
\* followed by a literal and rep0.
\* Mutant: only the longest is offered.
LengthsLongest(n, p, ops) == IF ops = <<>> THEN <<>> ELSE <<One(n, p, Last(ops))>>
Lengths(n, p, ops) ==
    IF ops = <<>> THEN <<>>
    ELSE LET longest == One(n, p, Last(ops))
         IN [k \in DOMAIN ops |-> One(n, p, ops[k])]
              \o LitRep0(n, p, longest.price, longest.ops)

RepEdges(n, p) ==
    LET lens == RepLens(p, n.reps, Avail(p)) IN
    FlattenSeq([i \in 1 .. 4 |->
        Lengths(n, p, [k \in 1 .. lens[i - 1] - MATCH_MIN_LEN + 1 |->
                         Rep(i - 1, MATCH_MIN_LEN + k - 1)])])

\* Each distance serves the lengths above those of the one before.
MatchEdges(n, p) ==
    FlattenSeq([i \in DOMAIN matches |->
        LET from == IF i = 1 THEN MATCH_MIN_LEN ELSE matches[i - 1].len + 1
        IN Lengths(n, p, [k \in 1 .. matches[i].len - from + 1 |->
                            Match(matches[i].dist, from + k - 1)])])

Edges(n, p) ==
    <<One(n, p, Literal)>>
      \o (IF Repeats(data, p, n.reps[1] + 1, 1) THEN <<One(n, p, ShortRep)>> ELSE <<>>)
      \o LitRep0(n, p, n.price, <<>>)
      \o (IF Avail(p) < MATCH_MIN_LEN THEN <<>> ELSE RepEdges(n, p) \o MatchEdges(n, p))

\* The nodes up to the end of an edge are reached; this one if it is cheaper.
Relaxed(g, e) ==
    LET to == cur + e.to
        reset == [i \in DOMAIN g.nodes |->
                    IF i \in g.len_end + 1 .. to THEN [g.nodes[i] EXCEPT !.price = Infinity]
                    ELSE g.nodes[i]]
        n == reset[to]
    IN [nodes   |-> IF e.price < n.price
                    THEN [reset EXCEPT ![to] = Node(e.price, cur, e.ops, n.state, n.reps)]
                    ELSE reset,
        len_end |-> IF to > g.len_end THEN to ELSE g.len_end]

RelaxedAll(edges) ==
    LET g[k \in 0 .. Len(edges)] ==
          IF k = 0 THEN [nodes |-> nodes, len_end |-> len_end] ELSE Relaxed(g[k - 1], edges[k])
    IN g[Len(edges)]

Relax ==
    /\ pc = "relax"
    /\ LET g == RelaxedAll(Edges(nodes[cur], pos + cur))
       IN nodes' = g.nodes /\ len_end' = g.len_end
    /\ cur' = cur + 1
    /\ pc' = "visit"
    /\ UNCHANGED <<input, encoder, model, search, have, path>>

\* The operations of the cheapest path to node i.
PathTo ==
    LET to[i \in 0 .. MaxNode] == IF i = 0 THEN <<>> ELSE to[nodes[i].prev] \o nodes[i].ops
    IN to

TraceBack ==
    /\ pc = "trace"
    /\ path' = PathTo[cur]
    /\ pc' = "emit"
    /\ UNCHANGED <<input, encoder, model, search, have, graph>>

Stretch ==
    TakeLong \/ BeginStretch \/ EndStretch \/ Visit \/ StopAtLong \/ Relax \/ TraceBack

-----------------------------------------------------------------------------
EmitOp ==
    /\ pc = "emit" /\ path # <<>>
    /\ LET after == Emitted([state |-> state, reps |-> reps], Head(path))
       IN state' = after.state /\ reps' = after.reps
    /\ pos' = pos + Head(path).len
    /\ path' = Tail(path)
    /\ UNCHANGED <<input, pc, model, search, have, graph>>

EmittedAll ==
    /\ pc = "emit" /\ path = <<>>
    /\ pc' = "search"
    /\ UNCHANGED <<input, encoder, model, search, have, path, graph>>

Finish ==
    /\ pc = "search" /\ pos >= N
    /\ pc' = "done"
    /\ UNCHANGED <<input, encoder, model, search, have, path, graph>>

Next == Search \/ ParseFast \/ Stretch \/ EmitOp \/ EmittedAll \/ Finish

Spec == Init /\ [][Next]_vars

-----------------------------------------------------------------------------
(* Properties. *)

(***************************************************************************)
(* "Each position may be searched at most once, in increasing order": the  *)
(* finder checks it in debug builds only, and a release build that broke   *)
(* it would index positions twice.  Both parsers search ahead, skip what a *)
(* match covers, and must remember what they have.                         *)
(***************************************************************************)
SearchedOnce == \A i \in 1 .. Len(asked) - 1 : asked[i] < asked[i + 1]

(***************************************************************************)
(* A decision is made from the matches of the position it is for, whether  *)
(* they were searched just now, carried over from the end of a stretch or  *)
(* swapped in from a look-ahead.                                           *)
(***************************************************************************)
MatchesCurrent ==
    /\ pc \in {"choose", "stretch"} => matches = Found(pos)
    /\ pc \in {"long", "relax"} => matches = Found(pos + cur)

(***************************************************************************)
(* Every operation handed to the encoder says what the input holds at its  *)
(* position, with the repeat distances the encoder has by then.  The       *)
(* optimal parser predicted them along a path of up to OPT_LEN positions,  *)
(* through combined edges of three operations.                             *)
(***************************************************************************)
OpsDescribeInput ==
    pc = "emit" /\ path # <<>> => Describes(data, pos, reps, Head(path))

\* Coding op next, at the price it then has.
Coded(at, op) ==
    [pos   |-> at.pos + op.len,
     state |-> Emitted([state |-> at.state, reps |-> at.reps], op).state,
     reps  |-> Emitted([state |-> at.state, reps |-> at.reps], op).reps,
     price |-> at.price + Cost(at.state, at.pos, at.reps, op)]

\* Coding operations one after the other.
CodedAll(at, ops) ==
    LET after[k \in 0 .. Len(ops)] == IF k = 0 THEN at ELSE Coded(after[k - 1], ops[k])
    IN after[Len(ops)]

(***************************************************************************)
(* The path chosen covers the stretch exactly, and coding it costs what    *)
(* the parser took it for: each operation at the price it has in the state *)
(* and at the position the encoder reaches by coding those before it.      *)
(***************************************************************************)
PricedAsCoded ==
    pc = "trace" =>
        LET end == CodedAll([pos |-> pos, state |-> state, reps |-> reps, price |-> 0],
                            PathTo[cur])
        IN end.pos = pos + cur /\ end.price = nodes[cur].price

\* The closest distance found at p for length l.
DistFor(p, l) ==
    {Found(p)[i].dist : i \in {k \in DOMAIN Found(p) :
        l <= Found(p)[k].len /\ \A j \in 1 .. k - 1 : l > Found(p)[j].len}}

\* The operations that describe the input at position p, at node n.
OpsAt(n, p) ==
    {Literal}
      \cup {op \in {ShortRep} \cup {Rep(i, l) : i \in 0 .. 3, l \in MATCH_MIN_LEN .. Avail(p)} :
              Describes(data, p, n.reps, op)}
      \cup UNION {{Match(d, l) : d \in DistFor(p, l)} : l \in MATCH_MIN_LEN .. Avail(p)}

(***************************************************************************)
(* "The cheapest way to reach node i is final once every node before it    *)
(* has been expanded": no operation leads from a node passed to a later    *)
(* one for less than the price found for it.                               *)
(***************************************************************************)
CheapestArrival ==
    pc = "trace" =>
        \A i \in 0 .. cur - 1 : \A op \in OpsAt(nodes[i], pos + i) :
            /\ i + op.len <= len_end
            /\ nodes[i + op.len].price
                 <= nodes[i].price + Cost(nodes[i].state, pos + i, nodes[i].reps, op)

(***************************************************************************)
(* "Stop here; the next stretch starts with it": the long repeat or match  *)
(* that ended a stretch is still there, at the distances the encoder has   *)
(* after the path.                                                         *)
(***************************************************************************)
CarriedIsTaken == pc = "stretch" /\ have => LongOps(pos, reps) # <<>>
=============================================================================
