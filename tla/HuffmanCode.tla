---------------------------- MODULE HuffmanCode ----------------------------
(***************************************************************************)
(* How crates/codecs/src/huffman.rs gets from the counts of the symbols to *)
(* code lengths (code_lengths, limit_lengths); CanonicalCode has the codes.*)
(*                                                                         *)
(* One action is one merge of two nodes, one slot freed by the length      *)
(* limit.                                                                  *)
(***************************************************************************)
EXTENDS CanonicalCode, Functions

CONSTANTS
    Symbol,        \* the symbols, numbers
    MaxLens        \* the limits it may be called with

ASSUME HuffmanAssumption ==
    /\ Symbol \subseteq Nat /\ IsFiniteSet(Symbol)
    /\ MaxLens \subseteq 1 .. MAX_CODE_LEN

VARIABLES
    counts, max_len,
    hpc,        \* "start", "merge", "limit", "assign" or "done"
    heap,       \* the nodes not merged yet, with their weights
    parent,     \* the parent of each node that was merged
    per_len,    \* how many codes have each length
    total,      \* the slots these codes use
    lengths     \* the code length of each symbol

huffmanVars == <<counts, max_len, hpc, heap, parent, per_len, total, lengths>>

-----------------------------------------------------------------------------
(* code_lengths. *)

Used == {s \in Symbol : counts[s] > 0}
n == Cardinality(Used)

\* The leaf of a symbol: used symbols are numbered in their order.
Leaf(s) == Cardinality({t \in Used : t < s})

\* code_lengths(c, max_len) is called.
HuffmanInit(c) ==
    /\ counts = c /\ max_len \in MaxLens
    /\ n <= Pow(max_len)
    /\ hpc = "start"
    /\ heap = {} /\ parent = <<>> /\ per_len = <<>> /\ total = 0
    /\ lengths = [s \in Symbol |-> 0]

\* One symbol gets one bit, none gets none.
FewSymbols ==
    /\ hpc = "start" /\ n <= 1
    /\ lengths' = [s \in Symbol |-> IF s \in Used THEN 1 ELSE 0]
    /\ hpc' = "done"
    /\ UNCHANGED <<counts, max_len, heap, parent, per_len, total>>

MakeLeaves ==
    /\ hpc = "start" /\ n > 1
    /\ heap' = {<<counts[s], Leaf(s)>> : s \in Used}
    /\ hpc' = "merge"
    /\ UNCHANGED <<counts, max_len, parent, per_len, total, lengths>>

Lighter(x, y) == x[1] < y[1] \/ (x[1] = y[1] /\ x[2] <= y[2])
\* Mutant: the heap gives the heaviest.
LightestOfHeaviest(S) == CHOOSE x \in S : \A y \in S : Lighter(y, x)
Lightest(S) == CHOOSE x \in S : \A y \in S : Lighter(x, y)

\* The two lightest nodes become the children of a new one.
Merge ==
    /\ hpc = "merge" /\ Cardinality(heap) > 1
    /\ LET a == Lightest(heap)
           b == Lightest(heap \ {a})
           next == n + Cardinality(DOMAIN parent) \div 2
       IN /\ heap' = (heap \ {a, b}) \cup {<<a[1] + b[1], next>>}
          /\ parent' = [x \in DOMAIN parent \cup {a[2], b[2]} |->
                          IF x \in {a[2], b[2]} THEN next ELSE parent[x]]
    /\ UNCHANGED <<counts, max_len, hpc, per_len, total, lengths>>

\* Parents come after their children, so depths are found from the root down.
Depth ==
    LET depth[node \in 0 .. 2 * n - 2] ==
          IF node = 2 * n - 2 THEN 0 ELSE depth[parent[node]] + 1
    IN depth

\* The codes of each length, those over the limit clamped to it.
Clamped ==
    LET depth == Depth IN
    [len \in 1 .. max_len |->
        Cardinality({leaf \in 0 .. n - 1 :
            depth[leaf] = len \/ (len = max_len /\ depth[leaf] > len)})]

SlotsOf(per) == SumOver(DOMAIN per, LAMBDA len : per[len] * Pow(max_len - len))

Overflows == \E leaf \in 0 .. n - 1 : Depth[leaf] > max_len

CountLengths ==
    /\ hpc = "merge" /\ Cardinality(heap) = 1
    /\ per_len' = Clamped
    /\ total' = SlotsOf(Clamped)
    /\ hpc' = IF Overflows THEN "limit" ELSE "assign"
    /\ UNCHANGED <<counts, max_len, heap, parent, lengths>>

Split(l) == [per_len EXCEPT ![max_len] = @ - 1, ![l] = @ - 1, ![l + 1] = @ + 2]

Shorter == {l \in 1 .. max_len - 1 : per_len[l] > 0}

LimitStep ==
    /\ hpc = "limit" /\ total > Pow(max_len)
    /\ per_len' = IF Shorter # {} THEN Split(Max(Shorter))
                  ELSE [per_len EXCEPT ![max_len] = @ - 1]
    /\ total' = total - 1
    /\ UNCHANGED <<counts, max_len, hpc, heap, parent, lengths>>

LimitDone ==
    /\ hpc = "limit" /\ total <= Pow(max_len)
    /\ hpc' = "assign"
    /\ UNCHANGED <<counts, max_len, heap, parent, per_len, total, lengths>>

\* Mutant: rare symbols first.
PlaceRare(s) == Cardinality({t \in Used : counts[t] < counts[s] \/ (counts[t] = counts[s] /\ t <= s)})
\* The place of a symbol among the used ones: frequent first, then in order.
Place(s) == Cardinality({t \in Used : counts[t] > counts[s] \/ (counts[t] = counts[s] /\ t <= s)})

\* The codes of up to len bits.
UpTo(len) == SumOver(1 .. len, LAMBDA l : per_len[l])

\* The most frequent symbols get the shortest codes, as many as there are.
AssignLengths ==
    /\ hpc = "assign"
    /\ lengths' = [s \in Symbol |->
         IF s \notin Used \/ Place(s) > UpTo(max_len) THEN 0
         ELSE Min({len \in 1 .. max_len : Place(s) <= UpTo(len)})]
    /\ hpc' = "done"
    /\ UNCHANGED <<counts, max_len, heap, parent, per_len, total>>

code_lengths ==
    \/ FewSymbols \/ MakeLeaves \/ Merge \/ CountLengths
    \/ LimitStep \/ LimitDone \/ AssignLengths

-----------------------------------------------------------------------------
(* Properties. *)

\* The lengths make a complete prefix code for the symbols that occur, and no
\* symbol has a longer code than a less frequent one.
CompleteCode ==
    hpc = "done" =>
        /\ Coded(lengths) = Used
        /\ n > 1 => SumOver(Used, LAMBDA s : Pow(max_len - lengths[s])) = Pow(max_len)
        /\ \A s, t \in Used : counts[s] > counts[t] => lengths[s] <= lengths[t]

Cost(ls) == SumOver(Used, LAMBDA s : counts[s] * ls[s])

\* "optimal when the limit does not bite": no prefix code within the limit is
\* shorter.
Optimal ==
    hpc = "done" /\ n > 1 /\ ~Overflows =>
        \A ls \in [Used -> 1 .. max_len] :
            SumOver(Used, LAMBDA s : Pow(max_len - ls[s])) <= Pow(max_len)
                => Cost(lengths) <= Cost(ls)
=============================================================================
