-------------------------- MODULE LzmaMatchFinder --------------------------
(***************************************************************************)
(* The match finder of crates/codecs/src/lzma/matchfinder.rs.  Positions   *)
(* with the same 4-byte hash form a chain, newest first, or a binary       *)
(* search tree (BT4) ordered by the bytes that follow them, newest at the  *)
(* root.  Both live in a ring of `cyc` slots.                              *)
(*                                                                         *)
(* One action is one iteration of a loop: one position inserted in a       *)
(* chain, one node passed on the walk down a tree, one candidate compared. *)
(* Positions are 0-based as in the code; data[p + 1] is the byte at p.     *)
(***************************************************************************)
EXTENDS Naturals, Sequences

CONSTANTS
    Byte,       \* the byte values, numbers
    Inputs,     \* the inputs a finder may be made for
    Finders,    \* the efforts it may be made with
    MAX_LEN,    \* longest match LZMA can code
    Slots3,     \* the entries of head3
    Slots4,     \* the entries of head4
    hash3,      \* the hash of 3 bytes, as a function
    hash4       \* the hash of 4 bytes, as a function

Kind == {"HashChain", "BinaryTree"}

MatchFinder == [kind: Kind, window: Nat, depth: Nat, nice_len: Nat]

ASSUME ConstantAssumption ==
    /\ Byte \subseteq Nat
    /\ Inputs \subseteq Seq(Byte)
    /\ Finders \subseteq MatchFinder
    /\ \A f \in Finders : f.nice_len > 0   \* else limit - len - 1 is below 0
    /\ MAX_LEN \in Nat \ {0}
    /\ hash3 \in [[1 .. 3 -> Byte] -> Slots3]
    /\ hash4 \in [[1 .. 4 -> Byte] -> Slots4]

VARIABLES
    data,       \* the input
    mf,         \* kind and effort of the finder; nice_len is capped by MAX_LEN
    pc,         \* the loop find is in
    head2,      \* latest position + 1 of each 2-byte string
    head3,      \* latest position + 1 of each hash of 3 bytes
    head4,      \* latest position + 1 of each hash of 4: chain start or root
    links,      \* one link per slot (chains) or two (trees)
    indexed,    \* positions below this are in the tables
    \* the running or the last call of find
    at,         \* the position searched
    out,        \* the matches found
    best,       \* longest length seen
    candidate,  \* candidate position + 1
    budget,     \* candidates still to visit
    \* tree_walk
    record,     \* TRUE: `out` receives what the walk finds
    after_link, before_link,    \* where the next node after / before at hangs
    after_len, before_len       \* bytes that agree on that side

tables == <<head2, head3, head4>>
walk   == <<record, after_link, before_link, after_len, before_len>>
search == <<out, best, candidate, budget>>
vars   == <<data, mf, pc, head2, head3, head4, links, indexed, at, out, best, candidate,
            budget, record, after_link, before_link, after_len, before_len>>

NONE == 0
N == Len(data)
Smaller(a, b) == IF a <= b THEN a ELSE b

IsTree == mf.kind = "BinaryTree"

\* Positions kept in the ring.  Mutant: a ring as small as the window.
CycWindow == Smaller(mf.window, N)
cyc == Smaller(mf.window, N) + 1

\* The k bytes at p, if there are that many.
Has(p, k) == p + k <= N
Bytes(p, k) == [i \in 1 .. k |-> data[p + i]]
key2(p) == Bytes(p, 2)
key3(p) == hash3[Bytes(p, 3)]
key4(p) == hash4[Bytes(p, 4)]

\* len bytes at c and at p agree, and no more of the first max.
SameBytes(c, p, len) == \A k \in 0 .. len - 1 : data[c + k + 1] = data[p + k + 1]
Agree(c, p, max, len) ==
    SameBytes(c, p, len) /\ (len < max => data[c + len + 1] # data[p + len + 1])

match_len(c, p, max) == CHOOSE len \in 0 .. max : Agree(c, p, max, len)

max_len == Smaller(MAX_LEN, N - at)

\* How far tree comparisons go at p.
tree_limit(p) == Smaller(mf.nice_len, N - p)

InWindow(cand, p) == p - (cand - 1) <= mf.window

Init ==
    /\ data \in Inputs
    /\ mf \in {[f EXCEPT !.nice_len = Smaller(@, MAX_LEN)] : f \in Finders}
    /\ pc = "idle"
    /\ head2 = [k \in [1 .. 2 -> Byte] |-> NONE]
    /\ head3 = [h \in Slots3 |-> NONE]
    /\ head4 = [h \in Slots4 |-> NONE]
    /\ links = [i \in 0 .. cyc * (IF IsTree THEN 2 ELSE 1) - 1 |-> NONE]
    /\ indexed = 0
    /\ at = 0 /\ out = <<>> /\ best = 0 /\ candidate = NONE /\ budget = 0
    /\ record = FALSE
    /\ after_link = 0 /\ before_link = 0 /\ after_len = 0 /\ before_len = 0

-----------------------------------------------------------------------------
(* What the loops share. *)

\* p becomes the latest position of its 2-byte string and its 3-byte hash.
update_short_heads(p) ==
    /\ head2' = IF Has(p, 2) THEN [head2 EXCEPT ![key2(p)] = p + 1] ELSE head2
    /\ head3' = IF Has(p, 3) THEN [head3 EXCEPT ![key3(p)] = p + 1] ELSE head3

\* p joins the chain of its hash.
chain_insert(p) ==
    IF Has(p, 4)
    THEN /\ links' = [links EXCEPT ![p % cyc] = head4[key4(p)]]
         /\ head4' = [head4 EXCEPT ![key4(p)] = p + 1]
    ELSE UNCHANGED <<head4, links>>

\* A match that is longer than what there is joins `out`.
Reported(len, dist) == Append(out, [len |-> len, dist |-> dist])

\* p becomes the root of its tree and the walk sets out from the old root.
BeginWalk(p, rec, seen) ==
    /\ head4' = [head4 EXCEPT ![key4(p)] = p + 1]
    /\ candidate' = head4[key4(p)]
    /\ budget' = mf.depth
    /\ best' = seen
    /\ record' = rec
    /\ after_link' = 2 * (p % cyc) + 1 /\ before_link' = 2 * (p % cyc)
    /\ after_len' = 0 /\ before_len' = 0
    /\ pc' = "walk"

-----------------------------------------------------------------------------
(* find: index the positions skipped, then the latest short strings. *)

find(p) ==
    /\ pc = "idle" /\ p >= indexed
    /\ at' = p /\ out' = <<>> /\ best' = 0
    /\ pc' = "index"
    /\ UNCHANGED <<data, mf, tables, links, indexed, candidate, budget, walk>>

\* index_until: a skipped position joins its chain.
IndexInChain ==
    /\ pc = "index" /\ indexed < at /\ ~IsTree
    /\ chain_insert(indexed)
    /\ update_short_heads(indexed)
    /\ indexed' = indexed + 1
    /\ UNCHANGED <<data, mf, pc, at, search, walk>>

\* index_until: a skipped position is to become the root of its tree.
IndexInTree ==
    /\ pc = "index" /\ indexed < at /\ IsTree /\ Has(indexed, 4)
    /\ BeginWalk(indexed, FALSE, 0)
    /\ UNCHANGED <<data, mf, head2, head3, links, indexed, at, out>>

\* index_until: a position too close to the end is in no tree.
IndexNowhere ==
    /\ pc = "index" /\ indexed < at /\ IsTree /\ ~Has(indexed, 4)
    /\ update_short_heads(indexed)
    /\ indexed' = indexed + 1
    /\ UNCHANGED <<data, mf, pc, head4, links, at, search, walk>>

\* Every position before `at` is in the tables.
BeginSearch ==
    /\ pc = "index" /\ indexed = at
    /\ best' = 1
    /\ pc' = "short2"
    /\ UNCHANGED <<data, mf, tables, links, indexed, at, out, candidate, budget, walk>>

Short2 == IF max_len >= 2 THEN head2[key2(at)] ELSE NONE
Short3 == IF max_len >= 3 THEN head3[key3(at)] ELSE NONE

\* Is c, the head of a short string, a match longer than what there is?
BeatsShort(c, len) ==
    /\ InWindow(c, at)
    /\ best < max_len
    /\ data[c - 1 + best + 1] = data[at + best + 1]
    /\ len > best

\* The latest position of the 2-byte string, then of the 3-byte hash.
TryShort(here, next, c) ==
    /\ pc = here
    /\ pc' = next
    /\ LET len == match_len(c - 1, at, max_len) IN
         IF c # NONE /\ BeatsShort(c, len)
         THEN out' = Reported(len, at - (c - 1)) /\ best' = len
         ELSE UNCHANGED <<out, best>>
    /\ UNCHANGED <<data, mf, tables, links, indexed, at, candidate, budget, walk>>

TryShort2 == TryShort("short2", "short3", Short2)
TryShort3 == TryShort("short3", "long", IF Short3 = Short2 THEN NONE ELSE Short3)

\* find returns: `at` is in the tables.
Return ==
    /\ update_short_heads(at)
    /\ indexed' = at + 1
    /\ pc' = "idle"

-----------------------------------------------------------------------------
(* chain_search, then chain_insert. *)

BeginChain ==
    /\ pc = "long" /\ ~IsTree /\ max_len >= 4 /\ best < mf.nice_len
    /\ candidate' = head4[key4(at)]
    /\ budget' = mf.depth
    /\ pc' = "chain"
    /\ UNCHANGED <<data, mf, tables, links, indexed, at, out, best, walk>>

\* Nothing longer can be found, or need be.
SkipChain ==
    /\ pc = "long" /\ ~IsTree /\ (max_len < 4 \/ best >= mf.nice_len)
    /\ chain_insert(at)
    /\ Return
    /\ UNCHANGED <<data, mf, at, search, walk>>

ChainOver ==
    \/ budget = 0 \/ candidate = NONE
    \/ best >= mf.nice_len \/ best = max_len
    \/ ~InWindow(candidate, at)

EndChain ==
    /\ pc = "chain" /\ ChainOver
    /\ chain_insert(at)
    /\ Return
    /\ UNCHANGED <<data, mf, at, search, walk>>

\* The byte that would make it longer is compared first.
Longer(len) == data[candidate - 1 + best + 1] = data[at + best + 1] /\ len > best

\* A link that does not go back was overwritten by a newer position: stop.
VisitChain ==
    /\ pc = "chain" /\ ~ChainOver
    /\ LET len == match_len(candidate - 1, at, max_len)
           next == links[(candidate - 1) % cyc]
       IN /\ IF Longer(len)
             THEN out' = Reported(len, at - (candidate - 1)) /\ best' = len
             ELSE UNCHANGED <<out, best>>
          /\ budget' = IF next >= candidate THEN 0 ELSE budget - 1
          /\ candidate' = IF next >= candidate THEN candidate ELSE next
    /\ UNCHANGED <<data, mf, pc, tables, links, indexed, at, walk>>

-----------------------------------------------------------------------------
(* tree_walk: the old tree is split into what sorts before and after the   *)
(* position that becomes its root, `indexed`.                              *)

\* The end of find: the longest match was compared up to limit only.
Extended(matches) ==
    LET last == matches[Len(matches)]
        limit == tree_limit(at)
    IN IF matches # <<>> /\ last.len = limit /\ limit < max_len
       THEN [matches EXCEPT ![Len(matches)].len = match_len(at - last.dist, at, max_len)]
       ELSE matches

\* The tree has its new root: on to the next position to index, or return.
LeaveWalk(matches) ==
    /\ update_short_heads(indexed)
    /\ indexed' = indexed + 1
    /\ IF indexed < at
       THEN pc' = "index" /\ out' = matches
       ELSE pc' = "idle" /\ out' = Extended(matches)

BeginTree ==
    /\ pc = "long" /\ IsTree /\ Has(at, 4)
    /\ BeginWalk(at, best < tree_limit(at), best)
    /\ UNCHANGED <<data, mf, head2, head3, links, indexed, at, out>>

SkipTree ==
    /\ pc = "long" /\ IsTree /\ ~Has(at, 4)
    /\ LeaveWalk(out)
    /\ UNCHANGED <<data, mf, head4, links, at, best, candidate, budget, walk>>

WalkOver == budget = 0 \/ candidate = NONE \/ ~InWindow(candidate, indexed)

\* Out of budget or candidates: the rest of the old tree is cut off.
\* Mutant: only one of the two loose ends is closed.
CutOffAfter ==
    /\ pc = "walk" /\ WalkOver
    /\ links' = [links EXCEPT ![after_link] = NONE]
    /\ LeaveWalk(out)
    /\ UNCHANGED <<data, mf, head4, at, best, candidate, budget, walk>>
CutOff ==
    /\ pc = "walk" /\ WalkOver
    /\ links' = [links EXCEPT ![after_link] = NONE, ![before_link] = NONE]
    /\ LeaveWalk(out)
    /\ UNCHANGED <<data, mf, head4, at, best, candidate, budget, walk>>

\* Every node reached agrees with the new root on this many bytes already.
\* Mutant: the side that agrees on more is believed.
AgreedMost == IF after_len >= before_len THEN after_len ELSE before_len
Agreed == Smaller(after_len, before_len)

WalkLen ==
    LET known == Agreed
        limit == tree_limit(indexed)
    IN known + match_len(candidate - 1 + known, indexed + known, limit - known)

\* Only a length that passes what was agreed on is looked at.
Found(len) == IF len > Agreed /\ len > best /\ record
              THEN Reported(len, indexed - (candidate - 1)) ELSE out
NewBest(len) == IF len > Agreed /\ len > best THEN len ELSE best

pair == 2 * ((candidate - 1) % cyc)

\* Equal as far as is compared: the new root takes over the node's children.
TakeOver ==
    /\ pc = "walk" /\ ~WalkOver /\ WalkLen = tree_limit(indexed)
    /\ links' = [links EXCEPT ![before_link] = links[pair], ![after_link] = links[pair + 1]]
    /\ best' = NewBest(WalkLen)
    /\ LeaveWalk(Found(WalkLen))
    /\ UNCHANGED <<data, mf, head4, at, candidate, budget, walk>>

SortsBefore(len) == data[candidate - 1 + len + 1] < data[indexed + len + 1]

\* What every step down the tree does.
StepDown(len) ==
    /\ pc = "walk" /\ ~WalkOver /\ len < tree_limit(indexed)
    /\ best' = NewBest(len)
    /\ out' = Found(len)
    /\ budget' = budget - 1
    /\ UNCHANGED <<data, mf, pc, tables, indexed, at, record>>

\* The node and its left subtree go left: on into its right subtree.
\* Mutant: on into its left subtree.
WalkRightLost ==
    LET len == WalkLen IN
    /\ StepDown(len) /\ SortsBefore(len)
    /\ links' = [links EXCEPT ![before_link] = candidate]
    /\ before_link' = pair
    /\ candidate' = links[pair]
    /\ before_len' = len
    /\ UNCHANGED <<after_link, after_len>>
WalkRight ==
    LET len == WalkLen IN
    /\ StepDown(len) /\ SortsBefore(len)
    /\ links' = [links EXCEPT ![before_link] = candidate]
    /\ before_link' = pair + 1
    /\ candidate' = links[pair + 1]
    /\ before_len' = len
    /\ UNCHANGED <<after_link, after_len>>

\* The node and its right subtree go right: on into its left subtree.
WalkLeft ==
    LET len == WalkLen IN
    /\ StepDown(len) /\ ~SortsBefore(len)
    /\ links' = [links EXCEPT ![after_link] = candidate]
    /\ after_link' = pair
    /\ candidate' = links[pair]
    /\ after_len' = len
    /\ UNCHANGED <<before_link, before_len>>

-----------------------------------------------------------------------------
Step ==
    \/ IndexInChain \/ IndexInTree \/ IndexNowhere
    \/ BeginSearch \/ TryShort2 \/ TryShort3
    \/ BeginChain \/ SkipChain \/ VisitChain \/ EndChain
    \/ BeginTree \/ SkipTree \/ TakeOver \/ WalkLeft \/ WalkRight \/ CutOff

Next == Step \/ \E p \in 0 .. N - 1 : find(p)

Spec == Init /\ [][Next]_vars

-----------------------------------------------------------------------------
(* Properties. *)

Position == 0 .. N    \* + 1; NONE is no position

\* What the encoder may do with `out`: every match is real, lies within the
\* window and is as long as the data allow, each is longer than the one before
\* it and further away.  The walk down a tree never compares the bytes it takes
\* as agreed on, so this rests on the order of the whole tree.
MatchesExact ==
    pc = "idle" =>
        /\ \A i \in 1 .. Len(out) :
             /\ out[i].dist \in 1 .. at
             /\ out[i].dist <= mf.window
             /\ out[i].len \in 2 .. max_len
             /\ Agree(at - out[i].dist, at, max_len, out[i].len)
        /\ \A i \in 1 .. Len(out) - 1 :
             out[i].len < out[i + 1].len /\ out[i].dist < out[i + 1].dist

\* Does the finder visit every candidate there is, and have positions with the
\* same 3 bytes a head of their own?
Thorough == mf.depth >= N
Perfect3 == \A b, c \in DOMAIN hash3 : hash3[b] = hash3[c] => b = c

\* "Each is the closest match found of its length", and with enough effort
\* nothing is missed: for every earlier position c in the window there is a
\* match at least as long (up to nice_len) that is at least as close.  Lengths
\* of 2 are seen whatever the effort; those of 3 when no hash3 collides.
NothingCloserMissed ==
    pc = "idle" /\ indexed > at =>
        \A c \in 0 .. at - 1 :
            LET len == Smaller(match_len(c, at, max_len), mf.nice_len) IN
            /\ at - c <= mf.window
            /\ len >= 2
            /\ (Thorough /\ (len >= 4 \/ Perfect3)) \/ len = 2
            => \E i \in 1 .. Len(out) : out[i].len >= len /\ out[i].dist <= at - c

\* The links a position holds are still its own while it is in reach.
Alive(cand) == cand # NONE /\ InWindow(cand, indexed)

\* The positions + 1 of the tree under cand that a walk can reach.
Under ==
    LET under[cand \in Position] ==
          IF ~Alive(cand) THEN {}
          ELSE LET p == 2 * ((cand - 1) % cyc) IN
               {cand} \cup under[links[p]] \cup under[links[p + 1]]
    IN under

\* a sorts before or after b, which was compared up to its own limit.
Before(a, b) ==
    \E k \in 0 .. tree_limit(b - 1) - 1 : SameBytes(a - 1, b - 1, k) /\ data[a + k] < data[b + k]
After(a, b) ==
    \E k \in 0 .. tree_limit(b - 1) - 1 : SameBytes(a - 1, b - 1, k) /\ data[a + k] > data[b + k]

\* Too close to the end of the data to tell: a position that took over the
\* children of one compared further may have such children.
AlikeToEnd(a, b) ==
    tree_limit(b - 1) < mf.nice_len /\ SameBytes(a - 1, b - 1, tree_limit(b - 1))

SortsLeft(a, b) == Before(a, b) \/ AlikeToEnd(a, b)
SortsRight(a, b) == After(a, b) \/ AlikeToEnd(a, b)

\* Links go back in the data, whatever slot of the ring is taken again: a walk
\* cannot run in circles, and next >= candidate of chain_search never is.
LinksGoBack ==
    \A cand \in 1 .. N :
        Alive(cand) /\ Has(cand - 1, 4) /\ cand <= indexed =>
            LET slot == (cand - 1) % cyc IN
            IF IsTree THEN links[2 * slot] < cand /\ links[2 * slot + 1] < cand
                      ELSE links[slot] < cand

\* Between walks every bucket is a search tree of positions with its hash: all
\* of a left subtree sorts before its root, all of a right subtree after it, as
\* far as later positions, which are compared no further, can tell.
TreesOrdered ==
    IsTree /\ pc # "walk" =>
        \A h \in Slots4 : \A cand \in Under[head4[h]] :
            LET p == 2 * ((cand - 1) % cyc) IN
            /\ key4(cand - 1) = h
            /\ \A l \in Under[links[p]] : SortsLeft(l, cand)
            /\ \A r \in Under[links[p + 1]] : SortsRight(r, cand)

=============================================================================
