-------------------------- MODULE MatchFinderProofs --------------------------
(* Proofs about LzmaMatchFinder: for every input, effort, window and hash, *)
(* links go back, trees are search trees, what find reports is exact, and  *)
(* nothing closer is missed.                                               *)
EXTENDS LzmaMatchFinder, Integers, NatLemmas

-----------------------------------------------------------------------------
(* The inductive invariant: types, and where a call of find is.            *)

Entry == [len : Nat, dist : Nat]
PerSlot == IF IsTree THEN 2 ELSE 1

TypeOK ==
    /\ data \in Inputs
    /\ mf \in MatchFinder /\ mf.nice_len \in Nat \ {0} /\ mf.nice_len <= MAX_LEN
    /\ pc \in {"idle", "index", "short2", "short3", "long", "chain", "walk"}
    /\ head2 \in [[1 .. 2 -> Byte] -> Nat]
    /\ head3 \in [Slots3 -> Nat] /\ head4 \in [Slots4 -> Nat]
    /\ links \in [0 .. cyc * PerSlot - 1 -> Nat]
    /\ indexed \in 0 .. N /\ at \in Nat
    /\ out \in Seq(Entry) /\ best \in Nat /\ candidate \in Nat /\ budget \in Nat
    /\ record \in BOOLEAN
    /\ after_link \in Nat /\ before_link \in Nat /\ after_len \in Nat /\ before_len \in Nat

Control ==
    /\ pc # "idle" => at < N
    /\ pc \in {"short2", "short3", "long", "chain"} => indexed = at
    /\ pc \in {"index", "walk"} => indexed <= at
    /\ pc = "chain" => ~IsTree /\ Has(at, 4) /\ candidate <= at
    /\ pc = "walk" =>
        /\ IsTree /\ Has(indexed, 4)
        /\ after_len < tree_limit(indexed) /\ before_len < tree_limit(indexed)
        /\ record => indexed = at

-----------------------------------------------------------------------------
(* The inductive invariant: heads and links.                               *)

\* The position of the walk, + 1.
Root == indexed + 1

Heads ==
    /\ \A k \in [1 .. 2 -> Byte] : head2[k] <= indexed
    /\ \A h \in Slots3 : head3[h] <= indexed
    /\ \A h \in Slots4 : head4[h] # NONE =>
        /\ head4[h] <= indexed \/ (pc = "walk" /\ head4[h] = Root)
        /\ Has(head4[h] - 1, 4) /\ key4(head4[h] - 1) = h

\* Positions + 1 whose links are their own, the one of the walk included.
Nodes ==
    {c \in 1 .. N : /\ Has(c - 1, 4) /\ InWindow(c, indexed)
                    /\ c <= indexed \/ (pc = "walk" /\ c = Root)}

Slot(c) == (c - 1) % cyc
Link(c, side) == 2 * Slot(c) + side

Back ==
    /\ \A i \in 0 .. cyc * PerSlot - 1 : links[i] <= indexed
    /\ \A c \in Nodes :
        IF IsTree THEN links[Link(c, 0)] < c /\ links[Link(c, 1)] < c
                  ELSE links[Slot(c)] < c

\* The two loose ends of a walk are the right link of a node b and the left
\* link of a node a, or links of the root, and the rest of the tree is older.
LooseEnds(b, a) ==
    /\ before_link = Link(b, IF b = Root THEN 0 ELSE 1)
    /\ after_link = Link(a, IF a = Root THEN 1 ELSE 0)
    /\ candidate < b /\ candidate < a
    /\ b = Root => before_len = 0
    /\ a = Root => after_len = 0

Walking == pc = "walk" => \E b, a \in Nodes : LooseEnds(b, a)

LinkInv == TypeOK /\ Control /\ Heads /\ Back /\ Walking

-----------------------------------------------------------------------------
(* Lemmas about the operators.                                             *)

LEMMA InputType == ASSUME TypeOK PROVE data \in Seq(Byte) /\ N \in Nat
  BY ConstantAssumption DEF TypeOK, N

LEMMA CycType ==
    ASSUME TypeOK
    PROVE  /\ cyc \in Nat \ {0} /\ cyc <= N + 1 /\ cyc <= mf.window + 1
           /\ cyc = N + 1 \/ cyc = mf.window + 1
           /\ mf.window \in Nat /\ mf.depth \in Nat /\ mf.nice_len \in Nat \ {0}
<1>1. mf.window \in Nat /\ mf.depth \in Nat /\ mf.nice_len \in Nat \ {0}
  BY DEF TypeOK, MatchFinder
<1> QED
  BY <1>1, InputType DEF cyc, Smaller

\* What depends on the input and the effort only.
LEMMA Fixed ==
    ASSUME data' = data, mf' = mf
    PROVE  /\ N' = N /\ cyc' = cyc /\ IsTree' = IsTree /\ PerSlot' = PerSlot
           /\ \A p, k : Has(p, k)' <=> Has(p, k)
           /\ \A p : /\ key2(p)' = key2(p) /\ key3(p)' = key3(p) /\ key4(p)' = key4(p)
                     /\ tree_limit(p)' = tree_limit(p) /\ Slot(p)' = Slot(p)
           /\ \A c, p : InWindow(c, p)' <=> InWindow(c, p)
           /\ \A c, s : Link(c, s)' = Link(c, s)
           /\ \A c, p, l : SameBytes(c, p, l)' <=> SameBytes(c, p, l)
           /\ \A c, p, m, l : Agree(c, p, m, l)' <=> Agree(c, p, m, l)
<1>1. N' = N /\ IsTree' = IsTree
  BY DEF N, IsTree
<1>2. cyc' = cyc /\ PerSlot' = PerSlot
  BY <1>1 DEF cyc, PerSlot
<1>3. \A p, k : (Has(p, k)' <=> Has(p, k)) /\ Bytes(p, k)' = Bytes(p, k)
  BY <1>1 DEF Has, Bytes
<1>4. \A p : /\ key2(p)' = key2(p) /\ key3(p)' = key3(p) /\ key4(p)' = key4(p)
             /\ tree_limit(p)' = tree_limit(p) /\ Slot(p)' = Slot(p)
  BY <1>1, <1>2, <1>3 DEF key2, key3, key4, tree_limit, Slot
<1>5. \A c, s : Link(c, s)' = Link(c, s)
  BY <1>2 DEF Link, Slot
<1>6. \A c, p, l : SameBytes(c, p, l)' <=> SameBytes(c, p, l)
  BY DEF SameBytes
<1>7. \A c, p, m, l : Agree(c, p, m, l)' <=> Agree(c, p, m, l)
  BY <1>6 DEF Agree
<1>8. \A c, p : InWindow(c, p)' <=> InWindow(c, p)
  BY DEF InWindow
<1> QED
  BY <1>1, <1>2, <1>3, <1>4, <1>5, <1>6, <1>7, <1>8

\* Keys are keys.
LEMMA KeyTypes ==
    ASSUME TypeOK, NEW p \in Nat
    PROVE  /\ Has(p, 2) => key2(p) \in [1 .. 2 -> Byte]
           /\ Has(p, 3) => key3(p) \in Slots3
           /\ Has(p, 4) => key4(p) \in Slots4
<1>1. data \in Seq(Byte) /\ N \in Nat /\ N = Len(data)
  BY InputType DEF N
<1>2. ASSUME NEW k \in 1 .. 4, Has(p, k) PROVE Bytes(p, k) \in [1 .. k -> Byte]
  BY <1>1, <1>2 DEF Has, Bytes
<1> QED
  BY <1>2, ConstantAssumption DEF key2, key3, key4

\* Bytes that are the same have the same keys.
LEMMA SameKeys ==
    ASSUME TypeOK, NEW c \in Nat, NEW p \in Nat, NEW l \in Nat, SameBytes(c, p, l)
    PROVE  /\ l >= 2 => key2(c) = key2(p)
           /\ l >= 3 => key3(c) = key3(p)
<1>1. ASSUME NEW k \in 1 .. 3, l >= k PROVE Bytes(c, k) = Bytes(p, k)
  <2> SUFFICES ASSUME NEW i \in 1 .. k PROVE data[c + i] = data[p + i]
    BY DEF Bytes
  <2>1. i - 1 \in 0 .. l - 1 /\ c + (i - 1) + 1 = c + i /\ p + (i - 1) + 1 = p + i
    BY <1>1
  <2>2. data[c + (i - 1) + 1] = data[p + (i - 1) + 1]
    BY <2>1 DEF SameBytes
  <2> QED
    BY <2>1, <2>2
<1> QED
  BY <1>1 DEF key2, key3

\* The comparison of two strings finds where they differ.
LEMMA MatchLen ==
    ASSUME NEW c, NEW p, NEW max \in Nat
    PROVE  match_len(c, p, max) \in 0 .. max /\ Agree(c, p, max, match_len(c, p, max))
<1> SUFFICES \E len \in 0 .. max : Agree(c, p, max, len)
  BY DEF match_len
<1> DEFINE Ends == {k \in 0 .. max : k = max \/ data[c + k + 1] # data[p + k + 1]}
<1>1. max \in Ends /\ Ends \in SUBSET Nat
  OBVIOUS
<1>2. PICK len \in Ends : \A k \in Ends : len <= k
  <2> HIDE DEF Ends
  <2> QED
    BY <1>1, LeastNat
<1>3. len \in 0 .. max /\ (len < max => data[c + len + 1] # data[p + len + 1])
  BY <1>2
<1>4. SameBytes(c, p, len)
  <2> SUFFICES ASSUME NEW k \in 0 .. len - 1 PROVE data[c + k + 1] = data[p + k + 1]
    BY DEF SameBytes
  <2>1. k \in 0 .. max /\ k < len
    BY <1>3
  <2>2. ~(k \in Ends)
    BY <2>1, <1>2
  <2> QED
    BY <2>1, <2>2
<1> QED
  BY <1>3, <1>4 DEF Agree

LEMMA AgreeOnce ==
    ASSUME NEW c, NEW p, NEW max \in Nat, NEW k \in 0 .. max, NEW l \in 0 .. max,
           Agree(c, p, max, k), Agree(c, p, max, l)
    PROVE  k = l
  BY DEF Agree, SameBytes

\* Positions within reach of each other have slots of their own.
LEMMA RingSlotsDiffer ==
    ASSUME NEW w \in Nat \ {0}, NEW a \in Nat, NEW b \in Nat, a < b, b - a < w
    PROVE  a % w # b % w
<1> SUFFICES ASSUME a % w = b % w PROVE FALSE
  OBVIOUS
<1>1. PICK x \in Int, y \in Int, r \in Int : a = w * x + r /\ b = w * y + r
  <2>1. a = w * (a \div w) + (a % w) /\ b = w * (b \div w) + (b % w)
    OBVIOUS
  <2>2. a \div w \in Int /\ b \div w \in Int /\ a % w \in Int
    OBVIOUS
  <2> QED
    BY <2>1, <2>2
<1>2. PICK q \in Int : q = y - x
  OBVIOUS
<1>3. b - a = w * q
  BY <1>1, <1>2
<1>4. q >= 1
  BY <1>3
<1>5. w * q = w + w * (q - 1) /\ w * (q - 1) >= 0
  BY <1>4
<1> QED
  BY <1>3, <1>5

\* Positions in the window of one position have slots of their own.
LEMMA ReachSlots ==
    ASSUME TypeOK, NEW i \in Nat, NEW c \in 1 .. N, NEW d \in 1 .. N, c # d,
           InWindow(c, i), InWindow(d, i), c <= i + 1, d <= i + 1
    PROVE  Slot(c) # Slot(d)
<1>1. N \in Nat
  BY InputType
<1>2. ASSUME NEW x \in 1 .. N, NEW y \in 1 .. N, x < y, InWindow(x, i), y <= i + 1
      PROVE  Slot(x) # Slot(y)
  <2>1. y - x <= mf.window /\ y - x <= N
    BY <1>1, <1>2, CycType DEF InWindow
  <2>2. PICK p \in Nat, q \in Nat : p = x - 1 /\ q = y - 1 /\ p < q /\ q - p < cyc
    BY <2>1, <1>1, <1>2, CycType
  <2> QED
    BY <2>2, RingSlotsDiffer, CycType DEF Slot
<1>3. c < d \/ d < c
  BY <1>1
<1> QED
  BY <1>2, <1>3

LEMMA SlotType == ASSUME TypeOK, NEW c \in 1 .. N PROVE Slot(c) \in 0 .. cyc - 1
<1>1. c - 1 \in Nat
  BY InputType
<1> QED
  BY <1>1, CycType DEF Slot

\* Every node has its links to itself.
LEMMA NodeSlots ==
    ASSUME TypeOK
    PROVE  /\ \A c \in Nodes : /\ c \in 1 .. N /\ c <= Root /\ InWindow(c, indexed)
                               /\ Slot(c) \in 0 .. cyc - 1
           /\ \A c, d \in Nodes : c # d => Slot(c) # Slot(d)
<1>1. N \in Nat /\ indexed \in Nat
  BY InputType DEF TypeOK
<1>2. \A c \in Nodes : c \in 1 .. N /\ c <= Root /\ InWindow(c, indexed)
  BY <1>1 DEF Nodes, Root
<1> QED
  BY <1>1, <1>2, SlotType, ReachSlots DEF Root

LEMMA NodeLinks ==
    ASSUME TypeOK, IsTree
    PROVE  /\ PerSlot = 2 /\ cyc \in Nat
           /\ \A c \in Nodes : \A s \in 0 .. 1 : Link(c, s) \in 0 .. cyc * PerSlot - 1
           /\ \A c, d \in Nodes : \A s, t \in 0 .. 1 :
                Link(c, s) = Link(d, t) => c = d /\ s = t
<1>1. PerSlot = 2 /\ cyc \in Nat
  BY CycType DEF PerSlot
<1>2. \A c \in Nodes : Slot(c) \in 0 .. cyc - 1
  BY NodeSlots
<1>3. \A x \in 0 .. cyc - 1, s \in 0 .. 1 : 2 * x + s \in 0 .. cyc * 2 - 1
  BY <1>1
<1>4. \A c \in Nodes : \A s \in 0 .. 1 : Link(c, s) \in 0 .. cyc * PerSlot - 1
  BY <1>1, <1>2, <1>3 DEF Link
<1>5. ASSUME NEW c \in Nodes, NEW d \in Nodes, NEW s \in 0 .. 1, NEW t \in 0 .. 1,
             Link(c, s) = Link(d, t)
      PROVE  c = d /\ s = t
  <2>1. PICK x \in Int, y \in Int : x = Slot(c) /\ y = Slot(d) /\ 2 * x + s = 2 * y + t
    BY <1>1, <1>2, <1>5 DEF Link
  <2>2. x = y /\ s = t
    BY <2>1
  <2> QED
    BY <2>1, <2>2, NodeSlots
<1> QED
  BY <1>1, <1>4, <1>5
-----------------------------------------------------------------------------
(* Links go back: the start, and the steps that touch no table.            *)

LEMMA InitLinks == Init => LinkInv
<1> SUFFICES ASSUME Init PROVE LinkInv
  OBVIOUS
<1>1. data \in Inputs /\ N \in Nat
  BY ConstantAssumption DEF Init, N
<1>2. /\ mf \in MatchFinder /\ mf.nice_len \in Nat \ {0} /\ mf.nice_len <= MAX_LEN
      /\ MAX_LEN \in Nat
  <2>1. PICK f \in Finders : mf = [f EXCEPT !.nice_len = Smaller(f.nice_len, MAX_LEN)]
    BY DEF Init
  <2>2. f \in MatchFinder /\ f.nice_len > 0 /\ MAX_LEN \in Nat \ {0}
    BY ConstantAssumption
  <2>3. PICK n \in Nat \ {0} : n = Smaller(f.nice_len, MAX_LEN) /\ n <= MAX_LEN
    BY <2>2 DEF Smaller, MatchFinder
  <2> QED
    BY <2>1, <2>2, <2>3 DEF MatchFinder
<1>3. links \in [0 .. cyc * PerSlot - 1 -> Nat] /\ \A i \in 0 .. cyc * PerSlot - 1 : links[i] = 0
  BY DEF Init, PerSlot, NONE
<1>4. TypeOK
  <2>1. /\ head2 \in [[1 .. 2 -> Byte] -> Nat]
        /\ head3 \in [Slots3 -> Nat] /\ head4 \in [Slots4 -> Nat]
    BY DEF Init, NONE
  <2>2. out \in Seq(Entry)
    BY DEF Init
  <2>3. indexed \in 0 .. N /\ record \in BOOLEAN
    <3>1. indexed = 0 /\ 0 \in 0 .. N
      BY <1>1 DEF Init
    <3>2. record \in BOOLEAN
      BY DEF Init
    <3> QED
      BY <3>1, <3>2
  <2> QED
    BY <1>1, <1>2, <1>3, <2>1, <2>2, <2>3 DEF Init, TypeOK, NONE
<1>5. Control /\ Heads /\ Walking
  BY <1>1 DEF Init, Control, Heads, Walking, NONE
<1>6. Back
  <2>1. Nodes = {}
    BY <1>1 DEF Init, Nodes
  <2>2. indexed = 0
    BY DEF Init
  <2> QED
    BY <2>1, <2>2, <1>3 DEF Back
<1> QED
  BY <1>4, <1>5, <1>6 DEF LinkInv

\* Outside walks Heads and Back depend on the tables only.
LEMMA TablesKept ==
    ASSUME LinkInv, UNCHANGED <<data, mf, tables, links, indexed>>, pc # "walk", pc' # "walk"
    PROVE  Heads' /\ Back' /\ Walking' /\ Nodes' = Nodes
<1>1. UNCHANGED <<head2, head3, head4>>
  BY DEF tables
<1>2. Nodes' = Nodes
  BY Fixed DEF Nodes
<1>3. Heads'
  BY <1>1, Fixed DEF LinkInv, Heads
<1>4. Back'
  BY <1>2, Fixed DEF LinkInv, Back
<1> QED
  BY <1>2, <1>3, <1>4 DEF Walking

\* What a match adds to what was found.
LEMMA ReportedType ==
    ASSUME out \in Seq(Entry), NEW len \in Nat, NEW dist \in Nat
    PROVE  /\ Reported(len, dist) \in Seq(Entry) /\ Len(Reported(len, dist)) = Len(out) + 1
           /\ Reported(len, dist)[Len(out) + 1] = [len |-> len, dist |-> dist]
           /\ \A i \in 1 .. Len(out) : Reported(len, dist)[i] = out[i]
<1>1. [len |-> len, dist |-> dist] \in Entry
  BY DEF Entry
<1> QED
  BY <1>1 DEF Reported

\* Extending the last match leaves the others.
LEMMA ExtendedType ==
    ASSUME TypeOK, at < N, NEW m \in Seq(Entry)
    PROVE  /\ Extended(m) \in Seq(Entry) /\ Len(Extended(m)) = Len(m)
           /\ \A i \in 1 .. Len(m) :
                i # Len(m) \/ ~(m[i].len = tree_limit(at) /\ tree_limit(at) < max_len)
                  => Extended(m)[i] = m[i]
           /\ m # <<>> /\ m[Len(m)].len = tree_limit(at) /\ tree_limit(at) < max_len
                => Extended(m)[Len(m)] =
                     [len  |-> match_len(at - m[Len(m)].dist, at, max_len),
                      dist |-> m[Len(m)].dist]
<1>1. max_len \in Nat /\ m \in Seq(Entry) /\ Len(m) \in Nat
  <2>1. N \in Nat /\ at \in Nat /\ MAX_LEN \in Nat
    BY InputType, ConstantAssumption DEF TypeOK
  <2> QED
    BY <2>1 DEF max_len, Smaller
<1> DEFINE last == m[Len(m)]
           longest == match_len(at - last.dist, at, max_len)
           Cut == m # <<>> /\ last.len = tree_limit(at) /\ tree_limit(at) < max_len
<1>2. longest \in Nat
  BY <1>1, MatchLen
<1>3. Extended(m) = IF Cut THEN [m EXCEPT ![Len(m)].len = longest] ELSE m
  BY DEF Extended
<1>4. CASE Cut
  <2>1. last \in Entry /\ Len(m) \in 1 .. Len(m)
    BY <1>1, <1>4
  <2>2. PICK e \in Entry : e = [len |-> longest, dist |-> last.dist]
    BY <2>1, <1>2 DEF Entry
  <2>3. [last EXCEPT !.len = longest] = e
    BY <2>1, <2>2 DEF Entry
  <2>4. Extended(m) = [m EXCEPT ![Len(m)] = e]
    BY <1>3, <1>4, <2>3
  <2> HIDE DEF last, longest, Cut
  <2>5. /\ [m EXCEPT ![Len(m)] = e] \in Seq(Entry)
        /\ Len([m EXCEPT ![Len(m)] = e]) = Len(m)
        /\ [m EXCEPT ![Len(m)] = e][Len(m)] = e
        /\ \A i \in 1 .. Len(m) : i # Len(m) => [m EXCEPT ![Len(m)] = e][i] = m[i]
    BY <1>1, <2>1, <2>2
  <2> QED
    BY <1>4, <2>2, <2>4, <2>5 DEF last, longest, Cut
<1>5. CASE ~Cut
  BY <1>1, <1>3, <1>5
<1> QED
  BY <1>4, <1>5

LEMMA FindLinks == ASSUME LinkInv, NEW p \in 0 .. N - 1, find(p) PROVE LinkInv'
<1>1. /\ pc = "idle" /\ pc' = "index" /\ p >= indexed /\ at' = p /\ out' = <<>> /\ best' = 0
      /\ UNCHANGED <<data, mf, tables, links, indexed, candidate, budget, record, after_link,
                     before_link, after_len, before_len>>
  BY DEF find, walk
<1>2. Heads' /\ Back' /\ Walking'
  BY <1>1, TablesKept
<1>3. N \in Nat /\ TypeOK
  BY InputType DEF LinkInv
<1>4. TypeOK'
  BY <1>1, <1>3, Fixed DEF TypeOK, tables
<1>5. Control'
  BY <1>1, <1>3, Fixed DEF Control, TypeOK
<1> QED
  BY <1>2, <1>4, <1>5 DEF LinkInv

LEMMA BeginSearchLinks == ASSUME LinkInv, BeginSearch PROVE LinkInv'
<1>1. /\ pc = "index" /\ pc' = "short2" /\ indexed = at /\ best' = 1
      /\ UNCHANGED <<data, mf, tables, links, indexed, at, out, candidate, budget, record,
                     after_link, before_link, after_len, before_len>>
  BY DEF BeginSearch, walk
<1>2. Heads' /\ Back' /\ Walking'
  BY <1>1, TablesKept
<1>3. TypeOK' /\ Control'
  BY <1>1, Fixed DEF LinkInv, TypeOK, Control, tables
<1> QED
  BY <1>2, <1>3 DEF LinkInv

\* A candidate is a position before the one searched.
LEMMA HeadIsBefore ==
    ASSUME LinkInv, pc \in {"short2", "short3", "long"}
    PROVE  /\ N \in Nat /\ at \in Nat /\ at < N /\ indexed = at /\ max_len \in Nat
           /\ max_len <= MAX_LEN /\ max_len <= N - at
           /\ Short2 \in Nat /\ Short2 <= at
           /\ Short3 \in Nat /\ Short3 <= at
           /\ max_len >= 2 => Has(at, 2) /\ Short2 = head2[key2(at)]
           /\ max_len >= 3 => Has(at, 3) /\ Short3 = head3[key3(at)]
<1>1. /\ N \in Nat /\ at \in Nat /\ at < N /\ indexed = at
  BY InputType DEF LinkInv, TypeOK, Control
<1>2. max_len \in Nat /\ max_len <= MAX_LEN /\ max_len <= N - at /\ MAX_LEN \in Nat
  BY <1>1, ConstantAssumption DEF max_len, Smaller
<1>3. (max_len >= 2 => Has(at, 2)) /\ (max_len >= 3 => Has(at, 3))
  BY <1>1, <1>2 DEF Has
<1>4. Short2 \in Nat /\ Short2 <= at
  <2>1. max_len >= 2 => key2(at) \in [1 .. 2 -> Byte]
    BY <1>1, <1>3, KeyTypes DEF LinkInv
  <2> QED
    BY <2>1, <1>1 DEF Short2, NONE, LinkInv, TypeOK, Heads
<1>5. Short3 \in Nat /\ Short3 <= at
  <2>1. max_len >= 3 => key3(at) \in Slots3
    BY <1>1, <1>3, KeyTypes DEF LinkInv
  <2> QED
    BY <2>1, <1>1 DEF Short3, NONE, LinkInv, TypeOK, Heads
<1> QED
  BY <1>1, <1>2, <1>3, <1>4, <1>5 DEF Short2, Short3

LEMMA TryShortLinks ==
    ASSUME LinkInv, NEW here, NEW next, NEW c \in Nat, TryShort(here, next, c), c <= at,
           here \in {"short2", "short3"}, next \in {"short3", "long"}
    PROVE  LinkInv'
<1>1. /\ pc = here /\ pc' = next
      /\ UNCHANGED <<data, mf, tables, links, indexed, at, candidate, budget, record,
                     after_link, before_link, after_len, before_len>>
  BY DEF TryShort, walk
<1>2. Heads' /\ Back' /\ Walking'
  BY <1>1, TablesKept
<1>3. max_len \in Nat /\ at \in Nat
  BY <1>1, HeadIsBefore
<1>4. out' \in Seq(Entry) /\ best' \in Nat
  <2> DEFINE len == match_len(c - 1, at, max_len)
  <2>1. len \in Nat
    BY <1>3, MatchLen
  <2>2. \/ out' = out /\ best' = best
        \/ c # NONE /\ out' = Reported(len, at - (c - 1)) /\ best' = len
    BY DEF TryShort
  <2> HIDE DEF len
  <2>3. at - (c - 1) \in Nat
    BY <1>3
  <2>4. Reported(len, at - (c - 1)) \in Seq(Entry)
    BY <2>1, <2>3, ReportedType DEF LinkInv, TypeOK
  <2> QED
    BY <2>1, <2>2, <2>4 DEF LinkInv, TypeOK
<1>5. TypeOK' /\ Control'
  BY <1>1, <1>4, Fixed DEF LinkInv, TypeOK, Control, tables
<1> QED
  BY <1>2, <1>5 DEF LinkInv

LEMMA TryShortsLinks == ASSUME LinkInv, TryShort2 \/ TryShort3 PROVE LinkInv'
<1>1. CASE TryShort2
  <2>1. pc = "short2"
    BY <1>1 DEF TryShort2, TryShort
  <2>2. Short2 \in Nat /\ Short2 <= at
    BY <2>1, HeadIsBefore
  <2> QED
    BY <1>1, <2>2, TryShortLinks DEF TryShort2
<1>2. CASE TryShort3
  <2>1. pc = "short3"
    BY <1>2 DEF TryShort3, TryShort
  <2>2. PICK c \in Nat : c = (IF Short3 = Short2 THEN NONE ELSE Short3) /\ c <= at
    BY <2>1, HeadIsBefore DEF NONE
  <2>3. TryShort("short3", "long", c)
    BY <1>2, <2>2 DEF TryShort3
  <2> QED
    BY <2>2, <2>3, TryShortLinks
<1> QED
  BY <1>1, <1>2

LEMMA BeginChainLinks == ASSUME LinkInv, BeginChain PROVE LinkInv'
<1>1. /\ pc = "long" /\ pc' = "chain" /\ ~IsTree /\ max_len >= 4
      /\ candidate' = head4[key4(at)] /\ budget' = mf.depth
      /\ UNCHANGED <<data, mf, tables, links, indexed, at, out, best, record, after_link,
                     before_link, after_len, before_len>>
  BY DEF BeginChain, walk
<1>2. Heads' /\ Back' /\ Walking'
  BY <1>1, TablesKept
<1>3. Has(at, 4) /\ at \in Nat
  BY <1>1, HeadIsBefore DEF Has
<1>4. candidate' \in Nat /\ budget' \in Nat /\ candidate' <= at
  <2>1. key4(at) \in Slots4 /\ indexed = at
    BY <1>1, <1>3, KeyTypes DEF LinkInv, Control
  <2>2. head4[key4(at)] \in Nat /\ head4[key4(at)] <= at
    BY <2>1, <1>1, <1>3 DEF LinkInv, TypeOK, Heads, NONE
  <2> QED
    BY <2>2, <1>1, CycType DEF LinkInv
<1>5. TypeOK' /\ Control'
  BY <1>1, <1>3, <1>4, Fixed DEF LinkInv, TypeOK, Control, tables
<1> QED
  BY <1>2, <1>5 DEF LinkInv

\* A candidate of a chain is before the position searched.
LEMMA ChainCandidate ==
    ASSUME LinkInv, pc = "chain", ~ChainOver
    PROVE  /\ candidate - 1 \in 0 .. at - 1 /\ at \in Nat /\ at < N /\ N \in Nat /\ max_len \in Nat
           /\ links[(candidate - 1) % cyc] \in Nat
<1>1. /\ N \in Nat /\ at \in Nat /\ at < N /\ candidate \in Nat /\ ~IsTree
      /\ candidate # 0 /\ candidate <= at
  BY InputType DEF LinkInv, TypeOK, Control, ChainOver, NONE
<1>2. max_len \in Nat
  BY <1>1, ConstantAssumption DEF max_len, Smaller
<1>3. (candidate - 1) % cyc \in 0 .. cyc * PerSlot - 1
  <2>1. (candidate - 1) % cyc \in 0 .. cyc - 1
    BY <1>1, SlotType DEF Slot, LinkInv
  <2>2. PerSlot = 1 /\ cyc \in Nat
    BY <1>1, CycType DEF PerSlot, LinkInv
  <2> QED
    BY <2>1, <2>2
<1> QED
  BY <1>1, <1>2, <1>3 DEF LinkInv, TypeOK

LEMMA VisitChainLinks == ASSUME LinkInv, VisitChain PROVE LinkInv'
<1>1. /\ pc = "chain" /\ pc' = pc /\ ~ChainOver
      /\ UNCHANGED <<data, mf, tables, links, indexed, at, record, after_link,
                     before_link, after_len, before_len>>
  BY DEF VisitChain, walk
<1>2. Heads' /\ Back' /\ Walking'
  BY <1>1, TablesKept
<1>3. /\ candidate - 1 \in 0 .. at - 1 /\ at \in Nat /\ max_len \in Nat
      /\ links[(candidate - 1) % cyc] \in Nat /\ candidate \in Nat /\ candidate <= at
      /\ budget \in Nat /\ budget # 0
  BY <1>1, ChainCandidate DEF LinkInv, TypeOK, Control, ChainOver
<1> DEFINE len == match_len(candidate - 1, at, max_len)
           next == links[(candidate - 1) % cyc]
<1>4. len \in Nat /\ next \in Nat
  BY <1>3, MatchLen
<1>5. /\ \/ out' = Reported(len, at - (candidate - 1)) /\ best' = len
         \/ out' = out /\ best' = best
      /\ budget' = IF next >= candidate THEN 0 ELSE budget - 1
      /\ candidate' = IF next >= candidate THEN candidate ELSE next
  BY DEF VisitChain
<1> HIDE DEF len, next
<1>6. out' \in Seq(Entry) /\ best' \in Nat
  <2>1. at - (candidate - 1) \in Nat
    BY <1>3
  <2>2. Reported(len, at - (candidate - 1)) \in Seq(Entry)
    BY <2>1, <1>4, ReportedType DEF LinkInv, TypeOK
  <2> QED
    BY <1>4, <1>5, <2>2 DEF LinkInv, TypeOK
<1>7. candidate' \in Nat /\ candidate' <= at /\ budget' \in Nat
  BY <1>3, <1>4, <1>5
<1>8. TypeOK' /\ Control'
  BY <1>1, <1>6, <1>7, Fixed DEF LinkInv, TypeOK, Control, tables
<1> QED
  BY <1>2, <1>8 DEF LinkInv

-----------------------------------------------------------------------------
(* Links go back: a position gets into the tables.                         *)

\* The heads of its short strings point to it.
LEMMA ShortHeads ==
    ASSUME TypeOK, Heads, UNCHANGED <<data, mf>>, NEW p \in Nat, p = indexed,
           indexed' = p + 1, update_short_heads(p)
    PROVE  /\ head2' \in [[1 .. 2 -> Byte] -> Nat] /\ head3' \in [Slots3 -> Nat]
           /\ \A k \in [1 .. 2 -> Byte] : head2'[k] <= indexed'
           /\ \A h \in Slots3 : head3'[h] <= indexed'
<1>1. /\ \A k \in [1 .. 2 -> Byte] : head2[k] \in Nat /\ head2[k] <= p
      /\ \A h \in Slots3 : head3[h] \in Nat /\ head3[h] <= p
      /\ head2 \in [[1 .. 2 -> Byte] -> Nat] /\ head3 \in [Slots3 -> Nat]
  BY DEF TypeOK, Heads
<1>2. /\ head2' = head2 \/ head2' = [head2 EXCEPT ![key2(p)] = p + 1]
      /\ head3' = head3 \/ head3' = [head3 EXCEPT ![key3(p)] = p + 1]
  BY DEF update_short_heads
<1> QED
  BY <1>1, <1>2

\* A node after the step was one before, or is the position indexed.
LEMMA NodesNext ==
    ASSUME TypeOK, UNCHANGED <<data, mf>>, indexed' = indexed + 1, pc' # "walk"
    PROVE  /\ Nodes' \subseteq Nodes \cup {Root}
           /\ pc = "walk" => Nodes' \subseteq Nodes
           /\ Root \in Nodes' => Root \in 1 .. N /\ Has(indexed, 4)
           /\ \A c \in Nodes' : c \in 1 .. N /\ c <= indexed + 1 /\ InWindow(c, indexed + 1)
<1>1. N \in Nat /\ indexed \in Nat /\ N' = N /\ mf.window \in Nat
  BY InputType, CycType, Fixed DEF TypeOK
<1>2. \A c \in Nodes' : /\ c \in 1 .. N /\ Has(c - 1, 4) /\ InWindow(c, indexed + 1)
                        /\ c <= indexed + 1
  BY <1>1, Fixed DEF Nodes
<1>3. \A c \in 1 .. N : InWindow(c, indexed + 1) => InWindow(c, indexed)
  BY <1>1 DEF InWindow
<1>4. Root - 1 = indexed
  BY <1>1 DEF Root
<1>5. \A c \in 1 .. N : c <= indexed + 1 => c <= indexed \/ c = Root
  BY <1>1 DEF Root
<1>6. Nodes' \subseteq Nodes \cup {Root} /\ (pc = "walk" => Nodes' \subseteq Nodes)
  <2> SUFFICES ASSUME NEW c \in Nodes', c # Root \/ pc = "walk" PROVE c \in Nodes
    OBVIOUS
  <2>1. c \in 1 .. N /\ Has(c - 1, 4) /\ InWindow(c, indexed) /\ (c <= indexed \/ c = Root)
    BY <1>2, <1>3, <1>5
  <2> QED
    BY <2>1 DEF Nodes
<1> QED
  BY <1>2, <1>4, <1>6

\* It joins a chain, unless it is too close to the end.
LEMMA ChainInserted ==
    ASSUME LinkInv, UNCHANGED <<data, mf>>, NEW p \in Nat, p = indexed, p < N, ~IsTree,
           indexed' = p + 1, update_short_heads(p), chain_insert(p), pc # "walk", pc' # "walk"
    PROVE  /\ Heads' /\ Back' /\ Walking'
           /\ head4' \in [Slots4 -> Nat] /\ links' \in [0 .. cyc * PerSlot - 1 -> Nat]
           /\ head2' \in [[1 .. 2 -> Byte] -> Nat] /\ head3' \in [Slots3 -> Nat]
           /\ indexed' \in 0 .. N
<1>1. TypeOK /\ Heads /\ Back /\ N \in Nat /\ PerSlot = 1 /\ cyc \in Nat \ {0}
  BY InputType, CycType DEF LinkInv, PerSlot
<1>2. /\ head2' \in [[1 .. 2 -> Byte] -> Nat] /\ head3' \in [Slots3 -> Nat]
      /\ \A k \in [1 .. 2 -> Byte] : head2'[k] <= indexed'
      /\ \A h \in Slots3 : head3'[h] <= indexed'
  BY <1>1, ShortHeads
<1>3. /\ head4 \in [Slots4 -> Nat] /\ links \in [0 .. cyc * PerSlot - 1 -> Nat]
      /\ \A h \in Slots4 : head4[h] # NONE =>
            head4[h] <= p /\ Has(head4[h] - 1, 4) /\ key4(head4[h] - 1) = h
      /\ \A i \in 0 .. cyc * PerSlot - 1 : links[i] <= p
      /\ \A c \in Nodes : links[Slot(c)] < c
  BY <1>1 DEF TypeOK, Heads, Back
<1>4. NONE = 0 /\ (p + 1) - 1 = p
  BY DEF NONE
<1>5. CASE Has(p, 4)
  <2>1. key4(p) \in Slots4 /\ p % cyc \in 0 .. cyc * PerSlot - 1
    BY <1>1, <1>5, KeyTypes
  <2>2. PICK old \in Nat : old = head4[key4(p)] /\ old <= p
    BY <2>1, <1>3, <1>4
  <2>3. links' = [links EXCEPT ![p % cyc] = old] /\ head4' = [head4 EXCEPT ![key4(p)] = p + 1]
    BY <2>2, <1>5 DEF chain_insert
  <2>4. head4' \in [Slots4 -> Nat] /\ links' \in [0 .. cyc * PerSlot - 1 -> Nat]
    <3>1. head4' \in [Slots4 -> Nat]
      <4>1. head4 \in [Slots4 -> Nat] /\ p + 1 \in Nat
        BY <1>3
      <4> QED
        BY <4>1, <2>3
    <3>2. links' \in [0 .. cyc * PerSlot - 1 -> Nat]
      <4> DEFINE I == 0 .. cyc * PerSlot - 1
      <4>1. links \in [I -> Nat] /\ links' = [links EXCEPT ![p % cyc] = old]
        BY <2>3, <1>3
      <4> HIDE DEF I
      <4>2. links' \in [I -> Nat]
        BY <4>1
      <4> QED
        BY <4>2 DEF I
    <3> QED
      BY <3>1, <3>2
  <2>5. Heads'
    <3> SUFFICES ASSUME NEW h \in Slots4, head4'[h] # NONE
                 PROVE  /\ head4'[h] <= indexed'
                        /\ Has(head4'[h] - 1, 4) /\ key4(head4'[h] - 1) = h
      BY <1>2, Fixed DEF Heads
    <3>1. CASE h = key4(p)
      BY <3>1, <2>1, <2>3, <1>3, <1>4, <1>5
    <3>2. CASE h # key4(p)
      <4>1. head4'[h] = head4[h] /\ head4[h] \in Nat
        BY <3>2, <2>3, <1>3
      <4> QED
        BY <4>1, <1>3
    <3> QED
      BY <3>1, <3>2
  <2>6. \A i \in 0 .. cyc * PerSlot - 1 : links'[i] <= indexed'
    BY <2>2, <2>3, <1>3
  <2>7. \A c \in Nodes' : links'[Slot(c)] < c
    <3> SUFFICES ASSUME NEW c \in Nodes' PROVE links'[Slot(c)] < c
      OBVIOUS
    <3>1. c \in Nodes \cup {Root} /\ c \in 1 .. N /\ c <= p + 1 /\ InWindow(c, p + 1)
      BY <1>1, NodesNext
    <3>2. Slot(c) \in 0 .. cyc * PerSlot - 1 /\ Slot(Root) = p % cyc
      BY <3>1, <1>1, SlotType DEF Slot, Root
    <3>3. CASE c = Root
      BY <3>2, <3>3, <2>1, <2>2, <2>3, <1>3 DEF Root
    <3>4. CASE c # Root
      <4>1. Root \in 1 .. N /\ InWindow(Root, p + 1) /\ Root <= p + 1 + 1 /\ c <= p + 1 + 1
        <5>1. p + 1 - ((p + 1) - 1) <= mf.window
          <6>1. c - 1 < p /\ p + 1 - (c - 1) <= mf.window
            BY <3>1, <3>4 DEF InWindow, Root
          <6> QED
            BY <6>1, <3>1, <1>1, CycType
        <5> QED
          BY <5>1, <3>1, <1>1 DEF InWindow, Root
      <4>2. Slot(c) # Slot(Root)
        BY <4>1, <3>1, <3>4, <1>1, ReachSlots
      <4>3. links'[Slot(c)] = links[Slot(c)]
        BY <4>2, <3>2, <2>3, <1>3
      <4> QED
        BY <4>3, <3>1, <3>4, <1>3
    <3> QED
      BY <3>3, <3>4
  <2> QED
    BY <2>4, <2>5, <2>6, <2>7, <1>1, <1>2, Fixed DEF Back, Walking
<1>6. CASE ~Has(p, 4)
  <2>1. head4' = head4 /\ links' = links
    BY <1>6 DEF chain_insert
  <2>2. Heads'
    BY <2>1, <1>2, <1>3, Fixed DEF Heads
  <2>3. Nodes' \subseteq Nodes
    BY <1>1, <1>6, NodesNext
  <2>4. Back'
    BY <2>1, <2>3, <1>3, Fixed DEF Back
  <2> QED
    BY <2>1, <2>2, <2>4, <1>1, <1>2, <1>3 DEF Walking
<1> QED
  BY <1>5, <1>6

LEMMA ChainInsertLinks == ASSUME LinkInv, IndexInChain \/ SkipChain \/ EndChain PROVE LinkInv'
<1>1. PICK p \in Nat : p = indexed /\ p < N /\ p <= at
  BY InputType DEF LinkInv, TypeOK, Control, IndexInChain, SkipChain, EndChain
<1>2. /\ UNCHANGED <<data, mf, at, out, best, candidate, budget, record, after_link,
                     before_link, after_len, before_len>>
      /\ pc # "walk" /\ pc' \in {"idle", "index"} /\ pc' # "walk" /\ ~IsTree
  BY DEF IndexInChain, SkipChain, EndChain, Return, search, walk, LinkInv, Control
<1>3. update_short_heads(p) /\ chain_insert(p) /\ indexed' = p + 1
  <2>1. CASE IndexInChain
    BY <1>1, <2>1 DEF IndexInChain
  <2>2. CASE SkipChain \/ EndChain
    <3>1. at = p
      BY <1>1, <2>2 DEF LinkInv, Control, SkipChain, EndChain
    <3> QED
      BY <3>1, <2>2 DEF SkipChain, EndChain, Return
  <2> QED
    BY <2>1, <2>2
<1>4. /\ Heads' /\ Back' /\ Walking'
      /\ head4' \in [Slots4 -> Nat] /\ links' \in [0 .. cyc * PerSlot - 1 -> Nat]
      /\ head2' \in [[1 .. 2 -> Byte] -> Nat] /\ head3' \in [Slots3 -> Nat]
      /\ indexed' \in 0 .. N
  BY <1>1, <1>2, <1>3, ChainInserted
<1>5. TypeOK'
  BY <1>2, <1>4, Fixed DEF LinkInv, TypeOK
<1>6. Control'
  <2>1. pc' = "index" => pc = "index" /\ p < at
    BY <1>1 DEF IndexInChain, SkipChain, EndChain, Return
  <2>2. at < N /\ at \in Nat
    BY <1>1, <2>1 DEF LinkInv, TypeOK, Control, IndexInChain, SkipChain, EndChain
  <2> QED
    BY <2>1, <2>2, <1>1, <1>2, <1>3, Fixed DEF Control
<1> QED
  BY <1>4, <1>5, <1>6 DEF LinkInv

\* A position too close to the end is in no tree.
LEMMA NowhereLinks == ASSUME LinkInv, IndexNowhere \/ SkipTree PROVE LinkInv'
<1>1. PICK p \in Nat : p = indexed /\ p < N /\ p <= at /\ at \in Nat /\ at < N
  BY InputType DEF LinkInv, TypeOK, Control, IndexNowhere, SkipTree
<1>2. /\ UNCHANGED <<data, mf, head4, links, at, best, candidate, budget, record, after_link,
                     before_link, after_len, before_len>>
      /\ pc # "walk" /\ pc' \in {"idle", "index"} /\ pc' # "walk" /\ IsTree
      /\ ~Has(p, 4) /\ update_short_heads(p) /\ indexed' = p + 1
      /\ pc' = "index" => p < at
  <2>1. CASE IndexNowhere
    BY <1>1, <2>1 DEF IndexNowhere, search, walk
  <2>2. CASE SkipTree
    <3>1. at = p
      BY <1>1, <2>2 DEF LinkInv, Control, SkipTree
    <3> QED
      BY <1>1, <3>1, <2>2 DEF SkipTree, LeaveWalk, walk
  <2> QED
    BY <2>1, <2>2
<1>3. /\ head2' \in [[1 .. 2 -> Byte] -> Nat] /\ head3' \in [Slots3 -> Nat]
      /\ \A k \in [1 .. 2 -> Byte] : head2'[k] <= indexed'
      /\ \A h \in Slots3 : head3'[h] <= indexed'
  BY <1>1, <1>2, ShortHeads DEF LinkInv
<1>4. \A h \in Slots4 : head4[h] # NONE => head4[h] \in Nat /\ head4[h] <= p + 1
  BY <1>1, <1>2 DEF LinkInv, TypeOK, Heads
<1>5. Heads'
  BY <1>1, <1>2, <1>3, <1>4, Fixed DEF LinkInv, Heads
<1>6. Nodes' \subseteq Nodes
  BY <1>1, <1>2, NodesNext DEF LinkInv
<1>7. Back'
  <2>1. \A i \in 0 .. cyc * PerSlot - 1 : links[i] \in Nat /\ links[i] <= p
    BY <1>1 DEF LinkInv, TypeOK, Back
  <2> QED
    BY <2>1, <1>1, <1>2, <1>6, Fixed DEF LinkInv, Back
<1>8. out' \in Seq(Entry)
  <2>1. CASE IndexNowhere
    BY <2>1 DEF IndexNowhere, search, LinkInv, TypeOK
  <2>2. CASE SkipTree
    <3>1. ~(indexed < at) /\ out' = Extended(out)
      BY <1>1, <2>2 DEF SkipTree, LeaveWalk, LinkInv, Control
    <3>2. Extended(out) \in Seq(Entry)
      BY <1>1, ExtendedType DEF LinkInv, TypeOK
    <3> QED
      BY <3>1, <3>2
  <2> QED
    BY <2>1, <2>2
<1>9. TypeOK'
  BY <1>1, <1>2, <1>3, <1>8, InputType, Fixed DEF LinkInv, TypeOK
<1>10. Control' /\ Walking'
  BY <1>1, <1>2, Fixed DEF LinkInv, Control, Walking
<1> QED
  BY <1>5, <1>7, <1>9, <1>10 DEF LinkInv

\* It becomes a root, and a walk sets out from the old root.
LEMMA BeginWalkLinks ==
    ASSUME LinkInv, NEW rec \in BOOLEAN, NEW seen \in Nat, NEW p \in Nat, p = indexed,
           BeginWalk(p, rec, seen), IsTree, Has(p, 4), pc # "walk", pc # "idle", p <= at,
           rec => p = at,
           UNCHANGED <<data, mf, head2, head3, links, indexed, at, out>>
    PROVE  LinkInv'
<1>1. /\ N \in Nat /\ TypeOK /\ p + 1 \in 1 .. N /\ at \in Nat /\ at < N
  BY InputType DEF LinkInv, TypeOK, Has, Control
<1>2. key4(p) \in Slots4 /\ (p + 1) - 1 = p /\ Root = p + 1
  BY <1>1, KeyTypes DEF Root
<1>3. /\ head4' = [head4 EXCEPT ![key4(p)] = p + 1]
      /\ candidate' = head4[key4(p)] /\ budget' = mf.depth /\ best' = seen /\ record' = rec
      /\ after_link' = 2 * (p % cyc) + 1 /\ before_link' = 2 * (p % cyc)
      /\ after_len' = 0 /\ before_len' = 0 /\ pc' = "walk"
  BY DEF BeginWalk
<1>4. /\ head4 \in [Slots4 -> Nat]
      /\ \A h \in Slots4 : head4[h] # NONE =>
            head4[h] <= p /\ Has(head4[h] - 1, 4) /\ key4(head4[h] - 1) = h
  BY DEF LinkInv, TypeOK, Heads
<1>5. candidate' \in Nat /\ candidate' <= p
  BY <1>2, <1>3, <1>4 DEF NONE
<1>6. p % cyc \in Nat
  BY CycType, <1>1
<1>7. TypeOK'
  <2>1. head4' \in [Slots4 -> Nat]
    <3>1. head4 \in [Slots4 -> Nat] /\ p + 1 \in Nat
      BY <1>4
    <3> QED
      BY <3>1, <1>3
  <2>2. record' \in BOOLEAN /\ budget' \in Nat /\ best' \in Nat
    BY <1>1, <1>3, CycType
  <2>3. /\ after_link' \in Nat /\ before_link' \in Nat /\ after_len' \in Nat
        /\ before_len' \in Nat
    BY <1>3, <1>6
  <2> QED
    BY <1>1, <1>3, <1>5, <2>1, <2>2, <2>3, Fixed DEF TypeOK
<1>8. 0 < tree_limit(p)
  BY <1>1, CycType DEF tree_limit, Smaller, Has
<1>9. Control'
  BY <1>1, <1>2, <1>3, <1>8, Fixed DEF Control
<1>10. Heads'
  <2> SUFFICES ASSUME NEW h \in Slots4, head4'[h] # NONE
               PROVE  /\ head4'[h] <= p \/ head4'[h] = p + 1
                      /\ Has(head4'[h] - 1, 4) /\ key4(head4'[h] - 1) = h
    BY <1>2, <1>3, Fixed DEF LinkInv, Heads, Root
  <2> QED
    BY <1>2, <1>3, <1>4
<1>11. \A c \in Nodes' : c \in Nodes \/ c = p + 1
  BY <1>1, <1>2, Fixed DEF Nodes, Root
<1>12. p + 1 \in Nodes'
  <2>1. InWindow(p + 1, p)
    BY <1>1, CycType DEF InWindow
  <2> QED
    BY <2>1, <1>1, <1>2, <1>3, Fixed DEF Nodes, Root
<1>13. Back'
  <2>1. \A i \in 0 .. cyc * PerSlot - 1 : links[i] \in Nat /\ links[i] <= p
    BY DEF LinkInv, TypeOK, Back
  <2>2. PerSlot = 2 /\ cyc \in Nat /\ Slot(p + 1) \in 0 .. cyc - 1
    BY <1>1, CycType, SlotType DEF PerSlot
  <2>3. /\ Link(p + 1, 0) \in 0 .. cyc * PerSlot - 1
        /\ Link(p + 1, 1) \in 0 .. cyc * PerSlot - 1
    BY <2>2 DEF Link
  <2>4. links[Link(p + 1, 0)] < p + 1 /\ links[Link(p + 1, 1)] < p + 1
    BY <2>1, <2>3
  <2> QED
    BY <2>1, <2>4, <1>11, Fixed DEF LinkInv, Back
<1>14. LooseEnds(p + 1, p + 1)'
  <2>1. Root' = p + 1 /\ Link(p + 1, 0)' = 2 * (p % cyc) /\ Link(p + 1, 1)' = 2 * (p % cyc) + 1
    BY <1>2, <1>6, Fixed DEF Root, Link, Slot
  <2> QED
    BY <2>1, <1>3, <1>5 DEF LooseEnds
<1>15. Walking'
  BY <1>12, <1>14 DEF Walking
<1> QED
  BY <1>7, <1>9, <1>10, <1>13, <1>15 DEF LinkInv

LEMMA BeginWalksLinks == ASSUME LinkInv, IndexInTree \/ BeginTree PROVE LinkInv'
<1>1. CASE IndexInTree
  <2>1. PICK p \in Nat : p = indexed
    BY InputType DEF LinkInv, TypeOK
  <2>2. /\ BeginWalk(p, FALSE, 0) /\ IsTree /\ Has(p, 4) /\ pc = "index" /\ p < at
        /\ UNCHANGED <<data, mf, head2, head3, links, indexed, at, out>>
    BY <1>1, <2>1 DEF IndexInTree
  <2>3. /\ pc # "walk" /\ pc # "idle" /\ p <= at /\ FALSE \in BOOLEAN /\ 0 \in Nat
    BY <2>1, <2>2 DEF LinkInv, TypeOK
  <2>4. FALSE => p = at
    OBVIOUS
  <2> QED
    BY <2>1, <2>2, <2>3, <2>4, BeginWalkLinks
<1>2. CASE BeginTree
  <2>1. PICK p \in Nat : p = indexed /\ p = at
    BY <1>2 DEF BeginTree, LinkInv, TypeOK, Control
  <2>2. PICK rec \in BOOLEAN : rec = (best < tree_limit(at))
    <3>1. (best < tree_limit(at)) \in BOOLEAN
      OBVIOUS
    <3> QED
      BY <3>1, Zenon
  <2>3. /\ BeginWalk(p, rec, best) /\ IsTree /\ Has(p, 4) /\ pc = "long" /\ best \in Nat
        /\ UNCHANGED <<data, mf, head2, head3, links, indexed, at, out>>
    BY <1>2, <2>1, <2>2 DEF BeginTree, LinkInv, TypeOK
  <2>4. pc # "walk" /\ pc # "idle" /\ p <= at /\ (rec => p = at)
    BY <2>1, <2>3
  <2> QED
    BY <2>1, <2>3, <2>4, BeginWalkLinks
<1> QED
  BY <1>1, <1>2

-----------------------------------------------------------------------------
(* Links go back: the walk down a tree.                                    *)

\* What is known on a walk.
LEMMA OnWalk ==
    ASSUME LinkInv, pc = "walk"
    PROVE  /\ IsTree /\ N \in Nat /\ indexed \in Nat /\ Root \in 1 .. N /\ Root = indexed + 1
           /\ Has(indexed, 4) /\ at \in Nat /\ at < N /\ indexed <= at
           /\ tree_limit(indexed) \in Nat /\ Agreed \in Nat /\ Agreed < tree_limit(indexed)
           /\ Agreed <= before_len /\ Agreed <= after_len
           /\ before_len \in Nat /\ after_len \in Nat /\ candidate \in Nat
           /\ before_len < tree_limit(indexed) /\ after_len < tree_limit(indexed)
<1>1. /\ IsTree /\ N \in Nat /\ indexed \in Nat /\ Has(indexed, 4)
      /\ at \in Nat /\ at < N /\ indexed <= at /\ candidate \in Nat
      /\ before_len \in Nat /\ after_len \in Nat
      /\ before_len < tree_limit(indexed) /\ after_len < tree_limit(indexed)
  BY InputType DEF LinkInv, TypeOK, Control
<1>2. Root \in 1 .. N /\ Root = indexed + 1
  BY <1>1 DEF Has, Root
<1>3. tree_limit(indexed) \in Nat
  BY <1>1, CycType DEF tree_limit, Smaller, Has, LinkInv
<1>4. Agreed \in Nat /\ Agreed <= before_len /\ Agreed <= after_len
  BY <1>1 DEF Agreed, Smaller
<1> QED
  BY <1>1, <1>2, <1>3, <1>4

\* A candidate that is looked at is a node, older than both loose ends.
LEMMA CandidateIsNode ==
    ASSUME LinkInv, pc = "walk", ~WalkOver, NEW b \in Nodes, NEW a \in Nodes, LooseEnds(b, a)
    PROVE  /\ candidate \in Nodes /\ candidate \in 1 .. N /\ candidate <= indexed
           /\ candidate < b /\ candidate < a /\ pair = Link(candidate, 0)
           /\ pair + 1 = Link(candidate, 1)
           /\ \A s \in 0 .. 1 : links[Link(candidate, s)] \in Nat
           /\ \A s \in 0 .. 1 : links[Link(candidate, s)] < candidate
           /\ budget \in Nat \ {0}
<1>1. TypeOK /\ IsTree /\ N \in Nat /\ indexed \in Nat /\ Root \in 1 .. N /\ Root = indexed + 1
      /\ Has(indexed, 4)
  BY OnWalk DEF LinkInv
<1>2. candidate # 0 /\ candidate \in Nat /\ InWindow(candidate, indexed) /\ budget \in Nat \ {0}
  BY DEF WalkOver, NONE, LinkInv, TypeOK
<1>3. candidate < b /\ candidate < a /\ b <= Root /\ b \in 1 .. N
  BY <1>1, NodeSlots DEF LooseEnds
<1>4. candidate \in 1 .. N /\ candidate <= indexed
  BY <1>1, <1>2, <1>3
<1>5. Has(candidate - 1, 4)
  BY <1>1, <1>4 DEF Has
<1>6. candidate \in Nodes
  BY <1>2, <1>4, <1>5 DEF Nodes
<1>7. Slot(candidate) \in Nat
  BY <1>1, <1>6, NodeSlots, CycType
<1>8. pair = Link(candidate, 0) /\ pair + 1 = Link(candidate, 1)
  BY <1>7 DEF pair, Link, Slot
<1>9. \A s \in 0 .. 1 : links[Link(candidate, s)] \in Nat
  BY <1>1, <1>6, NodeLinks DEF TypeOK
<1>10. \A s \in 0 .. 1 : links[Link(candidate, s)] < candidate
  BY <1>1, <1>6 DEF LinkInv, Back
<1> QED
  BY <1>2, <1>3, <1>4, <1>6, <1>8, <1>9, <1>10

\* Bytes are compared from where they agree, up to the limit.
LEMMA WalkLenType ==
    ASSUME LinkInv, pc = "walk"
    PROVE  /\ WalkLen \in Nat /\ Agreed <= WalkLen /\ WalkLen <= tree_limit(indexed)
           /\ Agree(candidate - 1 + Agreed, indexed + Agreed, tree_limit(indexed) - Agreed,
                    WalkLen - Agreed)
<1>1. PICK limit \in Nat, known \in Nat :
        limit = tree_limit(indexed) /\ known = Agreed /\ known < limit
  BY OnWalk
<1>2. PICK c \in Int, p \in Int, max \in Nat :
        c = candidate - 1 + known /\ p = indexed + known /\ max = limit - known
  BY <1>1, OnWalk
<1>3. PICK len \in 0 .. max : len = match_len(c, p, max) /\ Agree(c, p, max, len)
  BY MatchLen
<1>4. WalkLen = known + len
  BY <1>1, <1>2, <1>3 DEF WalkLen
<1>5. WalkLen - known = len
  BY <1>4, <1>1, <1>3
<1> QED
  BY <1>1, <1>2, <1>3, <1>4, <1>5

\* The loose ends are two different links.
LEMMA EndsDiffer ==
    ASSUME LinkInv, pc = "walk", NEW b \in Nodes, NEW a \in Nodes, LooseEnds(b, a)
    PROVE  /\ before_link # after_link
           /\ before_link \in 0 .. cyc * PerSlot - 1 /\ after_link \in 0 .. cyc * PerSlot - 1
           /\ \A c \in Nodes : \A s \in 0 .. 1 :
                /\ Link(c, s) \in 0 .. cyc * PerSlot - 1
                /\ Link(c, s) = before_link => c = b /\ s = (IF b = Root THEN 0 ELSE 1)
                /\ Link(c, s) = after_link => c = a /\ s = (IF a = Root THEN 1 ELSE 0)
<1>1. TypeOK /\ IsTree
  BY OnWalk DEF LinkInv
<1>2. PICK s \in 0 .. 1, t \in 0 .. 1 :
        /\ s = (IF b = Root THEN 0 ELSE 1) /\ t = (IF a = Root THEN 1 ELSE 0)
        /\ before_link = Link(b, s) /\ after_link = Link(a, t)
  BY DEF LooseEnds
<1> QED
  BY <1>1, <1>2, NodeLinks

\* Both ends are tied to something older.
LEMMA EndsTied ==
    ASSUME LinkInv, pc = "walk", NEW b \in Nodes, NEW a \in Nodes, LooseEnds(b, a),
           NEW l \in Nat, NEW r \in Nat, l < b, r < a,
           \/ links' = [links EXCEPT ![before_link] = l, ![after_link] = r]
           \/ links' = [links EXCEPT ![after_link] = r, ![before_link] = l]
    PROVE  /\ links' \in [0 .. cyc * PerSlot - 1 -> Nat]
           /\ \A i \in 0 .. cyc * PerSlot - 1 :
                links'[i] = IF i = before_link THEN l ELSE IF i = after_link THEN r ELSE links[i]
           /\ \A i \in 0 .. cyc * PerSlot - 1 : links'[i] <= indexed
           /\ \A c \in Nodes : \A s \in 0 .. 1 : links'[Link(c, s)] < c
<1> DEFINE I == 0 .. cyc * PerSlot - 1
<1>1. /\ links \in [I -> Nat] /\ before_link \in I /\ after_link \in I
      /\ before_link # after_link /\ \A i \in I : links[i] <= indexed
      /\ b <= indexed + 1 /\ a <= indexed + 1 /\ b \in Nat /\ a \in Nat /\ indexed \in Nat
      /\ \A c \in Nodes : \A s \in 0 .. 1 : Link(c, s) \in I
  <2>1. /\ before_link \in I /\ after_link \in I /\ before_link # after_link
        /\ \A c \in Nodes : \A s \in 0 .. 1 : Link(c, s) \in I
    BY EndsDiffer
  <2>2. links \in [I -> Nat] /\ \A i \in I : links[i] <= indexed
    BY DEF LinkInv, TypeOK, Back
  <2>3. indexed \in Nat /\ Root = indexed + 1 /\ N \in Nat
    BY OnWalk
  <2>4. b <= indexed + 1 /\ a <= indexed + 1 /\ b \in Nat /\ a \in Nat
    BY <2>3, NodeSlots DEF LinkInv
  <2> QED
    BY <2>1, <2>2, <2>3, <2>4
<1> HIDE DEF I
<1>2. /\ links' \in [I -> Nat]
      /\ \A i \in I :
            links'[i] = IF i = before_link THEN l ELSE IF i = after_link THEN r ELSE links[i]
  BY <1>1
<1>3. \A i \in I : links'[i] <= indexed
  BY <1>1, <1>2
<1>4. \A c \in Nodes : \A s \in 0 .. 1 : links'[Link(c, s)] < c
  <2> SUFFICES ASSUME NEW c \in Nodes, NEW s \in 0 .. 1 PROVE links'[Link(c, s)] < c
    OBVIOUS
  <2>1. links[Link(c, s)] < c
    BY OnWalk DEF LinkInv, Back
  <2>2. (Link(c, s) = before_link => c = b) /\ (Link(c, s) = after_link => c = a)
    BY EndsDiffer
  <2> QED
    BY <2>1, <2>2, <1>1, <1>2
<1> QED
  BY <1>2, <1>3, <1>4 DEF I

\* The walk is over: its root is in the tables.
LEMMA LeaveWalkLinks ==
    ASSUME LinkInv, pc = "walk", NEW matches \in Seq(Entry), LeaveWalk(matches),
           best' \in Nat, UNCHANGED <<data, mf, head4, at, candidate, budget, record, after_link,
                                      before_link, after_len, before_len>>,
           links' \in [0 .. cyc * PerSlot - 1 -> Nat],
           \A i \in 0 .. cyc * PerSlot - 1 : links'[i] <= indexed,
           \A c \in Nodes : \A s \in 0 .. 1 : links'[Link(c, s)] < c
    PROVE  LinkInv'
<1>1. PICK p \in Nat : /\ p = indexed /\ p < N /\ p <= at /\ N \in Nat /\ TypeOK /\ IsTree
                       /\ at \in Nat /\ at < N /\ Root = p + 1
  BY OnWalk DEF LinkInv
<1>2. /\ update_short_heads(p) /\ indexed' = p + 1 /\ pc' \in {"idle", "index"} /\ pc' # "walk"
      /\ pc' = "index" => p < at /\ out' = matches
      /\ pc' = "idle" => out' = Extended(matches)
  BY <1>1 DEF LeaveWalk
<1>3. /\ head2' \in [[1 .. 2 -> Byte] -> Nat] /\ head3' \in [Slots3 -> Nat]
      /\ \A k \in [1 .. 2 -> Byte] : head2'[k] <= indexed'
      /\ \A h \in Slots3 : head3'[h] <= indexed'
  BY <1>1, <1>2, ShortHeads DEF LinkInv
<1>4. \A h \in Slots4 : head4[h] # NONE => head4[h] \in Nat /\ head4[h] <= p + 1
  <2>1. /\ head4 \in [Slots4 -> Nat]
        /\ \A h \in Slots4 : head4[h] # NONE => head4[h] <= p \/ head4[h] = p + 1
    BY <1>1 DEF LinkInv, TypeOK, Heads
  <2> SUFFICES ASSUME NEW h \in Slots4, head4[h] # NONE
               PROVE  head4[h] \in Nat /\ head4[h] <= p + 1
    OBVIOUS
  <2> QED
    BY <2>1
<1>5. Heads'
  BY <1>1, <1>2, <1>3, <1>4, Fixed DEF LinkInv, Heads
<1>6. Nodes' \subseteq Nodes
  BY <1>1, <1>2, NodesNext
<1>7. \A i \in 0 .. cyc * PerSlot - 1 : links'[i] <= p + 1
  BY <1>1
<1>8. Back'
  BY <1>1, <1>2, <1>6, <1>7, Fixed DEF Back
<1>9. out' \in Seq(Entry)
  <2>1. Extended(matches) \in Seq(Entry)
    BY <1>1, ExtendedType
  <2> QED
    BY <1>2, <2>1
<1>10. TypeOK'
  BY <1>1, <1>2, <1>3, <1>9, Fixed DEF TypeOK
<1>11. Control' /\ Walking'
  BY <1>1, <1>2, Fixed DEF LinkInv, Control, Walking
<1> QED
  BY <1>5, <1>8, <1>10, <1>11 DEF LinkInv

LEMMA CutOffLinks == ASSUME LinkInv, CutOff PROVE LinkInv'
<1>1. /\ pc = "walk" /\ links' = [links EXCEPT ![after_link] = NONE, ![before_link] = NONE]
      /\ LeaveWalk(out)
      /\ UNCHANGED <<data, mf, head4, at, best, candidate, budget, record, after_link,
                     before_link, after_len, before_len>>
  BY DEF CutOff, walk
<1>2. PICK b \in Nodes, a \in Nodes : LooseEnds(b, a)
  BY <1>1 DEF LinkInv, Walking
<1>3. 0 < b /\ 0 < a /\ NONE \in Nat /\ NONE = 0
  BY NodeSlots DEF LinkInv, NONE
<1>4. /\ links' \in [0 .. cyc * PerSlot - 1 -> Nat]
      /\ \A i \in 0 .. cyc * PerSlot - 1 : links'[i] <= indexed
      /\ \A c \in Nodes : \A s \in 0 .. 1 : links'[Link(c, s)] < c
  BY <1>1, <1>2, <1>3, EndsTied
<1>5. out \in Seq(Entry) /\ best' \in Nat
  BY <1>1 DEF LinkInv, TypeOK
<1> QED
  BY <1>1, <1>4, <1>5, LeaveWalkLinks

\* What a walk finds.
LEMMA FoundType ==
    ASSUME LinkInv, pc = "walk", ~WalkOver, NEW len \in Nat
    PROVE  /\ Found(len) \in Seq(Entry) /\ NewBest(len) \in Nat
           /\ out \in Seq(Entry) /\ indexed - (candidate - 1) \in Nat \ {0}
           /\ Found(len) = out \/ Found(len) = Reported(len, indexed - (candidate - 1))
<1>1. PICK b \in Nodes, a \in Nodes : LooseEnds(b, a)
  BY DEF LinkInv, Walking
<1>2. candidate <= indexed /\ candidate \in 1 .. N /\ indexed \in Nat
  BY <1>1, CandidateIsNode, OnWalk
<1>3. indexed - (candidate - 1) \in Nat \ {0}
  BY <1>2, OnWalk
<1>4. Reported(len, indexed - (candidate - 1)) \in Seq(Entry)
  BY <1>3, ReportedType DEF LinkInv, TypeOK
<1> QED
  BY <1>3, <1>4 DEF Found, NewBest, LinkInv, TypeOK

LEMMA TakeOverLinks == ASSUME LinkInv, TakeOver PROVE LinkInv'
<1>1. /\ pc = "walk" /\ ~WalkOver /\ best' = NewBest(WalkLen)
      /\ links' = [links EXCEPT ![before_link] = links[pair], ![after_link] = links[pair + 1]]
      /\ LeaveWalk(Found(WalkLen))
      /\ UNCHANGED <<data, mf, head4, at, candidate, budget, record, after_link,
                     before_link, after_len, before_len>>
  BY DEF TakeOver, walk
<1>2. PICK b \in Nodes, a \in Nodes : LooseEnds(b, a)
  BY <1>1 DEF LinkInv, Walking
<1>3. PICK l \in Nat, r \in Nat : l = links[pair] /\ r = links[pair + 1] /\ l < b /\ r < a
  <2>1. /\ links[pair] \in Nat /\ links[pair] < candidate
        /\ links[pair + 1] \in Nat /\ links[pair + 1] < candidate
    BY <1>1, <1>2, CandidateIsNode
  <2>2. candidate < b /\ candidate < a /\ candidate \in Nat /\ b \in Nat /\ a \in Nat
    BY <1>1, <1>2, CandidateIsNode, NodeSlots, OnWalk DEF LinkInv
  <2> QED
    BY <2>1, <2>2
<1>4. /\ links' \in [0 .. cyc * PerSlot - 1 -> Nat]
      /\ \A i \in 0 .. cyc * PerSlot - 1 : links'[i] <= indexed
      /\ \A c \in Nodes : \A s \in 0 .. 1 : links'[Link(c, s)] < c
  BY <1>1, <1>2, <1>3, EndsTied
<1>5. PICK len \in Nat : len = WalkLen
  BY <1>1, WalkLenType
<1>6. /\ Found(len) \in Seq(Entry) /\ NewBest(len) \in Nat
  BY <1>1, FoundType
<1>7. LeaveWalk(Found(len)) /\ best' \in Nat
  BY <1>1, <1>5, <1>6
<1> QED
  BY <1>1, <1>4, <1>6, <1>7, LeaveWalkLinks

\* A step down the tree: what it leaves alone, and what it finds.
LEMMA SteppedDown ==
    ASSUME LinkInv, NEW len \in Nat, len = WalkLen, StepDown(len)
    PROVE  /\ pc = "walk" /\ pc' = "walk" /\ ~WalkOver /\ len < tree_limit(indexed)
           /\ UNCHANGED <<data, mf, head2, head3, head4, indexed, at, record>>
           /\ out' \in Seq(Entry) /\ best' \in Nat /\ budget' \in Nat
           /\ Nodes' = Nodes /\ Root' = Root /\ Heads'
           /\ tree_limit(indexed)' = tree_limit(indexed)
<1>1. /\ pc = "walk" /\ pc' = "walk" /\ ~WalkOver /\ len < tree_limit(indexed)
      /\ UNCHANGED <<data, mf, head2, head3, head4, indexed, at, record>>
      /\ out' = Found(len) /\ best' = NewBest(len) /\ budget' = budget - 1
  BY DEF StepDown, tables
<1>2. budget \in Nat \ {0}
  BY <1>1 DEF WalkOver, LinkInv, TypeOK
<1>3. out' \in Seq(Entry) /\ best' \in Nat /\ budget' \in Nat
  BY <1>1, <1>2, FoundType
<1>4. Root' = Root
  BY <1>1 DEF Root
<1>5. Nodes' = Nodes
  BY <1>1, <1>4, Fixed DEF Nodes
<1>6. Heads'
  BY <1>1, <1>4, Fixed DEF LinkInv, Heads
<1>7. tree_limit(indexed)' = tree_limit(indexed)
  BY <1>1, Fixed
<1> QED
  BY <1>1, <1>3, <1>4, <1>5, <1>6, <1>7

\* One end is tied to the candidate, and one of the candidate's links is the
\* new end.
LEMMA StepDownLinks ==
    ASSUME LinkInv, NEW len \in Nat, len = WalkLen, StepDown(len),
           NEW b \in Nodes, NEW a \in Nodes, LooseEnds(b, a),
           NEW c \in Nat, c = candidate, NEW s \in 0 .. 1,
           candidate' = links[Link(c, s)],
           \/ /\ links' = [links EXCEPT ![before_link] = c] /\ s = 1
              /\ before_link' = Link(c, 1) /\ before_len' = len
              /\ UNCHANGED <<after_link, after_len>>
           \/ /\ links' = [links EXCEPT ![after_link] = c] /\ s = 0
              /\ after_link' = Link(c, 0) /\ after_len' = len
              /\ UNCHANGED <<before_link, before_len>>
    PROVE  /\ LinkInv'
           /\ s = 1 => LooseEnds(c, a)'
           /\ s = 0 => LooseEnds(b, c)'
<1>1. /\ pc = "walk" /\ pc' = "walk" /\ ~WalkOver /\ len < tree_limit(indexed)
      /\ UNCHANGED <<data, mf, head2, head3, head4, indexed, at, record>>
      /\ out' \in Seq(Entry) /\ best' \in Nat /\ budget' \in Nat
      /\ Nodes' = Nodes /\ Root' = Root /\ Heads'
      /\ tree_limit(indexed)' = tree_limit(indexed)
  BY SteppedDown
<1>2. /\ IsTree /\ N \in Nat /\ indexed \in Nat /\ Root = indexed + 1 /\ Has(indexed, 4)
      /\ before_len \in Nat /\ after_len \in Nat /\ TypeOK /\ at \in Nat /\ at < N
      /\ before_len < tree_limit(indexed) /\ after_len < tree_limit(indexed)
      /\ indexed <= at
  BY <1>1, OnWalk DEF LinkInv
<1>3. /\ c \in Nodes /\ c <= indexed /\ c < b /\ c < a
      /\ links[Link(c, s)] \in Nat /\ links[Link(c, s)] < c
  BY <1>1, CandidateIsNode
<1>4. /\ before_link # after_link
      /\ before_link \in 0 .. cyc * PerSlot - 1 /\ after_link \in 0 .. cyc * PerSlot - 1
      /\ \A d \in Nodes : \A t \in 0 .. 1 :
           /\ Link(d, t) \in 0 .. cyc * PerSlot - 1
           /\ Link(d, t) = before_link => d = b
           /\ Link(d, t) = after_link => d = a
  BY <1>1, EndsDiffer
<1>5. PICK e \in {before_link, after_link} : links' = [links EXCEPT ![e] = c]
  OBVIOUS
<1>6. /\ links' \in [0 .. cyc * PerSlot - 1 -> Nat]
      /\ \A i \in 0 .. cyc * PerSlot - 1 : links'[i] = IF i = e THEN c ELSE links[i]
  <2> DEFINE I == 0 .. cyc * PerSlot - 1
  <2>1. links \in [I -> Nat] /\ e \in I
    BY <1>2, <1>4 DEF TypeOK
  <2> HIDE DEF I
  <2>2. /\ links' \in [I -> Nat]
        /\ \A i \in I : links'[i] = IF i = e THEN c ELSE links[i]
    BY <2>1, <1>5
  <2> QED
    BY <2>2 DEF I
<1>7. Back'
  <2>1. \A i \in 0 .. cyc * PerSlot - 1 : links'[i] <= indexed
    BY <1>3, <1>6 DEF LinkInv, Back
  <2>2. ASSUME NEW d \in Nodes, NEW t \in 0 .. 1 PROVE links'[Link(d, t)] < d
    <3>1. links[Link(d, t)] < d
      BY <1>2 DEF LinkInv, Back
    <3>2. Link(d, t) = e => c < d
      BY <1>3, <1>4, <1>5
    <3> QED
      BY <3>1, <3>2, <1>4, <1>6
  <2> QED
    BY <2>1, <2>2, <1>1, <1>2, Fixed DEF Back
<1>8. \A d : \A t : Link(d, t)' = Link(d, t)
  BY <1>1, Fixed
<1>9. candidate' \in Nat /\ candidate' < c
  BY <1>3
<1>10. c # Root
  BY <1>2, <1>3
<1>11. a \in Nat /\ b \in Nat
  BY <1>2, NodeSlots
<1>12. s = 1 => LooseEnds(c, a)'
  <2> HAVE s = 1
  <2>1. before_link' = Link(c, 1) /\ before_len' = len /\ UNCHANGED <<after_link, after_len>>
    OBVIOUS
  <2> QED
    BY <2>1, <1>1, <1>3, <1>8, <1>9, <1>10, <1>11 DEF LooseEnds
<1>13. s = 0 => LooseEnds(b, c)'
  <2> HAVE s = 0
  <2>1. after_link' = Link(c, 0) /\ after_len' = len /\ UNCHANGED <<before_link, before_len>>
    OBVIOUS
  <2> QED
    BY <2>1, <1>1, <1>3, <1>8, <1>9, <1>10, <1>11 DEF LooseEnds
<1>14. Walking'
  <2>1. c \in Nodes' /\ a \in Nodes' /\ b \in Nodes'
    BY <1>1, <1>3
  <2>2. s = 0 \/ s = 1
    OBVIOUS
  <2> QED
    BY <2>1, <2>2, <1>12, <1>13 DEF Walking
<1>15. /\ before_len' \in Nat /\ after_len' \in Nat
       /\ before_len' < tree_limit(indexed) /\ after_len' < tree_limit(indexed)
  BY <1>1, <1>2
<1>16. before_link' \in Nat /\ after_link' \in Nat
  <2>1. Link(c, 0) \in Nat /\ Link(c, 1) \in Nat
    BY <1>3, <1>4
  <2> QED
    BY <2>1, <1>2 DEF TypeOK
<1>17. TypeOK'
  BY <1>1, <1>2, <1>6, <1>9, <1>15, <1>16, Fixed DEF TypeOK
<1>18. Control'
  <2>1. IsTree' /\ Has(indexed, 4)' /\ N' = N
    BY <1>1, <1>2, Fixed
  <2>2. record' => indexed' = at'
    BY <1>1 DEF LinkInv, Control
  <2> QED
    BY <2>1, <2>2, <1>1, <1>2, <1>15 DEF Control
<1> QED
  BY <1>1, <1>7, <1>12, <1>13, <1>14, <1>17, <1>18 DEF LinkInv

\* Which way a step goes.
LEMMA StepsDown ==
    ASSUME LinkInv, WalkLeft \/ WalkRight, NEW b \in Nodes, NEW a \in Nodes, LooseEnds(b, a)
    PROVE  \E len, c \in Nat : \E s \in 0 .. 1 :
             /\ len = WalkLen /\ StepDown(len) /\ c = candidate
             /\ SortsBefore(len) <=> s = 1
             /\ candidate' = links[Link(c, s)]
             /\ \/ /\ links' = [links EXCEPT ![before_link] = c] /\ s = 1
                   /\ before_link' = Link(c, 1) /\ before_len' = len
                   /\ UNCHANGED <<after_link, after_len>>
                \/ /\ links' = [links EXCEPT ![after_link] = c] /\ s = 0
                   /\ after_link' = Link(c, 0) /\ after_len' = len
                   /\ UNCHANGED <<before_link, before_len>>
<1>1. pc = "walk" /\ ~WalkOver
  BY DEF WalkLeft, WalkRight, StepDown
<1>3. PICK len \in Nat : len = WalkLen
  BY <1>1, WalkLenType
<1>4. PICK c \in Nat : c = candidate /\ pair = Link(c, 0) /\ pair + 1 = Link(c, 1)
  BY <1>1, CandidateIsNode, OnWalk
<1>5. CASE WalkRight
  <2>1. /\ StepDown(len) /\ SortsBefore(len) /\ links' = [links EXCEPT ![before_link] = c]
        /\ before_link' = Link(c, 1) /\ candidate' = links[Link(c, 1)] /\ before_len' = len
        /\ UNCHANGED <<after_link, after_len>>
    BY <1>3, <1>4, <1>5 DEF WalkRight
  <2> WITNESS len \in Nat, c \in Nat
  <2> WITNESS 1 \in 0 .. 1
  <2> QED
    BY <2>1, <1>3, <1>4
<1>6. CASE WalkLeft
  <2>1. /\ StepDown(len) /\ ~SortsBefore(len) /\ links' = [links EXCEPT ![after_link] = c]
        /\ after_link' = Link(c, 0) /\ candidate' = links[Link(c, 0)] /\ after_len' = len
        /\ UNCHANGED <<before_link, before_len>>
    BY <1>3, <1>4, <1>6 DEF WalkLeft
  <2> WITNESS len \in Nat, c \in Nat
  <2> WITNESS 0 \in 0 .. 1
  <2> QED
    BY <2>1, <1>3, <1>4
<1> QED
  BY <1>5, <1>6

LEMMA WalkLinks == ASSUME LinkInv, WalkLeft \/ WalkRight PROVE LinkInv'
<1>1. PICK b \in Nodes, a \in Nodes : LooseEnds(b, a)
  BY DEF LinkInv, Walking, WalkLeft, WalkRight, StepDown
<1> QED
  BY <1>1, StepsDown, StepDownLinks

LEMMA StutterLinks == ASSUME LinkInv, UNCHANGED vars PROVE LinkInv'
<1>1. /\ UNCHANGED <<data, mf, pc, head2, head3, head4, links, indexed, at, out, best,
                     candidate, budget, record, after_link, before_link, after_len, before_len>>
  BY DEF vars
<1>2. Nodes' = Nodes /\ Root' = Root
  BY <1>1, Fixed DEF Nodes, Root
<1>3. TypeOK' /\ Control' /\ Heads'
  BY <1>1, <1>2, Fixed DEF LinkInv, TypeOK, Control, Heads
<1>4. Back'
  BY <1>1, <1>2, Fixed DEF LinkInv, Back
<1>5. \A b, a : LooseEnds(b, a) => LooseEnds(b, a)'
  BY <1>1, <1>2, Fixed DEF LooseEnds
<1>6. Walking'
  BY <1>1, <1>2, <1>5 DEF LinkInv, Walking
<1> QED
  BY <1>3, <1>4, <1>6 DEF LinkInv

LEMMA StepLinks == LinkInv /\ [Next]_vars => LinkInv'
<1> SUFFICES ASSUME LinkInv, [Next]_vars PROVE LinkInv'
  OBVIOUS
<1>1. ASSUME NEW p \in 0 .. N - 1, find(p) PROVE LinkInv'
  BY <1>1, FindLinks
<1>2. CASE IndexInChain \/ SkipChain \/ EndChain
  BY <1>2, ChainInsertLinks
<1>3. CASE IndexNowhere \/ SkipTree
  BY <1>3, NowhereLinks
<1>4. CASE IndexInTree \/ BeginTree
  BY <1>4, BeginWalksLinks
<1>5. CASE BeginSearch
  BY <1>5, BeginSearchLinks
<1>6. CASE TryShort2 \/ TryShort3
  BY <1>6, TryShortsLinks
<1>7. CASE BeginChain
  BY <1>7, BeginChainLinks
<1>8. CASE VisitChain
  BY <1>8, VisitChainLinks
<1>9. CASE CutOff
  BY <1>9, CutOffLinks
<1>10. CASE TakeOver
  BY <1>10, TakeOverLinks
<1>11. CASE WalkLeft \/ WalkRight
  BY <1>11, WalkLinks
<1>12. CASE UNCHANGED vars
  BY <1>12, StutterLinks
<1> QED
  BY <1>1, <1>2, <1>3, <1>4, <1>5, <1>6, <1>7, <1>8, <1>9, <1>10, <1>11, <1>12 DEF Next, Step

LEMMA LinksHold == Spec => []LinkInv
<1>1. Init => LinkInv
  BY InitLinks
<1>2. LinkInv /\ [Next]_vars => LinkInv'
  BY StepLinks
<1> QED
  BY <1>1, <1>2, PTL DEF Spec

\* Links go back in the data, whatever slot of the ring is taken again: every
\* walk down a tree and along a chain ends.
THEOREM LinksAlwaysGoBack == Spec => []LinksGoBack
<1>1. LinkInv => LinksGoBack
  <2> SUFFICES ASSUME LinkInv, NEW cand \in 1 .. N,
                      Alive(cand), Has(cand - 1, 4), cand <= indexed
               PROVE  IF IsTree THEN /\ links[2 * ((cand - 1) % cyc)] < cand
                                     /\ links[2 * ((cand - 1) % cyc) + 1] < cand
                                ELSE links[(cand - 1) % cyc] < cand
    BY DEF LinksGoBack
  <2>1. cand \in Nodes
    BY DEF Nodes, Alive
  <2>2. Slot(cand) = (cand - 1) % cyc /\ Slot(cand) \in Nat
    BY SlotType, CycType DEF Slot, LinkInv
  <2>3. Link(cand, 0) = 2 * ((cand - 1) % cyc) /\ Link(cand, 1) = 2 * ((cand - 1) % cyc) + 1
    BY <2>2 DEF Link
  <2> QED
    BY <2>1, <2>2, <2>3 DEF LinkInv, Back
<1> QED
  BY <1>1, LinksHold, PTL

-----------------------------------------------------------------------------
(* Trees are ordered: the invariant.  D[c] is a set of positions + 1 that  *)
(* contains the subtree under the node c, and while a walk splits a tree,  *)
(* whatever may still be hung below c.                                     *)

\* The first k bytes at two positions + 1.
Same(a, b, k) == \A i \in 0 .. k - 1 : data[a + i] = data[b + i]
Limit(c) == tree_limit(c - 1)

\* Side 0 is what sorts before, side 1 what sorts after.
Beyond(s, u, v) == IF s = 0 THEN u < v ELSE u > v
Sides(s, x, c) == IF s = 0 THEN SortsLeft(x, c) ELSE SortsRight(x, c)

\* A link that is a loose end of a walk holds nothing yet.
Loose(c, s) == pc = "walk" /\ Link(c, s) \in {before_link, after_link}

Sorted(D) ==
    \A c \in Nodes :
        /\ c \in D[c]
        /\ \A x \in D[c] : x <= c /\ key4(x - 1) = key4(c - 1)
        /\ \A s \in 0 .. 1 : ~Loose(c, s) /\ links[Link(c, s)] \in Nodes =>
             \A x \in D[links[Link(c, s)]] : x \in D[c] /\ Sides(s, x, c)

\* The node e whose link is the loose end for what goes to side s of the root:
\* it is on that side, and what is still to be split is beyond it.
End(D, s, e, len) ==
    /\ e # Root => Same(e, Root, len) /\ Beyond(s, data[e + len], data[Root + len])
    /\ candidate \in Nodes => \A x \in D[candidate] :
         /\ e # Root => Sides(1 - s, x, e)
         /\ Sides(s, x, Root) => x \in D[e]

Pending(D, b, a) ==
    /\ LooseEnds(b, a)
    /\ End(D, 0, b, before_len) /\ End(D, 1, a, after_len)
    /\ candidate \in Nodes => D[candidate] \subseteq D[Root]

Subtrees == [1 .. N -> SUBSET (1 .. N)]

Trees ==
    IsTree => \E D \in Subtrees :
        Sorted(D) /\ (pc = "walk" => \E b, a \in Nodes : Pending(D, b, a))

-----------------------------------------------------------------------------
(* Lemmas about the order of strings.                                      *)

LEMMA SameIs ==
    ASSUME NEW a \in Int, NEW b \in Int, NEW k \in Int
    PROVE  SameBytes(a - 1, b - 1, k) <=> Same(a, b, k)
<1>1. \A i \in 0 .. k - 1 : a - 1 + i + 1 = a + i /\ b - 1 + i + 1 = b + i
  OBVIOUS
<1> QED
  BY <1>1 DEF SameBytes, Same

\* Later positions are compared no further, and never past the data.
LEMMA Limits ==
    ASSUME TypeOK, NEW x \in 1 .. N, NEW c \in 1 .. N, x <= c
    PROVE  /\ Limit(x) \in Nat /\ Limit(c) \in Nat /\ Limit(c) <= Limit(x)
           /\ Limit(x) <= mf.nice_len /\ mf.nice_len \in Nat
           /\ \A k \in 0 .. Limit(c) - 1 : data[x + k] \in Nat /\ data[c + k] \in Nat
<1>1. N \in Nat /\ data \in Seq(Byte) /\ N = Len(data) /\ mf.nice_len \in Nat \ {0}
  BY InputType, CycType DEF N
<1>2. /\ Limit(x) \in Nat /\ Limit(c) \in Nat /\ Limit(c) <= Limit(x)
      /\ Limit(x) <= mf.nice_len /\ Limit(c) <= N - (c - 1)
  BY <1>1 DEF Limit, tree_limit, Smaller
<1>3. \A i \in 1 .. N : data[i] \in Nat
  <2> SUFFICES ASSUME NEW i \in 1 .. Len(data) PROVE data[i] \in Nat
    BY <1>1
  <2>1. data[i] \in Byte
    BY <1>1
  <2> QED
    BY <2>1, ConstantAssumption
<1>4. \A k \in 0 .. Limit(c) - 1 : x + k \in 1 .. N /\ c + k \in 1 .. N
  BY <1>1, <1>2
<1> QED
  BY <1>1, <1>2, <1>3, <1>4

LEMMA SidesAre ==
    ASSUME TypeOK, NEW s \in 0 .. 1, NEW x \in 1 .. N, NEW c \in 1 .. N
    PROVE  Sides(s, x, c) <=>
             \/ \E k \in 0 .. Limit(c) - 1 : Same(x, c, k) /\ Beyond(s, data[x + k], data[c + k])
             \/ Limit(c) < mf.nice_len /\ Same(x, c, Limit(c))
<1>1. x \in Int /\ c \in Int /\ Limit(c) \in Int
  BY Limits, InputType
<1>2. \A k \in Int : SameBytes(x - 1, c - 1, k) <=> Same(x, c, k)
  BY <1>1, SameIs
<1>3. Before(x, c) <=> \E k \in 0 .. Limit(c) - 1 : Same(x, c, k) /\ data[x + k] < data[c + k]
  BY <1>1, <1>2 DEF Before, Limit
<1>4. After(x, c) <=> \E k \in 0 .. Limit(c) - 1 : Same(x, c, k) /\ data[x + k] > data[c + k]
  BY <1>1, <1>2 DEF After, Limit
<1>5. AlikeToEnd(x, c) <=> Limit(c) < mf.nice_len /\ Same(x, c, Limit(c))
  BY <1>1, <1>2 DEF AlikeToEnd, Limit
<1> QED
  BY <1>3, <1>4, <1>5 DEF Sides, SortsLeft, SortsRight, Beyond

\* What is on one side of a node that is on that side of the root.
LEMMA SidesJoin ==
    ASSUME TypeOK, NEW s \in 0 .. 1, NEW x \in 1 .. N, NEW c \in 1 .. N, NEW r \in 1 .. N,
           x <= c, c <= r, Sides(s, x, c), NEW len \in Nat, len < Limit(r),
           Same(c, r, len), Beyond(s, data[c + len], data[r + len])
    PROVE  Sides(s, x, r)
<1>1. /\ Limit(r) \in Nat /\ Limit(c) \in Nat /\ Limit(r) <= Limit(c) /\ x <= r
      /\ \A k \in 0 .. Limit(r) - 1 : data[c + k] \in Nat /\ data[r + k] \in Nat
      /\ \A k \in 0 .. Limit(r) - 1 : data[x + k] \in Nat
  <2>1. x <= r
    BY InputType
  <2> QED
    BY <2>1, Limits
<1>2. PICK k \in Nat : /\ Same(x, c, k)
                       /\ k <= len => Beyond(s, data[x + k], data[c + k])
  BY <1>1, SidesAre
<1> SUFFICES \E j \in 0 .. Limit(r) - 1 : Same(x, r, j) /\ Beyond(s, data[x + j], data[r + j])
  BY SidesAre
<1>3. CASE k < len
  <2>1. k \in 0 .. Limit(r) - 1 /\ Same(x, r, k) /\ data[c + k] = data[r + k]
    <3>1. k \in 0 .. Limit(r) - 1 /\ k \in 0 .. len - 1 /\ \A i \in 0 .. k - 1 : i \in 0 .. len - 1
      BY <1>1, <1>3
    <3>2. data[c + k] = data[r + k] /\ \A i \in 0 .. k - 1 : data[c + i] = data[r + i]
      BY <3>1 DEF Same
    <3> QED
      BY <3>1, <3>2, <1>2 DEF Same
  <2> QED
    BY <2>1, <1>2, <1>3
<1>4. CASE k = len
  <2>1. k \in 0 .. Limit(r) - 1
    BY <1>1, <1>4
  <2>3. Same(x, r, k)
    BY <1>2, <1>4 DEF Same
  <2>2. Beyond(s, data[x + k], data[r + k])
    BY <2>1, <1>1, <1>2, <1>4 DEF Beyond
  <2> QED
    BY <2>1, <2>2, <2>3
<1>5. CASE k > len
  <2>1. len \in 0 .. Limit(r) - 1 /\ Same(x, r, len) /\ data[x + len] = data[c + len]
    <3>1. len \in 0 .. Limit(r) - 1 /\ len \in 0 .. k - 1 /\ \A i \in 0 .. len - 1 : i \in 0 .. k - 1
      BY <1>1, <1>5
    <3>2. data[x + len] = data[c + len] /\ \A i \in 0 .. len - 1 : data[x + i] = data[c + i]
      BY <3>1, <1>2 DEF Same
    <3> QED
      BY <3>1, <3>2 DEF Same
  <2> QED
    BY <2>1
<1> QED
  BY <1>3, <1>4, <1>5

\* What is on one side of a node the root cannot be told apart from.
LEMMA SidesAlike ==
    ASSUME TypeOK, NEW s \in 0 .. 1, NEW x \in 1 .. N, NEW c \in 1 .. N, NEW r \in 1 .. N,
           x <= c, c <= r, Sides(s, x, c), Same(c, r, Limit(r))
    PROVE  Sides(s, x, r)
<1>1. /\ Limit(r) \in Nat /\ Limit(c) \in Nat /\ Limit(r) <= Limit(c)
      /\ Limit(c) <= mf.nice_len /\ mf.nice_len \in Nat
  BY Limits
<1>2. PICK k \in Nat : /\ Same(x, c, k)
                       /\ \/ Beyond(s, data[x + k], data[c + k]) /\ k < Limit(c)
                          \/ k = Limit(c) /\ Limit(c) < mf.nice_len
  BY <1>1, SidesAre
<1>3. CASE k < Limit(r)
  <2>1. k \in 0 .. Limit(r) - 1 /\ k < Limit(c)
    BY <1>1, <1>3
  <2>3. Same(x, r, k)
    <3>1. \A i \in 0 .. k - 1 : i \in 0 .. Limit(r) - 1
      BY <1>1, <1>3
    <3> QED
      BY <3>1, <1>2 DEF Same
  <2>4. data[c + k] = data[r + k]
    BY <2>1 DEF Same
  <2>2. Beyond(s, data[x + k], data[r + k])
    BY <2>1, <2>4, <1>1, <1>2, <1>3
  <2> QED
    BY <2>1, <2>2, <2>3, SidesAre
<1>4. CASE k >= Limit(r)
  <2>1. Same(x, r, Limit(r))
    BY <1>1, <1>2, <1>4 DEF Same
  <2>2. Limit(r) < mf.nice_len
    BY <1>1, <1>2, <1>4
  <2> QED
    BY <2>1, <2>2, SidesAre
<1> QED
  BY <1>1, <1>3, <1>4

\* What is between two strings agrees with them on what they have in common.
LEMMA Between ==
    ASSUME TypeOK, NEW c \in 1 .. N, NEW b \in 1 .. N, NEW a \in 1 .. N, NEW r \in 1 .. N,
           c <= b, c <= a, b <= r, a <= r, Sides(1, c, b), Sides(0, c, a),
           NEW g \in Nat, g < Limit(r), Same(b, r, g), Same(a, r, g)
    PROVE  Same(c, r, g)
<1>1. /\ Limit(r) \in Nat /\ Limit(r) <= Limit(b) /\ Limit(r) <= Limit(a)
      /\ Limit(b) \in Nat /\ Limit(a) \in Nat
      /\ \A k \in 0 .. Limit(r) - 1 : data[c + k] \in Nat /\ data[r + k] \in Nat
  <2>1. c <= r
    BY InputType
  <2> QED
    BY <2>1, Limits
<1>2. PICK k \in Nat : Same(c, b, k) /\ (k < g => data[c + k] > data[b + k])
  BY <1>1, SidesAre DEF Beyond
<1>3. PICK j \in Nat : Same(c, a, j) /\ (j < g => data[c + j] < data[a + j])
  BY <1>1, SidesAre DEF Beyond
<1>4. CASE k >= g
  BY <1>2, <1>4 DEF Same
<1>5. CASE j >= g
  BY <1>3, <1>5 DEF Same
<1>6. CASE k < g /\ j < g
  <2>1. /\ data[b + k] = data[r + k] /\ data[b + j] = data[r + j]
        /\ data[a + k] = data[r + k] /\ data[a + j] = data[r + j]
        /\ data[c + k] > data[r + k] /\ data[c + j] < data[r + j]
    BY <1>2, <1>3, <1>6 DEF Same
  <2>2. k < j => data[c + k] = data[a + k]
    BY <1>3 DEF Same
  <2>3. j < k => data[c + j] = data[b + j]
    BY <1>2 DEF Same
  <2>4. /\ data[c + k] \in Nat /\ data[r + k] \in Nat
        /\ data[c + j] \in Nat /\ data[r + j] \in Nat
    <3>1. k \in 0 .. Limit(r) - 1 /\ j \in 0 .. Limit(r) - 1
      BY <1>1, <1>6
    <3> QED
      BY <3>1, <1>1
  <2> QED
    BY <2>1, <2>2, <2>3, <2>4
<1> QED
  BY <1>4, <1>5, <1>6

LEMMA FixedSides ==
    ASSUME data' = data, mf' = mf
    PROVE  /\ \A a, b, k : Same(a, b, k)' <=> Same(a, b, k)
           /\ \A c : Limit(c)' = Limit(c)
           /\ \A s, x, c : Sides(s, x, c)' <=> Sides(s, x, c)
<1>1. \A a, b, k : Same(a, b, k)' <=> Same(a, b, k)
  BY DEF Same
<1>2. \A p : tree_limit(p)' = tree_limit(p)
  BY Fixed
<1>3. \A c : Limit(c)' = Limit(c)
  BY <1>2 DEF Limit
<1>4. \A c, p, l : SameBytes(c, p, l)' <=> SameBytes(c, p, l)
  BY DEF SameBytes
<1>5. \A x, c : /\ Before(x, c)' <=> Before(x, c)
                /\ After(x, c)' <=> After(x, c)
                /\ AlikeToEnd(x, c)' <=> AlikeToEnd(x, c)
  BY <1>2, <1>4 DEF Before, After, AlikeToEnd
<1>6. \A s, x, c : Sides(s, x, c)' <=> Sides(s, x, c)
  BY <1>5 DEF Sides, SortsLeft, SortsRight
<1> QED
  BY <1>1, <1>3, <1>6

-----------------------------------------------------------------------------
(* Trees are ordered: the steps outside walks, and the start of one.       *)

\* Nodes that leave the window, and steps that touch no link, disturb nothing.
LEMMA SortedKept ==
    ASSUME LinkInv, LinkInv', UNCHANGED <<data, mf>>, pc' # "walk", Nodes' \subseteq Nodes, IsTree,
           NEW D \in Subtrees, Sorted(D),
           \A c \in Nodes' : \A s \in 0 .. 1 : links'[Link(c, s)] \in Nodes =>
             \A x \in D[links'[Link(c, s)]] : x \in D[c] /\ Sides(s, x, c)
    PROVE  Trees'
<1>1. D \in Subtrees'
  BY Fixed DEF Subtrees
<1>2. Sorted(D)'
  <2> SUFFICES ASSUME NEW c \in Nodes'
               PROVE  /\ c \in D[c]
                      /\ \A x \in D[c] : x <= c /\ key4(x - 1)' = key4(c - 1)'
                      /\ \A s \in 0 .. 1 : links'[Link(c, s)'] \in Nodes' =>
                           \A x \in D[links'[Link(c, s)']] : x \in D[c] /\ Sides(s, x, c)'
    BY DEF Sorted
  <2> QED
    BY Fixed, FixedSides DEF Sorted
<1> QED
  BY <1>1, <1>2 DEF Trees

LEMMA TreesKept ==
    ASSUME LinkInv, LinkInv', Trees, UNCHANGED <<data, mf, links>>, pc # "walk", pc' # "walk",
           Nodes' \subseteq Nodes
    PROVE  Trees'
<1>1. CASE ~IsTree
  BY <1>1, Fixed DEF Trees
<1>2. CASE IsTree
  <2>1. PICK D \in Subtrees : Sorted(D)
    BY <1>2 DEF Trees
  <2>2. ASSUME NEW c \in Nodes, NEW s \in 0 .. 1, links[Link(c, s)] \in Nodes
        PROVE  \A x \in D[links[Link(c, s)]] : x \in D[c] /\ Sides(s, x, c)
    <3>1. ~Loose(c, s)
      BY DEF Loose
    <3> QED
      BY <2>1, <2>2, <3>1 DEF Sorted
  <2> QED
    BY <1>2, <2>1, <2>2, SortedKept
<1> QED
  BY <1>1, <1>2

\* Steps that index nothing, and those of a finder with chains.
LEMMA QuietTrees ==
    ASSUME LinkInv, LinkInv', Trees,
           \/ \E p \in 0 .. N - 1 : find(p)
           \/ BeginSearch \/ TryShort2 \/ TryShort3 \/ IndexNowhere \/ SkipTree
           \/ BeginChain \/ VisitChain \/ IndexInChain \/ SkipChain \/ EndChain
    PROVE  Trees'
<1>1. CASE \/ \E p \in 0 .. N - 1 : find(p)
           \/ BeginSearch \/ TryShort2 \/ TryShort3
  <2>1. UNCHANGED <<data, mf, tables, links, indexed>> /\ pc # "walk" /\ pc' # "walk"
    BY <1>1 DEF find, BeginSearch, TryShort2, TryShort3, TryShort
  <2> QED
    BY <2>1, TablesKept, TreesKept
<1>2. CASE IndexNowhere \/ SkipTree
  <2>1. /\ UNCHANGED <<data, mf, links>> /\ pc # "walk" /\ pc' # "walk"
        /\ indexed' = indexed + 1 /\ ~Has(indexed, 4)
    BY <1>2 DEF IndexNowhere, SkipTree, LeaveWalk, LinkInv, Control
  <2>2. Nodes' \subseteq Nodes
    BY <2>1, NodesNext DEF LinkInv
  <2> QED
    BY <2>1, <2>2, TreesKept
<1>3. CASE BeginChain \/ VisitChain \/ IndexInChain \/ SkipChain \/ EndChain
  <2>1. ~IsTree /\ UNCHANGED <<data, mf>>
    BY <1>3 DEF BeginChain, VisitChain, IndexInChain, SkipChain, EndChain, LinkInv, Control
  <2> QED
    BY <2>1, Fixed DEF Trees
<1> QED
  BY <1>1, <1>2, <1>3

\* A walk sets out: everything is still to be split.
LEMMA BeginWalkTrees ==
    ASSUME LinkInv, LinkInv', Trees, IndexInTree \/ BeginTree
    PROVE  Trees'
<1>1. PICK p \in Nat : p = indexed /\ Root = p + 1 /\ p + 1 \in 1 .. N /\ (p + 1) - 1 = p
  <2>1. indexed \in Nat /\ N \in Nat /\ at \in Nat /\ at < N /\ indexed <= at
    <3>1. indexed \in Nat /\ N \in Nat /\ at \in Nat
      <4>1. TypeOK
        BY DEF LinkInv
      <4> QED
        BY <4>1, InputType DEF TypeOK
    <3>2. pc \in {"index", "long"}
      BY DEF IndexInTree, BeginTree
    <3> QED
      BY <3>1, <3>2 DEF LinkInv, Control
  <2> QED
    BY <2>1 DEF Root
<1>2. /\ IsTree /\ Has(p, 4) /\ pc # "walk" /\ pc' = "walk" /\ candidate' = head4[key4(p)]
      /\ after_link' = 2 * (p % cyc) + 1 /\ before_link' = 2 * (p % cyc)
      /\ after_len' = 0 /\ before_len' = 0
      /\ UNCHANGED <<data, mf, links, indexed>>
  BY <1>1 DEF IndexInTree, BeginTree, BeginWalk, LinkInv, Control
<1>3. PICK r \in 1 .. N : r = p + 1 /\ r = Root /\ Root' = r /\ r - 1 = p
  BY <1>1, <1>2 DEF Root
<1>4. PICK D \in Subtrees : Sorted(D)
  BY <1>2 DEF Trees
<1>5. Nodes' = Nodes \cup {r} /\ r \notin Nodes
  <2>1. InWindow(r, p)
    BY <1>3, CycType DEF InWindow, LinkInv
  <2>2. Nodes' = Nodes \cup {r}
    BY <2>1, <1>1, <1>2, <1>3, Fixed DEF Nodes
  <2>3. r \notin Nodes
    BY <1>1, <1>2, <1>3 DEF Nodes
  <2> QED
    BY <2>2, <2>3
<1>6. \A c \in Nodes : c \in 1 .. N /\ c < r
  BY <1>1, <1>2, <1>3, InputType DEF Nodes, LinkInv
<1>7. key4(p) \in Slots4
  BY <1>2, KeyTypes DEF LinkInv
<1>8. candidate' \in Nodes => key4(candidate' - 1) = key4(p)
  BY <1>2, <1>6, <1>7 DEF LinkInv, Heads, NONE
<1> DEFINE Old == IF candidate' \in Nodes THEN D[candidate'] ELSE {}
<1>9. Old \in SUBSET (1 .. N) /\ \A x \in Old : x < r /\ key4(x - 1) = key4(p)
  <2>1. CASE candidate' \in Nodes
    <3>1. \A x \in D[candidate'] : x <= candidate' /\ key4(x - 1) = key4(candidate' - 1)
      BY <2>1, <1>4 DEF Sorted
    <3>2. D[candidate'] \in SUBSET (1 .. N) /\ candidate' \in 1 .. N /\ candidate' < r
      BY <2>1, <1>4, <1>6 DEF Subtrees
    <3>3. \A x \in D[candidate'] : x < r /\ key4(x - 1) = key4(p)
      BY <3>1, <3>2, <2>1, <1>8
    <3> QED
      BY <3>2, <3>3, <2>1
  <2>2. CASE ~(candidate' \in Nodes)
    BY <2>2
  <2> QED
    BY <2>1, <2>2
<1>10. PICK E \in Subtrees : E[r] = {r} \cup Old /\ \A c \in Nodes : E[c] = D[c]
  <2> HIDE DEF Old
  <2> DEFINE F == [D EXCEPT ![r] = {r} \cup Old]
  <2>1. {r} \cup Old \in SUBSET (1 .. N)
    BY <1>9
  <2>2. F \in Subtrees /\ F[r] = {r} \cup Old /\ \A c \in Nodes : F[c] = D[c]
    BY <2>1, <1>4, <1>6 DEF Subtrees
  <2> HIDE DEF F
  <2> QED
    BY <2>2
<1>11. Link(r, 0) = 2 * (p % cyc) /\ Link(r, 1) = 2 * (p % cyc) + 1
  <2>1. p % cyc \in Nat
    BY CycType DEF LinkInv
  <2> QED
    BY <2>1, <1>3 DEF Link, Slot
<1>12. Sorted(E)'
  <2>1. ASSUME NEW c \in Nodes
        PROVE  /\ c \in E[c]
               /\ \A x \in E[c] : x <= c /\ key4(x - 1) = key4(c - 1)
               /\ \A s \in 0 .. 1 : links[Link(c, s)] \in Nodes' =>
                    \A x \in E[links[Link(c, s)]] : x \in E[c] /\ Sides(s, x, c)
    <3>1. c \in E[c] /\ \A x \in E[c] : x <= c /\ key4(x - 1) = key4(c - 1)
      BY <1>4, <1>10 DEF Sorted
    <3>2. ASSUME NEW s \in 0 .. 1, links[Link(c, s)] \in Nodes'
          PROVE  \A x \in E[links[Link(c, s)]] : x \in E[c] /\ Sides(s, x, c)
      <4>1. links[Link(c, s)] < c
        BY <1>2 DEF LinkInv, Back
      <4>2. links[Link(c, s)] \in Nodes
        BY <4>1, <3>2, <1>5, <1>6
      <4>3. ~Loose(c, s)
        BY <1>2 DEF Loose
      <4> QED
        BY <4>2, <4>3, <1>4, <1>10 DEF Sorted
    <3> QED
      BY <3>1, <3>2
  <2>2. /\ r \in E[r]
        /\ \A x \in E[r] : x <= r /\ key4(x - 1) = key4(r - 1)
    BY <1>3, <1>9, <1>10
  <2>3. \A s \in 0 .. 1 : Loose(r, s)'
    <3>1. Link(r, 0)' = before_link' /\ Link(r, 1)' = after_link'
      BY <1>2, <1>11, Fixed
    <3> QED
      BY <3>1, <1>2 DEF Loose
  <2> SUFFICES ASSUME NEW c \in Nodes'
               PROVE  /\ c \in E[c]
                      /\ \A x \in E[c] : x <= c /\ key4(x - 1)' = key4(c - 1)'
                      /\ \A s \in 0 .. 1 : ~Loose(c, s)' /\ links'[Link(c, s)'] \in Nodes' =>
                           \A x \in E[links'[Link(c, s)']] : x \in E[c] /\ Sides(s, x, c)'
    BY DEF Sorted
  <2>4. CASE c \in Nodes
    BY <2>1, <2>4, <1>2, Fixed, FixedSides
  <2>5. CASE c = r
    BY <2>2, <2>3, <2>5, <1>2, Fixed
  <2> QED
    BY <2>4, <2>5, <1>5
<1>13. Pending(E, r, r)'
  <2>1. PICK b \in Nodes', a \in Nodes' : LooseEnds(b, a)'
    BY <1>2 DEF LinkInv, Walking
  <2>2. LooseEnds(r, r)'
    <3>1. Link(r, 0)' = before_link' /\ Link(r, 1)' = after_link'
      BY <1>2, <1>11, Fixed
    <3>2. candidate' < r
      <4>1. /\ head4[key4(p)] \in Nat
            /\ head4[key4(p)] # 0 => head4[key4(p)] <= p
        BY <1>1, <1>2, <1>7 DEF LinkInv, TypeOK, Heads, NONE
      <4> QED
        BY <4>1, <1>2, <1>3
    <3> QED
      BY <3>1, <3>2, <1>2, <1>3 DEF LooseEnds
  <2>3. candidate' \in Nodes' => candidate' \in Nodes /\ E[candidate'] = Old
    BY <2>2, <1>3, <1>5, <1>6, <1>10 DEF LooseEnds
  <2> QED
    BY <2>2, <2>3, <1>3, <1>10 DEF Pending, End
<1>14. E \in Subtrees'
  BY <1>2, <1>10, Fixed DEF Subtrees
<1> QED
  BY <1>5, <1>12, <1>13, <1>14 DEF Trees

-----------------------------------------------------------------------------
(* Trees are ordered: the walk.                                            *)

\* What is pending agrees with the root on what both ends agree on.
LEMMA AgreedIsShared ==
    ASSUME LinkInv, pc = "walk", ~WalkOver, IsTree,
           NEW D \in Subtrees, Sorted(D), NEW b \in Nodes, NEW a \in Nodes, Pending(D, b, a)
    PROVE  /\ Same(candidate, Root, Agreed)
           /\ Same(candidate, Root, WalkLen)
           /\ WalkLen < Limit(Root) =>
                /\ data[candidate + WalkLen] # data[Root + WalkLen]
                /\ data[candidate + WalkLen] \in Nat /\ data[Root + WalkLen] \in Nat
<1>1. /\ TypeOK /\ N \in Nat /\ LooseEnds(b, a) /\ candidate \in Nodes /\ candidate \in 1 .. N
      /\ candidate < b /\ candidate < a /\ Root \in 1 .. N /\ indexed = Root - 1
      /\ b \in 1 .. N /\ a \in 1 .. N /\ b <= Root /\ a <= Root
  BY CandidateIsNode, OnWalk, NodeSlots DEF Pending, LinkInv
<1>2. /\ Agreed \in Nat /\ Agreed < Limit(Root) /\ Limit(Root) \in Nat
      /\ Agreed <= before_len /\ Agreed <= after_len
      /\ before_len \in Nat /\ after_len \in Nat
  BY <1>1, OnWalk DEF Limit
<1>3. candidate \in D[candidate]
  BY <1>1 DEF Sorted
<1>4. PICK g \in Nat : g = Agreed
  BY <1>2
<1>6. Same(candidate, Root, g)
  <2>1. CASE b = Root \/ a = Root
    <3>1. g = 0
      BY <1>1, <1>2, <1>4, <2>1 DEF LooseEnds
    <3> QED
      BY <3>1 DEF Same
  <2>2. CASE b # Root /\ a # Root
    <3>1. Sides(1, candidate, b) /\ Sides(0, candidate, a)
      BY <2>2, <1>1, <1>3 DEF Pending, End
    <3>2. Same(b, Root, before_len) /\ Same(a, Root, after_len)
      BY <2>2 DEF Pending, End
    <3>3. Same(b, Root, g) /\ Same(a, Root, g)
      BY <3>2, <1>2, <1>4 DEF Same
    <3> QED
      BY <3>1, <3>3, <1>1, <1>2, <1>4, Between
  <2> QED
    BY <2>1, <2>2
<1>7. PICK len \in Nat :
        /\ len = WalkLen /\ g <= len /\ len <= Limit(Root)
        /\ Agree(candidate - 1 + g, Root - 1 + g, Limit(Root) - g, len - g)
  BY <1>1, <1>4, WalkLenType DEF Limit
<1>8. PICK c \in Nat, r \in Nat, k \in Nat :
        c = candidate /\ r = Root /\ k = len - g /\ c >= 1 /\ r >= 1
  BY <1>1, <1>7
<1>9. /\ \A i \in 0 .. k - 1 : data[c + g + i] = data[r + g + i]
      /\ len < Limit(Root) => data[c + len] # data[r + len]
  <2>1. /\ \A i \in 0 .. k - 1 : data[c - 1 + g + i + 1] = data[r - 1 + g + i + 1]
        /\ k < Limit(Root) - g => data[c - 1 + g + k + 1] # data[r - 1 + g + k + 1]
    BY <1>7, <1>8 DEF Agree, SameBytes
  <2>2. \A i \in Int : c - 1 + g + i + 1 = c + g + i /\ r - 1 + g + i + 1 = r + g + i
    BY <1>4, <1>8
  <2>3. c - 1 + g + k + 1 = c + len /\ r - 1 + g + k + 1 = r + len
    BY <1>4, <1>7, <1>8
  <2>4. len < Limit(Root) => k < Limit(Root) - g
    BY <1>2, <1>4, <1>7, <1>8
  <2> QED
    BY <2>1, <2>2, <2>3, <2>4
<1>10. Same(c, r, len)
  <2> SUFFICES ASSUME NEW i \in 0 .. len - 1 PROVE data[c + i] = data[r + i]
    BY DEF Same
  <2>1. CASE i < g
    BY <2>1, <1>6, <1>8 DEF Same
  <2>2. CASE i >= g
    <3>1. i - g \in 0 .. k - 1 /\ c + g + (i - g) = c + i /\ r + g + (i - g) = r + i
      BY <2>2, <1>4, <1>7, <1>8
    <3> QED
      BY <3>1, <1>9
  <2> QED
    BY <2>1, <2>2, <1>4
<1>11. len < Limit(Root) => data[c + len] \in Nat /\ data[r + len] \in Nat
  <2>1. candidate <= Root
    BY <1>1
  <2>2. len < Limit(Root) => len \in 0 .. Limit(Root) - 1
    BY <1>2, <1>7
  <2> QED
    BY <2>1, <2>2, <1>1, <1>8, Limits
<1> QED
  BY <1>4, <1>6, <1>7, <1>8, <1>9, <1>10, <1>11

\* An end of the walk, and the side of its node it is on.
LEMMA EndLinks ==
    ASSUME LinkInv, pc = "walk", NEW b \in Nodes, NEW a \in Nodes, LooseEnds(b, a)
    PROVE  \A c \in Nodes : \A u \in 0 .. 1 :
             /\ Link(c, u) = before_link => c = b /\ u = (IF b = Root THEN 0 ELSE 1)
             /\ Link(c, u) = after_link => c = a /\ u = (IF a = Root THEN 1 ELSE 0)
             /\ Loose(c, u) <=> Link(c, u) \in {before_link, after_link}
<1>1. \A c \in Nodes : \A u \in 0 .. 1 :
        /\ Link(c, u) = before_link => c = b /\ u = (IF b = Root THEN 0 ELSE 1)
        /\ Link(c, u) = after_link => c = a /\ u = (IF a = Root THEN 1 ELSE 0)
  BY EndsDiffer
<1> QED
  BY <1>1 DEF Loose

\* What may hang at the loose end for side t of the root: something pending
\* that is on that side.
LEMMA MayHang ==
    ASSUME LinkInv, NEW D \in Subtrees, NEW t \in 0 .. 1, NEW e \in Nodes, NEW len,
           End(D, t, e, len), candidate \in Nodes, NEW u \in 0 .. 1,
           u = (IF e = Root THEN t ELSE 1 - t),
           NEW x \in D[candidate], Sides(t, x, Root)
    PROVE  x \in D[e] /\ Sides(u, x, e)
<1>1. x \in D[e] /\ (e # Root => Sides(1 - t, x, e))
  BY DEF End
<1> QED
  BY <1>1

\* The walk ends: nothing hangs at a loose end that should not.
LEMMA LeaveTrees ==
    ASSUME LinkInv, LinkInv', pc = "walk", UNCHANGED <<data, mf>>, pc' # "walk", IsTree,
           indexed' = indexed + 1, NEW D \in Subtrees, Sorted(D),
           NEW b \in Nodes, NEW a \in Nodes, LooseEnds(b, a), NEW l \in Nat, NEW r \in Nat,
           \A i \in 0 .. cyc * PerSlot - 1 :
             links'[i] = IF i = before_link THEN l ELSE IF i = after_link THEN r ELSE links[i],
           l \in Nodes => \A x \in D[l] : x \in D[b] /\ Sides(IF b = Root THEN 0 ELSE 1, x, b),
           r \in Nodes => \A x \in D[r] : x \in D[a] /\ Sides(IF a = Root THEN 1 ELSE 0, x, a)
    PROVE  Trees'
<1>1. Nodes' \subseteq Nodes
  BY NodesNext DEF LinkInv
<1>2. ASSUME NEW c \in Nodes', NEW s \in 0 .. 1, links'[Link(c, s)] \in Nodes,
             NEW x \in D[links'[Link(c, s)]]
      PROVE  x \in D[c] /\ Sides(s, x, c)
  <2>1. c \in Nodes /\ Link(c, s) \in 0 .. cyc * PerSlot - 1
    BY <1>1, EndsDiffer
  <2>2. CASE Link(c, s) = before_link
    BY <2>1, <2>2, <1>2, EndLinks
  <2>3. CASE Link(c, s) # before_link /\ Link(c, s) = after_link
    BY <2>1, <2>3, <1>2, EndLinks
  <2>4. CASE Link(c, s) # before_link /\ Link(c, s) # after_link
    <3>1. ~Loose(c, s) /\ links'[Link(c, s)] = links[Link(c, s)]
      BY <2>1, <2>4, EndLinks
    <3> QED
      BY <3>1, <2>1, <1>2 DEF Sorted
  <2> QED
    BY <2>2, <2>3, <2>4
<1> QED
  BY <1>1, <1>2, SortedKept

LEMMA WalkEndsTrees ==
    ASSUME LinkInv, LinkInv', Trees, CutOff \/ TakeOver
    PROVE  Trees'
<1>1. /\ pc = "walk" /\ pc' # "walk" /\ UNCHANGED <<data, mf>> /\ indexed' = indexed + 1
      /\ IsTree /\ TypeOK
  BY DEF CutOff, TakeOver, LeaveWalk, LinkInv, Control
<1>2. PICK D \in Subtrees : Sorted(D) /\ \E b, a \in Nodes : Pending(D, b, a)
  BY <1>1 DEF Trees
<1>3. PICK b \in Nodes, a \in Nodes : Pending(D, b, a)
  BY <1>2
<1>4. LooseEnds(b, a) /\ End(D, 0, b, before_len) /\ End(D, 1, a, after_len)
  BY <1>3 DEF Pending
<1>5. /\ b \in 1 .. N /\ a \in 1 .. N /\ b <= Root /\ a <= Root /\ Root \in 1 .. N /\ N \in Nat
  BY <1>1, NodeSlots, OnWalk
<1>6. CASE CutOff
  <2>1. links' = [links EXCEPT ![after_link] = NONE, ![before_link] = NONE]
    BY <1>6 DEF CutOff
  <2>2. NONE \in Nat /\ NONE < b /\ NONE < a /\ ~(NONE \in Nodes)
    BY <1>5, NodeSlots, <1>1 DEF NONE
  <2>3. \A i \in 0 .. cyc * PerSlot - 1 :
          links'[i] = IF i = before_link THEN NONE ELSE IF i = after_link THEN NONE ELSE links[i]
    BY <1>1, <1>4, <2>1, <2>2, EndsTied
  <2> QED
    BY <2>2, <2>3, <1>1, <1>2, <1>4, LeaveTrees
<1>7. CASE TakeOver
  <2>1. /\ ~WalkOver /\ WalkLen = Limit(Root)
        /\ links' = [links EXCEPT ![before_link] = links[pair], ![after_link] = links[pair + 1]]
    <3>1. Root - 1 = indexed
      BY <1>1, OnWalk
    <3> QED
      BY <3>1, <1>7 DEF TakeOver, Limit
  <2>2. /\ candidate \in Nodes /\ candidate \in 1 .. N /\ candidate <= Root
        /\ candidate < b /\ candidate < a
        /\ pair = Link(candidate, 0) /\ pair + 1 = Link(candidate, 1)
        /\ \A s \in 0 .. 1 : links[Link(candidate, s)] \in Nat
        /\ \A s \in 0 .. 1 : links[Link(candidate, s)] < candidate
    BY <2>1, <1>1, <1>4, <1>5, CandidateIsNode
  <2>3. Same(candidate, Root, Limit(Root))
    BY <2>1, <1>1, <1>2, <1>3, AgreedIsShared
  <2>4. ASSUME NEW s \in 0 .. 1, links[Link(candidate, s)] \in Nodes,
               NEW x \in D[links[Link(candidate, s)]]
        PROVE  x \in D[candidate] /\ Sides(s, x, Root)
    <3>1. ~Loose(candidate, s)
      BY <2>2, <1>1, <1>4, <1>5, EndLinks
    <3>2. x \in D[candidate] /\ Sides(s, x, candidate)
      BY <3>1, <2>2, <2>4, <1>2 DEF Sorted
    <3>3. x \in 1 .. N /\ x <= candidate
      BY <3>2, <2>2, <1>2 DEF Sorted, Subtrees
    <3> QED
      BY <3>2, <3>3, <2>2, <2>3, <1>1, <1>5, SidesAlike
  <2>5. PICK l \in Nat, r \in Nat :
          l = links[Link(candidate, 0)] /\ r = links[Link(candidate, 1)] /\ l < b /\ r < a
    <3>1. /\ links[Link(candidate, 0)] \in Nat /\ links[Link(candidate, 0)] < candidate
          /\ links[Link(candidate, 1)] \in Nat /\ links[Link(candidate, 1)] < candidate
      BY <2>2
    <3> QED
      BY <3>1, <2>2, <1>5
  <2>6. \A i \in 0 .. cyc * PerSlot - 1 :
          links'[i] = IF i = before_link THEN l ELSE IF i = after_link THEN r ELSE links[i]
    <3>1. links' = [links EXCEPT ![before_link] = l, ![after_link] = r]
      BY <2>1, <2>2, <2>5
    <3>2. l < b /\ r < a
      BY <2>5
    <3>3. \/ links' = [links EXCEPT ![before_link] = l, ![after_link] = r]
          \/ links' = [links EXCEPT ![after_link] = r, ![before_link] = l]
      BY <3>1
    <3> QED
      BY <3>2, <3>3, <1>1, <1>4, EndsTied
  <2>7. ASSUME l \in Nodes, NEW x \in D[l]
        PROVE  x \in D[b] /\ Sides(IF b = Root THEN 0 ELSE 1, x, b)
    <3>1. x \in D[candidate] /\ Sides(0, x, Root)
      BY <2>4, <2>5, <2>7
    <3>2. PICK u \in 0 .. 1 : u = (IF b = Root THEN 0 ELSE 1 - 0)
      OBVIOUS
    <3>3. candidate \in Nodes /\ candidate < b /\ End(D, 0, b, before_len)
      BY <2>2, <1>4
    <3>4. x \in D[b] /\ Sides(u, x, b)
      BY <3>1, <3>2, <3>3, MayHang
    <3> QED
      BY <3>2, <3>4
  <2>8. ASSUME r \in Nodes, NEW x \in D[r]
        PROVE  x \in D[a] /\ Sides(IF a = Root THEN 1 ELSE 0, x, a)
    <3>1. x \in D[candidate] /\ Sides(1, x, Root)
      BY <2>4, <2>5, <2>8
    <3>2. PICK u \in 0 .. 1 : u = (IF a = Root THEN 1 ELSE 1 - 1)
      OBVIOUS
    <3>3. candidate \in Nodes /\ candidate < a /\ End(D, 1, a, after_len)
      BY <2>2, <1>4
    <3>4. x \in D[a] /\ Sides(u, x, a)
      BY <3>1, <3>2, <3>3, MayHang
    <3> QED
      BY <3>2, <3>4
  <2> QED
    BY <2>6, <2>7, <2>8, <1>1, <1>2, <1>4, LeaveTrees
<1> QED
  BY <1>6, <1>7

\* One step down, for either side: the candidate c goes to side t of the root.
\* What of its tree is on the other side is to be split further, and what it
\* keeps is on side t.
LEMMA StepDownTrees ==
    ASSUME LinkInv, LinkInv', IsTree, pc = "walk", pc' = "walk", ~WalkOver,
           UNCHANGED <<data, mf, indexed>>, Nodes' = Nodes, Root' = Root,
           NEW D \in Subtrees, Sorted(D), NEW b \in Nodes, NEW a \in Nodes, Pending(D, b, a),
           NEW c \in Nodes, c = candidate, NEW len \in Nat, len < Limit(Root), Same(c, Root, len),
           NEW t \in 0 .. 1, Beyond(t, data[c + len], data[Root + len]),
           candidate' = links[Link(c, 1 - t)],
           \/ /\ t = 0 /\ LooseEnds(c, a)'
              /\ \A i \in 0 .. cyc * PerSlot - 1 :
                    links'[i] = IF i = before_link THEN c ELSE links[i]
              /\ before_link' = Link(c, 1) /\ before_len' = len
              /\ UNCHANGED <<after_link, after_len>>
           \/ /\ t = 1 /\ LooseEnds(b, c)'
              /\ \A i \in 0 .. cyc * PerSlot - 1 :
                    links'[i] = IF i = after_link THEN c ELSE links[i]
              /\ after_link' = Link(c, 0) /\ after_len' = len
              /\ UNCHANGED <<before_link, before_len>>
    PROVE  Trees'
<1>14. before_link # after_link /\ before_link \in Nat /\ after_link \in Nat
  BY EndsDiffer DEF Pending, LinkInv, TypeOK
<1>13. PICK e \in Nodes, end \in Nat, other \in Nat :
         /\ \A i \in 0 .. cyc * PerSlot - 1 : links'[i] = IF i = end THEN c ELSE links[i]
         /\ {before_link, after_link} = {end, other} /\ end # other
         /\ {before_link', after_link'} = {Link(c, 1 - t), other}
         /\ \/ /\ t = 0 /\ e = b /\ end = before_link /\ LooseEnds(c, a)'
               /\ before_len' = len /\ after_len' = after_len
            \/ /\ t = 1 /\ e = a /\ end = after_link /\ LooseEnds(b, c)'
               /\ after_len' = len /\ before_len' = before_len
  <2>1. CASE t = 0
    <3>1. {before_link', after_link'} = {Link(c, 1 - t), after_link}
      BY <2>1
    <3> QED
      BY <3>1, <2>1, <1>14
  <2>2. CASE t = 1
    <3>1. {before_link', after_link'} = {Link(c, 1 - t), before_link}
      BY <2>2
    <3>2. {before_link, after_link} = {after_link, before_link}
      OBVIOUS
    <3> QED
      BY <3>1, <3>2, <2>2, <1>14
  <2> QED
    BY <2>1, <2>2
<1>1. /\ TypeOK /\ N \in Nat /\ LooseEnds(b, a) /\ Root \in 1 .. N
      /\ c \in 1 .. N /\ c < b /\ c < a /\ c < Root
      /\ b \in 1 .. N /\ a \in 1 .. N /\ b <= Root /\ a <= Root
      /\ \A s \in 0 .. 1 : links[Link(c, s)] \in Nat /\ links[Link(c, s)] < c
  BY CandidateIsNode, OnWalk, NodeSlots DEF Pending, LinkInv
<1>2. /\ End(D, 0, b, before_len) /\ End(D, 1, a, after_len)
      /\ End(D, t, e, IF t = 0 THEN before_len ELSE after_len)
      /\ D[c] \subseteq D[Root]
  BY <1>13 DEF Pending
<1>3. \A d \in Nodes : \A u \in 0 .. 1 :
        /\ Link(d, u) \in 0 .. cyc * PerSlot - 1
        /\ Link(d, u) = end => d = e /\ u = (IF e = Root THEN t ELSE 1 - t)
        /\ Link(d, u) = other => d # c
        /\ Loose(d, u) <=> Link(d, u) \in {end, other}
        /\ Loose(d, u)' <=> Link(d, u) \in {Link(c, 1 - t), other}
  <2>1. \A d \in Nodes : \A u \in 0 .. 1 : Link(d, u) \in 0 .. cyc * PerSlot - 1
    BY <1>1, EndsDiffer
  <2>2. \A d \in Nodes : \A u \in 0 .. 1 :
          /\ Link(d, u) = before_link => d = b /\ u = (IF b = Root THEN 0 ELSE 1)
          /\ Link(d, u) = after_link => d = a /\ u = (IF a = Root THEN 1 ELSE 0)
          /\ Loose(d, u) <=> Link(d, u) \in {before_link, after_link}
    BY <1>1, EndLinks
  <2>3. \A d \in Nodes : \A u \in 0 .. 1 : Loose(d, u)' <=> Link(d, u) \in {Link(c, 1 - t), other}
    BY <1>13, Fixed DEF Loose
  <2>4. ASSUME NEW d \in Nodes, NEW u \in 0 .. 1, Link(d, u) = end
        PROVE  d = e /\ u = (IF e = Root THEN t ELSE 1 - t)
    <3>1. CASE t = 0 /\ e = b /\ end = before_link
      BY <3>1, <2>2, <2>4
    <3>2. CASE t = 1 /\ e = a /\ end = after_link
      BY <3>2, <2>2, <2>4
    <3> QED
      BY <3>1, <3>2, <1>13
  <2>5. \A d \in Nodes : \A u \in 0 .. 1 : Link(d, u) = other => d # c
    <3>1. other \in {before_link, after_link}
      BY <1>13
    <3>2. b # c /\ a # c
      BY <1>1
    <3> QED
      BY <3>1, <3>2, <2>2
  <2> QED
    BY <2>1, <2>2, <2>3, <2>4, <2>5, <1>13
<1>4. PICK keep \in SUBSET (1 .. N) : keep = {x \in D[c] : Sides(t, x, Root)}
  BY <1>1 DEF Subtrees
<1>5. PICK E \in Subtrees : E[c] = keep /\ \A d \in 1 .. N : d # c => E[d] = D[d]
  <2> DEFINE F == [D EXCEPT ![c] = keep]
  <2>1. F \in Subtrees /\ F[c] = keep /\ \A d \in 1 .. N : d # c => F[d] = D[d]
    BY <1>1, <1>4 DEF Subtrees
  <2> HIDE DEF F
  <2> QED
    BY <2>1
<1>6. \A d \in Nodes : /\ d \in 1 .. N /\ E[d] \subseteq D[d]
                       /\ d # c => E[d] = D[d]
  BY <1>4, <1>5, NodeSlots, <1>1
<1>7. c \in keep
  <2>1. c \in D[c]
    BY DEF Sorted
  <2>2. Sides(t, c, Root)
    <3>1. len \in 0 .. Limit(Root) - 1
      BY <1>1, Limits
    <3> QED
      BY <3>1, <1>1, SidesAre
  <2> QED
    BY <2>1, <2>2, <1>4
\* What hangs at a link of c that is its own.
<1>8. ASSUME NEW u \in 0 .. 1, links[Link(c, u)] \in Nodes, NEW x \in D[links[Link(c, u)]]
      PROVE  x \in D[c] /\ Sides(u, x, c)
  <2>1. ~Loose(c, u)
    <3>1. c # e
      BY <1>1, <1>13
    <3> QED
      BY <3>1, <1>3
  <2> QED
    BY <2>1, <1>8 DEF Sorted
<1>9. Sorted(E)'
  <2>1. ASSUME NEW d \in Nodes, NEW u \in 0 .. 1, ~Loose(d, u)', links'[Link(d, u)] \in Nodes,
               NEW x \in E[links'[Link(d, u)]]
        PROVE  x \in E[d] /\ Sides(u, x, d)
    <3>1. /\ Link(d, u) # Link(c, 1 - t) /\ Link(d, u) # other
          /\ links'[Link(d, u)] = IF Link(d, u) = end THEN c ELSE links[Link(d, u)]
      BY <2>1, <1>3, <1>13
    <3>2. CASE Link(d, u) = end
      <4>1. d = e /\ u = (IF e = Root THEN t ELSE 1 - t) /\ links'[Link(d, u)] = c
        BY <3>1, <3>2, <1>3
      <4>2. x \in D[c] /\ Sides(t, x, Root)
        BY <4>1, <2>1, <1>4, <1>5
      <4>3. x \in D[e] /\ Sides(u, x, e)
        BY <4>1, <4>2, <1>2, MayHang
      <4>4. e # c
        BY <1>1, <1>13
      <4> QED
        BY <4>1, <4>3, <4>4, <1>6
    <3>3. CASE Link(d, u) # end
      <4>1. links'[Link(d, u)] = links[Link(d, u)] /\ ~Loose(d, u)
        BY <3>1, <3>3, <1>3
      <4>2. x \in D[links[Link(d, u)]]
        BY <4>1, <2>1, <1>6
      <4>3. x \in D[d] /\ Sides(u, x, d)
        BY <4>1, <4>2, <2>1 DEF Sorted
      <4>4. CASE d = c
        <5>1. u = t
          BY <3>1, <4>4
        <5>2. x \in 1 .. N /\ x <= c
          BY <4>3, <4>4, <1>1 DEF Sorted, Subtrees
        <5>3. c <= Root /\ Sides(t, x, c)
          BY <4>3, <4>4, <5>1, <1>1
        <5>4. Sides(t, x, Root)
          BY <5>2, <5>3, <1>1, SidesJoin
        <5> QED
          BY <5>4, <4>3, <4>4, <1>4, <1>5
      <4>5. CASE d # c
        BY <4>3, <4>5, <1>6
      <4> QED
        BY <4>4, <4>5
    <3> QED
      BY <3>2, <3>3
  <2>2. \A d \in Nodes : /\ d \in E[d]
                         /\ \A x \in E[d] : x <= d /\ key4(x - 1) = key4(d - 1)
    BY <1>5, <1>6, <1>7 DEF Sorted
  <2> SUFFICES ASSUME NEW d \in Nodes
               PROVE  /\ d \in E[d]
                      /\ \A x \in E[d] : x <= d /\ key4(x - 1)' = key4(d - 1)'
                      /\ \A s \in 0 .. 1 : ~Loose(d, s)' /\ links'[Link(d, s)'] \in Nodes' =>
                           \A x \in E[links'[Link(d, s)']] : x \in E[d] /\ Sides(s, x, d)'
    BY DEF Sorted
  <2> QED
    BY <2>1, <2>2, Fixed, FixedSides
<1>10. Pending(E, IF t = 0 THEN c ELSE b, IF t = 0 THEN a ELSE c)'
  <2> DEFINE r == links[Link(c, 1 - t)]
  <2>1. r \in Nodes => /\ r < c /\ E[r] = D[r]
                       /\ \A x \in E[r] : x \in D[c] /\ Sides(1 - t, x, c)
    <3>1. 1 - t \in 0 .. 1
      OBVIOUS
    <3>2. r < c /\ r # c
      BY <3>1, <1>1
    <3> QED
      BY <3>1, <3>2, <1>6, <1>8
  <2> HIDE DEF r
  <2>2. candidate' = r
    BY DEF r
  <2>3. E[Root] = D[Root] /\ E[b] = D[b] /\ E[a] = D[a]
    BY <1>1, <1>5
  <2>4. \A s, x, y : Sides(s, x, y)' <=> Sides(s, x, y)
    BY FixedSides
  <2>5. \A x, y, k : Same(x, y, k)' <=> Same(x, y, k)
    BY FixedSides
  \* The new end.
  <2>6. End(E, t, c, len)'
    <3>1. Same(c, Root, len)' /\ Beyond(t, data'[c + len], data'[Root' + len])
      BY <2>5
    <3>2. r \in Nodes => \A x \in E[r] : Sides(1 - t, x, c) /\ (Sides(t, x, Root) => x \in E[c])
      BY <2>1, <1>4, <1>5
    <3> SUFFICES /\ c # Root' => /\ Same(c, Root, len)'
                              /\ Beyond(t, data'[c + len], data'[Root' + len])
                 /\ candidate' \in Nodes' => \A x \in E[candidate'] :
                       /\ c # Root' => Sides(1 - t, x, c)'
                       /\ Sides(t, x, Root)' => x \in E[c]
      BY DEF End
    <3> QED
      BY <3>1, <3>2, <2>2, <2>4
  \* The old end on the other side.
  <2>7. ASSUME NEW f \in {b, a}, NEW s \in 0 .. 1, NEW k \in Nat, End(D, s, f, k)
        PROVE  End(E, s, f, k)'
    <3>1. f # Root => Same(f, Root, k)' /\ Beyond(s, data'[f + k], data'[Root' + k])
      BY <2>5, <2>7 DEF End
    <3>2. r \in Nodes => \A x \in E[r] :
             /\ f # Root => Sides(1 - s, x, f)
             /\ Sides(s, x, Root) => x \in E[f]
      BY <2>1, <2>3, <2>7 DEF End
    <3> SUFFICES /\ f # Root' => Same(f, Root, k)' /\ Beyond(s, data'[f + k], data'[Root' + k])
                 /\ candidate' \in Nodes' => \A x \in E[candidate'] :
                       /\ f # Root' => Sides(1 - s, x, f)'
                       /\ Sides(s, x, Root)' => x \in E[f]
      BY DEF End
    <3> QED
      BY <3>1, <3>2, <2>2, <2>4
  <2>8. candidate' \in Nodes' => E[candidate'] \subseteq E[Root']
    BY <2>1, <2>2, <2>3, <1>2
  <2>9. before_len \in Nat /\ after_len \in Nat
    BY <1>1 DEF TypeOK
  <2>10. CASE t = 0
    <3>1. /\ before_len' = len /\ after_len' = after_len /\ LooseEnds(c, a)'
          /\ (IF t = 0 THEN c ELSE b) = c /\ (IF t = 0 THEN a ELSE c) = a
      BY <2>10, <1>13
    <3>2. End(E, 1, a, after_len)' /\ End(E, 0, c, len)'
      BY <2>6, <2>7, <2>9, <2>10, <1>2
    <3>3. Pending(E, c, a)'
      BY <3>1, <3>2, <2>8 DEF Pending, End
    <3> QED
      BY <3>1, <3>3
  <2>11. CASE t = 1
    <3>1. /\ after_len' = len /\ before_len' = before_len /\ LooseEnds(b, c)'
          /\ (IF t = 0 THEN c ELSE b) = b /\ (IF t = 0 THEN a ELSE c) = c
      BY <2>11, <1>13
    <3>2. End(E, 0, b, before_len)' /\ End(E, 1, c, len)'
      BY <2>6, <2>7, <2>9, <2>11, <1>2
    <3>3. Pending(E, b, c)'
      BY <3>1, <3>2, <2>8 DEF Pending, End
    <3> QED
      BY <3>1, <3>3
  <2> QED
    BY <2>10, <2>11
<1>11. E \in Subtrees'
  BY Fixed DEF Subtrees
<1>12. (IF t = 0 THEN c ELSE b) \in Nodes' /\ (IF t = 0 THEN a ELSE c) \in Nodes'
  OBVIOUS
<1> QED
  BY <1>9, <1>10, <1>11, <1>12 DEF Trees

LEMMA WalkTrees ==
    ASSUME LinkInv, LinkInv', Trees, WalkLeft \/ WalkRight
    PROVE  Trees'
<1>1. pc = "walk" /\ ~WalkOver /\ TypeOK /\ IsTree
  BY DEF WalkLeft, WalkRight, StepDown, LinkInv, Control
<1>2. PICK D \in Subtrees : Sorted(D) /\ \E b, a \in Nodes : Pending(D, b, a)
  BY <1>1 DEF Trees
<1>3. PICK b \in Nodes, a \in Nodes : Pending(D, b, a)
  BY <1>2
<1>4. LooseEnds(b, a)
  BY <1>3 DEF Pending
<1>5. PICK len \in Nat, c \in Nat, s \in 0 .. 1 :
        /\ len = WalkLen /\ StepDown(len) /\ c = candidate
        /\ SortsBefore(len) <=> s = 1
        /\ candidate' = links[Link(c, s)]
        /\ \/ /\ links' = [links EXCEPT ![before_link] = c] /\ s = 1
              /\ before_link' = Link(c, 1) /\ before_len' = len
              /\ UNCHANGED <<after_link, after_len>>
           \/ /\ links' = [links EXCEPT ![after_link] = c] /\ s = 0
              /\ after_link' = Link(c, 0) /\ after_len' = len
              /\ UNCHANGED <<before_link, before_len>>
  BY <1>4, StepsDown
<1>6. /\ s = 1 => LooseEnds(c, a)'
      /\ s = 0 => LooseEnds(b, c)'
  BY <1>4, <1>5, StepDownLinks
<1>7. /\ pc' = "walk" /\ UNCHANGED <<data, mf, indexed>> /\ Nodes' = Nodes /\ Root' = Root
      /\ len < tree_limit(indexed)
  BY <1>5, SteppedDown
<1>8. Root = indexed + 1 /\ indexed \in Nat /\ Root - 1 = indexed /\ N \in Nat
  BY <1>1, OnWalk
<1>9. len < Limit(Root)
  BY <1>7, <1>8 DEF Limit
<1>10. /\ Same(c, Root, len) /\ data[c + len] # data[Root + len]
       /\ data[c + len] \in Nat /\ data[Root + len] \in Nat
  BY <1>1, <1>2, <1>3, <1>5, <1>9, AgreedIsShared
<1>11. c \in Nodes /\ c \in 1 .. N
  BY <1>1, <1>4, <1>5, CandidateIsNode
<1>12. PICK t \in 0 .. 1 : t = 1 - s /\ s = 1 - t
  OBVIOUS
<1>13. Beyond(t, data[c + len], data[Root + len])
  <2>1. SortsBefore(len) <=> data[c + len] < data[Root + len]
    <3>1. c - 1 + len + 1 = c + len /\ indexed + len + 1 = Root + len
      BY <1>8, <1>11
    <3> QED
      BY <3>1, <1>5 DEF SortsBefore
  <2> QED
    BY <2>1, <1>5, <1>10, <1>12 DEF Beyond
<1>14. links \in [0 .. cyc * PerSlot - 1 -> Nat]
  BY <1>1 DEF TypeOK
<1>15. /\ c = candidate /\ candidate' = links[Link(c, 1 - t)]
       /\ \/ /\ t = 0 /\ LooseEnds(c, a)'
             /\ \A i \in 0 .. cyc * PerSlot - 1 :
                   links'[i] = IF i = before_link THEN c ELSE links[i]
             /\ before_link' = Link(c, 1) /\ before_len' = len
             /\ UNCHANGED <<after_link, after_len>>
          \/ /\ t = 1 /\ LooseEnds(b, c)'
             /\ \A i \in 0 .. cyc * PerSlot - 1 :
                   links'[i] = IF i = after_link THEN c ELSE links[i]
             /\ after_link' = Link(c, 0) /\ after_len' = len
             /\ UNCHANGED <<before_link, before_len>>
  <2>1. CASE s = 1
    <3>1. links' = [links EXCEPT ![before_link] = c] /\ t = 0
      BY <2>1, <1>5, <1>12
    <3> QED
      BY <3>1, <2>1, <1>5, <1>6, <1>12, <1>14
  <2>2. CASE s = 0
    <3>1. links' = [links EXCEPT ![after_link] = c] /\ t = 1
      BY <2>2, <1>5, <1>12
    <3> QED
      BY <3>1, <2>2, <1>5, <1>6, <1>12, <1>14
  <2> QED
    BY <2>1, <2>2
<1> QED
  BY <1>1, <1>2, <1>3, <1>7, <1>9, <1>10, <1>11, <1>13, <1>15, StepDownTrees

LEMMA StutterTrees == ASSUME LinkInv, LinkInv', Trees, UNCHANGED vars PROVE Trees'
<1>1. UNCHANGED <<data, mf, pc, links, indexed, candidate, after_link, before_link, after_len,
                  before_len>>
  BY DEF vars
<1>2. Nodes' = Nodes /\ Root' = Root
  BY <1>1, Fixed DEF Nodes, Root
<1>3. CASE ~IsTree
  BY <1>1, <1>3, Fixed DEF Trees
<1>4. CASE IsTree
  <2>1. PICK D \in Subtrees : Sorted(D) /\ (pc = "walk" => \E b, a \in Nodes : Pending(D, b, a))
    BY <1>4 DEF Trees
  <2>2. D \in Subtrees'
    BY <1>1, Fixed DEF Subtrees
  <2>3. \A c, s : Loose(c, s)' <=> Loose(c, s)
    BY <1>1, Fixed DEF Loose
  <2>4. Sorted(D)'
    BY <1>1, <1>2, <2>1, <2>3, Fixed, FixedSides DEF Sorted
  <2>5. \A b, a : LooseEnds(b, a) => LooseEnds(b, a)'
    BY <1>1, <1>2, Fixed DEF LooseEnds
  <2>6. \A s, e, len : End(D, s, e, len) => End(D, s, e, len)'
    BY <1>1, <1>2, FixedSides DEF End
  <2>7. \A b, a : Pending(D, b, a) => Pending(D, b, a)'
    <3> SUFFICES ASSUME NEW b, NEW a, Pending(D, b, a) PROVE Pending(D, b, a)'
      OBVIOUS
    <3>1. LooseEnds(b, a)'
      BY <2>5 DEF Pending
    <3>2. End(D, 0, b, before_len)' /\ End(D, 1, a, after_len)'
      BY <2>6, <1>1 DEF Pending
    <3>3. candidate' \in Nodes' => D[candidate'] \subseteq D[Root']
      BY <1>1, <1>2 DEF Pending
    <3> QED
      BY <3>1, <3>2, <3>3 DEF Pending
  <2> QED
    BY <1>1, <1>2, <2>1, <2>2, <2>4, <2>7 DEF Trees
<1> QED
  BY <1>3, <1>4

LEMMA StepTrees ==
    ASSUME LinkInv, LinkInv', Trees, [Next]_vars
    PROVE  Trees'
<1>1. CASE \/ \E p \in 0 .. N - 1 : find(p)
           \/ BeginSearch \/ TryShort2 \/ TryShort3 \/ IndexNowhere \/ SkipTree
           \/ BeginChain \/ VisitChain \/ IndexInChain \/ SkipChain \/ EndChain
  BY <1>1, QuietTrees
<1>2. CASE IndexInTree \/ BeginTree
  BY <1>2, BeginWalkTrees
<1>3. CASE CutOff \/ TakeOver
  BY <1>3, WalkEndsTrees
<1>4. CASE WalkLeft \/ WalkRight
  BY <1>4, WalkTrees
<1>5. CASE UNCHANGED vars
  BY <1>5, StutterTrees
<1> QED
  BY <1>1, <1>2, <1>3, <1>4, <1>5 DEF Next, Step

LEMMA InitTrees == ASSUME Init PROVE Trees
<1>1. LinkInv /\ Nodes = {}
  <2>1. LinkInv /\ indexed = 0 /\ pc # "walk"
    BY InitLinks DEF Init
  <2>2. N \in Nat
    BY <2>1, InputType DEF LinkInv
  <2> QED
    BY <2>1, <2>2 DEF Nodes
<1>2. [c \in 1 .. N |-> {}] \in Subtrees
  BY DEF Subtrees
<1>3. Sorted([c \in 1 .. N |-> {}]) /\ pc # "walk"
  BY <1>1 DEF Sorted, Init
<1> QED
  BY <1>2, <1>3 DEF Trees

TreeInv == LinkInv /\ Trees

LEMMA TreesHold == Spec => []TreeInv
<1>1. Init => TreeInv
  BY InitLinks, InitTrees DEF TreeInv
<1>2. TreeInv /\ [Next]_vars => TreeInv'
  <2> SUFFICES ASSUME TreeInv, [Next]_vars PROVE TreeInv'
    OBVIOUS
  <2>1. LinkInv /\ Trees
    BY DEF TreeInv
  <2>2. LinkInv'
    BY <2>1, StepLinks
  <2>3. Trees'
    BY <2>1, <2>2, StepTrees
  <2> QED
    BY <2>2, <2>3 DEF TreeInv
<1> QED
  BY <1>1, <1>2, PTL DEF Spec

-----------------------------------------------------------------------------
(* Trees are ordered: what a walk can reach under a node.                  *)

Child(c, s) ==
    LET p == 2 * ((c - 1) % cyc) IN IF s = 0 THEN links[p] ELSE links[p + 1]

\* The equation that defines Under.
Reaching(f) ==
    [c \in Position |-> IF ~Alive(c) THEN {} ELSE {c} \cup f[Child(c, 0)] \cup f[Child(c, 1)]]

LEMMA ChildType ==
    ASSUME LinkInv, IsTree, NEW c \in Position, Alive(c), NEW s \in 0 .. 1
    PROVE  Child(c, s) \in Position /\ c \in 1 .. N /\ Child(c, s) = links[Link(c, s)]
<1>1. N \in Nat /\ c \in 1 .. N /\ TypeOK
  BY InputType DEF LinkInv, Position, Alive, NONE
<1>2. Slot(c) \in 0 .. cyc - 1 /\ PerSlot = 2 /\ cyc \in Nat
  BY <1>1, SlotType, CycType DEF PerSlot
<1>3. PICK i \in 0 .. cyc * PerSlot - 1 : i = 2 * Slot(c) + s
  BY <1>2
<1>4. links[i] \in Nat /\ links[i] <= indexed /\ indexed \in 0 .. N
  BY <1>1, <1>3 DEF LinkInv, TypeOK, Back
<1>5. Child(c, s) = links[i] /\ Link(c, s) = i
  <2>1. PICK k \in Nat : k = (c - 1) % cyc /\ i = 2 * k + s
    BY <1>2, <1>3 DEF Slot
  <2>2. Link(c, s) = i
    BY <1>3 DEF Link
  <2>3. Child(c, s) = IF s = 0 THEN links[2 * k] ELSE links[2 * k + 1]
    BY <2>1 DEF Child
  <2>4. s = 0 \/ s = 1
    OBVIOUS
  <2> QED
    BY <2>1, <2>2, <2>3, <2>4
<1>6. links[i] \in Position
  BY <1>1, <1>4 DEF Position
<1> QED
  BY <1>1, <1>5, <1>6

\* The equation has a solution: what every set closed under links contains.
LEMMA UnderIs ==
    ASSUME LinkInv, IsTree
    PROVE  Under = Reaching(Under)
<1> DEFINE Closed(S) == \A y \in S : Alive(y) => Child(y, 0) \in S /\ Child(y, 1) \in S
           Reach(c) == {x \in Position : \A S \in SUBSET Position : Closed(S) /\ c \in S => x \in S}
           f == [c \in Position |-> {x \in Reach(c) : Alive(x)}]
<1>1. \A c \in Position : c \in Reach(c) /\ Closed(Reach(c)) /\ Reach(c) \in SUBSET Position
  <2> SUFFICES ASSUME NEW c \in Position
               PROVE  c \in Reach(c) /\ Closed(Reach(c)) /\ Reach(c) \in SUBSET Position
    OBVIOUS
  <2>1. c \in Reach(c) /\ Reach(c) \in SUBSET Position
    OBVIOUS
  <2>2. ASSUME NEW y \in Reach(c), Alive(y), NEW s \in 0 .. 1 PROVE Child(y, s) \in Reach(c)
    <3>1. Child(y, s) \in Position
      BY <2>2, ChildType
    <3> SUFFICES ASSUME NEW S \in SUBSET Position, Closed(S), c \in S PROVE Child(y, s) \in S
      BY <3>1
    <3>2. y \in S
      OBVIOUS
    <3>3. s = 0 \/ s = 1
      OBVIOUS
    <3> QED
      BY <3>2, <3>3, <2>2
  <2>3. ASSUME NEW y \in Reach(c), Alive(y)
        PROVE  Child(y, 0) \in Reach(c) /\ Child(y, 1) \in Reach(c)
    <3>1. 0 \in 0 .. 1 /\ 1 \in 0 .. 1
      OBVIOUS
    <3> HIDE DEF Reach
    <3> QED
      BY <2>2, <2>3, <3>1
  <2>4. Closed(Reach(c))
    <3> HIDE DEF Reach
    <3> QED
      BY <2>3
  <2> QED
    BY <2>1, <2>4
<1>2. ASSUME NEW c \in Position, NEW S \in SUBSET Position, Closed(S), c \in S
      PROVE  Reach(c) \subseteq S
  BY <1>2
<1> HIDE DEF Reach
<1>3. ASSUME NEW c \in Position
      PROVE  f[c] = IF ~Alive(c) THEN {} ELSE {c} \cup f[Child(c, 0)] \cup f[Child(c, 1)]
  <2>1. CASE ~Alive(c)
    <3>1. Closed({c}) /\ {c} \in SUBSET Position
      BY <2>1
    <3>2. Reach(c) \subseteq {c}
      <4> HIDE DEF Closed
      <4> QED
        BY <3>1, <1>2
    <3> QED
      BY <3>2, <2>1
  <2>2. CASE Alive(c)
    <3>1. PICK l \in Position, r \in Position : l = Child(c, 0) /\ r = Child(c, 1)
      BY <2>2, ChildType
    <3>2. {c} \cup Reach(l) \cup Reach(r) \in SUBSET Position
      BY <1>1
    <3>3. Closed({c} \cup Reach(l) \cup Reach(r))
      BY <3>1, <1>1
    <3>4. Reach(c) \subseteq {c} \cup Reach(l) \cup Reach(r)
      <4> HIDE DEF Closed
      <4> QED
        BY <3>2, <3>3, <1>2
    <3>5. l \in Reach(c) /\ r \in Reach(c)
      BY <3>1, <2>2, <1>1
    <3>6. Reach(l) \subseteq Reach(c) /\ Reach(r) \subseteq Reach(c)
      <4> HIDE DEF Closed
      <4> QED
        BY <3>5, <1>1, <1>2
    <3>7. f[c] = {c} \cup f[l] \cup f[r]
      BY <3>4, <3>6, <1>1, <2>2
    <3> QED
      BY <3>1, <3>7, <2>2
  <2> QED
    BY <2>1, <2>2
<1>4. f = Reaching(f)
  <2> HIDE DEF f
  <2>1. f = [c \in Position |-> f[c]]
    BY DEF f
  <2> QED
    BY <1>3, <2>1 DEF Reaching
<1>5. Under = CHOOSE g : g = Reaching(g)
  <2>1. \A c : /\ Child(c, 0) = links[2 * ((c - 1) % cyc)]
               /\ Child(c, 1) = links[2 * ((c - 1) % cyc) + 1]
    BY DEF Child
  <2>2. \A g : Reaching(g) =
          [c \in Position |-> IF ~Alive(c) THEN {}
             ELSE {c} \cup g[links[2 * ((c - 1) % cyc)]]
                     \cup g[links[2 * ((c - 1) % cyc) + 1]]]
    BY <2>1 DEF Reaching
  <2>3. Under = CHOOSE g : g =
          [c \in Position |-> IF ~Alive(c) THEN {}
             ELSE {c} \cup g[links[2 * ((c - 1) % cyc)]]
                     \cup g[links[2 * ((c - 1) % cyc) + 1]]]
    BY DEF Under
  <2> QED
    BY <2>2, <2>3
<1> HIDE DEF f
<1> QED
  BY <1>4, <1>5

LEMMA UnderNodes ==
    ASSUME LinkInv, IsTree, pc # "walk", NEW D \in Subtrees, Sorted(D)
    PROVE  /\ \A c \in Nodes : Under[c] \subseteq D[c] \cap Nodes
           /\ \A c \in Nodes : \A s \in 0 .. 1 : \A x \in Under[Child(c, s)] : Sides(s, x, c)
<1>1. N \in Nat /\ indexed \in Nat /\ indexed <= N
  BY InputType DEF LinkInv, TypeOK
<1>2. \A c \in Nodes : c \in 1 .. N /\ c \in Position /\ Alive(c) /\ c <= indexed /\ Has(c - 1, 4)
  BY <1>1 DEF Nodes, Position, Alive, NONE
<1>3. \A c \in Position :
          Under[c] = IF ~Alive(c) THEN {} ELSE {c} \cup Under[Child(c, 0)] \cup Under[Child(c, 1)]
  BY UnderIs DEF Reaching
<1>4. ASSUME NEW c \in Nodes, NEW s \in 0 .. 1
      PROVE  /\ Child(c, s) \in Nat /\ Child(c, s) < c
             /\ Child(c, s) \in Nodes \/ Under[Child(c, s)] = {}
             /\ Child(c, s) \in Nodes => \A x \in D[Child(c, s)] : x \in D[c] /\ Sides(s, x, c)
  <2>1. Child(c, s) \in Position /\ Child(c, s) = links[Link(c, s)]
    BY <1>2, ChildType
  <2>2. Child(c, s) \in Nat /\ Child(c, s) < c
    BY <2>1, <1>1 DEF LinkInv, Back, Position
  <2>3. Alive(Child(c, s)) => Child(c, s) \in Nodes
    <3> HAVE Alive(Child(c, s))
    <3>1. PICK l \in 1 .. N : l = Child(c, s) /\ InWindow(l, indexed)
      BY <2>1, <1>1 DEF Position, Alive, NONE
    <3>2. l <= indexed /\ Has(l - 1, 4)
      BY <3>1, <2>2, <1>1, <1>2 DEF Has
    <3> QED
      BY <3>1, <3>2 DEF Nodes
  <2>4. ~Alive(Child(c, s)) => Under[Child(c, s)] = {}
    BY <2>1, <1>3
  <2>5. ~Loose(c, s)
    BY DEF Loose
  <2>6. Child(c, s) \in Nodes => \A x \in D[Child(c, s)] : x \in D[c] /\ Sides(s, x, c)
    BY <2>1, <2>5 DEF Sorted
  <2> QED
    BY <2>2, <2>3, <2>4, <2>6
<1>5. \A c \in Nodes : Under[c] \subseteq D[c] \cap Nodes
  <2> DEFINE Bad == {c \in Nodes : ~(Under[c] \subseteq D[c] \cap Nodes)}
  <2> SUFFICES ASSUME NEW b \in Bad PROVE FALSE
    OBVIOUS
  <2>1. Bad \in SUBSET Nat
    BY <1>2
  <2>2. PICK c \in Bad : \A d \in Bad : c <= d
    <3> HIDE DEF Bad
    <3> QED
      BY <2>1, LeastNat
  <2>3. c \in Nodes /\ ~(Under[c] \subseteq D[c] \cap Nodes) /\ c \in Nat
    BY <1>2
  <2>4. ASSUME NEW s \in 0 .. 1 PROVE Under[Child(c, s)] \subseteq D[c] \cap Nodes
    <3>1. CASE Child(c, s) \in Nodes
      <4>1. ~(Child(c, s) \in Bad)
        BY <2>2, <2>3, <1>4
      <4> QED
        BY <4>1, <3>1, <2>3, <1>4
    <3>2. CASE Under[Child(c, s)] = {}
      BY <3>2
    <3> QED
      BY <3>1, <3>2, <2>3, <1>4
  <2>5. c \in D[c]
    BY <2>3 DEF Sorted
  <2>6. Under[c] = {c} \cup Under[Child(c, 0)] \cup Under[Child(c, 1)]
    BY <2>3, <1>2, <1>3
  <2>7. /\ Under[Child(c, 0)] \subseteq D[c] \cap Nodes
        /\ Under[Child(c, 1)] \subseteq D[c] \cap Nodes
    BY <2>4
  <2> QED
    BY <2>3, <2>5, <2>6, <2>7
<1>6. ASSUME NEW c \in Nodes, NEW s \in 0 .. 1, NEW x \in Under[Child(c, s)]
      PROVE  Sides(s, x, c)
  <2>1. Child(c, s) \in Nodes
    BY <1>4, <1>6
  <2>2. x \in D[Child(c, s)]
    BY <2>1, <1>5, <1>6
  <2> QED
    BY <2>1, <2>2, <1>4
<1> QED
  BY <1>5, <1>6

\* Between walks every bucket is a search tree of positions with its hash: all
\* of a left subtree sorts before its root, all of a right subtree after it.
THEOREM TreesAlwaysOrdered == Spec => []TreesOrdered
<1>1. TreeInv => TreesOrdered
  <2> SUFFICES ASSUME LinkInv, Trees, IsTree, pc # "walk",
                      NEW h \in Slots4, NEW cand \in Under[head4[h]]
               PROVE  /\ key4(cand - 1) = h
                      /\ \A l \in Under[links[2 * ((cand - 1) % cyc)]] : SortsLeft(l, cand)
                      /\ \A r \in Under[links[2 * ((cand - 1) % cyc) + 1]] : SortsRight(r, cand)
    BY DEF TreesOrdered, TreeInv
  <2>1. PICK D \in Subtrees : Sorted(D)
    BY DEF Trees
  <2>2. N \in Nat /\ indexed \in Nat /\ indexed <= N
    BY InputType DEF LinkInv, TypeOK
  <2>3. \A c \in Position : Under[c] = IF ~Alive(c) THEN {}
          ELSE {c} \cup Under[Child(c, 0)] \cup Under[Child(c, 1)]
    BY UnderIs DEF Reaching
  <2>4. PICK r \in Nat : /\ r = head4[h]
                         /\ r # NONE => r <= indexed /\ Has(r - 1, 4) /\ key4(r - 1) = h
    BY DEF LinkInv, TypeOK, Heads
  <2>5. r \in Position
    BY <2>2, <2>4 DEF Position, NONE
  <2>6. Alive(r)
    BY <2>3, <2>4, <2>5
  <2>7. r \in Nodes /\ key4(r - 1) = h
    BY <2>2, <2>4, <2>5, <2>6 DEF Nodes, Alive, NONE
  <2>8. cand \in D[r] /\ cand \in Nodes
    BY <2>1, <2>4, <2>7, UnderNodes
  <2>9. key4(cand - 1) = h
    BY <2>1, <2>7, <2>8 DEF Sorted
  <2>10. cand \in Nodes
    BY <2>8
  <2>11. /\ links[2 * ((cand - 1) % cyc)] = Child(cand, 0)
         /\ links[2 * ((cand - 1) % cyc) + 1] = Child(cand, 1)
    BY DEF Child
  <2> QED
    BY <2>1, <2>9, <2>10, <2>11, UnderNodes DEF Sides
<1> QED
  BY <1>1, TreesHold, PTL

-----------------------------------------------------------------------------
(* Matches are exact: the invariant.                                       *)

ExactMatch(e) ==
    /\ e.dist \in 1 .. at /\ e.dist <= mf.window
    /\ e.len \in 2 .. max_len /\ Agree(at - e.dist, at, max_len, e.len)

AllExact(m) ==
    /\ \A i \in 1 .. Len(m) : ExactMatch(m[i])
    /\ \A i \in 1 .. Len(m) - 1 : m[i].len < m[i + 1].len /\ m[i].dist < m[i + 1].dist

\* The heads of short strings are the latest of their strings.
Latest ==
    /\ \A q \in 0 .. indexed - 1 : Has(q, 2) => q + 1 <= head2[key2(q)]
    /\ \A q \in 0 .. indexed - 1 : Has(q, 3) => q + 1 <= head3[key3(q)]

\* May the search for matches at `at` report some more?
Reporting == pc \in {"short2", "short3", "long", "chain"} \/ (pc = "walk" /\ record)

LastLen == IF out = <<>> THEN 1 ELSE out[Len(out)].len
LastDist == out[Len(out)].dist

\* What is longer than the last match is further away: it was the latest of
\* its short string, or it was met on the way that goes on to candidate.
NoneNearer ==
    best < max_len => \A q \in 0 .. at - 1 : SameBytes(q, at, best + 1) => at - q > LastDist
Further == candidate # NONE /\ budget # 0 => at - (candidate - 1) > LastDist

Exact ==
    /\ AllExact(out)
    /\ pc \in {"index", "short2"} \/ (pc = "walk" /\ indexed < at) => out = <<>>
    /\ Reporting => best = LastLen
    /\ Reporting /\ out # <<>> => NoneNearer \/ (pc \in {"chain", "walk"} /\ Further)
    /\ pc = "walk" /\ record => best < tree_limit(at)

MatchInv == TreeInv /\ Latest /\ Exact

-----------------------------------------------------------------------------
(* Matches are exact: lemmas.                                              *)

LEMMA MaxLenType ==
    ASSUME TypeOK, at < N
    PROVE  /\ max_len \in Nat /\ max_len <= N - at /\ max_len <= MAX_LEN /\ max_len >= 1
           /\ N \in Nat /\ at \in Nat /\ tree_limit(at) \in Nat /\ tree_limit(at) <= max_len
           /\ tree_limit(at) >= 1
<1>1. N \in Nat /\ at \in Nat /\ MAX_LEN \in Nat \ {0} /\ mf.nice_len \in Nat \ {0}
      /\ mf.nice_len <= MAX_LEN
  BY InputType, ConstantAssumption DEF TypeOK
<1> QED
  BY <1>1 DEF max_len, tree_limit, Smaller

LEMMA EarlierIsFurther ==
    ASSUME NEW p \in Nat, NEW n \in Nat, NEW k \in Nat, n < k
    PROVE  p - (n - 1) > p - (k - 1)
  OBVIOUS

LEMMA AllExactNext ==
    ASSUME data' = data, mf' = mf, at' = at, NEW m, m = out', AllExact(m)
    PROVE  AllExact(out)'
<1>1. max_len' = max_len
  BY DEF max_len, N
<1> QED
  BY <1>1 DEF AllExact, ExactMatch, Agree, SameBytes

\* The last match is longer than one byte.
LEMMA LastType ==
    ASSUME TypeOK, AllExact(out), at < N
    PROVE  /\ LastLen \in Nat /\ LastLen >= 1 /\ LastLen <= max_len
           /\ out # <<>> => /\ LastDist \in Nat /\ Len(out) \in 1 .. Len(out)
                            /\ ExactMatch(out[Len(out)])
<1>1. out \in Seq(Entry) /\ max_len \in Nat /\ max_len >= 1
  BY MaxLenType DEF TypeOK
<1>2. CASE out = <<>>
  BY <1>1, <1>2 DEF LastLen
<1>3. CASE out # <<>>
  <2>1. Len(out) \in 1 .. Len(out)
    BY <1>1, <1>3
  <2>2. ExactMatch(out[Len(out)])
    BY <2>1 DEF AllExact
  <2> QED
    BY <1>1, <1>3, <2>1, <2>2, MaxLenType DEF LastLen, LastDist, ExactMatch
<1> QED
  BY <1>2, <1>3

\* A longer match that is further away may be reported.
LEMMA ReportedExact ==
    ASSUME TypeOK, AllExact(out), at < N, NEW len \in Nat, NEW dist \in Nat,
           ExactMatch([len |-> len, dist |-> dist]), LastLen < len,
           out # <<>> => LastDist < dist
    PROVE  AllExact(Reported(len, dist))
<1>1. PICK m \in Seq(Entry), e \in Entry, n \in Nat :
        /\ m = Reported(len, dist) /\ e = [len |-> len, dist |-> dist] /\ n = Len(out)
        /\ Len(m) = n + 1 /\ m[n + 1] = e /\ \A i \in 1 .. n : m[i] = out[i]
        /\ e.len = len /\ e.dist = dist
  <2>1. /\ Reported(len, dist) \in Seq(Entry) /\ Len(Reported(len, dist)) = Len(out) + 1
        /\ Reported(len, dist)[Len(out) + 1] = [len |-> len, dist |-> dist]
        /\ \A i \in 1 .. Len(out) : Reported(len, dist)[i] = out[i]
    BY ReportedType DEF TypeOK
  <2>2. [len |-> len, dist |-> dist] \in Entry /\ Len(out) \in Nat
    BY DEF Entry, TypeOK
  <2> QED
    BY <2>1, <2>2
<1>2. ASSUME NEW i \in 1 .. Len(m) PROVE ExactMatch(m[i])
  <2>1. CASE i = n + 1
    BY <1>1, <2>1
  <2>2. CASE i # n + 1
    <3>1. i \in 1 .. n
      BY <1>1, <2>2
    <3> QED
      BY <3>1, <1>1 DEF AllExact
  <2> QED
    BY <2>1, <2>2
<1>3. ASSUME NEW i \in 1 .. Len(m) - 1 PROVE m[i].len < m[i + 1].len /\ m[i].dist < m[i + 1].dist
  <2>1. i \in 1 .. n /\ m[i] = out[i]
    BY <1>1
  <2>2. CASE i = n
    <3>1. m[i + 1] = e /\ out # <<>>
      BY <1>1, <2>1, <2>2
    <3>2. out[i].len < len /\ out[i].dist < dist
      BY <3>1, <1>1, <2>2 DEF LastLen, LastDist
    <3> QED
      BY <3>1, <3>2, <2>1, <1>1
  <2>3. CASE i # n
    <3>1. i \in 1 .. Len(out) - 1 /\ i + 1 \in 1 .. n
      BY <1>1, <2>1, <2>3
    <3>2. m[i + 1] = out[i + 1]
      BY <3>1, <1>1
    <3> QED
      BY <3>1, <3>2, <2>1 DEF AllExact
  <2> QED
    BY <2>2, <2>3
<1> QED
  BY <1>1, <1>2, <1>3 DEF AllExact

\* A longer match at q is further away, if nothing longer is nearer.
LEMMA LongerIsFurther ==
    ASSUME TypeOK, AllExact(out), at < N, best = LastLen, NEW q \in 0 .. at - 1, NEW len \in Nat,
           best < len, len <= max_len, SameBytes(q, at, len), out # <<>>, NoneNearer
    PROVE  LastDist < at - q
<1>1. max_len \in Nat /\ best \in Nat
  BY MaxLenType, LastType
<1>2. SameBytes(q, at, best + 1)
  <2>1. \A k \in 0 .. (best + 1) - 1 : k \in 0 .. len - 1
    BY <1>1
  <2> QED
    BY <2>1 DEF SameBytes
<1>3. at - q > LastDist
  BY <1>1, <1>2 DEF NoneNearer
<1>4. LastDist \in Nat /\ at \in Nat
  BY LastType DEF TypeOK
<1> QED
  BY <1>3, <1>4

\* What is visited and found longer is an exact match.
LEMMA FoundExact ==
    ASSUME TypeOK, AllExact(out), at < N, best = LastLen, NEW q \in 0 .. at - 1, NEW len \in Nat,
           at - q <= mf.window, best < len, len <= max_len, Agree(q, at, max_len, len),
           out # <<>> => NoneNearer \/ LastDist < at - q
    PROVE  AllExact(Reported(len, at - q))
<1>1. at \in Nat /\ LastLen \in Nat /\ LastLen >= 1 /\ max_len \in Nat
  BY LastType, MaxLenType
<1>2. PICK d \in Nat : d = at - q /\ d \in 1 .. at /\ at - d = q /\ len \in 2 .. max_len
  BY <1>1
<1>3. ExactMatch([len |-> len, dist |-> d])
  BY <1>2 DEF ExactMatch
<1>4. out # <<>> => LastDist < d
  BY <1>2, LongerIsFurther DEF Agree
<1> QED
  BY <1>2, <1>3, <1>4, ReportedExact

\* The end of find changes nothing about matches that are exact.
LEMMA ExtendedIsOut ==
    ASSUME TypeOK, AllExact(out), at < N
    PROVE  Extended(out) = out
<1>1. out \in Seq(Entry) /\ Extended(out) \in Seq(Entry) /\ Len(Extended(out)) = Len(out)
  BY ExtendedType DEF TypeOK
<1>2. ASSUME NEW i \in 1 .. Len(out) PROVE Extended(out)[i] = out[i]
  <2>1. CASE i # Len(out) \/ ~(out[i].len = tree_limit(at) /\ tree_limit(at) < max_len)
    BY <2>1, ExtendedType DEF TypeOK
  <2>2. CASE i = Len(out) /\ out[i].len = tree_limit(at) /\ tree_limit(at) < max_len
    <3>1. out # <<>>
      BY <1>1
    <3>2. Extended(out)[i] = [len  |-> match_len(at - out[i].dist, at, max_len),
                              dist |-> out[i].dist]
      BY <3>1, <2>2, ExtendedType DEF TypeOK
    <3>3. out[i] \in Entry /\ ExactMatch(out[i]) /\ max_len \in Nat
      BY <1>1, MaxLenType DEF AllExact
    <3>4. match_len(at - out[i].dist, at, max_len) = out[i].len
      <4>1. PICK c \in Int, len \in 0 .. max_len : /\ c = at - out[i].dist /\ len = out[i].len
                                                   /\ Agree(c, at, max_len, len)
        BY <3>3, MaxLenType DEF ExactMatch
      <4>2. PICK l \in 0 .. max_len : /\ l = match_len(c, at, max_len)
                                      /\ Agree(c, at, max_len, l)
        BY <3>3, MatchLen
      <4>3. l = len
        BY <4>1, <4>2, <3>3, AgreeOnce
      <4> QED
        BY <4>1, <4>2, <4>3
    <3>5. out[i] = [len |-> out[i].len, dist |-> out[i].dist]
      BY <3>3 DEF Entry
    <3> QED
      BY <3>2, <3>4, <3>5
  <2> QED
    BY <2>1, <2>2
<1> QED
  BY <1>1, <1>2

\* The latest of a string stays so when a position gets its heads.
LEMMA LatestKept ==
    ASSUME LinkInv, Latest, UNCHANGED <<data, mf>>,
           \/ UNCHANGED <<head2, head3, indexed>>
           \/ update_short_heads(indexed) /\ indexed' = indexed + 1
    PROVE  Latest'
<1>1. TypeOK /\ N \in Nat /\ indexed \in Nat
  BY InputType DEF LinkInv, TypeOK
<1>2. CASE UNCHANGED <<head2, head3, indexed>>
  BY <1>2, Fixed DEF Latest
<1>3. CASE update_short_heads(indexed) /\ indexed' = indexed + 1
  <2>1. PICK p \in Nat : p = indexed /\ indexed' = p + 1
    BY <1>1, <1>3
  <2>2. ASSUME NEW q \in 0 .. indexed' - 1, Has(q, 2) PROVE q + 1 <= head2'[key2(q)]
    <3>1. key2(q) \in [1 .. 2 -> Byte] /\ q \in Nat /\ q <= p
      BY <2>1, <2>2, <1>1, KeyTypes
    <3>2. head2[key2(q)] \in Nat /\ head2[key2(q)] <= p
      BY <3>1, <2>1, <1>1 DEF LinkInv, TypeOK, Heads
    <3>3. q < p => q + 1 <= head2[key2(q)]
      BY <2>1, <2>2, <3>1 DEF Latest
    <3>4. head2' = IF Has(p, 2) THEN [head2 EXCEPT ![key2(p)] = p + 1] ELSE head2
      BY <1>3, <2>1 DEF update_short_heads
    <3>5. head2 \in [[1 .. 2 -> Byte] -> Nat]
      BY <1>1 DEF TypeOK
    <3>6. CASE q = p
      BY <3>1, <3>4, <3>5, <3>6, <2>2
    <3>7. CASE q # p
      <4>1. q < p
        BY <3>1, <3>7
      <4>2. head2'[key2(q)] = head2[key2(q)] \/ head2'[key2(q)] = p + 1
        BY <3>1, <3>4, <3>5
      <4> QED
        BY <4>1, <4>2, <3>1, <3>2, <3>3
    <3> QED
      BY <3>6, <3>7
  <2>3. ASSUME NEW q \in 0 .. indexed' - 1, Has(q, 3) PROVE q + 1 <= head3'[key3(q)]
    <3>1. key3(q) \in Slots3 /\ q \in Nat /\ q <= p
      BY <2>1, <2>3, <1>1, KeyTypes
    <3>2. head3[key3(q)] \in Nat /\ head3[key3(q)] <= p
      BY <3>1, <2>1, <1>1 DEF LinkInv, TypeOK, Heads
    <3>3. q < p => q + 1 <= head3[key3(q)]
      BY <2>1, <2>3, <3>1 DEF Latest
    <3>4. head3' = IF Has(p, 3) THEN [head3 EXCEPT ![key3(p)] = p + 1] ELSE head3
      BY <1>3, <2>1 DEF update_short_heads
    <3>5. head3 \in [Slots3 -> Nat]
      BY <1>1 DEF TypeOK
    <3>6. CASE q = p
      BY <3>1, <3>4, <3>5, <3>6, <2>3
    <3>7. CASE q # p
      <4>1. q < p
        BY <3>1, <3>7
      <4>2. head3'[key3(q)] = head3[key3(q)] \/ head3'[key3(q)] = p + 1
        BY <3>1, <3>4, <3>5
      <4> QED
        BY <4>1, <4>2, <3>1, <3>2, <3>3
    <3> QED
      BY <3>6, <3>7
  <2> QED
    BY <2>2, <2>3, Fixed DEF Latest
<1> QED
  BY <1>2, <1>3

-----------------------------------------------------------------------------
(* Matches are exact: the steps.                                           *)

LEMMA LatestStep == ASSUME LinkInv, Latest, [Next]_vars PROVE Latest'
<1>1. CASE \/ \E p \in 0 .. N - 1 : find(p)
           \/ BeginSearch \/ TryShort2 \/ TryShort3 \/ BeginChain \/ VisitChain
           \/ IndexInTree \/ BeginTree \/ WalkLeft \/ WalkRight \/ UNCHANGED vars
  <2>1. UNCHANGED <<data, mf>> /\ UNCHANGED <<head2, head3, indexed>>
    BY <1>1 DEF find, BeginSearch, TryShort2, TryShort3, TryShort, BeginChain, VisitChain,
                IndexInTree, BeginTree, WalkLeft, WalkRight, StepDown, tables, vars
  <2> QED
    BY <2>1, LatestKept
<1>2. CASE \/ IndexInChain \/ IndexNowhere \/ SkipChain \/ EndChain \/ SkipTree
           \/ CutOff \/ TakeOver
  <2>1. UNCHANGED <<data, mf>> /\ update_short_heads(indexed) /\ indexed' = indexed + 1
    <3>1. CASE IndexInChain \/ IndexNowhere
      BY <3>1 DEF IndexInChain, IndexNowhere
    <3>2. CASE SkipChain \/ EndChain
      <4>1. at = indexed
        BY <3>2 DEF SkipChain, EndChain, LinkInv, Control
      <4> QED
        BY <4>1, <3>2 DEF SkipChain, EndChain, Return
    <3>3. CASE SkipTree \/ CutOff \/ TakeOver
      BY <3>3 DEF SkipTree, CutOff, TakeOver, LeaveWalk
    <3> QED
      BY <1>2, <3>1, <3>2, <3>3
  <2> QED
    BY <2>1, LatestKept
<1> QED
  BY <1>1, <1>2 DEF Next, Step

\* Nothing is reported, and what was is exact.
LEMMA QuietExact ==
    ASSUME AllExact(out)', ~Reporting', pc' # "short2",
           pc' \in {"index", "walk"} => out' = <<>> \/ (pc' = "walk" /\ ~(indexed' < at'))
    PROVE  Exact'
<1>1. ~(pc' = "walk" /\ record')
  BY DEF Reporting
<1> QED
  BY <1>1 DEF Exact

\* Steps that leave `out` alone and report nothing next.
LEMMA IndexingExact ==
    ASSUME LinkInv, LinkInv', Exact,
           IndexInChain \/ IndexInTree \/ IndexNowhere \/ SkipChain \/ EndChain
    PROVE  Exact'
<1>1. UNCHANGED <<data, mf, at, out>> /\ pc' # "short2"
  BY DEF IndexInChain, IndexInTree, IndexNowhere, SkipChain, EndChain, Return, search, BeginWalk
<1>2. AllExact(out)'
  BY <1>1, AllExactNext DEF Exact
<1>3. ~Reporting'
  BY DEF IndexInChain, IndexInTree, IndexNowhere, SkipChain, EndChain, Return, BeginWalk, Reporting
<1>4. pc' \in {"index", "walk"} => out' = <<>>
  <2>1. pc' \in {"index", "walk"} => pc = "index"
    BY DEF IndexInChain, IndexInTree, IndexNowhere, SkipChain, EndChain, Return
  <2> QED
    BY <2>1, <1>1 DEF Exact
<1> QED
  BY <1>1, <1>2, <1>3, <1>4, QuietExact

LEMMA FindExact == ASSUME LinkInv, NEW p \in 0 .. N - 1, find(p) PROVE Exact'
<1>1. out' = <<>> /\ pc' = "index"
  BY DEF find
<1>2. AllExact(out)'
  BY <1>1 DEF AllExact
<1> QED
  BY <1>1, <1>2, QuietExact DEF Reporting

LEMMA BeginSearchExact == ASSUME LinkInv, Exact, BeginSearch PROVE Exact'
<1>1. out' = <<>> /\ pc' = "short2" /\ best' = 1
  BY DEF BeginSearch, Exact
<1>2. AllExact(out)'
  BY <1>1 DEF AllExact
<1> QED
  BY <1>1, <1>2 DEF Exact, LastLen

\* `out` and best are as they were.
LEMMA SearchKept ==
    ASSUME Exact, UNCHANGED <<data, mf, at, out, best>>
    PROVE  /\ AllExact(out)' /\ LastLen' = LastLen /\ LastDist' = LastDist
           /\ NoneNearer => NoneNearer'
<1>1. AllExact(out)'
  BY AllExactNext DEF Exact
<1>2. LastLen' = LastLen /\ LastDist' = LastDist
  BY DEF LastLen, LastDist
<1>3. max_len' = max_len
  BY DEF max_len, N
<1>4. NoneNearer => NoneNearer'
  BY <1>2, <1>3 DEF NoneNearer, SameBytes
<1> QED
  BY <1>1, <1>2, <1>4

\* A match was reported.
LEMMA JustReported ==
    ASSUME TypeOK, NEW len \in Nat, NEW dist \in Nat, out' = Reported(len, dist)
    PROVE  out' # <<>> /\ LastLen' = len /\ LastDist' = dist
<1>1. PICK m \in Seq(Entry), n \in Nat :
        /\ m = out' /\ n = Len(out) /\ Len(m) = n + 1
        /\ m[n + 1] = [len |-> len, dist |-> dist]
  BY ReportedType DEF TypeOK
<1>2. m # <<>> /\ m[Len(m)].len = len /\ m[Len(m)].dist = dist
  BY <1>1
<1> QED
  BY <1>1, <1>2 DEF LastLen, LastDist

\* The latest position of a short string is looked at.
LEMMA TryShortExact ==
    ASSUME LinkInv, Exact, NEW here, NEW next, NEW c \in Nat, TryShort(here, next, c), c <= at,
           here \in {"short2", "short3"}, next \in {"short3", "long"},
           c # NONE => \A q \in 0 .. at - 1, len \in Nat :
                         len > 1 /\ len < max_len /\ SameBytes(q, at, len + 1) => q <= c - 1
    PROVE  Exact'
<1>1. /\ pc = here /\ pc' = next
      /\ UNCHANGED <<data, mf, tables, links, indexed, at>>
  BY DEF TryShort
<1>2. /\ TypeOK /\ max_len \in Nat /\ at \in Nat /\ at < N /\ N \in Nat
      /\ LastLen \in Nat /\ LastLen >= 1
      /\ best = LastLen /\ AllExact(out) /\ (out # <<>> => NoneNearer)
  <2>1. TypeOK /\ at < N /\ AllExact(out)
    BY <1>1 DEF LinkInv, Control, Exact
  <2>2. best = LastLen /\ (out # <<>> => NoneNearer)
    BY <1>1 DEF Exact, Reporting
  <2> QED
    BY <2>1, <2>2, LastType, MaxLenType
<1> DEFINE len == match_len(c - 1, at, max_len)
<1>3. len \in 0 .. max_len /\ Agree(c - 1, at, max_len, len)
  BY <1>2, MatchLen
<1>4. \/ c # NONE /\ BeatsShort(c, len) /\ out' = Reported(len, at - (c - 1)) /\ best' = len
      \/ UNCHANGED <<out, best>>
  BY DEF TryShort
<1> HIDE DEF len
<1>5. CASE UNCHANGED <<out, best>>
  <2>1. /\ AllExact(out)' /\ LastLen' = LastLen
        /\ NoneNearer => NoneNearer'
    BY <1>1, <1>5, SearchKept
  <2> QED
    BY <2>1, <1>1, <1>2, <1>5 DEF Exact
<1>6. CASE c # NONE /\ BeatsShort(c, len) /\ out' = Reported(len, at - (c - 1)) /\ best' = len
  <2>1. PICK q \in 0 .. at - 1 : q = c - 1
    BY <1>2, <1>6 DEF NONE
  <2>2. best < len /\ len \in Nat /\ len <= max_len /\ at - q <= mf.window
    BY <1>2, <1>3, <1>6, <2>1 DEF BeatsShort, InWindow
  <2>3. AllExact(Reported(len, at - q))
    BY <1>2, <1>3, <2>1, <2>2, FoundExact
  <2>4. AllExact(out)'
    BY <2>1, <2>3, <1>1, <1>6, AllExactNext
  <2>5. at - q \in Nat /\ out' = Reported(len, at - q)
    BY <1>2, <1>6, <2>1
  <2>6. out' # <<>> /\ LastLen' = len /\ LastDist' = at - q
    BY <1>2, <2>2, <2>5, JustReported
  <2>7. NoneNearer'
    <3>1. max_len' = max_len
      BY <1>1 DEF max_len, N
    <3> SUFFICES ASSUME len < max_len, NEW p \in 0 .. at - 1, SameBytes(p, at, len + 1)
                 PROVE  at - p > at - q
      BY <3>1, <2>6, <1>1, <1>6 DEF NoneNearer, SameBytes
    <3>2. data[p + len + 1] = data[at + len + 1]
      <4>1. len \in 0 .. (len + 1) - 1
        BY <2>2
      <4> QED
        BY <4>1 DEF SameBytes
    <3>3. data[q + len + 1] # data[at + len + 1]
      BY <1>3, <2>1 DEF Agree
    <3>4. p # q
      BY <3>2, <3>3
    <3>5. len > 1
      BY <2>2, <1>2
    <3>6. p <= c - 1
      BY <3>5, <2>2, <1>6
    <3> QED
      BY <3>4, <3>6, <2>1, <1>2
  <2> QED
    BY <2>4, <2>6, <2>7, <1>1, <1>6 DEF Exact
<1> QED
  BY <1>4, <1>5, <1>6

LEMMA TryShortsExact ==
    ASSUME LinkInv, Latest, Exact, TryShort2 \/ TryShort3
    PROVE  Exact'
<1>1. pc \in {"short2", "short3"}
  BY DEF TryShort2, TryShort3, TryShort
<1>2. /\ N \in Nat /\ at \in Nat /\ at < N /\ indexed = at /\ max_len \in Nat
      /\ max_len <= N - at
      /\ Short2 \in Nat /\ Short2 <= at
      /\ Short3 \in Nat /\ Short3 <= at
      /\ max_len >= 2 => Has(at, 2) /\ Short2 = head2[key2(at)]
      /\ max_len >= 3 => Has(at, 3) /\ Short3 = head3[key3(at)]
  BY <1>1, HeadIsBefore
<1>3. TypeOK /\ best \in Nat
  BY DEF LinkInv, TypeOK
<1>4. ASSUME NEW q \in 0 .. at - 1, NEW len \in Nat, len <= max_len, SameBytes(q, at, len)
      PROVE  /\ len >= 2 => q <= Short2 - 1
             /\ len >= 3 => q <= Short3 - 1
  <2>1. q \in Nat /\ (len >= 2 => Has(q, 2)) /\ (len >= 3 => Has(q, 3))
    BY <1>2, <1>4 DEF Has
  <2>2. (len >= 2 => key2(q) = key2(at)) /\ (len >= 3 => key3(q) = key3(at))
    BY <2>1, <1>2, <1>3, <1>4, SameKeys
  <2>3. len >= 2 => q + 1 <= Short2
    BY <2>1, <2>2, <1>2, <1>4 DEF Latest
  <2>4. len >= 3 => q + 1 <= Short3
    BY <2>1, <2>2, <1>2, <1>4 DEF Latest
  <2> QED
    BY <2>1, <2>3, <2>4, <1>2
<1>5. CASE TryShort2
  <2>1. ASSUME NEW q \in 0 .. at - 1, NEW len \in Nat, len > 1, len < max_len,
               SameBytes(q, at, len + 1)
        PROVE  q <= Short2 - 1
    BY <2>1, <1>2, <1>4
  <2> QED
    BY <2>1, <1>2, <1>5, TryShortExact DEF TryShort2
<1>6. CASE TryShort3
  <2>1. PICK c \in Nat : c = (IF Short3 = Short2 THEN NONE ELSE Short3) /\ c <= at
    BY <1>2 DEF NONE
  <2>2. TryShort("short3", "long", c)
    BY <1>6, <2>1 DEF TryShort3
  <2>3. ASSUME c # NONE, NEW q \in 0 .. at - 1, NEW len \in Nat, len > 1, len < max_len,
               SameBytes(q, at, len + 1)
        PROVE  q <= c - 1
    BY <2>1, <2>3, <1>2, <1>4
  <2> QED
    BY <2>1, <2>2, <2>3, TryShortExact
<1> QED
  BY <1>5, <1>6

LEMMA BeginExact ==
    ASSUME LinkInv, Exact, BeginChain \/ BeginTree
    PROVE  Exact'
<1>1. /\ pc = "long" /\ UNCHANGED <<data, mf, at, out, best, indexed>>
      /\ indexed = at /\ TypeOK /\ at \in Nat
      /\ pc' = "chain" \/ (pc' = "walk" /\ record' = (best < tree_limit(at)))
  BY DEF BeginChain, BeginTree, BeginWalk, LinkInv, Control, TypeOK
<1>2. /\ AllExact(out)' /\ LastLen' = LastLen
      /\ NoneNearer => NoneNearer'
  BY <1>1, SearchKept
<1>3. best = LastLen /\ (out # <<>> => NoneNearer)
  BY <1>1 DEF Exact, Reporting
<1>4. ~(indexed' < at') /\ tree_limit(at)' = tree_limit(at)
  BY <1>1 DEF tree_limit, N
<1> QED
  BY <1>1, <1>2, <1>3, <1>4 DEF Exact

\* The next of a chain is looked at.
LEMMA VisitChainExact == ASSUME LinkInv, Exact, VisitChain PROVE Exact'
<1>1. /\ pc = "chain" /\ pc' = pc /\ ~ChainOver
      /\ UNCHANGED <<data, mf, at, indexed>>
  BY DEF VisitChain
<1>2. /\ candidate - 1 \in 0 .. at - 1 /\ at \in Nat /\ at < N /\ max_len \in Nat
      /\ links[(candidate - 1) % cyc] \in Nat /\ candidate \in Nat /\ TypeOK
      /\ budget # 0 /\ candidate # NONE /\ InWindow(candidate, at)
  BY <1>1, ChainCandidate DEF LinkInv, TypeOK, ChainOver
<1>3. /\ best = LastLen /\ AllExact(out) /\ (out # <<>> => NoneNearer \/ Further)
      /\ LastLen \in Nat /\ LastLen >= 1
  BY <1>1, <1>2, LastType DEF Exact, Reporting
<1> DEFINE len == match_len(candidate - 1, at, max_len)
           next == links[(candidate - 1) % cyc]
<1>4. len \in 0 .. max_len /\ Agree(candidate - 1, at, max_len, len) /\ next \in Nat
  BY <1>2, MatchLen
<1>5. /\ \/ Longer(len) /\ out' = Reported(len, at - (candidate - 1)) /\ best' = len
         \/ UNCHANGED <<out, best>>
      /\ budget' = IF next >= candidate THEN 0 ELSE budget - 1
      /\ candidate' = IF next >= candidate THEN candidate ELSE next
  BY DEF VisitChain
<1> HIDE DEF len, next
<1>6. candidate' \in Nat /\ (budget' # 0 => candidate' < candidate)
  BY <1>2, <1>4, <1>5
<1>7. CASE UNCHANGED <<out, best>>
  <2>1. /\ AllExact(out)' /\ LastLen' = LastLen /\ LastDist' = LastDist
        /\ NoneNearer => NoneNearer'
    BY <1>1, <1>7, SearchKept
  <2>2. Further /\ out # <<>> => Further'
    <3>1. out # <<>> => LastDist \in Nat
      BY <1>2, <1>3, LastType
    <3> QED
      BY <3>1, <2>1, <1>1, <1>2, <1>6 DEF Further
  <2> QED
    BY <2>1, <2>2, <1>1, <1>3, <1>7 DEF Exact
<1>8. CASE Longer(len) /\ out' = Reported(len, at - (candidate - 1)) /\ best' = len
  <2>1. PICK q \in 0 .. at - 1 : q = candidate - 1
    BY <1>2
  <2>2. best < len /\ len \in Nat /\ len <= max_len /\ at - q <= mf.window
    BY <1>2, <1>3, <1>4, <1>8, <2>1 DEF Longer, InWindow
  <2>3. out # <<>> => NoneNearer \/ LastDist < at - q
    <3>1. out # <<>> => LastDist \in Nat
      BY <1>2, <1>3, LastType
    <3> QED
      BY <3>1, <2>1, <1>2, <1>3 DEF Further
  <2>4. AllExact(Reported(len, at - q))
    BY <1>2, <1>3, <1>4, <2>1, <2>2, <2>3, FoundExact
  <2>5. AllExact(out)'
    BY <2>1, <2>4, <1>1, <1>8, AllExactNext
  <2>6. at - q \in Nat /\ out' = Reported(len, at - q)
    BY <1>2, <1>8, <2>1
  <2>7. out' # <<>> /\ LastLen' = len /\ LastDist' = at - q
    BY <1>2, <2>2, <2>6, JustReported
  <2>8. Further'
    <3>1. PICK n \in Nat, c \in Nat : /\ n = candidate' /\ c = candidate /\ q = c - 1
                                      /\ budget' # 0 => n < c
      BY <2>1, <1>2, <1>6
    <3>2. budget' # 0 => at - (n - 1) > at - (c - 1)
      BY <3>1, <1>2, EarlierIsFurther
    <3>3. LastDist' = at - (c - 1) /\ at' = at
      BY <3>1, <2>7, <1>1
    <3> QED
      BY <3>1, <3>2, <3>3 DEF Further
  <2> QED
    BY <2>5, <2>7, <2>8, <1>1, <1>8 DEF Exact
<1> QED
  BY <1>5, <1>7, <1>8

\* The walk, or the lack of one, ends find with what was found, or indexes on.
LEMMA LeaveExact ==
    ASSUME LinkInv, Exact, UNCHANGED <<data, mf, at>>, LeaveWalk(out),
           pc \in {"long", "walk"}
    PROVE  Exact'
<1>1. TypeOK /\ at < N /\ AllExact(out) /\ indexed \in Nat /\ at \in Nat
  BY DEF LinkInv, Control, Exact, TypeOK
<1>2. indexed < at => pc = "walk" /\ out = <<>>
  BY <1>1 DEF LinkInv, Control, Exact
<1>3. out' = out /\ pc' \in {"index", "idle"} /\ (pc' = "index" => indexed < at)
  BY <1>1, ExtendedIsOut DEF LeaveWalk
<1>4. AllExact(out)'
  BY <1>1, <1>3, AllExactNext
<1> QED
  BY <1>2, <1>3, <1>4, QuietExact DEF Reporting

\* On a walk that reports, what is met is as long as the comparison says.
LEMMA WalkIsExact ==
    ASSUME LinkInv, Trees, pc = "walk", ~WalkOver, record
    PROVE  /\ indexed = at /\ at \in Nat /\ at < N /\ tree_limit(at) \in Nat
           /\ candidate - 1 \in 0 .. at - 1 /\ at - (candidate - 1) <= mf.window
           /\ WalkLen \in Nat /\ WalkLen <= tree_limit(at)
           /\ Agree(candidate - 1, at, tree_limit(at), WalkLen)
<1>1. PICK D \in Subtrees : Sorted(D) /\ \E b, a \in Nodes : Pending(D, b, a)
  BY DEF Trees, LinkInv, Control
<1>2. PICK b \in Nodes, a \in Nodes : Pending(D, b, a)
  BY <1>1
<1>3. LooseEnds(b, a)
  BY <1>2 DEF Pending
<1>4. /\ indexed = at /\ at \in Nat /\ at < N /\ Root = at + 1 /\ N \in Nat /\ IsTree
      /\ tree_limit(at) \in Nat /\ Limit(Root) = tree_limit(at)
  <2>1. indexed = at
    BY DEF LinkInv, Control
  <2>2. Root - 1 = indexed
    BY OnWalk
  <2> QED
    BY <2>1, <2>2, OnWalk DEF Limit
<1>5. candidate \in 1 .. N /\ candidate <= at /\ InWindow(candidate, at)
  BY <1>3, <1>4, CandidateIsNode DEF WalkOver
<1>6. PICK c \in Nat, r \in Nat, len \in Nat :
        /\ c = candidate /\ r = at + 1 /\ len = WalkLen /\ len <= tree_limit(at)
  BY <1>4, <1>5, WalkLenType
<1>7. Same(c, r, len) /\ (len < tree_limit(at) => data[c + len] # data[r + len])
  BY <1>1, <1>2, <1>4, <1>6, AgreedIsShared
<1>8. SameBytes(c - 1, at, len)
  BY <1>6, <1>7, <1>4, SameIs
<1>9. len < tree_limit(at) => data[c - 1 + len + 1] # data[at + len + 1]
  <2>1. c - 1 + len + 1 = c + len /\ at + len + 1 = r + len
    BY <1>4, <1>6
  <2> QED
    BY <2>1, <1>6, <1>7
<1>10. Agree(candidate - 1, at, tree_limit(at), WalkLen)
  BY <1>6, <1>8, <1>9 DEF Agree
<1> QED
  BY <1>4, <1>5, <1>6, <1>10 DEF InWindow

\* The length extended from the limit on.
LEMMA LongerAgree ==
    ASSUME NEW c, NEW p, NEW len \in Nat, NEW max \in Nat, NEW l \in 0 .. max,
           SameBytes(c, p, len), Agree(c, p, max, l), len <= max
    PROVE  len <= l
<1> SUFFICES ASSUME l < len PROVE FALSE
  OBVIOUS
<1>1. l \in 0 .. len - 1 /\ data[c + l + 1] # data[p + l + 1]
  BY DEF Agree
<1> QED
  BY <1>1 DEF SameBytes

\* A step down the tree.
LEMMA WalkExact ==
    ASSUME LinkInv, Trees, Exact, WalkLeft \/ WalkRight
    PROVE  Exact'
<1>1. PICK b \in Nodes, a \in Nodes : LooseEnds(b, a)
  BY DEF LinkInv, Walking, WalkLeft, WalkRight, StepDown
<1>2. PICK len \in Nat, c \in Nat, s \in 0 .. 1 :
        len = WalkLen /\ StepDown(len) /\ c = candidate /\ candidate' = links[Link(c, s)]
  BY <1>1, StepsDown
<1>3. /\ pc = "walk" /\ pc' = "walk" /\ ~WalkOver /\ len < tree_limit(indexed)
      /\ UNCHANGED <<data, mf, indexed, at, record>>
      /\ tree_limit(indexed)' = tree_limit(indexed)
  BY <1>2, SteppedDown
<1>4. /\ out' = Found(len) /\ best' = NewBest(len)
      /\ TypeOK /\ at < N /\ AllExact(out) /\ indexed <= at /\ N \in Nat
      /\ at \in Nat /\ indexed \in Nat
  BY <1>2, <1>3, InputType DEF StepDown, LinkInv, TypeOK, Control, Exact
<1>5. CASE ~record
  <2>1. out' = out
    BY <1>4, <1>5 DEF Found
  <2>2. AllExact(out)'
    BY <1>3, <1>4, <2>1, AllExactNext
  <2>3. indexed < at => out = <<>>
    BY <1>3 DEF Exact
  <2> QED
    BY <2>1, <2>2, <2>3, <1>3, <1>5, QuietExact DEF Reporting
<1>6. CASE record
  <2>1. /\ indexed = at /\ tree_limit(at) \in Nat
        /\ candidate - 1 \in 0 .. at - 1 /\ at - (candidate - 1) <= mf.window
        /\ Agree(candidate - 1, at, tree_limit(at), len)
    BY <1>2, <1>3, <1>6, WalkIsExact
  <2>2. /\ best = LastLen /\ (out # <<>> => NoneNearer \/ Further) /\ best < tree_limit(at)
        /\ LastLen \in Nat /\ LastLen >= 1
    BY <1>3, <1>4, <1>6, LastType DEF Exact, Reporting
  <2>3. len < tree_limit(at) /\ tree_limit(at) <= max_len /\ max_len \in Nat
        /\ tree_limit(at)' = tree_limit(at)
    BY <1>3, <1>4, <2>1, MaxLenType, Fixed
  <2>4. candidate' \in Nat /\ candidate' < candidate /\ budget # 0 /\ candidate # NONE
        /\ candidate \in Nat
    BY <1>1, <1>2, <1>3, <1>4, CandidateIsNode DEF WalkOver, TypeOK
  <2>5. CASE len > Agreed /\ len > best
    <3>1. PICK q \in 0 .. at - 1 : q = candidate - 1
      BY <2>1
    <3>2. Agree(q, at, max_len, len)
      BY <2>1, <2>3, <3>1 DEF Agree
    <3>3. out # <<>> => NoneNearer \/ LastDist < at - q
      <4>1. out # <<>> => LastDist \in Nat
        BY <1>4, LastType
      <4> QED
        BY <4>1, <3>1, <2>2, <2>4, <1>4 DEF Further
    <3>4. AllExact(Reported(len, at - q))
      <4>1. best < len /\ len <= max_len /\ at - q <= mf.window
        BY <2>1, <2>2, <2>3, <2>5, <3>1
      <4> QED
        BY <4>1, <1>4, <2>2, <3>2, <3>3, FoundExact
    <3>5. out' = Reported(len, at - q) /\ best' = len /\ at - q \in Nat
      BY <1>4, <1>6, <2>1, <2>5, <3>1 DEF Found, NewBest
    <3>6. AllExact(out)'
      BY <1>3, <3>4, <3>5, AllExactNext
    <3>7. out' # <<>> /\ LastLen' = len /\ LastDist' = at - q
      BY <1>4, <3>5, JustReported
    <3>8. Further'
      <4>1. PICK n \in Nat, k \in Nat : n = candidate' /\ k = candidate /\ n < k /\ q = k - 1
        BY <2>4, <3>1
      <4>2. at - (n - 1) > at - (k - 1)
        BY <4>1, <1>4, EarlierIsFurther
      <4>3. LastDist' = at - (k - 1) /\ at' = at
        BY <4>1, <3>7, <1>3
      <4> QED
        BY <4>1, <4>2, <4>3 DEF Further
    <3>9. best' = LastLen' /\ best' < tree_limit(at)' /\ ~(indexed' < at')
      BY <1>3, <1>4, <2>1, <2>3, <3>5, <3>7
    <3> QED
      BY <3>6, <3>7, <3>8, <3>9, <1>3 DEF Exact
  <2>6. CASE ~(len > Agreed /\ len > best)
    <3>1. UNCHANGED <<out, best>>
      BY <1>4, <2>6 DEF Found, NewBest
    <3>2. /\ AllExact(out)' /\ LastLen' = LastLen /\ LastDist' = LastDist
          /\ NoneNearer => NoneNearer'
      BY <1>3, <3>1, SearchKept
    <3>3. Further /\ out # <<>> => Further'
      <4>1. out # <<>> => LastDist \in Nat
        BY <1>4, LastType
      <4> QED
        BY <4>1, <3>2, <2>4, <1>3, <1>4 DEF Further
    <3>4. best' = LastLen' /\ best' < tree_limit(at)' /\ ~(indexed' < at')
      BY <1>3, <1>4, <2>1, <2>2, <2>3, <3>1, <3>2
    <3> QED
      BY <3>1, <3>2, <3>3, <3>4, <2>2, <1>3 DEF Exact
  <2> QED
    BY <2>5, <2>6
<1> QED
  BY <1>5, <1>6

\* A match as long as is compared on walks, extended as far as the data go.
LEMMA TakeOverReports ==
    ASSUME LinkInv, Trees, Exact, TakeOver, Found(WalkLen) # out
    PROVE  \E l, d \in Nat : /\ d = at - (candidate - 1) /\ tree_limit(at) <= l
                             /\ out' = Reported(l, d) /\ AllExact(Reported(l, d))
                             /\ pc' = "idle" /\ record
<1>1. /\ pc = "walk" /\ ~WalkOver /\ UNCHANGED <<data, mf, at>>
      /\ LeaveWalk(Found(WalkLen)) /\ WalkLen = tree_limit(indexed)
  BY DEF TakeOver
<1>2. TypeOK /\ at < N /\ AllExact(out) /\ at \in Nat /\ indexed \in Nat /\ indexed <= at
  BY <1>1 DEF LinkInv, TypeOK, Control, Exact
<1>3. record
  BY DEF Found
<1>4. /\ indexed = at /\ tree_limit(at) \in Nat
      /\ candidate - 1 \in 0 .. at - 1 /\ at - (candidate - 1) <= mf.window
      /\ Agree(candidate - 1, at, tree_limit(at), WalkLen)
  BY <1>1, <1>3, WalkIsExact
<1>5. PICK q \in 0 .. at - 1, lim \in Nat :
        /\ q = candidate - 1 /\ lim = tree_limit(at) /\ WalkLen = lim
        /\ SameBytes(q, at, lim) /\ at - q <= mf.window
  BY <1>1, <1>4 DEF Agree
<1>6. /\ best = LastLen /\ (out # <<>> => NoneNearer \/ Further) /\ best < lim
      /\ LastLen \in Nat /\ LastLen >= 1
  BY <1>1, <1>2, <1>3, <1>5, LastType DEF Exact, Reporting
<1>7. lim <= max_len /\ max_len \in Nat
  BY <1>2, <1>5, MaxLenType
<1>8. PICK l \in 0 .. max_len : l = match_len(q, at, max_len) /\ Agree(q, at, max_len, l)
  BY <1>7, MatchLen
<1>9. lim <= l
  BY <1>5, <1>7, <1>8, LongerAgree
<1>10. PICK d \in Nat : d = at - q /\ d = indexed - (candidate - 1) /\ at - d = q
  BY <1>2, <1>4, <1>5
<1>11. out # <<>> => NoneNearer \/ LastDist < at - q
  <2>1. out # <<>> => LastDist \in Nat
    BY <1>2, LastType
  <2>2. candidate # NONE /\ budget # 0
    BY <1>1 DEF WalkOver
  <2> QED
    BY <2>1, <2>2, <1>5, <1>6, <1>2 DEF Further
<1>12. AllExact(Reported(l, d))
  <2>1. best < l /\ l \in Nat /\ l <= max_len
    BY <1>6, <1>7, <1>8, <1>9
  <2> QED
    BY <2>1, <1>2, <1>5, <1>6, <1>8, <1>10, <1>11, FoundExact
<1>13. PICK m \in Seq(Entry), n \in Nat :
         /\ m = Found(WalkLen) /\ m = Reported(lim, d) /\ n = Len(out) /\ Len(m) = n + 1
         /\ m[n + 1] = [len |-> lim, dist |-> d]
         /\ \A i \in 1 .. n : m[i] = out[i]
  <2>1. Found(WalkLen) = Reported(lim, d)
    BY <1>5, <1>10 DEF Found
  <2>2. out \in Seq(Entry) /\ Len(out) \in Nat
    BY <1>2 DEF TypeOK
  <2>3. /\ Reported(lim, d) \in Seq(Entry) /\ Len(Reported(lim, d)) = Len(out) + 1
        /\ Reported(lim, d)[Len(out) + 1] = [len |-> lim, dist |-> d]
        /\ \A i \in 1 .. Len(out) : Reported(lim, d)[i] = out[i]
    BY <2>2, ReportedType
  <2> QED
    BY <2>1, <2>2, <2>3
<1>14. out' = Extended(m) /\ pc' = "idle"
  BY <1>1, <1>2, <1>4, <1>13 DEF LeaveWalk
<1>15. Extended(m) = Reported(l, d)
  <2>1. /\ Reported(l, d) \in Seq(Entry) /\ Len(Reported(l, d)) = n + 1
        /\ Reported(l, d)[n + 1] = [len |-> l, dist |-> d]
        /\ \A i \in 1 .. n : Reported(l, d)[i] = out[i]
    <3>1. l \in Nat /\ out \in Seq(Entry)
      BY <1>8, <1>7, <1>2 DEF TypeOK
    <3> QED
      BY <3>1, <1>13, ReportedType
  <2>2. Extended(m) \in Seq(Entry) /\ Len(Extended(m)) = n + 1
    BY <1>2, <1>13, ExtendedType
  <2>3. ASSUME NEW i \in 1 .. n PROVE Extended(m)[i] = out[i]
    <3>1. i \in 1 .. Len(m) /\ i # Len(m)
      BY <1>13
    <3>2. Extended(m)[i] = m[i]
      BY <3>1, <1>2, ExtendedType
    <3> QED
      BY <3>2, <1>13
  <2>4. Extended(m)[n + 1] = [len |-> l, dist |-> d]
    <3>1. m # <<>> /\ Len(m) \in 1 .. Len(m) /\ m[Len(m)].len = lim /\ m[Len(m)].dist = d
      BY <1>13
    <3>2. CASE lim < max_len
      <4>1. Extended(m)[Len(m)] = [len |-> match_len(at - m[Len(m)].dist, at, max_len),
                                   dist |-> m[Len(m)].dist]
        BY <3>1, <3>2, <1>5, <1>2, ExtendedType
      <4> QED
        BY <4>1, <3>1, <1>8, <1>10, <1>13
    <3>3. CASE lim = max_len
      <4>1. l = lim
        BY <3>3, <1>7, <1>8, <1>9
      <4>2. Extended(m)[Len(m)] = m[Len(m)]
        <5>1. ~(tree_limit(at) < max_len)
          BY <3>3, <1>5, <1>7
        <5> QED
          BY <5>1, <3>1, <1>2, ExtendedType
      <4> QED
        BY <4>1, <4>2, <1>13
    <3> QED
      BY <3>2, <3>3, <1>7
  <2>5. \A i \in 1 .. n + 1 : Extended(m)[i] = Reported(l, d)[i]
    BY <2>1, <2>3, <2>4
  <2> QED
    BY <2>1, <2>2, <2>5
<1> QED
  BY <1>3, <1>5, <1>7, <1>8, <1>9, <1>10, <1>12, <1>14, <1>15

LEMMA TakeOverExact == ASSUME LinkInv, Trees, Exact, TakeOver PROVE Exact'
<1>1. UNCHANGED <<data, mf, at>> /\ LeaveWalk(Found(WalkLen)) /\ pc = "walk"
  BY DEF TakeOver
<1>2. CASE Found(WalkLen) = out
  BY <1>1, <1>2, LeaveExact
<1>3. CASE Found(WalkLen) # out
  <2>1. PICK l \in Nat, d \in Nat : out' = Reported(l, d) /\ AllExact(Reported(l, d)) /\ pc' = "idle"
    BY <1>3, TakeOverReports
  <2>2. AllExact(out)'
    BY <1>1, <2>1, AllExactNext
  <2> QED
    BY <2>1, <2>2, QuietExact DEF Reporting
<1> QED
  BY <1>2, <1>3

LEMMA StutterExact == ASSUME LinkInv, Exact, UNCHANGED vars PROVE Exact'
<1>1. UNCHANGED <<data, mf, pc, indexed, at, out, best, candidate, budget, record>>
  BY DEF vars
<1>2. /\ AllExact(out)' /\ LastLen' = LastLen /\ LastDist' = LastDist
      /\ NoneNearer => NoneNearer'
  BY <1>1, SearchKept
<1>3. Further => Further'
  BY <1>1, <1>2 DEF Further
<1>4. tree_limit(at)' = tree_limit(at)
  BY <1>1 DEF tree_limit, N
<1>5. Reporting' <=> Reporting
  BY <1>1 DEF Reporting
<1> QED
  BY <1>1, <1>2, <1>3, <1>4, <1>5 DEF Exact

LEMMA ExactStep ==
    ASSUME LinkInv, LinkInv', Trees, Latest, Exact, [Next]_vars
    PROVE  Exact'
<1>1. ASSUME NEW p \in 0 .. N - 1, find(p) PROVE Exact'
  BY <1>1, FindExact
<1>2. CASE IndexInChain \/ IndexInTree \/ IndexNowhere \/ SkipChain \/ EndChain
  BY <1>2, IndexingExact
<1>3. CASE BeginSearch
  BY <1>3, BeginSearchExact
<1>4. CASE TryShort2 \/ TryShort3
  BY <1>4, TryShortsExact
<1>5. CASE BeginChain \/ BeginTree
  BY <1>5, BeginExact
<1>6. CASE VisitChain
  BY <1>6, VisitChainExact
<1>7. CASE SkipTree \/ CutOff
  <2>1. UNCHANGED <<data, mf, at>> /\ LeaveWalk(out) /\ pc \in {"long", "walk"}
    BY <1>7 DEF SkipTree, CutOff
  <2> QED
    BY <2>1, LeaveExact
<1>8. CASE TakeOver
  BY <1>8, TakeOverExact
<1>9. CASE WalkLeft \/ WalkRight
  BY <1>9, WalkExact
<1>10. CASE UNCHANGED vars
  BY <1>10, StutterExact
<1> QED
  BY <1>1, <1>2, <1>3, <1>4, <1>5, <1>6, <1>7, <1>8, <1>9, <1>10 DEF Next, Step

LEMMA InitExact == ASSUME Init PROVE Latest /\ Exact
<1>1. out = <<>> /\ indexed = 0 /\ pc = "idle"
  BY DEF Init
<1>2. AllExact(out)
  BY <1>1 DEF AllExact
<1> QED
  BY <1>1, <1>2 DEF Latest, Exact, Reporting

LEMMA InitMatch == ASSUME Init PROVE MatchInv
  BY InitLinks, InitTrees, InitExact DEF MatchInv, TreeInv

LEMMA MatchStep == ASSUME MatchInv, [Next]_vars PROVE MatchInv'
<1>1. LinkInv /\ Trees /\ Latest /\ Exact
  BY DEF MatchInv, TreeInv
<1>2. LinkInv'
  BY <1>1, StepLinks
<1>3. Trees'
  BY <1>1, <1>2, StepTrees
<1>4. Latest'
  BY <1>1, LatestStep
<1>5. Exact'
  BY <1>1, <1>2, ExactStep
<1> QED
  BY <1>2, <1>3, <1>4, <1>5 DEF MatchInv, TreeInv

\* Every match find reports is in the window, as long as the data allow, longer
\* and further away than the one before it.
THEOREM MatchesAlwaysExact == Spec => []MatchesExact
<1>1. Init => MatchInv
  BY InitMatch
<1>2. MatchInv /\ [Next]_vars => MatchInv'
  BY MatchStep
<1>3. MatchInv => MatchesExact
  BY DEF MatchInv, Exact, AllExact, ExactMatch, MatchesExact
<1> QED
  BY <1>1, <1>2, <1>3, PTL DEF Spec

-----------------------------------------------------------------------------
(* Nothing closer is missed: what can be reached.                          *)

\* Where a link leads: down a tree, or along a chain.
Kid(c, s) == links[IF IsTree THEN Link(c, s) ELSE Slot(c)]

\* Who has c has what its links lead to, as far as they are its own.
Closed(S) ==
    \A c \in Nodes : \A s \in 0 .. 1 :
        c \in S /\ ~Loose(c, s) /\ Kid(c, s) \in Nodes => Kid(c, s) \in S

Reaches(u, x) ==
    /\ u \in Nodes
    /\ \A S \in SUBSET (1 .. N) : u \in S /\ Closed(S) => x \in S

\* x, the same as c as far as later positions are compared, does for c.
Rep(x, c) == c <= x /\ key4(x - 1) = key4(c - 1) /\ Same(c, x, Limit(x))

Held(x) ==
    \E u \in Nodes :
        /\ u = head4[key4(x - 1)] \/ (pc = "walk" /\ u = candidate)
        /\ Reaches(u, x)

Stored(c) == \E x \in Nodes : Rep(x, c) /\ Held(x)

\* The heads of short strings belong to their strings.
Named ==
    /\ \A k \in [1 .. 2 -> Byte] :
         head2[k] # NONE => Has(head2[k] - 1, 2) /\ key2(head2[k] - 1) = k
    /\ \A h \in Slots3 :
         head3[h] # NONE => Has(head3[h] - 1, 3) /\ key3(head3[h] - 1) = h

\* Nothing in the window is lost, but for what another stands for.
Complete ==
    /\ pc = "walk" =>
        /\ head4[key4(indexed)] = Root
        /\ \E r, b, a \in Nodes : r = Root /\ LooseEnds(b, a) /\ Reaches(r, b) /\ Reaches(r, a)
    /\ Thorough => \A c \in Nodes : c <= indexed => Stored(c)
    /\ Thorough /\ pc \in {"walk", "chain"} => candidate <= budget

-----------------------------------------------------------------------------
(* Nothing closer is missed: the search.                                   *)

\* A match as long and as close as c was reported.
Near(c, l) == \E i \in 1 .. Len(out) : out[i].len >= l /\ out[i].dist <= at - (c - 1)

Earlier == {c \in 1 .. at : InWindow(c, at)}
Matches(c, l) == Same(c, at + 1, l)

SeenShort(k) == k <= max_len => \A c \in Earlier : Matches(c, k) => Near(c, k)
Seen(c) == \A l \in 4 .. Limit(at + 1) : Matches(c, l) => Near(c, l)

Searching == pc = "chain" \/ (pc = "walk" /\ indexed = at)

\* The search still has to come by what stands for c.
Ahead(c) ==
    /\ pc = "chain" \/ record
    /\ \E x, u \in Nodes : Rep(x, c) /\ u = candidate /\ Reaches(u, x)

\* What was last reported is closer than what is met next.
Closest(k) ==
    out # <<>> /\ k <= max_len =>
        \A c \in 1 .. at : Matches(c, k) => LastDist <= at - (c - 1)
Closer ==
    out # <<>> => \A c \in 1 .. at : c <= candidate /\ Matches(c, 4) => LastDist <= at - (c - 1)

Done == pc = "idle" /\ indexed > at

Search ==
    /\ pc = "short3" => Closest(2) /\ SeenShort(2)
    /\ pc = "long" => Closest(3)
    /\ pc = "long" \/ Searching \/ Done => SeenShort(2) /\ (Perfect3 => SeenShort(3))
    /\ pc = "chain" \/ (pc = "walk" /\ record) => Closer
    /\ pc = "walk" /\ record => before_len <= best /\ after_len <= best
    /\ Thorough /\ Searching => \A c \in Earlier : Seen(c) \/ Ahead(c)
    /\ Thorough /\ Done => \A c \in Earlier : Seen(c)

-----------------------------------------------------------------------------
(* Nothing closer is missed: lemmas about what can be reached.             *)

LEMMA NodesAre ==
    ASSUME LinkInv
    PROVE  /\ N \in Nat /\ indexed \in Nat /\ TypeOK
           /\ \A c \in Nodes : /\ c \in 1 .. N /\ c <= Root /\ InWindow(c, indexed) /\ Has(c - 1, 4)
                               /\ pc # "walk" => c <= indexed
<1>1. N \in Nat /\ indexed \in Nat /\ TypeOK
  BY InputType DEF LinkInv, TypeOK
<1>2. \A c \in Nodes : /\ c \in 1 .. N /\ c <= Root /\ InWindow(c, indexed) /\ Has(c - 1, 4)
                       /\ pc # "walk" => c <= indexed
  BY <1>1, NodeSlots DEF Nodes
<1> QED
  BY <1>1, <1>2

\* What a link of a node leads to is older.
LEMMA KidIsOlder ==
    ASSUME LinkInv, NEW c \in Nodes, NEW s \in 0 .. 1
    PROVE  Kid(c, s) < c
  BY DEF LinkInv, Back, Kid

LEMMA ReachesSelf == ASSUME NEW u \in Nodes PROVE Reaches(u, u)
  BY DEF Reaches

LEMMA ReachesKid ==
    ASSUME NEW u, NEW c, NEW s \in 0 .. 1, Reaches(u, c), c \in Nodes, ~Loose(c, s),
           Kid(c, s) \in Nodes
    PROVE  Reaches(u, Kid(c, s))
  BY DEF Reaches, Closed

LEMMA ReachesOn ==
    ASSUME NEW u, NEW v, NEW x, Reaches(u, v), Reaches(v, x)
    PROVE  Reaches(u, x)
  BY DEF Reaches

\* What is reached is an older node.
LEMMA ReachedIsOlder ==
    ASSUME LinkInv, NEW u, NEW x, Reaches(u, x)
    PROVE  u \in Nodes /\ x \in Nodes /\ x <= u
<1>1. u \in Nodes /\ N \in Nat /\ \A c \in Nodes : c \in 1 .. N
  BY NodesAre DEF Reaches
<1> DEFINE S == {y \in Nodes : y <= u}
<1>2. S \in SUBSET (1 .. N) /\ u \in S
  BY <1>1
<1>3. Closed(S)
  <2> SUFFICES ASSUME NEW c \in Nodes, NEW s \in 0 .. 1, c \in S, Kid(c, s) \in Nodes
               PROVE  Kid(c, s) <= u
    BY DEF Closed
  <2>1. Kid(c, s) < c /\ c <= u
    BY KidIsOlder
  <2> QED
    BY <2>1, <1>1
<1>4. x \in S
  <2> HIDE DEF S
  <2> QED
    BY <1>2, <1>3 DEF Reaches
<1> QED
  BY <1>1, <1>4

\* The way from a node leads over one of its links.
LEMMA ReachesBy ==
    ASSUME LinkInv, NEW u, NEW x, Reaches(u, x), x # u
    PROVE  \E s \in 0 .. 1 : \E v \in Nodes : ~Loose(u, s) /\ v = Kid(u, s) /\ Reaches(v, x)
<1>1. u \in Nodes /\ N \in Nat /\ \A c \in Nodes : c \in 1 .. N
  BY NodesAre DEF Reaches
<1> DEFINE Far == {y \in Nodes : \E s \in 0 .. 1 : ~Loose(u, s) /\ Reaches(Kid(u, s), y)}
<1>2. {u} \cup Far \in SUBSET (1 .. N) /\ u \in {u} \cup Far
  BY <1>1
<1>3. Closed({u} \cup Far)
  <2> SUFFICES ASSUME NEW c \in Nodes, NEW t \in 0 .. 1, c \in {u} \cup Far, ~Loose(c, t),
                      Kid(c, t) \in Nodes
               PROVE  Kid(c, t) \in Far
    BY DEF Closed
  <2>1. CASE c = u
    <3>1. Reaches(Kid(u, t), Kid(u, t))
      BY <2>1, ReachesSelf
    <3> QED
      BY <3>1, <2>1
  <2>2. CASE c \in Far
    <3>1. PICK s \in 0 .. 1 : ~Loose(u, s) /\ Reaches(Kid(u, s), c)
      BY <2>2
    <3>2. Reaches(Kid(u, s), Kid(c, t))
      BY <3>1, ReachesKid
    <3> QED
      BY <3>1, <3>2
  <2> QED
    BY <2>1, <2>2
<1>4. x \in {u} \cup Far
  <2> HIDE DEF Far
  <2> QED
    BY <1>2, <1>3 DEF Reaches
<1> QED
  BY <1>4, ReachedIsOlder

\* A way that does not lead into X, from where nothing leads out, is still there
\* if its links are; Y is where it may lead.
LEMMA Carried ==
    ASSUME N' = N, NEW X \in SUBSET (1 .. N), NEW Y \in SUBSET (1 .. N), Closed(X), Closed(Y),
           NEW u, NEW x, Reaches(u, x), u \in Nodes', u \in Y, x \notin X,
           \A c \in Nodes \cap Y : \A s \in 0 .. 1 :
             c \notin X /\ ~Loose(c, s) /\ Kid(c, s) \in Nodes \ X =>
               /\ c \in Nodes' /\ ~Loose(c, s)'
               /\ Kid(c, s)' = Kid(c, s) /\ Kid(c, s) \in Nodes'
    PROVE  Reaches(u, x)'
<1> SUFFICES ASSUME NEW S \in SUBSET (1 .. N), u \in S, Closed(S)'
             PROVE  x \in S
  BY DEF Reaches
<1>1. PICK T \in SUBSET (1 .. N) : T = (S \cap Y) \cup X
  OBVIOUS
<1>2. Closed(T)
  <2> SUFFICES ASSUME NEW c \in Nodes, NEW s \in 0 .. 1, c \in T, ~Loose(c, s),
                      Kid(c, s) \in Nodes
               PROVE  Kid(c, s) \in T
    BY DEF Closed
  <2>1. CASE c \in X
    BY <2>1, <1>1 DEF Closed
  <2>2. CASE c \notin X
    <3>1. c \in S \cap Y /\ Kid(c, s) \in Y
      BY <2>2, <1>1 DEF Closed
    <3>2. Kid(c, s) \notin X => Kid(c, s) \in S
      <4> HAVE Kid(c, s) \notin X
      <4>1. c \in Nodes' /\ ~Loose(c, s)' /\ Kid(c, s)' = Kid(c, s) /\ Kid(c, s) \in Nodes'
        BY <2>2, <3>1
      <4>2. Kid(c, s)' \in S
        BY <4>1, <3>1 DEF Closed
      <4> QED
        BY <4>1, <4>2
    <3> QED
      BY <3>1, <3>2, <1>1
  <2> QED
    BY <2>1, <2>2
<1>3. x \in T
  BY <1>1, <1>2 DEF Reaches
<1> QED
  BY <1>1, <1>3

\* Everything is a place to be, and so is what a node reaches, or what is older.
LEMMA ReachedIsClosed ==
    ASSUME LinkInv
    PROVE  /\ Closed(1 .. N) /\ Closed({})
           /\ \A u : Closed({y \in 1 .. N : Reaches(u, y)})
           /\ \A u \in Nat : Closed({y \in 1 .. N : y < u})
<1>1. N \in Nat /\ \A c \in Nodes : c \in 1 .. N
  BY NodesAre
<1>2. \A u : Closed({y \in 1 .. N : Reaches(u, y)})
  BY <1>1, ReachesKid DEF Closed
<1>3. Closed(1 .. N) /\ Closed({})
  BY <1>1 DEF Closed
<1>4. ASSUME NEW u \in Nat PROVE Closed({y \in 1 .. N : y < u})
  <2> SUFFICES ASSUME NEW c \in Nodes, NEW s \in 0 .. 1, c < u, Kid(c, s) \in Nodes
               PROVE  Kid(c, s) < u
    BY <1>1 DEF Closed
  <2>1. Kid(c, s) < c
    BY KidIsOlder
  <2> QED
    BY <2>1, <1>1
<1> QED
  BY <1>2, <1>3, <1>4

\* The same after a step.
LEMMA ReachesNext ==
    /\ \A u \in Nodes' : Reaches(u, u)'
    /\ \A u, c, k : \A s \in 0 .. 1 :
         Reaches(u, c)' /\ c \in Nodes' /\ ~Loose(c, s)' /\ Kid(c, s)' = k /\ k \in Nodes'
           => Reaches(u, k)'
    /\ \A u, v, x : Reaches(u, v)' /\ Reaches(v, x)' => Reaches(u, x)'
<1>1. \A u \in Nodes' : Reaches(u, u)'
  BY DEF Reaches
<1>2. ASSUME NEW u, NEW c, NEW k, NEW s \in 0 .. 1, Reaches(u, c)', c \in Nodes',
             ~Loose(c, s)', Kid(c, s)' = k, k \in Nodes'
      PROVE  Reaches(u, k)'
  <2> SUFFICES ASSUME NEW S \in SUBSET (1 .. N'), u \in S, Closed(S)'
               PROVE  k \in S
    BY <1>2 DEF Reaches
  <2>1. c \in S
    BY <1>2 DEF Reaches
  <2> QED
    BY <1>2, <2>1 DEF Closed
<1>3. \A u, v, x : Reaches(u, v)' /\ Reaches(v, x)' => Reaches(u, x)'
  BY DEF Reaches
<1> QED
  BY <1>1, <1>2, <1>3

\* In a tree, what is reached over a link is in the subtree there.
LEMMA ReachedIsUnder ==
    ASSUME LinkInv, IsTree, NEW D \in Subtrees, Sorted(D), NEW u, NEW x, Reaches(u, x)
    PROVE  /\ x \in D[u] /\ key4(x - 1) = key4(u - 1)
           /\ \A c \in Nodes : \A s \in 0 .. 1 : ~Loose(c, s) /\ Kid(c, s) = u => Sides(s, x, c)
<1>1. u \in Nodes /\ N \in Nat /\ (\A c \in Nodes : c \in 1 .. N) /\ x \in Nodes
  BY NodesAre, ReachedIsOlder
<1>2. PICK S \in SUBSET (1 .. N) : S = {y \in Nodes : D[y] \subseteq D[u]}
  BY <1>1
<1>3. \A c, s : Kid(c, s) = links[Link(c, s)]
  BY DEF Kid
<1>4. Closed(S)
  <2> SUFFICES ASSUME NEW c \in Nodes, NEW s \in 0 .. 1, D[c] \subseteq D[u], ~Loose(c, s),
                      Kid(c, s) \in Nodes
               PROVE  D[Kid(c, s)] \subseteq D[u]
    BY <1>2 DEF Closed
  <2>1. \A y \in D[Kid(c, s)] : y \in D[c]
    BY <1>3 DEF Sorted
  <2> QED
    BY <2>1
<1>5. x \in S
  BY <1>1, <1>2, <1>4 DEF Reaches
<1>6. x \in D[u]
  BY <1>2, <1>5 DEF Sorted
<1> QED
  BY <1>1, <1>3, <1>6 DEF Sorted

-----------------------------------------------------------------------------
(* Nothing closer is missed: nothing in the window is lost.                *)

\* The window only moves on: who is still in it has all who came later.
LEMMA WindowMoves ==
    ASSUME LinkInv, UNCHANGED <<data, mf>>,
           \/ indexed' = indexed + 1
           \/ indexed' = indexed /\ (pc = "walk" => pc' = "walk")
    PROVE  /\ \A c, y \in Nodes : c \in Nodes' /\ c <= y => y \in Nodes'
           /\ \A c \in Nodes' : c \in Nodes \/ c = Root \/ (pc' = "walk" /\ c = Root')
           /\ \A c \in Nodes' : indexed' = indexed + 1 /\ c <= indexed' /\ Has(indexed, 4)
                                  => Root \in Nodes'
<1>1. /\ N \in Nat /\ indexed \in Nat /\ N' = N /\ mf.window \in Nat
      /\ \A c \in Nodes : c \in 1 .. N /\ c <= Root /\ Has(c - 1, 4)
  BY NodesAre, CycType, Fixed
<1>2. \A c, y \in Nodes : c \in Nodes' /\ c <= y => y \in Nodes'
  <2> SUFFICES ASSUME NEW c \in Nodes, NEW y \in Nodes, c \in Nodes', c <= y
               PROVE  y \in Nodes'
    OBVIOUS
  <2>1. InWindow(y, indexed')
    <3>1. InWindow(c, indexed')
      BY Fixed DEF Nodes
    <3> QED
      BY <3>1, <1>1 DEF InWindow
  <2>2. y <= indexed' \/ (pc' = "walk" /\ y = Root')
    BY <1>1 DEF Nodes, Root
  <2> QED
    BY <2>1, <2>2, <1>1, Fixed DEF Nodes
<1>3. ASSUME NEW c \in Nodes' PROVE c \in Nodes \/ c = Root \/ (pc' = "walk" /\ c = Root')
  <2>1. /\ c \in 1 .. N /\ Has(c - 1, 4) /\ InWindow(c, indexed')
        /\ c <= indexed' \/ (pc' = "walk" /\ c = Root')
    BY <1>1, <1>3, Fixed DEF Nodes
  <2>2. InWindow(c, indexed)
    BY <1>1, <2>1 DEF InWindow
  <2>3. c <= indexed' => c <= indexed \/ c = Root
    BY <1>1, <2>1 DEF Root
  <2> QED
    BY <2>1, <2>2, <2>3 DEF Nodes
<1>4. ASSUME NEW c \in Nodes', indexed' = indexed + 1, c <= indexed', Has(indexed, 4)
      PROVE  Root \in Nodes'
  <2>1. c \in 1 .. N /\ InWindow(c, indexed')
    BY <1>1, <1>4, Fixed DEF Nodes
  <2>2. Root \in 1 .. N /\ Root - 1 = indexed /\ InWindow(Root, indexed') /\ Root <= indexed'
    BY <1>1, <1>4, <2>1 DEF InWindow, Root, Has
  <2> QED
    BY <2>2, <1>1, <1>4, Fixed DEF Nodes
<1> QED
  BY <1>2, <1>3, <1>4

\* The way to what is still in the window is still there if links are.
LEMMA KeptWays ==
    ASSUME LinkInv, UNCHANGED <<data, mf>>,
           \/ indexed' = indexed + 1
           \/ indexed' = indexed /\ (pc = "walk" => pc' = "walk"),
           \A c \in Nodes \cap Nodes' : \A s \in 0 .. 1 :
             ~Loose(c, s) => ~Loose(c, s)' /\ Kid(c, s)' = Kid(c, s),
           NEW u, NEW x, Reaches(u, x), x \in Nodes'
    PROVE  Reaches(u, x)'
<1>1. /\ N \in Nat /\ N' = N /\ (\A c \in Nodes : c \in 1 .. N)
      /\ u \in Nodes /\ x \in Nodes /\ x <= u
  BY NodesAre, ReachedIsOlder, Fixed
<1>2. \A c, y \in Nodes : c \in Nodes' /\ c <= y => y \in Nodes'
  BY WindowMoves
<1>3. PICK X \in SUBSET (1 .. N) : X = Nodes \ Nodes'
  BY <1>1
<1>4. Closed(X)
  <2> SUFFICES ASSUME NEW c \in Nodes, NEW s \in 0 .. 1, c \notin Nodes', Kid(c, s) \in Nodes
               PROVE  Kid(c, s) \notin Nodes'
    BY <1>3 DEF Closed
  <2>1. Kid(c, s) <= c
    BY <1>1, KidIsOlder
  <2> QED
    BY <2>1, <1>2
<1>5. Closed(1 .. N) /\ u \in 1 .. N /\ u \in Nodes' /\ x \notin X
  BY <1>1, <1>2, <1>3, ReachedIsClosed
<1>6. \A c \in Nodes \cap (1 .. N) : \A s \in 0 .. 1 :
        c \notin X /\ ~Loose(c, s) /\ Kid(c, s) \in Nodes \ X =>
          /\ c \in Nodes' /\ ~Loose(c, s)'
          /\ Kid(c, s)' = Kid(c, s) /\ Kid(c, s) \in Nodes'
  BY <1>3
<1> QED
  BY <1>1, <1>3, <1>4, <1>5, <1>6, Carried

\* What stands for another still does.
LEMMA RepKept ==
    ASSUME data' = data, mf' = mf
    PROVE  /\ \A x, c : Rep(x, c)' <=> Rep(x, c)
           /\ Thorough' <=> Thorough
  BY Fixed, FixedSides DEF Rep, Thorough

\* Steps that touch no table, outside walks.
LEMMA QuietComplete ==
    ASSUME LinkInv, Complete, UNCHANGED <<data, mf, head4, links, indexed>>,
           pc # "walk", pc' # "walk", Thorough /\ pc' = "chain" => candidate' <= budget'
    PROVE  Complete'
<1>1. Nodes' = Nodes /\ \A c, s : Kid(c, s)' = Kid(c, s) /\ ~Loose(c, s)'
  BY Fixed DEF Nodes, Kid, Loose
<1>2. ASSUME Thorough, NEW c \in Nodes, c <= indexed PROVE Stored(c)'
  <2>1. PICK x \in Nodes, u \in Nodes : Rep(x, c) /\ u = head4[key4(x - 1)] /\ Reaches(u, x)
    BY <1>2 DEF Complete, Stored, Held
  <2>2. Reaches(u, x)'
    BY <1>1, <2>1, KeptWays
  <2> QED
    BY <1>1, <2>1, <2>2, Fixed, RepKept DEF Stored, Held
<1> QED
  BY <1>1, <1>2, RepKept DEF Complete

\* A position joins a chain, or is in no table of long strings.
LEMMA IndexedComplete ==
    ASSUME LinkInv, Complete, UNCHANGED <<data, mf>>, indexed' = indexed + 1, NEW r \in Nat, r = Root,
           pc # "walk", pc' \notin {"walk", "chain"},
           \A c \in Nodes \cap Nodes' : \A s \in 0 .. 1 : Kid(c, s)' = Kid(c, s),
           \/ ~Has(indexed, 4) /\ head4' = head4
           \/ /\ Has(indexed, 4) /\ head4' = [head4 EXCEPT ![key4(indexed)] = r]
              /\ \A s \in 0 .. 1 : Kid(r, s)' = head4[key4(indexed)]
    PROVE  Complete'
<1>1. /\ N \in Nat /\ indexed \in Nat /\ r - 1 = indexed /\ TypeOK
      /\ \A c \in Nodes : c \in 1 .. N /\ c <= indexed /\ Has(c - 1, 4)
  BY NodesAre DEF Root
<1>2. \A c, s : ~Loose(c, s)'
  BY DEF Loose
<1>3. /\ \A c, y \in Nodes : c \in Nodes' /\ c <= y => y \in Nodes'
      /\ \A c \in Nodes' : c \in Nodes \/ c = r
      /\ \A c \in Nodes' : c <= indexed' /\ Has(indexed, 4) => r \in Nodes'
  BY WindowMoves
<1>4. head4 \in [Slots4 -> Nat] /\ (Has(indexed, 4) => key4(indexed) \in Slots4)
  BY <1>1, KeyTypes DEF TypeOK
<1>5. ASSUME NEW x \in Nodes', NEW c \in Nodes', Rep(x, c), NEW u \in Nodes',
             u = head4'[key4(x - 1)], Reaches(u, x)'
      PROVE  Stored(c)'
  BY <1>5, Fixed, RepKept DEF Stored, Held
<1>6. ASSUME NEW c \in Nodes', c = r PROVE Stored(c)'
  <2>1. Has(indexed, 4)
    <3>1. Has(c - 1, 4)
      BY <1>6, Fixed DEF Nodes
    <3> QED
      BY <3>1, <1>1, <1>6
  <2>2. Rep(c, c)
    BY <1>1, <1>6 DEF Rep, Same
  <2>3. head4'[key4(c - 1)] = c
    BY <2>1, <1>1, <1>4, <1>6
  <2>4. Reaches(c, c)'
    BY ReachesNext
  <2> QED
    BY <2>2, <2>3, <2>4, <1>5
<1>7. ASSUME Thorough, NEW c \in Nodes', c \in Nodes, c <= indexed' PROVE Stored(c)'
  <2>1. PICK x \in Nodes, u \in Nodes : Rep(x, c) /\ u = head4[key4(x - 1)] /\ Reaches(u, x)
    BY <1>1, <1>7 DEF Complete, Stored, Held
  <2>2. c <= x /\ x <= u
    BY <2>1, ReachedIsOlder DEF Rep
  <2>3. x \in Nodes' /\ u \in Nodes'
    BY <2>1, <2>2, <1>3, <1>7
  <2>4. Reaches(u, x)'
    BY <1>2, <2>1, <2>3, KeptWays
  <2>5. key4(x - 1) \in Slots4
    BY <1>1, KeyTypes
  <2>6. CASE head4'[key4(x - 1)] = u
    BY <2>1, <2>3, <2>4, <2>6, <1>5
  <2>7. CASE head4'[key4(x - 1)] # u
    <3>1. /\ Has(indexed, 4) /\ head4'[key4(x - 1)] = r /\ key4(x - 1) = key4(indexed)
          /\ \A s \in 0 .. 1 : Kid(r, s)' = u
      BY <2>1, <2>5, <2>7, <1>4
    <3>2. r \in Nodes'
      BY <3>1, <1>3, <1>7
    <3>3. PICK s \in 0 .. 1 : s = 0
      OBVIOUS
    <3>4. Reaches(r, u)'
      <4>1. Kid(r, s)' = u
        BY <3>1
      <4>2. ~Loose(r, s)'
        BY <1>2
      <4> QED
        BY <4>1, <4>2, <3>2, <2>3, ReachesNext
    <3>5. Reaches(r, x)'
      BY <3>4, <2>4, ReachesNext
    <3> QED
      BY <2>1, <2>3, <3>1, <3>2, <3>5, <1>5
  <2> QED
    BY <2>6, <2>7
<1>8. ASSUME Thorough, NEW c \in Nodes', c <= indexed' PROVE Stored(c)'
  BY <1>3, <1>6, <1>7, <1>8
<1> QED
  BY <1>8, RepKept DEF Complete

\* A walk sets out: all ways are still there.
LEMMA BeginWalkWays ==
    ASSUME LinkInv, IndexInTree \/ BeginTree
    PROVE  /\ \E r \in 1 .. N :
                /\ r = indexed + 1 /\ r - 1 = indexed /\ r = Root /\ r = Root'
                /\ Nodes' = Nodes \cup {r} /\ r \notin Nodes
                /\ Link(r, 0) = before_link' /\ Link(r, 1) = after_link'
           /\ \A u, x : Reaches(u, x) => Reaches(u, x)'
<1>1. /\ pc # "walk" /\ pc' = "walk" /\ IsTree /\ Has(indexed, 4)
      /\ candidate' = head4[key4(indexed)] /\ budget' = mf.depth
      /\ UNCHANGED <<data, mf, links, indexed>>
      /\ head4' = [head4 EXCEPT ![key4(indexed)] = indexed + 1]
      /\ after_link' = 2 * (indexed % cyc) + 1 /\ before_link' = 2 * (indexed % cyc)
      /\ after_len' = 0 /\ before_len' = 0
  BY DEF IndexInTree, BeginTree, BeginWalk, LinkInv, Control
<1>2. /\ N \in Nat /\ indexed \in Nat /\ TypeOK
      /\ \A c \in Nodes : c \in 1 .. N /\ c <= indexed /\ InWindow(c, indexed)
  BY <1>1, NodesAre
<1>3. PICK r \in 1 .. N : r = indexed + 1 /\ r - 1 = indexed /\ r = Root /\ r = Root'
  BY <1>1, <1>2 DEF Has, Root
<1>4. Nodes' = Nodes \cup {r} /\ r \notin Nodes /\ InWindow(r, indexed)
  <2>1. InWindow(r, indexed)
    BY <1>2, <1>3, CycType DEF InWindow
  <2>2. Nodes' = Nodes \cup {r}
    BY <2>1, <1>1, <1>3, Fixed DEF Nodes
  <2>3. r \notin Nodes
    BY <1>2, <1>3
  <2> QED
    BY <2>1, <2>2, <2>3
<1>5. /\ Link(r, 0) = before_link' /\ Link(r, 1) = after_link'
      /\ \A c \in Nodes : \A s, t \in 0 .. 1 : Link(c, s) # Link(r, t)
  <2>1. \A c \in 1 .. N : Slot(c) \in 0 .. cyc - 1 /\ cyc \in Nat
    BY <1>2, SlotType, CycType
  <2>2. \A c \in Nodes : Slot(c) # Slot(r)
    <3> SUFFICES ASSUME NEW c \in Nodes PROVE Slot(c) # Slot(r)
      OBVIOUS
    <3>1. c \in 1 .. N /\ c # r /\ InWindow(c, indexed) /\ c <= indexed + 1 /\ r <= indexed + 1
      BY <1>2, <1>3
    <3> QED
      BY <3>1, <1>2, <1>4, ReachSlots
  <2>3. \A x, y \in 0 .. cyc - 1 : \A s, t \in 0 .. 1 : 2 * x + s = 2 * y + t => x = y
    OBVIOUS
  <2>4. Slot(r) = indexed % cyc
    BY <1>3 DEF Slot
  <2> QED
    BY <2>1, <2>2, <2>3, <2>4, <1>1, <1>2 DEF Link
<1>6. \A c \in Nodes : \A s \in 0 .. 1 : ~Loose(c, s)' /\ Kid(c, s)' = Kid(c, s)
  <2>1. \A c, s : Loose(c, s)' <=> Link(c, s) \in {before_link', after_link'}
    BY <1>1, Fixed DEF Loose
  <2>2. \A c, s : Kid(c, s)' = Kid(c, s)
    BY <1>1, Fixed DEF Kid
  <2>3. before_link' = Link(r, 0) /\ after_link' = Link(r, 1) /\ 0 \in 0 .. 1 /\ 1 \in 0 .. 1
    BY <1>5
  <2> QED
    BY <2>1, <2>2, <2>3, <1>5
<1>7. ASSUME NEW u, NEW x, Reaches(u, x) PROVE Reaches(u, x)'
  <2>1. x \in Nodes'
    BY <1>4, <1>7, ReachedIsOlder
  <2> QED
    BY <2>1, <1>1, <1>6, <1>7, KeptWays
<1> QED
  BY <1>3, <1>4, <1>5, <1>7

\* A walk sets out: what was under the old root is ahead.
LEMMA BeginWalkComplete ==
    ASSUME LinkInv, LinkInv', Complete, IndexInTree \/ BeginTree
    PROVE  Complete'
<1>1. /\ pc # "walk" /\ pc' = "walk" /\ IsTree /\ Has(indexed, 4)
      /\ candidate' = head4[key4(indexed)] /\ budget' = mf.depth
      /\ UNCHANGED <<data, mf, links, indexed>>
      /\ head4' = [head4 EXCEPT ![key4(indexed)] = indexed + 1]
      /\ after_link' = 2 * (indexed % cyc) + 1 /\ before_link' = 2 * (indexed % cyc)
      /\ after_len' = 0 /\ before_len' = 0
  BY DEF IndexInTree, BeginTree, BeginWalk, LinkInv, Control
<1>2. /\ N \in Nat /\ indexed \in Nat /\ TypeOK
      /\ \A c \in Nodes : c \in 1 .. N /\ c <= indexed /\ InWindow(c, indexed)
  BY <1>1, NodesAre
<1>3. PICK r \in 1 .. N :
        /\ r = indexed + 1 /\ r - 1 = indexed /\ r = Root /\ r = Root'
        /\ Nodes' = Nodes \cup {r} /\ r \notin Nodes
        /\ Link(r, 0) = before_link' /\ Link(r, 1) = after_link'
  BY BeginWalkWays
<1>4. candidate' \in Nat /\ candidate' <= indexed /\ candidate' < r
  <2>1. key4(indexed) \in Slots4
    BY <1>1, <1>2, KeyTypes
  <2>2. head4[key4(indexed)] \in Nat /\ head4[key4(indexed)] <= indexed
    BY <2>1, <1>1, <1>2 DEF LinkInv, TypeOK, Heads, NONE
  <2> QED
    BY <2>2, <1>1, <1>2, <1>3
<1>5. LooseEnds(r, r)'
  <2>1. Link(r, 0)' = before_link' /\ Link(r, 1)' = after_link'
    BY <1>1, <1>3, Fixed
  <2> QED
    BY <2>1, <1>1, <1>3, <1>4 DEF LooseEnds
<1>6. Reaches(r, r)'
  BY <1>3, ReachesNext
<1>7. head4' = [head4 EXCEPT ![key4(indexed)] = r] /\ head4'[key4(indexed)] = r
  BY <1>1, <1>2, <1>3, KeyTypes DEF TypeOK
<1>8. ASSUME Thorough, NEW c \in Nodes', c <= indexed' PROVE Stored(c)'
  <2>1. c \in Nodes /\ c <= indexed
    BY <1>1, <1>2, <1>3, <1>8
  <2>2. PICK x \in Nodes, u \in Nodes : Rep(x, c) /\ u = head4[key4(x - 1)] /\ Reaches(u, x)
    BY <1>1, <1>8, <2>1 DEF Complete, Stored, Held
  <2>3. Reaches(u, x)'
    BY <2>2, BeginWalkWays
  <2>4. u = head4'[key4(x - 1)] \/ u = candidate'
    BY <2>2, <1>1, <1>7
  <2> QED
    BY <2>2, <2>3, <2>4, <1>1, <1>3, Fixed, RepKept DEF Stored, Held
<1>9. Thorough => candidate' <= budget'
  <2>1. mf.depth \in Nat
    BY <1>2, CycType
  <2> QED
    BY <2>1, <1>1, <1>2, <1>3, <1>4 DEF Thorough
<1>10. head4'[key4(indexed)'] = Root' /\ indexed' = indexed /\ r \in Nodes'
  BY <1>1, <1>3, <1>7, Fixed
<1> QED
  BY <1>1, <1>3, <1>5, <1>6, <1>8, <1>9, <1>10, Fixed, RepKept DEF Complete

\* What the loose ends are tied to when a walk ends.
LEMMA EndsOfWalk ==
    ASSUME LinkInv, CutOff \/ TakeOver, NEW b \in Nodes, NEW a \in Nodes, LooseEnds(b, a)
    PROVE  /\ \A c \in Nodes : \A s \in 0 .. 1 : ~Loose(c, s) => Kid(c, s)' = Kid(c, s)
           /\ TakeOver =>
                /\ \E s \in 0 .. 1 : Kid(b, s)' = Kid(candidate, 0)
                /\ \E s \in 0 .. 1 : Kid(a, s)' = Kid(candidate, 1)
<1>1. pc = "walk" /\ IsTree /\ TypeOK /\ N \in Nat /\ UNCHANGED <<data, mf>>
  BY OnWalk DEF CutOff, TakeOver, LinkInv
<1>2. b \in Nat /\ a \in Nat /\ 0 < b /\ 0 < a
  BY <1>1, NodesAre
<1>3. \A c, s : Kid(c, s) = links[Link(c, s)] /\ Kid(c, s)' = links'[Link(c, s)]
  BY <1>1, Fixed DEF Kid
<1>4. PICK l \in Nat, r \in Nat :
        /\ l < b /\ r < a
        /\ \/ links' = [links EXCEPT ![before_link] = l, ![after_link] = r]
           \/ links' = [links EXCEPT ![after_link] = r, ![before_link] = l]
        /\ TakeOver => l = Kid(candidate, 0) /\ r = Kid(candidate, 1)
  <2>1. CASE CutOff /\ ~TakeOver
    <3>1. links' = [links EXCEPT ![after_link] = 0, ![before_link] = 0]
      BY <2>1 DEF CutOff, NONE
    <3> QED
      BY <3>1, <2>1, <1>2
  <2>2. CASE TakeOver
    <3>1. /\ ~WalkOver
          /\ links' = [links EXCEPT ![before_link] = links[pair], ![after_link] = links[pair + 1]]
      BY <2>2 DEF TakeOver
    <3>2. /\ candidate < b /\ candidate < a /\ candidate \in Nat
          /\ pair = Link(candidate, 0) /\ pair + 1 = Link(candidate, 1)
          /\ \A s \in 0 .. 1 : /\ links[Link(candidate, s)] \in Nat
                               /\ links[Link(candidate, s)] < candidate
      BY <3>1, <1>1, CandidateIsNode DEF TypeOK
    <3>3. PICK l \in Nat, r \in Nat : /\ l = links[pair] /\ r = links[pair + 1]
                                      /\ l < candidate /\ r < candidate
      BY <3>2
    <3>4. l < b /\ r < a
      BY <3>2, <3>3, <1>2
    <3>5. links' = [links EXCEPT ![before_link] = l, ![after_link] = r]
      BY <3>1, <3>3
    <3>6. l = Kid(candidate, 0) /\ r = Kid(candidate, 1)
      BY <3>2, <3>3, <1>3
    <3> QED
      BY <3>4, <3>5, <3>6
  <2> QED
    BY <2>1, <2>2
<1>5. \A i \in 0 .. cyc * PerSlot - 1 :
        links'[i] = IF i = before_link THEN l ELSE IF i = after_link THEN r ELSE links[i]
  BY <1>1, <1>4, EndsTied
<1>6. /\ before_link # after_link
      /\ before_link \in 0 .. cyc * PerSlot - 1 /\ after_link \in 0 .. cyc * PerSlot - 1
      /\ \A c \in Nodes : \A s \in 0 .. 1 : Link(c, s) \in 0 .. cyc * PerSlot - 1
  BY <1>1, EndsDiffer
<1>7. ASSUME NEW c \in Nodes, NEW s \in 0 .. 1, ~Loose(c, s) PROVE Kid(c, s)' = Kid(c, s)
  BY <1>1, <1>3, <1>5, <1>6, <1>7 DEF Loose
<1>8. links'[before_link] = l /\ links'[after_link] = r
  BY <1>5, <1>6
<1>9. PICK s \in 0 .. 1, t \in 0 .. 1 : before_link = Link(b, s) /\ after_link = Link(a, t)
  BY DEF LooseEnds
<1>10. Kid(b, s)' = l /\ Kid(a, t)' = r
  BY <1>3, <1>8, <1>9
<1> QED
  BY <1>4, <1>7, <1>10

\* The walk ends: what was ahead is under the new root, which stands for the
\* node whose children it took over.
LEMMA LeaveComplete ==
    ASSUME LinkInv, LinkInv', Trees, Complete, CutOff \/ TakeOver
    PROVE  Complete'
<1>1. /\ pc = "walk" /\ pc' \in {"idle", "index"} /\ UNCHANGED <<data, mf, head4>>
      /\ indexed' = indexed + 1 /\ IsTree
  BY OnWalk DEF CutOff, TakeOver, LeaveWalk, LinkInv, Control
<1>2. PICK r \in Nodes, b \in Nodes, a \in Nodes :
        r = Root /\ LooseEnds(b, a) /\ Reaches(r, b) /\ Reaches(r, a) /\ head4[key4(indexed)] = r
  BY <1>1 DEF Complete
<1>3. /\ N \in Nat /\ indexed \in Nat /\ TypeOK /\ r \in 1 .. N /\ r - 1 = indexed
      /\ Has(indexed, 4)
      /\ \A c \in Nodes : c \in 1 .. N /\ c <= r
  BY <1>1, <1>2, NodesAre, OnWalk
<1>4. /\ \A c, y \in Nodes : c \in Nodes' /\ c <= y => y \in Nodes'
      /\ \A c \in Nodes' : c \in Nodes
      /\ \A c \in Nodes' : c <= indexed' => r \in Nodes'
      /\ \A c \in Nodes' : c <= indexed'
  <2>1. \A c \in Nodes' : c <= indexed'
    BY <1>1 DEF Nodes
  <2>2. /\ \A c, y \in Nodes : c \in Nodes' /\ c <= y => y \in Nodes'
        /\ \A c \in Nodes' : c \in Nodes \/ c = Root \/ (pc' = "walk" /\ c = Root')
        /\ \A c \in Nodes' : c <= indexed' => Root \in Nodes'
    BY <1>1, <1>3, WindowMoves
  <2>3. \A c \in Nodes' : c \in Nodes
    <3>1. pc' # "walk"
      BY <1>1
    <3> QED
      BY <2>2, <3>1, <1>2
  <2>4. \A c \in Nodes' : c <= indexed' => r \in Nodes'
    BY <2>2, <1>2
  <2> QED
    BY <2>1, <2>2, <2>3, <2>4
<1>5. \A c, s : ~Loose(c, s)'
  BY <1>1 DEF Loose
<1>6. \A c \in Nodes : \A s \in 0 .. 1 : ~Loose(c, s) => Kid(c, s)' = Kid(c, s)
  BY <1>2, EndsOfWalk
<1>7. ASSUME NEW u, NEW x, Reaches(u, x), x \in Nodes' PROVE Reaches(u, x)'
  BY <1>1, <1>5, <1>6, <1>7, KeptWays
<1>8. ASSUME NEW x \in Nodes', NEW c \in Nodes', Rep(x, c), NEW u \in Nodes',
             u = head4[key4(x - 1)], Reaches(u, x)'
      PROVE  Stored(c)'
  BY <1>1, <1>8, Fixed, RepKept DEF Stored, Held
<1>9. ASSUME NEW c \in Nodes', c = r PROVE Stored(c)'
  <2>1. Rep(c, c) /\ Reaches(c, c)' /\ c = head4[key4(c - 1)]
    BY <1>2, <1>3, <1>9, ReachesNext DEF Rep, Same
  <2> QED
    BY <2>1, <1>8
<1>10. ASSUME Thorough, NEW c \in Nodes', c # r PROVE Stored(c)'
  <2>1. c \in Nodes /\ c <= indexed /\ r \in Nodes'
    <3>1. c \in Nodes /\ c <= indexed' /\ r \in Nodes'
      BY <1>4
    <3>2. c \in 1 .. N /\ c <= r
      BY <3>1, <1>3
    <3> QED
      BY <3>1, <3>2, <1>3, <1>10
  <2>2. PICK x \in Nodes, u \in Nodes : /\ Rep(x, c) /\ Reaches(u, x)
                                        /\ u = head4[key4(x - 1)] \/ u = candidate
    BY <1>10, <2>1 DEF Complete, Stored, Held
  <2>3. c <= x /\ x <= u /\ x \in Nodes' /\ u \in Nodes'
    <3>1. c <= x /\ x <= u
      BY <2>2, ReachedIsOlder DEF Rep
    <3> QED
      BY <3>1, <2>1, <2>2, <1>3, <1>4
  <2>4. CASE u = head4[key4(x - 1)]
    BY <2>2, <2>3, <2>4, <1>7, <1>8
  <2>5. CASE u = candidate
    <3>1. ~WalkOver
      <4>1. candidate <= budget /\ candidate \in 1 .. N /\ InWindow(candidate, indexed)
        BY <1>1, <1>10, <2>2, <2>5, NodesAre DEF Complete
      <4> QED
        BY <4>1, <1>3 DEF WalkOver, NONE
    <3>2. TakeOver
      BY <3>1 DEF CutOff
    <3>3. WalkLen = Limit(r)
      BY <3>2, <1>3 DEF TakeOver, Limit
    <3>4. PICK D \in Subtrees : Sorted(D) /\ \E e, f \in Nodes : Pending(D, e, f)
      BY <1>1 DEF Trees
    <3>5. /\ Same(u, r, Limit(r))
          /\ key4(u - 1) = key4(r - 1)
          /\ key4(x - 1) = key4(u - 1)
      <4>1. PICK e \in Nodes, f \in Nodes : Pending(D, e, f)
        BY <3>4
      <4>2. Same(candidate, Root, WalkLen) /\ D[candidate] \subseteq D[Root]
        BY <4>1, <3>1, <3>4, <1>1, <2>2, <2>5, AgreedIsShared DEF Pending
      <4>3. u \in D[r] /\ key4(x - 1) = key4(u - 1)
        BY <4>2, <3>4, <1>1, <1>2, <2>2, <2>5, ReachedIsUnder DEF Sorted
      <4>4. key4(u - 1) = key4(r - 1)
        BY <4>3, <3>4 DEF Sorted
      <4> QED
        BY <4>2, <4>3, <4>4, <3>3, <1>2, <2>5
    <3>6. CASE x = u
      <4>1. Limit(r) <= Limit(x) /\ Limit(r) \in Nat /\ Limit(x) \in Nat
        BY <1>3, Limits
      <4>2. Same(c, r, Limit(r))
        BY <4>1, <2>2, <3>5, <3>6 DEF Rep, Same
      <4>3. Rep(r, c)
        BY <4>2, <1>3, <2>1, <2>2, <3>5, <3>6 DEF Rep
      <4>4. Reaches(r, r)' /\ r = head4[key4(r - 1)]
        BY <1>2, <1>3, <2>1, ReachesNext
      <4> QED
        BY <4>3, <4>4, <2>1, <1>8
    <3>7. CASE x # u
      <4>1. PICK s \in 0 .. 1, k \in Nodes : /\ ~Loose(u, s) /\ k = Kid(u, s) /\ Reaches(k, x)
        BY <2>2, <3>7, ReachesBy
      <4>2. PICK e \in Nodes, t \in 0 .. 1 : Reaches(r, e) /\ Kid(e, t)' = k /\ u < e
        <5>1. candidate < b /\ candidate < a
          BY <1>2 DEF LooseEnds
        <5>2. CASE s = 0
          <6>1. \E t \in 0 .. 1 : Kid(b, t)' = k
            BY <5>2, <4>1, <3>2, <1>2, <2>5, EndsOfWalk
          <6> QED
            BY <6>1, <5>1, <1>2, <2>5
        <5>3. CASE s = 1
          <6>1. \E t \in 0 .. 1 : Kid(a, t)' = k
            BY <5>3, <4>1, <3>2, <1>2, <2>5, EndsOfWalk
          <6> QED
            BY <6>1, <5>1, <1>2, <2>5
        <5> QED
          BY <5>2, <5>3
      <4>3. k \in Nodes /\ x <= k
        BY <4>1, ReachedIsOlder
      <4>4. e \in Nodes' /\ k \in Nodes'
        BY <4>2, <4>3, <1>3, <1>4, <2>2, <2>3
      <4>5. Reaches(r, e)' /\ Reaches(k, x)'
        BY <4>1, <4>2, <4>4, <1>7, <2>3
      <4>6. Reaches(r, k)'
        BY <4>2, <4>4, <4>5, <1>5, ReachesNext
      <4>7. Reaches(r, x)'
        BY <4>5, <4>6, ReachesNext
      <4>8. r = head4[key4(x - 1)]
        BY <3>5, <1>2, <1>3
      <4> QED
        BY <4>7, <4>8, <2>1, <2>2, <2>3, <1>8
    <3> QED
      BY <3>6, <3>7
  <2> QED
    BY <2>2, <2>4, <2>5
<1> QED
  BY <1>1, <1>9, <1>10, RepKept DEF Complete

\* A step down the tree: the link followed is now the loose end, and the node
\* hangs where the loose end was.
LEMMA StepDownLinked ==
    ASSUME LinkInv, WalkLeft \/ WalkRight, NEW b \in Nodes, NEW a \in Nodes, LooseEnds(b, a)
    PROVE  \E c \in Nodes : \E s \in 0 .. 1 : \E len \in Nat : \E k \in Nat :
             /\ c = candidate /\ len = WalkLen /\ StepDown(len) /\ (SortsBefore(len) <=> s = 1)
             /\ c < b /\ c < a
             /\ candidate' = k /\ k = Kid(c, s) /\ k < c
             /\ s = 1 => /\ LooseEnds(c, a)' /\ before_len' = len /\ after_len' = after_len
             /\ s = 0 => /\ LooseEnds(b, c)' /\ after_len' = len /\ before_len' = before_len
             /\ \A t \in 0 .. 1 : ~Loose(c, t)
             /\ \A d \in Nodes : \A t \in 0 .. 1 :
                  ~Loose(d, t) /\ ~(d = c /\ t = s) => ~Loose(d, t)' /\ Kid(d, t)' = Kid(d, t)
             /\ \E e \in {b, a} : \E t \in 0 .. 1 : ~Loose(e, t)' /\ Kid(e, t)' = c
<1>1. PICK len \in Nat, c \in Nat, s \in 0 .. 1 :
        /\ len = WalkLen /\ StepDown(len) /\ c = candidate
        /\ SortsBefore(len) <=> s = 1
        /\ candidate' = links[Link(c, s)]
        /\ \/ /\ links' = [links EXCEPT ![before_link] = c] /\ s = 1
              /\ before_link' = Link(c, 1) /\ before_len' = len
              /\ UNCHANGED <<after_link, after_len>>
           \/ /\ links' = [links EXCEPT ![after_link] = c] /\ s = 0
              /\ after_link' = Link(c, 0) /\ after_len' = len
              /\ UNCHANGED <<before_link, before_len>>
  BY StepsDown
<1>2. /\ s = 1 => LooseEnds(c, a)'
      /\ s = 0 => LooseEnds(b, c)'
  BY <1>1, StepDownLinks
<1>3. /\ pc = "walk" /\ pc' = "walk" /\ ~WalkOver /\ IsTree /\ UNCHANGED <<data, mf>>
      /\ TypeOK /\ Root \in Nat
  BY <1>1, SteppedDown, OnWalk DEF LinkInv
<1>4. /\ c \in Nodes /\ c < b /\ c < a
      /\ \A t \in 0 .. 1 : links[Link(c, t)] \in Nat /\ links[Link(c, t)] < c
  BY <1>1, <1>3, CandidateIsNode
<1>5. /\ before_link # after_link
      /\ before_link \in 0 .. cyc * PerSlot - 1 /\ after_link \in 0 .. cyc * PerSlot - 1
      /\ \A d \in Nodes : \A t \in 0 .. 1 :
           /\ Link(d, t) \in 0 .. cyc * PerSlot - 1
           /\ Link(d, t) = before_link => d = b
           /\ Link(d, t) = after_link => d = a
  BY <1>3, EndsDiffer
<1>6. PICK end, other :
        /\ \A i \in 0 .. cyc * PerSlot - 1 : links'[i] = IF i = end THEN c ELSE links[i]
        /\ end \in 0 .. cyc * PerSlot - 1
        /\ {before_link, after_link} = {end, other} /\ end # other
        /\ {before_link', after_link'} = {Link(c, s), other}
  <2>1. links \in [0 .. cyc * PerSlot - 1 -> Nat]
    BY <1>3 DEF TypeOK
  <2>2. CASE s = 1
    <3>1. /\ {before_link', after_link'} = {Link(c, s), after_link}
          /\ links' = [links EXCEPT ![before_link] = c]
      BY <2>2, <1>1
    <3>2. \A i \in 0 .. cyc * PerSlot - 1 : links'[i] = IF i = before_link THEN c ELSE links[i]
      BY <3>1, <2>1
    <3> QED
      BY <3>1, <3>2, <1>5
  <2>3. CASE s = 0
    <3>1. /\ {before_link', after_link'} = {Link(c, s), before_link}
          /\ links' = [links EXCEPT ![after_link] = c]
      BY <2>3, <1>1
    <3>2. \A i \in 0 .. cyc * PerSlot - 1 : links'[i] = IF i = after_link THEN c ELSE links[i]
      BY <3>1, <2>1
    <3>3. {before_link, after_link} = {after_link, before_link}
      OBVIOUS
    <3> QED
      BY <3>1, <3>2, <3>3, <1>5
  <2>4. s = 1 \/ s = 0
    OBVIOUS
  <2> QED
    BY <2>2, <2>3, <2>4, Zenon
<1>7. \A d, t : /\ Loose(d, t) <=> Link(d, t) \in {end, other}
                /\ Loose(d, t)' <=> Link(d, t) \in {Link(c, s), other}
                /\ Kid(d, t) = links[Link(d, t)] /\ Kid(d, t)' = links'[Link(d, t)]
  BY <1>3, <1>6, Fixed DEF Loose, Kid
<1>8. b \in Nat /\ a \in Nat /\ c # b /\ c # a
  BY <1>4, NodesAre
<1>9. \A t \in 0 .. 1 : ~Loose(c, t)
  <2>1. end \in {before_link, after_link} /\ other \in {before_link, after_link}
    BY <1>6
  <2> QED
    BY <2>1, <1>4, <1>5, <1>7, <1>8
<1>10. \A d \in Nodes : \A t \in 0 .. 1 : Link(d, t) = Link(c, s) => d = c /\ t = s
  BY <1>3, <1>4, NodeLinks
<1>11. ASSUME NEW d \in Nodes, NEW t \in 0 .. 1, ~Loose(d, t), ~(d = c /\ t = s)
       PROVE  ~Loose(d, t)' /\ Kid(d, t)' = Kid(d, t)
  BY <1>5, <1>6, <1>7, <1>10, <1>11
<1>12. \E e \in {b, a} : \E t \in 0 .. 1 : ~Loose(e, t)' /\ Kid(e, t)' = c
  <2>1. PICK t \in 0 .. 1, u \in 0 .. 1 : before_link = Link(b, t) /\ after_link = Link(a, u)
    BY DEF LooseEnds
  <2>2. PICK e \in {b, a}, v \in 0 .. 1 : Link(e, v) = end
    BY <2>1, <1>6
  <2>3. Link(e, v) # Link(c, s)
    BY <1>8, <1>10
  <2> QED
    BY <2>2, <2>3, <1>6, <1>7
<1>13. PICK k \in Nat : k = Kid(c, s) /\ candidate' = k /\ k < c
  BY <1>1, <1>4, <1>7
<1> QED
  BY <1>1, <1>2, <1>4, <1>9, <1>11, <1>12, <1>13

\* The ways after a step down, to what was not under the node as before.
LEMMA WaysDown ==
    ASSUME LinkInv, UNCHANGED <<data, mf, indexed>>, Nodes' = Nodes,
           NEW c \in Nodes, NEW s \in 0 .. 1, NEW k \in Nat, k = Kid(c, s), k < c,
           NEW r \in Nodes, NEW b \in Nodes, NEW a \in Nodes, c < b, c < a,
           Reaches(r, b), Reaches(r, a),
           \A t \in 0 .. 1 : ~Loose(c, t),
           \A d \in Nodes : \A t \in 0 .. 1 :
             ~Loose(d, t) /\ ~(d = c /\ t = s) => ~Loose(d, t)' /\ Kid(d, t)' = Kid(d, t),
           \E e \in {b, a} : \E t \in 0 .. 1 : ~Loose(e, t)' /\ Kid(e, t)' = c
    PROVE  /\ Reaches(r, b)' /\ Reaches(r, a)' /\ Reaches(r, c)'
           /\ \A u, x : Reaches(u, x) /\ ~Reaches(c, x) => Reaches(u, x)'
           /\ \A u \in Nodes : \A x : u < c /\ Reaches(u, x) => Reaches(u, x)'
           /\ \A x : Reaches(c, x) => Reaches(r, x)' \/ Reaches(k, x)'
<1>1. N \in Nat /\ N' = N /\ \A d \in Nodes : d \in 1 .. N
  BY NodesAre, Fixed
<1>2. ASSUME NEW u, NEW x, Reaches(u, x), ~Reaches(c, x) PROVE Reaches(u, x)'
  <2>1. PICK X \in SUBSET (1 .. N), Y \in SUBSET (1 .. N) :
          X = {y \in 1 .. N : Reaches(c, y)} /\ Y = 1 .. N
    OBVIOUS
  <2>2. Closed(X) /\ Closed(Y)
    BY <2>1, ReachedIsClosed
  <2>3. u \in Nodes /\ u \in Y /\ x \notin X
    BY <2>1, <1>1, <1>2 DEF Reaches
  <2>4. c \in X
    BY <2>1, <1>1, ReachesSelf
  <2> QED
    BY <2>2, <2>3, <2>4, <1>1, <1>2, Carried
<1>3. ASSUME NEW u \in Nodes, NEW x, Reaches(u, x), u < c PROVE Reaches(u, x)'
  <2>1. PICK X \in SUBSET (1 .. N), Y \in SUBSET (1 .. N) :
          X = {} /\ Y = {y \in 1 .. N : y < c}
    OBVIOUS
  <2>2. Closed(X) /\ Closed(Y)
    BY <2>1, <1>1, ReachedIsClosed
  <2>3. u \in Nodes' /\ u \in Y /\ x \notin X /\ c \notin Y
    BY <2>1, <1>1, <1>3
  <2> QED
    BY <2>1, <2>2, <2>3, <1>1, <1>3, Carried
<1>4. ~Reaches(c, b) /\ ~Reaches(c, a)
  BY <1>1, ReachedIsOlder
<1>5. Reaches(r, b)' /\ Reaches(r, a)'
  BY <1>2, <1>4
<1>6. Reaches(r, c)'
  <2>1. PICK e \in {b, a}, t \in 0 .. 1 : ~Loose(e, t)' /\ Kid(e, t)' = c
    OBVIOUS
  <2>2. Reaches(r, e)' /\ e \in Nodes' /\ c \in Nodes'
    BY <2>1, <1>5
  <2> QED
    BY <2>1, <2>2, ReachesNext
<1>7. ASSUME NEW x, Reaches(c, x), x # c PROVE Reaches(r, x)' \/ Reaches(k, x)'
  <2>1. PICK t \in 0 .. 1, v \in Nodes : ~Loose(c, t) /\ v = Kid(c, t) /\ Reaches(v, x)
    BY <1>7, ReachesBy
  <2>2. v \in Nodes /\ v < c
    BY <2>1, KidIsOlder, ReachedIsOlder
  <2>3. Reaches(v, x)'
    BY <2>1, <2>2, <1>3
  <2>4. CASE t = s
    BY <2>1, <2>3, <2>4
  <2>5. CASE t # s
    <3>1. ~Loose(c, t)' /\ Kid(c, t)' = v
      BY <2>1, <2>5
    <3>2. Reaches(r, v)'
      BY <3>1, <2>2, <1>6, ReachesNext
    <3> QED
      BY <3>2, <2>3, ReachesNext
  <2> QED
    BY <2>4, <2>5
<1> QED
  BY <1>2, <1>3, <1>5, <1>6, <1>7

\* A step down loses nothing: what is under the node is under the new root, or
\* still ahead.
LEMMA StepDownComplete ==
    ASSUME LinkInv, LinkInv', Trees, Complete, WalkLeft \/ WalkRight
    PROVE  Complete'
<1>1. pc = "walk" /\ ~WalkOver
  BY DEF WalkLeft, WalkRight, StepDown
<1>2. PICK r \in Nodes, b \in Nodes, a \in Nodes :
        r = Root /\ LooseEnds(b, a) /\ Reaches(r, b) /\ Reaches(r, a) /\ head4[key4(indexed)] = r
  BY <1>1 DEF Complete
<1>3. PICK c \in Nodes, s \in 0 .. 1, len \in Nat, k \in Nat :
             /\ c = candidate /\ len = WalkLen /\ StepDown(len) /\ (SortsBefore(len) <=> s = 1)
             /\ c < b /\ c < a
             /\ candidate' = k /\ k = Kid(c, s) /\ k < c
             /\ s = 1 => /\ LooseEnds(c, a)' /\ before_len' = len /\ after_len' = after_len
             /\ s = 0 => /\ LooseEnds(b, c)' /\ after_len' = len /\ before_len' = before_len
             /\ \A t \in 0 .. 1 : ~Loose(c, t)
             /\ \A d \in Nodes : \A t \in 0 .. 1 :
                  ~Loose(d, t) /\ ~(d = c /\ t = s) => ~Loose(d, t)' /\ Kid(d, t)' = Kid(d, t)
             /\ \E e \in {b, a} : \E t \in 0 .. 1 : ~Loose(e, t)' /\ Kid(e, t)' = c
  BY <1>2, StepDownLinked
<1>4. /\ pc' = "walk" /\ UNCHANGED <<data, mf, head4, indexed>> /\ Nodes' = Nodes /\ Root' = Root
      /\ budget' = budget - 1 /\ IsTree /\ Root - 1 = indexed
  BY <1>1, <1>3, SteppedDown, OnWalk DEF StepDown
<1>5. /\ Reaches(r, b)' /\ Reaches(r, a)' /\ Reaches(r, c)'
      /\ \A u, x : Reaches(u, x) /\ ~Reaches(c, x) => Reaches(u, x)'
      /\ \A x : Reaches(c, x) => Reaches(r, x)' \/ Reaches(k, x)'
  BY <1>2, <1>3, <1>4, WaysDown
<1>6. /\ head4'[key4(indexed)'] = Root' /\ r \in Nodes' /\ r = Root'
      /\ \E d, e \in Nodes' : LooseEnds(d, e)' /\ Reaches(r, d)' /\ Reaches(r, e)'
  <2>1. s = 0 \/ s = 1
    OBVIOUS
  <2>2. head4'[key4(indexed)'] = Root' /\ r \in Nodes' /\ r = Root'
    BY <1>2, <1>4, Fixed
  <2>3. b \in Nodes' /\ a \in Nodes' /\ c \in Nodes'
    BY <1>4
  <2> QED
    BY <2>1, <2>2, <2>3, <1>3, <1>5
<1>7. \A x : Reaches(c, x) => key4(x - 1) = key4(r - 1)
  <2>1. PICK D \in Subtrees : Sorted(D) /\ \E e, f \in Nodes : Pending(D, e, f)
    BY <1>1, <1>4 DEF Trees
  <2>2. D[c] \subseteq D[r]
    BY <2>1, <1>2, <1>3 DEF Pending
  <2>3. \A x : Reaches(c, x) => x \in D[c]
    BY <2>1, <1>4, ReachedIsUnder
  <2> QED
    BY <2>1, <2>2, <2>3 DEF Sorted
<1>8. ASSUME Thorough, NEW d \in Nodes, d <= indexed PROVE Stored(d)'
  <2>1. PICK x \in Nodes, u \in Nodes : /\ Rep(x, d) /\ Reaches(u, x)
                                        /\ u = head4[key4(x - 1)] \/ u = c
    BY <1>3, <1>8 DEF Complete, Stored, Held
  <2>2. \E v \in Nodes : (v = head4[key4(x - 1)] \/ v = k) /\ Reaches(v, x)'
    <3>1. CASE Reaches(c, x)
      <4>1. head4[key4(x - 1)] = r
        BY <3>1, <1>2, <1>4, <1>7
      <4>2. CASE Reaches(r, x)'
        BY <4>1, <4>2
      <4>3. CASE Reaches(k, x)'
        <5>1. k \in Nodes'
          BY <4>3 DEF Reaches
        <5> QED
          BY <5>1, <4>3, <1>4
      <4> QED
        BY <3>1, <4>2, <4>3, <1>5
    <3>2. CASE ~Reaches(c, x)
      BY <3>2, <2>1, <1>5
    <3> QED
      BY <3>1, <3>2
  <2> QED
    BY <2>1, <2>2, <1>3, <1>4, Fixed, RepKept DEF Stored, Held
<1>9. Thorough => candidate' <= budget'
  <2>1. budget \in Nat /\ (Thorough => c <= budget)
    BY <1>1, <1>3 DEF Complete, LinkInv, TypeOK
  <2>2. c \in Nat
    BY NodesAre
  <2> QED
    BY <2>1, <2>2, <1>3, <1>4
<1>10. ASSUME Thorough', NEW d \in Nodes', d <= indexed' PROVE Stored(d)'
  BY <1>4, <1>8, <1>10, RepKept
<1> QED
  BY <1>4, <1>6, <1>9, <1>10, RepKept DEF Complete

LEMMA StutterComplete == ASSUME LinkInv, Complete, UNCHANGED vars PROVE Complete'
<1>1. UNCHANGED <<data, mf, pc, head4, links, indexed, candidate, budget, after_link, before_link,
                  after_len, before_len>>
  BY DEF vars
<1>2. /\ Nodes' = Nodes /\ Root' = Root
      /\ \A c, s : (Loose(c, s)' <=> Loose(c, s)) /\ Kid(c, s)' = Kid(c, s)
      /\ \A b, a : LooseEnds(b, a)' <=> LooseEnds(b, a)
  BY <1>1, Fixed DEF Nodes, Root, Loose, Kid, LooseEnds
<1>3. ASSUME NEW u, NEW x, Reaches(u, x) PROVE Reaches(u, x)'
  BY <1>1, <1>2, <1>3, KeptWays, ReachedIsOlder
<1>4. pc' = "walk" => /\ head4'[key4(indexed)'] = Root'
                      /\ \E r, b, a \in Nodes' : /\ r = Root' /\ LooseEnds(b, a)'
                                                 /\ Reaches(r, b)' /\ Reaches(r, a)'
  BY <1>1, <1>2, <1>3, Fixed DEF Complete
<1>5. ASSUME Thorough, NEW c \in Nodes, c <= indexed PROVE Stored(c)'
  <2>1. PICK x \in Nodes, u \in Nodes : /\ Rep(x, c) /\ Reaches(u, x)
                                        /\ u = head4[key4(x - 1)] \/ (pc = "walk" /\ u = candidate)
    BY <1>5 DEF Complete, Stored, Held
  <2>2. Reaches(u, x)'
    BY <1>3, <2>1
  <2> QED
    BY <1>1, <1>2, <2>1, <2>2, Fixed, RepKept DEF Stored, Held
<1> QED
  BY <1>1, <1>2, <1>4, <1>5, RepKept DEF Complete

LEMMA InitComplete == ASSUME Init PROVE Complete
<1>1. pc = "idle" /\ indexed = 0
  BY DEF Init
<1>2. LinkInv
  BY InitLinks
<1>3. \A c \in Nodes : ~(c <= indexed)
  BY <1>1, <1>2, NodesAre
<1> QED
  BY <1>1, <1>3 DEF Complete

\* A search down a chain comes to what is older.
LEMMA VisitGoesBack ==
    ASSUME LinkInv, VisitChain
    PROVE  /\ candidate' = links[Slot(candidate)] /\ budget' = budget - 1
           /\ candidate' \in Nat /\ candidate' < candidate /\ budget \in Nat \ {0}
           /\ candidate \in Nodes
<1>1. /\ pc = "chain" /\ ~ChainOver /\ TypeOK /\ at = indexed /\ candidate <= at /\ ~IsTree
      /\ Has(at, 4)
  BY DEF VisitChain, LinkInv, Control
<1>2. /\ candidate - 1 \in 0 .. at - 1 /\ at \in Nat /\ at < N /\ N \in Nat
      /\ links[(candidate - 1) % cyc] \in Nat
  BY <1>1, ChainCandidate
<1>3. candidate \in 1 .. N /\ InWindow(candidate, indexed) /\ budget \in Nat \ {0}
  BY <1>1, <1>2 DEF ChainOver, NONE, TypeOK
<1>4. candidate \in Nodes
  <2>1. Has(candidate - 1, 4)
    BY <1>1, <1>2, <1>3 DEF Has
  <2> QED
    BY <2>1, <1>1, <1>3 DEF Nodes
<1>5. links[Slot(candidate)] < candidate
  BY <1>1, <1>4 DEF LinkInv, Back
<1> QED
  BY <1>2, <1>3, <1>4, <1>5 DEF VisitChain, Slot

LEMMA CompleteStep ==
    ASSUME LinkInv, LinkInv', Trees, Complete, [Next]_vars
    PROVE  Complete'
<1>1. TypeOK /\ Control /\ N \in Nat /\ indexed \in Nat
  BY NodesAre DEF LinkInv
<1>2. CASE \/ \E p \in 0 .. N - 1 : find(p)
           \/ BeginSearch \/ TryShort2 \/ TryShort3
  <2>1. UNCHANGED <<data, mf, head4, links, indexed>> /\ pc # "walk" /\ pc' \notin {"walk", "chain"}
    BY <1>2 DEF find, BeginSearch, TryShort2, TryShort3, TryShort, tables
  <2> QED
    BY <2>1, QuietComplete
<1>3. CASE BeginChain
  <2>1. /\ UNCHANGED <<data, mf, head4, links, indexed>> /\ pc = "long" /\ pc' = "chain"
        /\ candidate' = head4[key4(at)] /\ budget' = mf.depth
    BY <1>3 DEF BeginChain, tables
  <2>2. candidate' <= at' /\ candidate' \in Nat /\ at' = at /\ at \in Nat /\ at < N
    BY <1>1, <1>3, <2>1 DEF BeginChain, LinkInv, Control, TypeOK
  <2>3. mf.depth \in Nat
    BY <1>1, CycType
  <2> QED
    BY <2>1, <2>2, <2>3, <1>1, QuietComplete DEF Thorough
<1>4. CASE VisitChain
  <2>1. UNCHANGED <<data, mf, head4, links, indexed>> /\ pc = "chain" /\ pc' = "chain"
    BY <1>4 DEF VisitChain, tables
  <2>2. /\ candidate' < candidate /\ budget' = budget - 1
        /\ candidate' \in Nat /\ candidate \in Nat /\ budget \in Nat
    BY <1>1, <1>4, VisitGoesBack DEF TypeOK
  <2>3. Thorough => candidate' <= budget'
    BY <2>1, <2>2 DEF Complete
  <2> QED
    BY <2>1, <2>3, QuietComplete
<1>5. CASE IndexNowhere \/ SkipTree
  <2>1. /\ UNCHANGED <<data, mf, links, head4>> /\ indexed' = indexed + 1 /\ ~Has(indexed, 4)
        /\ pc # "walk" /\ pc' \notin {"walk", "chain"}
    BY <1>1, <1>5 DEF IndexNowhere, SkipTree, LeaveWalk, Control
  <2>2. \A c, s : Kid(c, s)' = Kid(c, s)
    BY <2>1, Fixed DEF Kid
  <2>3. PICK r \in Nat : r = Root
    BY <1>1 DEF Root
  <2> QED
    BY <2>1, <2>2, <2>3, IndexedComplete
<1>6. CASE IndexInChain \/ SkipChain \/ EndChain
  <2>1. /\ UNCHANGED <<data, mf>> /\ indexed' = indexed + 1 /\ ~IsTree /\ chain_insert(indexed)
        /\ pc # "walk" /\ pc' \notin {"walk", "chain"} /\ indexed <= at /\ at < N
    BY <1>1, <1>6 DEF IndexInChain, SkipChain, EndChain, Return, Control
  <2>2. PICK r \in Nat : r = Root /\ r = indexed + 1 /\ r - 1 = indexed
    BY <1>1 DEF Root
  <2>3. CASE ~Has(indexed, 4)
    <3>1. UNCHANGED <<head4, links>>
      BY <2>1, <2>3 DEF chain_insert
    <3>2. \A c, s : Kid(c, s)' = Kid(c, s)
      BY <2>1, <3>1, Fixed DEF Kid
    <3> QED
      BY <2>1, <2>2, <2>3, <3>1, <3>2, IndexedComplete
  <2>4. CASE Has(indexed, 4)
    <3>1. /\ links' = [links EXCEPT ![Slot(r)] = head4[key4(indexed)]]
          /\ head4' = [head4 EXCEPT ![key4(indexed)] = r]
      BY <2>1, <2>2, <2>4 DEF chain_insert, Slot
    <3>2. r \in 1 .. N /\ InWindow(r, indexed)
      <4>1. mf.window \in Nat
        BY <1>1, CycType
      <4> QED
        BY <4>1, <1>1, <2>1, <2>2, <2>4 DEF Has, InWindow
    <3>3. Slot(r) \in 0 .. cyc - 1 /\ links \in [0 .. cyc - 1 -> Nat]
      <4>1. PerSlot = 1 /\ cyc \in Nat
        BY <2>1, <1>1, CycType DEF PerSlot
      <4>2. links \in [0 .. cyc * PerSlot - 1 -> Nat] /\ cyc * PerSlot = cyc
        BY <4>1, <1>1 DEF TypeOK
      <4> QED
        BY <4>2, <3>2, <1>1, SlotType
    <3>4. ASSUME NEW c \in Nodes PROVE Slot(c) \in 0 .. cyc - 1 /\ Slot(c) # Slot(r)
      <4>1. /\ c \in 1 .. N /\ c <= indexed /\ InWindow(c, indexed) /\ Slot(c) \in 0 .. cyc - 1
        BY <2>1, <1>1, NodesAre, NodeSlots
      <4>2. c # r /\ c <= indexed + 1 /\ r <= indexed + 1
        BY <4>1, <2>2, <1>1
      <4> QED
        BY <4>1, <4>2, <3>2, <1>1, ReachSlots
    <3>5. \A c, s : Kid(c, s) = links[Slot(c)] /\ Kid(c, s)' = links'[Slot(c)]
      BY <2>1, Fixed DEF Kid
    <3>6. \A c \in Nodes \cap Nodes' : \A s \in 0 .. 1 : Kid(c, s)' = Kid(c, s)
      BY <3>1, <3>3, <3>4, <3>5
    <3>7. \A s \in 0 .. 1 : Kid(r, s)' = head4[key4(indexed)]
      BY <3>1, <3>3, <3>5
    <3> QED
      BY <2>1, <2>2, <2>4, <3>1, <3>6, <3>7, IndexedComplete
  <2> QED
    BY <2>3, <2>4
<1>7. CASE IndexInTree \/ BeginTree
  BY <1>7, BeginWalkComplete
<1>8. CASE CutOff \/ TakeOver
  BY <1>8, LeaveComplete
<1>9. CASE WalkLeft \/ WalkRight
  BY <1>9, StepDownComplete
<1>10. CASE UNCHANGED vars
  BY <1>10, StutterComplete
<1> QED
  BY <1>2, <1>3, <1>4, <1>5, <1>6, <1>7, <1>8, <1>9, <1>10 DEF Next, Step

\* The heads of short strings belong to their strings.
LEMMA NamedStep == ASSUME LinkInv, Named, [Next]_vars PROVE Named'
<1>1. CASE \/ \E p \in 0 .. N - 1 : find(p)
           \/ BeginSearch \/ TryShort2 \/ TryShort3 \/ BeginChain \/ VisitChain
           \/ IndexInTree \/ BeginTree \/ WalkLeft \/ WalkRight \/ UNCHANGED vars
  <2>1. UNCHANGED <<data, mf>> /\ UNCHANGED <<head2, head3>>
    BY <1>1 DEF find, BeginSearch, TryShort2, TryShort3, TryShort, BeginChain, VisitChain,
                IndexInTree, BeginTree, WalkLeft, WalkRight, StepDown, tables, vars
  <2> QED
    BY <2>1, Fixed DEF Named, Has, key2, key3, Bytes, N
<1>2. CASE \/ IndexInChain \/ IndexNowhere \/ SkipChain \/ EndChain \/ SkipTree
           \/ CutOff \/ TakeOver
  <2>1. UNCHANGED <<data, mf>> /\ update_short_heads(indexed)
    <3>1. CASE IndexInChain \/ IndexNowhere
      BY <3>1 DEF IndexInChain, IndexNowhere
    <3>2. CASE SkipChain \/ EndChain
      <4>1. at = indexed
        BY <3>2 DEF SkipChain, EndChain, LinkInv, Control
      <4> QED
        BY <4>1, <3>2 DEF SkipChain, EndChain, Return
    <3>3. CASE SkipTree \/ CutOff \/ TakeOver
      BY <3>3 DEF SkipTree, CutOff, TakeOver, LeaveWalk
    <3> QED
      BY <1>2, <3>1, <3>2, <3>3
  <2>2. PICK p \in Nat : p = indexed /\ p + 1 - 1 = p
    BY NodesAre
  <2>3. /\ head2 \in [[1 .. 2 -> Byte] -> Nat] /\ head3 \in [Slots3 -> Nat]
        /\ head2' = IF Has(p, 2) THEN [head2 EXCEPT ![key2(p)] = p + 1] ELSE head2
        /\ head3' = IF Has(p, 3) THEN [head3 EXCEPT ![key3(p)] = p + 1] ELSE head3
    BY <2>1, <2>2 DEF update_short_heads, LinkInv, TypeOK
  <2>4. ASSUME NEW k \in [1 .. 2 -> Byte], NEW h, h = head2'[k], h # NONE
        PROVE  Has(h - 1, 2) /\ key2(h - 1) = k
    <3>1. h = head2[k] \/ (h = p + 1 /\ Has(p, 2) /\ key2(p) = k)
      BY <2>3, <2>4
    <3> QED
      BY <3>1, <2>2, <2>4 DEF Named
  <2>5. ASSUME NEW k \in Slots3, NEW h, h = head3'[k], h # NONE
        PROVE  Has(h - 1, 3) /\ key3(h - 1) = k
    <3>1. h = head3[k] \/ (h = p + 1 /\ Has(p, 3) /\ key3(p) = k)
      BY <2>3, <2>5
    <3> QED
      BY <3>1, <2>2, <2>5 DEF Named
  <2>6. /\ \A k \in [1 .. 2 -> Byte] : head2'[k] # NONE =>
             head2'[k] - 1 + 2 <= N /\ [i \in 1 .. 2 |-> data[head2'[k] - 1 + i]] = k
        /\ \A k \in Slots3 : head3'[k] # NONE =>
             head3'[k] - 1 + 3 <= N /\ hash3[[i \in 1 .. 3 |-> data[head3'[k] - 1 + i]]] = k
    BY <2>4, <2>5 DEF Has, key2, key3, Bytes
  <2> QED
    BY <2>1, <2>6, Fixed DEF Named, Has, key2, key3, Bytes
<1> QED
  BY <1>1, <1>2 DEF Next, Step

LEMMA InitNamed == ASSUME Init PROVE Named
  BY DEF Init, Named

-----------------------------------------------------------------------------
(* Nothing closer is missed: lemmas about what was reported.               *)

LEMMA MatchesAre ==
    ASSUME TypeOK
    PROVE  /\ \A c \in Nat : \A l \in Nat : Matches(c, l) <=> SameBytes(c - 1, at, l)
           /\ \A c : \A k, l \in Nat : k <= l /\ Matches(c, l) => Matches(c, k)
<1>1. at \in Nat
  BY DEF TypeOK
<1>2. ASSUME NEW c \in Nat, NEW l \in Nat PROVE Matches(c, l) <=> SameBytes(c - 1, at, l)
  <2>1. at + 1 \in Int /\ (at + 1) - 1 = at
    BY <1>1
  <2> QED
    BY <2>1, SameIs DEF Matches
<1> QED
  BY <1>2 DEF Matches, Same

\* What a search depends on besides `out`.
LEMMA SearchFixed ==
    ASSUME UNCHANGED <<data, mf, at>>
    PROVE  /\ Earlier' = Earlier /\ max_len' = max_len
           /\ tree_limit(at)' = tree_limit(at) /\ Thorough' = Thorough
           /\ \A c, l : Matches(c, l)' <=> Matches(c, l)
<1>1. N' = N
  BY Fixed
<1> QED
  BY <1>1 DEF Earlier, InWindow, max_len, tree_limit, Thorough, Matches, Same

LEMMA LimitIs ==
    ASSUME TypeOK, at < N
    PROVE  /\ Limit(at + 1) = tree_limit(at) /\ tree_limit(at) \in Nat
           /\ tree_limit(at) <= max_len /\ tree_limit(at) <= mf.nice_len
           /\ max_len \in Nat /\ mf.nice_len \in Nat
<1>1. (at + 1) - 1 = at /\ mf.nice_len \in Nat /\ N \in Nat /\ at \in Nat
  BY CycType, InputType DEF TypeOK
<1> QED
  BY <1>1, MaxLenType DEF Limit, tree_limit, Smaller

\* What was seen stays seen.
LEMMA SeenKept ==
    ASSUME UNCHANGED <<data, mf, at>>, \A c, l : Near(c, l) => Near(c, l)'
    PROVE  /\ \A k : SeenShort(k) => SeenShort(k)'
           /\ \A c : Seen(c) => Seen(c)'
<1>1. /\ Earlier' = Earlier /\ max_len' = max_len
      /\ \A c, l : Matches(c, l)' <=> Matches(c, l)
  BY SearchFixed
<1>2. (4 .. Limit(at + 1))' = 4 .. Limit(at + 1)
  BY Fixed DEF Limit, tree_limit
<1>3. ASSUME NEW k, SeenShort(k) PROVE SeenShort(k)'
  BY <1>1, <1>3 DEF SeenShort
<1>4. ASSUME NEW c, Seen(c) PROVE Seen(c)'
  <2> SUFFICES ASSUME NEW l \in (4 .. Limit(at + 1))', Matches(c, l)'
               PROVE  Near(c, l)'
    BY DEF Seen
  <2> QED
    BY <1>1, <1>2, <1>4 DEF Seen
<1> QED
  BY <1>3, <1>4

\* What is reported stays, and speaks for what is older and no longer.
LEMMA NearKept ==
    ASSUME TypeOK, at' = at
    PROVE  /\ out' = out => \A c, l : Near(c, l) => Near(c, l)'
           /\ \A len, dist \in Nat :
                out' = Reported(len, dist) =>
                  /\ \A c, l : Near(c, l) => Near(c, l)'
                  /\ \A c \in Nat : \A l \in Nat :
                       l <= len /\ dist <= at - (c - 1) => Near(c, l)'
<1>1. out' = out => \A c, l : Near(c, l) => Near(c, l)'
  BY DEF Near
<1>2. ASSUME NEW len \in Nat, NEW dist \in Nat, out' = Reported(len, dist)
      PROVE  /\ \A c, l : Near(c, l) => Near(c, l)'
             /\ \A c \in Nat : \A l \in Nat :
                  l <= len /\ dist <= at - (c - 1) => Near(c, l)'
  <2>1. PICK m \in Seq(Entry), n \in Nat :
          /\ m = out' /\ n = Len(out) /\ Len(m) = n + 1
          /\ m[n + 1] = [len |-> len, dist |-> dist]
          /\ \A i \in 1 .. n : m[i] = out[i]
    <3>1. out \in Seq(Entry) /\ Len(out) \in Nat
      BY DEF TypeOK
    <3>2. /\ Reported(len, dist) \in Seq(Entry) /\ Len(Reported(len, dist)) = Len(out) + 1
          /\ Reported(len, dist)[Len(out) + 1] = [len |-> len, dist |-> dist]
          /\ \A i \in 1 .. Len(out) : Reported(len, dist)[i] = out[i]
      BY <3>1, ReportedType
    <3> QED
      BY <1>2, <3>1, <3>2
  <2>2. ASSUME NEW c, NEW l, Near(c, l) PROVE Near(c, l)'
    <3>1. PICK i \in 1 .. n : out[i].len >= l /\ out[i].dist <= at - (c - 1)
      BY <2>1, <2>2 DEF Near
    <3>2. i \in 1 .. Len(m) /\ m[i] = out[i]
      BY <2>1
    <3> QED
      BY <3>1, <3>2, <2>1 DEF Near
  <2>3. ASSUME NEW c \in Nat, NEW l \in Nat, l <= len, dist <= at - (c - 1) PROVE Near(c, l)'
    <3>1. n + 1 \in 1 .. Len(m) /\ m[n + 1].len >= l /\ m[n + 1].dist <= at - (c - 1)
      BY <2>1, <2>3
    <3> QED
      BY <3>1, <2>1 DEF Near
  <2> QED
    BY <2>2, <2>3
<1> QED
  BY <1>1, <1>2

\* The last match speaks for what is no longer, if it is closer.
LEMMA NearLast ==
    ASSUME TypeOK, AllExact(out), at < N, NEW c \in Nat, NEW l \in Nat, l > 1, l <= LastLen,
           out # <<>> => LastDist <= at - (c - 1)
    PROVE  Near(c, l)
<1>1. out # <<>>
  BY DEF LastLen
<1>2. Len(out) \in 1 .. Len(out) /\ LastLen \in Nat /\ LastLen = out[Len(out)].len
  BY <1>1, LastType DEF LastLen
<1> QED
  BY <1>1, <1>2 DEF Near, LastDist

-----------------------------------------------------------------------------
(* Nothing closer is missed: the short strings.                            *)

\* While other positions are indexed, nothing is searched.
LEMMA ElsewhereSearch ==
    ASSUME \/ pc' \in {"index", "short2"}
           \/ pc' = "walk" /\ indexed' # at' /\ ~record'
    PROVE  Search'
  BY DEF Search, Searching, Done

\* The heads of the short strings at `at` are the latest with these strings.
LEMMA ShortHeadsAre ==
    ASSUME LinkInv, Latest, Named, pc \in {"short2", "short3"}
    PROVE  /\ \A x \in 1 .. at : 2 <= max_len /\ Matches(x, 2) => x <= Short2
           /\ \A x \in 1 .. at : 3 <= max_len /\ Matches(x, 3) => x <= Short3
           /\ 2 <= max_len /\ Short2 # NONE => Matches(Short2, 2)
           /\ 3 <= max_len /\ Short3 # NONE /\ Perfect3 => Matches(Short3, 3)
<1>1. /\ TypeOK /\ N \in Nat /\ at \in Nat /\ at < N /\ indexed = at /\ max_len \in Nat
      /\ max_len <= N - at
      /\ Short2 \in Nat /\ Short2 <= at /\ Short3 \in Nat /\ Short3 <= at
      /\ max_len >= 2 => Has(at, 2) /\ Short2 = head2[key2(at)]
      /\ max_len >= 3 => Has(at, 3) /\ Short3 = head3[key3(at)]
  BY HeadIsBefore DEF LinkInv
<1>2. ASSUME NEW x \in 1 .. at, NEW l \in Nat, l <= max_len, Matches(x, l)
      PROVE  /\ l >= 2 => x <= Short2
             /\ l >= 3 => x <= Short3
  <2>1. PICK q \in Nat : q = x - 1 /\ q \in 0 .. at - 1 /\ q + 1 = x
    BY <1>1
  <2>2. SameBytes(q, at, l)
    BY <2>1, <1>1, <1>2, MatchesAre
  <2>3. (l >= 2 => Has(q, 2)) /\ (l >= 3 => Has(q, 3))
    BY <2>1, <1>1, <1>2 DEF Has
  <2>4. (l >= 2 => key2(q) = key2(at)) /\ (l >= 3 => key3(q) = key3(at))
    BY <2>1, <2>2, <1>1, SameKeys
  <2>5. l >= 2 => q + 1 <= Short2
    BY <2>1, <2>3, <2>4, <1>1, <1>2 DEF Latest
  <2>6. l >= 3 => q + 1 <= Short3
    BY <2>1, <2>3, <2>4, <1>1, <1>2 DEF Latest
  <2> QED
    BY <2>1, <2>5, <2>6
<1>3. ASSUME NEW k \in Nat, NEW h \in Nat, Bytes(h - 1, k) = Bytes(at, k)
      PROVE  Matches(h, k)
  <2>1. \A i \in 1 .. k : data[h - 1 + i] = data[at + i]
    <3> SUFFICES ASSUME NEW i \in 1 .. k PROVE data[h - 1 + i] = data[at + i]
      OBVIOUS
    <3>1. Bytes(h - 1, k)[i] = data[h - 1 + i] /\ Bytes(at, k)[i] = data[at + i]
      BY DEF Bytes
    <3> QED
      BY <3>1, <1>3
  <2>2. \A i \in 0 .. k - 1 : /\ i + 1 \in 1 .. k /\ h - 1 + (i + 1) = h + i
                              /\ at + (i + 1) = at + 1 + i
    BY <1>1
  <2> QED
    BY <2>1, <2>2 DEF Matches, Same
<1>4. ASSUME 2 <= max_len, Short2 # NONE PROVE Matches(Short2, 2)
  <2>1. key2(at) \in [1 .. 2 -> Byte]
    BY <1>1, <1>4, KeyTypes
  <2>2. key2(Short2 - 1) = key2(at)
    BY <2>1, <1>1, <1>4 DEF Named
  <2> QED
    BY <2>2, <1>1, <1>3 DEF key2
<1>5. ASSUME 3 <= max_len, Short3 # NONE, Perfect3 PROVE Matches(Short3, 3)
  <2>1. key3(at) \in Slots3 /\ Short3 - 1 \in Nat
    BY <1>1, <1>5, KeyTypes DEF NONE
  <2>2. key3(Short3 - 1) = key3(at) /\ Has(Short3 - 1, 3) /\ Has(at, 3)
    BY <2>1, <1>1, <1>5 DEF Named
  <2>3. ASSUME NEW p \in Nat, Has(p, 3) PROVE Bytes(p, 3) \in DOMAIN hash3
    <3>1. data \in Seq(Byte) /\ N = Len(data)
      BY <1>1, InputType DEF N
    <3>2. Bytes(p, 3) \in [1 .. 3 -> Byte]
      BY <3>1, <2>3, <1>1 DEF Bytes, Has
    <3> QED
      BY <3>2, ConstantAssumption
  <2>4. Bytes(Short3 - 1, 3) = Bytes(at, 3)
    BY <2>1, <2>2, <2>3, <1>1, <1>5 DEF Perfect3, key3
  <2> QED
    BY <2>4, <1>1, <1>3
<1>6. \A x \in 1 .. at : 2 <= max_len /\ Matches(x, 2) => x <= Short2
  BY <1>2
<1>7. \A x \in 1 .. at : 3 <= max_len /\ Matches(x, 3) => x <= Short3
  BY <1>2
<1> QED
  BY <1>4, <1>5, <1>6, <1>7

\* What comes of looking at the head of a short string.
LEMMA ShortOutcome ==
    ASSUME LinkInv, Exact, NEW here, NEW next, NEW c \in Nat, TryShort(here, next, c), c <= at,
           here \in {"short2", "short3"}, next \in {"short3", "long"}
    PROVE  /\ pc = here /\ pc' = next /\ UNCHANGED <<data, mf, at>>
           /\ \/ /\ c # NONE /\ out' # <<>> /\ LastDist' = at - (c - 1) /\ at - (c - 1) \in Nat
                 /\ \E len \in 2 .. max_len : /\ out' = Reported(len, at - (c - 1))
                                              /\ \A k \in 0 .. max_len : Matches(c, k) => k <= len
              \/ /\ out' = out
                 /\ c # NONE /\ InWindow(c, at) =>
                      \A k \in 2 .. max_len : Matches(c, k) => k <= best
<1>1. pc = here /\ pc' = next /\ UNCHANGED <<data, mf, at>>
  BY DEF TryShort
<1>2. /\ TypeOK /\ max_len \in Nat /\ at \in Nat /\ at < N /\ best \in Nat /\ best = LastLen
      /\ LastLen >= 1
  <2>1. TypeOK /\ at < N /\ AllExact(out) /\ best = LastLen
    BY <1>1 DEF LinkInv, Control, Exact, Reporting
  <2> QED
    BY <2>1, LastType, MaxLenType DEF TypeOK
<1>3. PICK len \in 0 .. max_len : /\ len = match_len(c - 1, at, max_len)
                                  /\ Agree(c - 1, at, max_len, len)
  BY <1>2, MatchLen
<1>4. \A k \in 0 .. max_len : Matches(c, k) => k <= len
  <2> SUFFICES ASSUME NEW k \in 0 .. max_len, Matches(c, k) PROVE k <= len
    OBVIOUS
  <2>1. SameBytes(c - 1, at, k) /\ k \in Nat /\ k <= max_len
    BY <1>2, MatchesAre
  <2> QED
    BY <2>1, <1>2, <1>3, LongerAgree
<1>5. CASE c # NONE /\ BeatsShort(c, len)
  <2>1. out' = Reported(len, at - (c - 1)) /\ len > best
    BY <1>3, <1>5 DEF TryShort, BeatsShort
  <2>2. at - (c - 1) \in Nat /\ len \in 2 .. max_len /\ len \in Nat
    BY <2>1, <1>2, <1>5 DEF NONE
  <2>3. out' # <<>> /\ LastDist' = at - (c - 1)
    BY <2>1, <2>2, <1>2, JustReported
  <2> QED
    BY <2>1, <2>2, <2>3, <1>1, <1>4, <1>5
<1>6. CASE ~(c # NONE /\ BeatsShort(c, len))
  <2>1. out' = out
    BY <1>3, <1>6 DEF TryShort
  <2>2. ASSUME c # NONE, InWindow(c, at), NEW k \in 2 .. max_len, Matches(c, k), best < k
        PROVE  FALSE
    <3>1. k <= len /\ best < len /\ best < max_len
      BY <2>2, <1>2, <1>4
    <3>2. best \in 0 .. len - 1
      BY <3>1, <1>2
    <3>3. data[c - 1 + best + 1] = data[at + best + 1]
      BY <3>2, <1>3 DEF Agree, SameBytes
    <3> QED
      BY <3>1, <3>3, <2>2, <1>2, <1>6 DEF BeatsShort
  <2> QED
    BY <2>1, <2>2, <1>1, <1>2
<1> QED
  BY <1>5, <1>6

LEMMA TryShort2Search ==
    ASSUME LinkInv, Latest, Exact, Named, TryShort2
    PROVE  Search'
<1>1. pc = "short2" /\ pc' = "short3" /\ UNCHANGED <<data, mf, at>>
  BY DEF TryShort2, TryShort
<1>2. /\ TypeOK /\ Short2 \in Nat /\ Short2 <= at /\ at \in Nat /\ max_len \in Nat
      /\ out = <<>> /\ best = 1 /\ mf.window \in Nat
  BY <1>1, HeadIsBefore, CycType DEF LinkInv, Exact, Reporting, LastLen
<1>3. PICK c \in Nat : c = Short2 /\ c <= at /\ TryShort("short2", "short3", c)
  BY <1>2 DEF TryShort2
<1>4. /\ \A x \in 1 .. at : 2 <= max_len /\ Matches(x, 2) => x <= c
      /\ 2 <= max_len /\ c # NONE => Matches(c, 2)
  BY <1>1, <1>3, ShortHeadsAre
<1>5. \A x \in Earlier : x \in 1 .. at /\ (x <= c => c # NONE /\ InWindow(c, at))
  BY <1>2, <1>3 DEF Earlier, InWindow, NONE
<1>6. /\ Earlier' = Earlier /\ max_len' = max_len
      /\ \A x, l : Matches(x, l)' <=> Matches(x, l)
  BY <1>1, SearchFixed
<1>7. \/ /\ c # NONE /\ out' # <<>> /\ LastDist' = at - (c - 1) /\ at - (c - 1) \in Nat
         /\ \E len \in 2 .. max_len : /\ out' = Reported(len, at - (c - 1))
                                      /\ \A k \in 0 .. max_len : Matches(c, k) => k <= len
      \/ /\ out' = out
         /\ c # NONE /\ InWindow(c, at) => \A k \in 2 .. max_len : Matches(c, k) => k <= best
  BY <1>3, ShortOutcome
<1>8. CASE out' = out /\ (c # NONE /\ InWindow(c, at) =>
                            \A k \in 2 .. max_len : Matches(c, k) => k <= best)
  <2>1. 2 <= max_len => \A x \in Earlier : ~Matches(x, 2)
    BY <1>2, <1>4, <1>5, <1>8
  <2>2. Closest(2)'
    BY <1>2, <1>8 DEF Closest
  <2>3. SeenShort(2)'
    BY <2>1, <1>6 DEF SeenShort
  <2> QED
    BY <2>2, <2>3, <1>1 DEF Search, Searching, Done
<1>9. CASE /\ LastDist' = at - (c - 1) /\ at - (c - 1) \in Nat
           /\ \E len \in 2 .. max_len : out' = Reported(len, at - (c - 1))
  <2>1. PICK len \in 2 .. max_len, d \in Nat : /\ d = at - (c - 1)
                                               /\ out' = Reported(len, d) /\ LastDist' = d
    BY <1>9
  <2>2. \A x \in Nat : x <= c => d <= at - (x - 1)
    BY <2>1, <1>2
  <2>3. Closest(2)'
    BY <2>1, <2>2, <1>1, <1>4, <1>6 DEF Closest
  <2>4. \A x \in Nat : x <= c => Near(x, 2)'
    BY <2>1, <2>2, <1>1, <1>2, NearKept
  <2>5. SeenShort(2)'
    BY <2>4, <1>4, <1>5, <1>6 DEF SeenShort
  <2> QED
    BY <2>3, <2>5, <1>1 DEF Search, Searching, Done
<1> QED
  BY <1>7, <1>8, <1>9

LEMMA TryShort3Search ==
    ASSUME LinkInv, Latest, Exact, Named, Search, TryShort3
    PROVE  Search'
<1>1. pc = "short3" /\ pc' = "long" /\ UNCHANGED <<data, mf, at>>
  BY DEF TryShort3, TryShort
<1>2. /\ TypeOK /\ Short2 \in Nat /\ Short2 <= at /\ Short3 \in Nat /\ Short3 <= at
      /\ at \in Nat /\ at < N /\ max_len \in Nat /\ mf.window \in Nat
      /\ AllExact(out) /\ best = LastLen /\ LastLen \in Nat
  <2>1. TypeOK /\ at < N /\ AllExact(out) /\ best = LastLen
    BY <1>1 DEF LinkInv, Control, Exact, Reporting
  <2> QED
    BY <2>1, <1>1, HeadIsBefore, CycType, LastType
<1>3. Closest(2) /\ SeenShort(2)
  BY <1>1 DEF Search
<1>4. PICK c \in Nat, c2 \in Nat, c3 \in Nat :
        /\ c2 = Short2 /\ c3 = Short3 /\ c = (IF c3 = c2 THEN NONE ELSE c3) /\ c <= at
        /\ TryShort("short3", "long", c)
  BY <1>2 DEF TryShort3, NONE
<1>5. /\ \A x \in 1 .. at : 2 <= max_len /\ Matches(x, 2) => x <= c2
      /\ \A x \in 1 .. at : 3 <= max_len /\ Matches(x, 3) => x <= c3
      /\ 2 <= max_len /\ c2 # NONE => Matches(c2, 2)
      /\ 3 <= max_len /\ c3 # NONE /\ Perfect3 => Matches(c3, 3)
  BY <1>1, <1>4, ShortHeadsAre
<1>6. \A x \in Earlier : x \in 1 .. at /\ x \in Nat /\ (x <= c3 => c3 # NONE /\ InWindow(c3, at))
  BY <1>2, <1>4 DEF Earlier, InWindow, NONE
<1>7. /\ Earlier' = Earlier /\ max_len' = max_len
      /\ \A x, l : Matches(x, l)' <=> Matches(x, l)
  BY <1>1, SearchFixed
<1>8. \A x \in 1 .. at : Matches(x, 3) => Matches(x, 2)
  BY <1>2, MatchesAre
<1>9. \/ /\ c # NONE /\ out' # <<>> /\ LastDist' = at - (c - 1) /\ at - (c - 1) \in Nat
         /\ \E len \in 2 .. max_len : /\ out' = Reported(len, at - (c - 1))
                                      /\ \A k \in 0 .. max_len : Matches(c, k) => k <= len
      \/ /\ out' = out
         /\ c # NONE /\ InWindow(c, at) => \A k \in 2 .. max_len : Matches(c, k) => k <= best
  BY <1>4, ShortOutcome
<1>10. \A x, l : Near(x, l) => Near(x, l)'
  BY <1>1, <1>2, <1>9, NearKept
<1>11. SeenShort(2)'
  BY <1>1, <1>3, <1>10, SeenKept
<1>12. Closest(3)'
  <2> SUFFICES ASSUME out' # <<>>, 3 <= max_len, NEW x \in 1 .. at, Matches(x, 3)
               PROVE  LastDist' <= at - (x - 1)
    BY <1>1, <1>7 DEF Closest
  <2>1. CASE out' = out
    <3>1. LastDist' = LastDist
      BY <2>1 DEF LastDist
    <3> QED
      BY <3>1, <2>1, <1>2, <1>3, <1>8 DEF Closest
  <2>2. CASE c # NONE /\ LastDist' = at - (c - 1)
    <3>1. x <= c
      BY <2>2, <1>4, <1>5
    <3> QED
      BY <3>1, <2>2, <1>2
  <2> QED
    BY <2>1, <2>2, <1>9
\* A match of 3 bytes that is the latest is reported, now or with those of 2.
<1>13. ASSUME Perfect3, 3 <= max_len, NEW x \in Earlier, Matches(x, 3) PROVE Near(x, 3)'
  <2>1. x \in 1 .. at /\ x <= c3 /\ x <= c2 /\ c3 # NONE /\ InWindow(c3, at) /\ Matches(c3, 3)
    BY <1>2, <1>5, <1>6, <1>8, <1>13
  <2>2. c3 \in 1 .. at /\ c3 \in Earlier
    BY <2>1, <1>2, <1>4 DEF Earlier, NONE
  <2>3. CASE c = NONE
    <3>1. c3 = c2 /\ Matches(c3, 2)
      BY <2>1, <2>2, <2>3, <1>4, <1>8
    <3>2. Near(c3, 2)
      BY <3>1, <2>2, <1>2, <1>3, <1>13 DEF SeenShort
    <3>3. PICK i \in 1 .. Len(out) : out[i].len >= 2 /\ out[i].dist <= at - (c3 - 1)
      BY <3>2 DEF Near
    <3>4. PICK len \in Nat, d \in 1 .. at :
            /\ len = out[i].len /\ d = out[i].dist /\ len \in 2 .. max_len
            /\ Agree(at - d, at, max_len, len)
      BY <3>3, <1>2 DEF AllExact, ExactMatch
    <3>5. PICK q \in Nat : q = at - d /\ q \in 0 .. at - 1 /\ q + 1 \in 1 .. at /\ q + 1 - 1 = q
      <4>1. at \in Nat /\ d \in 1 .. at
        BY <1>2
      <4> QED
        BY <4>1
    <3>6. Matches(q + 1, 2)
      <4>1. SameBytes(q, at, 2)
        BY <3>4, <3>5 DEF Agree, SameBytes
      <4> QED
        BY <4>1, <3>5, <1>2, MatchesAre
    <3>7. q + 1 <= c2 /\ d <= at - (c3 - 1)
      <4>1. 2 <= max_len
        BY <1>2, <1>13
      <4>2. q + 1 <= c2
        BY <4>1, <3>5, <3>6, <1>5
      <4> QED
        BY <4>2, <3>3, <3>4
    <3>8. q + 1 = c3
      BY <3>1, <3>5, <3>7, <1>2
    <3>9. SameBytes(q, at, 3)
      <4>1. q = c3 - 1 /\ 3 \in Nat
        BY <3>5, <3>8
      <4> QED
        BY <4>1, <2>1, <1>2, <1>4, MatchesAre
    <3>10. 3 <= len
      <4>1. Agree(q, at, max_len, len) /\ len \in 0 .. max_len /\ 3 \in Nat
        BY <3>4, <3>5
      <4> QED
        BY <4>1, <3>9, <1>2, <1>13, LongerAgree
    <3>11. Near(x, 3)
      BY <3>3, <3>4, <3>7, <3>10, <2>1, <1>2, <1>4 DEF Near
    <3> QED
      BY <3>11, <1>10
  <2>4. CASE c # NONE
    <3>1. c = c3
      BY <2>4, <1>4
    <3>2. CASE out' = out /\ \A k \in 2 .. max_len : Matches(c, k) => k <= best
      <4>1. 3 <= LastLen
        BY <3>1, <3>2, <2>1, <1>2, <1>13
      <4>2. out # <<>> => LastDist <= at - (x - 1)
        BY <2>1, <1>2, <1>3, <1>8, <1>13 DEF Closest
      <4>3. Near(x, 3)
        BY <4>1, <4>2, <2>1, <1>2, NearLast
      <4> QED
        BY <4>3, <1>10
    <3>3. CASE /\ at - (c - 1) \in Nat
               /\ \E len \in 2 .. max_len : /\ out' = Reported(len, at - (c - 1))
                                            /\ \A k \in 0 .. max_len : Matches(c, k) => k <= len
      <4>1. PICK len \in 2 .. max_len, d \in Nat : /\ d = at - (c - 1) /\ out' = Reported(len, d)
                                                   /\ 3 <= len
        BY <3>1, <3>3, <2>1, <1>2, <1>13
      <4>2. d <= at - (x - 1)
        BY <4>1, <3>1, <2>1, <1>2
      <4> QED
        BY <4>1, <4>2, <2>1, <1>1, <1>2, NearKept
    <3> QED
      BY <3>1, <3>2, <3>3, <2>1, <2>4, <1>9
  <2> QED
    BY <2>3, <2>4
<1>14. Perfect3 => SeenShort(3)'
  BY <1>7, <1>13 DEF SeenShort
<1> QED
  BY <1>1, <1>11, <1>12, <1>14 DEF Search, Searching, Done

-----------------------------------------------------------------------------
(* Nothing closer is missed: the chains.                                   *)

\* What is no longer than the last match was seen, if that is close enough.
LEMMA SeenByLast ==
    ASSUME TypeOK, AllExact(out), at < N, NEW c \in 1 .. at,
           tree_limit(at) <= LastLen \/ tree_limit(at) < 4,
           out # <<>> /\ Matches(c, 4) => LastDist <= at - (c - 1)
    PROVE  Seen(c)
<1>1. Limit(at + 1) = tree_limit(at) /\ tree_limit(at) \in Nat
  BY LimitIs
<1> SUFFICES ASSUME NEW l \in 4 .. tree_limit(at), Matches(c, l)
             PROVE  Near(c, l)
  BY <1>1 DEF Seen
<1>2. Matches(c, 4)
  BY MatchesAre
<1>3. LastLen \in Nat /\ l \in Nat /\ l > 1 /\ l <= LastLen /\ c \in Nat
  BY <1>1, LastType
<1> QED
  BY <1>2, <1>3, NearLast

\* The search for long strings sets out: all there is to find is ahead.
LEMMA BeginSearchLong ==
    ASSUME LinkInv, Exact, Complete, Search, BeginChain \/ BeginTree
    PROVE  Search'
<1>1. /\ pc = "long" /\ UNCHANGED <<data, mf, links, indexed, at, out, best>> /\ Has(at, 4)
      /\ indexed = at /\ TypeOK /\ at < N /\ at \in Nat
      /\ candidate' = head4[key4(at)]
      /\ \/ BeginChain /\ pc' = "chain" /\ max_len >= 4 /\ head4' = head4
         \/ /\ BeginTree /\ pc' = "walk" /\ (record' <=> best < tree_limit(at))
            /\ before_len' = 0 /\ after_len' = 0
  <2>1. pc = "long" /\ TypeOK /\ indexed = at /\ at < N /\ at \in Nat
    BY DEF BeginChain, BeginTree, LinkInv, Control, TypeOK
  <2>2. max_len \in Nat /\ max_len <= N - at /\ N \in Nat
    BY <2>1, MaxLenType
  <2>3. max_len >= 4 => Has(at, 4)
    BY <2>1, <2>2 DEF Has
  <2> QED
    BY <2>1, <2>3 DEF BeginChain, BeginTree, BeginWalk, tables
<1>2. /\ AllExact(out) /\ best = LastLen /\ LastLen \in Nat /\ LastLen <= max_len
      /\ max_len \in Nat /\ tree_limit(at) \in Nat /\ tree_limit(at) <= max_len
      /\ out # <<>> => LastLen >= 2
  <2>1. AllExact(out) /\ best = LastLen
    BY <1>1 DEF Exact, Reporting
  <2>2. out # <<>> => LastLen >= 2
    <3> SUFFICES ASSUME out # <<>> PROVE LastLen >= 2
      OBVIOUS
    <3>1. ExactMatch(out[Len(out)])
      BY <1>1, <2>1, LastType
    <3> QED
      BY <3>1 DEF ExactMatch, LastLen
  <2> QED
    BY <2>1, <2>2, <1>1, LastType, MaxLenType
<1>3. Closest(3) /\ SeenShort(2) /\ (Perfect3 => SeenShort(3))
  BY <1>1 DEF Search
<1>4. /\ Earlier' = Earlier /\ max_len' = max_len /\ tree_limit(at)' = tree_limit(at)
      /\ Thorough' = Thorough
      /\ \A c, l : Matches(c, l)' <=> Matches(c, l)
      /\ \A c, l : Near(c, l) => Near(c, l)'
  BY <1>1, SearchFixed, NearKept
<1>5. SeenShort(2)' /\ (Perfect3 => SeenShort(3)')
  BY <1>1, <1>3, <1>4, SeenKept
<1>6. \A c \in 1 .. at : 3 <= max_len /\ out # <<>> /\ Matches(c, 4) => LastDist <= at - (c - 1)
  <2>1. \A c \in 1 .. at : Matches(c, 4) => Matches(c, 3)
    BY <1>1, MatchesAre
  <2> QED
    BY <2>1, <1>3 DEF Closest
<1>7. pc' = "chain" \/ record' => Closer'
  <2> SUFFICES ASSUME pc' = "chain" \/ record', out' # <<>>, NEW c \in 1 .. at, Matches(c, 4)
               PROVE  LastDist' <= at - (c - 1)
    BY <1>1, <1>4 DEF Closer
  <2>1. 3 <= max_len
    <3>1. LastLen >= 2 /\ (max_len >= 4 \/ LastLen < tree_limit(at))
      BY <1>1, <1>2
    <3> QED
      BY <3>1, <1>2
  <2>2. LastDist' = LastDist
    BY <1>1 DEF LastDist
  <2> QED
    BY <2>1, <2>2, <1>1, <1>6
<1>8. ASSUME Thorough, NEW c \in Earlier PROVE Seen(c)' \/ Ahead(c)'
  <2>1. c \in 1 .. at /\ c \in Nat /\ InWindow(c, at) /\ N \in Nat
    BY <1>1, InputType DEF Earlier
  <2>2. CASE ~Matches(c, 4)
    <3>1. \A l \in Nat : l >= 4 => ~Matches(c, l)
      BY <2>2, <1>1, MatchesAre
    <3>2. Limit(at + 1) \in Nat
      BY <1>1, LimitIs
    <3>3. Seen(c)
      BY <3>1, <3>2 DEF Seen
    <3> QED
      BY <3>3, <1>1, <1>4, SeenKept
  <2>3. CASE Matches(c, 4) /\ pc' = "walk" /\ ~record'
    <3>1. tree_limit(at) <= LastLen \/ tree_limit(at) < 4
      <4>1. ~(best < tree_limit(at))
        BY <2>3, <1>1
      <4> QED
        BY <4>1, <1>2
    <3>2. CASE 3 <= max_len
      <4>1. Seen(c)
        BY <3>1, <3>2, <2>1, <1>1, <1>2, <1>6, SeenByLast
      <4> QED
        BY <4>1, <1>1, <1>4, SeenKept
    <3>3. CASE ~(3 <= max_len)
      <4>1. tree_limit(at) < 4 /\ Limit(at + 1) = tree_limit(at)
        BY <3>3, <1>1, <1>2, LimitIs
      <4>2. Seen(c)
        BY <4>1, <1>2 DEF Seen
      <4> QED
        BY <4>2, <1>1, <1>4, SeenKept
    <3> QED
      BY <3>2, <3>3
  <2>4. CASE Matches(c, 4) /\ (pc' = "chain" \/ record')
    <3>1. Has(c - 1, 4) /\ key4(c - 1) = key4(at)
      <4>1. SameBytes(c - 1, at, 4)
        BY <2>1, <2>4, <1>1, MatchesAre
      <4>2. \A i \in 1 .. 4 : i - 1 \in 0 .. 3 /\ data[c - 1 + i] = data[at + i]
        <5> SUFFICES ASSUME NEW i \in 1 .. 4 PROVE data[c - 1 + i] = data[at + i]
          OBVIOUS
        <5>1. PICK k \in 0 .. 4 - 1 : k = i - 1 /\ c - 1 + k + 1 = c - 1 + i /\ at + k + 1 = at + i
          BY <2>1, <1>1
        <5> QED
          BY <4>1, <5>1 DEF SameBytes
      <4>3. Bytes(c - 1, 4) = Bytes(at, 4)
        BY <4>2 DEF Bytes
      <4>4. Has(c - 1, 4)
        BY <2>1, <1>1 DEF Has
      <4> QED
        BY <4>3, <4>4 DEF key4
    <3>2. c \in Nodes
      BY <3>1, <2>1, <1>1 DEF Nodes
    <3>3. PICK x \in Nodes, u \in Nodes : Rep(x, c) /\ u = head4[key4(x - 1)] /\ Reaches(u, x)
      BY <3>2, <2>1, <1>1, <1>8 DEF Complete, Stored, Held
    <3>4. u = candidate'
      BY <3>1, <3>3, <1>1 DEF Rep
    <3>5. Reaches(u, x)' /\ u \in Nodes' /\ x \in Nodes'
      <4>1. CASE BeginTree
        <5>1. Reaches(u, x)' /\ Nodes \subseteq Nodes'
          BY <4>1, <3>3, BeginWalkWays
        <5> QED
          BY <5>1
      <4>2. CASE pc' = "chain"
        <5>1. Nodes' = Nodes /\ \A d, s : Kid(d, s)' = Kid(d, s) /\ ~Loose(d, s)'
          BY <4>2, <1>1, Fixed DEF Nodes, Kid, Loose
        <5> QED
          BY <5>1, <3>3, <4>2, <1>1, KeptWays
      <4> QED
        BY <4>1, <4>2, <1>1
    <3>6. Ahead(c)'
      BY <2>4, <3>3, <3>4, <3>5, <1>1, RepKept DEF Ahead
    <3> QED
      BY <3>6
  <2> QED
    BY <2>2, <2>3, <2>4, <1>1
<1>9. Thorough' => \A c \in Earlier' : Seen(c)' \/ Ahead(c)'
  BY <1>4, <1>8
<1>10. pc' = "walk" => before_len' <= best' /\ after_len' <= best'
  BY <1>1, <1>2
<1>11. pc' \in {"chain", "walk"}
  BY <1>1
<1> QED
  BY <1>5, <1>7, <1>9, <1>10, <1>11 DEF Search, Done

\* A node is passed: what agrees as far, and is no closer, was seen.
LEMMA Passed ==
    ASSUME TypeOK, AllExact(out), at < N, best = LastLen, Closer, UNCHANGED <<data, mf, at>>,
           NEW e \in 1 .. at, e = candidate, NEW len \in Nat,
           (out' = out /\ len <= best) \/ out' = Reported(len, at - (e - 1))
    PROVE  /\ \A c, l : Near(c, l) => Near(c, l)'
           /\ \A c \in 1 .. at : \A l \in Nat :
                c <= e /\ 4 <= l /\ l <= len /\ Matches(c, l) => Near(c, l)'
           /\ candidate' \in Nat /\ candidate' < e => Closer'
<1>1. /\ at \in Nat /\ LastLen \in Nat /\ max_len \in Nat
      /\ out # <<>> => LastDist \in Nat
  BY LastType, MaxLenType DEF TypeOK
<1>2. PICK d \in Nat : d = at - (e - 1)
  BY <1>1
<1>3. \A c \in 1 .. at : c \in Nat /\ (c <= e => d <= at - (c - 1))
  BY <1>1, <1>2
<1>4. \A c, l : Near(c, l) => Near(c, l)'
  BY <1>2, NearKept
<1>5. ASSUME NEW c \in 1 .. at, NEW l \in Nat, c <= e, 4 <= l, l <= len, Matches(c, l)
      PROVE  Near(c, l)'
  <2>1. CASE out' = out /\ len <= best
    <3>1. Matches(c, 4)
      BY <1>5, MatchesAre
    <3>2. l <= LastLen /\ l > 1 /\ (out # <<>> => LastDist <= at - (c - 1))
      BY <3>1, <2>1, <1>1, <1>5 DEF Closer
    <3>3. Near(c, l)
      BY <3>2, <1>3, NearLast
    <3> QED
      BY <3>3, <1>4
  <2>2. CASE out' = Reported(len, at - (e - 1))
    BY <2>2, <1>2, <1>3, <1>5, NearKept
  <2> QED
    BY <2>1, <2>2
<1>6. ASSUME candidate' \in Nat, candidate' < e PROVE Closer'
  <2>1. \A c, l : Matches(c, l)' <=> Matches(c, l)
    BY SearchFixed
  <2> SUFFICES ASSUME out' # <<>>, NEW c \in 1 .. at, c <= candidate', Matches(c, 4)
               PROVE  LastDist' <= at - (c - 1)
    BY <2>1 DEF Closer
  <2>2. c <= e
    BY <1>6
  <2>3. CASE out' = out
    <3>1. LastDist' = LastDist
      BY <2>3 DEF LastDist
    <3> QED
      BY <3>1, <2>2, <2>3 DEF Closer
  <2>4. CASE out' = Reported(len, at - (e - 1))
    <3>1. LastDist' = d
      BY <2>4, <1>2, JustReported
    <3> QED
      BY <3>1, <2>2, <1>3
  <2> QED
    BY <2>3, <2>4
<1> QED
  BY <1>4, <1>5, <1>6

\* The node that stands for c, or one below it, is passed and agrees with `at`
\* on len bytes only.
LEMMA StandInPassed ==
    ASSUME TypeOK, at < N, UNCHANGED <<data, mf, at>>, NEW c \in 1 .. at, NEW x \in 1 .. at,
           Rep(x, c), NEW e \in 1 .. at, x <= e, NEW len \in Nat,
           \A l \in 4 .. tree_limit(at) : Matches(x, l) => l <= len,
           \A l \in Nat : 4 <= l /\ l <= len /\ Matches(c, l) => Near(c, l)'
    PROVE  Seen(c)'
<1>1. /\ Limit(at + 1) = tree_limit(at) /\ tree_limit(at) \in Nat /\ at \in Nat /\ N \in Nat
      /\ tree_limit(at)' = tree_limit(at)
      /\ \A d, l : Matches(d, l)' <=> Matches(d, l)
  BY LimitIs, SearchFixed, InputType DEF TypeOK
<1>2. Limit(x) \in Nat /\ tree_limit(at) <= Limit(x)
  <2>1. x \in 1 .. N /\ at + 1 \in 1 .. N /\ x <= at + 1
    BY <1>1
  <2> QED
    BY <2>1, <1>1, Limits
<1>3. ASSUME NEW l \in 4 .. tree_limit(at), Matches(c, l) PROVE Near(c, l)'
  <2>1. Matches(x, l)
    <3>1. Same(c, x, l)
      <4>1. \A i \in 0 .. l - 1 : i \in 0 .. Limit(x) - 1
        BY <1>1, <1>2
      <4> QED
        BY <4>1 DEF Rep, Same
    <3> QED
      BY <3>1, <1>3 DEF Matches, Same
  <2>2. l <= len /\ l \in Nat
    BY <2>1, <1>1
  <2> QED
    BY <2>2, <1>3
<1>4. Limit(at + 1)' = tree_limit(at)
  <2>1. (at + 1) - 1 = at
    BY <1>1
  <2> QED
    BY <2>1, <1>1 DEF Limit
<1> QED
  BY <1>1, <1>3, <1>4 DEF Seen

\* A candidate of a chain is looked at.
LEMMA VisitChainSearch ==
    ASSUME LinkInv, Exact, Search, VisitChain
    PROVE  Search'
<1>1. /\ pc = "chain" /\ pc' = "chain" /\ UNCHANGED <<data, mf, links, indexed, at>> /\ TypeOK
      /\ indexed = at /\ at < N /\ at \in Nat /\ ~ChainOver /\ ~IsTree
  BY DEF VisitChain, LinkInv, Control, TypeOK, tables
<1>2. PICK e \in Nodes, k \in Nat :
        e = candidate /\ k = candidate' /\ k = links[Slot(e)] /\ k < e
  BY VisitGoesBack
<1>3. e \in 1 .. at /\ e \in Nat /\ N \in Nat /\ \A d \in Nodes : d \in 1 .. at
  <2>1. \A d \in Nodes : d \in 1 .. N /\ d <= indexed
    BY <1>1, NodesAre
  <2> QED
    BY <2>1, <1>1, NodesAre
<1>4. /\ AllExact(out) /\ best = LastLen /\ max_len \in Nat /\ best \in Nat /\ Closer
      /\ SeenShort(2) /\ (Perfect3 => SeenShort(3))
  <2>1. AllExact(out) /\ best = LastLen
    BY <1>1 DEF Exact, Reporting
  <2>2. max_len \in Nat /\ best \in Nat
    BY <1>1, MaxLenType DEF TypeOK
  <2>3. Closer /\ SeenShort(2) /\ (Perfect3 => SeenShort(3))
    BY <1>1 DEF Search, Searching
  <2> QED
    BY <2>1, <2>2, <2>3
<1>5. PICK len \in 0 .. max_len : /\ len = match_len(candidate - 1, at, max_len)
                                  /\ Agree(e - 1, at, max_len, len)
  BY <1>2, <1>4, MatchLen
<1>6. (out' = out /\ len <= best) \/ out' = Reported(len, at - (e - 1))
  <2>1. CASE Longer(len)
    BY <2>1, <1>2, <1>5 DEF VisitChain
  <2>2. CASE ~Longer(len)
    <3>1. out' = out
      BY <2>2, <1>5 DEF VisitChain
    <3>2. ASSUME best < len PROVE FALSE
      <4>1. best \in 0 .. len - 1
        BY <3>2, <1>4
      <4>2. data[e - 1 + best + 1] = data[at + best + 1]
        BY <4>1, <1>5 DEF Agree, SameBytes
      <4> QED
        BY <4>2, <3>2, <2>2, <1>2, <1>4 DEF Longer
    <3> QED
      BY <3>1, <3>2, <1>4
  <2> QED
    BY <2>1, <2>2
<1>7. len \in Nat
  BY <1>4
<1>8. /\ \A c, l : Near(c, l) => Near(c, l)'
      /\ \A c \in 1 .. at : \A l \in Nat :
           c <= e /\ 4 <= l /\ l <= len /\ Matches(c, l) => Near(c, l)'
      /\ Closer'
  BY <1>1, <1>2, <1>3, <1>4, <1>6, <1>7, Passed
<1>9. SeenShort(2)' /\ (Perfect3 => SeenShort(3)') /\ \A c : Seen(c) => Seen(c)'
  BY <1>1, <1>4, <1>8, SeenKept
<1>10. ASSUME NEW c \in Earlier, Ahead(c) PROVE Seen(c)' \/ Ahead(c)'
  <2>1. PICK x \in Nodes : Rep(x, c) /\ Reaches(e, x)
    BY <1>2, <1>10 DEF Ahead
  <2>2. CASE x = e
    <3>1. c \in 1 .. at /\ c <= e
      BY <2>1, <2>2 DEF Rep, Earlier
    <3>2. \A l \in 4 .. tree_limit(at) : Matches(x, l) => l <= len
      <4> SUFFICES ASSUME NEW l \in 4 .. tree_limit(at), Matches(x, l) PROVE l <= len
        OBVIOUS
      <4>1. l \in Nat /\ l <= max_len
        BY <1>1, <1>4, LimitIs
      <4>2. SameBytes(e - 1, at, l)
        BY <4>1, <2>2, <1>1, <1>3, MatchesAre
      <4> QED
        BY <4>1, <4>2, <1>4, <1>5, LongerAgree
    <3>3. \A l \in Nat : 4 <= l /\ l <= len /\ Matches(c, l) => Near(c, l)'
      BY <3>1, <1>8
    <3>4. x \in 1 .. at /\ x <= e
      BY <2>2, <1>3
    <3>5. Seen(c)'
      BY <3>1, <3>2, <3>3, <3>4, <2>1, <1>1, <1>3, <1>7, StandInPassed
    <3> QED
      BY <3>5
  <2>3. CASE x # e
    <3>1. PICK s \in 0 .. 1, v \in Nodes : v = Kid(e, s) /\ Reaches(v, x)
      BY <2>1, <2>3, ReachesBy
    <3>2. v = k
      BY <3>1, <1>1, <1>2 DEF Kid
    <3>3. Nodes' = Nodes /\ \A d, t : Kid(d, t)' = Kid(d, t) /\ ~Loose(d, t)'
      BY <1>1, Fixed DEF Nodes, Kid, Loose
    <3>4. Reaches(k, x)'
      BY <3>1, <3>2, <3>3, <2>1, <1>1, KeptWays
    <3>5. k \in Nodes'
      BY <3>4 DEF Reaches
    <3>6. Ahead(c)'
      BY <3>3, <3>4, <3>5, <2>1, <1>1, <1>2, RepKept DEF Ahead
    <3> QED
      BY <3>6
  <2> QED
    BY <2>2, <2>3
<1>11. Thorough' => \A c \in Earlier' : Seen(c)' \/ Ahead(c)'
  <2>1. Earlier' = Earlier /\ (Thorough' <=> Thorough)
    BY <1>1, SearchFixed
  <2>2. Thorough => \A c \in Earlier : Seen(c) \/ Ahead(c)
    BY <1>1 DEF Search, Searching
  <2> QED
    BY <2>1, <2>2, <1>9, <1>10
<1> QED
  BY <1>1, <1>8, <1>9, <1>11 DEF Search, Done

-----------------------------------------------------------------------------
(* Nothing closer is missed: the ends of a search.                         *)

\* A search is over when all there is was seen.
LEMMA DoneSearch ==
    ASSUME LinkInv, UNCHANGED <<data, mf, at>>, pc' = "idle",
           \A c, l : Near(c, l) => Near(c, l)',
           SeenShort(2), Perfect3 => SeenShort(3),
           Thorough => \A c \in Earlier : Seen(c) \/ Seen(c)'
    PROVE  Search'
<1>1. SeenShort(2)' /\ (Perfect3 => SeenShort(3)') /\ \A c : Seen(c) => Seen(c)'
  BY SeenKept
<1>2. Thorough' => \A c \in Earlier' : Seen(c)'
  BY <1>1, SearchFixed
<1> QED
  BY <1>1, <1>2 DEF Search, Searching

\* There is no search for long strings: none are longer than what there is.
LEMMA SkipSearch ==
    ASSUME LinkInv, Exact, Search, SkipChain \/ SkipTree
    PROVE  Search'
<1>1. /\ pc = "long" /\ pc' = "idle" /\ UNCHANGED <<data, mf, at>> /\ TypeOK
      /\ at < N /\ at \in Nat /\ indexed = at /\ AllExact(out) /\ best = LastLen
      /\ max_len < 4 \/ best >= mf.nice_len \/ ~Has(at, 4)
  <2>1. /\ pc = "long" /\ UNCHANGED <<data, mf, at>> /\ TypeOK
        /\ max_len < 4 \/ best >= mf.nice_len \/ ~Has(at, 4)
    BY DEF SkipChain, SkipTree, LinkInv
  <2>2. at < N /\ at \in Nat /\ indexed = at /\ AllExact(out) /\ best = LastLen
    BY <2>1 DEF LinkInv, Control, TypeOK, Exact, Reporting
  <2>3. pc' = "idle"
    BY <2>2 DEF SkipChain, SkipTree, Return, LeaveWalk
  <2> QED
    BY <2>1, <2>2, <2>3
<1>2. out' = out
  <2>1. CASE SkipChain
    BY <2>1 DEF SkipChain, search
  <2>2. CASE SkipTree
    BY <2>2, <1>1, ExtendedIsOut DEF SkipTree, LeaveWalk
  <2> QED
    BY <2>1, <2>2
<1>3. \A c, l : Near(c, l) => Near(c, l)'
  BY <1>1, <1>2, NearKept
<1>4. Closest(3) /\ SeenShort(2) /\ (Perfect3 => SeenShort(3))
  BY <1>1 DEF Search
<1>5. /\ LastLen \in Nat /\ LastLen <= max_len /\ max_len \in Nat /\ max_len <= N - at /\ N \in Nat
      /\ tree_limit(at) \in Nat /\ tree_limit(at) <= max_len /\ tree_limit(at) <= mf.nice_len
      /\ mf.nice_len \in Nat /\ Limit(at + 1) = tree_limit(at)
  BY <1>1, LastType, MaxLenType, LimitIs
<1>6. ASSUME NEW c \in Earlier PROVE Seen(c)
  <2>1. CASE tree_limit(at) < 4
    BY <2>1, <1>5 DEF Seen
  <2>2. CASE ~(tree_limit(at) < 4)
    <3>1. 4 <= max_len /\ Has(at, 4)
      BY <2>2, <1>1, <1>5 DEF Has
    <3>2. tree_limit(at) <= LastLen
      BY <3>1, <1>1, <1>5
    <3>3. c \in 1 .. at
      BY DEF Earlier
    <3>4. out # <<>> /\ Matches(c, 4) => LastDist <= at - (c - 1)
      <4>1. Matches(c, 4) => Matches(c, 3)
        BY <1>1, MatchesAre
      <4> QED
        BY <4>1, <3>1, <3>3, <1>4, <1>5 DEF Closest
    <3> QED
      BY <3>2, <3>3, <3>4, <1>1, SeenByLast
  <2> QED
    BY <2>1, <2>2
<1> QED
  BY <1>1, <1>3, <1>4, <1>6, DoneSearch

\* A chain is left when a match is long enough, or nothing is ahead.
LEMMA EndChainSearch ==
    ASSUME LinkInv, Exact, Complete, Search, EndChain
    PROVE  Search'
<1>1. /\ pc = "chain" /\ pc' = "idle" /\ UNCHANGED <<data, mf, at, out>> /\ ChainOver /\ TypeOK
      /\ indexed = at /\ at < N /\ at \in Nat /\ AllExact(out) /\ best = LastLen
  BY DEF EndChain, Return, search, LinkInv, Control, TypeOK, Exact, Reporting
<1>2. \A c, l : Near(c, l) => Near(c, l)'
  BY <1>1, NearKept
<1>3. Closer /\ SeenShort(2) /\ (Perfect3 => SeenShort(3))
  BY <1>1 DEF Search, Searching
<1>4. /\ max_len \in Nat /\ tree_limit(at) <= max_len /\ tree_limit(at) <= mf.nice_len
      /\ tree_limit(at) \in Nat /\ mf.nice_len \in Nat /\ LastLen \in Nat
  BY <1>1, LimitIs, LastType
<1>5. ASSUME Thorough, NEW c \in Earlier, Ahead(c) PROVE Seen(c)
  <2>1. PICK x \in Nodes, u \in Nodes : Rep(x, c) /\ u = candidate /\ Reaches(u, x)
    BY <1>5 DEF Ahead
  <2>2. /\ u \in Nat /\ x \in Nat /\ c \in 1 .. at /\ c <= u /\ u # NONE /\ InWindow(u, at)
        /\ candidate <= budget
    BY <2>1, <1>1, <1>5, NodesAre, ReachedIsOlder DEF Complete, Rep, NONE, Earlier
  <2>3. tree_limit(at) <= LastLen
    <3>1. budget # 0
      BY <2>1, <2>2 DEF NONE
    <3> QED
      BY <3>1, <2>1, <2>2, <1>1, <1>4 DEF ChainOver
  <2>4. out # <<>> /\ Matches(c, 4) => LastDist <= at - (c - 1)
    BY <2>1, <2>2, <1>3 DEF Closer
  <2> QED
    BY <2>2, <2>3, <2>4, <1>1, SeenByLast
<1>6. Thorough => \A c \in Earlier : Seen(c)
  <2>1. Thorough => \A c \in Earlier : Seen(c) \/ Ahead(c)
    BY <1>1 DEF Search, Searching
  <2> QED
    BY <2>1, <1>5
<1> QED
  BY <1>1, <1>2, <1>3, <1>6, DoneSearch

\* A walk is left when nothing is ahead, or with a match as long as is compared.
LEMMA LeaveSearch ==
    ASSUME LinkInv, Trees, Exact, Complete, Search, CutOff \/ TakeOver
    PROVE  Search'
<1>1. /\ pc = "walk" /\ UNCHANGED <<data, mf, at>> /\ TypeOK /\ indexed <= at
      /\ indexed \in Nat /\ at \in Nat /\ at < N /\ AllExact(out)
  BY DEF CutOff, TakeOver, LinkInv, Control, TypeOK, Exact
<1>2. CASE indexed # at
  <2>1. pc' = "index"
    BY <1>1, <1>2 DEF CutOff, TakeOver, LeaveWalk
  <2> QED
    BY <2>1, ElsewhereSearch
<1>3. CASE indexed = at
  <2>1. pc' = "idle"
    BY <1>1, <1>3 DEF CutOff, TakeOver, LeaveWalk
  <2>2. SeenShort(2) /\ (Perfect3 => SeenShort(3))
    BY <1>1, <1>3 DEF Search, Searching
  <2>3. Thorough => \A c \in Earlier : Seen(c) \/ Ahead(c)
    BY <1>1, <1>3 DEF Search, Searching
  <2>4. \/ out' = out
        \/ /\ TakeOver /\ Found(WalkLen) # out
           /\ \E l, d \in Nat : /\ d = at - (candidate - 1) /\ tree_limit(at) <= l
                                /\ out' = Reported(l, d)
    <3>1. CASE TakeOver /\ Found(WalkLen) # out
      BY <3>1, TakeOverReports
    <3>2. CASE CutOff \/ (TakeOver /\ Found(WalkLen) = out)
      <4>1. out' = Extended(out)
        BY <3>2, <1>1, <1>3 DEF CutOff, TakeOver, LeaveWalk
      <4> QED
        BY <4>1, <1>1, ExtendedIsOut
    <3> QED
      BY <3>1, <3>2
  <2>5. \A c, l : Near(c, l) => Near(c, l)'
    BY <2>4, <1>1, NearKept
  <2>6. ASSUME Thorough, NEW c \in Earlier, Ahead(c) PROVE Seen(c)'
    <3>1. PICK x \in Nodes, u \in Nodes : Rep(x, c) /\ u = candidate /\ Reaches(u, x)
      BY <2>6 DEF Ahead
    <3>2. /\ u \in Nat /\ x \in Nat /\ c \in 1 .. at /\ c <= u /\ u # NONE /\ InWindow(u, indexed)
          /\ candidate <= budget /\ record
      BY <3>1, <1>1, <2>6, NodesAre, ReachedIsOlder DEF Complete, Rep, NONE, Earlier, Ahead
    <3>3. ~WalkOver
      BY <3>1, <3>2 DEF WalkOver, NONE
    <3>4. TakeOver /\ WalkLen = tree_limit(at)
      BY <3>3, <1>3 DEF CutOff, TakeOver
    <3>5. Found(WalkLen) # out
      <4>1. best < tree_limit(at) /\ Agreed < tree_limit(at) /\ Agreed \in Nat
            /\ best \in Nat /\ tree_limit(at) \in Nat
        BY <3>2, <1>1, <1>3, OnWalk DEF Exact, TypeOK
      <4>2. PICK len \in Nat, d \in Nat : /\ len = WalkLen /\ d = indexed - (candidate - 1)
        <5>1. candidate <= at /\ candidate \in Nat
          <6>1. PICK b \in Nodes, a \in Nodes : LooseEnds(b, a)
            BY <1>1 DEF LinkInv, Walking
          <6> QED
            BY <6>1, <1>1, <1>3, <3>3, CandidateIsNode DEF TypeOK
        <5> QED
          BY <5>1, <4>1, <3>4, <1>1, <1>3
      <4>3. Found(WalkLen) = Reported(len, d)
        BY <4>1, <4>2, <3>2, <3>4 DEF Found
      <4>4. out \in Seq(Entry)
        BY <1>1 DEF TypeOK
      <4>5. Len(out) \in Nat
        BY <4>4
      <4>6. Len(Reported(len, d)) = Len(out) + 1
        BY <4>4, ReportedType
      <4>7. Reported(len, d) # out
        BY <4>5, <4>6
      <4> QED
        BY <4>3, <4>7
    <3>6. PICK l \in Nat, d \in Nat : /\ d = at - (candidate - 1) /\ tree_limit(at) <= l
                                      /\ out' = Reported(l, d)
      BY <3>5, <3>4, TakeOverReports
    <3>7. \A k \in Nat : k <= l => Near(c, k)'
      <4>1. d <= at - (c - 1) /\ c \in Nat
        BY <3>1, <3>2, <3>6, <1>1
      <4> QED
        BY <4>1, <3>6, <1>1, NearKept
    <3>8. (4 .. Limit(at + 1))' = 4 .. tree_limit(at) /\ tree_limit(at) \in Nat
      <4>1. Limit(at + 1) = tree_limit(at) /\ tree_limit(at) \in Nat
        BY <1>1, LimitIs
      <4>2. (4 .. Limit(at + 1))' = 4 .. Limit(at + 1)
        BY <1>1, Fixed DEF Limit, tree_limit
      <4> QED
        BY <4>1, <4>2
    <3> SUFFICES ASSUME NEW k \in (4 .. Limit(at + 1))' PROVE Near(c, k)'
      BY DEF Seen
    <3>9. k \in 4 .. tree_limit(at)
      BY <3>8
    <3>10. k \in Nat /\ k <= l
      BY <3>6, <3>8, <3>9
    <3> QED
      BY <3>7, <3>10
  <2> QED
    BY <2>1, <2>2, <2>3, <2>5, <2>6, <1>1, DoneSearch
<1> QED
  BY <1>2, <1>3


-----------------------------------------------------------------------------
(* Nothing closer is missed: the steps down a tree.                        *)

\* What is on the far side of a node agrees with the root no further than it.
LEMMA FarSide ==
    ASSUME TypeOK, NEW t \in 0 .. 1, NEW x \in 1 .. N, NEW e \in 1 .. N, NEW r \in 1 .. N,
           x <= e, e <= r, Sides(t, x, e), NEW len \in Nat, len < Limit(r),
           Same(e, r, len), Beyond(t, data[e + len], data[r + len]),
           NEW l \in Nat, Same(x, r, l)
    PROVE  l <= len
<1>1. /\ Limit(r) \in Nat /\ Limit(e) \in Nat /\ Limit(r) <= Limit(e) /\ x <= r
      /\ \A k \in 0 .. Limit(r) - 1 : data[e + k] \in Nat /\ data[r + k] \in Nat
      /\ \A k \in 0 .. Limit(r) - 1 : data[x + k] \in Nat
  <2>1. x <= r
    BY InputType
  <2> QED
    BY <2>1, Limits
<1>2. PICK k \in Nat : /\ Same(x, e, k)
                       /\ k <= len => Beyond(t, data[x + k], data[e + k])
  BY <1>1, SidesAre
<1> SUFFICES ASSUME len < l PROVE FALSE
  OBVIOUS
<1>3. len \in 0 .. l - 1 /\ data[x + len] = data[r + len] /\ len \in 0 .. Limit(r) - 1
  BY <1>1 DEF Same
<1>4. CASE k < len
  <2>1. k \in 0 .. len - 1 /\ k \in 0 .. l - 1 /\ k \in 0 .. Limit(r) - 1
    BY <1>1, <1>4
  <2>2. data[x + k] = data[r + k] /\ data[e + k] = data[r + k]
    BY <2>1 DEF Same
  <2> QED
    BY <2>1, <2>2, <1>1, <1>2, <1>4 DEF Beyond
<1>5. CASE k = len
  BY <1>1, <1>2, <1>3, <1>5 DEF Beyond
<1>6. CASE k > len
  <2>1. data[x + len] = data[e + len]
    BY <1>2, <1>6 DEF Same
  <2> QED
    BY <2>1, <1>1, <1>3 DEF Beyond
<1> QED
  BY <1>4, <1>5, <1>6

\* A node is looked at while matches are searched.
LEMMA StepDownReports ==
    ASSUME LinkInv, Trees, Exact, Search, record, NEW len \in Nat, len = WalkLen, StepDown(len)
    PROVE  /\ indexed = at /\ candidate \in 1 .. at /\ TypeOK /\ at < N /\ at + 1 = Root
           /\ AllExact(out) /\ best = LastLen /\ Closer
           /\ (out' = out /\ len <= best) \/ out' = Reported(len, at - (candidate - 1))
           /\ len <= best' /\ best <= best' /\ best \in Nat /\ best' \in Nat
           /\ Same(candidate, Root, len) /\ data[candidate + len] # data[Root + len]
           /\ data[candidate + len] \in Nat /\ data[Root + len] \in Nat
           /\ len < Limit(Root) /\ Limit(Root) = tree_limit(at)
<1>1. /\ pc = "walk" /\ ~WalkOver /\ len < tree_limit(indexed) /\ out' = Found(len)
      /\ best' = NewBest(len) /\ TypeOK /\ at < N /\ AllExact(out) /\ best = LastLen /\ Closer
      /\ best \in Nat /\ at \in Nat /\ indexed = at
  BY DEF StepDown, LinkInv, TypeOK, Control, Exact, Reporting, Search
<1>2. Root = at + 1 /\ Limit(Root) = tree_limit(at) /\ Agreed \in Nat
      /\ Agreed <= before_len /\ before_len \in Nat
  <2>1. Root - 1 = at /\ Root = at + 1
    BY <1>1 DEF Root
  <2> QED
    BY <2>1, <1>1, OnWalk DEF Limit
<1>3. PICK b \in Nodes, a \in Nodes : LooseEnds(b, a)
  BY <1>1 DEF LinkInv, Walking
<1>4. candidate \in 1 .. at
  BY <1>1, <1>3, CandidateIsNode
<1>5. before_len <= best
  BY <1>1 DEF Search
<1>6. /\ (out' = out /\ len <= best) \/ out' = Reported(len, at - (candidate - 1))
      /\ len <= best' /\ best <= best' /\ best' \in Nat
  <2>1. CASE len > Agreed /\ len > best
    BY <2>1, <1>1 DEF Found, NewBest
  <2>2. CASE ~(len > Agreed /\ len > best)
    <3>1. out' = out /\ best' = best
      BY <2>2, <1>1 DEF Found, NewBest
    <3>2. len <= best
      BY <2>2, <1>1, <1>2, <1>5
    <3> QED
      BY <3>1, <3>2, <1>1
  <2> QED
    BY <2>1, <2>2
<1>7. /\ Same(candidate, Root, len) /\ data[candidate + len] # data[Root + len]
      /\ data[candidate + len] \in Nat /\ data[Root + len] \in Nat
  <2>1. IsTree
    BY <1>1, OnWalk
  <2>2. PICK D \in Subtrees : Sorted(D) /\ \E d, e \in Nodes : Pending(D, d, e)
    BY <1>1, <2>1 DEF Trees
  <2>3. WalkLen < Limit(Root)
    BY <1>1, <1>2
  <2> QED
    BY <2>1, <2>2, <2>3, <1>1, AgreedIsShared
<1> QED
  BY <1>1, <1>2, <1>4, <1>6, <1>7

\* A step down the tree: what stands for a position is seen, or is passed
\* together with the node, or is still ahead.
LEMMA StepDownSearch ==
    ASSUME LinkInv, Trees, Exact, Complete, Search, WalkLeft \/ WalkRight
    PROVE  Search'
<1>1. pc = "walk" /\ ~WalkOver
  BY DEF WalkLeft, WalkRight, StepDown
<1>2. PICK r \in Nodes, b \in Nodes, a \in Nodes :
        r = Root /\ LooseEnds(b, a) /\ Reaches(r, b) /\ Reaches(r, a)
  BY <1>1 DEF Complete
<1>3. PICK e \in Nodes, s \in 0 .. 1, len \in Nat, k \in Nat :
             /\ e = candidate /\ len = WalkLen /\ StepDown(len) /\ (SortsBefore(len) <=> s = 1)
             /\ e < b /\ e < a
             /\ candidate' = k /\ k = Kid(e, s) /\ k < e
             /\ s = 1 => /\ LooseEnds(e, a)' /\ before_len' = len /\ after_len' = after_len
             /\ s = 0 => /\ LooseEnds(b, e)' /\ after_len' = len /\ before_len' = before_len
             /\ \A t \in 0 .. 1 : ~Loose(e, t)
             /\ \A d \in Nodes : \A t \in 0 .. 1 :
                  ~Loose(d, t) /\ ~(d = e /\ t = s) => ~Loose(d, t)' /\ Kid(d, t)' = Kid(d, t)
             /\ \E d \in {b, a} : \E t \in 0 .. 1 : ~Loose(d, t)' /\ Kid(d, t)' = e
  BY <1>2, StepDownLinked
<1>4. /\ pc' = "walk" /\ UNCHANGED <<data, mf, indexed, at, record>> /\ Nodes' = Nodes
      /\ IsTree /\ N \in Nat /\ at \in Nat /\ TypeOK /\ indexed <= at /\ indexed \in Nat
      /\ \A d \in Nodes : d \in 1 .. N
  BY <1>1, <1>3, SteppedDown, OnWalk, NodesAre DEF StepDown
<1>5. CASE indexed # at
  <2>1. ~record
    BY <1>1, <1>5 DEF LinkInv, Control
  <2> QED
    BY <2>1, <1>4, <1>5, ElsewhereSearch
<1>6. CASE indexed = at /\ ~record
  <2>1. SeenShort(2) /\ (Perfect3 => SeenShort(3))
    BY <1>1, <1>6 DEF Search, Searching
  <2>2. Thorough => \A c \in Earlier : Seen(c)
    BY <1>1, <1>6 DEF Search, Searching, Ahead
  <2>3. out' = out
    BY <1>3, <1>6 DEF StepDown, Found
  <2>4. \A c, l : Near(c, l) => Near(c, l)'
    BY <2>3, <1>4, NearKept
  <2>5. SeenShort(2)' /\ (Perfect3 => SeenShort(3)') /\ \A c : Seen(c) => Seen(c)'
    BY <2>1, <2>4, <1>4, SeenKept
  <2>6. Thorough' => \A c \in Earlier' : Seen(c)'
    BY <2>2, <2>5, <1>4, SearchFixed
  <2> QED
    BY <2>5, <2>6, <1>4, <1>6 DEF Search, Done
<1>7. CASE record
  <2>1. /\ indexed = at /\ e \in 1 .. at /\ at < N /\ at + 1 = Root
        /\ AllExact(out) /\ best = LastLen /\ Closer
        /\ (out' = out /\ len <= best) \/ out' = Reported(len, at - (e - 1))
        /\ len <= best' /\ best <= best' /\ best \in Nat /\ best' \in Nat
        /\ Same(e, Root, len) /\ data[e + len] # data[Root + len]
        /\ data[e + len] \in Nat /\ data[Root + len] \in Nat
        /\ len < Limit(Root) /\ Limit(Root) = tree_limit(at)
    BY <1>3, <1>7, StepDownReports
  <2>2. /\ \A c, l : Near(c, l) => Near(c, l)'
        /\ \A c \in 1 .. at : \A l \in Nat :
             c <= e /\ 4 <= l /\ l <= len /\ Matches(c, l) => Near(c, l)'
        /\ Closer'
    BY <2>1, <1>3, <1>4, Passed
  <2>3. SeenShort(2)' /\ (Perfect3 => SeenShort(3)') /\ \A c : Seen(c) => Seen(c)'
    <3>1. SeenShort(2) /\ (Perfect3 => SeenShort(3))
      BY <1>1, <2>1 DEF Search, Searching
    <3> QED
      BY <3>1, <2>2, <1>4, SeenKept
  <2>4. before_len' <= best' /\ after_len' <= best'
    <3>1. before_len <= best /\ after_len <= best /\ before_len \in Nat /\ after_len \in Nat
      BY <1>1, <1>7, <1>4 DEF Search, TypeOK
    <3>2. s = 0 \/ s = 1
      OBVIOUS
    <3>3. before_len' \in {before_len, len} /\ after_len' \in {after_len, len}
      BY <3>2, <1>3
    <3> QED
      BY <3>1, <3>3, <2>1
  <2>5. ASSUME NEW c \in Earlier, Ahead(c) PROVE Seen(c)' \/ Ahead(c)'
    <3>1. PICK x \in Nodes : Rep(x, c) /\ Reaches(e, x)
      BY <1>3, <2>5 DEF Ahead
    <3>2. c \in 1 .. at /\ x \in 1 .. at /\ c <= e /\ x <= e
      <4>1. x \in 1 .. N /\ x <= e
        BY <3>1, <1>4, ReachedIsOlder
      <4> QED
        BY <4>1, <3>1, <2>1, <1>4 DEF Rep, Earlier
    <3>3. (\A l \in 4 .. tree_limit(at) : Matches(x, l) => l <= len) => Seen(c)'
      <4>1. \A l \in Nat : 4 <= l /\ l <= len /\ Matches(c, l) => Near(c, l)'
        BY <3>2, <2>2
      <4> QED
        BY <4>1, <3>1, <3>2, <2>1, <1>4, StandInPassed
    <3>4. CASE x = e
      <4>1. ASSUME NEW l \in 4 .. tree_limit(at), Same(e, Root, l) PROVE l <= len
        <5>1. ~(len \in 0 .. l - 1)
          BY <4>1, <2>1 DEF Same
        <5> QED
          BY <5>1
      <4> QED
        BY <4>1, <3>3, <3>4, <2>1 DEF Matches
    <3>5. CASE x # e
      <4>1. PICK t \in 0 .. 1, v \in Nodes : ~Loose(e, t) /\ v = Kid(e, t) /\ Reaches(v, x)
        BY <3>1, <3>5, ReachesBy
      <4>2. CASE t = s
        <5>1. v = k
          BY <4>1, <4>2, <1>3
        <5>2. Reaches(k, x)'
          BY <4>1, <5>1, <1>2, <1>3, <1>4, ReachedIsOlder, WaysDown
        <5>3. k \in Nodes'
          BY <5>2 DEF Reaches
        <5>4. Ahead(c)'
          BY <5>2, <5>3, <3>1, <1>3, <1>4, <1>7, RepKept DEF Ahead
        <5> QED
          BY <5>4
      <4>3. CASE t # s
        <5>1. PICK D \in Subtrees : Sorted(D)
          BY <1>4 DEF Trees
        <5>2. Sides(t, x, e)
          BY <4>1, <5>1, <1>4, ReachedIsUnder
        <5>3. Beyond(t, data[e + len], data[Root + len])
          <6>1. SortsBefore(len) <=> data[e + len] < data[Root + len]
            <7>1. e \in Int /\ e - 1 + len + 1 = e + len /\ indexed + len + 1 = Root + len
              BY <1>4 DEF Root
            <7> QED
              BY <7>1, <1>3 DEF SortsBefore
          <6>2. (t = 0 /\ s = 1) \/ (t = 1 /\ s = 0)
            BY <4>3
          <6> QED
            BY <6>1, <6>2, <1>3, <2>1 DEF Beyond
        <5>4. ASSUME NEW l \in 4 .. tree_limit(at), Same(x, Root, l) PROVE l <= len
          <6>1. x \in 1 .. N /\ e \in 1 .. N /\ Root \in 1 .. N /\ e <= Root /\ l \in Nat
            BY <3>2, <2>1, <1>4
          <6> QED
            BY <6>1, <5>2, <5>3, <5>4, <3>2, <2>1, <1>4, FarSide
        <5> QED
          BY <5>4, <3>3, <2>1 DEF Matches
      <4> QED
        BY <4>2, <4>3
    <3> QED
      BY <3>4, <3>5
  <2>6. Thorough' => \A c \in Earlier' : Seen(c)' \/ Ahead(c)'
    <3>1. Earlier' = Earlier /\ (Thorough' <=> Thorough)
      BY <1>4, SearchFixed
    <3>2. Thorough => \A c \in Earlier : Seen(c) \/ Ahead(c)
      BY <1>1, <2>1 DEF Search, Searching
    <3> QED
      BY <3>1, <3>2, <2>3, <2>5
  <2> QED
    BY <2>2, <2>3, <2>4, <2>6, <1>4 DEF Search, Done
<1> QED
  BY <1>5, <1>6, <1>7

-----------------------------------------------------------------------------
(* Nothing closer is missed: the invariant holds.                          *)

LEMMA StutterSearch == ASSUME LinkInv, Search, UNCHANGED vars PROVE Search'
<1>1. UNCHANGED <<data, mf, pc, links, indexed, at, out, best, candidate, record, after_link,
                  before_link, after_len, before_len>>
  BY DEF vars
<1>2. /\ Nodes' = Nodes /\ Thorough' = Thorough /\ Earlier' = Earlier /\ max_len' = max_len
      /\ \A c, s : (Loose(c, s)' <=> Loose(c, s)) /\ Kid(c, s)' = Kid(c, s)
      /\ \A c, l : Matches(c, l)' <=> Matches(c, l)
  BY <1>1, Fixed, SearchFixed DEF Nodes, Root, Loose, Kid
<1>3. ASSUME NEW u, NEW x, Reaches(u, x) PROVE Reaches(u, x)'
  BY <1>1, <1>2, <1>3, KeptWays, ReachedIsOlder
<1>4. \A c, l : Near(c, l) => Near(c, l)'
  BY <1>1 DEF Near
<1>5. (\A k : SeenShort(k) => SeenShort(k)') /\ (\A c : Seen(c) => Seen(c)')
  BY <1>1, <1>4, SeenKept
<1>6. ASSUME NEW c \in Earlier, Ahead(c) PROVE Ahead(c)'
  BY <1>1, <1>2, <1>3, <1>6, RepKept DEF Ahead
<1>7. LastDist' = LastDist
  BY <1>1 DEF LastDist
<1>8. (Closer => Closer') /\ \A k : Closest(k) => Closest(k)'
  BY <1>1, <1>2, <1>7 DEF Closer, Closest
<1>9. (Searching' <=> Searching) /\ (Done' <=> Done) /\ (Perfect3' <=> Perfect3)
  BY <1>1 DEF Searching, Done, Perfect3
<1> QED
  BY <1>1, <1>2, <1>5, <1>6, <1>8, <1>9 DEF Search

LEMMA InitSearch == ASSUME Init PROVE Search
<1>1. pc = "idle" /\ indexed = 0 /\ at = 0
  BY DEF Init
<1> QED
  BY <1>1 DEF Search, Searching, Done

LEMMA SearchStep ==
    ASSUME MatchInv, Named, Complete, Search, [Next]_vars
    PROVE  Search'
<1>1. LinkInv /\ Trees /\ Latest /\ Exact /\ TypeOK
  BY DEF MatchInv, TreeInv, LinkInv
<1>2. CASE \/ \E p \in 0 .. N - 1 : find(p)
           \/ BeginSearch \/ IndexInChain \/ IndexNowhere
  <2>1. pc' \in {"index", "short2"}
    BY <1>2 DEF find, BeginSearch, IndexInChain, IndexNowhere
  <2> QED
    BY <2>1, ElsewhereSearch
<1>3. CASE IndexInTree
  <2>1. pc' = "walk" /\ indexed' = indexed /\ at' = at /\ indexed < at /\ record' = FALSE
    BY <1>3 DEF IndexInTree, BeginWalk
  <2>2. indexed # at
    BY <2>1, <1>1 DEF TypeOK
  <2> QED
    BY <2>1, <2>2, ElsewhereSearch
<1>4. CASE TryShort2
  BY <1>1, <1>4, TryShort2Search
<1>5. CASE TryShort3
  BY <1>1, <1>5, TryShort3Search
<1>6. CASE BeginChain \/ BeginTree
  BY <1>1, <1>6, BeginSearchLong
<1>7. CASE VisitChain
  BY <1>1, <1>7, VisitChainSearch
<1>8. CASE EndChain
  BY <1>1, <1>8, EndChainSearch
<1>9. CASE SkipChain \/ SkipTree
  BY <1>1, <1>9, SkipSearch
<1>10. CASE CutOff \/ TakeOver
  BY <1>1, <1>10, LeaveSearch
<1>11. CASE WalkLeft \/ WalkRight
  BY <1>1, <1>11, StepDownSearch
<1>12. CASE UNCHANGED vars
  BY <1>1, <1>12, StutterSearch
<1> QED
  BY <1>2, <1>3, <1>4, <1>5, <1>6, <1>7, <1>8, <1>9, <1>10, <1>11, <1>12 DEF Next, Step

NearInv == MatchInv /\ Named /\ Complete /\ Search

LEMMA NearStep == NearInv /\ [Next]_vars => NearInv'
<1> SUFFICES ASSUME NearInv, [Next]_vars PROVE NearInv'
  OBVIOUS
<1>1. /\ MatchInv /\ Named /\ Complete /\ Search
      /\ LinkInv /\ Trees
  BY DEF NearInv, MatchInv, TreeInv
<1>2. MatchInv'
  BY <1>1, MatchStep
<1>3. LinkInv'
  BY <1>2 DEF MatchInv, TreeInv
<1>4. Named'
  BY <1>1, NamedStep
<1>5. Complete'
  BY <1>1, <1>3, CompleteStep
<1>6. Search'
  BY <1>1, SearchStep
<1> QED
  BY <1>2, <1>4, <1>5, <1>6 DEF NearInv

LEMMA NearMeans == NearInv => NothingCloserMissed
<1> SUFFICES ASSUME NearInv, pc = "idle", indexed > at, NEW c \in 0 .. at - 1,
                    NEW len, len = Smaller(match_len(c, at, max_len), mf.nice_len),
                    at - c <= mf.window, len >= 2,
                    (Thorough /\ (len >= 4 \/ Perfect3)) \/ len = 2
             PROVE  \E i \in 1 .. Len(out) : out[i].len >= len /\ out[i].dist <= at - c
  BY DEF NothingCloserMissed
<1>1. /\ TypeOK /\ N \in Nat /\ at \in Nat /\ at < N
      /\ SeenShort(2) /\ (Perfect3 => SeenShort(3)) /\ (Thorough => \A x \in Earlier : Seen(x))
  <2>1. TypeOK /\ N \in Nat /\ Search
    BY InputType DEF NearInv, MatchInv, TreeInv, LinkInv
  <2>2. at \in Nat /\ at < N
    BY <2>1 DEF TypeOK
  <2> QED
    BY <2>1, <2>2 DEF Search, Done
<1>2. PICK x \in Nat : x = c + 1 /\ x - 1 = c /\ x \in 1 .. at
  BY <1>1
<1>3. x \in Earlier
  BY <1>2 DEF Earlier, InWindow
<1>4. /\ max_len \in Nat /\ max_len <= N - at /\ mf.nice_len \in Nat
      /\ Limit(at + 1) = tree_limit(at) /\ tree_limit(at) = Smaller(mf.nice_len, N - at)
  BY <1>1, MaxLenType, LimitIs DEF tree_limit
<1>5. PICK m \in 0 .. max_len : m = match_len(c, at, max_len) /\ Agree(c, at, max_len, m)
  BY <1>4, MatchLen
<1>6. m \in Nat /\ len \in Nat /\ len <= m /\ len <= max_len /\ len <= mf.nice_len
  BY <1>4, <1>5 DEF Smaller
<1>7. Matches(x, len)
  <2>1. Matches(x, m)
    BY <1>1, <1>2, <1>5, <1>6, MatchesAre DEF Agree
  <2> QED
    BY <2>1, <1>1, <1>6, MatchesAre
<1>8. Near(x, len)
  <2>1. CASE len = 2
    BY <2>1, <1>1, <1>3, <1>6, <1>7 DEF SeenShort
  <2>2. CASE len = 3
    BY <2>2, <1>1, <1>3, <1>6, <1>7 DEF SeenShort
  <2>3. CASE len >= 4
    <3>1. Seen(x)
      BY <2>3, <1>1, <1>3
    <3>2. len \in 4 .. Limit(at + 1)
      BY <2>3, <1>1, <1>4, <1>6 DEF Smaller
    <3> QED
      BY <3>1, <3>2, <1>7 DEF Seen
  <2>4. len = 2 \/ len = 3 \/ len >= 4
    BY <1>6
  <2> QED
    BY <2>1, <2>2, <2>3, <2>4
<1> QED
  BY <1>2, <1>8 DEF Near

\* For every earlier position in the window find reports a match as long, up to
\* nice_len, that is as close: for 2 bytes whatever the effort, for 3 if their
\* hash tells them apart, and for more if the effort is enough for every
\* position, whatever was cut off, passed or taken over in the trees.
THEOREM NothingCloserEverMissed == Spec => []NothingCloserMissed
<1>1. Init => NearInv
  BY InitMatch, InitNamed, InitComplete, InitSearch DEF NearInv
<1>2. NearInv /\ [Next]_vars => NearInv'
  BY NearStep
<1>3. NearInv => NothingCloserMissed
  BY NearMeans
<1> QED
  BY <1>1, <1>2, <1>3, PTL DEF Spec
=============================================================================
