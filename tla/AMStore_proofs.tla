--------------------------- MODULE AMStore_proofs ---------------------------
(***************************************************************************)
(* Proofs about what AM promises to its callers, as long as trees keep     *)
(* their order: the indexes are sets of pairs of a value and a record id,  *)
(* and a scan returns every entry that fulfils its condition, and stands   *)
(* in the index all the time it is open, once and no other.  The first     *)
(* parts are about one tree and the walks along its leaves: what comes     *)
(* before and after a position, and what an insertion and a deletion do to *)
(* the pairs and to the positions.                                         *)
(***************************************************************************)
EXTENDS AM_proofs

-----------------------------------------------------------------------------
(* The order of the entries: by leaf, and in a leaf by place.  What comes    *)
(* after a position before the first entry of a leaf is behind that leaf.    *)

EntryIn(t, o, i) == IsLeaf(t, o) /\ i \in 1..Len(t.page[o].rec)

Before(low, o, i, pos) == low[o] < low[pos.leaf] \/ (o = pos.leaf /\ i < pos.entry)
After(low, o, i, pos) == low[pos.leaf] < low[o] \/ (o = pos.leaf /\ pos.entry # Start /\ pos.entry < i)

LEMMA InOrderParts ==
  ASSUME NEW t, NEW lev, NEW low, NEW high, InOrder(t, lev, low, high)
  PROVE  /\ Shape(t, lev, NoNode, NoNode) /\ Pages(t, lev) /\ Linked(t, lev) /\ Begun(t)
         /\ Ranges(t, low, high) /\ LeavesOrdered(t, lev, low, high)
         /\ \A o : IsLeaf(t, o) <=> o \in 1..Len(t.page) /\ lev[o] = 0
<1>1. Shape(t, lev, NoNode, NoNode) /\ Ordered(t, lev, low, high, NoNode, NoNode, NoNode)
  BY DEF InOrder
<1> QED BY <1>1, LeafLevel DEF Shape, Ordered

\* A leaf, its bounds and its entries.
LEMMA LeafBounds ==
  ASSUME NEW t, NEW lev, NEW low, NEW high, InOrder(t, lev, low, high), NEW o, IsLeaf(t, o)
  PROVE  /\ o \in 1..Len(t.page) /\ lev[o] = 0 /\ o # NoNode
         /\ low[o] \in Int /\ high[o] \in Int /\ Bottom <= low[o] /\ low[o] < high[o]
         /\ t.page[o].rec \in Seq(Rec) /\ Len(t.page[o].rec) \in 0..FANOUT
         /\ LeafOrder(t.page[o].rec, low[o], high[o])
         /\ t.page[o].next # NoNode =>
              /\ IsLeaf(t, t.page[o].next) /\ low[t.page[o].next] = high[o]
              /\ t.page[t.page[o].next].prev = o
         /\ t.page[o].next = NoNode => high[o] = Top
         /\ t.page[o].prev # NoNode =>
              /\ IsLeaf(t, t.page[o].prev) /\ high[t.page[o].prev] = low[o]
              /\ t.page[t.page[o].prev].next = o
         /\ t.page[o].prev = NoNode => o = t.first
<1>1. /\ Pages(t, lev) /\ Linked(t, lev) /\ Ranges(t, low, high) /\ LeavesOrdered(t, lev, low, high)
      /\ \A q : IsLeaf(t, q) <=> q \in 1..Len(t.page) /\ lev[q] = 0
  BY InOrderParts
<1>2. o \in 1..Len(t.page) /\ lev[o] = 0
  BY <1>1
<1>3. /\ t.page[o].rec \in Seq(Rec) /\ Len(t.page[o].rec) \in 0..FANOUT /\ o \in Nat /\ o # NoNode
  BY <1>1, <1>2, LeafIn DEF NoNode
<1>4. /\ low[o] \in Int /\ high[o] \in Int /\ Bottom <= low[o] /\ low[o] < high[o]
  BY <1>1, <1>2 DEF Ranges
<1>5. /\ LeafOrder(t.page[o].rec, low[o], high[o])
      /\ t.page[o].next # NoNode => low[t.page[o].next] = high[o]
      /\ t.page[o].next = NoNode => high[o] = Top
  BY <1>1, <1>2 DEF LeavesOrdered
<1>6. PICK p, q : p = t.page[o].prev /\ q = t.page[o].next
  OBVIOUS
<1>7. /\ q # NoNode => q \in 1..Len(t.page) /\ lev[q] = 0 /\ t.page[q].prev = o
      /\ p # NoNode => p \in 1..Len(t.page) /\ lev[p] = 0 /\ t.page[p].next = o
      /\ p = NoNode => o = t.first
  BY <1>1, <1>2, <1>6 DEF Linked
<1>8. p # NoNode => high[p] = low[o]
  BY <1>1, <1>3, <1>7 DEF LeavesOrdered
<1> QED BY <1>1, <1>2, <1>3, <1>4, <1>5, <1>6, <1>7, <1>8

\* The values of the first leaf begin at the bottom, those of no other leaf do.
LEMMA BottomFirst ==
  ASSUME NEW t, NEW lev, NEW low, NEW high, InOrder(t, lev, low, high),
         NEW q, IsLeaf(t, q), low[q] = Bottom
  PROVE  q = t.first
<1>1. PICK r : r = t.page[q].prev
  OBVIOUS
<1>2. r # NoNode => IsLeaf(t, r) /\ high[r] = Bottom
  BY <1>1, LeafBounds
<1>3. r # NoNode => /\ low[r] \in Int /\ high[r] \in Int /\ Bottom <= low[r] /\ low[r] < high[r]
  BY <1>2, LeafBounds
<1>4. r = NoNode
  BY <1>2, <1>3, Ends
<1>5. t.page[q].prev = NoNode => q = t.first
  BY LeafBounds
<1> QED BY <1>1, <1>4, <1>5

LEMMA FirstLow ==
  ASSUME NEW t, NEW lev, NEW low, NEW high, InOrder(t, lev, low, high)
  PROVE  low[t.first] = Bottom
<1> DEFINE T == {l \in Nat : \E o \in 1..Len(t.page) : lev[o] = l /\ low[o] = Bottom}
<1>1. /\ t.root \in 1..Len(t.page) /\ lev[t.root] \in Nat /\ low[t.root] = Bottom
      /\ \A o \in 1..Len(t.page) : lev[o] \in Nat
  <2>1. Covers(t, low, Upto(high, NoNode, NoNode))
    BY DEF InOrder, Ordered
  <2> QED BY <2>1 DEF InOrder, Shape, Pages, Covers
<1>2. T \in SUBSET Nat /\ T # {}
  <2>1. lev[t.root] \in T
    BY <1>1
  <2> QED BY <2>1
<1>3. PICK l \in T : \A k \in T : l <= k
  <2> HIDE DEF T
  <2> QED BY <1>2, LeastOf
<1>4. PICK o \in 1..Len(t.page) : lev[o] = l /\ low[o] = Bottom
  BY <1>3
<1>5. l = 0
  <2>1. SUFFICES ASSUME l # 0 PROVE FALSE
    OBVIOUS
  <2>2. PICK x, m, c : x = t.page[o] /\ m = Len(x.child) /\ c = x.child[1]
    OBVIOUS
  <2>3. /\ m \in Nat \ {0}
        /\ Chain(x.keys, x.child, m, low[o], high[o], low, high)
    BY <1>4, <2>1, <2>2, ChainAt
  <2>4. low[c] = Bottom
    <3>1. low[x.child[1]] = Bound(x.keys, m, low[o], high[o], 0)
      BY <2>3 DEF Chain
    <3> QED BY <1>4, <2>2, <3>1 DEF Bound
  <2>5. c \in 1..Len(t.page) /\ lev[c] = l - 1
    <3>1. Family(t, lev, NoNode)
      BY DEF InOrder, Shape
    <3>2. 1 \in 1..Len(t.page[o].child)
      BY <2>2, <2>3
    <3>3. lev[o] # 0
      BY <1>4, <2>1
    <3> QED BY <1>4, <2>2, <3>1, <3>2, <3>3 DEF Family
  <2>6. l \in Nat
    BY <1>3
  <2>7. l - 1 \in T
    BY <2>1, <2>4, <2>5, <2>6
  <2> QED BY <1>3, <2>6, <2>7
<1>6. IsLeaf(t, o)
  BY <1>4, <1>5, InOrderParts
<1> QED BY <1>4, <1>6, BottomFirst

\* The bounds of two leaves do not meet.
LEMMA LeavesApart ==
  ASSUME DifferencesFit, NEW t, NEW lev, NEW low, NEW high, InOrder(t, lev, low, high),
         NEW o, IsLeaf(t, o), NEW p, IsLeaf(t, p), o # p, low[o] <= low[p]
  PROVE  low[o] < low[p] /\ high[o] <= low[p]
<1>1. /\ o \in 1..Len(t.page) /\ lev[o] = 0 /\ p \in 1..Len(t.page) /\ lev[p] = 0
      /\ low[o] \in Int /\ high[o] \in Int /\ low[p] \in Int /\ high[p] \in Int
      /\ Bottom <= low[o] /\ low[o] < high[o] /\ low[p] < high[p] /\ Bottom \in Int
  BY LeafBounds, Ends
<1>2. low[p] # Bottom
  <2>1. SUFFICES ASSUME low[p] = Bottom PROVE FALSE
    OBVIOUS
  <2>2. low[o] = Bottom
    BY <1>1, <2>1
  <2> QED BY <2>1, <2>2, BottomFirst
<1>3. PICK v : v = low[p]
  OBVIOUS
<1>4. v \in Value
  <2>1. LeafOrder(t.page[p].rec, low[p], high[p]) /\ t.page[p].rec \in Seq(Rec)
    BY LeafBounds
  <2>2. Len(t.page[p].rec) # 0 /\ t.page[p].rec[1].value = v
    BY <1>2, <1>3, <2>1 DEF LeafOrder
  <2>3. 1 \in 1..Len(t.page[p].rec)
    BY <2>1, <2>2
  <2>4. t.page[p].rec[1].value \in Value
    BY <2>1, <2>3, RecIn
  <2> QED BY <2>2, <2>4
<1>5. AM_SearchLeaf(t, v) = p
  <2>1. Within(low, high, p, v)
    BY <1>1, <1>3 DEF Within
  <2> QED BY <1>1, <1>4, <2>1, SearchOnly
<1>6. ~(v < high[o])
  <2>1. SUFFICES ASSUME v < high[o] PROVE FALSE
    OBVIOUS
  <2>2. Within(low, high, o, v)
    BY <1>3, <2>1 DEF Within
  <2>3. AM_SearchLeaf(t, v) = o
    BY <1>1, <1>4, <2>2, SearchOnly
  <2> QED BY <1>5, <2>3
<1>7. high[o] <= low[p]
  BY <1>1, <1>3, <1>6
<1> QED BY <1>1, <1>7

\* The value of an entry lies between the bounds of its leaf.
LEMMA EntryValue ==
  ASSUME NEW t, NEW lev, NEW low, NEW high, InOrder(t, lev, low, high), NEW o, NEW i,
         EntryIn(t, o, i), NEW x, x = t.page[o].rec[i].value
  PROVE  /\ x \in Value /\ x \in Int /\ low[o] <= x /\ x <= high[o]
         /\ t.page[o].rec[i] \in Rec /\ i \in Nat \ {0} /\ i <= FANOUT
<1>1. /\ t.page[o].rec \in Seq(Rec) /\ LeafOrder(t.page[o].rec, low[o], high[o])
      /\ i \in 1..Len(t.page[o].rec) /\ Len(t.page[o].rec) \in 0..FANOUT
  BY LeafBounds DEF EntryIn
<1>2. t.page[o].rec[i] \in Rec /\ x \in Value /\ x \in Int
  BY <1>1, RecIn
<1>3. low[o] <= x /\ x <= high[o]
  BY <1>1 DEF LeafOrder
<1> QED BY <1>1, <1>2, <1>3, TreeAssumption

\* Values rise from entry to entry.
LEMMA EntriesRise ==
  ASSUME DifferencesFit, NEW t, NEW lev, NEW low, NEW high, InOrder(t, lev, low, high),
         NEW o, NEW i, EntryIn(t, o, i), NEW p, NEW j, EntryIn(t, p, j),
         low[o] < low[p] \/ (o = p /\ i < j),
         NEW x, x = t.page[o].rec[i].value, NEW y, y = t.page[p].rec[j].value
  PROVE  x <= y
<1>1. IsLeaf(t, o) /\ IsLeaf(t, p) /\ i \in 1..Len(t.page[o].rec) /\ j \in 1..Len(t.page[p].rec)
  BY DEF EntryIn
<1>2. x \in Int /\ x <= high[o] /\ y \in Int /\ low[p] <= y
  BY EntryValue
<1>3. CASE low[o] < low[p]
  <2>1. low[o] \in Int /\ low[p] \in Int /\ high[o] \in Int
    BY <1>1, LeafBounds
  <2>2. high[o] <= low[p]
    BY <1>1, <1>3, <2>1, LeavesApart
  <2> QED BY <1>2, <2>1, <2>2
<1>4. CASE o = p /\ i < j
  <2>1. LeafOrder(t.page[o].rec, low[o], high[o]) /\ t.page[o].rec \in Seq(Rec)
    BY <1>1, LeafBounds
  <2>2. i <= j
    BY <1>1, <1>4, <2>1
  <2> QED BY <1>1, <1>4, <2>1, <2>2 DEF LeafOrder, Sorted
<1> QED BY <1>3, <1>4

-----------------------------------------------------------------------------
(* What a tree holds: the pairs of the entries that are not deleted.         *)

PairOf(r) == <<r.value, r.recId>>

\* Entry i of leaf o is one of pair w that is not deleted.
LiveAt(t, o, i, w) ==
  EntryIn(t, o, i) /\ ~t.page[o].rec[i].deleted /\ w = PairOf(t.page[o].rec[i])

\* No pair has two entries that are not deleted.
PairsOnce(t) ==
  \A o, i, p, j, w : LiveAt(t, o, i, w) /\ LiveAt(t, p, j, w) => o = p /\ i = j

LEMMA LiveIs ==
  ASSUME NEW t, NEW old, NEW after, NEW key, Good(t, old, after, key), NEW w
  PROVE  w \in Live(t) <=> \E o, i : LiveAt(t, o, i, w)
<1>1. PICK lev : Shape(t, lev, old, after)
  BY DEF Good
<1>2. Pages(t, lev)
  BY <1>1 DEF Shape
<1>3. ASSUME NEW o, NEW i
      PROVE  <<o, i>> \in Entries(t) <=> EntryIn(t, o, i)
  <2>1. <<o, i>> \in Entries(t) <=> o \in Leaves(t) /\ i \in 1..FANOUT /\ i <= Len(t.page[o].rec)
    BY DEF Entries
  <2>2. o \in Leaves(t) <=> IsLeaf(t, o)
    BY <1>1, <1>2, LeavesAre, LeafLevel
  <2>3. ASSUME IsLeaf(t, o)
        PROVE  i \in 1..FANOUT /\ i <= Len(t.page[o].rec) <=> i \in 1..Len(t.page[o].rec)
    <3>1. PICK m : m = Len(t.page[o].rec)
      OBVIOUS
    <3>2. m \in 0..FANOUT /\ FANOUT \in Nat
      BY <2>3, <3>1, LeafEntries, TreeAssumption
    <3> QED BY <3>1, <3>2
  <2> QED BY <2>1, <2>2, <2>3 DEF EntryIn
<1>4. ASSUME w \in Live(t) PROVE \E o, i : LiveAt(t, o, i, w)
  <2>1. PICK e \in Entries(t) : /\ ~t.page[e[1]].rec[e[2]].deleted
                                /\ w = PairOf(t.page[e[1]].rec[e[2]])
    BY <1>4 DEF Live, PairOf
  <2>2. PICK o, i : o = e[1] /\ i = e[2]
    OBVIOUS
  <2>3. e = <<o, i>>
    BY <2>2 DEF Entries
  <2>4. LiveAt(t, o, i, w)
    BY <1>3, <2>1, <2>2, <2>3 DEF LiveAt
  <2> QED BY <2>4
<1>5. ASSUME NEW o, NEW i, LiveAt(t, o, i, w) PROVE w \in Live(t)
  <2>1. PICK e : e = <<o, i>>
    OBVIOUS
  <2>2. e \in Entries(t) /\ e[1] = o /\ e[2] = i
    BY <1>3, <1>5, <2>1 DEF LiveAt
  <2>3. ~t.page[e[1]].rec[e[2]].deleted /\ w = PairOf(t.page[e[1]].rec[e[2]])
    BY <1>5, <2>2 DEF LiveAt
  <2> QED BY <2>2, <2>3 DEF Live, PairOf
<1> QED BY <1>4, <1>5

\* The entries of two trees are the same.
SameEntries(t, u) ==
  \A o : /\ IsLeaf(u, o) <=> IsLeaf(t, o)
         /\ IsLeaf(t, o) => u.page[o].rec = t.page[o].rec

LEMMA SameLive ==
  ASSUME NEW t, NEW u, SameEntries(t, u), NEW o1, NEW a1, NEW k1, Good(t, o1, a1, k1),
         NEW o2, NEW a2, NEW k2, Good(u, o2, a2, k2)
  PROVE  Live(u) = Live(t) /\ (PairsOnce(t) => PairsOnce(u))
<1>1. ASSUME NEW o, NEW i, NEW w
      PROVE  LiveAt(u, o, i, w) <=> LiveAt(t, o, i, w)
  BY DEF LiveAt, EntryIn, SameEntries
<1>2. ASSUME NEW w PROVE w \in Live(u) <=> w \in Live(t)
  <2>1. w \in Live(t) <=> \E o, i : LiveAt(t, o, i, w)
    BY LiveIs
  <2>2. w \in Live(u) <=> \E o, i : LiveAt(u, o, i, w)
    BY LiveIs
  <2> QED BY <1>1, <2>1, <2>2
<1>3. PairsOnce(t) => PairsOnce(u)
  BY <1>1 DEF PairsOnce
<1> QED BY <1>2, <1>3

\* An entry is marked deleted.
LiveBut(t, u, w) == \A o, i, x : LiveAt(u, o, i, x) <=> LiveAt(t, o, i, x) /\ x # w

SameLeaves(t, u) ==
  /\ \A o : IsLeaf(u, o) <=> IsLeaf(t, o)
  /\ \A o : IsLeaf(t, o) => /\ Len(u.page[o].rec) = Len(t.page[o].rec)
                            /\ \A i \in 1..Len(t.page[o].rec) :
                                 u.page[o].rec[i].value = t.page[o].rec[i].value

LEMMA MarkLive ==
  ASSUME NEW t, NEW old, NEW after, NEW key, Good(t, old, after, key), PairsOnce(t),
         NEW pos, NEW w, LiveAt(t, pos.leaf, pos.entry, w), NEW u, u = AM_MarkDeleted(t, pos)
  PROVE  /\ LiveBut(t, u, w) /\ Live(u) = Live(t) \ {w} /\ PairsOnce(u)
         /\ SameLeaves(t, u)
<1>1. PICK lev : Shape(t, lev, old, after)
  BY DEF Good
<1>2. PICK o, i : o = pos.leaf /\ i = pos.entry
  OBVIOUS
<1>3. LiveAt(t, o, i, w) /\ IsLeaf(t, o) /\ i \in 1..Len(t.page[o].rec)
  BY <1>2 DEF LiveAt, EntryIn
<1>4. o \in 1..Len(t.page) /\ lev[o] = 0 /\ t.page[o].rec \in Seq(Rec)
  BY <1>1, <1>3, LeafLevel, LeafEntries
<1>5. PICK rec : rec = [t.page[o].rec EXCEPT ![i].deleted = TRUE]
  OBVIOUS
<1>6. Rewritten(t, u, o, rec) /\ Shape(u, lev, old, after)
  BY <1>1, <1>2, <1>3, <1>4, <1>5, MarkShape
<1>7. /\ rec \in Seq(Rec) /\ Len(rec) = Len(t.page[o].rec) /\ DOMAIN rec = 1..Len(rec)
      /\ rec[i] = [t.page[o].rec[i] EXCEPT !.deleted = TRUE]
      /\ \A j \in 1..Len(rec) : j # i => rec[j] = t.page[o].rec[j]
  <2>1. PICK s : s = t.page[o].rec
    OBVIOUS
  <2>2. s \in Seq(Rec) /\ i \in 1..Len(s) /\ s[i] \in Rec
    BY <1>3, <1>4, <2>1, RecIn
  <2>3. [s[i] EXCEPT !.deleted = TRUE] \in Rec
    BY <2>2 DEF Rec
  <2> QED BY <1>5, <2>1, <2>2, <2>3
<1>8. t.page[o].rec[i] \in Rec
  BY <1>3, <1>4, RecIn
<1>9. rec[i].deleted /\ rec[i].value = t.page[o].rec[i].value
  BY <1>7, <1>8 DEF Rec
<1>10. ASSUME NEW q PROVE IsLeaf(u, q) <=> IsLeaf(t, q)
  BY <1>1, <1>6, LeafLevel DEF Rewritten
<1>11. ASSUME NEW q, IsLeaf(t, q), q # o PROVE u.page[q].rec = t.page[q].rec
  BY <1>6, <1>11 DEF Rewritten, IsLeaf
<1>12. u.page[o].rec = rec
  BY <1>6 DEF Rewritten
<1>13. ASSUME NEW q, NEW j, NEW x
       PROVE  LiveAt(u, q, j, x) <=> LiveAt(t, q, j, x) /\ ~(q = o /\ j = i)
  <2>1. CASE q # o
    BY <1>10, <1>11, <2>1 DEF LiveAt, EntryIn
  <2>2. CASE q = o /\ j # i
    <3>1. EntryIn(u, o, j) <=> EntryIn(t, o, j)
      BY <1>7, <1>10, <1>12 DEF EntryIn
    <3>2. EntryIn(t, o, j) => u.page[o].rec[j] = t.page[o].rec[j]
      BY <1>7, <1>12, <2>2 DEF EntryIn
    <3> QED BY <2>2, <3>1, <3>2 DEF LiveAt
  <2>3. CASE q = o /\ j = i
    BY <1>9, <1>12, <2>3 DEF LiveAt
  <2> QED BY <2>1, <2>2, <2>3
<1>14. ASSUME NEW q, NEW j, NEW x
       PROVE  LiveAt(u, q, j, x) <=> LiveAt(t, q, j, x) /\ x # w
  <2>1. LiveAt(t, q, j, x) => (x = w <=> q = o /\ j = i)
    <3>1. LiveAt(t, q, j, x) /\ x = w => q = o /\ j = i
      BY <1>3 DEF PairsOnce
    <3>2. LiveAt(t, q, j, x) /\ q = o /\ j = i => x = w
      BY <1>3 DEF LiveAt
    <3> QED BY <3>1, <3>2
  <2> QED BY <1>13, <2>1
<1>15. Good(u, old, after, key)
  <2>1. InTree(t, pos) /\ pos.entry # 0
    <3>1. Len(t.page[o].rec) \in Nat
      BY <1>4
    <3> QED BY <1>2, <1>3, <3>1 DEF InTree
  <2> QED BY <2>1, GoodMark
<1>16. ASSUME NEW x PROVE x \in Live(u) <=> x \in Live(t) \ {w}
  <2>1. x \in Live(t) <=> \E q, j : LiveAt(t, q, j, x)
    BY LiveIs
  <2>2. x \in Live(u) <=> \E q, j : LiveAt(u, q, j, x)
    BY <1>15, LiveIs
  <2> QED BY <1>14, <2>1, <2>2
<1>17. PairsOnce(u)
  BY <1>14 DEF PairsOnce
<1>18. ASSUME NEW q, IsLeaf(t, q)
       PROVE  /\ Len(u.page[q].rec) = Len(t.page[q].rec)
              /\ \A j \in 1..Len(t.page[q].rec) : u.page[q].rec[j].value = t.page[q].rec[j].value
  <2>1. CASE q = o
    BY <1>7, <1>9, <1>12, <2>1
  <2>2. CASE q # o
    BY <1>11, <1>18, <2>2
  <2> QED BY <2>1, <2>2
<1> QED BY <1>10, <1>14, <1>16, <1>17, <1>18 DEF LiveBut, SameLeaves

-----------------------------------------------------------------------------
(* An entry is inserted: u has the leaves of t, but leaf o with entry e put  *)
(* before its p-th, and what is behind the k-th of those in leaf m.          *)

SlotLeaf(o, m, k, j) == IF j <= k THEN o ELSE m
SlotPlace(k, j) == IF j <= k THEN j ELSE j - k

Grafts(t, u, o, m, k, p, e) ==
  /\ IsLeaf(t, o) /\ o # m /\ ~IsLeaf(t, m) /\ k \in Nat
  /\ t.page[o].rec \in Seq(Rec) /\ p \in 1..(Len(t.page[o].rec) + 1)
  /\ \A q : q \notin {o, m} =>
       /\ IsLeaf(u, q) <=> IsLeaf(t, q)
       /\ IsLeaf(t, q) => u.page[q].rec = t.page[q].rec
  /\ \A j \in 1..(Len(t.page[o].rec) + 1) :
       /\ EntryIn(u, SlotLeaf(o, m, k, j), SlotPlace(k, j))
       /\ u.page[SlotLeaf(o, m, k, j)].rec[SlotPlace(k, j)] = Spread(t.page[o].rec, p, e, j)
  /\ \A q \in {o, m} : \A i : EntryIn(u, q, i) =>
       \E j \in 1..(Len(t.page[o].rec) + 1) : q = SlotLeaf(o, m, k, j) /\ i = SlotPlace(k, j)

\* Where the j-th entry of the new o and m was in the old o.
Was(p, j) == IF j < p THEN j ELSE j - 1

\* Where the entries of pair w were.
LiveFrom(t, u, o, m, k, p, e, n, w) ==
  /\ \A q, i : q \notin {o, m} => (LiveAt(u, q, i, w) <=> LiveAt(t, q, i, w))
  /\ \A q \in {o, m} : \A i : LiveAt(u, q, i, w) =>
       \E j \in 1..(n + 1) :
         /\ q = SlotLeaf(o, m, k, j) /\ i = SlotPlace(k, j)
         /\ j = p => ~e.deleted /\ w = PairOf(e)
         /\ j # p => LiveAt(t, o, Was(p, j), w)
  /\ ~e.deleted /\ w = PairOf(e) => \E q, i : LiveAt(u, q, i, w)
  /\ \A i : LiveAt(t, o, i, w) => \E q, j : LiveAt(u, q, j, w)

LEMMA GraftLive ==
  ASSUME NEW t, NEW u, NEW o, NEW m, NEW k, NEW p, NEW e, Grafts(t, u, o, m, k, p, e),
         NEW n, n = Len(t.page[o].rec), NEW w
  PROVE  LiveFrom(t, u, o, m, k, p, e, n, w)
<1>1. PICK s : s = t.page[o].rec
  OBVIOUS
<1>2. s \in Seq(Rec) /\ n = Len(s) /\ n \in Nat /\ p \in 1..(n + 1) /\ k \in Nat /\ IsLeaf(t, o)
  BY <1>1 DEF Grafts
<1>3. ASSUME NEW j \in 1..(n + 1)
      PROVE  /\ EntryIn(u, SlotLeaf(o, m, k, j), SlotPlace(k, j))
             /\ u.page[SlotLeaf(o, m, k, j)].rec[SlotPlace(k, j)] = Spread(s, p, e, j)
  BY <1>1 DEF Grafts
<1>4. ASSUME NEW j \in 1..(n + 1), j # p
      PROVE  Spread(s, p, e, j) = s[Was(p, j)] /\ Was(p, j) \in 1..n
  BY <1>2, <1>4 DEF Spread, Was
<1>5. Spread(s, p, e, p) = e
  BY <1>2 DEF Spread
<1>6. ASSUME NEW q, NEW i, q \notin {o, m}
      PROVE  LiveAt(u, q, i, w) <=> LiveAt(t, q, i, w)
  BY <1>6 DEF LiveAt, EntryIn, Grafts
<1>7. ASSUME NEW q \in {o, m}, NEW i, LiveAt(u, q, i, w)
      PROVE  \E j \in 1..(n + 1) :
               /\ q = SlotLeaf(o, m, k, j) /\ i = SlotPlace(k, j)
               /\ j = p => ~e.deleted /\ w = PairOf(e)
               /\ j # p => LiveAt(t, o, Was(p, j), w)
  <2>1. EntryIn(u, q, i)
    BY <1>7 DEF LiveAt
  <2>2. PICK j \in 1..(n + 1) : q = SlotLeaf(o, m, k, j) /\ i = SlotPlace(k, j)
    BY <2>1 DEF Grafts
  <2>3. u.page[q].rec[i] = Spread(s, p, e, j)
    BY <1>3, <2>2
  <2>4. ~Spread(s, p, e, j).deleted /\ w = PairOf(Spread(s, p, e, j))
    BY <1>7, <2>3 DEF LiveAt
  <2>5. j = p => ~e.deleted /\ w = PairOf(e)
    BY <1>5, <2>4
  <2>6. j # p => LiveAt(t, o, Was(p, j), w)
    BY <1>1, <1>2, <1>4, <2>4 DEF LiveAt, EntryIn
  <2> QED BY <2>2, <2>5, <2>6
<1>8. ~e.deleted /\ w = PairOf(e) => \E q, i : LiveAt(u, q, i, w)
  <2>1. EntryIn(u, SlotLeaf(o, m, k, p), SlotPlace(k, p))
        /\ u.page[SlotLeaf(o, m, k, p)].rec[SlotPlace(k, p)] = e
    BY <1>2, <1>3, <1>5
  <2> QED BY <2>1 DEF LiveAt
<1>9. ASSUME NEW i, LiveAt(t, o, i, w) PROVE \E q, j : LiveAt(u, q, j, w)
  <2>1. i \in 1..n /\ ~s[i].deleted /\ w = PairOf(s[i])
    BY <1>1, <1>2, <1>9 DEF LiveAt, EntryIn
  <2>2. PICK j : j = IF i < p THEN i ELSE i + 1
    OBVIOUS
  <2>3. j \in 1..(n + 1) /\ Spread(s, p, e, j) = s[i]
    BY <1>2, <2>1, <2>2 DEF Spread
  <2>4. LiveAt(u, SlotLeaf(o, m, k, j), SlotPlace(k, j), w)
    BY <1>3, <2>1, <2>3 DEF LiveAt
  <2> QED BY <2>4
<1> QED BY <1>6, <1>7, <1>8, <1>9 DEF LiveFrom

LEMMA GraftHolds ==
  ASSUME NEW t, NEW u, NEW o, NEW m, NEW k, NEW p, NEW e, Grafts(t, u, o, m, k, p, e),
         ~e.deleted, NEW o1, NEW a1, NEW k1, Good(t, o1, a1, k1),
         NEW o2, NEW a2, NEW k2, Good(u, o2, a2, k2)
  PROVE  Live(u) = Live(t) \cup {PairOf(e)}
<1>1. PICK n : n = Len(t.page[o].rec)
  OBVIOUS
<1>2. ASSUME NEW w PROVE w \in Live(u) <=> w \in Live(t) \/ w = PairOf(e)
  <2>0. LiveFrom(t, u, o, m, k, p, e, n, w)
    BY <1>1, GraftLive
  <2>1. w \in Live(t) <=> \E q, i : LiveAt(t, q, i, w)
    BY LiveIs
  <2>2. w \in Live(u) <=> \E q, i : LiveAt(u, q, i, w)
    BY LiveIs
  <2>3. ASSUME NEW q, NEW i, LiveAt(u, q, i, w)
        PROVE  w = PairOf(e) \/ \E q2, i2 : LiveAt(t, q2, i2, w)
    <3>1. CASE q \notin {o, m}
      BY <2>0, <2>3, <3>1 DEF LiveFrom
    <3>2. CASE q \in {o, m}
      <4>1. PICK j \in 1..(n + 1) : /\ j = p => w = PairOf(e)
                                    /\ j # p => LiveAt(t, o, Was(p, j), w)
        BY <2>0, <2>3, <3>2 DEF LiveFrom
      <4> QED BY <4>1
    <3> QED BY <3>1, <3>2
  <2>4. ASSUME NEW q, NEW i, LiveAt(t, q, i, w)
        PROVE  \E q2, i2 : LiveAt(u, q2, i2, w)
    <3>1. q # m
      BY <2>4 DEF LiveAt, EntryIn, Grafts
    <3>2. CASE q # o
      BY <2>0, <2>4, <3>1, <3>2 DEF LiveFrom
    <3>3. CASE q = o
      BY <2>0, <2>4, <3>3 DEF LiveFrom
    <3> QED BY <3>2, <3>3
  <2>5. w = PairOf(e) => \E q2, i2 : LiveAt(u, q2, i2, w)
    BY <2>0 DEF LiveFrom
  <2> QED BY <2>1, <2>2, <2>3, <2>4, <2>5
<1> QED BY <1>2

LEMMA GraftOnce ==
  ASSUME NEW t, NEW u, NEW o, NEW m, NEW k, NEW p, NEW e, Grafts(t, u, o, m, k, p, e),
         NEW old, NEW after, NEW key, Good(t, old, after, key),
         PairsOnce(t), PairOf(e) \notin Live(t)
  PROVE  PairsOnce(u)
<1>1. PICK n : n = Len(t.page[o].rec)
  OBVIOUS
<1>2. n \in Nat /\ p \in 1..(n + 1) /\ k \in Nat /\ o # m
  BY <1>1 DEF Grafts
<1>3. ASSUME NEW w, NEW q1, NEW i1, LiveAt(u, q1, i1, w), NEW q2, NEW i2, LiveAt(u, q2, i2, w),
             q1 \in {o, m}
      PROVE  q1 = q2 /\ i1 = i2
  <2>0. LiveFrom(t, u, o, m, k, p, e, n, w)
    BY <1>1, GraftLive
  <2>1. PICK j1 \in 1..(n + 1) : /\ q1 = SlotLeaf(o, m, k, j1) /\ i1 = SlotPlace(k, j1)
                                 /\ j1 = p => w = PairOf(e)
                                 /\ j1 # p => LiveAt(t, o, Was(p, j1), w)
    BY <1>3, <2>0 DEF LiveFrom
  <2>2. \A q, i : LiveAt(t, q, i, w) => w # PairOf(e)
    BY LiveIs
  <2>3. CASE q2 \notin {o, m}
    <3>1. LiveAt(t, q2, i2, w)
      BY <1>3, <2>0, <2>3 DEF LiveFrom
    <3>2. LiveAt(t, o, Was(p, j1), w)
      BY <2>1, <2>2, <3>1
    <3> QED BY <2>3, <3>1, <3>2 DEF PairsOnce
  <2>4. CASE q2 \in {o, m}
    <3>1. PICK j2 \in 1..(n + 1) : /\ q2 = SlotLeaf(o, m, k, j2) /\ i2 = SlotPlace(k, j2)
                                   /\ j2 = p => w = PairOf(e)
                                   /\ j2 # p => LiveAt(t, o, Was(p, j2), w)
      BY <1>3, <2>0, <2>4 DEF LiveFrom
    <3>2. j1 = p <=> j2 = p
      BY <2>1, <2>2, <3>1
    <3>3. j1 # p => Was(p, j1) = Was(p, j2)
      BY <2>1, <3>1, <3>2 DEF PairsOnce
    <3>4. j1 = j2
      BY <1>2, <3>2, <3>3 DEF Was
    <3> QED BY <2>1, <3>1, <3>4
  <2> QED BY <2>3, <2>4
<1>4. ASSUME NEW w, NEW q1, NEW i1, LiveAt(u, q1, i1, w), NEW q2, NEW i2, LiveAt(u, q2, i2, w)
      PROVE  q1 = q2 /\ i1 = i2
  <2>1. CASE q1 \in {o, m}
    BY <1>3, <1>4, <2>1
  <2>2. CASE q2 \in {o, m}
    BY <1>3, <1>4, <2>2
  <2>3. CASE q1 \notin {o, m} /\ q2 \notin {o, m}
    <3>1. LiveAt(t, q1, i1, w) /\ LiveAt(t, q2, i2, w)
      <4>1. LiveFrom(t, u, o, m, k, p, e, n, w)
        BY <1>1, GraftLive
      <4> QED BY <1>4, <2>3, <4>1 DEF LiveFrom
    <3> QED BY <3>1 DEF PairsOnce
  <2> QED BY <2>1, <2>2, <2>3
<1> QED BY <1>4 DEF PairsOnce

\* An insertion in a leaf with room.
LEMMA PlaceGrafts ==
  ASSUME NEW t, NEW lev, Shape(t, lev, NoNode, NoNode), NEW o \in 1..Len(t.page), lev[o] = 0,
         NEW rec, rec = t.page[o].rec, Len(rec) < FANOUT, NEW e \in Rec,
         NEW u, u = PlaceInLeaf(t, o, e)
  PROVE  Grafts(t, u, o, NoNode, Len(rec) + 1, RecPlace(rec, e), e)
<1>1. Shape(u, lev, NoNode, NoNode) /\ Rewritten(t, u, o, AM_InsertRecNoSplit(rec, e))
  BY PlaceShape
<1>2. rec \in Seq(Rec) /\ Len(rec) \in Nat /\ o # NoNode
  BY LeafIn DEF Shape, NoNode
<1>3. PICK n, p, r : n = Len(rec) /\ p = RecPlace(rec, e) /\ r = AM_InsertRecNoSplit(rec, e)
  OBVIOUS
<1>4. /\ p \in 1..(n + 1) /\ Len(r) = n + 1 /\ n \in Nat
      /\ \A j \in 1..(n + 1) : r[j] = Spread(rec, p, e, j)
  <2>1. ASSUME NEW x \in Seq(Rec)
        PROVE  RecPlace(x, e) \in 1..(Len(x) + 1) /\ Len(AM_InsertRecNoSplit(x, e)) = Len(x) + 1
    BY InsertRec
  <2>2. ASSUME NEW x \in Seq(Rec)
        PROVE  \A j \in 1..(Len(x) + 1) : AM_InsertRecNoSplit(x, e)[j] = Spread(x, RecPlace(x, e), e, j)
    BY InsertRec
  <2> QED BY <1>2, <1>3, <2>1, <2>2
<1>5. \A q : /\ IsLeaf(t, q) <=> q \in 1..Len(t.page) /\ lev[q] = 0
             /\ IsLeaf(u, q) <=> q \in 1..Len(t.page) /\ lev[q] = 0
  BY <1>1, LeafLevel DEF Rewritten
<1>6. IsLeaf(t, o) /\ IsLeaf(u, o) /\ ~IsLeaf(t, NoNode) /\ ~IsLeaf(u, NoNode)
  BY <1>5 DEF NoNode
<1>7. u.page[o].rec = r /\ \A q \in 1..Len(t.page) : q # o => u.page[q] = t.page[q]
  BY <1>1, <1>3 DEF Rewritten
<1>8. \A q : q \notin {o, NoNode} => /\ IsLeaf(u, q) <=> IsLeaf(t, q)
                                     /\ IsLeaf(t, q) => u.page[q].rec = t.page[q].rec
  BY <1>5, <1>7
<1>9. ASSUME NEW j \in 1..(n + 1)
      PROVE  SlotLeaf(o, NoNode, n + 1, j) = o /\ SlotPlace(n + 1, j) = j
  BY <1>4 DEF SlotLeaf, SlotPlace
<1>10. \A j \in 1..(n + 1) : EntryIn(u, o, j) /\ u.page[o].rec[j] = Spread(rec, p, e, j)
  BY <1>4, <1>6, <1>7 DEF EntryIn
<1>11. ASSUME NEW q \in {o, NoNode}, NEW i, EntryIn(u, q, i)
       PROVE  \E j \in 1..(n + 1) : q = SlotLeaf(o, NoNode, n + 1, j) /\ i = SlotPlace(n + 1, j)
  <2>1. q = o /\ i \in 1..(n + 1)
    BY <1>4, <1>6, <1>7, <1>11 DEF EntryIn
  <2> QED BY <1>9, <2>1
<1>12. Grafts(t, u, o, NoNode, n + 1, p, e)
  <2>1. /\ IsLeaf(t, o) /\ o # NoNode /\ ~IsLeaf(t, NoNode) /\ n + 1 \in Nat
        /\ t.page[o].rec \in Seq(Rec) /\ p \in 1..(Len(t.page[o].rec) + 1)
    BY <1>2, <1>3, <1>4, <1>6
  <2>2. \A j \in 1..(Len(t.page[o].rec) + 1) :
          /\ EntryIn(u, SlotLeaf(o, NoNode, n + 1, j), SlotPlace(n + 1, j))
          /\ u.page[SlotLeaf(o, NoNode, n + 1, j)].rec[SlotPlace(n + 1, j)]
               = Spread(t.page[o].rec, p, e, j)
    BY <1>3, <1>9, <1>10
  <2>3. \A q \in {o, NoNode} : \A i : EntryIn(u, q, i) =>
          \E j \in 1..(Len(t.page[o].rec) + 1) :
            q = SlotLeaf(o, NoNode, n + 1, j) /\ i = SlotPlace(n + 1, j)
    BY <1>3, <1>11
  <2> QED BY <1>8, <2>1, <2>2, <2>3 DEF Grafts
<1> QED BY <1>3, <1>12

\* An insertion in a full leaf.
LEMMA SplitGrafts ==
  ASSUME NEW t, NEW lev, Shape(t, lev, NoNode, NoNode), NEW o \in 1..Len(t.page), lev[o] = 0,
         NEW rec, rec = t.page[o].rec, Len(rec) = FANOUT, NEW e \in Rec,
         NEW u, u = SplitLeaf(t, o, e).tree, NEW m, m = Len(t.page) + 1
  PROVE  Grafts(t, u, o, m, Middle + 1, SplitPlace(rec, e), e)
<1>1. PICK lev2 : lev2 = Grown(lev, Len(t.page), lev[o])
  OBVIOUS
<1>2. /\ Shape(u, lev2, o, m) /\ Relinked(t, u, o)
      /\ u.page[o].rec = LeftRec(rec, e) /\ u.page[m].rec = RightRec(rec, e)
      /\ \A q \in 1..Len(t.page) : q # o => Same(u.page[q], t.page[q])
  BY <1>1, SplitLeafShape
<1>3. rec \in Seq(Rec) /\ Len(t.page) \in Nat
  BY LeafIn DEF Shape
<1>4. PICK n, k, p, l, r : /\ n = FANOUT /\ k = Middle + 1 /\ p = SplitPlace(rec, e)
                           /\ l = LeftRec(rec, e) /\ r = RightRec(rec, e)
  OBVIOUS
<1>5. n \in Nat /\ k \in Nat /\ k <= n /\ FANOUT - Middle = n + 1 - k
  BY <1>4, MiddleIs
<1>6. /\ Len(l) = k /\ Len(r) = n + 1 - k /\ p \in 1..(n + 1)
      /\ \A j \in 1..k : l[j] = Spread(rec, p, e, j)
      /\ \A j \in 1..(n + 1 - k) : r[j] = Spread(rec, p, e, k + j)
  <2>1. /\ Len(LeftRec(rec, e)) = Middle + 1 /\ Len(RightRec(rec, e)) = FANOUT - Middle
        /\ SplitPlace(rec, e) \in 1..(FANOUT + 1)
        /\ \A j \in 1..Len(LeftRec(rec, e)) :
             LeftRec(rec, e)[j] = Spread(rec, SplitPlace(rec, e), e, j)
        /\ \A j \in 1..Len(RightRec(rec, e)) :
             RightRec(rec, e)[j] = Spread(rec, SplitPlace(rec, e), e, Len(LeftRec(rec, e)) + j)
    BY <1>3, HalvesAre
  <2>2. Len(l) = k /\ Len(r) = n + 1 - k /\ p \in 1..(n + 1)
    BY <1>4, <1>5, <2>1
  <2>3. \A j \in 1..k : l[j] = Spread(rec, p, e, j)
    BY <1>4, <2>1, <2>2
  <2>4. \A j \in 1..(n + 1 - k) : r[j] = Spread(rec, p, e, k + j)
    BY <1>4, <2>1, <2>2
  <2> QED BY <2>2, <2>3, <2>4
<1>7. \A q : /\ IsLeaf(t, q) <=> q \in 1..Len(t.page) /\ lev[q] = 0
             /\ IsLeaf(u, q) <=> q \in 1..m /\ lev2[q] = 0
  BY <1>2, LeafLevel DEF Relinked
<1>8. /\ o # m /\ \A q \in 1..Len(t.page) : q \in 1..m /\ q # m /\ lev2[q] = lev[q]
      /\ m \in 1..m /\ lev2[m] = 0 /\ \A q \in 1..m : q # m => q \in 1..Len(t.page)
  <2>1. \A q \in 1..m : /\ q = m => lev2[q] = 0
                        /\ q # m => q \in 1..Len(t.page) /\ lev2[q] = lev[q]
    BY <1>1, <1>3, GrownIs
  <2>2. o # m /\ m \in 1..m /\ \A q \in 1..Len(t.page) : q \in 1..m /\ q # m
    BY <1>3
  <2> QED BY <2>1, <2>2
<1>9. IsLeaf(t, o) /\ IsLeaf(u, o) /\ ~IsLeaf(t, m) /\ IsLeaf(u, m)
  BY <1>7, <1>8
<1>10. ASSUME NEW q, q \notin {o, m}
       PROVE  /\ IsLeaf(u, q) <=> IsLeaf(t, q)
              /\ IsLeaf(t, q) => u.page[q].rec = t.page[q].rec
  <2>1. IsLeaf(u, q) <=> IsLeaf(t, q)
    BY <1>7, <1>8, <1>10
  <2>2. IsLeaf(t, q) => u.page[q].rec = t.page[q].rec
    BY <1>2, <1>10 DEF IsLeaf, Same
  <2> QED BY <2>1, <2>2
<1>11. ASSUME NEW j \in 1..(n + 1)
       PROVE  /\ EntryIn(u, SlotLeaf(o, m, k, j), SlotPlace(k, j))
              /\ u.page[SlotLeaf(o, m, k, j)].rec[SlotPlace(k, j)] = Spread(rec, p, e, j)
  <2>1. CASE j <= k
    <3>1. SlotLeaf(o, m, k, j) = o /\ SlotPlace(k, j) = j /\ j \in 1..k
      BY <1>5, <2>1 DEF SlotLeaf, SlotPlace
    <3> QED BY <1>2, <1>4, <1>6, <1>9, <3>1 DEF EntryIn
  <2>2. CASE ~(j <= k)
    <3>1. /\ SlotLeaf(o, m, k, j) = m /\ SlotPlace(k, j) = j - k
          /\ j - k \in 1..(n + 1 - k) /\ k + (j - k) = j
      BY <1>5, <2>2 DEF SlotLeaf, SlotPlace
    <3>2. r[j - k] = Spread(rec, p, e, j)
      BY <1>6, <3>1
    <3>3. EntryIn(u, m, j - k) /\ u.page[m].rec[j - k] = Spread(rec, p, e, j)
      <4>1. u.page[m].rec = r
        BY <1>2, <1>4
      <4>2. j - k \in 1..Len(u.page[m].rec)
        BY <1>6, <3>1, <4>1
      <4> QED BY <1>9, <3>2, <4>1, <4>2 DEF EntryIn
    <3> QED BY <3>1, <3>3
  <2> QED BY <2>1, <2>2
<1>12. ASSUME NEW q \in {o, m}, NEW i, EntryIn(u, q, i)
       PROVE  \E j \in 1..(n + 1) : q = SlotLeaf(o, m, k, j) /\ i = SlotPlace(k, j)
  <2>1. CASE q = o
    <3>1. i \in 1..k
      BY <1>2, <1>4, <1>6, <1>12, <2>1 DEF EntryIn
    <3>2. i \in 1..(n + 1) /\ q = SlotLeaf(o, m, k, i) /\ i = SlotPlace(k, i)
      BY <1>5, <2>1, <3>1 DEF SlotLeaf, SlotPlace
    <3> QED BY <3>2
  <2>2. CASE q = m
    <3>1. i \in 1..(n + 1 - k)
      BY <1>2, <1>4, <1>6, <1>12, <2>2 DEF EntryIn
    <3>2. k + i \in 1..(n + 1) /\ q = SlotLeaf(o, m, k, k + i) /\ i = SlotPlace(k, k + i)
      BY <1>5, <2>2, <3>1 DEF SlotLeaf, SlotPlace
    <3> QED BY <3>2
  <2> QED BY <2>1, <2>2
<1>13. Grafts(t, u, o, m, k, p, e)
  <2>1. n = Len(t.page[o].rec) /\ rec = t.page[o].rec
    BY <1>4
  <2>2. /\ IsLeaf(t, o) /\ o # m /\ ~IsLeaf(t, m) /\ k \in Nat
        /\ t.page[o].rec \in Seq(Rec) /\ p \in 1..(Len(t.page[o].rec) + 1)
    BY <1>3, <1>5, <1>6, <1>8, <1>9, <2>1
  <2>3. \A q : q \notin {o, m} => /\ IsLeaf(u, q) <=> IsLeaf(t, q)
                                  /\ IsLeaf(t, q) => u.page[q].rec = t.page[q].rec
    BY <1>10
  <2>4. \A j \in 1..(Len(t.page[o].rec) + 1) :
          /\ EntryIn(u, SlotLeaf(o, m, k, j), SlotPlace(k, j))
          /\ u.page[SlotLeaf(o, m, k, j)].rec[SlotPlace(k, j)] = Spread(t.page[o].rec, p, e, j)
    BY <1>11, <2>1
  <2>5. \A q \in {o, m} : \A i : EntryIn(u, q, i) =>
          \E j \in 1..(Len(t.page[o].rec) + 1) : q = SlotLeaf(o, m, k, j) /\ i = SlotPlace(k, j)
    BY <1>12, <2>1
  <2> QED BY <2>2, <2>3, <2>4, <2>5 DEF Grafts
<1> QED BY <1>4, <1>13

-----------------------------------------------------------------------------
(* What the insertions of AM.tla make of the pairs of a tree. *)

LEMMA NewRecPair ==
  ASSUME NEW v, NEW id
  PROVE  PairOf(NewRec(v, id)) = <<v, id>> /\ ~NewRec(v, id).deleted
BY DEF PairOf, NewRec

LEMMA PlaceLive ==
  ASSUME NEW t, Whole(t), NEW v \in Value, NEW id \in RecId, Copies(t, v) < MaxCopies,
         Len(t.page[AM_SearchLeaf(t, v)].rec) < FANOUT, PairsOnce(t), <<v, id>> \notin Live(t),
         NEW u, u = PlaceInLeaf(t, AM_SearchLeaf(t, v), NewRec(v, id))
  PROVE  Live(u) = Live(t) \cup {<<v, id>>} /\ PairsOnce(u)
<1>1. PICK o, e, rec : o = AM_SearchLeaf(t, v) /\ e = NewRec(v, id) /\ rec = t.page[o].rec
  OBVIOUS
<1>2. PICK lev : Shape(t, lev, NoNode, NoNode)
  BY DEF Good, Whole
<1>3. o \in 1..Len(t.page) /\ lev[o] = 0
  BY <1>1, <1>2, SearchEnds
<1>4. Len(rec) < FANOUT /\ e \in Rec /\ PairOf(e) = <<v, id>> /\ ~e.deleted
  BY <1>1, NewRecIn, NewRecPair
<1>5. Grafts(t, u, o, NoNode, Len(rec) + 1, RecPlace(rec, e), e)
  BY <1>1, <1>2, <1>3, <1>4, PlaceGrafts
<1>6. Good(t, NoNode, NoNode, NoNode) /\ Good(u, NoNode, NoNode, NoNode)
  BY GoodPlace DEF Whole
<1>7. Live(u) = Live(t) \cup {PairOf(e)}
  BY <1>4, <1>5, <1>6, GraftHolds
<1>8. PairsOnce(u)
  BY <1>4, <1>5, <1>6, GraftOnce
<1> QED BY <1>4, <1>7, <1>8

LEMMA SplitLive ==
  ASSUME NEW t, Whole(t), NEW v \in Value, NEW id \in RecId, Copies(t, v) < MaxCopies,
         Len(t.page[AM_SearchLeaf(t, v)].rec) = FANOUT, PairsOnce(t), <<v, id>> \notin Live(t),
         NEW s, s = SplitLeaf(t, AM_SearchLeaf(t, v), NewRec(v, id))
  PROVE  Live(s.tree) = Live(t) \cup {<<v, id>>} /\ PairsOnce(s.tree)
<1>1. PICK o, e, rec : o = AM_SearchLeaf(t, v) /\ e = NewRec(v, id) /\ rec = t.page[o].rec
  OBVIOUS
<1>2. PICK lev : Shape(t, lev, NoNode, NoNode)
  BY DEF Good, Whole
<1>3. o \in 1..Len(t.page) /\ lev[o] = 0
  BY <1>1, <1>2, SearchEnds
<1>4. Len(rec) = FANOUT /\ e \in Rec /\ PairOf(e) = <<v, id>> /\ ~e.deleted
  BY <1>1, NewRecIn, NewRecPair
<1>5. Grafts(t, s.tree, o, Len(t.page) + 1, Middle + 1, SplitPlace(rec, e), e)
  BY <1>1, <1>2, <1>3, <1>4, SplitGrafts
<1>6. Good(t, NoNode, NoNode, NoNode) /\ Good(s.tree, o, Len(t.page) + 1, s.key)
  BY <1>1, GoodSplit DEF Whole
<1>7. Live(s.tree) = Live(t) \cup {PairOf(e)}
  BY <1>4, <1>5, <1>6, GraftHolds
<1>8. PairsOnce(s.tree)
  BY <1>4, <1>5, <1>6, GraftOnce
<1> QED BY <1>4, <1>7, <1>8

\* A climb leaves the entries.
LEMMA NewRootLive ==
  ASSUME NEW t, NEW old, NEW after, NEW key \in Value, Good(t, old, after, key),
         after # NoNode, t.page[old].parent = NoNode, NEW u, u = NewRoot(t, key, old, after)
  PROVE  Live(u) = Live(t) /\ (PairsOnce(t) => PairsOnce(u))
<1>1. PICK lev : Shape(t, lev, old, after)
  BY DEF Good
<1>2. t \in TreeRec /\ old \in 1..Len(t.page) /\ after \in 1..Len(t.page) /\ Len(t.page) \in Nat
  BY <1>1, Above, GoodNodes
<1>3. Raised(t, u, old, after)
  BY <1>2, NewRootIs
<1>4. ASSUME NEW o PROVE IsLeaf(u, o) <=> IsLeaf(t, o)
  <2>1. CASE o \in 1..Len(t.page)
    <3>1. Moved(u.page[o], t.page[o]) /\ o \in 1..Len(u.page)
      BY <1>2, <1>3, <2>1 DEF Raised
    <3>2. t.page[o] \in LeafNode \cup InnerNode
      BY <1>1, <2>1, LeafIn DEF Shape
    <3> QED BY <2>1, <3>1, <3>2, KindsApart DEF IsLeaf, Moved
  <2>2. CASE o = Len(t.page) + 1
    <3>1. u.page[o] \in InnerNode /\ o \notin 1..Len(t.page)
      BY <1>2, <1>3, <2>2 DEF Raised, InnerOK
    <3> QED BY <3>1, KindsApart DEF IsLeaf
  <2>3. CASE o \notin 1..(Len(t.page) + 1)
    <3>1. o \notin 1..Len(t.page) /\ o \notin 1..Len(u.page)
      BY <1>2, <1>3, <2>3 DEF Raised
    <3> QED BY <3>1 DEF IsLeaf
  <2>4. o \in 1..(Len(t.page) + 1) => o \in 1..Len(t.page) \/ o = Len(t.page) + 1
    BY <1>2
  <2> QED BY <2>1, <2>2, <2>3, <2>4
<1>5. ASSUME NEW o, IsLeaf(t, o) PROVE u.page[o].rec = t.page[o].rec
  BY <1>3, <1>5 DEF Raised, Moved, IsLeaf
<1>6. SameEntries(t, u)
  BY <1>4, <1>5 DEF SameEntries
<1>7. Whole(u)
  BY GoodNewRoot
<1> QED BY <1>6, <1>7, SameLive DEF Whole

LEMMA PlaceKeyLive ==
  ASSUME NEW t, NEW old, NEW after, NEW key \in Value, Good(t, old, after, key), after # NoNode,
         NEW o, o = t.page[old].parent, o # NoNode, Len(t.page[o].child) < FANOUT,
         NEW u, u = [t EXCEPT !.page[o] = AM_InsertKeyToIndexNoSplit(@, key, after)]
  PROVE  Live(u) = Live(t) /\ (PairsOnce(t) => PairsOnce(u))
<1>1. PICK lev : Shape(t, lev, old, after)
  BY DEF Good
<1>2. o \in 1..Len(t.page) /\ lev[o] # 0 /\ after \in 1..Len(t.page)
  BY <1>1, Above
<1>3. PICK x, y, c : x = t.page[o] /\ c = Len(x.child) /\ y = AM_InsertKeyToIndexNoSplit(x, key, after)
  OBVIOUS
<1>4. t \in TreeRec /\ x \in InnerNode /\ Inner(x, c) /\ c \in Nat \ {0} /\ after \in Nat
  <2>1. c \in 1..FANOUT /\ x \in InnerNode /\ Inner(x, c) /\ t \in TreeRec /\ after \in Nat
    BY <1>1, <1>2, <1>3, LeafIn DEF Shape
  <2> QED BY <2>1, TreeAssumption
<1>5. y \in InnerNode
  BY <1>3, <1>4, InsertKey DEF Inner
<1>6. Replaced(t, u, o, y)
  <2>1. Replaced(t, [t EXCEPT !.page[o] = y], o, y)
    BY <1>2, <1>4, <1>5, ReplaceIs
  <2>2. u = [t EXCEPT !.page[o] = y]
    BY <1>3
  <2> QED BY <2>1, <2>2
<1>7. ~IsLeaf(t, o) /\ ~IsLeaf(u, o)
  BY <1>3, <1>4, <1>5, <1>6, KindsApart DEF IsLeaf, Replaced
<1>8. SameEntries(t, u)
  BY <1>6, <1>7 DEF SameEntries, IsLeaf, Replaced
<1>9. Whole(u)
  BY GoodPlaceKey
<1> QED BY <1>8, <1>9, SameLive DEF Whole

LEMMA SplitInternalLive ==
  ASSUME NEW t, NEW old, NEW after, NEW key \in Value, Good(t, old, after, key), after # NoNode,
         NEW o, o = t.page[old].parent, o # NoNode, Len(t.page[o].child) = FANOUT,
         NEW s, s = SplitInternal(t, o, key, after)
  PROVE  Live(s.tree) = Live(t) /\ (PairsOnce(t) => PairsOnce(s.tree))
<1>1. PICK lev : Shape(t, lev, old, after)
  BY DEF Good
<1>2. o \in 1..Len(t.page) /\ lev[o] # 0 /\ after \in 1..Len(t.page)
  BY <1>1, Above
<1>3. PICK n, l, r : /\ n = Len(t.page) /\ l = LeftNode(t.page[o], key, after)
                     /\ r = RightNode(t.page[o], key, after)
  OBVIOUS
<1>4. Inner(t.page[o], FANOUT) /\ n \in Nat /\ after \in Nat /\ Pages(t, lev)
  BY <1>1, <1>2, <1>3, LeafIn DEF Shape
<1>5. Halved(t, s.tree, o, l, r)
  BY <1>2, <1>3, <1>4, SplitInternalHalved
<1>6. /\ Len(s.tree.page) = n + 1 /\ s.tree.page[o] \in InnerNode /\ s.tree.page[n + 1] \in InnerNode
      /\ t.page[o] \in InnerNode
  BY <1>3, <1>4, <1>5 DEF Halved, Relinked, Inner
<1>7. ASSUME NEW q PROVE IsLeaf(s.tree, q) <=> IsLeaf(t, q)
  <2>1. CASE q \in 1..n /\ q # o
    <3>1. /\ t.page[q] \in LeafNode => s.tree.page[q] \in LeafNode
          /\ t.page[q] \in InnerNode => s.tree.page[q] \in InnerNode
      BY <1>3, <1>5, <2>1 DEF Halved
    <3>2. t.page[q] \in LeafNode \cup InnerNode
      BY <1>3, <1>4, <2>1, LeafIn
    <3>3. q \in 1..Len(s.tree.page)
      BY <1>4, <1>6, <2>1
    <3> QED BY <1>3, <2>1, <3>1, <3>2, <3>3, KindsApart DEF IsLeaf
  <2>2. CASE q = o
    BY <1>6, <2>2, KindsApart DEF IsLeaf
  <2>3. CASE q \notin 1..n
    <3>1. q \in 1..(n + 1) => q = n + 1
      BY <1>4, <2>3
    <3> QED BY <1>3, <1>6, <2>3, <3>1, KindsApart DEF IsLeaf
  <2> QED BY <2>1, <2>2, <2>3
<1>8. ASSUME NEW q, IsLeaf(t, q) PROVE s.tree.page[q].rec = t.page[q].rec
  <2>1. q # o
    BY <1>6, <1>8, KindsApart DEF IsLeaf
  <2> QED BY <1>5, <1>8, <2>1 DEF Halved, IsLeaf
<1>9. SameEntries(t, s.tree)
  BY <1>7, <1>8 DEF SameEntries
<1>10. Good(s.tree, o, Len(t.page) + 1, s.key)
  BY GoodSplitInternal
<1> QED BY <1>9, <1>10, SameLive

-----------------------------------------------------------------------------
(* A walk along the leaves. *)

\* The next entry to the left is the last of those before.
LEMMA NeighbourLeft ==
  ASSUME DifferencesFit, NEW t, Whole(t), NEW lev, NEW low, NEW high, InOrder(t, lev, low, high),
         NEW pos \in PosType, InTree(t, pos), NEW q, q = Neighbour(t, LEFT, pos),
         NEW o, NEW i, EntryIn(t, o, i)
  PROVE  /\ q.leaf = NoNode => ~Before(low, o, i, pos)
         /\ q.leaf # NoNode => (Before(low, o, i, pos) <=> \/ o = q.leaf /\ i = q.entry
                                                           \/ Before(low, o, i, q))
<1>1. PICK l, e : l = pos.leaf /\ e = pos.entry
  OBVIOUS
<1>2. IsLeaf(t, l) /\ e \in 0..Len(t.page[l].rec) /\ IsLeaf(t, o) /\ i \in 1..Len(t.page[o].rec)
  BY <1>1 DEF InTree, EntryIn
<1>3. PICK m, k : m = Len(t.page[l].rec) /\ k = Len(t.page[o].rec)
  OBVIOUS
<1>4. /\ m \in Nat /\ e \in 0..m /\ k \in Nat /\ i \in 1..k /\ l # NoNode
      /\ low[l] \in Int /\ low[o] \in Int /\ high[o] \in Int /\ Bottom <= low[o] /\ low[o] < high[o]
      /\ Bottom \in Int
  BY <1>2, <1>3, LeafBounds, Ends, TreeAssumption
<1>5. CASE e \notin {1, Start}
  <2>1. q = [pos EXCEPT !.entry = pos.entry - 1]
    BY <1>1, <1>4, <1>5 DEF Neighbour, LEFT
  <2>2. q.leaf = l /\ q.entry = e - 1
    BY <1>1, <2>1 DEF PosType
  <2>3. Before(low, o, i, pos) <=> low[o] < low[l] \/ (o = l /\ i < e)
    BY <1>1 DEF Before
  <2>4. Before(low, o, i, q) <=> low[o] < low[l] \/ (o = l /\ i < e - 1)
    BY <2>2 DEF Before
  <2> QED BY <1>4, <2>2, <2>3, <2>4
<1>6. CASE e \in {1, Start}
  <2>1. PICK p : p = t.page[l].prev
    OBVIOUS
  <2>2. q = [leaf |-> p, entry |-> IF p = NoNode THEN e ELSE Len(t.page[p].rec)]
    BY <1>1, <1>4, <1>6, <2>1 DEF Neighbour, LEFT
  <2>3. q.leaf = p
    BY <2>2
  <2>4. Before(low, o, i, pos) <=> low[o] < low[l]
    BY <1>1, <1>4, <1>6 DEF Before, Start
  <2>5. CASE p = NoNode
    <3>1. l = t.first
      <4>1. t.page[l].prev = NoNode => l = t.first
        BY <1>2, LeafBounds
      <4> QED BY <2>1, <2>5, <4>1
    <3>2. low[l] = Bottom
      <4>1. low[t.first] = Bottom
        BY FirstLow
      <4> QED BY <3>1, <4>1
    <3> QED BY <1>4, <2>3, <2>4, <2>5, <3>2
  <2>6. CASE p # NoNode
    <3>1. IsLeaf(t, p) /\ high[p] = low[l]
      BY <1>2, <2>1, <2>6, LeafBounds
    <3>2. PICK n : n = Len(t.page[p].rec)
      OBVIOUS
    <3>3. n \in Nat /\ low[p] \in Int /\ high[p] \in Int /\ low[p] < high[p]
      BY <3>1, <3>2, LeafBounds, TreeAssumption
    <3>4. q.entry = n
      BY <2>2, <2>6, <3>2
    <3>5. Before(low, o, i, q) <=> low[o] < low[p] \/ (o = p /\ i < n)
      BY <2>3, <3>4 DEF Before
    <3>6. o = p => i \in 1..n
      BY <1>3, <1>4, <3>2
    <3>7. o # p => (low[o] < low[l] <=> low[o] < low[p])
      <4>1. SUFFICES ASSUME o # p PROVE low[o] < low[l] <=> low[o] < low[p]
        OBVIOUS
      <4>2. low[o] <= low[p] => low[o] < low[p]
        BY <1>2, <3>1, <4>1, LeavesApart
      <4>3. low[p] <= low[o] => high[p] <= low[o]
        BY <1>2, <3>1, <4>1, LeavesApart
      <4> QED BY <1>4, <3>1, <3>3, <4>2, <4>3
    <3> QED BY <1>4, <2>3, <2>4, <2>6, <3>1, <3>3, <3>4, <3>5, <3>6, <3>7
  <2> QED BY <2>5, <2>6
<1> QED BY <1>5, <1>6

\* The next entry to the right is the first of those after.
LEMMA NeighbourRight ==
  ASSUME DifferencesFit, NEW t, Whole(t), NEW lev, NEW low, NEW high, InOrder(t, lev, low, high),
         NEW pos \in PosType, InTree(t, pos), NEW q, q = Neighbour(t, RIGHT, pos),
         NEW o, NEW i, EntryIn(t, o, i)
  PROVE  /\ q.leaf = NoNode => ~After(low, o, i, pos)
         /\ q.leaf # NoNode => (After(low, o, i, pos) <=> \/ o = q.leaf /\ i = q.entry
                                                          \/ After(low, o, i, q))
<1>1. PICK l, e : l = pos.leaf /\ e = pos.entry
  OBVIOUS
<1>2. IsLeaf(t, l) /\ e \in 0..Len(t.page[l].rec) /\ IsLeaf(t, o) /\ i \in 1..Len(t.page[o].rec)
  BY <1>1 DEF InTree, EntryIn
<1>3. PICK m, k : m = Len(t.page[l].rec) /\ k = Len(t.page[o].rec)
  OBVIOUS
<1>4. /\ m \in Nat /\ e \in 0..m /\ k \in Nat /\ i \in 1..k /\ l # NoNode
      /\ low[l] \in Int /\ high[l] \in Int /\ low[o] \in Int /\ high[o] \in Int
      /\ low[l] < high[l] /\ low[o] < high[o] /\ high[o] <= Top /\ Top \in Int
  <2>1. high[o] <= Top
    BY <1>2, InOrderParts DEF Ranges, IsLeaf
  <2> QED BY <1>2, <1>3, <2>1, LeafBounds, Ends, TreeAssumption
<1>5. CASE e \notin {m, Start}
  <2>1. q = [pos EXCEPT !.entry = pos.entry + 1]
    BY <1>1, <1>3, <1>4, <1>5 DEF Neighbour, LEFT, RIGHT
  <2>2. q.leaf = l /\ q.entry = e + 1
    BY <1>1, <2>1 DEF PosType
  <2>3. After(low, o, i, pos) <=> low[l] < low[o] \/ (o = l /\ e < i)
    BY <1>1, <1>5 DEF After
  <2>4. After(low, o, i, q) <=> low[l] < low[o] \/ (o = l /\ e + 1 < i)
    BY <1>4, <2>2 DEF After, Start
  <2>5. ~(low[o] < low[o])
    BY <1>4
  <2> QED BY <1>4, <2>2, <2>3, <2>4, <2>5
<1>6. CASE e \in {m, Start}
  <2>1. PICK p : p = t.page[l].next
    OBVIOUS
  <2>2. q = [leaf |-> p, entry |-> IF p = NoNode THEN e ELSE 1]
    BY <1>1, <1>3, <1>4, <1>6, <2>1 DEF Neighbour, LEFT, RIGHT
  <2>3. q.leaf = p
    BY <2>2
  <2>4. After(low, o, i, pos) <=> low[l] < low[o]
    <3>1. ~(o = l /\ e # Start /\ e < i)
      BY <1>3, <1>4, <1>6
    <3> QED BY <1>1, <3>1 DEF After
  <2>5. o # l => (low[l] < low[o] <=> high[l] <= low[o])
    <3>1. SUFFICES ASSUME o # l PROVE low[l] < low[o] <=> high[l] <= low[o]
      OBVIOUS
    <3>2. low[l] <= low[o] => high[l] <= low[o]
      BY <1>2, <3>1, LeavesApart
    <3> QED BY <1>4, <3>2
  <2>6. CASE p = NoNode
    <3>1. high[l] = Top
      <4>1. t.page[l].next = NoNode => high[l] = Top
        BY <1>2, LeafBounds
      <4> QED BY <2>1, <2>6, <4>1
    <3> QED BY <1>4, <2>3, <2>4, <2>5, <2>6, <3>1
  <2>7. CASE p # NoNode
    <3>1. IsLeaf(t, p) /\ low[p] = high[l]
      BY <1>2, <2>1, <2>7, LeafBounds
    <3>2. q.entry = 1
      BY <2>2, <2>7
    <3>3. After(low, o, i, q) <=> low[p] < low[o] \/ (o = p /\ 1 < i)
      BY <2>3, <3>2 DEF After, Start
    <3>4. o # p => low[p] # low[o]
      <4>1. SUFFICES ASSUME o # p, low[p] = low[o] PROVE FALSE
        OBVIOUS
      <4>2. low[o] <= low[p]
        BY <1>4, <4>1
      <4>3. low[o] < low[p]
        BY <1>2, <3>1, <4>1, <4>2, LeavesApart
      <4> QED BY <1>4, <4>1, <4>3
    <3>5. o = l => ~(low[l] < low[o]) /\ ~(low[p] < low[o]) /\ o # p
      BY <1>4, <3>1
    <3> QED BY <1>4, <2>3, <2>4, <2>5, <2>7, <3>1, <3>2, <3>3, <3>4, <3>5
  <2> QED BY <2>6, <2>7
<1> QED BY <1>5, <1>6

\* AM_CheckCondition is what h/minirel.h means by a condition.
LEMMA CondIs ==
  ASSUME DifferencesFit, NEW op \in EQ_OP..NE_OP, NEW a \in Value, NEW b \in Value
  PROVE  AM_CheckCondition(op, a, b) <=> Holds(op, a, b)
<1>1. PICK r : r = AM_CompAttVal(a, b)
  OBVIOUS
<1>2. a \in Int /\ b \in Int /\ r = a - b
  BY <1>1, CompIs
<1>3. op \in {1, 2, 3, 4, 5, 6}
  BY DEF EQ_OP, NE_OP
<1>4. /\ r = 0 <=> a = b
      /\ r < 0 <=> a < b
      /\ r > 0 <=> a > b
      /\ r <= 0 <=> a <= b
      /\ r >= 0 <=> a >= b
  BY <1>2
<1>5. CASE op = 1
  BY <1>1, <1>4, <1>5 DEF AM_CheckCondition, Holds, EQ_OP, LT_OP, GT_OP, LE_OP, GE_OP, NE_OP
<1>6. CASE op = 2
  BY <1>1, <1>4, <1>6 DEF AM_CheckCondition, Holds, EQ_OP, LT_OP, GT_OP, LE_OP, GE_OP, NE_OP
<1>7. CASE op = 3
  BY <1>1, <1>4, <1>7 DEF AM_CheckCondition, Holds, EQ_OP, LT_OP, GT_OP, LE_OP, GE_OP, NE_OP
<1>8. CASE op = 4
  BY <1>1, <1>4, <1>8 DEF AM_CheckCondition, Holds, EQ_OP, LT_OP, GT_OP, LE_OP, GE_OP, NE_OP
<1>9. CASE op = 5
  BY <1>1, <1>4, <1>9 DEF AM_CheckCondition, Holds, EQ_OP, LT_OP, GT_OP, LE_OP, GE_OP, NE_OP
<1>10. CASE op = 6
  BY <1>1, <1>4, <1>10 DEF AM_CheckCondition, Holds, EQ_OP, LT_OP, GT_OP, LE_OP, GE_OP, NE_OP
<1> QED BY <1>3, <1>5, <1>6, <1>7, <1>8, <1>9, <1>10

\* An entry that satisfies the condition.
Fulfils(t, o, i, op, v) == EntryIn(t, o, i) /\ Holds(op, t.page[o].rec[i].value, v)

LEMMA EntryRec ==
  ASSUME NEW t, NEW old, NEW after, NEW key, Good(t, old, after, key), NEW o, NEW i, EntryIn(t, o, i)
  PROVE  /\ t.page[o].rec[i] \in Rec /\ t.page[o].rec[i].value \in Value
         /\ i \in Nat \ {0} /\ i \in 1..Len(t.page[o].rec) /\ IsLeaf(t, o)
<1>1. IsLeaf(t, o) /\ i \in 1..Len(t.page[o].rec)
  BY DEF EntryIn
<1>2. t.page[o].rec \in Seq(Rec) /\ Len(t.page[o].rec) \in Nat
  BY <1>1, LeafEntries
<1>3. t.page[o].rec[i] \in Rec /\ t.page[o].rec[i].value \in Value
  BY <1>1, <1>2, RecIn
<1> QED BY <1>1, <1>2, <1>3

LEMMA MatchIs ==
  ASSUME DifferencesFit, NEW t, NEW old, NEW after, NEW key, Good(t, old, after, key),
         NEW op \in EQ_OP..NE_OP, NEW v \in Value, NEW pos, EntryIn(t, pos.leaf, pos.entry)
  PROVE  Matches(t, pos, op, v) <=> Fulfils(t, pos.leaf, pos.entry, op, v)
<1>1. pos.leaf # NoNode /\ t.page[pos.leaf].rec[pos.entry].value \in Value
  BY EntryRec, LeafEntries
<1>2. AM_CheckCondition(op, t.page[pos.leaf].rec[pos.entry].value, v)
        <=> Holds(op, t.page[pos.leaf].rec[pos.entry].value, v)
  BY <1>1, CondIs
<1> QED BY <1>1, <1>2 DEF Matches, EntryAt, Fulfils

\* The first position of a search: the last entry of its leaf that will do.
LEMMA FirstIs ==
  ASSUME DifferencesFit, NEW t, Whole(t), NEW op \in EQ_OP..NE_OP, NEW v \in Value,
         NEW pos, pos = AM_GetFirstEntry(t, op, v)
  PROVE  /\ pos \in PosType /\ InTree(t, pos) /\ pos.leaf = AM_SearchLeaf(t, v)
         /\ pos.entry # Start => Fulfils(t, pos.leaf, pos.entry, op, v)
         /\ \A i : Fulfils(t, pos.leaf, i, op, v) => i <= pos.entry
<1>1. pos \in PosType /\ InTree(t, pos)
  BY GoodFirst DEF Whole
<1> DEFINE l == AM_SearchLeaf(t, v)
           rec == t.page[l].rec
           T == {i \in DOMAIN rec : AM_CheckCondition(op, rec[i].value, v)} \cup {Start}
<1>2. IsLeaf(t, l)
  BY GoodSearch DEF Whole
<1>3. Len(rec) \in 0..FANOUT /\ DOMAIN rec = 1..Len(rec) /\ rec \in Seq(Rec)
  BY <1>2, LeafEntries DEF Whole
<1>4. pos.leaf = l /\ pos.entry = Max(T)
  BY DEF AM_GetFirstEntry
<1>5. \A i : i \in T <=> i = Start \/ Fulfils(t, l, i, op, v)
  <2>1. ASSUME NEW i \in 1..Len(rec)
        PROVE  AM_CheckCondition(op, rec[i].value, v) <=> Holds(op, rec[i].value, v)
    <3>1. rec[i].value \in Value
      BY <1>3, <2>1, RecIn
    <3> QED BY <3>1, CondIs
  <2> QED BY <1>2, <1>3, <2>1 DEF Fulfils, EntryIn
<1>6. T \in SUBSET (0..Len(rec)) /\ T # {} /\ Len(rec) \in Int
  BY <1>3 DEF Start
<1> HIDE DEF T
<1>7. Max(T) \in T /\ \A j \in T : Max(T) >= j
  BY <1>6, GreatestOf DEF Max
<1> HIDE DEF l
<1>8. pos.entry # Start => Fulfils(t, pos.leaf, pos.entry, op, v)
  BY <1>4, <1>5, <1>7
<1>9. ASSUME NEW i, Fulfils(t, pos.leaf, i, op, v) PROVE i <= pos.entry
  <2>0. i \in T
    BY <1>4, <1>5, <1>9
  <2>1. i \in T /\ i \in Int /\ Max(T) \in Int
    <3>1. \A j \in T : j \in Int
      BY <1>6
    <3> QED BY <1>7, <2>0, <3>1
  <2> QED BY <1>4, <1>7, <2>1
<1> QED BY <1>1, <1>4, <1>8, <1>9 DEF l

\* A good tree has an order.
LEMMA OrderOf ==
  ASSUME Fits, NEW t, Whole(t)
  PROVE  \E lev, low, high : InOrder(t, lev, low, high)
<1>1. PICK lev : /\ Shape(t, lev, NoNode, NoNode)
                 /\ Sound(t, lev, NoNode, NoNode, NoNode)
  BY DEF Good, Whole
<1>2. PICK low, high : Ordered(t, lev, low, high, NoNode, NoNode, NoNode)
  BY <1>1 DEF Sound
<1> QED BY <1>1, <1>2 DEF InOrder

-----------------------------------------------------------------------------
(* The walk of a deletion of pair <<v, id>>. *)

\* At pos, an entry of value v; the entry to delete, if there is one, is before.
Behind(t, low, pos, v, id) ==
  /\ pos \in PosType /\ Fulfils(t, pos.leaf, pos.entry, EQ_OP, v)
  /\ \A o, i : LiveAt(t, o, i, <<v, id>>) => Before(low, o, i, pos)

SoughtBefore(t, pos, v, id) ==
  \E lev, low, high : InOrder(t, lev, low, high) /\ Behind(t, low, pos, v, id)

LEMMA LiveFulfils ==
  ASSUME NEW t, NEW o, NEW i, NEW v, NEW id, LiveAt(t, o, i, <<v, id>>)
  PROVE  Fulfils(t, o, i, EQ_OP, v) /\ EntryIn(t, o, i) /\ t.page[o].rec[i].value = v
<1>1. EntryIn(t, o, i) /\ t.page[o].rec[i].value = v
  BY DEF LiveAt, PairOf
<1> QED BY <1>1 DEF Fulfils, Holds, EQ_OP, LT_OP, GT_OP, LE_OP, GE_OP, NE_OP

LEMMA FulfilsEq ==
  ASSUME NEW t, NEW o, NEW i, NEW v
  PROVE  Fulfils(t, o, i, EQ_OP, v) <=> EntryIn(t, o, i) /\ t.page[o].rec[i].value = v
BY DEF Fulfils, Holds, EQ_OP, LT_OP, GT_OP, LE_OP, GE_OP, NE_OP

\* An entry that is sought is the one of the pair; one that is not, is not.
LEMMA SoughtIs ==
  ASSUME NEW t, NEW pos, NEW v, NEW id, Fulfils(t, pos.leaf, pos.entry, EQ_OP, v)
  PROVE  Sought(t, pos, id) <=> LiveAt(t, pos.leaf, pos.entry, <<v, id>>)
BY FulfilsEq DEF Sought, EntryAt, LiveAt, PairOf

LEMMA DeleteFirst ==
  ASSUME Fits, NEW t, Whole(t), NEW v \in Value, NEW id,
         NEW pos, pos = AM_GetFirstEntry(t, EQ_OP, v)
  PROVE  /\ pos.entry = Start => <<v, id>> \notin Live(t)
         /\ pos.entry # Start /\ Sought(t, pos, id) => LiveAt(t, pos.leaf, pos.entry, <<v, id>>)
         /\ pos.entry # Start /\ ~Sought(t, pos, id) => SoughtBefore(t, pos, v, id)
<1>0. DifferencesFit /\ EQ_OP \in EQ_OP..NE_OP
  BY DEF Fits, EQ_OP, NE_OP
<1>1. PICK lev, low, high : InOrder(t, lev, low, high)
  BY OrderOf
<1>2. /\ pos \in PosType /\ InTree(t, pos) /\ pos.leaf = AM_SearchLeaf(t, v)
      /\ pos.entry # Start => Fulfils(t, pos.leaf, pos.entry, EQ_OP, v)
      /\ \A i : Fulfils(t, pos.leaf, i, EQ_OP, v) => i <= pos.entry
  BY <1>0, FirstIs
<1>3. CASE pos.entry = Start
  <2>1. SUFFICES ASSUME <<v, id>> \in Live(t) PROVE FALSE
    BY <1>3
  <2>2. PICK o, i : LiveAt(t, o, i, <<v, id>>)
    BY <2>1, LiveIs DEF Whole
  <2>3. EntryIn(t, o, i) /\ t.page[o].rec[i].value = v
    BY <2>2, LiveFulfils
  <2>4. FoundIn(t, pos.leaf, v)
    <3>1. o \in 1..Len(t.page) /\ lev[o] = 0 /\ i \in 1..Len(t.page[o].rec) /\ HasValue(t, o, i, v)
      BY <1>1, <2>3, InOrderParts DEF EntryIn, HasValue
    <3> QED BY <1>0, <1>1, <1>2, <3>1, ValueFound
  <2>5. PICK j \in 1..Len(t.page[pos.leaf].rec) : t.page[pos.leaf].rec[j].value = v
    BY <2>4 DEF FoundIn, HasValue
  <2>6. Fulfils(t, pos.leaf, j, EQ_OP, v) /\ EntryIn(t, pos.leaf, j)
    BY <1>2, <2>5, FulfilsEq DEF EntryIn, InTree
  <2>7. j <= 0 /\ j \in Nat \ {0}
    BY <1>2, <1>3, <2>6, EntryRec DEF Start, Whole
  <2> QED BY <2>7
<1>4. CASE pos.entry # Start
  <2>1. Fulfils(t, pos.leaf, pos.entry, EQ_OP, v)
    BY <1>2, <1>4
  <2>2. ASSUME ~Sought(t, pos, id), NEW o, NEW i, LiveAt(t, o, i, <<v, id>>)
        PROVE  Before(low, o, i, pos)
    <3>1. Fulfils(t, o, i, EQ_OP, v) /\ EntryIn(t, o, i) /\ t.page[o].rec[i].value = v
      BY <2>2, LiveFulfils
    <3>2. CASE o = pos.leaf
      <4>1. i <= pos.entry /\ i # pos.entry
        BY <1>2, <2>1, <2>2, <3>1, <3>2, SoughtIs
      <4>2. i \in Int /\ pos.entry \in Int
        BY <1>2, <3>1, EntryRec DEF Whole, PosType
      <4> QED BY <3>2, <4>1, <4>2 DEF Before
    <3>3. CASE o # pos.leaf
      <4>1. PICK l : l = pos.leaf
        OBVIOUS
      <4>2. IsLeaf(t, o) /\ IsLeaf(t, l) /\ Within(low, high, l, v)
        BY <1>0, <1>1, <1>2, <3>1, <4>1, SearchWithin DEF EntryIn, InTree
      <4>3. /\ low[o] \in Int /\ low[l] \in Int /\ high[l] \in Int /\ v \in Int
            /\ low[o] <= v /\ v < high[l]
        <5>1. low[o] <= v /\ v \in Int
          BY <1>1, <3>1, EntryValue
        <5> QED BY <1>1, <4>2, <5>1, LeafBounds DEF Within
      <4>4. low[l] <= low[o] => high[l] <= low[o]
        BY <1>0, <1>1, <3>3, <4>1, <4>2, LeavesApart
      <4> QED BY <4>1, <4>3, <4>4 DEF Before
    <3> QED BY <3>2, <3>3
  <2>3. ~Sought(t, pos, id) => SoughtBefore(t, pos, v, id)
    BY <1>1, <1>2, <2>1, <2>2 DEF SoughtBefore, Behind
  <2> QED BY <1>4, <2>1, <2>3, SoughtIs
<1> QED BY <1>3, <1>4

LEMMA DeleteLeft ==
  ASSUME Fits, NEW t, Whole(t), NEW v \in Value, NEW id, NEW pos, SoughtBefore(t, pos, v, id),
         NEW q, q = Neighbour(t, LEFT, pos)
  PROVE  /\ Matches(t, q, EQ_OP, v) /\ Sought(t, q, id) => LiveAt(t, q.leaf, q.entry, <<v, id>>)
         /\ Matches(t, q, EQ_OP, v) /\ ~Sought(t, q, id) => SoughtBefore(t, q, v, id)
         /\ ~Matches(t, q, EQ_OP, v) => <<v, id>> \notin Live(t)
<1>0. DifferencesFit /\ EQ_OP \in EQ_OP..NE_OP
  BY DEF Fits, EQ_OP, NE_OP
<1>1. PICK lev, low, high : InOrder(t, lev, low, high) /\ Behind(t, low, pos, v, id)
  BY DEF SoughtBefore
<1>2. /\ pos \in PosType /\ EntryIn(t, pos.leaf, pos.entry) /\ t.page[pos.leaf].rec[pos.entry].value = v
      /\ \A o, i : LiveAt(t, o, i, <<v, id>>) => Before(low, o, i, pos)
  BY <1>1, FulfilsEq DEF Behind
<1>3. InTree(t, pos)
  <2>1. Len(t.page[pos.leaf].rec) \in Nat
    BY <1>2, LeafEntries DEF EntryIn, Whole
  <2> QED BY <1>2, <2>1 DEF InTree, EntryIn
<1>4. q \in PosType /\ (q.leaf = NoNode \/ EntryIn(t, q.leaf, q.entry))
  <2>1. /\ q \in PosType
        /\ q.leaf = NoNode \/ (InTree(t, q) /\ q.entry # 0)
    BY <1>2, <1>3, GoodNeighbour DEF Whole
  <2>2. InTree(t, q) => Len(t.page[q.leaf].rec) \in Nat
    BY LeafEntries, TreeAssumption DEF InTree, Whole
  <2> QED BY <2>1, <2>2 DEF InTree, EntryIn
<1>5. ASSUME NEW o, NEW i, LiveAt(t, o, i, <<v, id>>)
      PROVE  q.leaf # NoNode /\ ((o = q.leaf /\ i = q.entry) \/ Before(low, o, i, q))
  <2>1. EntryIn(t, o, i) /\ Before(low, o, i, pos)
    BY <1>2, <1>5, LiveFulfils
  <2> QED BY <1>0, <1>1, <1>2, <1>3, <2>1, NeighbourLeft
<1>6. CASE q.leaf = NoNode
  <2>1. <<v, id>> \notin Live(t)
    BY <1>5, <1>6, LiveIs DEF Whole
  <2> QED BY <1>6, <2>1 DEF Matches
<1>7. CASE q.leaf # NoNode
  <2>1. EntryIn(t, q.leaf, q.entry)
    BY <1>4, <1>7
  <2>2. Matches(t, q, EQ_OP, v) <=> Fulfils(t, q.leaf, q.entry, EQ_OP, v)
    BY <1>0, <2>1, MatchIs DEF Whole
  <2>3. CASE Matches(t, q, EQ_OP, v)
    <3>1. Fulfils(t, q.leaf, q.entry, EQ_OP, v)
      BY <2>2, <2>3
    <3>2. Sought(t, q, id) <=> LiveAt(t, q.leaf, q.entry, <<v, id>>)
      BY <3>1, SoughtIs
    <3>3. ~Sought(t, q, id) => Behind(t, low, q, v, id)
      BY <1>4, <1>5, <3>1, <3>2 DEF Behind
    <3> QED BY <1>1, <2>3, <3>2, <3>3 DEF SoughtBefore
  <2>4. CASE ~Matches(t, q, EQ_OP, v)
    <3>1. PICK x : x = t.page[q.leaf].rec[q.entry].value
      OBVIOUS
    <3>2. x # v /\ x \in Int /\ v \in Int
      <4>1. x \in Value
        BY <2>1, <3>1, EntryRec DEF Whole
      <4> QED BY <2>1, <2>2, <2>4, <3>1, <4>1, FulfilsEq, Ends
    <3>3. x <= v
      <4>1. Before(low, q.leaf, q.entry, pos)
        BY <1>0, <1>1, <1>2, <1>3, <1>7, <2>1, NeighbourLeft
      <4> QED BY <1>0, <1>1, <1>2, <2>1, <3>1, <4>1, EntriesRise DEF Before
    <3>4. ASSUME NEW o, NEW i, LiveAt(t, o, i, <<v, id>>) PROVE FALSE
      <4>1. EntryIn(t, o, i) /\ t.page[o].rec[i].value = v
        BY <3>4, LiveFulfils
      <4>2. ~(o = q.leaf /\ i = q.entry)
        BY <3>1, <3>2, <4>1
      <4>3. Before(low, o, i, q)
        BY <1>5, <3>4, <4>2
      <4>4. v <= x
        BY <1>0, <1>1, <2>1, <3>1, <4>1, <4>3, EntriesRise DEF Before
      <4> QED BY <3>2, <3>3, <4>4
    <3>5. <<v, id>> \notin Live(t)
      BY <3>4, LiveIs DEF Whole
    <3> QED BY <2>4, <3>5
  <2> QED BY <2>3, <2>4
<1> QED BY <1>6, <1>7

LEMMA DeleteRight ==
  ASSUME Fits, NEW t, Whole(t), NEW v \in Value, NEW id, <<v, id>> \notin Live(t),
         NEW pos \in PosType, PosIn(t, pos), NEW q, q = Neighbour(t, RIGHT, pos)
  PROVE  ~(Matches(t, q, EQ_OP, v) /\ Sought(t, q, id))
<1>0. DifferencesFit /\ EQ_OP \in EQ_OP..NE_OP
  BY DEF Fits, EQ_OP, NE_OP
<1>1. SUFFICES ASSUME Matches(t, q, EQ_OP, v), Sought(t, q, id) PROVE FALSE
  OBVIOUS
<1>2. q.leaf # NoNode
  BY <1>1 DEF Matches
<1>3. InTree(t, q) /\ q.entry # 0
  BY <1>2, GoodNeighbour DEF Whole, PosIn
<1>4. EntryIn(t, q.leaf, q.entry)
  <2>1. Len(t.page[q.leaf].rec) \in Nat
    BY <1>3, LeafEntries, TreeAssumption DEF InTree, Whole
  <2> QED BY <1>3, <2>1 DEF InTree, EntryIn
<1>5. Fulfils(t, q.leaf, q.entry, EQ_OP, v)
  BY <1>0, <1>1, <1>4, MatchIs DEF Whole
<1>6. LiveAt(t, q.leaf, q.entry, <<v, id>>)
  BY <1>1, <1>5, SoughtIs
<1> QED BY <1>6, LiveIs DEF Whole

-----------------------------------------------------------------------------
(* The index files as named sets of pairs. *)

StoreEntries == [n \in {n \in Name : index[n] # Missing} |-> Live(index[n])]
StoreOpened == {am_index_table[fd].fileName : fd \in OpenFds}
StoreGot ==
  [code |-> IF res.code \in {AME_OK, AME_RECNOTFOUND} THEN res.code ELSE AME_OK,
   value |-> res.value, id |-> res.id]

Answered(code, v, id) == StoreGot' = [code |-> code, value |-> v, id |-> id]
StoreStays == UNCHANGED <<StoreEntries, StoreOpened, StoreGot>>
StoreStep == Store!Next \/ StoreStays

\* No pair is in a tree twice.
OnceEach == \A n \in Name : index[n] \notin {Missing, Headless} => PairsOnce(index[n])

\* What a deletion that is not over has found out: on its way to the left, that
\* its pair is not behind it; on its way to the right, that it is not there.
DeletionKnows ==
  call.at = "delete" =>
    /\ call.value \in Value /\ call.id \in RecId
    /\ call.direction = LEFT =>
         SoughtBefore(Tree(call.fd), call.pos, call.value, call.id)
    /\ call.direction = RIGHT => <<call.value, call.id>> \notin Live(Tree(call.fd))

SInv == TInv /\ OnceEach /\ DeletionKnows

\* What a step shows of itself.
Steps == OnceEach' /\ DeletionKnows' /\ StoreStep

-----------------------------------------------------------------------------
(* What is seen of a step in the store. *)

LEMMA SameEntriesSeen ==
  ASSUME index' = index
  PROVE  StoreEntries' = StoreEntries
BY DEF StoreEntries

LEMMA SameOpenedSeen ==
  ASSUME UNCHANGED tables
  PROVE  StoreOpened' = StoreOpened
BY DEF StoreOpened, OpenFds, tables

LEMMA SameGotSeen ==
  ASSUME res' = res
  PROVE  StoreGot' = StoreGot
BY DEF StoreGot

LEMMA NothingSeen ==
  ASSUME NEW code \in Int, Returns(code), code # AME_RECNOTFOUND
  PROVE  Answered(AME_OK, NoValue, NoId)
BY DEF Answered, StoreGot, Returns

LEMMA AnswerSeen ==
  ASSUME NEW code \in {AME_OK, AME_RECNOTFOUND}, NEW v, NEW id, Answers(code, v, id)
  PROVE  Answered(code, v, id)
BY DEF Answered, StoreGot, Answers

LEMMA IdSeen ==
  ASSUME NEW id, ReturnsId(id)
  PROVE  Answered(AME_OK, NoValue, id)
BY DEF Answered, StoreGot, ReturnsId

LEMMA OnceStays ==
  ASSUME OnceEach, index' = index
  PROVE  OnceEach'
BY DEF OnceEach

LEMMA NoDeletion ==
  ASSUME call'.at # "delete"
  PROVE  DeletionKnows'
BY DEF DeletionKnows

LEMMA OpenSeen ==
  ASSUME TInv, NEW fd \in OpenFds, NEW m, m = am_index_table[fd].fileName
  PROVE  /\ m \in Name /\ m \in StoreOpened /\ m \in DOMAIN StoreEntries
         /\ StoreEntries[m] = Live(Tree(fd))
         /\ index[m] \notin {Missing, Headless} /\ index[m] = Tree(fd)
<1>1. m \in Name /\ Tree(fd) = index[m]
  BY OpenTree
<1>2. index[m] \notin {Missing, Headless}
  BY <1>1 DEF TInv, OpenHave
<1> QED BY <1>1, <1>2 DEF StoreEntries, StoreOpened

LEMMA WriteSeen ==
  ASSUME TInv, OnceEach, UNCHANGED tables, NEW fd \in OpenFds, NEW u, Writes(fd, u),
         u \notin {Missing, Headless}, PairsOnce(u), NEW m, m = am_index_table[fd].fileName
  PROVE  /\ StoreEntries' = [StoreEntries EXCEPT ![m] = Live(u)]
         /\ StoreOpened' = StoreOpened /\ OnceEach'
<1>1. /\ index'[m] = u /\ \A n \in Name : n # m => index'[n] = index[n]
  BY WriteIs
<1>2. m \in Name /\ index[m] \notin {Missing, Headless}
  BY OpenSeen
<1>3. {n \in Name : index'[n] # Missing} = {n \in Name : index[n] # Missing}
  BY <1>1, <1>2
<1>4. \A n \in Name : n # m => Live(index'[n]) = Live(index[n])
  BY <1>1
<1>5. StoreEntries' = [n \in {n \in Name : index[n] # Missing} |-> Live(index'[n])]
  BY <1>3 DEF StoreEntries
<1>6. StoreEntries' = [StoreEntries EXCEPT ![m] = Live(u)]
  BY <1>1, <1>2, <1>4, <1>5 DEF StoreEntries
<1>7. OnceEach'
  BY <1>1 DEF OnceEach
<1> QED BY <1>6, <1>7, SameOpenedSeen

-----------------------------------------------------------------------------
(* The actions of the store. *)

LEMMA SeesNothing ==
  ASSUME StoreEntries' = StoreEntries, StoreOpened' = StoreOpened,
         Answered(AME_OK, NoValue, NoId)
  PROVE  StoreStep
BY DEF StoreStep, Store!Next, Store!NoAnswer, Store!Nothing, Store!Says, Answered,
       StoreEntries, StoreOpened, StoreGot

LEMMA SeesCreate ==
  ASSUME NEW n \in Name, n \notin DOMAIN StoreEntries, StoreOpened' = StoreOpened,
         StoreEntries' = [m \in DOMAIN StoreEntries \cup {n} |->
                            IF m = n THEN {} ELSE StoreEntries[m]],
         Answered(AME_OK, NoValue, NoId)
  PROVE  StoreStep
<1>1. Store!Create(n)
  BY DEF Store!Create, Store!Nothing, Store!Says, Answered,
         StoreEntries, StoreOpened, StoreGot
<1> QED BY <1>1 DEF StoreStep, Store!Next

LEMMA SeesDestroy ==
  ASSUME NEW n \in Name, n \in DOMAIN StoreEntries \ StoreOpened, StoreOpened' = StoreOpened,
         StoreEntries' = [m \in DOMAIN StoreEntries \ {n} |-> StoreEntries[m]],
         Answered(AME_OK, NoValue, NoId)
  PROVE  StoreStep
<1>1. Store!Destroy(n)
  BY DEF Store!Destroy, Store!Nothing, Store!Says, Answered,
         StoreEntries, StoreOpened, StoreGot
<1> QED BY <1>1 DEF StoreStep, Store!Next

LEMMA SeesOpen ==
  ASSUME NEW n \in Name, n \in DOMAIN StoreEntries \ StoreOpened,
         StoreOpened' = StoreOpened \cup {n}, StoreEntries' = StoreEntries,
         Answered(AME_OK, NoValue, NoId)
  PROVE  StoreStep
<1>1. Store!Open(n)
  BY DEF Store!Open, Store!Nothing, Store!Says, Answered,
         StoreEntries, StoreOpened, StoreGot
<1> QED BY <1>1 DEF StoreStep, Store!Next

LEMMA SeesClose ==
  ASSUME NEW n \in Name, n \in StoreOpened,
         StoreOpened' = StoreOpened \ {n}, StoreEntries' = StoreEntries,
         Answered(AME_OK, NoValue, NoId)
  PROVE  StoreStep
<1>1. Store!Close(n)
  BY DEF Store!Close, Store!Nothing, Store!Says, Answered,
         StoreEntries, StoreOpened, StoreGot
<1> QED BY <1>1 DEF StoreStep, Store!Next

LEMMA SeesInsert ==
  ASSUME NEW n \in Name, n \in StoreOpened, NEW v \in Value, NEW id \in RecId,
         <<v, id>> \notin StoreEntries[n], StoreOpened' = StoreOpened,
         StoreEntries' = [StoreEntries EXCEPT ![n] = StoreEntries[n] \cup {<<v, id>>}],
         Answered(AME_OK, NoValue, NoId)
  PROVE  StoreStep
<1>1. Store!Insert(n, v, id)
  BY DEF Store!Insert, Store!Nothing, Store!Says, Answered,
         StoreEntries, StoreOpened, StoreGot
<1> QED BY <1>1 DEF StoreStep, Store!Next

LEMMA SeesDelete ==
  ASSUME NEW n \in Name, n \in StoreOpened, NEW v \in Value, NEW id \in RecId,
         StoreOpened' = StoreOpened,
         \/ /\ <<v, id>> \in StoreEntries[n] /\ Answered(AME_OK, v, id)
            /\ StoreEntries' = [StoreEntries EXCEPT ![n] = StoreEntries[n] \ {<<v, id>>}]
         \/ /\ <<v, id>> \notin StoreEntries[n] /\ Answered(AME_RECNOTFOUND, v, id)
            /\ StoreEntries' = StoreEntries
  PROVE  StoreStep
<1>1. Store!Delete(n, v, id)
  BY DEF Store!Delete, Store!Says, Answered, StoreEntries, StoreOpened, StoreGot
<1> QED BY <1>1 DEF StoreStep, Store!Next

LEMMA SeesFind ==
  ASSUME NEW n \in Name, n \in StoreOpened, NEW v \in Value, NEW id \in RecId,
         <<v, id>> \in StoreEntries[n], Answered(AME_OK, NoValue, id),
         StoreEntries' = StoreEntries, StoreOpened' = StoreOpened
  PROVE  StoreStep
<1>1. Store!Find(n, v, id)
  BY DEF Store!Find, Store!Says, Answered, StoreEntries, StoreOpened, StoreGot
<1> QED BY <1>1 DEF StoreStep, Store!Next

-----------------------------------------------------------------------------
(* Calls that change no entry. *)

LEMMA AnswerCodes ==
  /\ AME_OK \in Int /\ AME_EOF \in Int /\ AME_FD \in Int /\ AME_PF_CREATE \in Int
  /\ AME_PF_OPEN \in Int /\ AME_FILE_DESTROY \in Int /\ AME_PF_CLOSE \in Int
  /\ AME_RECNOTFOUND \notin {AME_OK, AME_EOF, AME_FD, AME_PF_CREATE, AME_PF_OPEN,
                             AME_FILE_DESTROY, AME_PF_CLOSE}
  /\ AME_RECNOTFOUND \notin Nat
BY DEF AME_OK, AME_EOF, AME_FD, AME_PF_CREATE, AME_PF_OPEN, AME_FILE_DESTROY,
       AME_PF_CLOSE, AME_RECNOTFOUND

LEMMA RefusedSeen ==
  ASSUME SInv, NEW code \in Int, code # AME_RECNOTFOUND, Refuses(code)
  PROVE  Steps
<1>1. call' = None /\ index' = index /\ UNCHANGED tables /\ Returns(code)
  BY DEF Refuses, Idle
<1>2. call'.at # "delete"
  BY <1>1 DEF None
<1>3. OnceEach' /\ DeletionKnows'
  BY <1>1, <1>2, OnceStays, NoDeletion DEF SInv
<1>4. StoreStep
  BY <1>1, SameEntriesSeen, SameOpenedSeen, NothingSeen, SeesNothing
<1> QED BY <1>3, <1>4 DEF Steps

LEMMA IdleSteps ==
  ASSUME SInv, Idle, call' = call, index' = index
  PROVE  OnceEach' /\ DeletionKnows' /\ StoreEntries' = StoreEntries
<1>1. call'.at # "delete"
  BY DEF None, Idle
<1> QED BY <1>1, OnceStays, NoDeletion, SameEntriesSeen DEF SInv

LEMMA OpenIndexSeen ==
  ASSUME SInv, NEW n \in Name, AM_OpenIndex(n)
  PROVE  Steps
<1> DEFINE g == Max(Fd \ OpenFds)
           new == [valid |-> TRUE, scan_active |-> FALSE, fileName |-> n,
                   pf_fd |-> Min(FreePf)]
<1>1. g \in Fd \ OpenFds /\ g \in Fd
  <2>1. Fd \ OpenFds \in SUBSET Fd /\ Fd \ OpenFds # {}
    BY DEF OpenFds, AM_OpenIndex
  <2> QED BY <2>1, GreatestFree
<1>2. /\ index[n] \notin {Missing, Headless} /\ Idle /\ index' = index /\ call' = call
      /\ am_index_table' = [am_index_table EXCEPT ![g] = new]
      /\ ~AM_SearchTable(n) /\ Returns(g)
  BY DEF AM_OpenIndex, PF_OpenFile
<1>3. new.valid /\ new.fileName = n
  OBVIOUS
<1> HIDE DEF g, new
<1>4. DOMAIN am_index_table = Fd
  BY DEF SInv, TInv, AInv, Tables
<1>5. /\ am_index_table'[g] = new
      /\ \A f \in Fd : f # g => am_index_table'[f] = am_index_table[f]
  BY <1>1, <1>2, <1>4
<1>6. OpenFds' = OpenFds \cup {g}
  BY <1>1, <1>3, <1>5 DEF OpenFds
<1>7. \A f \in OpenFds : am_index_table'[f] = am_index_table[f]
  BY <1>1, <1>5 DEF OpenFds
<1>8. StoreOpened' = StoreOpened \cup {n}
  BY <1>3, <1>5, <1>6, <1>7 DEF StoreOpened
<1>9. n \in DOMAIN StoreEntries \ StoreOpened
  BY <1>2 DEF StoreEntries, StoreOpened, AM_SearchTable
<1>10. Answered(AME_OK, NoValue, NoId)
  <2>1. g \in Int /\ g # AME_RECNOTFOUND
    BY <1>1, AMAssumption DEF Fd, AME_RECNOTFOUND
  <2> QED BY <1>2, <2>1, NothingSeen
<1> QED BY <1>2, <1>8, <1>9, <1>10, IdleSteps, SeesOpen DEF Steps

LEMMA CloseIndexSeen ==
  ASSUME SInv, NEW fd \in Fd, AM_CloseIndex(fd)
  PROVE  Steps
<1>1. PICK n : n = am_index_table[fd].fileName
  OBVIOUS
<1>2. /\ Idle /\ index' = index /\ call' = call /\ fd \in OpenFds /\ Returns(AME_OK)
      /\ am_index_table' = [am_index_table EXCEPT ![fd].valid = FALSE]
  BY DEF AM_CloseIndex, PF_CloseFile
<1>3. /\ DOMAIN am_index_table = Fd
      /\ DOMAIN am_index_table[fd] = {"valid", "scan_active", "fileName", "pf_fd"}
  BY DEF SInv, TInv, AInv, Tables
<1>4. /\ ~am_index_table'[fd].valid
      /\ \A f \in Fd : f # fd => am_index_table'[f] = am_index_table[f]
  BY <1>2, <1>3
<1>5. OpenFds' = OpenFds \ {fd}
  BY <1>4 DEF OpenFds
<1>6. \A f \in OpenFds : f # fd => am_index_table'[f] = am_index_table[f]
  BY <1>4 DEF OpenFds
<1>7. \A f \in OpenFds : f # fd => am_index_table[f].fileName # n
  BY <1>1, <1>2 DEF SInv, TInv, AInv, NamesApart
<1>8. StoreOpened' = StoreOpened \ {n}
  BY <1>1, <1>2, <1>5, <1>6, <1>7 DEF StoreOpened
<1>9. n \in Name /\ n \in StoreOpened
  BY <1>1, <1>2, OpenSeen DEF SInv
<1>10. Answered(AME_OK, NoValue, NoId)
  BY <1>2, NothingSeen, AnswerCodes
<1> QED BY <1>2, <1>8, <1>9, <1>10, IdleSteps, SeesClose DEF Steps

LEMMA EmptyLive == Live(EmptyTree) = {} /\ PairsOnce(EmptyTree)
<1>1. ASSUME NEW o, NEW i
      PROVE  ~EntryIn(EmptyTree, o, i)
  <2>1. SUFFICES ASSUME IsLeaf(EmptyTree, o), i \in 1..Len(EmptyTree.page[o].rec) PROVE FALSE
    BY DEF EntryIn
  <2>2. o = 1 \/ o = 2
    BY <2>1 DEF IsLeaf, EmptyTree
  <2>3. CASE o = 1
    BY <2>1, <2>3 DEF IsLeaf, EmptyTree, LeafNode
  <2>4. CASE o = 2
    BY <2>1, <2>4 DEF EmptyTree
  <2> QED BY <2>2, <2>3, <2>4
<1>2. ASSUME NEW w, w \in Live(EmptyTree)
      PROVE  FALSE
  <2>1. PICK o, i : LiveAt(EmptyTree, o, i, w)
    BY <1>2, GoodEmpty, LiveIs DEF Whole
  <2> QED BY <1>1, <2>1 DEF LiveAt
<1> QED BY <1>1, <1>2 DEF PairsOnce, LiveAt

LEMMA CreateSeen ==
  ASSUME SInv, NEW n \in Name, AM_CreateIndex(n)
  PROVE  Steps
<1>1. /\ Idle /\ call' = call /\ UNCHANGED tables /\ index[n] = Missing /\ Returns(AME_OK)
      /\ index' = [index EXCEPT ![n] = EmptyTree]
  BY DEF AM_CreateIndex
<1>2. index'[n] = EmptyTree /\ \A m \in Name : m # n => index'[m] = index[m]
  BY <1>1 DEF SInv, TInv
<1>3. EmptyTree # Missing
  BY GoodEmpty, GoodThere DEF Whole
<1>4. {m \in Name : index'[m] # Missing} = {m \in Name : index[m] # Missing} \cup {n}
  BY <1>2, <1>3
<1>5. \A m \in Name : m # n => Live(index'[m]) = Live(index[m])
  BY <1>2
<1>6. Live(index'[n]) = {}
  BY <1>2, EmptyLive
<1>7. StoreEntries' = [m \in DOMAIN StoreEntries \cup {n} |->
                         IF m = n THEN {} ELSE StoreEntries[m]]
  BY <1>4, <1>5, <1>6 DEF StoreEntries
<1>8. n \notin DOMAIN StoreEntries
  BY <1>1 DEF StoreEntries
<1>9. OnceEach'
  BY <1>2, EmptyLive DEF SInv, OnceEach
<1>10. DeletionKnows'
  BY <1>1, NoDeletion DEF Idle, None
<1>11. Answered(AME_OK, NoValue, NoId)
  BY <1>1, NothingSeen, AnswerCodes
<1> QED BY <1>1, <1>7, <1>8, <1>9, <1>10, <1>11, SameOpenedSeen, SeesCreate DEF Steps

LEMMA DestroySeen ==
  ASSUME SInv, NEW n \in Name, AM_DestroyIndex(n)
  PROVE  Steps
<1>1. /\ Idle /\ call' = call /\ UNCHANGED tables /\ index[n] # Missing /\ Returns(AME_OK)
      /\ index' = [index EXCEPT ![n] = Missing] /\ ~PF_SearchTable(n)
  BY DEF AM_DestroyIndex
<1>2. index'[n] = Missing /\ \A m \in Name : m # n => index'[m] = index[m]
  BY <1>1 DEF SInv, TInv
<1>3. {m \in Name : index'[m] # Missing} = {m \in Name : index[m] # Missing} \ {n}
  BY <1>2
<1>4. \A m \in Name : m # n => Live(index'[m]) = Live(index[m])
  BY <1>2
<1>5. StoreEntries' = [m \in DOMAIN StoreEntries \ {n} |-> StoreEntries[m]]
  BY <1>3, <1>4 DEF StoreEntries
<1>6. n \in DOMAIN StoreEntries \ StoreOpened
  <2>1. \A fd \in OpenFds : am_index_table[fd].fileName # n
    BY <1>1 DEF PF_SearchTable, SInv, TInv, AInv, EntryOwnsFile, Usable, OpenNamed
  <2> QED BY <1>1, <2>1 DEF StoreEntries, StoreOpened
<1>7. OnceEach'
  BY <1>2 DEF SInv, OnceEach
<1>8. DeletionKnows'
  BY <1>1, NoDeletion DEF Idle, None
<1>9. Answered(AME_OK, NoValue, NoId)
  BY <1>1, NothingSeen, AnswerCodes
<1> QED BY <1>1, <1>5, <1>6, <1>7, <1>8, <1>9, SameOpenedSeen, SeesDestroy DEF Steps

\* The descriptor stays open, and under its name.
LEMMA ScanFlagSeen ==
  ASSUME SInv, NEW fd \in Fd, NEW b \in BOOLEAN,
         am_index_table' = [am_index_table EXCEPT ![fd].scan_active = b]
  PROVE  StoreOpened' = StoreOpened
<1>1. /\ DOMAIN am_index_table = Fd
      /\ DOMAIN am_index_table[fd] = {"valid", "scan_active", "fileName", "pf_fd"}
  BY DEF SInv, TInv, AInv, Tables
<1>2. \A f \in Fd : /\ am_index_table'[f].fileName = am_index_table[f].fileName
                    /\ am_index_table'[f].valid = am_index_table[f].valid
  BY <1>1
<1>3. OpenFds' = OpenFds
  BY <1>2 DEF OpenFds
<1> QED BY <1>2, <1>3 DEF StoreOpened, OpenFds

LEMMA OpenScanSeen ==
  ASSUME SInv, NEW fd \in Fd, NEW op, NEW v, AM_OpenIndexScan(fd, op, v)
  PROVE  Steps
<1>1. PICK s : s = Max(FreeScans)
  OBVIOUS
<1>2. s \in Int /\ s # AME_RECNOTFOUND
  <2>1. FreeScans \in SUBSET Fd /\ FreeScans # {}
    BY DEF FreeScans, AM_OpenIndexScan
  <2>2. s \in Fd
    BY <1>1, <2>1, GreatestFree
  <2> QED BY <2>2, AMAssumption DEF Fd, AME_RECNOTFOUND
<1>3. /\ Idle /\ index' = index /\ call' = call /\ Returns(s)
      /\ am_index_table' = [am_index_table EXCEPT ![fd].scan_active = TRUE]
  BY <1>1 DEF AM_OpenIndexScan
<1> QED BY <1>2, <1>3, IdleSteps, ScanFlagSeen, NothingSeen, SeesNothing DEF Steps

LEMMA CloseScanSeen ==
  ASSUME SInv, NEW sd \in OpenScans, AM_CloseIndexScan(sd)
  PROVE  Steps
<1>1. PICK fd : fd = am_scan_table[sd].fileDesc
  OBVIOUS
<1>2. fd \in Fd
  BY <1>1 DEF SInv, TInv, AInv, EntryOwnsFile, Readable, Usable, OpenFds
<1>3. /\ Idle /\ index' = index /\ call' = call /\ Returns(AME_OK)
      /\ am_index_table' = [am_index_table EXCEPT ![fd].scan_active = FALSE]
  BY <1>1 DEF AM_CloseIndexScan
<1> QED BY <1>2, <1>3, IdleSteps, ScanFlagSeen, NothingSeen, SeesNothing, AnswerCodes DEF Steps

LEMMA FileSeen ==
  ASSUME SInv, NEW n \in Name, AFile(n)
  PROVE  Steps
<1>1. CASE AM_OpenIndex(n)
  BY <1>1, OpenIndexSeen
<1>2. CASE CreateRefused(n) \/ DestroyRefused(n) \/ OpenRefused(n)
  BY <1>2, RefusedSeen, AnswerCodes DEF CreateRefused, DestroyRefused, OpenRefused
<1> QED BY <1>1, <1>2, CreateSeen, DestroySeen DEF AFile

LEMMA CloseSeen ==
  ASSUME SInv, NEW fd \in Fd, AClose(fd)
  PROVE  Steps
<1>1. CASE CloseRefused(fd)
  BY <1>1, RefusedSeen, AnswerCodes DEF CloseRefused
<1> QED BY <1>1, CloseIndexSeen DEF AClose

-----------------------------------------------------------------------------
(* An insertion adds its pair; the climb of its key changes no pair. *)

LEMMA InsertedSeen ==
  ASSUME SInv, NEW fd \in OpenFds, UNCHANGED tables, NEW u, Writes(fd, u), PairsOnce(u),
         u \notin {Missing, Headless}, NEW v \in Value, NEW id \in RecId,
         <<v, id>> \notin Live(Tree(fd)), Live(u) = Live(Tree(fd)) \cup {<<v, id>>},
         Returns(AME_OK), call'.at # "delete"
  PROVE  Steps
<1>1. PICK m : m = am_index_table[fd].fileName
  OBVIOUS
<1>2. /\ StoreEntries' = [StoreEntries EXCEPT ![m] = Live(u)]
      /\ StoreOpened' = StoreOpened /\ OnceEach'
  BY <1>1, WriteSeen DEF SInv
<1>3. m \in Name /\ m \in StoreOpened /\ StoreEntries[m] = Live(Tree(fd))
  BY <1>1, OpenSeen DEF SInv
<1>4. Answered(AME_OK, NoValue, NoId)
  BY NothingSeen, AnswerCodes
<1>5. StoreStep
  <2>1. StoreEntries' = [StoreEntries EXCEPT ![m] = StoreEntries[m] \cup {<<v, id>>}]
    BY <1>2, <1>3
  <2>2. <<v, id>> \notin StoreEntries[m]
    BY <1>3
  <2> QED BY <1>2, <1>3, <1>4, <2>1, <2>2, SeesInsert
<1> QED BY <1>2, <1>5, NoDeletion DEF Steps

LEMMA PlaceSeen ==
  ASSUME Fits, SInv, NEW fd \in OpenFds, NEW v \in Value, NEW id \in RecId,
         Copies(Tree(fd), v) < MaxCopies, <<v, id>> \notin Live(Tree(fd)),
         AM_InsertEntry(fd, v, id)
  PROVE  Steps
<1>1. PICK t : t = Tree(fd)
  OBVIOUS
<1>2. PICK u : u = PlaceInLeaf(t, AM_SearchLeaf(t, v), NewRec(v, id))
  OBVIOUS
<1>3. /\ Idle /\ UNCHANGED <<tables, call>> /\ Writes(fd, u) /\ Returns(AME_OK)
      /\ Len(t.page[AM_SearchLeaf(t, v)].rec) < FANOUT
  BY <1>1, <1>2 DEF AM_InsertEntry
<1>4. call.at # "climb" /\ call'.at # "delete"
  BY <1>3, IdleCall DEF Idle
<1>5. Whole(t)
  BY <1>1, <1>4, OpenTree DEF SInv
<1>6. PairsOnce(t) /\ Copies(t, v) < MaxCopies /\ <<v, id>> \notin Live(t)
  BY <1>1, OpenSeen DEF SInv, OnceEach
<1>7. Whole(u)
  BY <1>2, <1>3, <1>5, <1>6, GoodPlace
<1>8. Live(u) = Live(t) \cup {<<v, id>>} /\ PairsOnce(u)
  BY <1>2, <1>3, <1>5, <1>6, PlaceLive
<1>9. u \notin {Missing, Headless}
  BY <1>7, GoodThere DEF Whole
<1> QED BY <1>1, <1>3, <1>4, <1>6, <1>8, <1>9, InsertedSeen

LEMMA SplitSeen ==
  ASSUME Fits, SInv, NEW fd \in OpenFds, NEW v \in Value, NEW id \in RecId,
         Copies(Tree(fd), v) < MaxCopies, <<v, id>> \notin Live(Tree(fd)),
         InsertSplit(fd, v, id)
  PROVE  Steps
<1>1. PICK t : t = Tree(fd)
  OBVIOUS
<1>2. PICK s : s = SplitLeaf(t, AM_SearchLeaf(t, v), NewRec(v, id))
  OBVIOUS
<1>3. /\ Idle /\ UNCHANGED tables /\ Writes(fd, s.tree) /\ Returns(AME_OK)
      /\ Len(t.page[AM_SearchLeaf(t, v)].rec) = FANOUT
      /\ call'.at = "climb"
  BY <1>1, <1>2 DEF InsertSplit
<1>4. call.at # "climb" /\ call'.at # "delete"
  BY <1>3, IdleCall DEF Idle
<1>5. Whole(t)
  BY <1>1, <1>4, OpenTree DEF SInv
<1>6. PairsOnce(t) /\ Copies(t, v) < MaxCopies /\ <<v, id>> \notin Live(t)
  BY <1>1, OpenSeen DEF SInv, OnceEach
<1>7. Good(s.tree, AM_SearchLeaf(t, v), Len(t.page) + 1, s.key)
  BY <1>2, <1>3, <1>5, <1>6, GoodSplit
<1>8. Live(s.tree) = Live(t) \cup {<<v, id>>} /\ PairsOnce(s.tree)
  BY <1>2, <1>3, <1>5, <1>6, SplitLive
<1>9. s.tree \notin {Missing, Headless}
  BY <1>7, GoodThere
<1> QED BY <1>1, <1>3, <1>4, <1>6, <1>8, <1>9, InsertedSeen

LEMMA InsertSeen ==
  ASSUME Fits, SInv, NEW fd \in Fd, AInsert(fd)
  PROVE  Steps
<1>1. PICK v \in (IF Loaded THEN bound.values ELSE {Head(todo)}), id \in bound.ids :
        /\ Copies(Tree(fd), v) < MaxCopies /\ <<v, id>> \notin Live(Tree(fd))
        /\ AM_InsertEntry(fd, v, id) \/ InsertSplit(fd, v, id)
  BY DEF AInsert
<1>2. fd \in OpenFds
  BY DEF AInsert, Usable
<1>3. bound \in Bounds /\ todo \in Seq(Value)
  BY DEF SInv, TInv
<1>4. id \in RecId /\ bound.values \subseteq Value
  BY <1>3, BoundsAssumption
<1>5. v \in Value
  BY <1>1, <1>3, <1>4 DEF Loaded
<1> QED BY <1>1, <1>2, <1>4, <1>5, PlaceSeen, SplitSeen

LEMMA ClimbedSeen ==
  ASSUME SInv, NEW fd \in OpenFds, UNCHANGED <<tables, res>>, NEW u, Writes(fd, u),
         u \notin {Missing, Headless}, Live(u) = Live(Tree(fd)),
         PairsOnce(Tree(fd)) => PairsOnce(u), call'.at # "delete"
  PROVE  Steps
<1>1. PICK m : m = am_index_table[fd].fileName
  OBVIOUS
<1>2. /\ m \in Name /\ m \in DOMAIN StoreEntries /\ StoreEntries[m] = Live(Tree(fd))
      /\ PairsOnce(Tree(fd))
  BY <1>1, OpenSeen DEF SInv, OnceEach
<1>3. /\ StoreEntries' = [StoreEntries EXCEPT ![m] = Live(u)]
      /\ StoreOpened' = StoreOpened /\ OnceEach'
  BY <1>1, <1>2, WriteSeen DEF SInv
<1>4. StoreEntries' = StoreEntries
  BY <1>2, <1>3 DEF StoreEntries
<1>5. StoreStays
  BY <1>3, <1>4, SameGotSeen DEF StoreStays
<1> QED BY <1>3, <1>5, NoDeletion DEF Steps, StoreStep

LEMMA ClimbSeen ==
  ASSUME SInv, ClimbNewRoot \/ ClimbPlace \/ ClimbSplit
  PROVE  Steps
<1>1. call.at = "climb" /\ UNCHANGED <<tables, res>>
  BY DEF ClimbNewRoot, ClimbPlace, ClimbSplit
<1>2. PICK t, fd, o, key, old, after :
        /\ t = Tree(call.fd) /\ fd = call.fd /\ o = call.offset /\ key = call.key
        /\ old = call.old /\ after = call.after
  OBVIOUS
<1>3. /\ Good(t, old, after, key) /\ fd \in OpenFds /\ key \in Value
      /\ after # NoNode /\ o = t.page[old].parent
  BY <1>1, <1>2, ClimbTree DEF SInv
<1>4. CASE ClimbNewRoot
  <2>1. PICK u : u = NewRoot(t, key, old, after)
    OBVIOUS
  <2>2. o = NoNode /\ Writes(fd, u) /\ call' = None
    BY <1>2, <1>4, <2>1 DEF ClimbNewRoot
  <2>3. Live(u) = Live(t) /\ (PairsOnce(t) => PairsOnce(u))
    <3>1. t.page[old].parent = NoNode
      BY <1>3, <2>2
    <3> QED BY <1>3, <2>1, <3>1, NewRootLive
  <2>4. u \notin {Missing, Headless}
    BY <1>3, <2>1, <2>2, GoodNewRoot, GoodThere DEF Whole
  <2>5. call'.at # "delete"
    BY <2>2 DEF None
  <2> QED BY <1>1, <1>2, <1>3, <2>2, <2>3, <2>4, <2>5, ClimbedSeen
<1>5. CASE ClimbPlace
  <2>1. PICK u : u = [t EXCEPT !.page[o] = AM_InsertKeyToIndexNoSplit(@, key, after)]
    OBVIOUS
  <2>2. /\ o # NoNode /\ Len(t.page[o].child) < FANOUT /\ Writes(fd, u)
        /\ call' = None
    BY <1>2, <1>5, <2>1 DEF ClimbPlace
  <2>3. Live(u) = Live(t) /\ (PairsOnce(t) => PairsOnce(u))
    BY <1>3, <2>1, <2>2, PlaceKeyLive
  <2>4. u \notin {Missing, Headless}
    BY <1>3, <2>1, <2>2, GoodPlaceKey, GoodThere DEF Whole
  <2>5. call'.at # "delete"
    BY <2>2 DEF None
  <2> QED BY <1>1, <1>2, <1>3, <2>2, <2>3, <2>4, <2>5, ClimbedSeen
<1>6. CASE ClimbSplit
  <2>1. PICK s : s = SplitInternal(t, o, key, after)
    OBVIOUS
  <2>2. /\ o # NoNode /\ Len(t.page[o].child) = FANOUT /\ Writes(fd, s.tree)
        /\ call' = [call EXCEPT !.offset = t.page[o].parent, !.key = s.key,
                                !.old = o, !.after = Len(t.page) + 1]
    BY <1>2, <1>6, <2>1 DEF ClimbSplit
  <2>3. Live(s.tree) = Live(t) /\ (PairsOnce(t) => PairsOnce(s.tree))
    BY <1>3, <2>1, <2>2, SplitInternalLive
  <2>4. s.tree \notin {Missing, Headless}
    BY <1>3, <2>1, <2>2, GoodSplitInternal, GoodThere
  <2>5. call'.at # "delete"
    <3>1. call'.at = call.at
      BY <2>2, <1>1, ClimbTree DEF SInv
    <3> QED BY <1>1, <3>1
  <2> QED BY <1>1, <1>2, <1>3, <2>2, <2>3, <2>4, <2>5, ClimbedSeen
<1> QED BY <1>4, <1>5, <1>6

-----------------------------------------------------------------------------
(* A deletion takes out its pair, or says that it is not there. *)

LEMMA MarkedSeen ==
  ASSUME SInv, NEW fd \in OpenFds, call.at # "climb", NEW pos, NEW v \in Value, NEW id \in RecId,
         LiveAt(Tree(fd), pos.leaf, pos.entry, <<v, id>>), InTree(Tree(fd), pos),
         Marks(fd, pos, v, id)
  PROVE  Steps
<1>1. PICK t, u : t = Tree(fd) /\ u = AM_MarkDeleted(t, pos)
  OBVIOUS
<1>2. PICK m : m = am_index_table[fd].fileName
  OBVIOUS
<1>3. Writes(fd, u) /\ call' = None /\ UNCHANGED tables /\ Answers(AME_OK, v, id)
  BY <1>1 DEF Marks
<1>4. Whole(t)
  BY <1>1, OpenTree DEF SInv
<1>5. /\ PairsOnce(t) /\ m \in Name /\ m \in StoreOpened /\ StoreEntries[m] = Live(t)
  BY <1>1, <1>2, OpenSeen DEF SInv, OnceEach
<1>6. Live(u) = Live(t) \ {<<v, id>>} /\ PairsOnce(u)
  BY <1>1, <1>4, <1>5, MarkLive DEF Whole
<1>7. <<v, id>> \in Live(t)
  BY <1>1, <1>4, LiveIs DEF Whole
<1>8. u \notin {Missing, Headless}
  <2>1. pos.entry # 0 /\ InTree(t, pos)
    BY <1>1 DEF LiveAt, EntryIn
  <2> QED BY <1>1, <1>4, <2>1, GoodMark, GoodThere DEF Whole
<1>9. /\ StoreEntries' = [StoreEntries EXCEPT ![m] = Live(u)]
      /\ StoreOpened' = StoreOpened /\ OnceEach'
  BY <1>2, <1>3, <1>6, <1>8, WriteSeen DEF SInv
<1>10. Answered(AME_OK, v, id)
  BY <1>3, AnswerSeen
<1>11. StoreStep
  <2>1. StoreEntries' = [StoreEntries EXCEPT ![m] = StoreEntries[m] \ {<<v, id>>}]
    BY <1>5, <1>6, <1>9
  <2>2. <<v, id>> \in StoreEntries[m]
    BY <1>5, <1>7
  <2>3. m \in Name /\ m \in StoreOpened /\ StoreOpened' = StoreOpened
    BY <1>5, <1>9
  <2>4. /\ <<v, id>> \in StoreEntries[m] /\ Answered(AME_OK, v, id)
        /\ StoreEntries' = [StoreEntries EXCEPT ![m] = StoreEntries[m] \ {<<v, id>>}]
    BY <1>10, <2>1, <2>2
  <2> QED BY <2>3, <2>4, SeesDelete
<1>12. DeletionKnows'
  BY <1>3, NoDeletion DEF None
<1> QED BY <1>9, <1>11, <1>12 DEF Steps

LEMMA NotFoundSeen ==
  ASSUME SInv, NEW fd \in OpenFds, NEW v \in Value, NEW id \in RecId,
         <<v, id>> \notin Live(Tree(fd)), NotFound(v, id)
  PROVE  Steps
<1>1. PICK m : m = am_index_table[fd].fileName
  OBVIOUS
<1>2. /\ Answers(AME_RECNOTFOUND, v, id) /\ call' = None /\ index' = index
      /\ UNCHANGED tables
  BY DEF NotFound
<1>3. m \in Name /\ m \in StoreOpened /\ StoreEntries[m] = Live(Tree(fd))
  BY <1>1, OpenSeen DEF SInv
<1>4. Answered(AME_RECNOTFOUND, v, id)
  BY <1>2, AnswerSeen
<1>5. StoreStep
  <2>1. <<v, id>> \notin StoreEntries[m]
    BY <1>3
  <2> QED BY <1>2, <1>3, <1>4, <2>1, SameEntriesSeen, SameOpenedSeen, SeesDelete
<1>6. OnceEach' /\ DeletionKnows'
  BY <1>2, OnceStays, NoDeletion DEF SInv, None
<1> QED BY <1>5, <1>6 DEF Steps

LEMMA WalksSeen ==
  ASSUME SInv, UNCHANGED <<index, tables, res>>, DeletionKnows'
  PROVE  Steps
BY OnceStays, SameEntriesSeen, SameOpenedSeen, SameGotSeen DEF SInv, Steps, StoreStep, StoreStays

LEMMA DeleteEntrySeen ==
  ASSUME Fits, SInv, NEW fd \in Fd, NEW v \in Value, NEW id \in RecId, ADelete(fd, v, id)
  PROVE  Steps
<1>1. PICK t : t = Tree(fd)
  OBVIOUS
<1>2. PICK pos : pos = AM_GetFirstEntry(t, EQ_OP, v)
  OBVIOUS
<1>3. fd \in OpenFds /\ Idle /\ AM_DeleteEntry(fd, v, id)
  BY DEF ADelete, Usable, AM_DeleteEntry
<1>4. call.at # "climb"
  BY <1>3, IdleCall DEF Idle
<1>5. Whole(t)
  BY <1>1, <1>3, <1>4, OpenTree DEF SInv
<1>6. InTree(t, pos)
  BY <1>2, <1>5, GoodFirst DEF Whole
<1>7. CASE pos.entry = Start
  <2>1. NotFound(v, id)
    BY <1>1, <1>2, <1>3, <1>7 DEF AM_DeleteEntry
  <2>2. <<v, id>> \notin Live(t)
    BY <1>2, <1>5, <1>7, DeleteFirst
  <2> QED BY <1>1, <1>3, <2>1, <2>2, NotFoundSeen
<1>8. CASE pos.entry # Start /\ Sought(t, pos, id)
  <2>1. Marks(fd, pos, v, id)
    BY <1>1, <1>2, <1>3, <1>8 DEF AM_DeleteEntry
  <2>2. LiveAt(t, pos.leaf, pos.entry, <<v, id>>)
    BY <1>2, <1>5, <1>8, DeleteFirst
  <2> QED BY <1>1, <1>3, <1>4, <1>6, <2>1, <2>2, MarkedSeen
<1>9. CASE pos.entry # Start /\ ~Sought(t, pos, id)
  <2>1. /\ call' = [at |-> "delete", fd |-> fd, value |-> v, id |-> id,
                    pos |-> pos, direction |-> LEFT]
        /\ UNCHANGED <<index, tables, res>>
    BY <1>1, <1>2, <1>3, <1>9 DEF AM_DeleteEntry
  <2>2. SoughtBefore(t, pos, v, id)
    BY <1>2, <1>5, <1>9, DeleteFirst
  <2>3. Tree(fd)' = t
    BY <1>1, <2>1 DEF Tree, tables
  <2>4. /\ call'.at = "delete" /\ call'.fd = fd /\ call'.value = v /\ call'.id = id
        /\ call'.pos = pos /\ call'.direction = LEFT
    BY <2>1
  <2>5. DeletionKnows'
    BY <2>2, <2>3, <2>4 DEF DeletionKnows, LEFT, RIGHT
  <2> QED BY <2>1, <2>5, WalksSeen
<1> QED BY <1>7, <1>8, <1>9

LEMMA DeleteNextSeen ==
  ASSUME Fits, SInv, DeleteNext
  PROVE  Steps
<1>1. call.at = "delete" /\ call.at # "climb" /\ DeleteOK
  BY DEF DeleteNext, SInv, TInv, CallOK
<1>2. PICK fd, t, v, id, d :
        fd = call.fd /\ t = Tree(fd) /\ v = call.value /\ id = call.id /\ d = call.direction
  OBVIOUS
<1>3. PICK p, q : p = call.pos /\ q = Neighbour(t, d, p)
  OBVIOUS
<1>4. fd \in OpenFds /\ d \in {LEFT, RIGHT} /\ p \in PosType /\ PosIn(t, p)
  BY <1>1, <1>2, <1>3 DEF DeleteOK
<1>5. Whole(t)
  BY <1>1, <1>2, <1>4, OpenTree DEF SInv
<1>6. /\ v \in Value /\ id \in RecId
      /\ d = LEFT => SoughtBefore(t, p, v, id)
      /\ d = RIGHT => <<v, id>> \notin Live(t)
  BY <1>1, <1>2, <1>3 DEF SInv, DeletionKnows
<1>7. q.leaf = NoNode \/ InTree(t, q)
  BY <1>3, <1>4, <1>5, GoodNeighbour DEF Whole, PosIn
<1>8. PICK m \in BOOLEAN : m <=> Matches(t, q, EQ_OP, v)
  OBVIOUS
<1>9. IF m /\ Sought(t, q, id) THEN Marks(fd, q, v, id)
      ELSE IF ~m /\ d = RIGHT THEN NotFound(v, id)
      ELSE /\ call' = [call EXCEPT !.pos = q, !.direction = IF m THEN d ELSE RIGHT]
           /\ UNCHANGED <<index, tables, res>>
  BY <1>2, <1>3, <1>8 DEF DeleteNext
<1>10. CASE m /\ Sought(t, q, id)
  <2>1. d = LEFT
    BY <1>3, <1>4, <1>5, <1>6, <1>8, <1>10, DeleteRight
  <2>2. LiveAt(t, q.leaf, q.entry, <<v, id>>)
    BY <1>3, <1>5, <1>6, <1>8, <1>10, <2>1, DeleteLeft
  <2>3. InTree(t, q)
    BY <1>7, <1>8, <1>10 DEF Matches
  <2>4. Marks(fd, q, v, id)
    BY <1>9, <1>10
  <2> QED BY <1>1, <1>2, <1>4, <1>6, <2>2, <2>3, <2>4, MarkedSeen
<1>11. CASE ~(m /\ Sought(t, q, id)) /\ ~m /\ d = RIGHT
  BY <1>2, <1>4, <1>6, <1>9, <1>11, NotFoundSeen
<1>12. CASE ~(m /\ Sought(t, q, id)) /\ ~(~m /\ d = RIGHT)
  <2>1. PICK e : e = IF m THEN d ELSE RIGHT
    OBVIOUS
  <2>2. call' = [call EXCEPT !.pos = q, !.direction = e] /\ UNCHANGED <<index, tables, res>>
    BY <1>9, <1>12, <2>1
  <2>3. DOMAIN call = {"at", "fd", "value", "id", "pos", "direction"}
    BY <1>1 DEF DeleteOK
  <2>4. /\ call'.fd = fd /\ call'.value = v /\ call'.id = id
        /\ call'.pos = q /\ call'.direction = e
    BY <1>2, <2>2, <2>3
  <2>5. Tree(fd)' = t
    BY <1>2, <2>2 DEF Tree, tables
  <2>6. e = LEFT => SoughtBefore(t, q, v, id)
    <3>1. SUFFICES ASSUME e = LEFT PROVE SoughtBefore(t, q, v, id)
      OBVIOUS
    <3>2. m /\ d = LEFT
      BY <2>1, <3>1 DEF LEFT, RIGHT
    <3> QED BY <1>3, <1>5, <1>6, <1>8, <1>12, <3>2, DeleteLeft
  <2>7. e = RIGHT => <<v, id>> \notin Live(t)
    <3>1. SUFFICES ASSUME e = RIGHT, d = LEFT PROVE <<v, id>> \notin Live(t)
      BY <1>4, <1>6
    <3>2. ~m
      BY <2>1, <3>1 DEF LEFT, RIGHT
    <3> QED BY <1>3, <1>5, <1>6, <1>8, <3>1, <3>2, DeleteLeft
  <2>8. DeletionKnows'
    BY <1>6, <2>4, <2>5, <2>6, <2>7 DEF DeletionKnows
  <2> QED BY <2>2, <2>8, WalksSeen
<1> QED BY <1>8, <1>10, <1>11, <1>12

-----------------------------------------------------------------------------
(* A scan hands out ids of pairs that are there. *)

LEMMA ScanSteps ==
  ASSUME SInv, UNCHANGED <<index, am_index_table>>, call'.at # "delete"
  PROVE  /\ OnceEach' /\ DeletionKnows'
         /\ StoreEntries' = StoreEntries /\ StoreOpened' = StoreOpened
BY OnceStays, NoDeletion, SameEntriesSeen DEF SInv, StoreOpened, OpenFds

LEMMA AgainSeen ==
  ASSUME SInv, UNCHANGED <<index, am_index_table>>, NEW sd, Again(sd)
  PROVE  Steps
<1>1. call'.at # "delete" /\ res' = res
  BY DEF Again
<1> QED BY <1>1, ScanSteps, SameGotSeen DEF Steps, StoreStep, StoreStays

LEMMA EndSeen ==
  ASSUME SInv, UNCHANGED <<index, am_index_table>>, Returns(AME_EOF), call' = None
  PROVE  Steps
<1>1. call'.at # "delete"
  BY DEF None
<1>2. Answered(AME_OK, NoValue, NoId)
  BY NothingSeen, AnswerCodes
<1> QED BY <1>1, <1>2, ScanSteps, SeesNothing DEF Steps

LEMMA HandsOutSeen ==
  ASSUME SInv, UNCHANGED <<index, am_index_table>>, NEW fd \in OpenFds, NEW t, t = Tree(fd),
         Whole(t), NEW pos, EntryIn(t, pos.leaf, pos.entry), NEW sd,
         HandsOut(sd, EntryAt(t, pos))
  PROVE  Steps
<1>1. PICK r : r = t.page[pos.leaf].rec[pos.entry]
  OBVIOUS
<1>2. HandsOut(sd, r)
  BY <1>1 DEF EntryAt
<1>3. CASE r.deleted
  BY <1>2, <1>3, AgainSeen DEF HandsOut
<1>4. CASE ~r.deleted
  <2>1. ReturnsId(r.recId) /\ call' = None
    BY <1>2, <1>4 DEF HandsOut
  <2>2. LiveAt(t, pos.leaf, pos.entry, <<r.value, r.recId>>)
    BY <1>1, <1>4 DEF LiveAt, PairOf
  <2>3. <<r.value, r.recId>> \in Live(t)
    BY <2>2, LiveIs DEF Whole
  <2>4. r.value \in Value /\ r.recId \in RecId
    <3>1. r \in Rec
      BY <1>1, EntryRec DEF Whole
    <3> QED BY <3>1 DEF Rec
  <2>5. PICK v, id : v = r.value /\ id = r.recId
    OBVIOUS
  <2>6. PICK m : m = am_index_table[fd].fileName
    OBVIOUS
  <2>7. m \in Name /\ m \in StoreOpened /\ StoreEntries[m] = Live(t)
    BY <2>6, OpenSeen DEF SInv
  <2>8. Answered(AME_OK, NoValue, id)
    BY <2>1, <2>5, IdSeen
  <2>9. <<v, id>> \in StoreEntries[m] /\ v \in Value /\ id \in RecId
    BY <2>3, <2>4, <2>5, <2>7
  <2>10. /\ OnceEach' /\ DeletionKnows'
         /\ StoreEntries' = StoreEntries /\ StoreOpened' = StoreOpened
    BY <2>1, ScanSteps DEF None
  <2>11. StoreStep
    BY <2>7, <2>8, <2>9, <2>10, SeesFind
  <2> QED BY <2>10, <2>11 DEF Steps
<1> QED BY <1>3, <1>4

LEMMA ActivationSeen ==
  ASSUME SInv, NEW sd \in OpenScans, Activation(sd), call.at # "climb"
  PROVE  Steps
<1>1. PICK scan : scan = am_scan_table[sd]
  OBVIOUS
<1>2. PICK fd, t : fd = scan.fileDesc /\ t = Tree(fd)
  OBVIOUS
<1>3. fd \in OpenFds /\ sd \in Fd
  BY <1>1, <1>2 DEF SInv, TInv, AInv, EntryOwnsFile, Readable, Usable, OpenScans
<1>4. Whole(t) /\ t = ScanTree(sd)
  BY <1>1, <1>2, <1>3, OpenTree DEF SInv, ScanTree
<1>5. ScanTyped(scan) /\ ScanIn(t, scan)
  BY <1>1, <1>3, <1>4 DEF SInv, TInv, ScansIn
<1>6. UNCHANGED <<index, am_index_table>>
  BY DEF Activation
<1>7. ASSUME NEW q, InTree(t, q), q.entry # 0
      PROVE  EntryIn(t, q.leaf, q.entry)
  <2>1. Len(t.page[q.leaf].rec) \in Nat
    BY <1>4, <1>7, LeafEntries, TreeAssumption DEF InTree, Whole
  <2> QED BY <1>7, <2>1 DEF InTree, EntryIn
<1>8. ASSUME NEW d \in {LEFT, RIGHT}, scan.direction # NOTDEFINED,
             NEW q, q = Neighbour(t, d, scan.pos), NEW v, NEW op, Matches(t, q, op, v)
      PROVE  EntryIn(t, q.leaf, q.entry)
  <2>1. scan.pos \in PosType /\ PosIn(t, scan.pos)
    BY <1>5, <1>8 DEF ScanTyped, ScanIn
  <2>2. q.leaf = NoNode \/ (InTree(t, q) /\ q.entry # 0)
    BY <1>4, <1>8, <2>1, GoodNeighbour DEF Whole, PosIn
  <2> QED BY <1>7, <1>8, <2>2 DEF Matches
<1>9. CASE FindFirst(sd)
  <2>1. PICK pos : pos = AM_GetFirstEntry(t, scan.op, scan.value)
    OBVIOUS
  <2>2. IF pos.entry = Start THEN Again(sd) ELSE HandsOut(sd, EntryAt(t, pos))
    BY <1>1, <1>4, <1>9, <2>1 DEF FindFirst
  <2>3. InTree(t, pos)
    BY <1>4, <2>1, GoodFirst DEF Whole
  <2>4. pos.entry # Start => EntryIn(t, pos.leaf, pos.entry)
    BY <1>7, <2>3 DEF Start
  <2> QED BY <1>2, <1>3, <1>4, <1>6, <2>2, <2>4, AgainSeen, HandsOutSeen
<1>10. CASE FindLeft(sd)
  <2>1. PICK q : q = Neighbour(t, LEFT, scan.pos)
    OBVIOUS
  <2>2. scan.direction # NOTDEFINED
    BY <1>1, <1>10 DEF FindLeft, LEFT, NOTDEFINED
  <2>3. IF Matches(t, q, scan.op, scan.value) THEN HandsOut(sd, EntryAt(t, q)) ELSE Again(sd)
    BY <1>1, <1>4, <1>10, <2>1 DEF FindLeft
  <2>4. Matches(t, q, scan.op, scan.value) => EntryIn(t, q.leaf, q.entry)
    BY <1>8, <2>1, <2>2
  <2> QED BY <1>2, <1>3, <1>4, <1>6, <2>3, <2>4, AgainSeen, HandsOutSeen
<1>11. CASE FindRight(sd)
  <2>1. PICK q : q = Neighbour(t, RIGHT, scan.pos)
    OBVIOUS
  <2>2. scan.direction # NOTDEFINED
    BY <1>1, <1>11 DEF FindRight, RIGHT, NOTDEFINED
  <2>3. IF Matches(t, q, scan.op, scan.value) THEN HandsOut(sd, EntryAt(t, q))
        ELSE Returns(AME_EOF) /\ call' = None
    BY <1>1, <1>4, <1>11, <2>1 DEF FindRight
  <2>4. Matches(t, q, scan.op, scan.value) => EntryIn(t, q.leaf, q.entry)
    BY <1>8, <2>1, <2>2
  <2> QED BY <1>2, <1>3, <1>4, <1>6, <2>3, <2>4, EndSeen, HandsOutSeen
<1> QED BY <1>9, <1>10, <1>11 DEF Activation

-----------------------------------------------------------------------------
(* Every step is one of the store, or leaves it as it is. *)

LEMMA UnchangedSeen ==
  ASSUME SInv, UNCHANGED avars
  PROVE  Steps
<1>1. UNCHANGED <<index, tables, res, call>>
  BY DEF avars, tables
<1>2. UNCHANGED <<am_index_table, am_scan_table, pf_table>>
  BY DEF avars
<1>3. DeletionKnows'
  BY <1>1, <1>2 DEF SInv, DeletionKnows, Tree
<1> QED BY <1>1, <1>3, WalksSeen

LEMMA NextSeen ==
  ASSUME Fits, SInv, [ANext]_avars
  PROVE  Steps
<1>1. CASE UNCHANGED avars
  BY <1>1, UnchangedSeen
<1> SUFFICES ASSUME ANext PROVE Steps
  BY <1>1
<1>2. bound \in Bounds
  BY DEF SInv, TInv
<1>3. CASE AClimb
  BY <1>3, ClimbSeen DEF AClimb
<1>4. CASE ADeleteNext
  BY <1>4, DeleteNextSeen DEF ADeleteNext
<1>5. ASSUME NEW sd \in Fd, AFindAgain(sd)
      PROVE  Steps
  <2>1. /\ call.at = "find" /\ call.at # "climb" /\ call.sd = sd /\ Activation(sd)
    BY <1>5 DEF AFindAgain, FindAgain
  <2>2. sd \in OpenScans
    BY <2>1 DEF SInv, TInv, CallOK
  <2> QED BY <2>1, <2>2, ActivationSeen
<1>6. ASSUME NEW fd \in Fd, NEW v \in bound.values, NEW id \in bound.ids, ADelete(fd, v, id)
      PROVE  Steps
  <2>1. v \in Value /\ id \in RecId
    BY <1>2, BoundsAssumption
  <2> QED BY <1>6, <2>1, DeleteEntrySeen
<1>7. ASSUME NEW n \in bound.names, AFile(n)
      PROVE  Steps
  <2>1. n \in Name
    BY <1>2, BoundsAssumption
  <2> QED BY <1>7, <2>1, FileSeen
<1>8. ASSUME NEW fd \in Fd, AClose(fd)
      PROVE  Steps
  BY <1>8, CloseSeen
<1>9. ASSUME NEW fd \in Fd, InvalidFd(fd)
      PROVE  Steps
  BY <1>9, RefusedSeen, AnswerCodes DEF InvalidFd
<1>10. ASSUME NEW fd \in Fd, AInsert(fd)
       PROVE  Steps
  BY <1>10, InsertSeen
<1>11. ASSUME NEW fd \in Fd, NEW op \in bound.ops, NEW v \in bound.values, AOpenScan(fd, op, v)
       PROVE  Steps
  BY <1>11, OpenScanSeen DEF AOpenScan
<1>12. ASSUME NEW sd \in Fd, AFind(sd)
       PROVE  Steps
  <2>1. Idle /\ sd \in OpenScans /\ Activation(sd)
    BY <1>12 DEF AFind, AM_FindNextEntry
  <2>2. call.at # "climb"
    BY <2>1, IdleCall DEF Idle
  <2> QED BY <2>1, <2>2, ActivationSeen
<1>13. ASSUME NEW sd \in Fd, ACloseScan(sd)
       PROVE  Steps
  BY <1>13, CloseScanSeen DEF ACloseScan
<1>14. ASSUME NEW sd \in Fd, FindInvalid(sd)
       PROVE  Steps
  BY <1>14, RefusedSeen, AnswerCodes DEF FindInvalid
<1> QED BY <1>3, <1>4, <1>5, <1>6, <1>7, <1>8, <1>9, <1>10, <1>11, <1>12, <1>13, <1>14
        DEF ANext, ARunning, ACall, ADeletes

(* When no value of an index has more entries than half a leaf (and the    *)
(* differences of two values fit an int), the B+ tree, its open table and  *)
(* its scans are an IndexStore: an insertion adds its pair and a climb     *)
(* changes none, AM_DeleteEntry takes out the pair it is asked for when it *)
(* is there and says AME_RECNOTFOUND only when it is not, wherever the     *)
(* pair stands among the entries of its value, and a scan hands out the    *)
(* ids of pairs that are there (am.c:558-760, 932-1089).                   *)
THEOREM IsIndexStore ==
  ASSUME Fits
  PROVE  ASpec => ImplementsIndexStore
<1>1. AInit => Store!Init /\ SInv
  <2> SUFFICES ASSUME AInit PROVE Store!Init /\ SInv
    OBVIOUS
  <2>1. /\ index = [n \in Name |-> Missing] /\ call = None
        /\ am_index_table = [fd \in Fd |-> NewEntry]
        /\ res = [code |-> AME_OK, value |-> NoValue, id |-> NoId]
    BY DEF AInit, Init
  <2>2. OnceEach /\ DeletionKnows
    BY <2>1 DEF OnceEach, DeletionKnows, None
  <2>3. SInv
    BY <2>2, InitTInv DEF SInv
  <2>4. OpenFds = {}
    BY <2>1 DEF OpenFds, NewEntry
  <2>5. StoreEntries = [n \in {} |-> {}] /\ StoreOpened = {}
    BY <2>1, <2>4 DEF StoreEntries, StoreOpened
  <2>6. StoreGot = [code |-> AME_OK, value |-> NoValue, id |-> NoId]
    BY <2>1 DEF StoreGot
  <2>7. Store!Init
    BY <2>5, <2>6 DEF Store!Init, StoreEntries, StoreOpened, StoreGot
  <2> QED BY <2>3, <2>7
<1>2. SInv /\ [ANext]_avars => SInv' /\ [Store!Next]_Store!vars
  <2> SUFFICES ASSUME SInv, [ANext]_avars PROVE SInv' /\ [Store!Next]_Store!vars
    OBVIOUS
  <2>1. SInv'
    BY NextTInv, NextSeen DEF SInv, Steps
  <2>2. Store!Next \/ StoreStays
    BY NextSeen DEF Steps, StoreStep
  <2> QED BY <2>1, <2>2 DEF Store!vars, StoreStays, StoreEntries, StoreOpened, StoreGot
<1>3. ASpec => Store!Spec
  BY <1>1, <1>2, PTL DEF ASpec, Store!Spec
<1> QED BY <1>3 DEF ImplementsIndexStore

-----------------------------------------------------------------------------
(* Where a scan with condition op for value v stops. *)

LEMMA HoldsIs ==
  ASSUME NEW op \in EQ_OP..NE_OP, NEW a, NEW v
  PROVE  /\ op = EQ_OP \/ op = LT_OP \/ op = GT_OP \/ op = LE_OP \/ op = GE_OP \/ op = NE_OP
         /\ op = EQ_OP => (Holds(op, a, v) <=> a = v)
         /\ op = LT_OP => (Holds(op, a, v) <=> a < v)
         /\ op = GT_OP => (Holds(op, a, v) <=> a > v)
         /\ op = LE_OP => (Holds(op, a, v) <=> a <= v)
         /\ op = GE_OP => (Holds(op, a, v) <=> a >= v)
         /\ op = NE_OP => (Holds(op, a, v) <=> a # v)
<1>1. op \in {1, 2, 3, 4, 5, 6}
  BY DEF EQ_OP, NE_OP
<1>2. op = EQ_OP \/ op = LT_OP \/ op = GT_OP \/ op = LE_OP \/ op = GE_OP \/ op = NE_OP
  BY <1>1 DEF EQ_OP, LT_OP, GT_OP, LE_OP, GE_OP, NE_OP
<1>3. op = EQ_OP => (Holds(op, a, v) <=> a = v)
  BY DEF Holds, EQ_OP, LT_OP, GT_OP, LE_OP, GE_OP, NE_OP
<1>4. op = LT_OP => (Holds(op, a, v) <=> a < v)
  BY DEF Holds, EQ_OP, LT_OP, GT_OP, LE_OP, GE_OP, NE_OP
<1>5. op = GT_OP => (Holds(op, a, v) <=> a > v)
  BY DEF Holds, EQ_OP, LT_OP, GT_OP, LE_OP, GE_OP, NE_OP
<1>6. op = LE_OP => (Holds(op, a, v) <=> a <= v)
  BY DEF Holds, EQ_OP, LT_OP, GT_OP, LE_OP, GE_OP, NE_OP
<1>7. op = GE_OP => (Holds(op, a, v) <=> a >= v)
  BY DEF Holds, EQ_OP, LT_OP, GT_OP, LE_OP, GE_OP, NE_OP
<1>8. op = NE_OP => (Holds(op, a, v) <=> a # v)
  BY DEF Holds, EQ_OP, LT_OP, GT_OP, LE_OP, GE_OP, NE_OP
<1> QED BY <1>2, <1>3, <1>4, <1>5, <1>6, <1>7, <1>8

\* x, y, z are the values of an entry further on, of the next one, where the scan
\* stops, and of the one it comes from.
LEMMA StopsBelow ==
  ASSUME NEW op \in EQ_OP..NE_OP, NEW v \in Int, NEW x \in Int, NEW y \in Int, NEW z \in Int,
         x <= y, y <= z, Holds(op, z, v), ~Holds(op, y, v), op = NE_OP => y # v
  PROVE  ~Holds(op, x, v)
BY HoldsIs

LEMMA StopsAbove ==
  ASSUME NEW op \in EQ_OP..NE_OP, NEW v \in Int, NEW x \in Int, NEW y \in Int, NEW z \in Int,
         z <= y, y <= x, Holds(op, z, v), ~Holds(op, y, v), op = NE_OP => y # v
  PROVE  ~Holds(op, x, v)
BY HoldsIs

\* A scan that comes from before the first entry of the leaf of v.
LEMMA StopsUnder ==
  ASSUME NEW op \in EQ_OP..NE_OP, NEW v \in Int, NEW x \in Int, NEW y \in Int,
         x <= y, y <= v, ~Holds(op, y, v), op \in {NE_OP, LT_OP} => y # v, op = EQ_OP => x # v
  PROVE  ~Holds(op, x, v)
BY HoldsIs

LEMMA StopsOver ==
  ASSUME NEW op \in EQ_OP..NE_OP, NEW v \in Int, NEW x \in Int, NEW y \in Int,
         y <= x, v < y, ~Holds(op, y, v)
  PROVE  ~Holds(op, x, v)
BY HoldsIs

\* The position that a scan has found first, the last of its leaf that will do.
OrgOK(t, low, high, org, op, v) ==
  /\ org \in PosType /\ InTree(t, org) /\ Within(low, high, org.leaf, v)
  /\ org.entry # Start => Fulfils(t, org.leaf, org.entry, op, v)
  /\ \A i : Fulfils(t, org.leaf, i, op, v) => i <= org.entry

\* Where a scan stands.
Stands(t, pos, org, op, v) ==
  pos = org \/ (pos \in PosType /\ Fulfils(t, pos.leaf, pos.entry, op, v))

ValueAt(t, o, i, v) == EntryIn(t, o, i) /\ t.page[o].rec[i].value = v

\* A scan for values below v is for a value with one entry, one for values other
\* than v is for a value with none.
Few(t, op, v) ==
  /\ op = LT_OP => \A o, i, p, j : ValueAt(t, o, i, v) /\ ValueAt(t, p, j, v) => o = p
  /\ op = NE_OP => \A o, i : ~ValueAt(t, o, i, v)

LEMMA StandsIs ==
  ASSUME NEW t, Whole(t), NEW low, NEW high, NEW org, NEW pos, NEW op, NEW v,
         OrgOK(t, low, high, org, op, v), Stands(t, pos, org, op, v)
  PROVE  /\ pos \in PosType /\ InTree(t, pos)
         /\ pos.entry # Start => /\ Fulfils(t, pos.leaf, pos.entry, op, v)
                                 /\ EntryIn(t, pos.leaf, pos.entry)
         /\ pos.entry = Start => pos = org
<1>1. CASE pos = org
  BY <1>1 DEF OrgOK, Fulfils
<1>2. CASE pos \in PosType /\ Fulfils(t, pos.leaf, pos.entry, op, v)
  <2>1. EntryIn(t, pos.leaf, pos.entry)
    BY <1>2 DEF Fulfils
  <2>2. IsLeaf(t, pos.leaf) /\ pos.entry \in 1..Len(t.page[pos.leaf].rec)
        /\ Len(t.page[pos.leaf].rec) \in Nat
    BY <2>1, LeafEntries, TreeAssumption DEF EntryIn, Whole
  <2>3. pos.entry # Start /\ InTree(t, pos)
    BY <2>2 DEF Start, InTree
  <2> QED BY <1>2, <2>1, <2>3
<1> QED BY <1>1, <1>2 DEF Stands

\* If the leaf that a search for v comes to has no entry of v, no leaf has.
LEMMA FoundThere ==
  ASSUME DifferencesFit, NEW t, NEW lev, NEW low, NEW high, InOrder(t, lev, low, high),
         NEW v \in Value, NEW l, IsLeaf(t, l), Within(low, high, l, v),
         NEW o, NEW i, ValueAt(t, o, i, v)
  PROVE  \E j : ValueAt(t, l, j, v)
<1>1. o \in 1..Len(t.page) /\ lev[o] = 0 /\ i \in 1..Len(t.page[o].rec) /\ HasValue(t, o, i, v)
  BY InOrderParts DEF ValueAt, EntryIn, HasValue
<1>2. FoundIn(t, AM_SearchLeaf(t, v), v)
  BY <1>1, ValueFound
<1>3. AM_SearchLeaf(t, v) = l
  <2>1. l \in 1..Len(t.page) /\ lev[l] = 0
    BY InOrderParts
  <2> QED BY <2>1, SearchOnly
<1>4. PICK j \in 1..Len(t.page[l].rec) : t.page[l].rec[j].value = v
  BY <1>2, <1>3 DEF FoundIn, HasValue
<1> QED BY <1>4 DEF ValueAt, EntryIn

\* The entry that a step from a position comes to lies next to it.
LEMMA StepIs ==
  ASSUME NEW t, Whole(t), NEW pos \in PosType, InTree(t, pos), NEW d \in {LEFT, RIGHT},
         NEW q, q = Neighbour(t, d, pos), q.leaf # NoNode
  PROVE  q \in PosType /\ EntryIn(t, q.leaf, q.entry)
<1>1. q \in PosType /\ InTree(t, q) /\ q.entry # 0
  BY GoodNeighbour DEF Whole
<1>2. Len(t.page[q.leaf].rec) \in Nat
  BY <1>1, LeafEntries, TreeAssumption DEF InTree, Whole
<1> QED BY <1>1, <1>2 DEF InTree, EntryIn

LEMMA NextBefore ==
  ASSUME DifferencesFit, NEW t, Whole(t), NEW lev, NEW low, NEW high, InOrder(t, lev, low, high),
         NEW pos \in PosType, InTree(t, pos), NEW q, q = Neighbour(t, LEFT, pos), q.leaf # NoNode
  PROVE  Before(low, q.leaf, q.entry, pos)
<1>1. EntryIn(t, q.leaf, q.entry)
  BY StepIs DEF LEFT, RIGHT
<1> QED BY <1>1, NeighbourLeft

LEMMA NextAfter ==
  ASSUME DifferencesFit, NEW t, Whole(t), NEW lev, NEW low, NEW high, InOrder(t, lev, low, high),
         NEW pos \in PosType, InTree(t, pos), NEW q, q = Neighbour(t, RIGHT, pos), q.leaf # NoNode
  PROVE  After(low, q.leaf, q.entry, pos)
<1>1. EntryIn(t, q.leaf, q.entry)
  BY StepIs DEF LEFT, RIGHT
<1> QED BY <1>1, NeighbourRight

\* Nothing that the scan is for lies beyond where it stops, to the left...
LEMMA StopLeft ==
  ASSUME DifferencesFit, NEW t, Whole(t), NEW lev, NEW low, NEW high, InOrder(t, lev, low, high),
         NEW op \in EQ_OP..NE_OP, NEW v \in Value, Few(t, op, v), NEW org, NEW pos,
         OrgOK(t, low, high, org, op, v), Stands(t, pos, org, op, v),
         NEW q, q = Neighbour(t, LEFT, pos), ~Matches(t, q, op, v),
         NEW o, NEW i, Fulfils(t, o, i, op, v)
  PROVE  ~Before(low, o, i, pos)
<1>1. /\ pos \in PosType /\ InTree(t, pos)
      /\ pos.entry # Start => /\ Fulfils(t, pos.leaf, pos.entry, op, v)
                              /\ EntryIn(t, pos.leaf, pos.entry)
      /\ pos.entry = Start => pos = org
  BY StandsIs
<1>2. SUFFICES ASSUME Before(low, o, i, pos) PROVE FALSE
  OBVIOUS
<1>3. EntryIn(t, o, i)
  BY DEF Fulfils
<1>4. q.leaf # NoNode
  BY <1>1, <1>2, <1>3, NeighbourLeft
<1>5. EntryIn(t, q.leaf, q.entry) /\ Before(low, q.leaf, q.entry, pos)
  BY <1>1, <1>4, StepIs, NextBefore DEF LEFT, RIGHT
<1>6. PICK x, y : x = t.page[o].rec[i].value /\ y = t.page[q.leaf].rec[q.entry].value
  OBVIOUS
<1>7. x \in Int /\ y \in Int /\ v \in Int /\ y <= high[q.leaf]
  BY <1>3, <1>5, <1>6, EntryValue, Ends
<1>8. Holds(op, x, v) /\ ~Holds(op, y, v)
  <2>1. ~Fulfils(t, q.leaf, q.entry, op, v)
    BY <1>5, MatchIs DEF Whole
  <2> QED BY <1>5, <1>6, <2>1 DEF Fulfils
<1>9. x <= y
  <2>1. (o = q.leaf /\ i = q.entry) \/ Before(low, o, i, q)
    BY <1>1, <1>2, <1>3, <1>4, NeighbourLeft
  <2>2. CASE o = q.leaf /\ i = q.entry
    BY <1>6, <1>7, <2>2
  <2>3. CASE Before(low, o, i, q)
    BY <1>3, <1>5, <1>6, <2>3, EntriesRise DEF Before
  <2> QED BY <2>1, <2>2, <2>3
<1>10. op = NE_OP => y # v
  BY <1>5, <1>6 DEF Few, ValueAt
<1>11. CASE pos.entry # Start
  <2>1. PICK z : z = t.page[pos.leaf].rec[pos.entry].value
    OBVIOUS
  <2>2. z \in Int /\ Holds(op, z, v)
    BY <1>1, <1>11, <2>1, EntryValue DEF Fulfils
  <2>3. y <= z
    BY <1>1, <1>5, <1>6, <1>11, <2>1, EntriesRise DEF Before
  <2> QED BY <1>7, <1>8, <1>9, <1>10, <2>2, <2>3, StopsBelow
<1>12. CASE pos.entry = Start
  <2>1. PICK l, m : l = pos.leaf /\ m = q.leaf
    OBVIOUS
  <2>2. pos = org /\ IsLeaf(t, l) /\ IsLeaf(t, m) /\ Within(low, high, l, v)
    BY <1>1, <1>5, <1>12, <2>1 DEF OrgOK, InTree, EntryIn
  <2>3. low[m] < low[l]
    <3>1. q.entry \in Nat \ {0}
      BY <1>5, EntryRec DEF Whole
    <3> QED BY <1>5, <1>12, <2>1, <3>1 DEF Before, Start
  <2>4. low[m] \in Int /\ low[l] \in Int /\ high[m] \in Int
    BY <2>2, LeafBounds
  <2>5. high[m] <= low[l]
    BY <2>2, <2>3, <2>4, LeavesApart
  <2>6. y <= v
    BY <1>7, <2>1, <2>2, <2>4, <2>5 DEF Within
  <2>7. op = LT_OP => y # v
    <3>1. SUFFICES ASSUME op = LT_OP, y = v PROVE FALSE
      OBVIOUS
    <3>2. ValueAt(t, m, q.entry, v)
      BY <1>5, <1>6, <2>1, <3>1 DEF ValueAt
    <3>3. PICK j : ValueAt(t, l, j, v)
      BY <2>2, <3>2, FoundThere
    <3>4. l = m
      BY <3>1, <3>2, <3>3 DEF Few
    <3> QED BY <2>3, <2>4, <3>4
  <2>8. op = EQ_OP => x # v
    <3>1. SUFFICES ASSUME op = EQ_OP, x = v PROVE FALSE
      OBVIOUS
    <3>2. ValueAt(t, o, i, v)
      BY <1>3, <1>6, <3>1 DEF ValueAt
    <3>3. PICK j : ValueAt(t, l, j, v)
      BY <2>2, <3>2, FoundThere
    <3>4. Fulfils(t, l, j, op, v)
      BY <3>1, <3>3, FulfilsEq DEF ValueAt
    <3>5. j <= org.entry
      BY <2>1, <2>2, <3>4 DEF OrgOK
    <3>6. j \in Nat \ {0}
      BY <3>3, EntryRec DEF ValueAt, Whole
    <3> QED BY <1>12, <2>2, <3>5, <3>6 DEF Start
  <2> QED BY <1>7, <1>8, <1>9, <1>10, <2>6, <2>7, <2>8, StopsUnder
<1> QED BY <1>11, <1>12

\* ...and to the right.
LEMMA StopRight ==
  ASSUME DifferencesFit, NEW t, Whole(t), NEW lev, NEW low, NEW high, InOrder(t, lev, low, high),
         NEW op \in EQ_OP..NE_OP, NEW v \in Value, Few(t, op, v), NEW org, NEW pos,
         OrgOK(t, low, high, org, op, v), Stands(t, pos, org, op, v),
         NEW q, q = Neighbour(t, RIGHT, pos), ~Matches(t, q, op, v),
         NEW o, NEW i, Fulfils(t, o, i, op, v)
  PROVE  ~After(low, o, i, pos)
<1>1. /\ pos \in PosType /\ InTree(t, pos)
      /\ pos.entry # Start => /\ Fulfils(t, pos.leaf, pos.entry, op, v)
                              /\ EntryIn(t, pos.leaf, pos.entry)
      /\ pos.entry = Start => pos = org
  BY StandsIs
<1>2. SUFFICES ASSUME After(low, o, i, pos) PROVE FALSE
  OBVIOUS
<1>3. EntryIn(t, o, i)
  BY DEF Fulfils
<1>4. q.leaf # NoNode
  BY <1>1, <1>2, <1>3, NeighbourRight
<1>5. EntryIn(t, q.leaf, q.entry) /\ After(low, q.leaf, q.entry, pos)
  BY <1>1, <1>4, StepIs, NextAfter DEF LEFT, RIGHT
<1>6. PICK x, y : x = t.page[o].rec[i].value /\ y = t.page[q.leaf].rec[q.entry].value
  OBVIOUS
<1>7. x \in Int /\ y \in Int /\ v \in Int /\ low[q.leaf] <= y
  BY <1>3, <1>5, <1>6, EntryValue, Ends
<1>8. Holds(op, x, v) /\ ~Holds(op, y, v)
  <2>1. ~Fulfils(t, q.leaf, q.entry, op, v)
    BY <1>5, MatchIs DEF Whole
  <2> QED BY <1>5, <1>6, <2>1 DEF Fulfils
<1>9. y <= x
  <2>1. (o = q.leaf /\ i = q.entry) \/ After(low, o, i, q)
    BY <1>1, <1>2, <1>3, <1>4, NeighbourRight
  <2>2. CASE o = q.leaf /\ i = q.entry
    BY <1>6, <1>7, <2>2
  <2>3. CASE After(low, o, i, q)
    BY <1>3, <1>5, <1>6, <2>3, EntriesRise DEF After
  <2> QED BY <2>1, <2>2, <2>3
<1>10. op = NE_OP => y # v
  BY <1>5, <1>6 DEF Few, ValueAt
<1>11. CASE pos.entry # Start
  <2>1. PICK z : z = t.page[pos.leaf].rec[pos.entry].value
    OBVIOUS
  <2>2. z \in Int /\ Holds(op, z, v)
    BY <1>1, <1>11, <2>1, EntryValue DEF Fulfils
  <2>3. z <= y
    BY <1>1, <1>5, <1>6, <1>11, <2>1, EntriesRise DEF After
  <2> QED BY <1>7, <1>8, <1>9, <1>10, <2>2, <2>3, StopsAbove
<1>12. CASE pos.entry = Start
  <2>1. PICK l, m : l = pos.leaf /\ m = q.leaf
    OBVIOUS
  <2>2. pos = org /\ IsLeaf(t, l) /\ IsLeaf(t, m) /\ Within(low, high, l, v)
    BY <1>1, <1>5, <1>12, <2>1 DEF OrgOK, InTree, EntryIn
  <2>3. low[l] < low[m]
    BY <1>5, <1>12, <2>1 DEF After
  <2>4. low[m] \in Int /\ low[l] \in Int /\ high[l] \in Int
    BY <2>2, LeafBounds
  <2>5. high[l] <= low[m]
    BY <2>2, <2>3, <2>4, LeavesApart
  <2>6. v < y
    BY <1>7, <2>1, <2>2, <2>4, <2>5 DEF Within
  <2> QED BY <1>7, <1>8, <1>9, <2>6, StopsOver
<1> QED BY <1>11, <1>12

-----------------------------------------------------------------------------
(* What a scan has returned when it stands at a position. *)

\* On the way to the left: what lies from pos up to org.
SeenLeft(t, low, org, pos, op, v, S) ==
  \A o, i, w : LiveAt(t, o, i, w) /\ Fulfils(t, o, i, op, v) =>
    (w \in S <=> ~Before(low, o, i, pos) /\ ~After(low, o, i, org))

\* On the way to the right: what lies up to pos.
SeenRight(t, low, pos, op, v, S) ==
  \A o, i, w : LiveAt(t, o, i, w) /\ Fulfils(t, o, i, op, v) =>
    (w \in S <=> ~After(low, o, i, pos))

\* The entry at q is returned, unless it is deleted.
Takes(t, q, S, S2) ==
  S2 = IF t.page[q.leaf].rec[q.entry].deleted THEN S
       ELSE S \cup {PairOf(t.page[q.leaf].rec[q.entry])}

Fresh(t, q, op, v, S) ==
  ~t.page[q.leaf].rec[q.entry].deleted =>
    /\ PairOf(t.page[q.leaf].rec[q.entry]) \in Live(t)
    /\ Holds(op, PairOf(t.page[q.leaf].rec[q.entry])[1], v)
    /\ PairOf(t.page[q.leaf].rec[q.entry]) \notin S

\* The pair of the entry at q is there, and at no other place.
LEMMA PairThere ==
  ASSUME NEW t, Whole(t), PairsOnce(t), NEW q, NEW op, NEW v, Fulfils(t, q.leaf, q.entry, op, v),
         NEW r, r = t.page[q.leaf].rec[q.entry], ~r.deleted
  PROVE  /\ LiveAt(t, q.leaf, q.entry, PairOf(r)) /\ PairOf(r) \in Live(t)
         /\ Holds(op, PairOf(r)[1], v)
         /\ \A o, i : LiveAt(t, o, i, PairOf(r)) => o = q.leaf /\ i = q.entry
<1>1. LiveAt(t, q.leaf, q.entry, PairOf(r))
  BY DEF LiveAt, Fulfils
<1>2. PairOf(r) \in Live(t)
  BY <1>1, LiveIs DEF Whole
<1>3. Holds(op, r.value, v) /\ PairOf(r)[1] = r.value
  BY DEF Fulfils, PairOf
<1>4. Holds(op, PairOf(r)[1], v)
  BY <1>3
<1>5. \A o, i : LiveAt(t, o, i, PairOf(r)) => o = q.leaf /\ i = q.entry
  BY <1>1 DEF PairsOnce
<1> QED BY <1>1, <1>2, <1>4, <1>5

\* An entry is taken: what is in the set then.
Took(q, S, S2, o, i, w) == w \in S2 <=> w \in S \/ (o = q.leaf /\ i = q.entry)

LEMMA TakesIs ==
  ASSUME NEW t, Whole(t), PairsOnce(t), NEW q, NEW op, NEW v, Fulfils(t, q.leaf, q.entry, op, v),
         NEW S, NEW S2, Takes(t, q, S, S2), NEW o, NEW i, NEW w, LiveAt(t, o, i, w)
  PROVE  Took(q, S, S2, o, i, w)
<1>1. PICK r : r = t.page[q.leaf].rec[q.entry]
  OBVIOUS
<1>2. S2 = IF r.deleted THEN S ELSE S \cup {PairOf(r)}
  BY <1>1 DEF Takes
<1>3. CASE r.deleted
  BY <1>1, <1>2, <1>3 DEF LiveAt, Took
<1>4. CASE ~r.deleted
  <2>1. /\ LiveAt(t, q.leaf, q.entry, PairOf(r))
        /\ \A p, j : LiveAt(t, p, j, PairOf(r)) => p = q.leaf /\ j = q.entry
    BY <1>1, <1>4, PairThere
  <2>2. o = q.leaf /\ i = q.entry => w = PairOf(r)
    BY <1>1 DEF LiveAt
  <2>3. w = PairOf(r) => o = q.leaf /\ i = q.entry
    BY <2>1
  <2> QED BY <1>2, <1>4, <2>2, <2>3 DEF Took
<1> QED BY <1>3, <1>4

LEMMA FreshIs ==
  ASSUME NEW t, Whole(t), PairsOnce(t), NEW q, NEW op, NEW v, Fulfils(t, q.leaf, q.entry, op, v),
         NEW S, \A w : LiveAt(t, q.leaf, q.entry, w) => w \notin S
  PROVE  Fresh(t, q, op, v, S)
BY PairThere DEF Fresh

LEMMA NotApart ==
  ASSUME DifferencesFit, NEW t, NEW lev, NEW low, NEW high, InOrder(t, lev, low, high),
         NEW pos \in PosType, IsLeaf(t, pos.leaf), NEW o, NEW i, EntryIn(t, o, i)
  PROVE  /\ ~(Before(low, o, i, pos) /\ After(low, o, i, pos))
         /\ o = pos.leaf /\ i = pos.entry =>
              ~Before(low, o, i, pos) /\ ~After(low, o, i, pos)
         /\ ~Before(low, o, i, pos) /\ ~After(low, o, i, pos) =>
              o = pos.leaf /\ (pos.entry = Start \/ i = pos.entry)
<1>1. PICK l, e : l = pos.leaf /\ e = pos.entry
  OBVIOUS
<1>2. e \in Nat /\ i \in Nat /\ IsLeaf(t, o) /\ IsLeaf(t, l)
  <2>1. Len(t.page[o].rec) \in 0..FANOUT /\ IsLeaf(t, o) /\ i \in 1..Len(t.page[o].rec)
    BY LeafBounds DEF EntryIn
  <2> QED BY <1>1, <2>1, TreeAssumption DEF PosType
<1>3. low[o] \in Int /\ low[l] \in Int
  BY <1>2, LeafBounds
<1>4. o # l => low[o] # low[l]
  BY <1>2, <1>3, LeavesApart
<1>5. /\ Before(low, o, i, pos) <=> low[o] < low[l] \/ (o = l /\ i < e)
      /\ After(low, o, i, pos) <=> low[l] < low[o] \/ (o = l /\ e # Start /\ e < i)
  BY <1>1 DEF Before, After
<1>6. ~(Before(low, o, i, pos) /\ After(low, o, i, pos))
  BY <1>2, <1>3, <1>5
<1>7. o = l /\ i = e => ~Before(low, o, i, pos) /\ ~After(low, o, i, pos)
  BY <1>2, <1>3, <1>5
<1>8. ~Before(low, o, i, pos) /\ ~After(low, o, i, pos) => o = l /\ (e = Start \/ i = e)
  BY <1>2, <1>3, <1>4, <1>5
<1> QED BY <1>1, <1>6, <1>7, <1>8

LEMMA BeforeBefore ==
  ASSUME NEW t, NEW lev, NEW low, NEW high, InOrder(t, lev, low, high),
         NEW pos \in PosType, IsLeaf(t, pos.leaf), NEW org \in PosType, IsLeaf(t, org.leaf),
         NEW o, NEW i, EntryIn(t, o, i), Before(low, o, i, pos),
         Before(low, pos.leaf, pos.entry, org)
  PROVE  Before(low, o, i, org)
<1>1. PICK l, e, m, f : l = pos.leaf /\ e = pos.entry /\ m = org.leaf /\ f = org.entry
  OBVIOUS
<1>2. e \in Nat /\ f \in Nat /\ i \in Nat /\ IsLeaf(t, o) /\ IsLeaf(t, l) /\ IsLeaf(t, m)
  <2>1. Len(t.page[o].rec) \in 0..FANOUT /\ IsLeaf(t, o) /\ i \in 1..Len(t.page[o].rec)
    BY LeafBounds DEF EntryIn
  <2> QED BY <1>1, <2>1, TreeAssumption DEF PosType
<1>3. low[o] \in Int /\ low[l] \in Int /\ low[m] \in Int
  BY <1>2, LeafBounds
<1>4. /\ low[o] < low[l] \/ (o = l /\ i < e)
      /\ low[l] < low[m] \/ (l = m /\ e < f)
  BY <1>1 DEF Before
<1>5. low[o] < low[m] \/ (o = m /\ i < f)
  BY <1>2, <1>3, <1>4
<1> QED BY <1>1, <1>5 DEF Before

\* The first position.
LEMMA FirstSeen ==
  ASSUME DifferencesFit, NEW t, Whole(t), PairsOnce(t),
         NEW lev, NEW low, NEW high, InOrder(t, lev, low, high),
         NEW op \in EQ_OP..NE_OP, NEW v \in Value, NEW org, org = AM_GetFirstEntry(t, op, v)
  PROVE  /\ OrgOK(t, low, high, org, op, v)
         /\ org.entry = Start => SeenLeft(t, low, org, org, op, v, {})
         /\ org.entry # Start =>
              /\ EntryIn(t, org.leaf, org.entry) /\ Fresh(t, org, op, v, {})
              /\ \A S2 : Takes(t, org, {}, S2) => SeenLeft(t, low, org, org, op, v, S2)
<1>1. /\ org \in PosType /\ InTree(t, org) /\ org.leaf = AM_SearchLeaf(t, v)
      /\ org.entry # Start => Fulfils(t, org.leaf, org.entry, op, v)
      /\ \A i : Fulfils(t, org.leaf, i, op, v) => i <= org.entry
  BY FirstIs
<1>2. OrgOK(t, low, high, org, op, v)
  BY <1>1, SearchWithin DEF OrgOK
<1>3. IsLeaf(t, org.leaf)
  BY <1>1 DEF InTree
<1>4. CASE org.entry = Start
  <2>1. ASSUME NEW o, NEW i, NEW w, LiveAt(t, o, i, w), Fulfils(t, o, i, op, v)
        PROVE  ~(~Before(low, o, i, org) /\ ~After(low, o, i, org))
    <3>1. SUFFICES ASSUME o = org.leaf PROVE FALSE
      BY <1>1, <1>3, <2>1, NotApart DEF Fulfils
    <3>2. i <= org.entry /\ i \in Nat \ {0}
      BY <1>1, <2>1, <3>1, EntryRec DEF Fulfils, Whole
    <3> QED BY <1>4, <3>2 DEF Start
  <2>2. SeenLeft(t, low, org, org, op, v, {})
    BY <2>1 DEF SeenLeft
  <2> QED BY <1>2, <1>4, <2>2
<1>5. CASE org.entry # Start
  <2>1. Fulfils(t, org.leaf, org.entry, op, v) /\ EntryIn(t, org.leaf, org.entry)
    BY <1>1, <1>5 DEF Fulfils
  <2>2. Fresh(t, org, op, v, {})
    BY <2>1, FreshIs
  <2>3. ASSUME NEW S2, Takes(t, org, {}, S2),
               NEW o, NEW i, NEW w, LiveAt(t, o, i, w), Fulfils(t, o, i, op, v)
        PROVE  w \in S2 <=> ~Before(low, o, i, org) /\ ~After(low, o, i, org)
    <3>1. w \in S2 <=> o = org.leaf /\ i = org.entry
      <4>1. LiveAt(t, o, i, w) /\ Takes(t, org, {}, S2)
        BY <2>3
      <4>2. Took(org, {}, S2, o, i, w)
        BY <2>1, <4>1, TakesIs
      <4> QED BY <4>2 DEF Took
    <3>2. EntryIn(t, o, i)
      BY <2>3 DEF Fulfils
    <3>3. ~Before(low, o, i, org) /\ ~After(low, o, i, org) <=> o = org.leaf /\ i = org.entry
      BY <1>1, <1>3, <1>5, <3>2, NotApart
    <3> QED BY <3>1, <3>3
  <2>4. \A S2 : Takes(t, org, {}, S2) => SeenLeft(t, low, org, org, op, v, S2)
    BY <2>3 DEF SeenLeft
  <2> QED BY <1>2, <1>5, <2>1, <2>2, <2>4
<1> QED BY <1>4, <1>5

\* A step to the left.
LEMMA LeftSeen ==
  ASSUME DifferencesFit, NEW t, Whole(t), PairsOnce(t),
         NEW lev, NEW low, NEW high, InOrder(t, lev, low, high),
         NEW op \in EQ_OP..NE_OP, NEW v \in Value, NEW org, NEW pos,
         OrgOK(t, low, high, org, op, v), Stands(t, pos, org, op, v),
         pos = org \/ Before(low, pos.leaf, pos.entry, org), NEW S,
         SeenLeft(t, low, org, pos, op, v, S),
         NEW q, q = Neighbour(t, LEFT, pos), Matches(t, q, op, v)
  PROVE  /\ EntryIn(t, q.leaf, q.entry) /\ Stands(t, q, org, op, v) /\ Fresh(t, q, op, v, S)
         /\ Before(low, q.leaf, q.entry, org)
         /\ \A S2 : Takes(t, q, S, S2) => SeenLeft(t, low, org, q, op, v, S2)
<1>1. pos \in PosType /\ InTree(t, pos) /\ IsLeaf(t, pos.leaf)
  BY StandsIs DEF InTree
<1>2. org \in PosType /\ IsLeaf(t, org.leaf)
  BY DEF OrgOK, InTree
<1>3. q.leaf # NoNode
  BY DEF Matches
<1>4. q \in PosType /\ EntryIn(t, q.leaf, q.entry) /\ Before(low, q.leaf, q.entry, pos)
  BY <1>1, <1>3, StepIs, NextBefore DEF LEFT, RIGHT
<1>5. Fulfils(t, q.leaf, q.entry, op, v) /\ IsLeaf(t, q.leaf)
  BY <1>4, MatchIs DEF Whole, EntryIn
<1>6. Stands(t, q, org, op, v)
  BY <1>4, <1>5 DEF Stands
<1>7. Before(low, q.leaf, q.entry, org)
  <2>1. CASE pos = org
    BY <1>4, <2>1
  <2>2. CASE Before(low, pos.leaf, pos.entry, org)
    BY <1>1, <1>2, <1>4, <2>2, BeforeBefore
  <2> QED BY <2>1, <2>2
<1>8. Fresh(t, q, op, v, S)
  <2>1. \A w : LiveAt(t, q.leaf, q.entry, w) => w \notin S
    BY <1>4, <1>5 DEF SeenLeft
  <2> QED BY <1>5, <2>1, FreshIs
<1>9. ASSUME NEW S2, Takes(t, q, S, S2),
             NEW o, NEW i, NEW w, LiveAt(t, o, i, w), Fulfils(t, o, i, op, v)
      PROVE  w \in S2 <=> ~Before(low, o, i, q) /\ ~After(low, o, i, org)
  <2>1. w \in S2 <=> w \in S \/ (o = q.leaf /\ i = q.entry)
    <3>1. Took(q, S, S2, o, i, w)
      BY <1>5, <1>9, TakesIs
    <3> QED BY <3>1 DEF Took
  <2>2. w \in S <=> ~Before(low, o, i, pos) /\ ~After(low, o, i, org)
    BY <1>9 DEF SeenLeft
  <2>3. EntryIn(t, o, i)
    BY <1>9 DEF Fulfils
  <2>4. Before(low, o, i, pos) <=> (o = q.leaf /\ i = q.entry) \/ Before(low, o, i, q)
    BY <1>1, <1>3, <2>3, NeighbourLeft
  <2>5. o = q.leaf /\ i = q.entry => ~Before(low, o, i, q) /\ ~After(low, o, i, org)
    <3>1. ~Before(low, q.leaf, q.entry, q)
      BY <1>4, <1>5, NotApart
    <3>2. ~After(low, q.leaf, q.entry, org)
      BY <1>2, <1>4, <1>7, NotApart
    <3> QED BY <3>1, <3>2
  <2> QED BY <2>1, <2>2, <2>4, <2>5
<1>10. \A S2 : Takes(t, q, S, S2) => SeenLeft(t, low, org, q, op, v, S2)
  BY <1>9 DEF SeenLeft
<1> QED BY <1>4, <1>6, <1>7, <1>8, <1>10

\* It turns round.
LEMMA LeftTurns ==
  ASSUME DifferencesFit, NEW t, Whole(t), NEW lev, NEW low, NEW high, InOrder(t, lev, low, high),
         NEW op \in EQ_OP..NE_OP, NEW v \in Value, Few(t, op, v), NEW org, NEW pos,
         OrgOK(t, low, high, org, op, v), Stands(t, pos, org, op, v), NEW S,
         SeenLeft(t, low, org, pos, op, v, S),
         ~Matches(t, Neighbour(t, LEFT, pos), op, v)
  PROVE  SeenRight(t, low, org, op, v, S)
<1>1. \A o, i : Fulfils(t, o, i, op, v) => ~Before(low, o, i, pos)
  BY StopLeft
<1> QED BY <1>1 DEF SeenLeft, SeenRight

\* A step to the right.
LEMMA RightSeen ==
  ASSUME DifferencesFit, NEW t, Whole(t), PairsOnce(t),
         NEW lev, NEW low, NEW high, InOrder(t, lev, low, high),
         NEW op \in EQ_OP..NE_OP, NEW v \in Value, NEW org, NEW pos,
         OrgOK(t, low, high, org, op, v), Stands(t, pos, org, op, v), NEW S,
         SeenRight(t, low, pos, op, v, S),
         NEW q, q = Neighbour(t, RIGHT, pos), Matches(t, q, op, v)
  PROVE  /\ EntryIn(t, q.leaf, q.entry) /\ Stands(t, q, org, op, v) /\ Fresh(t, q, op, v, S)
         /\ \A S2 : Takes(t, q, S, S2) => SeenRight(t, low, q, op, v, S2)
<1>1. pos \in PosType /\ InTree(t, pos)
  BY StandsIs
<1>3. q.leaf # NoNode
  BY DEF Matches
<1>4. q \in PosType /\ EntryIn(t, q.leaf, q.entry) /\ After(low, q.leaf, q.entry, pos)
  BY <1>1, <1>3, StepIs, NextAfter DEF LEFT, RIGHT
<1>5. Fulfils(t, q.leaf, q.entry, op, v) /\ IsLeaf(t, q.leaf)
  BY <1>4, MatchIs DEF Whole, EntryIn
<1>6. Stands(t, q, org, op, v)
  BY <1>4, <1>5 DEF Stands
<1>7. Fresh(t, q, op, v, S)
  <2>1. \A w : LiveAt(t, q.leaf, q.entry, w) => w \notin S
    BY <1>4, <1>5 DEF SeenRight
  <2> QED BY <1>5, <2>1, FreshIs
<1>8. ASSUME NEW S2, Takes(t, q, S, S2),
             NEW o, NEW i, NEW w, LiveAt(t, o, i, w), Fulfils(t, o, i, op, v)
      PROVE  w \in S2 <=> ~After(low, o, i, q)
  <2>1. w \in S2 <=> w \in S \/ (o = q.leaf /\ i = q.entry)
    <3>1. Took(q, S, S2, o, i, w)
      BY <1>5, <1>8, TakesIs
    <3> QED BY <3>1 DEF Took
  <2>2. w \in S <=> ~After(low, o, i, pos)
    BY <1>8 DEF SeenRight
  <2>3. EntryIn(t, o, i)
    BY <1>8 DEF Fulfils
  <2>4. After(low, o, i, pos) <=> (o = q.leaf /\ i = q.entry) \/ After(low, o, i, q)
    BY <1>1, <1>3, <2>3, NeighbourRight
  <2>5. o = q.leaf /\ i = q.entry => ~After(low, o, i, q)
    BY <1>4, <1>5, NotApart
  <2> QED BY <2>1, <2>2, <2>4, <2>5
<1>9. \A S2 : Takes(t, q, S, S2) => SeenRight(t, low, q, op, v, S2)
  BY <1>8 DEF SeenRight
<1> QED BY <1>4, <1>6, <1>7, <1>9

\* It ends.
LEMMA RightEnds ==
  ASSUME DifferencesFit, NEW t, Whole(t), NEW lev, NEW low, NEW high, InOrder(t, lev, low, high),
         NEW op \in EQ_OP..NE_OP, NEW v \in Value, Few(t, op, v), NEW org, NEW pos,
         OrgOK(t, low, high, org, op, v), Stands(t, pos, org, op, v), NEW S,
         SeenRight(t, low, pos, op, v, S),
         ~Matches(t, Neighbour(t, RIGHT, pos), op, v)
  PROVE  \A w \in Live(t) : Holds(op, w[1], v) => w \in S
<1>1. SUFFICES ASSUME NEW w \in Live(t), Holds(op, w[1], v) PROVE w \in S
  OBVIOUS
<1>2. PICK o, i : LiveAt(t, o, i, w)
  BY LiveIs DEF Whole
<1>3. Fulfils(t, o, i, op, v)
  <2>1. EntryIn(t, o, i) /\ w[1] = t.page[o].rec[i].value
    BY <1>2 DEF LiveAt, PairOf
  <2> QED BY <1>1, <2>1 DEF Fulfils
<1>4. ~After(low, o, i, pos)
  BY <1>3, StopRight
<1> QED BY <1>2, <1>3, <1>4 DEF SeenRight

-----------------------------------------------------------------------------
(* What is true of a scan that has not ended: D is the set of the pairs it *)
(* has to return, S the set of those it has returned.                      *)

LeftOf(t, op, v, org, pos, S) ==
  \E lev, low, high :
    /\ InOrder(t, lev, low, high)
    /\ OrgOK(t, low, high, org, op, v) /\ Stands(t, pos, org, op, v)
    /\ pos = org \/ Before(low, pos.leaf, pos.entry, org)
    /\ SeenLeft(t, low, org, pos, op, v, S)

RightOf(t, op, v, org, pos, S) ==
  \E lev, low, high :
    /\ InOrder(t, lev, low, high)
    /\ OrgOK(t, low, high, org, op, v) /\ Stands(t, pos, org, op, v)
    /\ SeenRight(t, low, pos, op, v, S)

Stood(t, d, op, v, org, pos, S) ==
  /\ d = NOTDEFINED => S = {}
  /\ d = LEFT => LeftOf(t, op, v, org, pos, S)
  /\ d = RIGHT => RightOf(t, op, v, org, pos, S)

Asks(t, op, v, D) ==
  /\ op \in EQ_OP..NE_OP /\ v \in Value /\ Few(t, op, v)
  /\ \A w : w \in D <=> w \in Live(t) /\ Holds(op, w[1], v)

\* The entry at q, where the scan goes in direction d, can be returned.
Offers(t, d, op, v, org, q, S) ==
  /\ EntryIn(t, q.leaf, q.entry) /\ Fresh(t, q, op, v, S)
  /\ \A S2 : Takes(t, q, S, S2) => Stood(t, d, op, v, org, q, S2)

LEMMA FirstKnows ==
  ASSUME Fits, NEW t, Whole(t), PairsOnce(t), NEW op, NEW v, NEW D, Asks(t, op, v, D),
         NEW org, org = AM_GetFirstEntry(t, op, v)
  PROVE  /\ org.entry = Start => Stood(t, LEFT, op, v, org, org, {})
         /\ org.entry # Start => Offers(t, LEFT, op, v, org, org, {})
<1>1. PICK lev, low, high : InOrder(t, lev, low, high)
  BY OrderOf
<1>2. DifferencesFit /\ op \in EQ_OP..NE_OP /\ v \in Value
  BY DEF Fits, Asks
<1>3. /\ OrgOK(t, low, high, org, op, v)
      /\ org.entry = Start => SeenLeft(t, low, org, org, op, v, {})
      /\ org.entry # Start =>
           /\ EntryIn(t, org.leaf, org.entry) /\ Fresh(t, org, op, v, {})
           /\ \A S2 : Takes(t, org, {}, S2) => SeenLeft(t, low, org, org, op, v, S2)
  BY <1>1, <1>2, FirstSeen
<1>4. Stands(t, org, org, op, v)
  BY DEF Stands
<1>5. ASSUME NEW S2, SeenLeft(t, low, org, org, op, v, S2)
      PROVE  Stood(t, LEFT, op, v, org, org, S2)
  <2>1. LeftOf(t, op, v, org, org, S2)
    BY <1>1, <1>3, <1>4, <1>5 DEF LeftOf
  <2> QED BY <2>1 DEF Stood, LEFT, RIGHT, NOTDEFINED
<1> QED BY <1>3, <1>5 DEF Offers

LEMMA LeftKnows ==
  ASSUME Fits, NEW t, Whole(t), PairsOnce(t), NEW op, NEW v, NEW D, Asks(t, op, v, D),
         NEW org, NEW pos, NEW S, Stood(t, LEFT, op, v, org, pos, S),
         NEW q, q = Neighbour(t, LEFT, pos)
  PROVE  /\ Matches(t, q, op, v) => Offers(t, LEFT, op, v, org, q, S)
         /\ ~Matches(t, q, op, v) => Stood(t, RIGHT, op, v, org, org, S)
<1>1. DifferencesFit /\ op \in EQ_OP..NE_OP /\ v \in Value /\ Few(t, op, v)
  BY DEF Fits, Asks
<1>2. PICK lev, low, high :
        /\ InOrder(t, lev, low, high)
        /\ OrgOK(t, low, high, org, op, v) /\ Stands(t, pos, org, op, v)
        /\ pos = org \/ Before(low, pos.leaf, pos.entry, org)
        /\ SeenLeft(t, low, org, pos, op, v, S)
  BY DEF Stood, LeftOf
<1>3. ASSUME Matches(t, q, op, v)
      PROVE  Offers(t, LEFT, op, v, org, q, S)
  <2>1. /\ EntryIn(t, q.leaf, q.entry) /\ Stands(t, q, org, op, v) /\ Fresh(t, q, op, v, S)
        /\ Before(low, q.leaf, q.entry, org)
        /\ \A S2 : Takes(t, q, S, S2) => SeenLeft(t, low, org, q, op, v, S2)
    BY <1>1, <1>2, <1>3, LeftSeen
  <2>2. ASSUME NEW S2, Takes(t, q, S, S2)
        PROVE  Stood(t, LEFT, op, v, org, q, S2)
    <3>1. LeftOf(t, op, v, org, q, S2)
      BY <1>2, <2>1, <2>2 DEF LeftOf
    <3> QED BY <3>1 DEF Stood, LEFT, RIGHT, NOTDEFINED
  <2> QED BY <2>1, <2>2 DEF Offers
<1>4. ASSUME ~Matches(t, q, op, v)
      PROVE  Stood(t, RIGHT, op, v, org, org, S)
  <2>1. SeenRight(t, low, org, op, v, S)
    BY <1>1, <1>2, <1>4, LeftTurns
  <2>2. RightOf(t, op, v, org, org, S)
    BY <1>2, <2>1 DEF RightOf, Stands
  <2> QED BY <2>2 DEF Stood, LEFT, RIGHT, NOTDEFINED
<1> QED BY <1>3, <1>4

LEMMA RightKnows ==
  ASSUME Fits, NEW t, Whole(t), PairsOnce(t), NEW op, NEW v, NEW D, Asks(t, op, v, D),
         NEW org, NEW pos, NEW S, Stood(t, RIGHT, op, v, org, pos, S),
         NEW q, q = Neighbour(t, RIGHT, pos)
  PROVE  /\ Matches(t, q, op, v) => Offers(t, RIGHT, op, v, org, q, S)
         /\ ~Matches(t, q, op, v) => D \subseteq S
<1>1. DifferencesFit /\ op \in EQ_OP..NE_OP /\ v \in Value /\ Few(t, op, v)
  BY DEF Fits, Asks
<1>2. PICK lev, low, high :
        /\ InOrder(t, lev, low, high)
        /\ OrgOK(t, low, high, org, op, v) /\ Stands(t, pos, org, op, v)
        /\ SeenRight(t, low, pos, op, v, S)
  BY DEF Stood, RightOf
<1>3. ASSUME Matches(t, q, op, v)
      PROVE  Offers(t, RIGHT, op, v, org, q, S)
  <2>1. /\ EntryIn(t, q.leaf, q.entry) /\ Stands(t, q, org, op, v) /\ Fresh(t, q, op, v, S)
        /\ \A S2 : Takes(t, q, S, S2) => SeenRight(t, low, q, op, v, S2)
    BY <1>1, <1>2, <1>3, RightSeen
  <2>2. ASSUME NEW S2, Takes(t, q, S, S2)
        PROVE  Stood(t, RIGHT, op, v, org, q, S2)
    <3>1. RightOf(t, op, v, org, q, S2)
      BY <1>2, <2>1, <2>2 DEF RightOf
    <3> QED BY <3>1 DEF Stood, LEFT, RIGHT, NOTDEFINED
  <2> QED BY <2>1, <2>2 DEF Offers
<1>4. ASSUME ~Matches(t, q, op, v)
      PROVE  D \subseteq S
  <2>1. \A w \in Live(t) : Holds(op, w[1], v) => w \in S
    BY <1>1, <1>2, <1>4, RightEnds
  <2> QED BY <2>1 DEF Asks
<1> QED BY <1>3, <1>4

\* An entry is marked deleted.
LEMMA MarkKnows ==
  ASSUME NEW t, Whole(t), Fits, PairsOnce(t), NEW at, InTree(t, at), NEW x,
         LiveAt(t, at.leaf, at.entry, x), NEW u, u = AM_MarkDeleted(t, at),
         NEW d, NEW op, NEW v, NEW org, NEW pos, NEW D, NEW S,
         Asks(t, op, v, D), Stood(t, d, op, v, org, pos, S)
  PROVE  Asks(u, op, v, D \ {x}) /\ Stood(u, d, op, v, org, pos, S)
<1>0. LiveBut(t, u, x) /\ Live(u) = Live(t) \ {x} /\ SameLeaves(t, u)
  BY MarkLive DEF Whole
<1>1. /\ \A o, i, w : LiveAt(u, o, i, w) <=> LiveAt(t, o, i, w) /\ w # x
      /\ \A o : IsLeaf(u, o) <=> IsLeaf(t, o)
      /\ \A o : IsLeaf(t, o) => /\ Len(u.page[o].rec) = Len(t.page[o].rec)
                                /\ \A i \in 1..Len(t.page[o].rec) :
                                     u.page[o].rec[i].value = t.page[o].rec[i].value
  BY <1>0 DEF LiveBut, SameLeaves
<1>2. \A o, i : EntryIn(u, o, i) <=> EntryIn(t, o, i)
  BY <1>1 DEF EntryIn
<1>3. \A o, i : EntryIn(t, o, i) => u.page[o].rec[i].value = t.page[o].rec[i].value
  BY <1>1 DEF EntryIn
<1>4. \A o, i : Fulfils(u, o, i, op, v) <=> Fulfils(t, o, i, op, v)
  BY <1>2, <1>3 DEF Fulfils
<1>5. \A o, i : ValueAt(u, o, i, v) <=> ValueAt(t, o, i, v)
  BY <1>2, <1>3 DEF ValueAt
<1>6. Asks(u, op, v, D \ {x})
  <2>1. Few(u, op, v)
    BY <1>5 DEF Asks, Few
  <2>2. \A w : w \in D \ {x} <=> w \in Live(u) /\ Holds(op, w[1], v)
    BY <1>0 DEF Asks
  <2> QED BY <2>1, <2>2 DEF Asks
<1>7. \A p : InTree(u, p) <=> InTree(t, p)
  BY <1>1 DEF InTree
<1>8. ASSUME NEW lev, NEW low, NEW high, InOrder(t, lev, low, high)
      PROVE  InOrder(u, lev, low, high)
  <2>1. Shape(t, lev, NoNode, NoNode) /\ Ordered(t, lev, low, high, NoNode, NoNode, NoNode)
    BY <1>8 DEF InOrder
  <2>2. CopiesOK(t)
    BY DEF Whole, Good, Sound
  <2>3. /\ at.leaf \in 1..Len(t.page) /\ lev[at.leaf] = 0
        /\ at.entry \in 1..Len(t.page[at.leaf].rec)
    BY <2>1, LeafLevel DEF LiveAt, EntryIn
  <2>4. Ordered(u, lev, low, high, NoNode, NoNode, NoNode)
    BY <2>1, <2>2, <2>3, MarkOrder
  <2>5. Shape(u, lev, NoNode, NoNode)
    BY <2>1, <2>3, MarkShape
  <2> QED BY <2>4, <2>5 DEF InOrder
<1>9. ASSUME NEW low, NEW high, OrgOK(t, low, high, org, op, v)
      PROVE  OrgOK(u, low, high, org, op, v)
  BY <1>4, <1>7, <1>9 DEF OrgOK, Within
<1>10. Stands(t, pos, org, op, v) => Stands(u, pos, org, op, v)
  BY <1>4 DEF Stands
<1>11. \A low : SeenLeft(t, low, org, pos, op, v, S) => SeenLeft(u, low, org, pos, op, v, S)
  BY <1>1, <1>4 DEF SeenLeft
<1>12. \A low : SeenRight(t, low, pos, op, v, S) => SeenRight(u, low, pos, op, v, S)
  BY <1>1, <1>4 DEF SeenRight
<1>13. LeftOf(t, op, v, org, pos, S) => LeftOf(u, op, v, org, pos, S)
  <2>1. SUFFICES ASSUME LeftOf(t, op, v, org, pos, S) PROVE LeftOf(u, op, v, org, pos, S)
    OBVIOUS
  <2>2. PICK lev, low, high :
          /\ InOrder(t, lev, low, high)
          /\ OrgOK(t, low, high, org, op, v) /\ Stands(t, pos, org, op, v)
          /\ pos = org \/ Before(low, pos.leaf, pos.entry, org)
          /\ SeenLeft(t, low, org, pos, op, v, S)
    BY <2>1 DEF LeftOf
  <2>3. /\ InOrder(u, lev, low, high)
        /\ OrgOK(u, low, high, org, op, v) /\ Stands(u, pos, org, op, v)
        /\ SeenLeft(u, low, org, pos, op, v, S)
    BY <1>8, <1>9, <1>10, <1>11, <2>2
  <2> QED BY <2>2, <2>3 DEF LeftOf
<1>14. RightOf(t, op, v, org, pos, S) => RightOf(u, op, v, org, pos, S)
  <2>1. SUFFICES ASSUME RightOf(t, op, v, org, pos, S) PROVE RightOf(u, op, v, org, pos, S)
    OBVIOUS
  <2>2. PICK lev, low, high :
          /\ InOrder(t, lev, low, high)
          /\ OrgOK(t, low, high, org, op, v) /\ Stands(t, pos, org, op, v)
          /\ SeenRight(t, low, pos, op, v, S)
    BY <2>1 DEF RightOf
  <2>3. /\ InOrder(u, lev, low, high)
        /\ OrgOK(u, low, high, org, op, v) /\ Stands(u, pos, org, op, v)
        /\ SeenRight(u, low, pos, op, v, S)
    BY <1>8, <1>9, <1>10, <1>12, <2>2
  <2> QED BY <2>3 DEF RightOf
<1> QED BY <1>6, <1>13, <1>14 DEF Stood

\* A scan with one of the conditions that are only for values with few entries.
LEMMA FewAre ==
  ASSUME NEW t, Whole(t), NEW op, NEW v,
         op = LT_OP => Copies(t, v) <= 1, op = NE_OP => Copies(t, v) <= 0
  PROVE  Few(t, op, v)
<1>1. PICK lev : Shape(t, lev, NoNode, NoNode) /\ Pages(t, lev)
  BY DEF Whole, Good, Shape
<1>2. IsFiniteSet(Places(t, v)) /\ Copies(t, v) = Cardinality(Places(t, v)) /\ Copies(t, v) \in Nat
  BY <1>1, PlacesFinite
<1>3. ASSUME NEW o, NEW i, ValueAt(t, o, i, v)
      PROVE  <<o, i>> \in Places(t, v)
  <2>1. o \in 1..Len(t.page) /\ lev[o] = 0
    BY <1>1, <1>3, LeafLevel DEF ValueAt, EntryIn
  <2>2. i \in 1..Len(t.page[o].rec) /\ t.page[o].rec[i].value = v
    BY <1>3 DEF ValueAt, EntryIn
  <2> QED BY <1>1, <2>1, <2>2, PlaceIn
<1>4. ASSUME op = LT_OP, NEW o, NEW i, NEW p, NEW j, ValueAt(t, o, i, v), ValueAt(t, p, j, v)
      PROVE  o = p
  <2>1. <<o, i>> \in Places(t, v) /\ <<p, j>> \in Places(t, v)
    BY <1>3, <1>4
  <2>2. Cardinality(Places(t, v)) \in Nat /\ Cardinality(Places(t, v)) <= 1
    BY <1>2, <1>4
  <2>3. <<o, i>> = <<p, j>>
    <3>1. SUFFICES ASSUME <<o, i>> # <<p, j>> PROVE FALSE
      OBVIOUS
    <3>2. PICK a, b : a = <<o, i>> /\ b = <<p, j>>
      OBVIOUS
    <3>3. {a, b} \in SUBSET Places(t, v) /\ a # b
      BY <2>1, <3>1, <3>2
    <3>4. IsFiniteSet({a}) /\ Cardinality({a}) = 1 /\ IsFiniteSet({a, b})
          /\ Cardinality({a, b}) = 2
      <4>1. IsFiniteSet({a}) /\ Cardinality({a}) = 1
        BY FS_Singleton
      <4>2. {a} \cup {b} = {a, b} /\ b \notin {a}
        BY <3>3
      <4>3. IsFiniteSet({a} \cup {b}) /\ Cardinality({a} \cup {b}) = Cardinality({a}) + 1
        BY <4>1, <4>2, FS_AddElement
      <4> QED BY <4>1, <4>2, <4>3
    <3>5. Cardinality({a, b}) <= Cardinality(Places(t, v))
      BY <1>2, <3>3, FS_Subset
    <3> QED BY <2>2, <3>4, <3>5
  <2> QED BY <2>3
<1>5. ASSUME op = NE_OP, NEW o, NEW i, ValueAt(t, o, i, v)
      PROVE  FALSE
  <2>1. Places(t, v) # {}
    BY <1>3, <1>5
  <2>2. Cardinality(Places(t, v)) = 0
    BY <1>2, <1>5
  <2>3. Places(t, v) = {}
    BY <1>2, <2>2, FS_EmptySet
  <2> QED BY <2>1, <2>3
<1> QED BY <1>4, <1>5 DEF Few

-----------------------------------------------------------------------------
(* Scans of the table. *)

\* No value is mangled when it is copied over what an earlier scan has left.
ValuesCopied == \A old \in Value \cup {0}, v \in Value : Copied(old, v) = v

\* Scans for values below v, and for values other than v.
Limits == /\ LT_OP \in Op => Limit[LT_OP] <= 1
          /\ NE_OP \in Op => Limit[NE_OP] <= 0
          /\ \A op \in Op : Limit[op] \in Nat

ScanKnows(sd) ==
  /\ Asks(ScanTree(sd), am_scan_table[sd].op, am_scan_table[sd].value, due[sd])
  /\ Stood(ScanTree(sd), am_scan_table[sd].direction, am_scan_table[sd].op,
           am_scan_table[sd].value, am_scan_table[sd].org, am_scan_table[sd].pos, seen[sd])

Knowing ==
  /\ DOMAIN due = Fd /\ DOMAIN seen = Fd
  /\ \A sd \in Fd : am_scan_table[sd].value \in Value \cup {0}
  /\ call.at = "find" => NoId \notin seen[call.sd]
  /\ \A sd \in OpenScans : NoId \notin seen[sd] => ScanKnows(sd)

KInv == SInv /\ Knowing

LEMMA ScanOpen ==
  ASSUME TInv, NEW sd \in OpenScans, NEW fd, fd = am_scan_table[sd].fileDesc
  PROVE  /\ sd \in Fd /\ fd \in Fd /\ fd \in OpenFds /\ ScanTree(sd) = Tree(fd)
         /\ ScanTree(sd) = index[am_index_table[fd].fileName]
<1>1. fd \in OpenFds /\ sd \in Fd
  BY DEF TInv, AInv, EntryOwnsFile, Readable, Usable, OpenScans
<1> QED BY <1>1 DEF OpenFds, ScanTree, Tree

LEMMA KnowsStay ==
  ASSUME Knowing, UNCHANGED <<am_scan_table, due, seen>>, call'.at # "find",
         \A sd \in OpenScans : ScanTree(sd)' = ScanTree(sd)
  PROVE  Knowing'
<1>1. OpenScans' = OpenScans
  BY DEF OpenScans
<1>2. ASSUME NEW sd \in OpenScans', NoId \notin seen'[sd]
      PROVE  ScanKnows(sd)'
  <2>1. sd \in OpenScans /\ ScanKnows(sd) /\ ScanTree(sd)' = ScanTree(sd)
    BY <1>1, <1>2 DEF Knowing
  <2> QED BY <2>1 DEF ScanKnows
<1> QED BY <1>2 DEF Knowing

\* The trees of scans when files stay as they are, and their names.
LEMMA TreesKept ==
  ASSUME TInv, UNCHANGED <<index, am_scan_table>>,
         \A f \in OpenFds : am_index_table'[f].fileName = am_index_table[f].fileName
  PROVE  \A sd \in OpenScans : ScanTree(sd)' = ScanTree(sd)
<1>1. ASSUME NEW sd \in OpenScans PROVE ScanTree(sd)' = ScanTree(sd)
  <2>1. PICK fd : fd = am_scan_table[sd].fileDesc
    OBVIOUS
  <2>2. am_index_table'[fd].fileName = am_index_table[fd].fileName
    BY <2>1, ScanOpen
  <2> QED BY <2>1, <2>2 DEF ScanTree, Tree
<1> QED BY <1>1

LEMMA SameTables ==
  ASSUME TInv, UNCHANGED <<index, tables>>
  PROVE  \A sd \in OpenScans : ScanTree(sd)' = ScanTree(sd)
BY TreesKept DEF tables

\* A file that no scan reads gets another content.
LEMMA OthersKept ==
  ASSUME TInv, UNCHANGED tables, NEW n, NEW u, index' = [index EXCEPT ![n] = u],
         \A sd \in OpenScans : am_index_table[am_scan_table[sd].fileDesc].fileName # n
  PROVE  \A sd \in OpenScans : ScanTree(sd)' = ScanTree(sd)
<1>1. ASSUME NEW sd \in OpenScans PROVE ScanTree(sd)' = ScanTree(sd)
  <2>1. PICK fd, m : fd = am_scan_table[sd].fileDesc /\ m = am_index_table[fd].fileName
    OBVIOUS
  <2>2. m # n
    BY <2>1
  <2>3. index'[m] = index[m]
    <3>1. m \in Name /\ DOMAIN index = Name
      BY <2>1, ScanOpen, OpenTree DEF TInv
    <3> QED BY <2>2, <3>1
  <2> QED BY <2>1, <2>3 DEF ScanTree, Tree, tables
<1> QED BY <1>1

LEMMA WriteKept ==
  ASSUME TInv, UNCHANGED tables, NEW fd \in OpenFds, ScansOf(fd) = {}, NEW u, Writes(fd, u)
  PROVE  \A sd \in OpenScans : ScanTree(sd)' = ScanTree(sd)
<1>1. PICK n : n = am_index_table[fd].fileName
  OBVIOUS
<1>2. index' = [index EXCEPT ![n] = u]
  BY <1>1 DEF Writes
<1>3. ASSUME NEW sd \in OpenScans
      PROVE  am_index_table[am_scan_table[sd].fileDesc].fileName # n
  <2>1. PICK f : f = am_scan_table[sd].fileDesc
    OBVIOUS
  <2>2. f \in OpenFds /\ f # fd
    BY <2>1, ScanOpen DEF ScansOf
  <2> QED BY <1>1, <2>1, <2>2 DEF TInv, AInv, NamesApart
<1> QED BY <1>2, <1>3, OthersKept

LEMMA FileKnows ==
  ASSUME KInv, NEW n \in Name, AFile(n), Kept
  PROVE  Knowing'
<1>0. TInv
  BY DEF KInv, SInv
<1>1. /\ UNCHANGED <<due, seen>> /\ Idle /\ call' = call
      /\ am_scan_table' = am_scan_table
  BY DEF Kept, AFile, AM_CreateIndex, AM_OpenIndex, CreateRefused, DestroyRefused, OpenRefused,
         AM_DestroyIndex, Refuses, tables
<1>2. call'.at # "find"
  BY <1>1 DEF Idle, None
<1>3. \A f \in OpenFds : am_index_table[f].fileName \in Name
  BY <1>0, OpenTree
<1>4. CASE AM_CreateIndex(n)
  <2>1. /\ index' = [index EXCEPT ![n] = EmptyTree] /\ UNCHANGED tables /\ index[n] = Missing
    BY <1>4 DEF AM_CreateIndex
  <2>2. ASSUME NEW sd \in OpenScans
        PROVE  am_index_table[am_scan_table[sd].fileDesc].fileName # n
    <3>1. PICK f : f = am_scan_table[sd].fileDesc
      OBVIOUS
    <3>2. f \in OpenFds /\ Tree(f) = index[am_index_table[f].fileName]
      BY <1>0, <3>1, ScanOpen DEF Tree
    <3> QED BY <1>0, <2>1, <3>1, <3>2 DEF TInv, OpenHave
  <2>3. \A sd \in OpenScans : ScanTree(sd)' = ScanTree(sd)
    BY <1>0, <2>1, <2>2, OthersKept
  <2> QED BY <1>1, <1>2, <2>3, KnowsStay DEF KInv
<1>5. CASE AM_DestroyIndex(n)
  <2>1. /\ index' = [index EXCEPT ![n] = Missing] /\ UNCHANGED tables /\ ~PF_SearchTable(n)
    BY <1>5 DEF AM_DestroyIndex
  <2>2. \A f \in OpenFds : am_index_table[f].fileName # n
    BY <1>0, <2>1 DEF PF_SearchTable, TInv, AInv, EntryOwnsFile, Usable, OpenNamed
  <2>3. ASSUME NEW sd \in OpenScans
        PROVE  am_index_table[am_scan_table[sd].fileDesc].fileName # n
    BY <1>0, <2>2, ScanOpen
  <2>4. \A sd \in OpenScans : ScanTree(sd)' = ScanTree(sd)
    BY <1>0, <2>1, <2>3, OthersKept
  <2> QED BY <1>1, <1>2, <2>4, KnowsStay DEF KInv
<1>6. CASE AM_OpenIndex(n)
  <2>1. PICK g, new : /\ g = Max(Fd \ OpenFds) /\ index' = index
                      /\ am_index_table' = [am_index_table EXCEPT ![g] = new]
    BY <1>6 DEF AM_OpenIndex
  <2>2. g \notin OpenFds
    <3>1. Fd \ OpenFds \in SUBSET Fd /\ Fd \ OpenFds # {}
      BY <1>6 DEF OpenFds, AM_OpenIndex
    <3>2. g \in Fd \ OpenFds
      BY <2>1, <3>1, GreatestFree
    <3> QED BY <3>2
  <2>3. \A f \in OpenFds : am_index_table'[f] = am_index_table[f]
    BY <1>0, <2>1, <2>2 DEF TInv, AInv, Tables, OpenFds
  <2>4. \A sd \in OpenScans : ScanTree(sd)' = ScanTree(sd)
    BY <1>0, <1>1, <2>1, <2>3, TreesKept
  <2> QED BY <1>1, <1>2, <2>4, KnowsStay DEF KInv
<1>7. CASE CreateRefused(n) \/ DestroyRefused(n) \/ OpenRefused(n)
  <2>1. UNCHANGED <<index, tables>>
    BY <1>7 DEF CreateRefused, DestroyRefused, OpenRefused, Refuses
  <2> QED BY <1>0, <1>1, <1>2, <2>1, SameTables, KnowsStay DEF KInv
<1> QED BY <1>4, <1>5, <1>6, <1>7 DEF AFile

LEMMA RefusedKnows ==
  ASSUME KInv, NEW code, Refuses(code), Kept
  PROVE  Knowing'
<1>1. /\ UNCHANGED <<index, tables, due, seen, am_scan_table>> /\ call' = None
  BY DEF Refuses, Idle, Kept, tables
<1>2. call'.at # "find"
  BY <1>1 DEF None
<1> QED BY <1>1, <1>2, SameTables, KnowsStay DEF KInv, SInv

LEMMA CloseKnows ==
  ASSUME KInv, NEW fd \in Fd, AClose(fd), Kept
  PROVE  Knowing'
<1>1. CASE CloseRefused(fd)
  BY <1>1, RefusedKnows DEF CloseRefused
<1>2. CASE AM_CloseIndex(fd)
  <2>1. /\ Idle /\ index' = index /\ call' = call /\ am_scan_table' = am_scan_table
        /\ am_index_table' = [am_index_table EXCEPT ![fd].valid = FALSE]
    BY <1>2 DEF AM_CloseIndex, PF_CloseFile
  <2>2. /\ DOMAIN am_index_table = Fd
        /\ DOMAIN am_index_table[fd] = {"valid", "scan_active", "fileName", "pf_fd"}
    BY DEF KInv, SInv, TInv, AInv, Tables
  <2>3. \A f \in OpenFds : am_index_table'[f].fileName = am_index_table[f].fileName
    BY <2>1, <2>2 DEF OpenFds
  <2>4. call'.at # "find"
    BY <2>1 DEF Idle, None
  <2> QED BY <2>1, <2>3, <2>4, TreesKept, KnowsStay DEF KInv, SInv, Kept
<1> QED BY <1>1, <1>2 DEF AClose

LEMMA InsertKnows ==
  ASSUME KInv, NEW fd \in Fd, AInsert(fd)
  PROVE  Knowing'
<1>1. PICK v, id : AM_InsertEntry(fd, v, id) \/ InsertSplit(fd, v, id)
  BY DEF AInsert
<1>2. fd \in OpenFds /\ ScansOf(fd) = {} /\ UNCHANGED <<due, seen>>
  BY DEF AInsert, Usable
<1>3. PICK u : Writes(fd, u) /\ UNCHANGED tables
  BY <1>1 DEF AM_InsertEntry, InsertSplit
<1>4. call'.at # "find"
  BY <1>1 DEF AM_InsertEntry, InsertSplit, Idle, None
<1>5. am_scan_table' = am_scan_table
  BY <1>3 DEF tables
<1> QED BY <1>2, <1>3, <1>4, <1>5, WriteKept, KnowsStay DEF KInv, SInv

LEMMA ClimbKnows ==
  ASSUME KInv, AClimb
  PROVE  Knowing'
<1>1. call.at = "climb" /\ UNCHANGED tables /\ UNCHANGED <<due, seen>>
  BY DEF AClimb, ClimbNewRoot, ClimbPlace, ClimbSplit, Kept
<1>2. PICK u : Writes(call.fd, u)
  BY DEF AClimb, ClimbNewRoot, ClimbPlace, ClimbSplit
<1>3. /\ call.fd \in OpenFds /\ ScansOf(call.fd) = {}
      /\ DOMAIN call = {"at", "fd", "offset", "key", "old", "after"}
  BY <1>1, ClimbTree DEF KInv, SInv
<1>4. call'.at # "find"
  <2>1. CASE call' = None
    BY <2>1 DEF None
  <2>2. CASE ClimbSplit
    BY <1>1, <1>3, <2>2 DEF ClimbSplit
  <2> QED BY <2>1, <2>2 DEF AClimb, ClimbNewRoot, ClimbPlace
<1>5. am_scan_table' = am_scan_table
  BY <1>1 DEF tables
<1> QED BY <1>1, <1>2, <1>3, <1>4, <1>5, WriteKept, KnowsStay DEF KInv, SInv

LEMMA StutterKnows ==
  ASSUME KInv, UNCHANGED avars
  PROVE  Knowing'
<1>1. UNCHANGED <<index, tables, call, due, seen, am_scan_table>>
  BY DEF avars, tables
<1>2. OpenScans' = OpenScans /\ \A sd \in OpenScans : ScanTree(sd)' = ScanTree(sd)
  BY <1>1, SameTables DEF KInv, SInv, OpenScans
<1>3. ASSUME NEW sd \in OpenScans', NoId \notin seen'[sd]
      PROVE  ScanKnows(sd)'
  <2>1. sd \in OpenScans /\ ScanKnows(sd) /\ ScanTree(sd)' = ScanTree(sd)
    BY <1>1, <1>2, <1>3 DEF KInv, Knowing
  <2> QED BY <1>1, <2>1 DEF ScanKnows
<1> QED BY <1>1, <1>3 DEF KInv, Knowing

LEMMA CopiesNat ==
  ASSUME NEW t, Whole(t), NEW v
  PROVE  Copies(t, v) \in Nat
<1>1. PICK lev : Pages(t, lev)
  BY DEF Whole, Good, Shape
<1> QED BY <1>1, PlacesFinite

LEMMA OpenScanKnows ==
  ASSUME ValuesCopied, Limits, KInv, NEW fd \in Fd, NEW op \in Op, NEW v \in Value,
         AOpenScan(fd, op, v)
  PROVE  Knowing'
<1>a. PICK s : s = Max(FreeScans)
  OBVIOUS
<1> DEFINE new == [valid |-> TRUE, fileDesc |-> fd, pf_fd |-> am_index_table[fd].pf_fd,
                   op |-> op, value |-> Copied(am_scan_table[s].value, v),
                   org |-> Nowhere, pos |-> Nowhere, direction |-> NOTDEFINED]
           D == {e \in Live(Tree(fd)) : Holds(op, e[1], v)}
<1>0. TInv
  BY DEF KInv, SInv
<1>1. s \in Fd /\ s \notin OpenScans
  <2>1. FreeScans \in SUBSET Fd /\ FreeScans # {}
    BY DEF FreeScans, AOpenScan, AM_OpenIndexScan
  <2>2. s \in FreeScans
    BY <1>a, <2>1, GreatestFree
  <2> QED BY <2>2 DEF FreeScans
<1>2. /\ Idle /\ index' = index /\ call' = call /\ fd \in OpenFds
      /\ am_scan_table' = [am_scan_table EXCEPT ![s] = new]
      /\ am_index_table' = [am_index_table EXCEPT ![fd].scan_active = TRUE]
      /\ due' = [due EXCEPT ![s] = D] /\ seen' = [seen EXCEPT ![s] = {}]
      /\ Copies(Tree(fd), v) <= Limit[op]
  BY <1>a DEF AOpenScan, AM_OpenIndexScan
<1>3. /\ new.direction = NOTDEFINED /\ new.fileDesc = fd /\ new.op = op
      /\ new.value = Copied(am_scan_table[s].value, v)
  OBVIOUS
<1>4. \A w : w \in D <=> w \in Live(Tree(fd)) /\ Holds(op, w[1], v)
  OBVIOUS
<1> HIDE DEF new, D
<1>5. new.value = v
  BY <1>1, <1>3 DEF ValuesCopied, KInv, Knowing
<1>6. /\ am_scan_table'[s] = new
      /\ \A sd \in Fd : sd # s => am_scan_table'[sd] = am_scan_table[sd]
  BY <1>0, <1>1, <1>2 DEF TInv, AInv, Tables
<1>7. /\ DOMAIN due' = Fd /\ DOMAIN seen' = Fd /\ due'[s] = D /\ seen'[s] = {}
      /\ \A sd \in Fd : sd # s => due'[sd] = due[sd] /\ seen'[sd] = seen[sd]
  BY <1>1, <1>2 DEF KInv, Knowing
<1>8. \A f \in Fd : am_index_table'[f].fileName = am_index_table[f].fileName
  BY <1>0, <1>2 DEF TInv, TablesTyped
<1>9. call.at # "climb" /\ call'.at # "find"
  BY <1>2, IdleCall DEF Idle, None
<1>10. PICK t : t = Tree(fd)
  OBVIOUS
<1>11. Whole(t)
  BY <1>0, <1>2, <1>9, <1>10, OpenTree
<1>12. Asks(t, op, v, D)
  <2>1. op \in EQ_OP..NE_OP
    BY AMAssumption
  <2>2. PICK c, m : c = Copies(t, v) /\ m = Limit[op]
    OBVIOUS
  <2>3. c \in Nat /\ m \in Nat /\ c <= m /\ (op = LT_OP => m <= 1) /\ (op = NE_OP => m <= 0)
    BY <1>2, <1>10, <1>11, <2>2, CopiesNat DEF Limits
  <2>4. (op = LT_OP => c <= 1) /\ (op = NE_OP => c <= 0)
    BY <2>3
  <2>5. Few(t, op, v)
    BY <1>11, <2>2, <2>4, FewAre
  <2> QED BY <1>4, <1>10, <2>1, <2>5 DEF Asks
<1>13. ScanTree(s)' = t
  BY <1>2, <1>3, <1>6, <1>8, <1>10 DEF ScanTree, Tree
<1>14. ScanKnows(s)'
  <2>1. Stood(t, NOTDEFINED, op, v, new.org, new.pos, {})
    BY DEF Stood, NOTDEFINED, LEFT, RIGHT
  <2> QED BY <1>3, <1>5, <1>6, <1>7, <1>12, <1>13, <2>1 DEF ScanKnows
<1>15. ASSUME NEW sd \in OpenScans', NoId \notin seen'[sd]
       PROVE  ScanKnows(sd)'
  <2>1. CASE sd = s
    BY <1>14, <2>1
  <2>2. CASE sd # s
    <3>1. /\ sd \in OpenScans /\ sd \in Fd /\ am_scan_table'[sd] = am_scan_table[sd]
          /\ due'[sd] = due[sd] /\ seen'[sd] = seen[sd]
      BY <1>6, <1>7, <2>2 DEF OpenScans
    <3>2. ScanKnows(sd)
      BY <1>15, <3>1 DEF KInv, Knowing
    <3>3. am_scan_table[sd].fileDesc \in Fd
      BY <1>0, <3>1, ScanOpen
    <3>4. ScanTree(sd)' = ScanTree(sd)
      BY <1>2, <1>8, <3>1, <3>3 DEF ScanTree, Tree
    <3> QED BY <3>1, <3>2, <3>4 DEF ScanKnows
  <2> QED BY <2>1, <2>2
<1>16. \A sd \in Fd : am_scan_table'[sd].value \in Value \cup {0}
  BY <1>5, <1>6 DEF KInv, Knowing
<1> QED BY <1>7, <1>9, <1>15, <1>16 DEF Knowing

LEMMA CloseScanKnows ==
  ASSUME KInv, NEW sd \in Fd, ACloseScan(sd)
  PROVE  Knowing'
<1>0. TInv
  BY DEF KInv, SInv
<1>1. PICK fd : fd = am_scan_table[sd].fileDesc
  OBVIOUS
<1>2. /\ Idle /\ index' = index /\ call' = call /\ sd \in OpenScans
      /\ am_scan_table' = [am_scan_table EXCEPT ![sd].valid = FALSE]
      /\ am_index_table' = [am_index_table EXCEPT ![fd].scan_active = FALSE]
      /\ due' = [due EXCEPT ![sd] = {}] /\ seen' = [seen EXCEPT ![sd] = {}]
  BY <1>1 DEF ACloseScan, AM_CloseIndexScan
<1>3. fd \in Fd
  BY <1>0, <1>1, <1>2, ScanOpen
<1>4. /\ DOMAIN am_scan_table[sd] =
           {"valid", "fileDesc", "pf_fd", "op", "value", "org", "pos", "direction"}
      /\ DOMAIN am_scan_table = Fd
  BY <1>0 DEF TInv, AInv, Tables
<1>5. /\ ~am_scan_table'[sd].valid /\ am_scan_table'[sd].value = am_scan_table[sd].value
      /\ \A s \in Fd : s # sd => am_scan_table'[s] = am_scan_table[s]
  BY <1>2, <1>4
<1>6. \A f \in Fd : am_index_table'[f].fileName = am_index_table[f].fileName
  BY <1>0, <1>2, <1>3 DEF TInv, TablesTyped
<1>7. /\ DOMAIN due' = Fd /\ DOMAIN seen' = Fd
      /\ \A s \in Fd : s # sd => due'[s] = due[s] /\ seen'[s] = seen[s]
  BY <1>2 DEF KInv, Knowing
<1>8. call'.at # "find"
  BY <1>2 DEF Idle, None
<1>9. ASSUME NEW s \in OpenScans', NoId \notin seen'[s]
      PROVE  ScanKnows(s)'
  <2>1. s # sd
    BY <1>5 DEF OpenScans
  <2>2. /\ s \in OpenScans /\ s \in Fd /\ am_scan_table'[s] = am_scan_table[s]
        /\ due'[s] = due[s] /\ seen'[s] = seen[s]
    BY <1>5, <1>7, <2>1 DEF OpenScans
  <2>3. ScanKnows(s)
    BY <1>9, <2>2 DEF KInv, Knowing
  <2>4. am_scan_table[s].fileDesc \in Fd
    BY <1>0, <2>2, ScanOpen
  <2>5. ScanTree(s)' = ScanTree(s)
    BY <1>2, <1>6, <2>2, <2>4 DEF ScanTree, Tree
  <2> QED BY <2>2, <2>3, <2>5 DEF ScanKnows
<1>10. \A s \in Fd : am_scan_table'[s].value \in Value \cup {0}
  BY <1>5 DEF KInv, Knowing
<1> QED BY <1>7, <1>8, <1>9, <1>10 DEF Knowing

-----------------------------------------------------------------------------
(* A deletion while scans run. *)

LEMMA MarksKnow ==
  ASSUME Fits, KInv, NEW fd \in OpenFds, call.at # "climb", NEW pos, NEW v, NEW id,
         LiveAt(Tree(fd), pos.leaf, pos.entry, <<v, id>>), InTree(Tree(fd), pos),
         Marks(fd, pos, v, id), Forgets(fd, v, id), seen' = seen
  PROVE  Knowing'
<1>0. TInv
  BY DEF KInv, SInv
<1>1. PICK t, u, x : t = Tree(fd) /\ u = AM_MarkDeleted(t, pos) /\ x = <<v, id>>
  OBVIOUS
<1>2. /\ Writes(fd, u) /\ call' = None /\ UNCHANGED tables /\ am_scan_table' = am_scan_table
      /\ due' = [sd \in Fd |-> IF sd \in ScansOf(fd) THEN due[sd] \ {x} ELSE due[sd]]
  BY <1>1 DEF Marks, Forgets, tables
<1>3. Whole(t) /\ PairsOnce(t)
  BY <1>0, <1>1, OpenTree, OpenSeen DEF KInv, SInv, OnceEach
<1>4. u \notin {Missing, Headless}
  <2>1. pos.entry # 0 /\ InTree(t, pos)
    <3>1. EntryIn(t, pos.leaf, pos.entry)
      BY <1>1 DEF LiveAt
    <3>2. pos.entry \in Nat \ {0}
      BY <1>3, <3>1, EntryRec DEF Whole
    <3> QED BY <1>1, <3>2
  <2> QED BY <1>1, <1>3, <2>1, GoodMark, GoodThere DEF Whole
<1>5. /\ Tree(fd)' = u /\ \A f \in OpenFds : f # fd => Tree(f)' = Tree(f)
  BY <1>0, <1>2, <1>4, WriteIs
<1>6. OpenScans' = OpenScans /\ call'.at # "find"
  BY <1>2 DEF OpenScans, None
<1>7. ASSUME NEW sd \in OpenScans', NoId \notin seen'[sd]
      PROVE  ScanKnows(sd)'
  <2>1. PICK f : f = am_scan_table[sd].fileDesc
    OBVIOUS
  <2>2. sd \in OpenScans /\ sd \in Fd /\ f \in OpenFds /\ ScanTree(sd) = Tree(f) /\ ScanKnows(sd)
    BY <1>0, <1>6, <1>7, <2>1, ScanOpen DEF KInv, Knowing
  <2>3. ScanTree(sd)' = Tree(f)'
    BY <1>2, <2>1 DEF ScanTree, tables
  <2>4. CASE f = fd
    <3>1. due'[sd] = due[sd] \ {x} /\ ScanTree(sd) = t /\ ScanTree(sd)' = u
      BY <1>1, <1>2, <1>5, <2>1, <2>2, <2>3, <2>4 DEF ScansOf
    <3>2. PICK d, op, y, org, p, D, S :
            /\ d = am_scan_table[sd].direction /\ op = am_scan_table[sd].op
            /\ y = am_scan_table[sd].value /\ org = am_scan_table[sd].org
            /\ p = am_scan_table[sd].pos /\ D = due[sd] /\ S = seen[sd]
      OBVIOUS
    <3>3. Asks(t, op, y, D) /\ Stood(t, d, op, y, org, p, S)
      BY <2>2, <3>1, <3>2 DEF ScanKnows
    <3>4. LiveAt(t, pos.leaf, pos.entry, x) /\ InTree(t, pos)
      BY <1>1
    <3>5. Asks(u, op, y, D \ {x}) /\ Stood(u, d, op, y, org, p, S)
      BY <1>1, <1>3, <3>3, <3>4, MarkKnows
    <3> QED BY <1>2, <3>1, <3>2, <3>5 DEF ScanKnows
  <2>5. CASE f # fd
    <3>1. due'[sd] = due[sd]
      BY <1>2, <2>1, <2>2, <2>5 DEF ScansOf
    <3>2. ScanTree(sd)' = ScanTree(sd)
      BY <1>5, <2>2, <2>3, <2>5
    <3> QED BY <1>2, <2>2, <3>1, <3>2 DEF ScanKnows
  <2> QED BY <2>4, <2>5
<1> QED BY <1>2, <1>6, <1>7 DEF KInv, Knowing

LEMMA DeleteStays ==
  ASSUME KInv, index' = index, UNCHANGED tables, UNCHANGED <<due, seen>>, call'.at # "find"
  PROVE  Knowing'
<1>1. am_scan_table' = am_scan_table
  BY DEF tables
<1> QED BY <1>1, SameTables, KnowsStay DEF KInv, SInv

LEMMA DeleteEntryKnows ==
  ASSUME Fits, KInv, NEW fd \in Fd, NEW v \in Value, NEW id \in RecId, ADelete(fd, v, id),
         IF index' = index THEN UNCHANGED due ELSE Forgets(fd, v, id), seen' = seen
  PROVE  Knowing'
<1>0. TInv
  BY DEF KInv, SInv
<1>1. PICK t, pos : t = Tree(fd) /\ pos = AM_GetFirstEntry(t, EQ_OP, v)
  OBVIOUS
<1>2. /\ fd \in OpenFds /\ Idle
      /\ IF pos.entry = Start THEN NotFound(v, id)
         ELSE IF Sought(t, pos, id) THEN Marks(fd, pos, v, id)
         ELSE /\ call' = [at |-> "delete", fd |-> fd, value |-> v, id |-> id,
                          pos |-> pos, direction |-> LEFT]
              /\ UNCHANGED <<index, tables, res>>
  BY <1>1 DEF ADelete, Usable, AM_DeleteEntry
<1>3. call.at # "climb"
  BY <1>2, IdleCall DEF Idle
<1>4. Whole(t) /\ InTree(t, pos)
  <2>1. Whole(t)
    BY <1>0, <1>1, <1>2, <1>3, OpenTree
  <2> QED BY <1>1, <2>1, GoodFirst DEF Whole
<1>5. CASE pos.entry # Start /\ Sought(t, pos, id) /\ index' # index
  <2>1. LiveAt(t, pos.leaf, pos.entry, <<v, id>>)
    BY <1>1, <1>4, <1>5, DeleteFirst
  <2> QED BY <1>1, <1>2, <1>3, <1>4, <1>5, <2>1, MarksKnow
<1>6. CASE index' = index
  <2>1. UNCHANGED tables /\ UNCHANGED <<due, seen>>
    BY <1>2, <1>6 DEF NotFound, Marks
  <2>2. call'.at # "find"
    BY <1>2 DEF NotFound, Marks, None
  <2> QED BY <1>6, <2>1, <2>2, DeleteStays
<1>7. CASE index' # index /\ ~(pos.entry # Start /\ Sought(t, pos, id))
  BY <1>2, <1>7 DEF NotFound
<1> QED BY <1>5, <1>6, <1>7

LEMMA DeleteNextKnows ==
  ASSUME Fits, KInv, ADeleteNext
  PROVE  Knowing'
<1>0. TInv
  BY DEF KInv, SInv
<1>1. call.at = "delete" /\ call.at # "climb" /\ DeleteOK /\ seen' = seen
  BY <1>0 DEF ADeleteNext, DeleteNext, TInv, CallOK
<1>2. PICK fd, t, v, id, d :
        fd = call.fd /\ t = Tree(fd) /\ v = call.value /\ id = call.id /\ d = call.direction
  OBVIOUS
<1>3. PICK p, q : p = call.pos /\ q = Neighbour(t, d, p)
  OBVIOUS
<1>4. fd \in OpenFds /\ d \in {LEFT, RIGHT} /\ p \in PosType /\ PosIn(t, p)
  BY <1>1, <1>2, <1>3 DEF DeleteOK
<1>5. Whole(t)
  BY <1>0, <1>1, <1>2, <1>4, OpenTree
<1>6. /\ v \in Value
      /\ d = LEFT => SoughtBefore(t, p, v, id)
      /\ d = RIGHT => <<v, id>> \notin Live(t)
  BY <1>1, <1>2, <1>3 DEF KInv, SInv, DeletionKnows
<1>7. q.leaf = NoNode \/ InTree(t, q)
  BY <1>3, <1>4, <1>5, GoodNeighbour DEF Whole, PosIn
<1>8. PICK m \in BOOLEAN : m <=> Matches(t, q, EQ_OP, v)
  OBVIOUS
<1>9. /\ IF m /\ Sought(t, q, id) THEN Marks(fd, q, v, id)
         ELSE IF ~m /\ d = RIGHT THEN NotFound(v, id)
         ELSE /\ call' = [call EXCEPT !.pos = q, !.direction = IF m THEN d ELSE RIGHT]
              /\ UNCHANGED <<index, tables, res>>
      /\ IF index' = index THEN UNCHANGED due ELSE Forgets(fd, v, id)
  BY <1>2, <1>3, <1>8 DEF ADeleteNext, DeleteNext
<1>10. CASE m /\ Sought(t, q, id) /\ index' # index
  <2>1. d = LEFT
    BY <1>3, <1>4, <1>5, <1>6, <1>8, <1>10, DeleteRight
  <2>2. LiveAt(t, q.leaf, q.entry, <<v, id>>)
    BY <1>3, <1>5, <1>6, <1>8, <1>10, <2>1, DeleteLeft
  <2>3. InTree(t, q)
    BY <1>7, <1>8, <1>10 DEF Matches
  <2> QED BY <1>1, <1>2, <1>4, <1>9, <1>10, <2>2, <2>3, MarksKnow
<1>11. CASE index' = index
  <2>1. UNCHANGED tables /\ UNCHANGED <<due, seen>>
    BY <1>1, <1>9, <1>11 DEF NotFound, Marks
  <2>2. call'.at # "find"
    <3>1. CASE call' = None
      BY <3>1 DEF None
    <3>2. CASE call' = [call EXCEPT !.pos = q, !.direction = IF m THEN d ELSE RIGHT]
      <4>1. DOMAIN call = {"at", "fd", "value", "id", "pos", "direction"}
        BY <1>1 DEF DeleteOK
      <4> QED BY <1>1, <3>2, <4>1
    <3> QED BY <1>9, <3>1, <3>2 DEF NotFound, Marks
  <2> QED BY <1>11, <2>1, <2>2, DeleteStays
<1>12. CASE index' # index /\ ~(m /\ Sought(t, q, id))
  BY <1>9, <1>12 DEF NotFound
<1> QED BY <1>10, <1>11, <1>12

-----------------------------------------------------------------------------
(* An activation of AM_FindNextEntry. *)

Exact(sd) ==
  IF Found(sd) = NoId THEN due[sd] \subseteq seen[sd]
  ELSE Found(sd) \in due[sd] \ seen[sd]

\* What comes of an activation for sd that has moved the scan to pos, from org, in
\* direction d.
Turned(sd, t, d, op, v, org, pos) ==
  /\ NoId \notin seen'[sd] => Stood(t, d, op, v, org, pos, seen'[sd])
  /\ call'.at = "find" => call'.sd = sd /\ NoId \notin seen'[sd]
  /\ call' = None => Exact(sd)

LEMMA TurnedKnows ==
  ASSUME KInv, NEW sd \in OpenScans, NEW scan, scan = am_scan_table[sd],
         NEW t, t = ScanTree(sd), NEW new, new.fileDesc = scan.fileDesc, new.op = scan.op,
         new.value = scan.value, am_scan_table' = [am_scan_table EXCEPT ![sd] = new],
         UNCHANGED <<index, am_index_table>>, Sees(sd), NoId \notin seen[sd],
         Turned(sd, t, new.direction, scan.op, scan.value, new.org, new.pos)
  PROVE  Knowing'
<1>0. TInv /\ sd \in Fd
  BY DEF KInv, SInv, OpenScans
<1>1. /\ am_scan_table'[sd] = new
      /\ \A s \in Fd : s # sd => am_scan_table'[s] = am_scan_table[s]
  BY <1>0 DEF TInv, AInv, Tables
<1>2. /\ due' = due /\ DOMAIN seen' = Fd
      /\ \A s \in Fd : s # sd => seen'[s] = seen[s]
  BY <1>0 DEF Sees, KInv, Knowing
<1>3. ScanTree(sd)' = t
  BY <1>1 DEF ScanTree, Tree
<1>4. ASSUME NEW s \in OpenScans', NoId \notin seen'[s]
      PROVE  ScanKnows(s)'
  <2>1. CASE s = sd
    <3>1. Asks(t, scan.op, scan.value, due[sd])
      BY DEF KInv, Knowing, ScanKnows
    <3>2. Stood(t, new.direction, scan.op, scan.value, new.org, new.pos, seen'[sd])
      BY <1>4, <2>1 DEF Turned
    <3>3. ScanKnows(sd)'
      BY <1>1, <1>2, <1>3, <3>1, <3>2 DEF ScanKnows
    <3> QED BY <2>1, <3>3
  <2>2. CASE s # sd
    <3>1. s \in OpenScans /\ s \in Fd /\ am_scan_table'[s] = am_scan_table[s] /\ seen'[s] = seen[s]
      BY <1>1, <1>2, <2>2 DEF OpenScans
    <3>2. ScanKnows(s)
      BY <1>4, <3>1 DEF KInv, Knowing
    <3>3. ScanTree(s)' = ScanTree(s)
      BY <3>1 DEF ScanTree, Tree
    <3> QED BY <1>2, <3>1, <3>2, <3>3 DEF ScanKnows
  <2> QED BY <2>1, <2>2
<1>5. \A s \in Fd : am_scan_table'[s].value \in Value \cup {0}
  BY <1>0, <1>1 DEF KInv, Knowing
<1>6. call'.at = "find" => NoId \notin seen'[call'.sd]
  BY DEF Turned
<1> QED BY <1>2, <1>4, <1>5, <1>6 DEF KInv, Knowing

LEMMA AgainMoves ==
  ASSUME NEW sd, NEW t, NEW d, NEW op, NEW v, NEW org, NEW pos, NoId \notin seen[sd],
         Stood(t, d, op, v, org, pos, seen[sd]), Again(sd), Sees(sd)
  PROVE  Turned(sd, t, d, op, v, org, pos)
<1>1. call' = [at |-> "find", sd |-> sd] /\ call' # None
  BY DEF Again, None
<1>2. seen' = seen
  BY <1>1 DEF Sees
<1> QED BY <1>1, <1>2 DEF Turned

LEMMA OfferMoves ==
  ASSUME NEW sd \in Fd, DOMAIN seen = Fd, NEW t, t = ScanTree(sd), Whole(t),
         NEW d, NEW op, NEW v, NEW org, NEW q, am_scan_table'[sd].pos = q,
         NEW S, S = seen[sd], NoId \notin S, Asks(t, op, v, due[sd]),
         Offers(t, d, op, v, org, q, S), HandsOut(sd, EntryAt(t, q)), Sees(sd)
  PROVE  Turned(sd, t, d, op, v, org, q)
<1>1. PICK r : r = t.page[q.leaf].rec[q.entry]
  OBVIOUS
<1>2. HandsOut(sd, r) /\ EntryAt(t, q) = r
  BY <1>1 DEF EntryAt
<1>3. CASE r.deleted
  <2>1. Again(sd)
    BY <1>2, <1>3 DEF HandsOut
  <2>2. Stood(t, d, op, v, org, q, S)
    BY <1>1, <1>3 DEF Offers, Takes
  <2> QED BY <2>1, <2>2, AgainMoves
<1>4. CASE ~r.deleted
  <2>1. ReturnsId(r.recId) /\ call' = None
    BY <1>2, <1>4 DEF HandsOut
  <2>2. Found(sd) = PairOf(r)
    <3>1. res'.code # AME_EOF /\ res'.id = r.recId
      BY <2>1 DEF ReturnsId, AME_OK, AME_EOF
    <3> QED BY <1>2, <3>1 DEF Found, PairOf
  <2>3. PairOf(r) \in Live(t) /\ Holds(op, PairOf(r)[1], v) /\ PairOf(r) \notin S
    BY <1>1, <1>4 DEF Offers, Fresh
  <2>4. PairOf(r) \in Value \X RecId /\ PairOf(r) # NoId
    <3>1. r \in Rec
      BY <1>1, EntryRec DEF Offers, Whole
    <3>2. PairOf(r) \in Value \X RecId
      BY <3>1 DEF Rec, PairOf
    <3> QED BY <3>2, AMAssumption
  <2>5. PairOf(r) \in due[sd]
    BY <2>3 DEF Asks
  <2>6. Exact(sd)
    BY <2>2, <2>3, <2>4, <2>5 DEF Exact
  <2>7. seen'[sd] = S \cup {PairOf(r)}
    BY <2>1, <2>2 DEF Sees
  <2>8. Stood(t, d, op, v, org, q, seen'[sd])
    BY <1>1, <1>4, <2>7 DEF Offers, Takes
  <2>9. call'.at # "find"
    BY <2>1 DEF None
  <2> QED BY <2>6, <2>8, <2>9 DEF Turned
<1> QED BY <1>3, <1>4

LEMMA EndMoves ==
  ASSUME NEW sd \in Fd, DOMAIN seen = Fd, NEW t, NEW d, NEW op, NEW v, NEW org, NEW q,
         due[sd] \subseteq seen[sd], Returns(AME_EOF), call' = None, Sees(sd)
  PROVE  Turned(sd, t, d, op, v, org, q)
<1>1. Found(sd) = NoId
  BY DEF Found, Returns
<1>2. NoId \in seen'[sd]
  BY <1>1 DEF Sees
<1>3. call'.at # "find"
  BY DEF None
<1> QED BY <1>1, <1>2, <1>3 DEF Turned, Exact

LEMMA ActivationKnows ==
  ASSUME Fits, KInv, NEW sd \in OpenScans, NoId \notin seen[sd], Activation(sd), Sees(sd),
         call.at # "climb"
  PROVE  Knowing' /\ (call' = None => Exact(sd))
<1>0. TInv /\ sd \in Fd /\ DOMAIN seen = Fd
  BY DEF KInv, SInv, OpenScans, Knowing
<1>1. PICK scan, t, fd, S : /\ scan = am_scan_table[sd] /\ t = ScanTree(sd)
                            /\ fd = scan.fileDesc /\ S = seen[sd]
  OBVIOUS
<1>2. fd \in OpenFds /\ t = Tree(fd)
  BY <1>0, <1>1, ScanOpen
<1>3. Whole(t) /\ PairsOnce(t)
  BY <1>0, <1>2, OpenTree, OpenSeen DEF KInv, SInv, OnceEach
<1>4. PICK op, v, org, pos : /\ op = scan.op /\ v = scan.value /\ org = scan.org
                             /\ pos = scan.pos
  OBVIOUS
<1>5. Asks(t, op, v, due[sd]) /\ Stood(t, scan.direction, op, v, org, pos, S)
  BY <1>1, <1>4 DEF KInv, Knowing, ScanKnows
<1>6. UNCHANGED <<index, am_index_table>> /\ NoId \notin S
  BY <1>1 DEF Activation
<1>7. DOMAIN scan = {"valid", "fileDesc", "pf_fd", "op", "value", "org", "pos", "direction"}
  BY <1>0, <1>1 DEF TInv, AInv, Tables
<1>8. DOMAIN am_scan_table = Fd
  BY <1>0 DEF TInv, AInv, Tables
<1>9. ASSUME NEW d2, NEW org2, NEW pos2,
             am_scan_table' = [am_scan_table EXCEPT ![sd] =
                [scan EXCEPT !.org = org2, !.pos = pos2, !.direction = d2]],
             Turned(sd, t, d2, op, v, org2, pos2)
      PROVE  Knowing' /\ (call' = None => Exact(sd))
  <2>1. PICK new : new = [scan EXCEPT !.org = org2, !.pos = pos2, !.direction = d2]
    OBVIOUS
  <2>2. /\ new.fileDesc = scan.fileDesc /\ new.op = op /\ new.value = v
        /\ new.direction = d2 /\ new.org = org2 /\ new.pos = pos2
    BY <1>4, <1>7, <2>1
  <2>3. am_scan_table' = [am_scan_table EXCEPT ![sd] = new]
    BY <1>9, <2>1
  <2>4. Knowing'
    <3>1. Turned(sd, t, new.direction, scan.op, scan.value, new.org, new.pos)
      BY <1>4, <1>9, <2>2
    <3>2. new.fileDesc = scan.fileDesc /\ new.op = scan.op /\ new.value = scan.value
      BY <1>4, <2>2
    <3>3. scan = am_scan_table[sd] /\ t = ScanTree(sd) /\ NoId \notin seen[sd]
      BY <1>1, <1>6
    <3> QED BY <1>6, <2>3, <3>1, <3>2, <3>3, TurnedKnows
  <2> QED BY <1>9, <2>4 DEF Turned
<1>10. CASE FindFirst(sd)
  <2>1. PICK p : p = AM_GetFirstEntry(t, op, v)
    OBVIOUS
  <2>2. /\ scan.direction = NOTDEFINED
        /\ am_scan_table' = [am_scan_table EXCEPT ![sd] =
                [scan EXCEPT !.org = p, !.pos = p, !.direction = LEFT]]
        /\ IF p.entry = Start THEN Again(sd) ELSE HandsOut(sd, EntryAt(t, p))
    BY <1>1, <1>4, <1>10, <2>1 DEF FindFirst, Moves
  <2>3. S = {}
    BY <1>5, <2>2 DEF Stood
  <2>4. am_scan_table'[sd].pos = p
    BY <1>0, <1>7, <1>8, <2>2
  <2>5. Turned(sd, t, LEFT, op, v, p, p)
    <3>1. CASE p.entry = Start
      <4>1. Stood(t, LEFT, op, v, p, p, S)
        BY <1>3, <1>5, <2>1, <2>3, <3>1, FirstKnows
      <4> QED BY <1>1, <2>2, <3>1, <4>1, AgainMoves
    <3>2. CASE p.entry # Start
      <4>1. Offers(t, LEFT, op, v, p, p, S)
        BY <1>3, <1>5, <2>1, <2>3, <3>2, FirstKnows
      <4> QED BY <1>0, <1>1, <1>3, <1>5, <1>6, <2>2, <2>4, <3>2, <4>1, OfferMoves
    <3> QED BY <3>1, <3>2
  <2> QED BY <1>9, <2>2, <2>5
<1>11. CASE FindLeft(sd)
  <2>1. PICK q : q = Neighbour(t, LEFT, pos)
    OBVIOUS
  <2>2. /\ scan.direction = LEFT
        /\ IF Matches(t, q, op, v)
           THEN /\ am_scan_table' = [am_scan_table EXCEPT ![sd] = [scan EXCEPT !.pos = q]]
                /\ HandsOut(sd, EntryAt(t, q))
           ELSE /\ am_scan_table' = [am_scan_table EXCEPT ![sd] =
                                       [scan EXCEPT !.pos = org, !.direction = RIGHT]]
                /\ Again(sd)
    BY <1>1, <1>4, <1>11, <2>1 DEF FindLeft, Moves
  <2>3. Stood(t, LEFT, op, v, org, pos, S)
    BY <1>5, <2>2
  <2>4. CASE Matches(t, q, op, v)
    <3>1. [scan EXCEPT !.pos = q] = [scan EXCEPT !.org = org, !.pos = q, !.direction = LEFT]
      BY <1>4, <1>7, <2>2
    <3>2. am_scan_table' = [am_scan_table EXCEPT ![sd] =
                              [scan EXCEPT !.org = org, !.pos = q, !.direction = LEFT]]
      BY <2>2, <2>4, <3>1
    <3>3. am_scan_table'[sd].pos = q
      BY <1>0, <1>7, <1>8, <3>2
    <3>4. Offers(t, LEFT, op, v, org, q, S)
      BY <1>3, <1>5, <2>1, <2>3, <2>4, LeftKnows
    <3>5. Turned(sd, t, LEFT, op, v, org, q)
      BY <1>0, <1>1, <1>3, <1>5, <1>6, <2>2, <2>4, <3>3, <3>4, OfferMoves
    <3> QED BY <1>9, <3>2, <3>5
  <2>5. CASE ~Matches(t, q, op, v)
    <3>1. [scan EXCEPT !.pos = org, !.direction = RIGHT]
            = [scan EXCEPT !.org = org, !.pos = org, !.direction = RIGHT]
      BY <1>4, <1>7
    <3>2. am_scan_table' = [am_scan_table EXCEPT ![sd] =
                              [scan EXCEPT !.org = org, !.pos = org, !.direction = RIGHT]]
      BY <2>2, <2>5, <3>1
    <3>3. Stood(t, RIGHT, op, v, org, org, S)
      BY <1>3, <1>5, <2>1, <2>3, <2>5, LeftKnows
    <3>4. Turned(sd, t, RIGHT, op, v, org, org)
      BY <1>1, <2>2, <2>5, <3>3, AgainMoves
    <3> QED BY <1>9, <3>2, <3>4
  <2> QED BY <2>4, <2>5
<1>12. CASE FindRight(sd)
  <2>1. PICK q : q = Neighbour(t, RIGHT, pos)
    OBVIOUS
  <2>2. /\ scan.direction = RIGHT
        /\ am_scan_table' = [am_scan_table EXCEPT ![sd] = [scan EXCEPT !.pos = q]]
        /\ IF Matches(t, q, op, v) THEN HandsOut(sd, EntryAt(t, q))
           ELSE Returns(AME_EOF) /\ call' = None
    BY <1>1, <1>4, <1>12, <2>1 DEF FindRight, Moves
  <2>3. Stood(t, RIGHT, op, v, org, pos, S)
    BY <1>5, <2>2
  <2>4. am_scan_table' = [am_scan_table EXCEPT ![sd] =
                            [scan EXCEPT !.org = org, !.pos = q, !.direction = RIGHT]]
    <3>1. [scan EXCEPT !.pos = q] = [scan EXCEPT !.org = org, !.pos = q, !.direction = RIGHT]
      BY <1>4, <1>7, <2>2
    <3> QED BY <2>2, <3>1
  <2>5. am_scan_table'[sd].pos = q
    BY <1>0, <1>7, <1>8, <2>4
  <2>6. Turned(sd, t, RIGHT, op, v, org, q)
    <3>1. CASE Matches(t, q, op, v)
      <4>1. Offers(t, RIGHT, op, v, org, q, S)
        BY <1>3, <1>5, <2>1, <2>3, <3>1, RightKnows
      <4> QED BY <1>0, <1>1, <1>3, <1>5, <1>6, <2>2, <2>5, <3>1, <4>1, OfferMoves
    <3>2. CASE ~Matches(t, q, op, v)
      <4>1. due[sd] \subseteq S
        BY <1>3, <1>5, <2>1, <2>3, <3>2, RightKnows
      <4> QED BY <1>0, <1>1, <2>2, <3>2, <4>1, EndMoves
    <3> QED BY <3>1, <3>2
  <2> QED BY <1>9, <2>4, <2>6
<1> QED BY <1>10, <1>11, <1>12 DEF Activation

-----------------------------------------------------------------------------
(* Every step. *)

LEMMA FindsKnow ==
  ASSUME Fits, KInv, NEW sd \in Fd, AFind(sd) \/ AFindAgain(sd)
  PROVE  Knowing' /\ (call' = None => Exact(sd))
<1>1. CASE AFind(sd)
  <2>1. Idle /\ sd \in OpenScans /\ Activation(sd) /\ NoId \notin seen[sd] /\ Sees(sd)
    BY <1>1 DEF AFind, AM_FindNextEntry
  <2>2. call.at # "climb"
    BY <2>1, IdleCall DEF Idle
  <2> QED BY <2>1, <2>2, ActivationKnows
<1>2. CASE AFindAgain(sd)
  <2>1. call.at = "find" /\ call.at # "climb" /\ call.sd = sd /\ Activation(sd) /\ Sees(sd)
    BY <1>2 DEF AFindAgain, FindAgain
  <2>2. sd \in OpenScans /\ NoId \notin seen[sd]
    BY <2>1 DEF KInv, SInv, TInv, CallOK, Knowing
  <2> QED BY <2>1, <2>2, ActivationKnows
<1> QED BY <1>1, <1>2

LEMMA NextKnows ==
  ASSUME Fits, ValuesCopied, Limits, KInv, [ANext]_avars
  PROVE  Knowing'
<1>1. CASE UNCHANGED avars
  BY <1>1, StutterKnows
<1> SUFFICES ASSUME ANext PROVE Knowing'
  BY <1>1
<1>2. bound \in Bounds
  BY DEF KInv, SInv, TInv
<1>3. CASE AClimb
  BY <1>3, ClimbKnows
<1>4. CASE ADeleteNext
  BY <1>4, DeleteNextKnows
<1>5. ASSUME NEW sd \in Fd, AFindAgain(sd) \/ AFind(sd)
      PROVE  Knowing'
  BY <1>5, FindsKnow
<1>6. ASSUME NEW fd \in Fd, NEW v \in bound.values, NEW id \in bound.ids, ADelete(fd, v, id),
             IF index' = index THEN UNCHANGED due ELSE Forgets(fd, v, id), seen' = seen
      PROVE  Knowing'
  <2>1. v \in Value /\ id \in RecId
    BY <1>2, BoundsAssumption
  <2> QED BY <1>6, <2>1, DeleteEntryKnows
<1>7. ASSUME NEW n \in bound.names, AFile(n), Kept
      PROVE  Knowing'
  <2>1. n \in Name
    BY <1>2, BoundsAssumption
  <2> QED BY <1>7, <2>1, FileKnows
<1>8. ASSUME NEW fd \in Fd, AClose(fd), Kept
      PROVE  Knowing'
  BY <1>8, CloseKnows
<1>9. ASSUME NEW fd \in Fd, InvalidFd(fd), Kept
      PROVE  Knowing'
  BY <1>9, RefusedKnows DEF InvalidFd
<1>10. ASSUME NEW fd \in Fd, AInsert(fd)
       PROVE  Knowing'
  BY <1>10, InsertKnows
<1>11. ASSUME NEW fd \in Fd, NEW op \in bound.ops, NEW v \in bound.values, AOpenScan(fd, op, v)
       PROVE  Knowing'
  <2>1. v \in Value /\ op \in Op
    BY <1>2, BoundsAssumption
  <2> QED BY <1>11, <2>1, OpenScanKnows
<1>13. ASSUME NEW sd \in Fd, ACloseScan(sd)
       PROVE  Knowing'
  BY <1>13, CloseScanKnows
<1>14. ASSUME NEW sd \in Fd, FindInvalid(sd), Kept
       PROVE  Knowing'
  BY <1>14, RefusedKnows DEF FindInvalid
<1> QED BY <1>3, <1>4, <1>5, <1>6, <1>7, <1>8, <1>9, <1>10, <1>11, <1>13, <1>14
        DEF ANext, ARunning, ACall, ADeletes

(* A scan hands out every entry that satisfies its condition and was there *)
(* all the time, none twice and none that is deleted, although it starts   *)
(* in the middle, walks to the left, comes back to where it started and    *)
(* walks to the right, and entries before and behind it are deleted while  *)
(* it runs: when no value of an index has more entries than half a leaf    *)
(* and the differences of two values fit an int, no value is mangled when  *)
(* it is copied over what an earlier scan has left, a scan for values      *)
(* below v is for a value with one entry at most, and a scan for values    *)
(* other than v for a value with none (am.c:108-194, 1015-1089).           *)
THEOREM ScansAreExact ==
  ASSUME Fits, ValuesCopied, Limits
  PROVE  ASpec => ScansExact
<1> DEFINE Step == \A sd \in OpenScans : (AFind(sd) \/ AFindAgain(sd)) /\ call' = None =>
                     IF Found(sd) = NoId THEN due[sd] \subseteq seen[sd]
                     ELSE Found(sd) \in due[sd] \ seen[sd]
<1>1. AInit => KInv
  <2> SUFFICES ASSUME AInit PROVE KInv
    OBVIOUS
  <2>1. /\ call = None /\ due = [sd \in Fd |-> {}] /\ seen = [sd \in Fd |-> {}]
        /\ index = [n \in Name |-> Missing] /\ am_scan_table = [sd \in Fd |-> NewScan]
    BY DEF AInit, Init
  <2>2. OnceEach /\ DeletionKnows
    BY <2>1 DEF OnceEach, DeletionKnows, None
  <2>3. OpenScans = {} /\ \A sd \in Fd : am_scan_table[sd].value = 0
    BY <2>1 DEF OpenScans, NewScan
  <2>4. Knowing
    BY <2>1, <2>3 DEF Knowing, None
  <2> QED BY <2>2, <2>4, InitTInv DEF KInv, SInv
<1>2. KInv /\ [ANext]_avars => KInv' /\ [Step]_avars
  <2> SUFFICES ASSUME KInv, [ANext]_avars PROVE KInv' /\ Step
    OBVIOUS
  <2>1. SInv'
    BY NextTInv, NextSeen DEF KInv, SInv, Steps
  <2>2. Step
    <3>1. ASSUME NEW sd \in OpenScans, AFind(sd) \/ AFindAgain(sd), call' = None
          PROVE  Exact(sd)
      BY <3>1, FindsKnow DEF OpenScans
    <3> QED BY <3>1 DEF Exact
  <2> QED BY <2>1, <2>2, NextKnows DEF KInv
<1>3. ASpec => [][Step]_avars
  BY <1>1, <1>2, PTL DEF ASpec
<1> QED BY <1>3 DEF ScansExact
=============================================================================
