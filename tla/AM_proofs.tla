------------------------------ MODULE AM_proofs -----------------------------
(***************************************************************************)
(* Proofs about AM under its callers: for every number of table entries,   *)
(* indexes and values, an open entry of the index table and an open scan   *)
(* reach the file of their own index, whatever is inserted, deleted and    *)
(* searched meanwhile and however often trees are split; trees keep their  *)
(* shape; and as long as no value has more entries than half a leaf, they  *)
(* keep their order, in which searches find every value.  The first part   *)
(* is about the order of one tree: which values lie below which node,      *)
(* where a search ends, and what an insertion does to both.                *)
(***************************************************************************)
EXTENDS AMTree_proofs

-----------------------------------------------------------------------------
(* The order of a tree: the values below node o lie from low[o] to high[o].  *)
(* While a split climbs, the parent of node old takes it to reach as far as  *)
(* node after does; key is where they meet.                                  *)

Upto(high, old, after) ==
  IF after = NoNode THEN high ELSE [high EXCEPT ![old] = high[after]]

Ranges(t, low, high) ==
  /\ low \in [1..Len(t.page) -> Int] /\ high \in [1..Len(t.page) -> Int]
  /\ \A o \in 1..Len(t.page) : Bottom <= low[o] /\ low[o] < high[o] /\ high[o] <= Top

Covers(t, low, up) == low[t.root] = Bottom /\ up[t.root] = Top

NodeOrder(node, lo, hi, low, up) ==
  Chain(node.keys, node.child, Len(node.child), lo, hi, low, up)

NodesOrdered(t, lev, low, high, up) ==
  \A p \in 1..Len(t.page) : lev[p] # 0 => NodeOrder(t.page[p], low[p], high[p], low, up)

LeavesOrdered(t, lev, low, high) ==
  \A o \in 1..Len(t.page) : lev[o] = 0 =>
    /\ LeafOrder(t.page[o].rec, low[o], high[o])
    /\ t.page[o].next # NoNode => low[t.page[o].next] = high[o]
    /\ t.page[o].next = NoNode => high[o] = Top

Gap(low, high, old, after, key) == after # NoNode => high[old] = key /\ low[after] = key

Ordered(t, lev, low, high, old, after, key) ==
  /\ Ranges(t, low, high) /\ Covers(t, low, Upto(high, old, after))
  /\ NodesOrdered(t, lev, low, high, Upto(high, old, after))
  /\ LeavesOrdered(t, lev, low, high) /\ Gap(low, high, old, after, key)

LEMMA ChainSame ==
  ASSUME NEW ks, NEW cs, NEW m, NEW lo, NEW hi, NEW low, NEW up, Chain(ks, cs, m, lo, hi, low, up),
         NEW low2, NEW up2,
         \A j \in 1..m : low2[cs[j]] = low[cs[j]] /\ up2[cs[j]] = up[cs[j]]
  PROVE  Chain(ks, cs, m, lo, hi, low2, up2)
BY DEF Chain

\* A node that keeps its keys and children, whose bounds stay.
LEMMA NodeSame ==
  ASSUME NEW x, NEW y, NEW lo, NEW hi, NEW low, NEW up, NodeOrder(x, lo, hi, low, up),
         NEW low2, NEW up2, y.keys = x.keys, y.child = x.child,
         \A q : HasChild(x, q) => low2[q] = low[q] /\ up2[q] = up[q]
  PROVE  NodeOrder(y, lo, hi, low2, up2)
<1>1. PICK ks, cs, m : ks = x.keys /\ cs = x.child /\ m = Len(x.child)
  OBVIOUS
<1>2. Chain(ks, cs, m, lo, hi, low, up)
  BY <1>1 DEF NodeOrder
<1>3. \A j \in 1..m : HasChild(x, cs[j])
  BY <1>1 DEF HasChild
<1>4. \A j \in 1..m : low2[cs[j]] = low[cs[j]] /\ up2[cs[j]] = up[cs[j]]
  BY <1>3
<1>5. Chain(ks, cs, m, lo, hi, low2, up2)
  BY <1>2, <1>4, ChainSame
<1> QED BY <1>1, <1>5 DEF NodeOrder

\* Only the node that waits has a bound its parent does not see.
LEMMA UptoIs ==
  ASSUME NEW t, NEW low, NEW high, Ranges(t, low, high), NEW old, NEW after,
         NEW q \in 1..Len(t.page), after # NoNode => q # old
  PROVE  Upto(high, old, after)[q] = high[q]
BY DEF Upto, Ranges

LEMMA UptoOld ==
  ASSUME NEW t, NEW low, NEW high, Ranges(t, low, high), NEW old \in 1..Len(t.page),
         NEW after, after # NoNode
  PROVE  Upto(high, old, after)[old] = high[after]
BY DEF Upto, Ranges

\* The bounds when node o, up to key, gets a neighbour behind it.
LowSplit(low, n, key) == Grown(low, n, key)
HighSplit(high, n, o, key) ==
  [q \in 1..(n + 1) |-> IF q = n + 1 THEN high[o] ELSE IF q = o THEN key ELSE high[q]]

LEMMA SplitBounds ==
  ASSUME NEW t, NEW low, NEW high, Ranges(t, low, high), Len(t.page) \in Nat,
         NEW o \in 1..Len(t.page), NEW key \in Int, low[o] < key, key < high[o],
         NEW u, Len(u.page) = Len(t.page) + 1,
         NEW low2, NEW high2, low2 = LowSplit(low, Len(t.page), key),
         high2 = HighSplit(high, Len(t.page), o, key)
  PROVE  /\ Ranges(u, low2, high2)
         /\ \A q \in 1..Len(t.page) : /\ low2[q] = low[q]
                                      /\ high2[q] = IF q = o THEN key ELSE high[q]
                                      /\ Upto(high2, o, Len(t.page) + 1)[q] = high[q]
         /\ low2[Len(t.page) + 1] = key /\ high2[Len(t.page) + 1] = high[o]
         /\ Upto(high2, o, Len(t.page) + 1)[Len(t.page) + 1] = high[o]
<1>1. PICK n : n = Len(t.page)
  OBVIOUS
<1>2. n \in Nat /\ o \in 1..n /\ n + 1 # o /\ n + 1 # NoNode /\ o \in 1..(n + 1) /\ n + 1 \in 1..(n + 1)
  BY <1>1 DEF NoNode
<1>3. /\ low \in [1..n -> Int] /\ high \in [1..n -> Int]
      /\ \A q \in 1..n : Bottom <= low[q] /\ low[q] < high[q] /\ high[q] <= Top
  BY <1>1 DEF Ranges
<1>4. PICK x, y : x = Grown(low, n, key) /\ y = HighSplit(high, n, o, key)
  OBVIOUS
<1>5. /\ x \in [1..(n + 1) -> Int] /\ \A q \in 1..n : x[q] = low[q]
      /\ x[n + 1] = key
  BY <1>2, <1>3, <1>4 DEF Grown
<1>6. /\ y \in [1..(n + 1) -> Int] /\ \A q \in 1..n : y[q] = IF q = o THEN key ELSE high[q]
      /\ y[n + 1] = high[o]
  BY <1>2, <1>3, <1>4 DEF HighSplit
<1>7. PICK z : z = Upto(y, o, n + 1)
  OBVIOUS
<1>8. z = [y EXCEPT ![o] = y[n + 1]]
  BY <1>2, <1>7 DEF Upto
<1>9. /\ \A q \in 1..n : z[q] = high[q]
      /\ z[n + 1] = high[o]
  BY <1>2, <1>6, <1>8
<1>10. \A q \in 1..(n + 1) : Bottom <= x[q] /\ x[q] < y[q] /\ y[q] <= Top
  <2>1. \A q \in 1..(n + 1) : q = n + 1 \/ q \in 1..n
    BY <1>2
  <2>2. low[o] \in Int /\ high[o] \in Int /\ Bottom \in Int /\ Top \in Int
    BY <1>2, <1>3, Ends
  <2>3. Bottom <= key /\ key <= Top
    BY <1>2, <1>3, <2>2
  <2> QED BY <1>2, <1>3, <1>5, <1>6, <2>1, <2>3
<1>11. Ranges(u, x, y)
  BY <1>1, <1>5, <1>6, <1>10 DEF Ranges
<1> QED BY <1>1, <1>4, <1>5, <1>6, <1>7, <1>9, <1>11 DEF LowSplit

\* An empty tree: every value belongs below each of its two nodes.
LEMMA EmptyOrder ==
  Ordered(EmptyTree, [q \in 1..2 |-> 2 - q], [q \in 1..2 |-> Bottom], [q \in 1..2 |-> Top],
          NoNode, NoNode, NoNode)
<1>1. PICK t, lev, low, high : /\ t = EmptyTree /\ lev = [q \in 1..2 |-> 2 - q]
                               /\ low = [q \in 1..2 |-> Bottom] /\ high = [q \in 1..2 |-> Top]
  OBVIOUS
<1>2. /\ Len(t.page) = 2 /\ t.root = 1
      /\ t.page[1].keys = <<>> /\ t.page[1].child = <<2>>
      /\ t.page[2].next = NoNode /\ t.page[2].rec = <<>>
  BY <1>1 DEF EmptyTree
<1>3. lev[1] = 1 /\ lev[2] = 0
  BY <1>1
<1>4. \A q \in 1..2 : low[q] = Bottom /\ high[q] = Top
  BY <1>1
<1>5. Upto(high, NoNode, NoNode) = high
  BY DEF Upto
<1>6. Ranges(t, low, high)
  BY <1>1, <1>2, <1>4, Ends DEF Ranges
<1>7. NodeOrder(t.page[1], Bottom, Top, low, high)
  <2>1. PICK ks, cs : ks = t.page[1].keys /\ cs = t.page[1].child
    OBVIOUS
  <2>2. cs[1] = 2 /\ Len(cs) = 1
    BY <1>2, <2>1
  <2>3. Chain(ks, cs, 1, Bottom, Top, low, high)
    BY <1>4, <2>2, Ends DEF Chain, Rising, Bound
  <2> QED BY <2>1, <2>2, <2>3 DEF NodeOrder
<1>8. NodesOrdered(t, lev, low, high, high)
  <2>1. ASSUME NEW p \in 1..Len(t.page), lev[p] # 0
        PROVE  NodeOrder(t.page[p], low[p], high[p], low, high)
    <3>1. p = 1 /\ low[p] = Bottom /\ high[p] = Top
      BY <1>2, <1>3, <1>4, <2>1
    <3> QED BY <1>7, <3>1
  <2> QED BY <2>1 DEF NodesOrdered
<1>9. LeafOrder(t.page[2].rec, Bottom, Top)
  <2>1. Len(t.page[2].rec) = 0
    BY <1>2
  <2> QED BY <2>1 DEF LeafOrder, Sorted
<1>10. LeavesOrdered(t, lev, low, high)
  <2>1. ASSUME NEW q \in 1..Len(t.page), lev[q] = 0
        PROVE  /\ LeafOrder(t.page[q].rec, low[q], high[q])
               /\ t.page[q].next = NoNode /\ high[q] = Top
    <3>1. q = 2 /\ low[q] = Bottom /\ high[q] = Top
      BY <1>2, <1>3, <1>4, <2>1
    <3> QED BY <1>2, <1>9, <3>1
  <2> QED BY <2>1 DEF LeavesOrdered
<1>11. Covers(t, low, high)
  BY <1>2, <1>4 DEF Covers
<1>12. Gap(low, high, NoNode, NoNode, NoNode)
  BY DEF Gap
<1>13. Ordered(t, lev, low, high, NoNode, NoNode, NoNode)
  BY <1>5, <1>6, <1>8, <1>10, <1>11, <1>12 DEF Ordered
<1> QED BY <1>1, <1>13

\* A leaf is written, with values that belong there.
LEMMA RewriteOrder ==
  ASSUME NEW t, NEW u, NEW lev, NEW low, NEW high, NEW old, NEW after, NEW key,
         Ordered(t, lev, low, high, old, after, key), NEW o \in 1..Len(t.page), lev[o] = 0,
         NEW rec, Rewritten(t, u, o, rec), LeafOrder(rec, low[o], high[o])
  PROVE  Ordered(u, lev, low, high, old, after, key)
<1>1. Len(u.page) = Len(t.page) /\ u.root = t.root
  BY DEF Rewritten
<1>2. \A q \in 1..Len(t.page) : /\ q # o => u.page[q] = t.page[q]
                                /\ u.page[q].next = t.page[q].next
  BY DEF Rewritten
<1>3. u.page[o].rec = rec
  BY DEF Rewritten
<1>4. PICK up : up = Upto(high, old, after)
  OBVIOUS
<1>5. /\ Ranges(t, low, high) /\ Covers(t, low, up) /\ NodesOrdered(t, lev, low, high, up)
      /\ LeavesOrdered(t, lev, low, high) /\ Gap(low, high, old, after, key)
  BY <1>4 DEF Ordered
<1>6. Ranges(u, low, high)
  BY <1>1, <1>5 DEF Ranges
<1>7. Covers(u, low, up)
  BY <1>1, <1>5 DEF Covers
<1>8. NodesOrdered(u, lev, low, high, up)
  BY <1>1, <1>2, <1>5 DEF NodesOrdered
<1>9. LeavesOrdered(u, lev, low, high)
  <2>1. ASSUME NEW q \in 1..Len(u.page), lev[q] = 0
        PROVE  /\ LeafOrder(u.page[q].rec, low[q], high[q])
               /\ u.page[q].next # NoNode => low[u.page[q].next] = high[q]
               /\ u.page[q].next = NoNode => high[q] = Top
    <3>1. /\ LeafOrder(t.page[q].rec, low[q], high[q])
          /\ t.page[q].next # NoNode => low[t.page[q].next] = high[q]
          /\ t.page[q].next = NoNode => high[q] = Top
      BY <1>1, <1>5, <2>1 DEF LeavesOrdered
    <3>2. u.page[q].next = t.page[q].next
      BY <1>1, <1>2, <2>1
    <3>3. LeafOrder(u.page[q].rec, low[q], high[q])
      BY <1>1, <1>2, <1>3, <2>1, <3>1
    <3> QED BY <3>1, <3>2, <3>3
  <2> QED BY <2>1 DEF LeavesOrdered
<1> QED BY <1>4, <1>5, <1>6, <1>7, <1>8, <1>9 DEF Ordered

-----------------------------------------------------------------------------
(* A node is split in two at key. *)

\* The nodes of u are those of t but for o and its new neighbour.
Untouched(t, u, lev, o) ==
  \A q \in 1..Len(t.page) : q # o =>
    /\ lev[q] = 0 => u.page[q].rec = t.page[q].rec
    /\ lev[q] # 0 => u.page[q].keys = t.page[q].keys /\ u.page[q].child = t.page[q].child

\* Only o can take a child to reach further than it does.
Plain(t, lev, high, up, o) ==
  /\ up[t.root] = high[t.root]
  /\ \A p \in 1..Len(t.page) : p # o /\ lev[p] # 0 =>
       \A c : HasChild(t.page[p], c) => c \in 1..Len(t.page) /\ up[c] = high[c]

HalvesOrdered(x, y, l, lo, key, hi, low, up) ==
  /\ l = 0 => LeafOrder(x.rec, lo, key) /\ LeafOrder(y.rec, key, hi)
  /\ l # 0 => NodeOrder(x, lo, key, low, up) /\ NodeOrder(y, key, hi, low, up)

\* The bounds of the n nodes when node o is split.
SplitInto(low, high, n, o, key, low2, high2) ==
  low2 = LowSplit(low, n, key) /\ high2 = HighSplit(high, n, o, key)

Parted(low, high, n, o, key, low2, high2, up2) ==
  /\ \A q \in 1..n : /\ low2[q] = low[q] /\ up2[q] = high[q]
                     /\ high2[q] = IF q = o THEN key ELSE high[q]
  /\ low2[n + 1] = key /\ high2[n + 1] = high[o]

Size(t, n) == n \in Nat /\ n = Len(t.page)

LEMMA GrownIs ==
  ASSUME NEW n \in Nat, NEW lev, NEW l, NEW q \in 1..(n + 1)
  PROVE  /\ q = n + 1 => Grown(lev, n, l)[q] = l
         /\ q # n + 1 => q \in 1..n /\ Grown(lev, n, l)[q] = lev[q]
BY DEF Grown

LEMMA NodesSplit ==
  ASSUME NEW t, NEW u, NEW lev, NEW low, NEW high, NEW up, NodesOrdered(t, lev, low, high, up),
         NEW n, Size(t, n), Size(u, n + 1), NEW o \in 1..n,
         Untouched(t, u, lev, o), Plain(t, lev, high, up, o),
         NEW key, NEW low2, NEW high2, NEW up2, Parted(low, high, n, o, key, low2, high2, up2),
         HalvesOrdered(u.page[o], u.page[n + 1], lev[o], low[o], key, high[o], low2, up2)
  PROVE  NodesOrdered(u, Grown(lev, n, lev[o]), low2, high2, up2)
<1>0. /\ \A q \in 1..n : /\ low2[q] = low[q] /\ up2[q] = high[q]
                         /\ high2[q] = IF q = o THEN key ELSE high[q]
      /\ low2[n + 1] = key /\ high2[n + 1] = high[o]
      /\ n \in Nat /\ n = Len(t.page) /\ Len(u.page) = n + 1
      /\ lev[o] # 0 => /\ NodeOrder(u.page[o], low[o], key, low2, up2)
                       /\ NodeOrder(u.page[n + 1], key, high[o], low2, up2)
  BY DEF Size, Parted, HalvesOrdered
<1>1. ASSUME NEW q \in 1..n, q # o, lev[q] # 0
      PROVE  NodeOrder(u.page[q], low2[q], high2[q], low2, up2)
  <2>1. NodeOrder(t.page[q], low[q], high[q], low, up)
    BY <1>0, <1>1 DEF NodesOrdered
  <2>2. PICK x, y, a, b : x = t.page[q] /\ y = u.page[q] /\ a = low[q] /\ b = high[q]
    OBVIOUS
  <2>3. NodeOrder(x, a, b, low, up)
    BY <2>1, <2>2
  <2>4. y.keys = x.keys /\ y.child = x.child
    BY <1>0, <1>1, <2>2 DEF Untouched
  <2>5. \A c : HasChild(x, c) => low2[c] = low[c] /\ up2[c] = up[c]
    BY <1>0, <1>1, <2>2 DEF Plain
  <2>6. NodeOrder(y, a, b, low2, up2)
    BY <2>3, <2>4, <2>5, NodeSame
  <2>7. low2[q] = a /\ high2[q] = b
    BY <1>0, <1>1, <2>2
  <2> QED BY <2>2, <2>6, <2>7
<1>2. ASSUME NEW q \in 1..(n + 1), Grown(lev, n, lev[o])[q] # 0
      PROVE  NodeOrder(u.page[q], low2[q], high2[q], low2, up2)
  <2>1. CASE q = n + 1
    <3>1. lev[o] # 0
      BY <1>0, <1>2, <2>1, GrownIs
    <3> QED BY <1>0, <2>1, <3>1
  <2>2. CASE q # n + 1
    <3>1. q \in 1..n /\ lev[q] # 0
      BY <1>0, <1>2, <2>2, GrownIs
    <3>2. CASE q = o
      BY <1>0, <3>1, <3>2
    <3> QED BY <1>1, <3>1, <3>2
  <2> QED BY <2>1, <2>2
<1> QED BY <1>0, <1>2 DEF NodesOrdered

LEMMA LeavesSplit ==
  ASSUME NEW t, NEW u, NEW lev, NEW low, NEW high, LeavesOrdered(t, lev, low, high),
         Linked(t, lev), NEW n, Size(t, n), NEW o \in 1..n,
         Untouched(t, u, lev, o), Relinked(t, u, o),
         NEW key, NEW low2, NEW high2, NEW up2, Parted(low, high, n, o, key, low2, high2, up2),
         HalvesOrdered(u.page[o], u.page[n + 1], lev[o], low[o], key, high[o], low2, up2)
  PROVE  LeavesOrdered(u, Grown(lev, n, lev[o]), low2, high2)
<1>9. n \in Nat /\ n = Len(t.page)
  BY DEF Size
<1>0. Len(u.page) = n + 1 /\ n + 1 # NoNode
  BY <1>9 DEF Relinked, NoNode
<1>8. /\ \A q \in 1..n : low2[q] = low[q] /\ high2[q] = IF q = o THEN key ELSE high[q]
      /\ low2[n + 1] = key /\ high2[n + 1] = high[o]
  BY DEF Parted
<1>7. lev[o] = 0 => /\ LeafOrder(u.page[o].rec, low[o], key)
                    /\ LeafOrder(u.page[n + 1].rec, key, high[o])
  BY DEF HalvesOrdered
<1>1. ASSUME NEW q \in 1..n, lev[q] = 0
      PROVE  /\ LeafOrder(t.page[q].rec, low[q], high[q])
             /\ t.page[q].next # NoNode => /\ t.page[q].next \in 1..n
                                           /\ low2[t.page[q].next] = high[q]
             /\ t.page[q].next = NoNode => high[q] = Top
  <2>1. t.page[q].next # NoNode => t.page[q].next \in 1..n
    BY <1>1, <1>9 DEF Linked
  <2>2. /\ LeafOrder(t.page[q].rec, low[q], high[q])
        /\ t.page[q].next # NoNode => low[t.page[q].next] = high[q]
        /\ t.page[q].next = NoNode => high[q] = Top
    BY <1>1, <1>9 DEF LeavesOrdered
  <2> QED BY <1>8, <2>1, <2>2
<1>2. ASSUME NEW q \in 1..n, q # o, lev[q] = 0
      PROVE  /\ LeafOrder(u.page[q].rec, low2[q], high2[q])
             /\ u.page[q].next # NoNode => low2[u.page[q].next] = high2[q]
             /\ u.page[q].next = NoNode => high2[q] = Top
  <2>1. u.page[q].next = t.page[q].next
    BY <1>2, <1>9 DEF Relinked
  <2>2. u.page[q].rec = t.page[q].rec
    BY <1>2, <1>9 DEF Untouched
  <2>3. low2[q] = low[q] /\ high2[q] = high[q]
    BY <1>2, <1>8
  <2> QED BY <1>1, <1>2, <2>1, <2>2, <2>3
<1>3. ASSUME NEW q \in 1..(n + 1), Grown(lev, n, lev[o])[q] = 0
      PROVE  /\ LeafOrder(u.page[q].rec, low2[q], high2[q])
             /\ u.page[q].next # NoNode => low2[u.page[q].next] = high2[q]
             /\ u.page[q].next = NoNode => high2[q] = Top
  <2>1. CASE q = n + 1
    <3>1. lev[o] = 0
      BY <1>3, <2>1, <1>9, GrownIs
    <3>2. u.page[n + 1].next = t.page[o].next
      BY <1>9 DEF Relinked
    <3> QED BY <1>1, <1>7, <1>8, <2>1, <3>1, <3>2
  <2>2. CASE q = o
    <3>1. lev[o] = 0
      BY <1>3, <2>2, <1>9, GrownIs
    <3>2. u.page[o].next = n + 1
      BY <1>9 DEF Relinked
    <3> QED BY <1>0, <1>7, <1>8, <2>2, <3>1, <3>2
  <2>3. CASE q # n + 1 /\ q # o
    <3>1. q \in 1..n /\ lev[q] = 0
      BY <1>3, <2>3, <1>9, GrownIs
    <3> QED BY <1>2, <2>3, <3>1
  <2> QED BY <2>1, <2>2, <2>3
<1> QED BY <1>0, <1>3 DEF LeavesOrdered

\* What a split needs for the new tree to be ordered.
LEMMA SplitOrder ==
  ASSUME NEW t, NEW u, NEW lev, NEW low, NEW high, NEW old, NEW after, NEW key0,
         Pages(t, lev), Linked(t, lev), Ordered(t, lev, low, high, old, after, key0),
         NEW n, Size(t, n), NEW o \in 1..n, Relinked(t, u, o), u.root = t.root,
         Untouched(t, u, lev, o), Plain(t, lev, high, Upto(high, old, after), o),
         NEW key \in Int, low[o] < key, key < high[o],
         NEW low2, NEW high2, SplitInto(low, high, n, o, key, low2, high2),
         HalvesOrdered(u.page[o], u.page[n + 1], lev[o], low[o], key, high[o],
                       low2, Upto(high2, o, n + 1))
  PROVE  Ordered(u, Grown(lev, n, lev[o]), low2, high2, o, n + 1, key)
<1>1. PICK up, up2 : up = Upto(high, old, after) /\ up2 = Upto(high2, o, n + 1)
  OBVIOUS
<1>2. /\ Ranges(t, low, high) /\ Covers(t, low, up) /\ NodesOrdered(t, lev, low, high, up)
      /\ LeavesOrdered(t, lev, low, high)
  BY <1>1 DEF Ordered
<1>3. n \in Nat /\ n = Len(t.page) /\ n + 1 # NoNode
  BY DEF Size, NoNode
<1>4. t.root \in 1..n
  BY <1>3 DEF Pages
<1>5. Len(u.page) = n + 1 /\ Size(u, n + 1)
  BY <1>3 DEF Relinked, Size
<1>6. /\ Ranges(u, low2, high2)
      /\ \A q \in 1..n : /\ low2[q] = low[q]
                         /\ high2[q] = IF q = o THEN key ELSE high[q]
                         /\ up2[q] = high[q]
      /\ low2[n + 1] = key /\ high2[n + 1] = high[o] /\ up2[n + 1] = high[o]
  BY <1>1, <1>2, <1>3, <1>5, SplitBounds DEF SplitInto
<1>7. Parted(low, high, n, o, key, low2, high2, up2)
  BY <1>6 DEF Parted
<1>9. HalvesOrdered(u.page[o], u.page[n + 1], lev[o], low[o], key, high[o], low2, up2)
  BY <1>1
<1>10. Plain(t, lev, high, up, o)
  BY <1>1
<1>12. NodesOrdered(u, Grown(lev, n, lev[o]), low2, high2, up2)
  BY <1>2, <1>5, <1>7, <1>9, <1>10, NodesSplit
<1>13. LeavesOrdered(u, Grown(lev, n, lev[o]), low2, high2)
  BY <1>2, <1>7, <1>9, LeavesSplit
<1>14. Covers(u, low2, up2)
  <2>1. low[t.root] = Bottom /\ up[t.root] = Top /\ up[t.root] = high[t.root]
    BY <1>2, <1>10 DEF Covers, Plain
  <2> QED BY <1>4, <1>6, <2>1 DEF Covers
<1>15. Gap(low2, high2, o, n + 1, key)
  BY <1>3, <1>6 DEF Gap
<1> QED BY <1>1, <1>6, <1>12, <1>13, <1>14, <1>15 DEF Ordered

-----------------------------------------------------------------------------
(* How many entries of a value a tree holds. *)

Places(t, x) == {d \in Entries(t) : t.page[d[1]].rec[d[2]].value = x}

LEMMA LeavesAre ==
  ASSUME NEW t, NEW lev, Pages(t, lev), NEW o
  PROVE  o \in Leaves(t) <=> o \in 1..Len(t.page) /\ lev[o] = 0
<1>1. t \in TreeRec /\ DOMAIN t.page = 1..Len(t.page)
  BY DEF Pages, TreeRec
<1>2. ASSUME o \in 1..Len(t.page)
      PROVE  /\ lev[o] = 0 => "rec" \in DOMAIN t.page[o]
             /\ lev[o] # 0 => "rec" \notin DOMAIN t.page[o]
  <2>1. lev[o] = 0 => t.page[o] \in LeafNode
    BY <1>2, LeafIn
  <2>2. lev[o] # 0 => t.page[o] \in InnerNode
    BY <1>2, LeafIn
  <2> QED BY <2>1, <2>2 DEF LeafNode, InnerNode
<1> QED BY <1>1, <1>2 DEF Leaves

LEMMA PlaceIn ==
  ASSUME NEW t, NEW lev, Pages(t, lev), NEW x, NEW o, NEW i
  PROVE  <<o, i>> \in Places(t, x) <=>
           /\ o \in 1..Len(t.page) /\ lev[o] = 0 /\ i \in 1..Len(t.page[o].rec)
           /\ t.page[o].rec[i].value = x
<1>1. <<o, i>> \in Places(t, x) <=>
        /\ o \in Leaves(t) /\ i \in 1..FANOUT /\ i <= Len(t.page[o].rec)
        /\ t.page[o].rec[i].value = x
  BY DEF Places, Entries
<1>2. o \in Leaves(t) <=> o \in 1..Len(t.page) /\ lev[o] = 0
  BY LeavesAre
<1>3. o \in 1..Len(t.page) /\ lev[o] = 0 => Len(t.page[o].rec) \in 0..FANOUT
  BY LeafIn
<1>4. ASSUME o \in 1..Len(t.page), lev[o] = 0
      PROVE  i \in 1..FANOUT /\ i <= Len(t.page[o].rec) <=> i \in 1..Len(t.page[o].rec)
  <2>1. PICK m : m = Len(t.page[o].rec)
    OBVIOUS
  <2>2. m \in 0..FANOUT /\ FANOUT \in Nat
    BY <1>3, <1>4, <2>1, TreeAssumption
  <2>3. i \in 1..FANOUT /\ i <= m <=> i \in 1..m
    BY <2>2
  <2> QED BY <2>1, <2>3
<1> QED BY <1>1, <1>2, <1>4

LEMMA PlacesPairs ==
  ASSUME NEW t, NEW x, NEW d \in Places(t, x)
  PROVE  d = <<d[1], d[2]>>
BY DEF Places, Entries

LEMMA PlacesFinite ==
  ASSUME NEW t, NEW lev, Pages(t, lev), NEW x
  PROVE  IsFiniteSet(Places(t, x)) /\ Copies(t, x) = Cardinality(Places(t, x)) /\ Copies(t, x) \in Nat
<1>1. PICK n : n = Len(t.page)
  OBVIOUS
<1>2. n \in Nat /\ t.root \in 1..n
  BY <1>1, LeafIn DEF Pages
<1>3. IsFiniteSet(1..n) /\ IsFiniteSet(1..FANOUT)
  <2>1. 1 \in Int /\ n \in Int /\ FANOUT \in Int
    BY <1>2, TreeAssumption
  <2> QED BY <2>1, FS_Interval
<1>4. IsFiniteSet((1..n) \X (1..FANOUT))
  BY <1>3, FS_Product
<1>5. Leaves(t) \subseteq 1..n
  BY <1>1, LeavesAre
<1>6. Places(t, x) \in SUBSET ((1..n) \X (1..FANOUT))
  BY <1>5 DEF Places, Entries
<1>7. IsFiniteSet(Places(t, x))
  BY <1>4, <1>6, FS_Subset
<1>8. Copies(t, x) = Cardinality(Places(t, x))
  BY DEF Copies, Places
<1> QED BY <1>7, <1>8, FS_CardinalityType

LEMMA IntervalSize ==
  ASSUME NEW a \in Nat, NEW b \in Nat, a <= b
  PROVE  IsFiniteSet(a..b) /\ Cardinality(a..b) = b - a + 1
<1>1. a \in Int /\ b \in Int
  OBVIOUS
<1>2. IsFiniteSet(a..b) /\ Cardinality(a..b) = IF a > b THEN 0 ELSE b - a + 1
  BY <1>1, FS_Interval
<1>3. ~(a > b)
  OBVIOUS
<1> QED BY <1>2, <1>3

\* Entries of the same value in one leaf.
LEMMA CopiesAtLeast ==
  ASSUME NEW t, NEW lev, Pages(t, lev), NEW x, NEW o \in 1..Len(t.page), lev[o] = 0,
         NEW a \in Nat \ {0}, NEW b \in Nat, b <= Len(t.page[o].rec), a <= b,
         \A i \in a..b : t.page[o].rec[i].value = x
  PROVE  b - a + 1 <= Copies(t, x)
<1>1. {o} \X (a..b) \in SUBSET Places(t, x)
  <2>1. ASSUME NEW i \in a..b PROVE <<o, i>> \in Places(t, x)
    <3>1. Len(t.page[o].rec) \in Nat
      BY LeafIn
    <3>2. i \in 1..Len(t.page[o].rec)
      BY <3>1
    <3> QED BY <3>2, PlaceIn
  <2> QED BY <2>1
<1>2. IsFiniteSet({o}) /\ Cardinality({o}) = 1
  BY FS_Singleton
<1>3. IsFiniteSet(a..b) /\ Cardinality(a..b) = b - a + 1
  BY IntervalSize
<1>4. Cardinality({o} \X (a..b)) = b - a + 1
  <2>1. Cardinality({o} \X (a..b)) = Cardinality({o}) * Cardinality(a..b)
    BY <1>2, <1>3, FS_Product
  <2>2. b - a + 1 \in Int
    OBVIOUS
  <2>3. PICK c : c = b - a + 1
    OBVIOUS
  <2> QED BY <1>2, <1>3, <2>1, <2>2
<1>5. Cardinality({o} \X (a..b)) <= Cardinality(Places(t, x))
  BY <1>1, PlacesFinite, FS_Subset
<1> QED BY <1>4, <1>5, PlacesFinite

\* With one more in another leaf.
LEMMA CopiesBeside ==
  ASSUME NEW t, NEW lev, Pages(t, lev), NEW x, NEW o \in 1..Len(t.page), lev[o] = 0,
         NEW a \in Nat \ {0}, NEW b \in Nat, b <= Len(t.page[o].rec), a <= b,
         \A i \in a..b : t.page[o].rec[i].value = x,
         NEW q \in 1..Len(t.page), q # o, lev[q] = 0, Len(t.page[q].rec) # 0,
         t.page[q].rec[1].value = x
  PROVE  b - a + 2 <= Copies(t, x)
<1>1. PICK S : S = {o} \X (a..b)
  OBVIOUS
<1>2. S \cup {<<q, 1>>} \in SUBSET Places(t, x)
  <2>1. ASSUME NEW i \in a..b PROVE <<o, i>> \in Places(t, x)
    <3>1. Len(t.page[o].rec) \in Nat
      BY LeafIn
    <3>2. i \in 1..Len(t.page[o].rec)
      BY <3>1
    <3> QED BY <3>2, PlaceIn
  <2>2. <<q, 1>> \in Places(t, x)
    <3>1. Len(t.page[q].rec) \in 0..FANOUT /\ FANOUT \in Nat
      BY LeafIn, TreeAssumption
    <3>2. 1 \in 1..Len(t.page[q].rec)
      BY <3>1
    <3> QED BY <3>2, PlaceIn
  <2> QED BY SMTT(30), <1>1, <2>1, <2>2
<1>3. IsFiniteSet({o}) /\ Cardinality({o}) = 1
  BY FS_Singleton
<1>4. IsFiniteSet(a..b) /\ Cardinality(a..b) = b - a + 1
  BY IntervalSize
<1>5. IsFiniteSet(S) /\ Cardinality(S) = b - a + 1
  <2>1. IsFiniteSet({o} \X (a..b)) /\ Cardinality({o} \X (a..b)) = Cardinality({o}) * Cardinality(a..b)
    BY <1>3, <1>4, FS_Product
  <2> QED BY <1>1, <1>3, <1>4, <2>1
<1>6. <<q, 1>> \notin S
  BY <1>1
<1>7. Cardinality(S \cup {<<q, 1>>}) = b - a + 1 + 1
  BY <1>5, <1>6, FS_AddElement
<1>8. Cardinality(S \cup {<<q, 1>>}) <= Cardinality(Places(t, x))
  BY <1>2, PlacesFinite, FS_Subset
<1> QED BY <1>7, <1>8, PlacesFinite

\* Where the j-th entry of a leaf comes from that gets an entry in place p.
From(o, p, j) == IF j < p THEN <<o, j>> ELSE IF j = p THEN <<0, 0>> ELSE <<o, j - 1>>

\* The leaves of u are those of t, but for o, which has p-th a new entry, e, and
\* whose entries behind the k-th are those of a new leaf.
Grafted(t, u, lev, lev2, o, n, k, p, e) ==
  /\ k \in Nat /\ p \in 1..(Len(t.page[o].rec) + 1)
  /\ \A q \in 1..Len(u.page) : lev2[q] = 0 =>
       /\ q \notin {o, n + 1} => q \in 1..n /\ lev[q] = 0 /\ u.page[q].rec = t.page[q].rec
       /\ q \in {o, n + 1} => \A i \in 1..Len(u.page[q].rec) :
            LET j == IF q = o THEN i ELSE k + i IN
            /\ q = o => i <= k
            /\ j \in 1..(Len(t.page[o].rec) + 1)
            /\ u.page[q].rec[i] = Spread(t.page[o].rec, p, e, j)

Origin(o, n, k, p, d) ==
  IF d[1] = o THEN From(o, p, d[2]) ELSE IF d[1] = n + 1 THEN From(o, p, k + d[2]) ELSE d

LEMMA FromIs ==
  ASSUME NEW rec \in Seq(Rec), NEW e, NEW o, o # 0, NEW p \in 1..(Len(rec) + 1),
         NEW j \in 1..(Len(rec) + 1)
  PROVE  /\ j = p => From(o, p, j) = <<0, 0>> /\ Spread(rec, p, e, j) = e
         /\ j # p => \E i \in 1..Len(rec) : From(o, p, j) = <<o, i>> /\ Spread(rec, p, e, j) = rec[i]
<1>1. Len(rec) \in Nat
  OBVIOUS
<1>2. CASE j < p
  <2>1. From(o, p, j) = <<o, j>> /\ Spread(rec, p, e, j) = rec[j] /\ j \in 1..Len(rec)
    BY <1>1, <1>2 DEF From, Spread
  <2> QED BY <1>2, <2>1
<1>3. CASE j = p
  <2>1. From(o, p, j) = <<0, 0>> /\ Spread(rec, p, e, j) = e
    BY <1>1, <1>3 DEF From, Spread
  <2> QED BY <1>3, <2>1
<1>4. CASE j > p
  <2>1. From(o, p, j) = <<o, j - 1>> /\ Spread(rec, p, e, j) = rec[j - 1] /\ j - 1 \in 1..Len(rec)
    BY <1>1, <1>4 DEF From, Spread
  <2> QED BY <1>4, <2>1
<1> QED BY <1>1, <1>2, <1>3, <1>4

LEMMA FromOnce ==
  ASSUME NEW m \in Nat, NEW o, o # 0, NEW p \in 1..(m + 1), NEW i \in 1..(m + 1),
         NEW j \in 1..(m + 1), From(o, p, i) = From(o, p, j)
  PROVE  i = j
<1>1. CASE i < p
  BY <1>1 DEF From
<1>2. CASE i = p
  BY <1>2 DEF From
<1>3. CASE i > p
  BY <1>3 DEF From
<1> QED BY <1>1, <1>2, <1>3

LEMMA CopiesGrow ==
  ASSUME NEW t, NEW u, NEW lev, NEW lev2, Pages(t, lev), Pages(u, lev2), NEW n, Size(t, n),
         NEW o \in 1..n, lev[o] = 0, NEW k, NEW p, NEW e, Grafted(t, u, lev, lev2, o, n, k, p, e),
         NEW x
  PROVE  Copies(u, x) <= Copies(t, x) + IF x = e.value THEN 1 ELSE 0
<1>0. n \in Nat /\ n = Len(t.page) /\ o # 0 /\ n + 1 # o
  BY DEF Size
<1>1. PICK rec : rec = t.page[o].rec
  OBVIOUS
<1>2. rec \in Seq(Rec) /\ Len(rec) \in Nat
  <2>1. t.page[o].rec \in Seq(Rec)
    BY <1>0, LeafIn
  <2> QED BY <1>1, <2>1
<1>3. k \in Nat /\ p \in 1..(Len(rec) + 1)
  BY <1>1 DEF Grafted
<1> DEFINE A == Places(u, x)
           B == Places(t, x)
           C == IF x = e.value THEN B \cup {<<0, 0>>} ELSE B
           J(d) == IF d[1] = o THEN d[2] ELSE k + d[2]
           f == [d \in A |-> Origin(o, n, k, p, d)]
<1>4. ASSUME NEW d \in A
      PROVE  /\ d = <<d[1], d[2]>>
             /\ d[1] \notin {o, n + 1} => d \in B /\ d[1] \in 1..n /\ Origin(o, n, k, p, d) = d
             /\ d[1] \in {o, n + 1} => /\ J(d) \in 1..(Len(rec) + 1)
                                       /\ Spread(rec, p, e, J(d)).value = x
                                       /\ Origin(o, n, k, p, d) = From(o, p, J(d))
             /\ d[1] = o => d[2] <= k
             /\ d[2] \in Nat \ {0}
  <2>1. PICK q, i : q = d[1] /\ i = d[2]
    OBVIOUS
  <2>2. d = <<q, i>>
    BY <1>4, <2>1, PlacesPairs
  <2>3. q \in 1..Len(u.page) /\ lev2[q] = 0 /\ i \in 1..Len(u.page[q].rec) /\ u.page[q].rec[i].value = x
    BY <1>4, <2>2, PlaceIn
  <2>4. CASE q \notin {o, n + 1}
    <3>1. q \in 1..n /\ lev[q] = 0 /\ u.page[q].rec = t.page[q].rec
      BY <2>3, <2>4 DEF Grafted
    <3>2. i \in 1..Len(t.page[q].rec) /\ t.page[q].rec[i].value = x
      BY <2>3, <3>1
    <3>3. <<q, i>> \in B
      BY <1>0, <3>1, <3>2, PlaceIn
    <3>4. Origin(o, n, k, p, d) = d
      BY <2>1, <2>4 DEF Origin
    <3>5. i \in Nat \ {0}
      <4>1. Len(u.page[q].rec) \in 0..FANOUT /\ FANOUT \in Nat
        BY <2>3, LeafIn, TreeAssumption
      <4> QED BY <2>3, <4>1
    <3> QED BY <2>1, <2>2, <2>4, <3>1, <3>3, <3>4, <3>5
  <2>5. CASE q \in {o, n + 1}
    <3>1. PICK j : j = IF q = o THEN i ELSE k + i
      OBVIOUS
    <3>2. /\ q = o => i <= k
          /\ j \in 1..(Len(rec) + 1) /\ u.page[q].rec[i] = Spread(rec, p, e, j)
      BY <1>1, <2>3, <2>5, <3>1 DEF Grafted
    <3>3. Spread(rec, p, e, j).value = x
      BY <2>3, <3>2
    <3>4. J(d) = j
      BY <2>1, <3>1
    <3>5. Origin(o, n, k, p, d) = From(o, p, j)
      BY <1>0, <2>1, <2>5, <3>1 DEF Origin
    <3>6. i \in Nat \ {0}
      <4>1. Len(u.page[q].rec) \in 0..FANOUT /\ FANOUT \in Nat
        BY <2>3, LeafIn, TreeAssumption
      <4> QED BY <2>3, <4>1
    <3> QED BY <2>1, <2>2, <2>5, <3>2, <3>3, <3>4, <3>5, <3>6
  <2> QED BY <2>4, <2>5
<1>5. ASSUME NEW d \in A, d[1] \in {o, n + 1}
      PROVE  From(o, p, J(d)) \in C /\ (From(o, p, J(d)) = <<0, 0>> \/ From(o, p, J(d))[1] = o)
  <2>1. PICK j : j = J(d)
    OBVIOUS
  <2>2. j \in 1..(Len(rec) + 1) /\ Spread(rec, p, e, j).value = x
    BY <1>4, <1>5, <2>1
  <2>3. CASE j = p
    <3>1. From(o, p, j) = <<0, 0>> /\ Spread(rec, p, e, j) = e
      BY <1>0, <1>2, <1>3, <2>2, <2>3, FromIs
    <3> QED BY <2>1, <2>2, <3>1
  <2>4. CASE j # p
    <3>1. PICK i \in 1..Len(rec) : From(o, p, j) = <<o, i>> /\ Spread(rec, p, e, j) = rec[i]
      BY SMTT(30), <1>0, <1>2, <1>3, <2>2, <2>4, FromIs
    <3>2. <<o, i>> \in B
      <4>1. i \in 1..Len(t.page[o].rec) /\ t.page[o].rec[i].value = x
        BY <1>1, <2>2, <3>1
      <4> QED BY <1>0, <4>1, PlaceIn
    <3> QED BY <2>1, <3>1, <3>2
  <2> QED BY <2>3, <2>4
<1> HIDE DEF A, B
<1>6. ASSUME NEW d \in A PROVE f[d] \in C
  <2>1. f[d] = Origin(o, n, k, p, d)
    OBVIOUS
  <2> HIDE DEF f
  <2>2. CASE d[1] \in {o, n + 1}
    BY <1>4, <1>5, <2>1, <2>2
  <2>3. CASE d[1] \notin {o, n + 1}
    BY <1>4, <2>1, <2>3
  <2> QED BY <2>2, <2>3
<1>7. ASSUME NEW c \in A, NEW d \in A, f[c] = f[d] PROVE c = d
  <2>1. f[c] = Origin(o, n, k, p, c) /\ f[d] = Origin(o, n, k, p, d)
    OBVIOUS
  <2> HIDE DEF f
  <2>2. CASE c[1] \notin {o, n + 1} /\ d[1] \notin {o, n + 1}
    <3>1. Origin(o, n, k, p, c) = c
      BY <1>4, <2>2
    <3>2. Origin(o, n, k, p, d) = d
      BY <1>4, <2>2
    <3> QED BY <1>7, <2>1, <3>1, <3>2
  <2>3. CASE c[1] \in {o, n + 1} /\ d[1] \notin {o, n + 1}
    <3>1. f[d] = d /\ d[1] \in 1..n /\ d = <<d[1], d[2]>>
      BY <1>4, <2>1, <2>3
    <3>2. f[c] = <<0, 0>> \/ f[c][1] = o
      BY <1>4, <1>5, <2>1, <2>3
    <3> QED BY <1>0, <1>7, <2>3, <3>1, <3>2
  <2>4. CASE c[1] \notin {o, n + 1} /\ d[1] \in {o, n + 1}
    <3>1. f[c] = c /\ c[1] \in 1..n /\ c = <<c[1], c[2]>>
      BY <1>4, <2>1, <2>4
    <3>2. f[d] = <<0, 0>> \/ f[d][1] = o
      BY <1>4, <1>5, <2>1, <2>4
    <3> QED BY <1>0, <1>7, <2>4, <3>1, <3>2
  <2>5. CASE c[1] \in {o, n + 1} /\ d[1] \in {o, n + 1}
    <3>1. PICK i, j : i = J(c) /\ j = J(d)
      OBVIOUS
    <3>2. i \in 1..(Len(rec) + 1) /\ f[c] = From(o, p, i)
      <4>1. J(c) \in 1..(Len(rec) + 1) /\ Origin(o, n, k, p, c) = From(o, p, J(c))
        BY <1>4, <2>5
      <4> HIDE DEF J
      <4> QED BY <2>1, <3>1, <4>1
    <3>6. j \in 1..(Len(rec) + 1) /\ f[d] = From(o, p, j)
      <4>1. J(d) \in 1..(Len(rec) + 1) /\ Origin(o, n, k, p, d) = From(o, p, J(d))
        BY <1>4, <2>5
      <4> HIDE DEF J
      <4> QED BY <2>1, <3>1, <4>1
    <3>7. From(o, p, i) = From(o, p, j)
      BY <1>7, <3>2, <3>6
    <3>3. i = j
      BY <1>0, <1>2, <1>3, <3>2, <3>6, <3>7, FromOnce
    <3>4. /\ c = <<c[1], c[2]>> /\ d = <<d[1], d[2]>> /\ c[2] \in Nat \ {0} /\ d[2] \in Nat \ {0}
          /\ c[1] = o => c[2] <= k
          /\ d[1] = o => d[2] <= k
      BY <1>4
    <3>5. c[1] = d[1] /\ c[2] = d[2]
      BY <1>0, <1>3, <2>5, <3>1, <3>3, <3>4
    <3> QED BY <3>4, <3>5
  <2> QED BY <2>2, <2>3, <2>4, <2>5
<1>8. f \in Injection(A, C)
  <2>1. DOMAIN f = A /\ f = [d \in A |-> f[d]]
    OBVIOUS
  <2> HIDE DEF f
  <2> QED BY <1>6, <1>7, <2>1 DEF Injection, IsInjective
<1>9. /\ IsFiniteSet(B) /\ Cardinality(B) = Copies(t, x) /\ Cardinality(A) = Copies(u, x)
      /\ Copies(t, x) \in Nat
  BY PlacesFinite DEF A, B
<1>10. IsFiniteSet(C) /\ Cardinality(C) <= Cardinality(B) + IF x = e.value THEN 1 ELSE 0
  <2>1. IsFiniteSet(B \cup {<<0, 0>>})
        /\ Cardinality(B \cup {<<0, 0>>}) = IF <<0, 0>> \in B THEN Cardinality(B) ELSE Cardinality(B) + 1
    BY <1>9, FS_AddElement
  <2> QED BY <1>9, <2>1
<1>11. Cardinality(A) <= Cardinality(C)
  BY <1>8, <1>10, FS_Injection
<1>12. Cardinality(C) \in Nat
  BY <1>10, FS_CardinalityType
<1>13. Cardinality(A) \in Nat
  BY <1>9, PlacesFinite
<1> QED BY <1>9, <1>10, <1>11, <1>12, <1>13

\* A tree whose leaves hold the same values has as many copies.
LEMMA CopiesStay ==
  ASSUME NEW t, NEW u, NEW lev, NEW lev2, Pages(t, lev), Pages(u, lev2), NEW x,
         \A q \in 1..Len(u.page) : lev2[q] = 0 =>
           /\ q \in 1..Len(t.page) /\ lev[q] = 0 /\ Len(u.page[q].rec) = Len(t.page[q].rec)
           /\ \A i \in 1..Len(t.page[q].rec) : u.page[q].rec[i].value = t.page[q].rec[i].value
  PROVE  Copies(u, x) <= Copies(t, x)
<1>1. ASSUME NEW d \in Places(u, x) PROVE d \in Places(t, x)
  <2>1. PICK q, i : q = d[1] /\ i = d[2]
    OBVIOUS
  <2>2. d = <<q, i>>
    BY <1>1, <2>1, PlacesPairs
  <2>3. q \in 1..Len(u.page) /\ lev2[q] = 0 /\ i \in 1..Len(u.page[q].rec) /\ u.page[q].rec[i].value = x
    BY <1>1, <2>2, PlaceIn
  <2>4. /\ q \in 1..Len(t.page) /\ lev[q] = 0 /\ i \in 1..Len(t.page[q].rec)
        /\ t.page[q].rec[i].value = x
    BY <2>3
  <2> QED BY <2>2, <2>4, PlaceIn
<1>2. Places(u, x) \in SUBSET Places(t, x)
  BY <1>1
<1>3. Cardinality(Places(u, x)) <= Cardinality(Places(t, x))
  BY <1>2, PlacesFinite, FS_Subset
<1>4. Copies(t, x) = Cardinality(Places(t, x))
  BY PlacesFinite
<1>5. Copies(u, x) = Cardinality(Places(u, x))
  BY PlacesFinite
<1> QED BY <1>3, <1>4, <1>5

-----------------------------------------------------------------------------
(* A full leaf is split.  With no more copies of a value than a half of a    *)
(* leaf has room for, its halves meet strictly between its bounds.           *)

FewCopies == MaxCopies <= FANOUT - FANOUT \div 2
Fits == DifferencesFit /\ FewCopies

CopiesOK(t) == \A x : Copies(t, x) <= MaxCopies

LEMMA SplitInside ==
  ASSUME Fits, NEW t, NEW lev, NEW low, NEW high, Pages(t, lev), Linked(t, lev),
         Ranges(t, low, high), LeavesOrdered(t, lev, low, high), CopiesOK(t),
         NEW o \in 1..Len(t.page), lev[o] = 0, NEW rec, rec = t.page[o].rec, Len(rec) = FANOUT,
         NEW e \in Rec, low[o] <= e.value, e.value < high[o], Copies(t, e.value) < MaxCopies,
         NEW key, CutAt(rec, e, key)
  PROVE  /\ key \in Value /\ low[o] < key /\ key < high[o]
         /\ LeafOrder(LeftRec(rec, e), low[o], key) /\ LeafOrder(RightRec(rec, e), key, high[o])
<1>1. PICK lo, hi : lo = low[o] /\ hi = high[o]
  OBVIOUS
<1>2. lo \in Int /\ hi \in Int /\ Bottom <= lo /\ lo < hi /\ Bottom \in Int
  BY <1>1, Ends DEF Ranges
<1>3. /\ LeafOrder(rec, lo, hi)
      /\ t.page[o].next # NoNode => low[t.page[o].next] = hi
      /\ t.page[o].next = NoNode => hi = Top
  BY <1>1 DEF LeavesOrdered
<1>4. rec \in Seq(Rec)
  BY LeafIn
<1>5. DifferencesFit
  BY DEF Fits
<1>6. lo <= e.value /\ e.value < hi
  BY <1>1
<1>7. /\ key \in Value /\ lo <= key /\ key <= hi
      /\ LeafOrder(LeftRec(rec, e), lo, key) /\ LeafOrder(RightRec(rec, e), key, hi)
      /\ key = lo => /\ \A j \in 1..(Middle + 1) : rec[j].value = lo
                     /\ e.value = lo \/ rec[Middle + 2].value = lo
      /\ key = hi => \A j \in (Middle + 1)..FANOUT : rec[j].value = hi
  BY SMTT(30), <1>2, <1>3, <1>4, <1>5, <1>6, SplitRecOrder
<1>8. /\ MaxCopies \in Nat /\ MaxCopies <= FANOUT - Middle /\ MaxCopies <= Middle + 1
      /\ Middle \in Nat /\ Middle >= 2 /\ Middle + 2 <= FANOUT /\ FANOUT \in Nat
  BY MiddleIs, BoundsAssumption DEF Fits, FewCopies, Middle
<1>9. \A x : Copies(t, x) <= MaxCopies /\ Copies(t, x) \in Nat
  BY PlacesFinite DEF CopiesOK
<1>10. key # lo
  <2>1. SUFFICES ASSUME key = lo PROVE FALSE
    OBVIOUS
  <2>2. /\ \A j \in 1..(Middle + 1) : rec[j].value = lo
        /\ e.value = lo \/ rec[Middle + 2].value = lo
    BY <1>7, <2>1
  <2>3. CASE e.value = lo
    <3>1. PICK b : b = Middle + 1
      OBVIOUS
    <3>2. /\ 1 \in Nat \ {0} /\ b \in Nat /\ b <= Len(t.page[o].rec) /\ 1 <= b
          /\ \A j \in 1..b : t.page[o].rec[j].value = lo
      BY <1>8, <2>2, <3>1
    <3>3. b - 1 + 1 <= Copies(t, lo)
      BY <3>2, CopiesAtLeast
    <3>4. Copies(t, lo) < MaxCopies
      BY <2>3
    <3> QED BY <1>8, <1>9, <3>1, <3>3, <3>4
  <2>4. CASE rec[Middle + 2].value = lo
    <3>1. PICK b : b = Middle + 2
      OBVIOUS
    <3>2. /\ 1 \in Nat \ {0} /\ b \in Nat /\ b <= Len(t.page[o].rec) /\ 1 <= b
          /\ \A j \in 1..b : t.page[o].rec[j].value = lo
      <4>1. b \in Nat /\ \A j \in 1..b : j = b \/ j \in 1..(Middle + 1)
        BY <1>8, <3>1
      <4> QED BY <1>8, <2>2, <2>4, <3>1, <4>1
    <3>3. b - 1 + 1 <= Copies(t, lo)
      BY <3>2, CopiesAtLeast
    <3> QED BY <1>8, <1>9, <3>1, <3>3
  <2> QED BY <2>2, <2>3, <2>4
<1>11. key # hi
  <2>1. SUFFICES ASSUME key = hi PROVE FALSE
    OBVIOUS
  <2>2. \A j \in (Middle + 1)..FANOUT : rec[j].value = hi
    BY <1>7, <2>1
  <2>3. hi # Top /\ hi # Bottom
    BY <1>2, <1>7, <2>1, Ends
  <2>4. PICK q : q = t.page[o].next
    OBVIOUS
  <2>5. q # NoNode /\ low[q] = hi
    BY <1>3, <2>3, <2>4
  <2>6. q \in 1..Len(t.page) /\ q # o /\ lev[q] = 0
    BY <2>4, <2>5 DEF Linked
  <2>7. LeafOrder(t.page[q].rec, low[q], high[q])
    BY <2>6 DEF LeavesOrdered
  <2>8. Len(t.page[q].rec) # 0 /\ t.page[q].rec[1].value = hi
    BY <2>3, <2>5, <2>7 DEF LeafOrder
  <2>9. PICK a, b : a = Middle + 1 /\ b = FANOUT
    OBVIOUS
  <2>10. /\ a \in Nat \ {0} /\ b \in Nat /\ b <= Len(t.page[o].rec) /\ a <= b
         /\ \A j \in a..b : t.page[o].rec[j].value = hi
    BY <1>8, <2>2, <2>9
  <2>11. b - a + 2 <= Copies(t, hi)
    BY <2>6, <2>8, <2>10, CopiesBeside
  <2> QED BY <1>8, <1>9, <2>9, <2>11
<1>12. lo < key /\ key < hi
  <2>1. key \in Int
    BY <1>7, Ends
  <2> QED BY <1>2, <1>7, <1>10, <1>11, <2>1
<1> QED BY <1>1, <1>7, <1>12

LEMMA SplitLeafOrder ==
  ASSUME Fits, NEW t, NEW lev, NEW low, NEW high, NEW key0, Shape(t, lev, NoNode, NoNode),
         Ordered(t, lev, low, high, NoNode, NoNode, key0), CopiesOK(t),
         NEW n, Size(t, n), NEW o \in 1..n, lev[o] = 0, Len(t.page[o].rec) = FANOUT,
         NEW e \in Rec, low[o] <= e.value, e.value < high[o], Copies(t, e.value) < MaxCopies,
         NEW s, s = SplitLeaf(t, o, e),
         NEW low2, NEW high2, SplitInto(low, high, n, o, s.key, low2, high2)
  PROVE  /\ Ordered(s.tree, Grown(lev, n, lev[o]), low2, high2, o, n + 1, s.key)
         /\ CopiesOK(s.tree)
<1>1. n \in Nat /\ n = Len(t.page) /\ n + 1 # o
  BY DEF Size
<1>2. PICK u, lev2, rec, key : /\ u = s.tree /\ lev2 = Grown(lev, n, lev[o])
                               /\ rec = t.page[o].rec /\ key = s.key
  OBVIOUS
<1>3. /\ Shape(u, lev2, o, n + 1) /\ Relinked(t, u, o) /\ u.root = t.root
      /\ u.page[o].rec = LeftRec(rec, e) /\ u.page[n + 1].rec = RightRec(rec, e)
      /\ \A q \in 1..n : q # o => Same(u.page[q], t.page[q])
      /\ key = RightRec(rec, e)[1].value
  <2>1. PICK v, w : v = SplitLeaf(t, o, e).tree /\ w = Grown(lev, Len(t.page), lev[o])
    OBVIOUS
  <2>2. /\ Shape(v, w, o, Len(t.page) + 1) /\ Relinked(t, v, o) /\ v.root = t.root
        /\ v.page[o].rec = LeftRec(t.page[o].rec, e)
        /\ v.page[Len(t.page) + 1].rec = RightRec(t.page[o].rec, e)
        /\ \A q \in 1..Len(t.page) : q # o => Same(v.page[q], t.page[q])
        /\ SplitLeaf(t, o, e).key = RightRec(t.page[o].rec, e)[1].value
    BY <1>1, <2>1, SplitLeafShape
  <2> QED BY <1>1, <1>2, <2>1, <2>2
<1>4. Pages(t, lev) /\ Linked(t, lev) /\ Pages(u, lev2)
  BY <1>3 DEF Shape
<1>5. Ranges(t, low, high) /\ LeavesOrdered(t, lev, low, high)
  BY DEF Ordered
<1>6. CutAt(rec, e, key)
  BY <1>3 DEF CutAt
<1>7. /\ key \in Value /\ low[o] < key /\ key < high[o]
      /\ LeafOrder(LeftRec(rec, e), low[o], key) /\ LeafOrder(RightRec(rec, e), key, high[o])
  <2>1. o \in 1..Len(t.page) /\ Len(rec) = FANOUT
    BY <1>1, <1>2
  <2> QED BY <1>2, <1>4, <1>5, <1>6, <2>1, SplitInside
<1>8. PICK up2 : up2 = Upto(high2, o, n + 1)
  OBVIOUS
<1>9. HalvesOrdered(u.page[o], u.page[n + 1], lev[o], low[o], key, high[o], low2, up2)
  BY <1>3, <1>7 DEF HalvesOrdered
<1>10. ASSUME NEW q \in 1..n, q # o
       PROVE  /\ lev[q] = 0 => t.page[q] \in LeafNode /\ u.page[q].rec = t.page[q].rec
              /\ lev[q] # 0 => u.page[q].keys = t.page[q].keys /\ u.page[q].child = t.page[q].child
  <2>1. Same(u.page[q], t.page[q])
    BY <1>3, <1>10
  <2>2. lev[q] = 0 => t.page[q] \in LeafNode
    BY <1>1, <1>4, LeafIn
  <2>3. lev[q] # 0 => t.page[q] \in InnerNode
    BY <1>1, <1>4, LeafIn
  <2> QED BY <2>1, <2>2, <2>3 DEF Same
<1>11. Untouched(t, u, lev, o)
  BY <1>1, <1>10 DEF Untouched
<1>12. Plain(t, lev, high, Upto(high, NoNode, NoNode), o)
  <2>1. Upto(high, NoNode, NoNode) = high
    BY DEF Upto
  <2>2. ASSUME NEW p \in 1..Len(t.page), lev[p] # 0, NEW c, HasChild(t.page[p], c)
        PROVE  c \in 1..Len(t.page)
    <3>1. IsChild(t, c, p)
      BY <2>2 DEF HasChild, IsChild
    <3> QED BY <2>2, <3>1, ChildIn DEF Shape
  <2> QED BY <2>1, <2>2 DEF Plain
<1>13. key \in Int
  BY <1>7, Ends
<1>14. Ordered(u, Grown(lev, n, lev[o]), low2, high2, o, n + 1, key)
  <2>1. SplitInto(low, high, n, o, key, low2, high2)
    BY <1>2
  <2>2. HalvesOrdered(u.page[o], u.page[n + 1], lev[o], low[o], key, high[o], low2, Upto(high2, o, n + 1))
    BY <1>8, <1>9
  <2> QED BY <1>3, <1>4, <1>7, <1>11, <1>12, <1>13, <2>1, <2>2, SplitOrder
<1>15. rec \in Seq(Rec) /\ Len(rec) = FANOUT
  BY <1>1, <1>2, <1>4, LeafIn
<1>16. PICK p, k : p = SplitPlace(rec, e) /\ k = Middle + 1
  OBVIOUS
<1>17. Grafted(t, u, lev, lev2, o, n, k, p, e)
  <2>1. /\ Len(u.page[o].rec) = Middle + 1 /\ Len(u.page[n + 1].rec) = FANOUT - Middle
        /\ p \in 1..(FANOUT + 1)
        /\ \A j \in 1..Len(u.page[o].rec) : u.page[o].rec[j] = Spread(rec, p, e, j)
        /\ \A j \in 1..Len(u.page[n + 1].rec) :
              u.page[n + 1].rec[j] = Spread(rec, p, e, Middle + 1 + j)
    <3>1. PICK l, r : l = LeftRec(rec, e) /\ r = RightRec(rec, e)
      OBVIOUS
    <3>2. /\ Len(l) = Middle + 1 /\ Len(r) = FANOUT - Middle /\ p \in 1..(FANOUT + 1)
      BY <1>15, <1>16, <3>1, HalvesAre
    <3>3. \A j \in 1..Len(l) : l[j] = Spread(rec, p, e, j)
      BY <1>15, <1>16, <3>1, HalvesAre
    <3>4. \A j \in 1..Len(r) : r[j] = Spread(rec, p, e, Len(l) + j)
      BY <1>15, <1>16, <3>1, HalvesAre
    <3>5. u.page[o].rec = l /\ u.page[n + 1].rec = r
      BY <1>3, <3>1
    <3> QED BY <3>2, <3>3, <3>4, <3>5
  <2>2. /\ k \in Nat /\ p \in 1..(Len(rec) + 1) /\ FANOUT \in Nat /\ Middle \in Nat
        /\ Middle + 2 <= FANOUT
    BY <1>15, <1>16, <2>1, MiddleIs
  <2>3. ASSUME NEW q \in 1..Len(u.page), lev2[q] = 0, q \notin {o, n + 1}
        PROVE  q \in 1..n /\ lev[q] = 0 /\ u.page[q].rec = t.page[q].rec
    <3>1. q \in 1..(n + 1)
      BY <1>1, <1>3, <2>3 DEF Relinked
    <3>2. q \in 1..n /\ lev[q] = 0
      BY <1>1, <1>2, <2>3, <3>1, GrownIs
    <3> QED BY <1>10, <2>3, <3>2
  <2>4. ASSUME NEW i \in 1..Len(u.page[o].rec)
        PROVE  i <= k /\ i \in 1..(Len(rec) + 1) /\ u.page[o].rec[i] = Spread(rec, p, e, i)
    BY <1>15, <1>16, <2>1, <2>2, <2>4
  <2>5. ASSUME NEW i \in 1..Len(u.page[n + 1].rec)
        PROVE  k + i \in 1..(Len(rec) + 1) /\ u.page[n + 1].rec[i] = Spread(rec, p, e, k + i)
    BY <1>15, <1>16, <2>1, <2>2, <2>5
  <2>6. ASSUME NEW q \in 1..Len(u.page), lev2[q] = 0
        PROVE  /\ q \notin {o, n + 1} => q \in 1..n /\ lev[q] = 0 /\ u.page[q].rec = t.page[q].rec
               /\ q \in {o, n + 1} => \A i \in 1..Len(u.page[q].rec) :
                    LET j == IF q = o THEN i ELSE k + i IN
                    /\ q = o => i <= k
                    /\ j \in 1..(Len(rec) + 1)
                    /\ u.page[q].rec[i] = Spread(rec, p, e, j)
    <3>1. CASE q \notin {o, n + 1}
      BY <2>3, <2>6, <3>1
    <3>2. CASE q = o
      BY <2>4, <3>2
    <3>3. CASE q = n + 1
      BY <1>1, <2>5, <3>3
    <3> QED BY <3>1, <3>2, <3>3
  <2> QED BY <1>2, <2>2, <2>6 DEF Grafted
<1>18. ASSUME NEW x PROVE Copies(u, x) <= MaxCopies
  <2>1. Copies(u, x) <= Copies(t, x) + IF x = e.value THEN 1 ELSE 0
    BY <1>4, <1>17, CopiesGrow
  <2>2. Copies(t, x) <= MaxCopies /\ Copies(t, x) \in Nat /\ Copies(u, x) \in Nat /\ MaxCopies \in Nat
    BY <1>4, PlacesFinite, BoundsAssumption DEF CopiesOK
  <2>3. x = e.value => Copies(t, x) < MaxCopies
    OBVIOUS
  <2> QED BY <2>1, <2>2, <2>3
<1> QED BY <1>2, <1>14, <1>18 DEF CopiesOK

\* A leaf with room gets an entry that belongs there.
LEMMA PlaceOrder ==
  ASSUME Fits, NEW t, NEW lev, NEW low, NEW high, NEW key0, Shape(t, lev, NoNode, NoNode),
         Ordered(t, lev, low, high, NoNode, NoNode, key0), CopiesOK(t),
         NEW n, Size(t, n), NEW o \in 1..n, lev[o] = 0, Len(t.page[o].rec) < FANOUT,
         NEW e \in Rec, low[o] <= e.value, e.value < high[o], Copies(t, e.value) < MaxCopies,
         NEW u, u = PlaceInLeaf(t, o, e)
  PROVE  Ordered(u, lev, low, high, NoNode, NoNode, key0) /\ CopiesOK(u)
<1>1. n \in Nat /\ n = Len(t.page) /\ n + 1 # o
  BY DEF Size
<1>2. PICK rec, lo, hi, rec2 : /\ rec = t.page[o].rec /\ lo = low[o] /\ hi = high[o]
                               /\ rec2 = AM_InsertRecNoSplit(rec, e)
  OBVIOUS
<1>3. Shape(u, lev, NoNode, NoNode) /\ Rewritten(t, u, o, rec2)
  BY <1>1, <1>2, PlaceShape
<1>4. Pages(t, lev) /\ Pages(u, lev) /\ Ranges(t, low, high) /\ LeavesOrdered(t, lev, low, high)
  BY <1>3 DEF Shape, Ordered
<1>5. rec \in Seq(Rec) /\ Len(rec) \in Nat
  <2>1. t.page[o].rec \in Seq(Rec)
    BY <1>1, <1>4, LeafIn
  <2> QED BY <1>2, <2>1
<1>6. LeafOrder(rec2, lo, hi)
  <2>1. lo \in Int /\ hi \in Int /\ LeafOrder(rec, lo, hi) /\ lo <= e.value /\ e.value < hi
    BY <1>1, <1>2, <1>4 DEF Ranges, LeavesOrdered
  <2>2. e.value \in Int
    BY Ends DEF Rec
  <2>3. e.value <= hi
    BY <2>1, <2>2
  <2> QED BY <1>2, <1>5, <2>1, <2>3, PlaceRecOrder DEF Fits
<1>7. LeafOrder(rec2, low[o], high[o]) /\ o \in 1..Len(t.page)
  BY <1>1, <1>2, <1>6
<1>8. Ordered(u, lev, low, high, NoNode, NoNode, key0)
  BY <1>3, <1>7, RewriteOrder
<1>9. PICK p, k : p = RecPlace(rec, e) /\ k = Len(rec) + 1
  OBVIOUS
<1>10. Grafted(t, u, lev, lev, o, n, k, p, e)
  <2>1. /\ p \in 1..(Len(rec) + 1) /\ Len(rec2) = Len(rec) + 1
        /\ \A j \in 1..(Len(rec) + 1) : rec2[j] = Spread(rec, p, e, j)
    <3>1. /\ RecPlace(rec, e) \in 1..(Len(rec) + 1)
          /\ Len(AM_InsertRecNoSplit(rec, e)) = Len(rec) + 1
      BY <1>5, InsertRec
    <3>2. \A j \in 1..(Len(rec) + 1) :
              AM_InsertRecNoSplit(rec, e)[j] = Spread(rec, RecPlace(rec, e), e, j)
      BY <1>5, InsertRec
    <3> QED BY <1>2, <1>9, <3>1, <3>2
  <2>2. /\ Len(u.page) = n /\ u.page[o].rec = rec2
        /\ \A q \in 1..n : q # o => u.page[q] = t.page[q]
    BY <1>1, <1>3 DEF Rewritten
  <2>3. ASSUME NEW q \in 1..Len(u.page), lev[q] = 0
        PROVE  /\ q \notin {o, n + 1} => q \in 1..n /\ lev[q] = 0 /\ u.page[q].rec = t.page[q].rec
               /\ q \in {o, n + 1} => \A i \in 1..Len(u.page[q].rec) :
                    LET j == IF q = o THEN i ELSE k + i IN
                    /\ q = o => i <= k
                    /\ j \in 1..(Len(rec) + 1)
                    /\ u.page[q].rec[i] = Spread(rec, p, e, j)
    <3>1. CASE q = o
      BY <1>9, <2>1, <2>2, <3>1
    <3>2. CASE q # o
      BY <1>1, <2>2, <2>3, <3>2
    <3> QED BY <3>1, <3>2
  <2> QED BY SMTT(30), <1>2, <1>5, <1>9, <2>1, <2>3 DEF Grafted
<1>11. ASSUME NEW x PROVE Copies(u, x) <= MaxCopies
  <2>1. Copies(u, x) <= Copies(t, x) + IF x = e.value THEN 1 ELSE 0
    BY <1>4, <1>10, CopiesGrow
  <2>2. Copies(t, x) <= MaxCopies /\ Copies(t, x) \in Nat /\ Copies(u, x) \in Nat /\ MaxCopies \in Nat
    BY <1>4, PlacesFinite, BoundsAssumption DEF CopiesOK
  <2>3. x = e.value => Copies(t, x) < MaxCopies
    OBVIOUS
  <2> QED BY <2>1, <2>2, <2>3
<1> QED BY <1>8, <1>11 DEF CopiesOK

\* Each leaf of u is one of t, with the same values.
SameValues(t, u, lev, lev2) ==
  \A q \in 1..Len(u.page) : lev2[q] = 0 =>
    /\ q \in 1..Len(t.page) /\ lev[q] = 0 /\ Len(u.page[q].rec) = Len(t.page[q].rec)
    /\ \A i \in 1..Len(t.page[q].rec) : u.page[q].rec[i].value = t.page[q].rec[i].value

LEMMA CopiesStayOK ==
  ASSUME NEW t, NEW u, NEW lev, NEW lev2, Pages(t, lev), Pages(u, lev2), CopiesOK(t),
         SameValues(t, u, lev, lev2)
  PROVE  CopiesOK(u)
<1>1. ASSUME NEW x PROVE Copies(u, x) <= MaxCopies
  <2>1. Copies(u, x) <= Copies(t, x)
    BY CopiesStay DEF SameValues
  <2>2. Copies(t, x) <= MaxCopies /\ Copies(t, x) \in Nat /\ Copies(u, x) \in Nat /\ MaxCopies \in Nat
    BY PlacesFinite, BoundsAssumption DEF CopiesOK
  <2> QED BY <2>1, <2>2
<1> QED BY <1>1 DEF CopiesOK

\* Marking an entry leaves its value.
LEMMA MarkOrder ==
  ASSUME NEW t, NEW lev, NEW low, NEW high, NEW old, NEW after, NEW key,
         Shape(t, lev, old, after), Ordered(t, lev, low, high, old, after, key), CopiesOK(t),
         NEW at, at.leaf \in 1..Len(t.page), lev[at.leaf] = 0,
         at.entry \in 1..Len(t.page[at.leaf].rec), NEW u, u = AM_MarkDeleted(t, at)
  PROVE  Ordered(u, lev, low, high, old, after, key) /\ CopiesOK(u)
<1>1. PICK o, i, rec, rec2 : /\ o = at.leaf /\ i = at.entry /\ rec = t.page[o].rec
                             /\ rec2 = [t.page[at.leaf].rec EXCEPT ![at.entry].deleted = TRUE]
  OBVIOUS
<1>2. Shape(u, lev, old, after) /\ Rewritten(t, u, o, rec2)
  BY <1>1, MarkShape
<1>3. Pages(t, lev) /\ Pages(u, lev) /\ LeavesOrdered(t, lev, low, high)
  BY <1>2 DEF Shape, Ordered
<1>4. o \in 1..Len(t.page) /\ lev[o] = 0 /\ i \in 1..Len(rec)
  BY <1>1
<1>5. rec \in Seq(Rec) /\ Len(rec) \in Nat
  <2>1. t.page[o].rec \in Seq(Rec)
    BY <1>3, <1>4, LeafIn
  <2> QED BY <1>1, <2>1
<1>6. Len(rec2) = Len(rec) /\ \A j \in 1..Len(rec) : rec2[j].value = rec[j].value
  <2>1. rec2 = [rec EXCEPT ![i].deleted = TRUE]
    BY <1>1
  <2>2. \A j \in 1..Len(rec) : rec[j] \in Rec
    BY <1>5
  <2>3. Len(rec2) = Len(rec)
    BY <1>5, <2>1
  <2>4. ASSUME NEW j \in 1..Len(rec) PROVE rec2[j].value = rec[j].value
    <3>1. CASE j = i
      <4>1. PICK e : e = [rec[i] EXCEPT !.deleted = TRUE]
        OBVIOUS
      <4>2. rec2 = [rec EXCEPT ![i] = e]
        BY <2>1, <4>1
      <4>3. e.value = rec[i].value
        BY <1>4, <2>2, <4>1 DEF Rec
      <4>4. rec2[i] = e
        BY <1>4, <1>5, <4>2
      <4> QED BY <3>1, <4>3, <4>4
    <3>2. CASE j # i
      BY <1>4, <1>5, <2>1, <3>2
    <3> QED BY <3>1, <3>2
  <2> QED BY <2>3, <2>4
<1>7. LeafOrder(rec2, low[o], high[o])
  <2>1. LeafOrder(rec, low[o], high[o])
    BY <1>1, <1>3, <1>4 DEF LeavesOrdered
  <2> QED BY <1>5, <1>6, <2>1 DEF LeafOrder, Sorted
<1>8. Ordered(u, lev, low, high, old, after, key)
  BY <1>2, <1>4, <1>7, RewriteOrder
<1>9. CopiesOK(u)
  <2>1. /\ Len(u.page) = Len(t.page) /\ u.page[o].rec = rec2
        /\ \A q \in 1..Len(t.page) : q # o => u.page[q] = t.page[q]
    BY <1>2 DEF Rewritten
  <2>2. ASSUME NEW q \in 1..Len(u.page), lev[q] = 0
        PROVE  /\ q \in 1..Len(t.page) /\ Len(u.page[q].rec) = Len(t.page[q].rec)
               /\ \A j \in 1..Len(t.page[q].rec) : u.page[q].rec[j].value = t.page[q].rec[j].value
    <3>1. CASE q = o
      BY ZenonT(30), <1>1, <1>6, <2>1, <3>1
    <3>2. CASE q # o
      BY <2>1, <3>2
    <3> QED BY <3>1, <3>2
  <2>3. SameValues(t, u, lev, lev)
    BY <2>2 DEF SameValues
  <2> QED BY <1>3, <2>3, CopiesStayOK
<1> QED BY <1>8, <1>9

-----------------------------------------------------------------------------
(* A split climbs: the parent of old gets after, which begins at key.        *)

\* Node x is at page o, m children has it, and the k-th of them is old.
OldAt(t, o, x, m, k, old) ==
  /\ x = t.page[o] /\ m = Len(x.child) /\ m \in Nat \ {0} /\ k \in 1..m /\ x.child[k] = old

LEMMA OldAtExists ==
  ASSUME NEW t, NEW lev, NEW old, NEW after, Shape(t, lev, old, after), after # NoNode,
         NEW o, o = t.page[old].parent, o # NoNode
  PROVE  /\ o \in 1..Len(t.page) /\ lev[o] # 0
         /\ \E x, m, k : OldAt(t, o, x, m, k, old)
<1>1. o \in 1..Len(t.page) /\ lev[o] # 0 /\ IsChild(t, old, o)
  BY Above
<1>2. PICK k \in 1..Len(t.page[o].child) : t.page[o].child[k] = old
  BY <1>1 DEF IsChild
<1>3. Len(t.page[o].child) \in 1..FANOUT
  BY <1>1, LeafIn DEF Shape
<1>4. PICK x, m : x = t.page[o] /\ m = Len(x.child)
  OBVIOUS
<1>5. m \in Nat \ {0} /\ k \in 1..m
  BY <1>2, <1>3, <1>4, TreeAssumption
<1>6. OldAt(t, o, x, m, k, old)
  BY <1>2, <1>4, <1>5 DEF OldAt
<1> QED BY <1>1, <1>6

\* Only the parent of old takes it to reach further than it does.
LEMMA ClimbPlain ==
  ASSUME NEW t, NEW lev, NEW low, NEW high, NEW old, NEW after,
         Shape(t, lev, old, after), Ranges(t, low, high), after # NoNode,
         NEW o, o = t.page[old].parent, o # NoNode
  PROVE  Plain(t, lev, high, Upto(high, old, after), o)
<1>1. Pages(t, lev) /\ Family(t, lev, after)
  BY DEF Shape
<1>2. t.root \in 1..Len(t.page) /\ t.root # old
  <2>1. t.root \in 1..Len(t.page) /\ t.page[t.root].parent = NoNode
    BY <1>1, RootIn
  <2> QED BY <2>1
<1>3. ASSUME NEW p \in 1..Len(t.page), p # o, lev[p] # 0, NEW c, HasChild(t.page[p], c)
      PROVE  c \in 1..Len(t.page) /\ c # old
  <2>1. IsChild(t, c, p)
    BY <1>3 DEF HasChild, IsChild
  <2>2. c \in 1..Len(t.page) /\ t.page[c].parent = p
    BY <1>1, <1>3, <2>1, ChildIn
  <2> QED BY <1>3, <2>2
<1>4. ASSUME NEW c \in 1..Len(t.page), c # old
      PROVE  Upto(high, old, after)[c] = high[c]
  BY <1>4, UptoIs
<1> QED BY <1>2, <1>3, <1>4 DEF Plain

\* What is known where the split climbs to.
GoesUp(ks, cs, m, k, lo, key, hi, low, high, up, after) ==
  /\ Chain(ks, cs, m, lo, hi, low, up)
  /\ Bound(ks, m, lo, hi, k - 1) < key /\ key < Bound(ks, m, lo, hi, k)
  /\ \A j \in 1..m : j # k => high[cs[j]] = up[cs[j]]
  /\ high[cs[k]] = key /\ low[after] = key /\ high[after] = up[cs[k]]

LEMMA ClimbIs ==
  ASSUME NEW t, NEW lev, NEW low, NEW high, NEW old, NEW after, NEW key,
         Shape(t, lev, old, after), Ordered(t, lev, low, high, old, after, key), after # NoNode,
         NEW o \in 1..Len(t.page), lev[o] # 0, NEW x, NEW m, NEW k, OldAt(t, o, x, m, k, old)
  PROVE  GoesUp(x.keys, x.child, m, k, low[o], key, high[o], low, high, Upto(high, old, after), after)
<1>1. x = t.page[o] /\ m = Len(x.child) /\ m \in Nat \ {0} /\ k \in 1..m /\ x.child[k] = old
  BY DEF OldAt
<1>2. PICK up, ks, cs, lo, hi : /\ up = Upto(high, old, after) /\ ks = x.keys /\ cs = x.child
                                /\ lo = low[o] /\ hi = high[o]
  OBVIOUS
<1>3. Ranges(t, low, high) /\ high[old] = key /\ low[after] = key
  BY DEF Ordered, Gap
<1>4. Chain(ks, cs, m, lo, hi, low, up)
  <2>1. NodeOrder(t.page[o], low[o], high[o], low, up)
    BY <1>2 DEF Ordered, NodesOrdered
  <2> QED BY <1>1, <1>2, <2>1 DEF NodeOrder
<1>5. old \in 1..Len(t.page) /\ after \in 1..Len(t.page) /\ old # after
  BY Above
<1>6. up[old] = high[after]
  BY <1>2, <1>3, <1>5, UptoOld
<1>7. ASSUME NEW j \in 1..m, j # k PROVE high[cs[j]] = up[cs[j]]
  <2>1. Family(t, lev, after)
    BY DEF Shape
  <2>2. IsChild(t, cs[j], o)
    BY <1>1, <1>2 DEF IsChild
  <2>3. cs[j] \in 1..Len(t.page)
    BY <2>1, <2>2, ChildIn
  <2>4. cs[j] # old
    BY <1>1, <1>2, <1>7, <2>1 DEF Family
  <2> QED BY <1>2, <1>3, <2>3, <2>4, UptoIs
<1>8. low[old] < key /\ key < high[after]
  BY <1>3, <1>5 DEF Ranges
<1>9. Bound(ks, m, lo, hi, k - 1) = low[old] /\ Bound(ks, m, lo, hi, k) = high[after]
  BY <1>1, <1>2, <1>4, <1>6 DEF Chain
<1>10. GoesUp(ks, cs, m, k, lo, key, hi, low, high, up, after)
  BY <1>1, <1>2, <1>3, <1>4, <1>6, <1>7, <1>8, <1>9 DEF GoesUp
<1> QED BY <1>2, <1>10

\* s2 are the n elements of s with e in place p.
Spreads(s2, s, p, e, n) == \A j \in 1..n : s2[j] = Spread(s, p, e, j)

LEMMA ClimbChain ==
  ASSUME NEW m \in Nat \ {0}, NEW k \in 1..m, NEW key \in Int,
         NEW ks, NEW cs, NEW lo, NEW hi, NEW low, NEW high, NEW up, NEW after,
         GoesUp(ks, cs, m, k, lo, key, hi, low, high, up, after),
         NEW ks2, Spreads(ks2, ks, k, key, m), NEW cs2, Spreads(cs2, cs, k + 1, after, m + 1)
  PROVE  Chain(ks2, cs2, m + 1, lo, hi, low, high)
<1>1. /\ Chain(ks, cs, m, lo, hi, low, up)
      /\ Bound(ks, m, lo, hi, k - 1) < key /\ key < Bound(ks, m, lo, hi, k)
      /\ \A j \in 1..m : j # k => high[cs[j]] = up[cs[j]]
      /\ high[cs[k]] = key /\ low[after] = key /\ high[after] = up[cs[k]]
  BY DEF GoesUp
<1>2. \A j \in 1..m : ks2[j] = Spread(ks, k, key, j)
  BY DEF Spreads
<1>3. \A j \in 1..(m + 1) : cs2[j] = Spread(cs, k + 1, after, j)
  BY DEF Spreads
<1> QED BY <1>1, <1>2, <1>3, ChainInsert

LEMMA InnerKeys ==
  ASSUME NEW x, NEW m \in Nat \ {0}, Inner(x, m)
  PROVE  Keys(x.keys, m)
BY DEF Inner, InnerNode, Keys

\* The key goes where old ends.
LEMMA ClimbKeyPlace ==
  ASSUME DifferencesFit, NEW x, NEW m \in Nat \ {0}, Inner(x, m), NEW k \in 1..m, NEW key \in Value,
         NEW lo, NEW hi, NEW low, NEW high, NEW up, NEW after,
         GoesUp(x.keys, x.child, m, k, lo, key, hi, low, high, up, after)
  PROVE  KeyPlace(x, key) = k
<1>1. PICK ks : ks = x.keys
  OBVIOUS
<1>2. /\ Rising(ks, m, lo, hi)
      /\ Bound(ks, m, lo, hi, k - 1) < key /\ key < Bound(ks, m, lo, hi, k)
  BY <1>1 DEF GoesUp, Chain
<1>3. \A j \in 1..(m - 1) : ks[j] \in Value
  BY <1>1, InnerKeys DEF Keys
<1>4. Bound(ks, m, lo, hi, k - 1) <= key
  <2>1. Bound(ks, m, lo, hi, k - 1) \in Int
    BY <1>2 DEF Rising
  <2>2. key \in Int
    BY Ends
  <2> QED BY <1>2, <2>1, <2>2
<1>5. AM_UpperBound(ks, m, key) = k
  BY <1>2, <1>3, <1>4, KeyPlaceIs
<1>6. Len(x.child) = m
  BY DEF Inner
<1> QED BY <1>1, <1>5, <1>6 DEF KeyPlace

\* y is x, of m children, with a key and the child behind it.
Inserted(x, y, m, key, after) ==
  /\ Inner(y, m + 1)
  /\ Spreads(y.keys, x.keys, KeyPlace(x, key), key, m)
  /\ Spreads(y.child, x.child, KeyPlace(x, key) + 1, after, m + 1)

LEMMA InsertKeyIs ==
  ASSUME NEW m \in Nat \ {0}, NEW x, Inner(x, m), NEW key \in Value, NEW after \in Nat
  PROVE  Inserted(x, AM_InsertKeyToIndexNoSplit(x, key, after), m, key, after)
<1>1. Inner(AM_InsertKeyToIndexNoSplit(x, key, after), m + 1)
  BY InsertKey
<1>2. \A j \in 1..m : AM_InsertKeyToIndexNoSplit(x, key, after).keys[j]
                     = Spread(x.keys, KeyPlace(x, key), key, j)
  BY InsertKey
<1>3. \A j \in 1..(m + 1) : AM_InsertKeyToIndexNoSplit(x, key, after).child[j]
                           = Spread(x.child, KeyPlace(x, key) + 1, after, j)
  BY InsertKey
<1> QED BY <1>1, <1>2, <1>3 DEF Inserted, Spreads

\* A node with room gets the new child where it belongs.
LEMMA PlaceKeyOrder ==
  ASSUME DifferencesFit, NEW t, NEW lev, NEW low, NEW high, NEW old, NEW after, NEW key \in Value,
         Shape(t, lev, old, after), Ordered(t, lev, low, high, old, after, key), CopiesOK(t),
         after # NoNode, NEW o, o = t.page[old].parent, o # NoNode, Len(t.page[o].child) < FANOUT,
         NEW u, u = [t EXCEPT !.page[o] = AM_InsertKeyToIndexNoSplit(@, key, after)]
  PROVE  Ordered(u, lev, low, high, NoNode, NoNode, NoNode) /\ CopiesOK(u)
<1>1. o \in 1..Len(t.page) /\ lev[o] # 0 /\ \E x, m, k : OldAt(t, o, x, m, k, old)
  BY OldAtExists
<1>2. PICK x, m, k : OldAt(t, o, x, m, k, old)
  BY <1>1
<1>3. x = t.page[o] /\ m = Len(x.child) /\ m \in Nat \ {0} /\ k \in 1..m
  BY <1>2 DEF OldAt
<1>4. Pages(t, lev) /\ Ranges(t, low, high)
  BY DEF Shape, Ordered
<1>5. t \in TreeRec /\ Inner(x, m) /\ after \in Nat
  <2>1. t \in TreeRec /\ Inner(t.page[o], Len(t.page[o].child))
    BY <1>1, <1>4, LeafIn
  <2>2. after \in 1..Len(t.page) /\ Len(t.page) \in Nat
    BY <1>1, <1>4, Above, LeafIn
  <2> QED BY <1>3, <2>1, <2>2
<1>6. PICK lo, hi, up : lo = low[o] /\ hi = high[o] /\ up = Upto(high, old, after)
  OBVIOUS
<1>7. GoesUp(x.keys, x.child, m, k, lo, key, hi, low, high, up, after)
  BY <1>1, <1>2, <1>6, ClimbIs
<1>8. KeyPlace(x, key) = k
  BY <1>3, <1>5, <1>7, ClimbKeyPlace
<1>9. PICK y : y = AM_InsertKeyToIndexNoSplit(x, key, after)
  OBVIOUS
<1>10. Inner(y, m + 1) /\ Spreads(y.keys, x.keys, k, key, m) /\ Spreads(y.child, x.child, k + 1, after, m + 1)
  <2>1. Inserted(x, AM_InsertKeyToIndexNoSplit(x, key, after), m, key, after)
    BY <1>3, <1>5, InsertKeyIs
  <2> QED BY <1>8, <1>9, <2>1 DEF Inserted
<1>11. Chain(y.keys, y.child, m + 1, lo, hi, low, high)
  <2>1. key \in Int
    BY Ends
  <2>2. PICK ks2, cs2 : ks2 = y.keys /\ cs2 = y.child
    OBVIOUS
  <2>3. Spreads(ks2, x.keys, k, key, m) /\ Spreads(cs2, x.child, k + 1, after, m + 1)
    BY <1>10, <2>2
  <2>4. Chain(ks2, cs2, m + 1, lo, hi, low, high)
    BY <1>3, <1>7, <2>1, <2>3, ClimbChain
  <2> QED BY <2>2, <2>4
<1>12. NodeOrder(y, lo, hi, low, high)
  BY <1>10, <1>11 DEF NodeOrder, Inner
<1>13. Replaced(t, u, o, y)
  <2>1. y \in LeafNode \cup InnerNode
    BY <1>10 DEF Inner
  <2>2. u = [t EXCEPT !.page[o] = y]
    BY <1>3, <1>9
  <2> QED BY <1>1, <1>5, <2>1, <2>2, ReplaceIs
<1>14. /\ Len(u.page) = Len(t.page) /\ u.page[o] = y /\ u.root = t.root
       /\ \A q \in 1..Len(t.page) : q # o => u.page[q] = t.page[q]
  BY <1>13 DEF Replaced
<1>15. Plain(t, lev, high, up, o)
  BY <1>4, <1>6, ClimbPlain
<1>16. NodesOrdered(t, lev, low, high, up) /\ LeavesOrdered(t, lev, low, high) /\ Covers(t, low, up)
  BY <1>6 DEF Ordered
<1>17. NodesOrdered(u, lev, low, high, high)
  <2>1. ASSUME NEW q \in 1..Len(u.page), lev[q] # 0
        PROVE  NodeOrder(u.page[q], low[q], high[q], low, high)
    <3>1. CASE q = o
      BY <1>6, <1>12, <1>14, <3>1
    <3>2. CASE q # o
      <4>1. PICK z, a, b : z = t.page[q] /\ a = low[q] /\ b = high[q]
        OBVIOUS
      <4>2. NodeOrder(z, a, b, low, up)
        BY <1>14, <1>16, <2>1, <4>1 DEF NodesOrdered
      <4>3. \A c : HasChild(z, c) => high[c] = up[c]
        BY <1>14, <1>15, <2>1, <3>2, <4>1 DEF Plain
      <4>4. NodeOrder(z, a, b, low, high)
        BY <4>2, <4>3, NodeSame
      <4> QED BY <1>14, <3>2, <4>1, <4>4
    <3> QED BY <3>1, <3>2
  <2> QED BY <2>1 DEF NodesOrdered
<1>18. LeavesOrdered(u, lev, low, high)
  <2>1. ASSUME NEW q \in 1..Len(u.page), lev[q] = 0
        PROVE  u.page[q] = t.page[q] /\ q \in 1..Len(t.page)
    BY <1>1, <1>14, <2>1
  <2> QED BY <1>16, <2>1 DEF LeavesOrdered
<1>19. Covers(u, low, high)
  BY <1>14, <1>15, <1>16 DEF Covers, Plain
<1>20. Ranges(u, low, high)
  BY <1>4, <1>14 DEF Ranges
<1>21. Ordered(u, lev, low, high, NoNode, NoNode, NoNode)
  <2>1. Upto(high, NoNode, NoNode) = high /\ Gap(low, high, NoNode, NoNode, NoNode)
    BY DEF Upto, Gap
  <2> QED BY <1>17, <1>18, <1>19, <1>20, <2>1 DEF Ordered
<1>22. CopiesOK(u)
  <2>1. Pages(u, lev)
    <3>1. Shape([t EXCEPT !.page[o] = AM_InsertKeyToIndexNoSplit(@, key, after)], lev, NoNode, NoNode)
      BY PlaceKeyShape
    <3> QED BY <3>1 DEF Shape
  <2>2. ASSUME NEW q \in 1..Len(u.page), lev[q] = 0
        PROVE  /\ q \in 1..Len(t.page) /\ Len(u.page[q].rec) = Len(t.page[q].rec)
               /\ \A j \in 1..Len(t.page[q].rec) : u.page[q].rec[j].value = t.page[q].rec[j].value
    <3>1. u.page[q] = t.page[q]
      BY <1>1, <1>14, <2>2
    <3> QED BY <1>14, <2>2, <3>1
  <2>3. SameValues(t, u, lev, lev)
    BY <2>2 DEF SameValues
  <2> QED BY <1>4, <2>1, <2>3, CopiesStayOK
<1> QED BY <1>21, <1>22

-----------------------------------------------------------------------------
(* A full inner node is split. *)

HalvesAt(x, key, after, l, r, c) ==
  /\ l = LeftNode(x, key, after) /\ r = RightNode(x, key, after)
  /\ c = x.keys[KeyPoint(x, key)]

\* The halves are the parts of ks, the keys with the new one, and of cs, the
\* children with the new one, up to the s-th child and behind it.
HalvesOf(l, r, c, ks, cs, s) ==
  /\ s \in 2..FANOUT /\ Inner(l, s) /\ Inner(r, FANOUT + 1 - s) /\ c = ks[s]
  /\ \A j \in 1..(s - 1) : l.keys[j] = ks[j]
  /\ \A j \in 1..s : l.child[j] = cs[j]
  /\ \A j \in 1..(FANOUT - s) : r.keys[j] = ks[s + j]
  /\ \A j \in 1..(FANOUT + 1 - s) : r.child[j] = cs[s + j]

LEMMA HalvesOfIs ==
  ASSUME NEW x, Inner(x, FANOUT), NEW key \in Value, NEW after \in Nat,
         NEW k \in 1..FANOUT, ChildPlace(x, key) = k + 1,
         NEW l, NEW r, NEW c, HalvesAt(x, key, after, l, r, c), NEW ks, NEW cs,
         ks = [j \in 1..FANOUT |-> Spread(x.keys, k, key, j)],
         cs = [j \in 1..(FANOUT + 1) |-> Spread(x.child, k + 1, after, j)]
  PROVE  HalvesOf(l, r, c, ks, cs, LeftSize(x, key))
<1>1. PICK s : s = LeftSize(x, key)
  OBVIOUS
<1>2. /\ l = LeftNode(x, key, after) /\ r = RightNode(x, key, after)
      /\ c = x.keys[KeyPoint(x, key)]
  BY DEF HalvesAt
<1>3. FANOUT \in Nat /\ k \in Int
  BY TreeAssumption
<1>4. s \in 2..FANOUT /\ Inner(l, s) /\ Inner(r, FANOUT + 1 - s)
  <2>1. /\ LeftSize(x, key) \in 2..FANOUT
        /\ Inner(LeftNode(x, key, after), LeftSize(x, key))
        /\ Inner(RightNode(x, key, after), FANOUT + 1 - LeftSize(x, key))
    BY NodeHalves
  <2> QED BY <1>1, <1>2, <2>1
<1>5. ASSUME NEW j \in 1..s PROVE l.child[j] = cs[j]
  <2>1. \A i \in 1..LeftSize(x, key) : LeftNode(x, key, after).child[i]
              = Spread(x.child, ChildPlace(x, key), after, i)
    BY NodeHalves
  <2>2. l.child[j] = Spread(x.child, k + 1, after, j)
    BY <1>1, <1>2, <2>1
  <2>3. j \in 1..(FANOUT + 1)
    BY <1>3, <1>4
  <2> QED BY <2>2, <2>3
<1>6. ASSUME NEW j \in 1..(FANOUT + 1 - s) PROVE r.child[j] = cs[s + j]
  <2>1. \A i \in 1..(FANOUT + 1 - LeftSize(x, key)) : RightNode(x, key, after).child[i]
              = Spread(x.child, ChildPlace(x, key), after, LeftSize(x, key) + i)
    BY NodeHalves
  <2>2. r.child[j] = Spread(x.child, k + 1, after, s + j)
    BY <1>1, <1>2, <2>1
  <2>3. s + j \in 1..(FANOUT + 1)
    BY <1>3, <1>4
  <2> QED BY <2>2, <2>3
<1>7. /\ \A j \in 1..(s - 1) : LeftNode(x, key, after).keys[j] = Spread(x.keys, k, key, j)
      /\ \A j \in 1..(FANOUT - s) :
           RightNode(x, key, after).keys[j] = Spread(x.keys, k, key, s + j)
      /\ x.keys[KeyPoint(x, key)] = Spread(x.keys, k, key, s)
  <2>1. SplitAt(x, key, s, k)
    BY <1>1, <1>3 DEF SplitAt
  <2> QED BY <2>1, KeyHalves
<1>8. ASSUME NEW j \in 1..(s - 1) PROVE l.keys[j] = ks[j]
  <2>1. j \in 1..FANOUT
    BY <1>3, <1>4
  <2> QED BY <1>2, <1>7, <2>1
<1>9. ASSUME NEW j \in 1..(FANOUT - s) PROVE r.keys[j] = ks[s + j]
  <2>1. s + j \in 1..FANOUT
    BY <1>3, <1>4
  <2> QED BY <1>2, <1>7, <2>1
<1>10. c = ks[s]
  <2>1. s \in 1..FANOUT
    BY <1>3, <1>4
  <2> QED BY <1>2, <1>7, <2>1
<1>11. HalvesOf(l, r, c, ks, cs, s)
  BY <1>4, <1>5, <1>6, <1>8, <1>9, <1>10 DEF HalvesOf
<1> QED BY <1>1, <1>11

LEMMA HalvesChains ==
  ASSUME NEW lo, NEW hi, NEW low, NEW high, NEW ks, NEW cs,
         Chain(ks, cs, FANOUT + 1, lo, hi, low, high),
         NEW s, NEW l, NEW r, NEW c, HalvesOf(l, r, c, ks, cs, s)
  PROVE  /\ c \in Int /\ lo < c /\ c < hi
         /\ NodeOrder(l, lo, c, low, high) /\ NodeOrder(r, c, hi, low, high)
<1>1. PICK m, z : m = FANOUT + 1 /\ z = 0
  OBVIOUS
<1>2. FANOUT \in Nat /\ m \in Nat /\ s \in 2..FANOUT /\ z \in 0..m /\ s \in 0..m /\ m \in 0..m
      /\ z < s /\ s < m /\ s # 0 /\ s # m /\ m # 0
  BY <1>1, TreeAssumption DEF HalvesOf
<1>3. Chain(ks, cs, m, lo, hi, low, high)
  BY <1>1
<1>4. /\ Bound(ks, m, lo, hi, z) = lo /\ Bound(ks, m, lo, hi, s) = c /\ Bound(ks, m, lo, hi, m) = hi
  BY <1>1, <1>2 DEF Bound, HalvesOf
<1>5. c \in Int /\ lo < c /\ c < hi
  BY <1>2, <1>3, <1>4 DEF Chain, Rising
<1>6. NodeOrder(l, lo, c, low, high)
  <2>1. /\ \A j \in 1..(s - z - 1) : l.keys[j] = ks[z + j]
        /\ \A j \in 1..(s - z) : l.child[j] = cs[z + j]
    <3>1. s - z = s /\ \A j \in Int : z + j = j
      BY <1>1, <1>2
    <3> QED BY <3>1 DEF HalvesOf
  <2>2. PICK ks2, cs2 : ks2 = l.keys /\ cs2 = l.child
    OBVIOUS
  <2>3. /\ \A j \in 1..(s - z - 1) : ks2[j] = ks[z + j]
        /\ \A j \in 1..(s - z) : cs2[j] = cs[z + j]
    BY <2>1, <2>2
  <2>4. Chain(ks2, cs2, s - z, Bound(ks, m, lo, hi, z), Bound(ks, m, lo, hi, s), low, high)
    BY <1>2, <1>3, <2>3, ChainPart
  <2>5. s - z = s /\ Len(l.child) = s
    BY <1>1, <1>2 DEF HalvesOf, Inner
  <2>6. Chain(ks2, cs2, s, lo, c, low, high)
    BY <1>4, <2>4, <2>5
  <2> QED BY <2>2, <2>5, <2>6 DEF NodeOrder
<1>7. NodeOrder(r, c, hi, low, high)
  <2>1. /\ \A j \in 1..(m - s - 1) : r.keys[j] = ks[s + j]
        /\ \A j \in 1..(m - s) : r.child[j] = cs[s + j]
    <3>1. m - s - 1 = FANOUT - s /\ m - s = FANOUT + 1 - s
      BY <1>1, <1>2
    <3> QED BY <3>1 DEF HalvesOf
  <2>2. PICK ks2, cs2 : ks2 = r.keys /\ cs2 = r.child
    OBVIOUS
  <2>3. /\ \A j \in 1..(m - s - 1) : ks2[j] = ks[s + j]
        /\ \A j \in 1..(m - s) : cs2[j] = cs[s + j]
    BY <2>1, <2>2
  <2>4. Chain(ks2, cs2, m - s, Bound(ks, m, lo, hi, s), Bound(ks, m, lo, hi, m), low, high)
    BY <1>2, <1>3, <2>3, ChainPart
  <2>5. m - s = FANOUT + 1 - s /\ Len(r.child) = FANOUT + 1 - s
    BY <1>1, <1>2 DEF HalvesOf, Inner
  <2>6. Chain(ks2, cs2, FANOUT + 1 - s, c, hi, low, high)
    BY <1>4, <2>4, <2>5
  <2> QED BY <2>2, <2>5, <2>6 DEF NodeOrder
<1> QED BY <1>5, <1>6, <1>7

LEMMA ClimbHalves ==
  ASSUME DifferencesFit, NEW x, Inner(x, FANOUT), NEW k \in 1..FANOUT, NEW key \in Value,
         NEW after \in Nat, NEW lo, NEW hi, NEW low, NEW high, NEW up,
         GoesUp(x.keys, x.child, FANOUT, k, lo, key, hi, low, high, up, after),
         NEW l, NEW r, NEW c, HalvesAt(x, key, after, l, r, c)
  PROVE  /\ c \in Int /\ lo < c /\ c < hi
         /\ NodeOrder(l, lo, c, low, high) /\ NodeOrder(r, c, hi, low, high)
<1>1. FANOUT \in Nat \ {0} /\ key \in Int
  BY TreeAssumption, Ends
<1>2. ChildPlace(x, key) = k + 1
  <2>1. /\ Rising(x.keys, FANOUT, lo, hi) /\ Bound(x.keys, FANOUT, lo, hi, k - 1) < key
        /\ key < Bound(x.keys, FANOUT, lo, hi, k)
    BY DEF GoesUp, Chain
  <2> QED BY <2>1, HalvesPlace
<1>3. PICK ks, cs, s : /\ ks = [j \in 1..FANOUT |-> Spread(x.keys, k, key, j)]
                       /\ cs = [j \in 1..(FANOUT + 1) |-> Spread(x.child, k + 1, after, j)]
                       /\ s = LeftSize(x, key)
  OBVIOUS
<1>4. HalvesOf(l, r, c, ks, cs, s)
  <2>1. HalvesOf(l, r, c, ks, cs, LeftSize(x, key))
    BY <1>2, <1>3, HalvesOfIs
  <2> QED BY <1>3, <2>1
<1>5. Spreads(ks, x.keys, k, key, FANOUT) /\ Spreads(cs, x.child, k + 1, after, FANOUT + 1)
  BY <1>3 DEF Spreads
<1>6. Chain(ks, cs, FANOUT + 1, lo, hi, low, high)
  BY <1>1, <1>5, ClimbChain
<1> QED BY <1>4, <1>6, HalvesChains

LEMMA HalvedOrder ==
  ASSUME DifferencesFit, NEW t, NEW lev, NEW low, NEW high, NEW old, NEW after, NEW key \in Value,
         Shape(t, lev, old, after), Ordered(t, lev, low, high, old, after, key), after # NoNode,
         NEW n, Size(t, n), NEW o \in 1..n, o = t.page[old].parent, o # NoNode,
         Len(t.page[o].child) = FANOUT,
         NEW l, NEW r, NEW c, HalvesAt(t.page[o], key, after, l, r, c),
         NEW w, Halved(t, w, o, l, r),
         NEW low2, NEW high2, SplitInto(low, high, n, o, c, low2, high2)
  PROVE  Ordered(w, Grown(lev, n, lev[o]), low2, high2, o, n + 1, c)
<1>1. n \in Nat /\ n = Len(t.page) /\ n + 1 # o
  BY DEF Size
<1>2. Pages(t, lev) /\ Linked(t, lev) /\ Family(t, lev, after) /\ Ranges(t, low, high)
  BY DEF Shape, Ordered
<1>3. o \in 1..Len(t.page) /\ lev[o] # 0 /\ \E x, m, k : OldAt(t, o, x, m, k, old)
  BY OldAtExists
<1>4. PICK x, m, k : OldAt(t, o, x, m, k, old)
  BY <1>3
<1>5. x = t.page[o] /\ m = FANOUT /\ k \in 1..FANOUT
  BY <1>4 DEF OldAt
<1>6. Inner(x, FANOUT) /\ after \in Nat
  <2>1. Inner(t.page[o], Len(t.page[o].child))
    BY <1>2, <1>3, LeafIn
  <2>2. after \in 1..Len(t.page) /\ Len(t.page) \in Nat
    BY <1>2, <1>3, Above, LeafIn
  <2> QED BY <1>5, <2>1, <2>2
<1>7. PICK lo, hi, up : lo = low[o] /\ hi = high[o] /\ up = Upto(high, old, after)
  OBVIOUS
<1>8. GoesUp(x.keys, x.child, FANOUT, k, lo, key, hi, low, high, up, after)
  <2>1. GoesUp(x.keys, x.child, m, k, lo, key, hi, low, high, up, after)
    BY <1>3, <1>4, <1>7, ClimbIs
  <2> QED BY <1>5, <2>1
<1>9. HalvesAt(x, key, after, l, r, c)
  BY <1>5
<1>10. /\ c \in Int /\ lo < c /\ c < hi
       /\ NodeOrder(l, lo, c, low, high) /\ NodeOrder(r, c, hi, low, high)
  BY <1>5, <1>6, <1>8, <1>9, ClimbHalves
<1>11. Shared(t, o, after, l, r)
  <2>1. Shared(t, o, after, LeftNode(t.page[o], key, after), RightNode(t.page[o], key, after))
    <3>1. Inner(t.page[o], FANOUT)
      BY <1>5, <1>6
    <3> QED BY <1>2, <1>3, <1>6, <3>1, HalvesShared
  <2> QED BY <2>1 DEF HalvesAt
<1>12. ASSUME NEW q, HasChild(l, q) \/ HasChild(r, q)
       PROVE  q \in 1..n
  <2>1. q = after \/ IsChild(t, q, o)
    BY <1>11, <1>12 DEF Shared
  <2>2. after \in 1..Len(t.page)
    BY <1>3, Above
  <2>3. IsChild(t, q, o) => q \in 1..Len(t.page)
    BY <1>2, <1>3, ChildIn
  <2> QED BY <1>1, <2>1, <2>2, <2>3
<1>13. PICK up2 : up2 = Upto(high2, o, n + 1)
  OBVIOUS
<1>14. Relinked(t, w, o) /\ w.root = t.root
       /\ w.page[o].keys = l.keys /\ w.page[o].child = l.child
       /\ w.page[n + 1].keys = r.keys /\ w.page[n + 1].child = r.child
  BY <1>1 DEF Halved
<1>15. \A q \in 1..n : low2[q] = low[q] /\ up2[q] = high[q]
  <2>1. Len(w.page) = Len(t.page) + 1
    BY <1>14 DEF Relinked
  <2>2. low2 = LowSplit(low, Len(t.page), c) /\ high2 = HighSplit(high, Len(t.page), o, c)
    BY <1>1 DEF SplitInto
  <2>3. low[o] < c /\ c < high[o] /\ Len(t.page) \in Nat
    BY <1>1, <1>7, <1>10
  <2>4. \A q \in 1..Len(t.page) : low2[q] = low[q] /\ Upto(high2, o, Len(t.page) + 1)[q] = high[q]
    BY SMTT(30), <1>2, <1>3, <1>10, <2>1, <2>2, <2>3, SplitBounds
  <2> QED BY <1>1, <1>13, <2>4
<1>16. NodeOrder(w.page[o], lo, c, low2, up2) /\ NodeOrder(w.page[n + 1], c, hi, low2, up2)
  <2>1. PICK x1, x2 : x1 = w.page[o] /\ x2 = w.page[n + 1]
    OBVIOUS
  <2>2. x1.keys = l.keys /\ x1.child = l.child /\ x2.keys = r.keys /\ x2.child = r.child
    BY <1>14, <2>1
  <2>3. \A q : HasChild(l, q) => low2[q] = low[q] /\ up2[q] = high[q]
    BY <1>12, <1>15
  <2>4. \A q : HasChild(r, q) => low2[q] = low[q] /\ up2[q] = high[q]
    BY <1>12, <1>15
  <2>5. NodeOrder(x1, lo, c, low2, up2)
    BY <1>10, <2>2, <2>3, NodeSame
  <2>6. NodeOrder(x2, c, hi, low2, up2)
    BY <1>10, <2>2, <2>4, NodeSame
  <2> QED BY <2>1, <2>5, <2>6
<1>17. HalvesOrdered(w.page[o], w.page[n + 1], lev[o], low[o], c, high[o], low2, Upto(high2, o, n + 1))
  BY <1>3, <1>7, <1>13, <1>16 DEF HalvesOrdered
<1>18. Untouched(t, w, lev, o)
  <2>1. ASSUME NEW q \in 1..Len(t.page), q # o
        PROVE  /\ lev[q] = 0 => w.page[q].rec = t.page[q].rec
               /\ lev[q] # 0 => w.page[q].keys = t.page[q].keys /\ w.page[q].child = t.page[q].child
    <3>1. lev[q] = 0 => t.page[q] \in LeafNode
      BY <1>2, LeafIn
    <3>2. lev[q] # 0 => t.page[q] \in InnerNode
      BY <1>2, LeafIn
    <3> QED BY <2>1, <3>1, <3>2 DEF Halved
  <2> QED BY <2>1 DEF Untouched
<1>19. Plain(t, lev, high, Upto(high, old, after), o)
  BY <1>2, ClimbPlain
<1>20. low[o] < c /\ c < high[o] /\ c \in Int
  BY <1>7, <1>10
<1> QED BY <1>2, <1>14, <1>17, <1>18, <1>19, <1>20, SplitOrder

LEMMA SplitInternalOrder ==
  ASSUME DifferencesFit, NEW t, NEW lev, NEW low, NEW high, NEW old, NEW after, NEW key \in Value,
         Shape(t, lev, old, after), Ordered(t, lev, low, high, old, after, key), CopiesOK(t),
         after # NoNode, NEW n, Size(t, n), NEW o \in 1..n, o = t.page[old].parent, o # NoNode,
         Len(t.page[o].child) = FANOUT, NEW s, s = SplitInternal(t, o, key, after),
         NEW low2, NEW high2, SplitInto(low, high, n, o, s.key, low2, high2)
  PROVE  /\ Ordered(s.tree, Grown(lev, n, lev[o]), low2, high2, o, n + 1, s.key)
         /\ CopiesOK(s.tree)
<1>1. n \in Nat /\ n = Len(t.page)
  BY DEF Size
<1>2. Pages(t, lev) /\ o \in 1..Len(t.page) /\ lev[o] # 0 /\ after \in Nat
  <2>1. Pages(t, lev)
    BY DEF Shape
  <2>2. o \in 1..Len(t.page) /\ lev[o] # 0 /\ after \in 1..Len(t.page)
    BY Above
  <2>3. Len(t.page) \in Nat
    BY <1>1
  <2> QED BY <2>1, <2>2, <2>3
<1>3. PICK l, r, c, w, lev2 :
        /\ l = LeftNode(t.page[o], key, after) /\ r = RightNode(t.page[o], key, after)
        /\ c = t.page[o].keys[KeyPoint(t.page[o], key)] /\ w = s.tree /\ lev2 = Grown(lev, n, lev[o])
  OBVIOUS
<1>4. HalvesAt(t.page[o], key, after, l, r, c)
  BY <1>3 DEF HalvesAt
<1>5. s.key = c
  <2>1. SplitInternal(t, o, key, after).key = t.page[o].keys[KeyPoint(t.page[o], key)]
    BY SplitInternalIs
  <2> QED BY <1>3, <2>1
<1>6. Halved(t, w, o, l, r)
  <2>1. Inner(t.page[o], Len(t.page[o].child))
    BY <1>2, LeafIn
  <2>2. Inner(t.page[o], FANOUT)
    BY <2>1
  <2>3. Halved(t, SplitInternal(t, o, key, after).tree, o,
               LeftNode(t.page[o], key, after), RightNode(t.page[o], key, after))
    BY <1>2, <2>2, SplitInternalHalved
  <2> QED BY <1>3, <2>3
<1>7. SplitInto(low, high, n, o, c, low2, high2)
  BY <1>5
<1>8. Ordered(w, Grown(lev, n, lev[o]), low2, high2, o, n + 1, c)
  BY <1>2, <1>4, <1>6, <1>7, HalvedOrder
<1>9. CopiesOK(w)
  <2>1. Pages(w, lev2)
    <3>1. Shape(SplitInternal(t, o, key, after).tree, Grown(lev, Len(t.page), lev[o]),
                o, Len(t.page) + 1)
      BY SplitInternalShape
    <3>2. Shape(w, lev2, o, n + 1)
      BY <1>1, <1>3, <3>1
    <3> QED BY <3>2 DEF Shape
  <2>2. ASSUME NEW q \in 1..Len(w.page), lev2[q] = 0
        PROVE  /\ q \in 1..Len(t.page) /\ lev[q] = 0 /\ Len(w.page[q].rec) = Len(t.page[q].rec)
               /\ \A j \in 1..Len(t.page[q].rec) : w.page[q].rec[j].value = t.page[q].rec[j].value
    <3>1. q \in 1..(n + 1)
      BY <1>1, <1>6, <2>2 DEF Halved, Relinked
    <3>2. q \in 1..n /\ lev[q] = 0
      <4>1. PICK d : d = lev[o]
        OBVIOUS
      <4>2. lev2 = Grown(lev, n, d) /\ d # 0
        BY <1>2, <1>3, <4>1
      <4>3. /\ q = n + 1 => Grown(lev, n, d)[q] = d
            /\ q # n + 1 => q \in 1..n /\ Grown(lev, n, d)[q] = lev[q]
        BY <1>1, <3>1, GrownIs
      <4> QED BY <2>2, <4>2, <4>3
    <3>3. t.page[q] \in LeafNode
      BY <1>1, <1>2, <3>2, LeafIn
    <3>4. w.page[q].rec = t.page[q].rec
      BY <1>1, <1>2, <1>6, <3>2, <3>3 DEF Halved
    <3> QED BY <1>1, <3>2, <3>4
  <2>3. SameValues(t, w, lev, lev2)
    BY <2>2 DEF SameValues
  <2> QED BY <1>2, <2>1, <2>3, CopiesStayOK
<1> QED BY <1>3, <1>5, <1>8, <1>9
-----------------------------------------------------------------------------
(* A tree gets a root above its old one. *)
LEMMA RaisedOrder ==
  ASSUME NEW t, NEW lev, NEW low, NEW high, NEW old, NEW after, NEW key \in Value,
         Shape(t, lev, old, after), Ordered(t, lev, low, high, old, after, key), after # NoNode,
         t.page[old].parent = NoNode, NEW u, Raised(t, u, old, after),
         u.page[Len(t.page) + 1].keys = <<key>>,
         NEW n, Size(t, n), NEW lev2, lev2 = Grown(lev, n, t.height + 1),
         NEW low2, low2 = Grown(low, n, Bottom), NEW high2, high2 = Grown(high, n, Top)
  PROVE  Ordered(u, lev2, low2, high2, NoNode, NoNode, NoNode)
<1>1. n \in Nat /\ n = Len(t.page) /\ key \in Int
  BY Ends DEF Size
<1>2. Pages(t, lev) /\ Linked(t, lev) /\ Family(t, lev, after)
  BY DEF Shape
<1>3. /\ Ranges(t, low, high) /\ Covers(t, low, Upto(high, old, after))
      /\ NodesOrdered(t, lev, low, high, Upto(high, old, after))
      /\ LeavesOrdered(t, lev, low, high) /\ high[old] = key /\ low[after] = key
  BY DEF Ordered, Gap
<1>4. old = t.root /\ old \in 1..n /\ after \in 1..n /\ old # after
  BY <1>1, Above
<1>5. low[old] = Bottom /\ high[after] = Top
  <2>1. old \in 1..Len(t.page)
    BY <1>1, <1>4
  <2>2. Upto(high, old, after)[old] = high[after]
    BY <1>3, <2>1, UptoOld
  <2> QED BY <1>3, <1>4, <2>2 DEF Covers
<1>6. \A q \in 1..(n + 1) : q \in 1..n \/ q = n + 1
  BY <1>1
<1>7. ASSUME NEW q \in 1..n
      PROVE  /\ lev2[q] = lev[q] /\ low2[q] = low[q] /\ high2[q] = high[q]
             /\ Moved(u.page[q], t.page[q])
             /\ lev[q] = 0 => u.page[q].rec = t.page[q].rec
             /\ lev[q] # 0 => u.page[q].keys = t.page[q].keys /\ u.page[q].child = t.page[q].child
  <2>1. q \in 1..(n + 1) /\ q # n + 1 /\ q \in 1..Len(t.page)
    BY <1>1
  <2>2. lev2[q] = lev[q]
    BY <1>1, <2>1, GrownIs
  <2>3. low2[q] = low[q]
    BY <1>1, <2>1, GrownIs
  <2>4. high2[q] = high[q]
    BY <1>1, <2>1, GrownIs
  <2>5. Moved(u.page[q], t.page[q])
    BY <2>1 DEF Raised
  <2>6. lev[q] = 0 => t.page[q] \in LeafNode
    BY <1>2, <2>1, LeafIn
  <2>7. lev[q] # 0 => t.page[q] \in InnerNode
    BY <1>2, <2>1, LeafIn
  <2> QED BY <2>2, <2>3, <2>4, <2>5, <2>6, <2>7 DEF Moved
<1>8. lev2[n + 1] = t.height + 1 /\ lev2[n + 1] # 0 /\ low2[n + 1] = Bottom /\ high2[n + 1] = Top
  <2>1. n + 1 \in 1..(n + 1) /\ t.height \in Nat
    BY <1>1, <1>2 DEF Pages, TreeRec
  <2>2. lev2[n + 1] = t.height + 1
    BY <1>1, <2>1, GrownIs
  <2>3. low2[n + 1] = Bottom
    BY <1>1, <2>1, GrownIs
  <2>4. high2[n + 1] = Top
    BY <1>1, <2>1, GrownIs
  <2> QED BY <2>1, <2>2, <2>3, <2>4
<1>9. u.root = n + 1 /\ Len(u.page) = n + 1
  BY <1>1 DEF Raised
<1>10. Ranges(u, low2, high2)
  <2>1. low \in [1..n -> Int] /\ high \in [1..n -> Int]
        /\ \A q \in 1..n : Bottom <= low[q] /\ low[q] < high[q] /\ high[q] <= Top
    BY <1>1, <1>3 DEF Ranges
  <2>2. Bottom \in Int /\ Top \in Int /\ Bottom < Top
    BY Ends
  <2>3. low2 \in [1..(n + 1) -> Int]
    BY <1>1, <1>6, <2>1, <2>2 DEF Grown
  <2>4. high2 \in [1..(n + 1) -> Int]
    BY <1>1, <1>6, <2>1, <2>2 DEF Grown
  <2>5. ASSUME NEW q \in 1..(n + 1)
        PROVE  Bottom <= low2[q] /\ low2[q] < high2[q] /\ high2[q] <= Top
    <3>1. CASE q = n + 1
      BY <1>8, <2>2, <3>1
    <3>2. CASE q \in 1..n
      BY <1>7, <2>1, <3>2
    <3> QED BY <1>6, <3>1, <3>2
  <2> QED BY <1>9, <2>3, <2>4, <2>5 DEF Ranges
<1>11. Covers(u, low2, high2)
  BY <1>8, <1>9 DEF Covers
<1>12. NodeOrder(u.page[n + 1], Bottom, Top, low2, high2)
  <2>1. PICK x : x = u.page[n + 1]
    OBVIOUS
  <2>2. Len(x.child) = 2 /\ x.child[1] = old /\ x.child[2] = after /\ x.keys[1] = key
    BY <1>1, <2>1 DEF Raised
  <2>3. /\ low2[old] = Bottom /\ high2[old] = key
        /\ low2[after] = key /\ high2[after] = Top
    BY <1>3, <1>4, <1>5, <1>7
  <2>4. Bottom \in Int /\ Top \in Int /\ Bottom < key /\ key < Top
    BY Ends
  <2>5. \A j \in 0..2 : j = 0 \/ j = 1 \/ j = 2
    OBVIOUS
  <2>6. /\ Bound(x.keys, 2, Bottom, Top, 0) = Bottom /\ Bound(x.keys, 2, Bottom, Top, 1) = key
        /\ Bound(x.keys, 2, Bottom, Top, 2) = Top
    BY <2>2 DEF Bound
  <2>7. Rising(x.keys, 2, Bottom, Top)
    <3>1. \A j \in 0..2 : Bound(x.keys, 2, Bottom, Top, j) \in Int
      BY <1>1, <2>4, <2>5, <2>6
    <3>2. ASSUME NEW i \in 0..2, NEW j \in 0..2, i < j
          PROVE  Bound(x.keys, 2, Bottom, Top, i) < Bound(x.keys, 2, Bottom, Top, j)
      <4>1. (i = 0 /\ j = 1) \/ (i = 0 /\ j = 2) \/ (i = 1 /\ j = 2)
        BY <3>2
      <4> QED BY <1>1, <2>4, <2>6, <4>1
    <3> QED BY <3>1, <3>2 DEF Rising
  <2>8. ASSUME NEW j \in 1..2
        PROVE  /\ low2[x.child[j]] = Bound(x.keys, 2, Bottom, Top, j - 1)
               /\ high2[x.child[j]] = Bound(x.keys, 2, Bottom, Top, j)
    <3>1. CASE j = 1
      BY <2>2, <2>3, <2>6, <3>1
    <3>2. CASE j = 2
      BY <2>2, <2>3, <2>6, <3>2
    <3> QED BY <3>1, <3>2
  <2> QED BY <2>1, <2>2, <2>7, <2>8 DEF NodeOrder, Chain
<1>13. NodesOrdered(u, lev2, low2, high2, high2)
  <2>1. ASSUME NEW p \in 1..(n + 1), lev2[p] # 0
        PROVE  NodeOrder(u.page[p], low2[p], high2[p], low2, high2)
    <3>1. CASE p = n + 1
      BY <1>8, <1>12, <3>1
    <3>2. CASE p \in 1..n
      <4>1. PICK x, y, lo, hi, up : /\ x = t.page[p] /\ y = u.page[p] /\ lo = low[p] /\ hi = high[p]
                                    /\ up = Upto(high, old, after)
        OBVIOUS
      <4>2. lev[p] # 0 /\ p \in 1..Len(t.page) /\ low2[p] = lo /\ high2[p] = hi
        BY <1>1, <1>7, <2>1, <3>2, <4>1
      <4>3. NodeOrder(x, lo, hi, low, up)
        BY <1>3, <4>1, <4>2 DEF NodesOrdered
      <4>4. y.keys = x.keys /\ y.child = x.child
        BY <1>7, <3>2, <4>1, <4>2
      <4>5. ASSUME NEW c, HasChild(x, c)
            PROVE  low2[c] = low[c] /\ high2[c] = up[c]
        <5>1. IsChild(t, c, p)
          BY <4>1, <4>5 DEF HasChild, IsChild
        <5>2. c \in 1..Len(t.page) /\ t.page[c].parent = p
          BY <1>2, <4>2, <5>1, ChildIn
        <5>3. c # old
          BY <1>1, <4>2, <5>2 DEF NoNode
        <5>4. up[c] = high[c]
          BY <1>3, <4>1, <5>2, <5>3, UptoIs
        <5> QED BY <1>1, <1>7, <5>2, <5>4
      <4>6. NodeOrder(y, lo, hi, low2, high2)
        BY <4>3, <4>4, <4>5, NodeSame
      <4> QED BY <4>1, <4>2, <4>6
    <3> QED BY <1>6, <3>1, <3>2
  <2> QED BY <1>9, <2>1 DEF NodesOrdered
<1>14. LeavesOrdered(u, lev2, low2, high2)
  <2>1. ASSUME NEW q \in 1..(n + 1), lev2[q] = 0
        PROVE  /\ LeafOrder(u.page[q].rec, low2[q], high2[q])
               /\ u.page[q].next # NoNode => low2[u.page[q].next] = high2[q]
               /\ u.page[q].next = NoNode => high2[q] = Top
    <3>1. q \in 1..n
      BY <1>6, <1>8, <2>1
    <3>2. lev[q] = 0 /\ low2[q] = low[q] /\ high2[q] = high[q]
          /\ u.page[q].rec = t.page[q].rec /\ u.page[q].next = t.page[q].next
      BY <1>7, <2>1, <3>1 DEF Moved
    <3>3. PICK a : a = t.page[q].next
      OBVIOUS
    <3>4. a # NoNode => a \in 1..n
      BY <1>1, <1>2, <3>1, <3>3 DEF Linked
    <3>5. a # NoNode => low2[a] = low[a]
      BY <1>7, <3>4
    <3>6. /\ LeafOrder(t.page[q].rec, low[q], high[q])
          /\ a # NoNode => low[a] = high[q]
          /\ a = NoNode => high[q] = Top
      BY <1>1, <1>3, <3>1, <3>2, <3>3 DEF LeavesOrdered
    <3> QED BY <3>2, <3>3, <3>5, <3>6
  <2> QED BY <1>9, <2>1 DEF LeavesOrdered
<1>15. Upto(high2, NoNode, NoNode) = high2 /\ Gap(low2, high2, NoNode, NoNode, NoNode)
  BY DEF Upto, Gap
<1> QED BY <1>10, <1>11, <1>13, <1>14, <1>15 DEF Ordered

LEMMA NewRootOrder ==
  ASSUME NEW t, NEW lev, NEW low, NEW high, NEW old, NEW after, NEW key \in Value,
         Shape(t, lev, old, after), Ordered(t, lev, low, high, old, after, key), CopiesOK(t),
         after # NoNode, t.page[old].parent = NoNode, NEW u, u = NewRoot(t, key, old, after),
         NEW n, Size(t, n)
  PROVE  /\ Ordered(u, Grown(lev, n, t.height + 1), Grown(low, n, Bottom), Grown(high, n, Top),
                    NoNode, NoNode, NoNode)
         /\ CopiesOK(u)
<1>1. n \in Nat /\ n = Len(t.page)
  BY DEF Size
<1>2. Pages(t, lev) /\ t \in TreeRec /\ old \in 1..Len(t.page) /\ after \in 1..Len(t.page)
  BY DEF Shape, Pages, Pending
<1>3. PICK lev2, low2, high2 : /\ lev2 = Grown(lev, n, t.height + 1)
                               /\ low2 = Grown(low, n, Bottom) /\ high2 = Grown(high, n, Top)
  OBVIOUS
<1>4. Raised(t, u, old, after)
  <2>1. Raised(t, NewRoot(t, key, old, after), old, after)
    BY <1>2, NewRootIs
  <2> QED BY <2>1
<1>5. u.page[Len(t.page) + 1].keys = <<key>>
  <2>1. NewRoot(t, key, old, after).page[Len(t.page) + 1].keys = <<key>>
    BY <1>2, NewRootIs
  <2> QED BY <2>1
<1>6. Ordered(u, lev2, low2, high2, NoNode, NoNode, NoNode)
  BY <1>3, <1>4, <1>5, RaisedOrder
<1>7. CopiesOK(u)
  <2>1. Pages(u, lev2)
    <3>1. Shape(NewRoot(t, key, old, after), Grown(lev, Len(t.page), t.height + 1), NoNode, NoNode)
      BY NewRootShape
    <3>2. Shape(u, lev2, NoNode, NoNode)
      BY <1>1, <1>3, <3>1
    <3> QED BY <3>2 DEF Shape
  <2>2. ASSUME NEW q \in 1..Len(u.page), lev2[q] = 0
        PROVE  /\ q \in 1..Len(t.page) /\ lev[q] = 0 /\ Len(u.page[q].rec) = Len(t.page[q].rec)
               /\ \A j \in 1..Len(t.page[q].rec) : u.page[q].rec[j].value = t.page[q].rec[j].value
    <3>1. q \in 1..(n + 1)
      BY <1>1, <1>4, <2>2 DEF Raised
    <3>2. q # n + 1
      <4>1. t.height \in Nat
        BY <1>2 DEF TreeRec
      <4>2. q = n + 1 => lev2[q] = t.height + 1
        BY <1>1, <1>3, <3>1, GrownIs
      <4> QED BY <2>2, <4>1, <4>2
    <3>3. q \in 1..n /\ lev[q] = 0
      BY <1>1, <1>3, <2>2, <3>1, <3>2, GrownIs
    <3>4. t.page[q] \in LeafNode
      BY <1>1, <1>2, <3>3, LeafIn
    <3>5. u.page[q].rec = t.page[q].rec
      BY <1>1, <1>4, <3>3, <3>4 DEF Raised, Moved
    <3> QED BY <1>1, <3>3, <3>5
  <2>3. SameValues(t, u, lev, lev2)
    BY <2>2 DEF SameValues
  <2> QED BY <1>2, <2>1, <2>3, CopiesStayOK
<1> QED BY <1>3, <1>6, <1>7
-----------------------------------------------------------------------------
(* Where a search for v ends: in the leaf whose bounds v lies between. *)
Within(low, high, o, v) == low[o] <= v /\ v < high[o]

\* A tree in order that no split climbs in.
InOrder(t, lev, low, high) ==
  Shape(t, lev, NoNode, NoNode) /\ Ordered(t, lev, low, high, NoNode, NoNode, NoNode)

LEMMA ChainAt ==
  ASSUME NEW t, NEW lev, NEW low, NEW high, InOrder(t, lev, low, high),
         NEW p \in 1..Len(t.page), lev[p] # 0,
         NEW x, x = t.page[p], NEW m, m = Len(x.child)
  PROVE  /\ m \in Nat \ {0} /\ Keys(x.keys, m) /\ low[p] \in Int /\ high[p] \in Int
         /\ Chain(x.keys, x.child, m, low[p], high[p], low, high)
<1>1. Pages(t, lev) /\ Ordered(t, lev, low, high, NoNode, NoNode, NoNode)
  BY DEF InOrder, Shape
<1>2. Upto(high, NoNode, NoNode) = high
  BY DEF Upto
<1>3. Inner(t.page[p], Len(t.page[p].child)) /\ Len(t.page[p].child) \in 1..FANOUT
  BY <1>1, LeafIn
<1>4. Inner(x, m) /\ m \in Nat \ {0}
  BY <1>3, TreeAssumption
<1>5. Keys(x.keys, m)
  BY <1>4, InnerKeys
<1>6. NodeOrder(t.page[p], low[p], high[p], low, high)
  BY <1>1, <1>2 DEF Ordered, NodesOrdered
<1>7. low[p] \in Int /\ high[p] \in Int
  BY <1>1 DEF Ordered, Ranges
<1> QED BY <1>4, <1>5, <1>6, <1>7 DEF NodeOrder

\* The child that a search goes on to has the value within its bounds.
LEMMA DownWithin ==
  ASSUME DifferencesFit, NEW t, NEW lev, NEW low, NEW high, InOrder(t, lev, low, high),
         NEW v \in Value, NEW p \in 1..Len(t.page), lev[p] # 0, Within(low, high, p, v)
  PROVE  Within(low, high, Down(t, v, p), v)
<1>1. PICK x, m, ks : x = t.page[p] /\ m = Len(x.child) /\ ks = x.keys
  OBVIOUS
<1>2. PICK lo, hi : lo = low[p] /\ hi = high[p]
  OBVIOUS
<1>3. m \in Nat \ {0} /\ Keys(ks, m) /\ lo \in Int /\ hi \in Int
      /\ Chain(ks, x.child, m, lo, hi, low, high)
  <2>1. /\ m \in Nat \ {0} /\ Keys(x.keys, m) /\ low[p] \in Int /\ high[p] \in Int
        /\ Chain(x.keys, x.child, m, low[p], high[p], low, high)
    BY <1>1, ChainAt
  <2> QED BY <1>1, <1>2, <2>1
<1>4. PICK k : k = AM_UpperBound(ks, m, v)
  OBVIOUS
<1>5. /\ k \in 1..m
      /\ \A j \in 1..(m - 1) : /\ j < k => ks[j] <= v
                               /\ j = k => v < ks[j]
  <2>1. \A j \in 1..(m - 1) : ks[j] \in Value
    BY <1>3 DEF Keys
  <2>2. /\ AM_UpperBound(ks, m, v) \in 1..m
        /\ \A j \in 1..(m - 1) : /\ j < AM_UpperBound(ks, m, v) => ks[j] <= v
                                 /\ j = AM_UpperBound(ks, m, v) => v < ks[j]
    BY <1>3, <2>1, UpperBoundOrder
  <2> QED BY <1>4, <2>2
<1>6. Bound(ks, m, lo, hi, k - 1) <= v
  <2>1. CASE k = 1
    BY <1>2, <2>1 DEF Bound, Within
  <2>2. CASE k # 1
    <3>1. k - 1 \in 1..(m - 1) /\ k - 1 < k /\ k - 1 # 0 /\ k - 1 # m
      BY <1>3, <1>5, <2>2
    <3> QED BY <1>5, <3>1 DEF Bound
  <2> QED BY <2>1, <2>2
<1>7. v < Bound(ks, m, lo, hi, k)
  <2>1. CASE k = m
    BY <1>2, <1>3, <2>1 DEF Bound, Within
  <2>2. CASE k # m
    <3>1. k \in 1..(m - 1) /\ k # 0
      BY <1>3, <1>5, <2>2
    <3> QED BY <1>5, <2>2, <3>1 DEF Bound
  <2> QED BY <2>1, <2>2
<1>8. Down(t, v, p) = x.child[k]
  BY <1>1, <1>4 DEF Down
<1>9. low[x.child[k]] = Bound(ks, m, lo, hi, k - 1) /\ high[x.child[k]] = Bound(ks, m, lo, hi, k)
  BY <1>3, <1>5 DEF Chain
<1> QED BY <1>6, <1>7, <1>8, <1>9 DEF Within

\* A node whose bounds v lies between is the one its parent sends the search to.
LEMMA UpWithin ==
  ASSUME DifferencesFit, NEW t, NEW lev, NEW low, NEW high, InOrder(t, lev, low, high),
         NEW v \in Value, NEW p \in 1..Len(t.page), lev[p] # 0,
         NEW c, IsChild(t, c, p), Within(low, high, c, v)
  PROVE  Within(low, high, p, v) /\ Down(t, v, p) = c
<1>1. PICK x, m, ks : x = t.page[p] /\ m = Len(x.child) /\ ks = x.keys
  OBVIOUS
<1>2. PICK lo, hi : lo = low[p] /\ hi = high[p]
  OBVIOUS
<1>3. m \in Nat \ {0} /\ Keys(ks, m) /\ lo \in Int /\ hi \in Int
      /\ Chain(ks, x.child, m, lo, hi, low, high)
  <2>1. /\ m \in Nat \ {0} /\ Keys(x.keys, m) /\ low[p] \in Int /\ high[p] \in Int
        /\ Chain(x.keys, x.child, m, low[p], high[p], low, high)
    BY <1>1, ChainAt
  <2> QED BY <1>1, <1>2, <2>1
<1>4. PICK k \in 1..m : x.child[k] = c
  BY <1>1 DEF IsChild
<1>5. Rising(ks, m, lo, hi) /\ low[c] = Bound(ks, m, lo, hi, k - 1) /\ high[c] = Bound(ks, m, lo, hi, k)
  BY <1>3, <1>4 DEF Chain
<1>6. Bound(ks, m, lo, hi, k - 1) <= v /\ v < Bound(ks, m, lo, hi, k)
  BY <1>5 DEF Within
<1>7. AM_UpperBound(ks, m, v) = k
  <2>1. \A j \in 1..(m - 1) : ks[j] \in Value
    BY <1>3 DEF Keys
  <2> QED BY <1>3, <1>5, <1>6, <2>1, KeyPlaceIs
<1>8. Down(t, v, p) = c
  BY <1>1, <1>4, <1>7 DEF Down
<1>9. lo <= v /\ v < hi
  <2>1. PICK z, y : z = 0 /\ y = k - 1
    OBVIOUS
  <2>2. m \in Nat /\ z \in 0..m /\ y \in 0..m /\ z <= y /\ k \in 0..m /\ m \in 0..m /\ k <= m
    BY <1>3, <2>1
  <2>3. /\ Bound(ks, m, lo, hi, z) \in Int /\ Bound(ks, m, lo, hi, y) \in Int
        /\ Bound(ks, m, lo, hi, z) <= Bound(ks, m, lo, hi, y)
    BY <1>5, <2>2, BoundsRise
  <2>4. /\ Bound(ks, m, lo, hi, k) \in Int /\ Bound(ks, m, lo, hi, m) \in Int
        /\ Bound(ks, m, lo, hi, k) <= Bound(ks, m, lo, hi, m)
    BY <1>5, <2>2, BoundsRise
  <2>5. Bound(ks, m, lo, hi, z) = lo /\ Bound(ks, m, lo, hi, m) = hi
    BY <1>3, <2>1 DEF Bound
  <2>6. v \in Int
    BY Ends
  <2> QED BY <1>6, <2>1, <2>3, <2>4, <2>5, <2>6
<1> QED BY <1>2, <1>8, <1>9 DEF Within

LEMMA RootWithin ==
  ASSUME NEW t, NEW lev, NEW low, NEW high, InOrder(t, lev, low, high), NEW v \in Value
  PROVE  Within(low, high, t.root, v)
<1>1. low[t.root] = Bottom /\ high[t.root] = Top
  BY DEF InOrder, Ordered, Covers, Upto
<1>2. v \in Int /\ Bottom \in Int /\ Bottom < v /\ v < Top
  BY Ends
<1> QED BY <1>1, <1>2 DEF Within

\* Each node on the way of a search has the value within its bounds.
LEMMA PrefixWithin ==
  ASSUME DifferencesFit, NEW t, NEW lev, NEW low, NEW high, InOrder(t, lev, low, high),
         NEW v \in Value, NEW k \in 0..t.height, NEW f, Prefix(t, v, k, f), NEW i \in 0..k
  PROVE  Within(low, high, f[i], v)
<1> DEFINE Off(j) == ~Within(low, high, f[j], v)
           S == {j \in 0..k : Off(j)}
<1>0. Shape(t, lev, NoNode, NoNode)
  BY DEF InOrder
<1>1. t.height \in Nat
  BY <1>0 DEF Shape, Pages, TreeRec
<1>2. k \in Nat /\ k <= t.height
  BY <1>1
<1>3. SUFFICES ASSUME S # {} PROVE FALSE
  OBVIOUS
<1>4. PICK j \in S : \A i2 \in S : j <= i2
  <2>1. S \in SUBSET Nat
    BY <1>2
  <2> HIDE DEF S
  <2> QED BY <1>3, <2>1, LeastOf
<1>5. j \in 0..k /\ Off(j) /\ j \in Nat
  BY <1>2, <1>4
<1>6. j # 0
  BY <1>5, RootWithin DEF Prefix
<1>7. j - 1 \in 0..k /\ j - 1 \notin S /\ j \in 1..k
  BY <1>2, <1>4, <1>5, <1>6
<1>8. Within(low, high, f[j - 1], v)
  BY <1>7
<1> HIDE DEF S
<1>9. f[j - 1] \in 1..Len(t.page) /\ lev[f[j - 1]] = t.height - (j - 1)
  <2>1. PICK y : y = j - 1
    OBVIOUS
  <2>2. y \in 0..k
    BY <1>7, <2>1
  <2>3. f[y] \in 1..Len(t.page) /\ lev[f[y]] = t.height - y
    BY <1>0, <2>2, PrefixLevels
  <2> QED BY <2>1, <2>3
<1>10. lev[f[j - 1]] # 0
  BY <1>1, <1>2, <1>7, <1>9
<1>11. f[j] = Down(t, v, f[j - 1])
  BY <1>7 DEF Prefix
<1>12. Within(low, high, Down(t, v, f[j - 1]), v)
  BY <1>8, <1>9, <1>10, DownWithin
<1> QED BY <1>5, <1>11, <1>12

\* And there is no other node at its level that has.
LEMMA PrefixOnly ==
  ASSUME DifferencesFit, NEW t, NEW lev, NEW low, NEW high, InOrder(t, lev, low, high),
         NEW v \in Value, NEW k \in 0..t.height, NEW f, Prefix(t, v, k, f), NEW i \in 0..k,
         NEW o \in 1..Len(t.page), lev[o] = t.height - i, Within(low, high, o, v)
  PROVE  f[i] = o
<1> DEFINE Off(j) == \E c \in 1..Len(t.page) :
                        lev[c] = t.height - j /\ Within(low, high, c, v) /\ f[j] # c
           S == {j \in 0..k : Off(j)}
<1>0. Shape(t, lev, NoNode, NoNode) /\ Pages(t, lev) /\ Family(t, lev, NoNode)
  BY DEF InOrder, Shape
<1>1. t.height \in Nat /\ NoNode \notin 1..Len(t.page)
  BY <1>0 DEF Pages, TreeRec, NoNode
<1>2. k \in Nat /\ k <= t.height
  BY <1>1
<1>3. SUFFICES ASSUME S # {} PROVE FALSE
  OBVIOUS
<1>4. PICK j \in S : \A i2 \in S : j <= i2
  <2>1. S \in SUBSET Nat
    BY <1>2
  <2> HIDE DEF S
  <2> QED BY <1>3, <2>1, LeastOf
<1>5. j \in 0..k /\ Off(j) /\ j \in Nat
  BY <1>2, <1>4
<1>6. PICK c \in 1..Len(t.page) : lev[c] = t.height - j /\ Within(low, high, c, v) /\ f[j] # c
  BY <1>5
<1>7. ASSUME c # t.root
      PROVE  /\ t.page[c].parent \in 1..Len(t.page) /\ IsChild(t, c, t.page[c].parent)
             /\ lev[t.page[c].parent] \in 1..t.height
             /\ lev[t.page[c].parent] = t.height - (j - 1)
  <2>1. PICK p : p = t.page[c].parent
    OBVIOUS
  <2>2. c # NoNode
    BY <1>1
  <2>3. p \in 1..Len(t.page) /\ lev[p] # 0 /\ IsChild(t, c, p)
    BY <1>0, <1>7, <2>1, <2>2, ParentIn
  <2>4. lev[c] = lev[p] - 1
    BY <1>0, <2>3, ChildIn
  <2>5. lev[p] \in Nat /\ lev[p] <= t.height
    BY <1>0, <2>3 DEF Pages
  <2>6. lev[p] = t.height - (j - 1)
    BY SMTT(30), <1>1, <1>5, <1>6, <2>4, <2>5
  <2> QED BY <1>1, <2>1, <2>3, <2>5, <2>6
<1>8. j # 0
  <2>1. SUFFICES ASSUME j = 0 PROVE FALSE
    OBVIOUS
  <2>2. c # t.root
    BY <1>6, <2>1 DEF Prefix
  <2>3. lev[t.page[c].parent] \in 1..t.height /\ lev[t.page[c].parent] = t.height - (j - 1)
    BY <1>7, <2>2
  <2> QED BY <1>1, <2>1, <2>3
<1>9. j - 1 \in 0..k /\ j - 1 \notin S /\ j \in 1..k
  BY <1>2, <1>4, <1>5, <1>8
<1>10. c # t.root
  <2>1. lev[t.root] = t.height
    BY <1>0 DEF Pages
  <2> QED BY <1>1, <1>5, <1>6, <1>8, <2>1
<1>11. PICK p : p = t.page[c].parent
  OBVIOUS
<1>12. p \in 1..Len(t.page) /\ IsChild(t, c, p) /\ lev[p] # 0 /\ lev[p] = t.height - (j - 1)
  BY <1>1, <1>7, <1>10, <1>11
<1>13. Within(low, high, p, v) /\ Down(t, v, p) = c
  BY <1>6, <1>12, UpWithin
<1>14. f[j - 1] = p
  BY <1>9, <1>12, <1>13
<1>15. f[j] = Down(t, v, f[j - 1])
  BY <1>9 DEF Prefix
<1> QED BY <1>6, <1>13, <1>14, <1>15

LEMMA SearchWithin ==
  ASSUME DifferencesFit, NEW t, NEW lev, NEW low, NEW high, InOrder(t, lev, low, high),
         NEW v \in Value
  PROVE  Within(low, high, AM_SearchLeaf(t, v), v)
<1>1. PICK f, h : f = Path(t, v) /\ h = t.height
  OBVIOUS
<1>2. h \in Nat
  BY <1>1 DEF InOrder, Shape, Pages, TreeRec
<1>3. Prefix(t, v, h, f)
  <2>1. Prefix(t, v, t.height, Path(t, v))
    BY <1>1, <1>2, PathIsPrefix
  <2> QED BY <1>1, <2>1
<1>4. h \in 0..t.height /\ h \in 0..h
  BY <1>1, <1>2
<1>5. Within(low, high, f[h], v)
  BY <1>3, <1>4, PrefixWithin
<1> QED BY <1>1, <1>5 DEF AM_SearchLeaf

LEMMA SearchOnly ==
  ASSUME DifferencesFit, NEW t, NEW lev, NEW low, NEW high, InOrder(t, lev, low, high),
         NEW v \in Value, NEW o \in 1..Len(t.page), lev[o] = 0, Within(low, high, o, v)
  PROVE  AM_SearchLeaf(t, v) = o
<1>1. PICK f, h : f = Path(t, v) /\ h = t.height
  OBVIOUS
<1>2. h \in Nat
  BY <1>1 DEF InOrder, Shape, Pages, TreeRec
<1>3. Prefix(t, v, h, f)
  <2>1. Prefix(t, v, t.height, Path(t, v))
    BY <1>1, <1>2, PathIsPrefix
  <2> QED BY <1>1, <2>1
<1>4. h \in 0..t.height /\ h \in 0..h /\ lev[o] = t.height - h
  BY <1>1, <1>2
<1>5. f[h] = o
  BY <1>3, <1>4, PrefixOnly
<1> QED BY <1>1, <1>5 DEF AM_SearchLeaf

\* An entry is in the leaf that a search for its value comes to, or in the one
\* before, and then that leaf begins with the value.
\* The value of an entry, and a leaf with an entry of a value.
HasValue(t, o, i, v) == v = t.page[o].rec[i].value
FoundIn(t, o, v) == \E j \in 1..Len(t.page[o].rec) : HasValue(t, o, j, v)

LEMMA ValueFound ==
  ASSUME DifferencesFit, NEW t, NEW lev, NEW low, NEW high, InOrder(t, lev, low, high),
         NEW o \in 1..Len(t.page), lev[o] = 0, NEW i \in 1..Len(t.page[o].rec),
         NEW v, HasValue(t, o, i, v)
  PROVE  FoundIn(t, AM_SearchLeaf(t, v), v)
<1>0. v = t.page[o].rec[i].value
  BY DEF HasValue
<1>1. Pages(t, lev) /\ Linked(t, lev) /\ Ranges(t, low, high) /\ LeavesOrdered(t, lev, low, high)
  BY DEF InOrder, Shape, Ordered
<1>2. v \in Value /\ v \in Int /\ Bottom < v /\ v < Top /\ Bottom \in Int
  <2>1. t.page[o].rec \in Seq(Rec)
    BY <1>1, LeafIn
  <2>2. t.page[o].rec[i].value \in Value
    BY <2>1, RecIn
  <2>3. v \in Value
    BY <1>0, <2>2
  <2> QED BY <2>3, Ends
<1>3. /\ LeafOrder(t.page[o].rec, low[o], high[o])
      /\ t.page[o].next # NoNode => low[t.page[o].next] = high[o]
      /\ t.page[o].next = NoNode => high[o] = Top
  BY <1>1 DEF LeavesOrdered
<1>4. low[o] <= v /\ v <= high[o] /\ low[o] \in Int /\ high[o] \in Int
  BY <1>0, <1>1, <1>3 DEF LeafOrder, Ranges
<1>5. CASE v < high[o]
  <2>1. Within(low, high, o, v)
    BY <1>4, <1>5 DEF Within
  <2>2. AM_SearchLeaf(t, v) = o
    BY <1>2, <2>1, SearchOnly
  <2> QED BY <1>0, <2>2 DEF FoundIn, HasValue
<1>6. CASE v = high[o]
  <2>1. PICK q : q = t.page[o].next
    OBVIOUS
  <2>2. q # NoNode /\ low[q] = v
    BY <1>2, <1>3, <1>6, <2>1
  <2>3. q \in 1..Len(t.page) /\ lev[q] = 0
    BY <1>1, <2>1, <2>2 DEF Linked
  <2>4. Within(low, high, q, v)
    BY <1>1, <1>2, <2>2, <2>3 DEF Within, Ranges
  <2>5. AM_SearchLeaf(t, v) = q
    BY <1>2, <2>3, <2>4, SearchOnly
  <2>6. LeafOrder(t.page[q].rec, low[q], high[q])
    BY <1>1, <2>3 DEF LeavesOrdered
  <2>7. Len(t.page[q].rec) # 0 /\ t.page[q].rec[1].value = v
    BY <1>2, <2>2, <2>6 DEF LeafOrder
  <2>8. Len(t.page[q].rec) \in Nat
    BY <1>1, <2>3, LeafIn
  <2>9. 1 \in 1..Len(t.page[q].rec)
    BY <2>7, <2>8
  <2> QED BY <2>5, <2>7, <2>9 DEF FoundIn, HasValue
<1>7. v < high[o] \/ v = high[o]
  BY <1>2, <1>4
<1> QED BY <1>5, <1>6, <1>7

\* The values of the leaves rise along the list.
LEMMA ListRises ==
  ASSUME NEW t, NEW lev, NEW low, NEW high, InOrder(t, lev, low, high),
         NEW o \in 1..Len(t.page), lev[o] = 0
  PROVE  /\ \A i, j \in DOMAIN t.page[o].rec :
              i < j => t.page[o].rec[i].value <= t.page[o].rec[j].value
         /\ t.page[o].next # NoNode /\ t.page[o].rec # <<>> =>
              Last(t.page[o].rec).value <= Head(t.page[t.page[o].next].rec).value
<1>1. Pages(t, lev) /\ Linked(t, lev) /\ Ranges(t, low, high) /\ LeavesOrdered(t, lev, low, high)
  BY DEF InOrder, Shape, Ordered
<1>2. PICK rec, q : rec = t.page[o].rec /\ q = t.page[o].next
  OBVIOUS
<1>3. rec \in Seq(Rec) /\ DOMAIN rec = 1..Len(rec) /\ Len(rec) \in Nat
  <2>1. t.page[o].rec \in Seq(Rec)
    BY <1>1, LeafIn
  <2> QED BY <1>2, <2>1
<1>4. /\ LeafOrder(rec, low[o], high[o])
      /\ q # NoNode => low[q] = high[o]
  BY <1>1, <1>2 DEF LeavesOrdered
<1>5. \A i, j \in DOMAIN rec : i < j => rec[i].value <= rec[j].value
  BY <1>3, <1>4 DEF LeafOrder, Sorted
<1>6. ASSUME q # NoNode, rec # <<>>
      PROVE  Last(rec).value <= Head(t.page[q].rec).value
  <2>1. q \in 1..Len(t.page) /\ lev[q] = 0
    BY <1>1, <1>2, <1>6 DEF Linked
  <2>2. PICK s : s = t.page[q].rec
    OBVIOUS
  <2>3. s \in Seq(Rec) /\ LeafOrder(s, low[q], high[q])
    <3>1. t.page[q].rec \in Seq(Rec)
      BY <1>1, <2>1, LeafIn
    <3> QED BY <1>1, <2>1, <2>2, <3>1 DEF LeavesOrdered
  <2>4. low[q] # Bottom
    <3>1. Bottom \in Int /\ low[o] \in Int /\ high[o] \in Int /\ Bottom <= low[o] /\ low[o] < high[o]
      BY <1>1, Ends DEF Ranges
    <3> QED BY <1>4, <1>6, <3>1
  <2>5. Head(s).value = high[o]
    <3>1. Len(s) # 0 /\ s[1].value = low[q]
      BY <2>3, <2>4 DEF LeafOrder
    <3>2. Head(s) = s[1]
      BY <2>3, <3>1
    <3> QED BY <1>4, <1>6, <3>1, <3>2
  <2>6. Last(rec).value <= high[o]
    <3>1. Len(rec) \in 1..Len(rec)
      BY <1>3, <1>6
    <3> QED BY <1>4, <3>1 DEF LeafOrder, Last
  <2> QED BY <2>2, <2>5, <2>6
<1> QED BY <1>2, <1>5, <1>6
-----------------------------------------------------------------------------
(* Good trees, and positions in them. *)

\* The values are in order, and no value has too many entries.
Sound(t, lev, old, after, key) ==
  CopiesOK(t) /\ \E low, high : Ordered(t, lev, low, high, old, after, key)

Good(t, old, after, key) ==
  \E lev : Shape(t, lev, old, after) /\ (Fits => Sound(t, lev, old, after, key))

\* A tree that no split climbs in.
Whole(t) == Good(t, NoNode, NoNode, NoNode)

IsLeaf(t, o) == o \in 1..Len(t.page) /\ t.page[o] \in LeafNode

\* A position in a leaf; entry 0 is the one before the first.
InTree(t, pos) == IsLeaf(t, pos.leaf) /\ pos.entry \in 0..Len(t.page[pos.leaf].rec)

LEMMA KindsApart ==
  ASSUME NEW x
  PROVE  /\ x \in LeafNode => "rec" \in DOMAIN x
         /\ x \in InnerNode => "rec" \notin DOMAIN x
BY DEF LeafNode, InnerNode

LEMMA LeafLevel ==
  ASSUME NEW t, NEW lev, NEW old, NEW after, Shape(t, lev, old, after), NEW o
  PROVE  IsLeaf(t, o) <=> o \in 1..Len(t.page) /\ lev[o] = 0
<1>1. Pages(t, lev)
  BY DEF Shape
<1>2. o \in 1..Len(t.page) /\ lev[o] # 0 => t.page[o] \in InnerNode
  BY <1>1, LeafIn
<1>3. o \in 1..Len(t.page) /\ lev[o] = 0 => t.page[o] \in LeafNode
  BY <1>1, LeafIn
<1> QED BY <1>2, <1>3, KindsApart DEF IsLeaf

\* The values of a tree's nodes.
LEMMA GoodNodes ==
  ASSUME NEW t, NEW old, NEW after, NEW key, Good(t, old, after, key)
  PROVE  /\ t \in TreeRec /\ Len(t.page) \in Nat /\ DOMAIN t.page = 1..Len(t.page)
         /\ \A o \in 1..Len(t.page) : LeafOK(t.page[o]) \/ InnerOK(t.page[o])
<1>1. PICK lev : Shape(t, lev, old, after)
  BY DEF Good
<1>2. Pages(t, lev)
  BY <1>1 DEF Shape
<1>3. t \in TreeRec
  BY <1>2 DEF Pages
<1>4. Len(t.page) \in Nat /\ DOMAIN t.page = 1..Len(t.page)
  BY <1>3 DEF TreeRec
<1> QED BY <1>2, <1>3, <1>4 DEF Pages

\* A new index.
LEMMA GoodEmpty == Whole(EmptyTree)
<1>1. PICK t, lev : t = EmptyTree /\ lev = [q \in 1..2 |-> 2 - q]
  OBVIOUS
<1>2. Shape(t, lev, NoNode, NoNode)
  BY <1>1, EmptyShape
<1>3. PICK low, high : low = [q \in 1..2 |-> Bottom] /\ high = [q \in 1..2 |-> Top]
  OBVIOUS
<1>4. Ordered(t, lev, low, high, NoNode, NoNode, NoNode)
  BY <1>1, <1>3, EmptyOrder
<1>5. ASSUME NEW x PROVE Copies(t, x) <= MaxCopies
  <2>1. Pages(t, lev)
    BY <1>2 DEF Shape
  <2>2. ASSUME NEW d \in Places(t, x) PROVE FALSE
    <3>1. PICK o, i : o = d[1] /\ i = d[2]
      OBVIOUS
    <3>2. <<o, i>> \in Places(t, x)
      BY <2>2, <3>1, PlacesPairs
    <3>3. o \in 1..Len(t.page) /\ lev[o] = 0 /\ i \in 1..Len(t.page[o].rec)
      BY <2>1, <3>2, PlaceIn
    <3>4. Len(t.page) = 2 /\ t.page[2].rec = <<>> /\ lev[1] = 1
      BY <1>1 DEF EmptyTree
    <3>5. o \in 1..2
      BY <3>3, <3>4
    <3>6. o = 2
      BY <3>3, <3>4, <3>5
    <3>7. Len(t.page[o].rec) = 0
      BY <3>4, <3>6
    <3> QED BY <3>3, <3>7
  <2>3. Places(t, x) = {}
    BY <2>2
  <2>4. Copies(t, x) = Cardinality(Places(t, x))
    BY <2>1, PlacesFinite
  <2> QED BY <2>3, <2>4, FS_EmptySet, BoundsAssumption
<1>6. Sound(t, lev, NoNode, NoNode, NoNode)
  BY <1>4, <1>5 DEF Sound, CopiesOK
<1> QED BY <1>1, <1>2, <1>6 DEF Whole, Good

\* Where a search ends.
LEMMA GoodSearch ==
  ASSUME NEW t, NEW old, NEW after, NEW key, Good(t, old, after, key), NEW v
  PROVE  /\ IsLeaf(t, AM_SearchLeaf(t, v))
         /\ t.page[AM_SearchLeaf(t, v)].parent = AM_SearchIndex(t, v)
<1>1. PICK lev : Shape(t, lev, old, after)
  BY DEF Good
<1>2. PICK l : l = AM_SearchLeaf(t, v)
  OBVIOUS
<1>3. l \in 1..Len(t.page) /\ lev[l] = 0 /\ t.page[l].parent = AM_SearchIndex(t, v)
  BY <1>1, <1>2, SearchEnds
<1>4. IsLeaf(t, l)
  BY <1>1, <1>3, LeafLevel
<1> QED BY <1>2, <1>3, <1>4

LEMMA LeafEntries ==
  ASSUME NEW t, NEW old, NEW after, NEW key, Good(t, old, after, key), NEW o, IsLeaf(t, o)
  PROVE  /\ o \in 1..Len(t.page) /\ o \in Nat /\ o # NoNode
         /\ t.page[o] \in LeafNode /\ t.page[o].rec \in Seq(Rec)
         /\ Len(t.page[o].rec) \in 0..FANOUT
         /\ DOMAIN t.page[o].rec = 1..Len(t.page[o].rec)
<1>1. o \in 1..Len(t.page) /\ t.page[o] \in LeafNode /\ Len(t.page) \in Nat
  BY GoodNodes DEF IsLeaf
<1>2. t.page[o].rec \in Seq(Rec)
  BY <1>1 DEF LeafNode
<1>3. Len(t.page[o].rec) <= FANOUT
  BY <1>1, GoodNodes, KindsApart DEF LeafOK, InnerOK
<1> QED BY <1>1, <1>2, <1>3, TreeAssumption DEF NoNode

LEMMA GoodFirst ==
  ASSUME NEW t, NEW old, NEW after, NEW key, Good(t, old, after, key), NEW op, NEW v
  PROVE  /\ InTree(t, AM_GetFirstEntry(t, op, v))
         /\ AM_GetFirstEntry(t, op, v) \in PosType
<1> DEFINE l == AM_SearchLeaf(t, v)
           rec == t.page[l].rec
           T == {i \in DOMAIN rec : AM_CheckCondition(op, rec[i].value, v)} \cup {Start}
           pos == AM_GetFirstEntry(t, op, v)
<1>1. IsLeaf(t, l)
  BY GoodSearch
<1>2. l \in Nat /\ Len(rec) \in 0..FANOUT /\ DOMAIN rec = 1..Len(rec)
  BY <1>1, LeafEntries
<1>3. pos.leaf = l /\ pos.entry = Max(T) /\ pos = [leaf |-> l, entry |-> Max(T)]
  BY DEF AM_GetFirstEntry
<1>4. T \in SUBSET (0..Len(rec)) /\ T # {} /\ Len(rec) \in Int
  BY <1>2 DEF Start
<1> HIDE DEF T
<1>5. Max(T) \in T
  BY <1>4, GreatestOf DEF Max
<1>6. Max(T) \in 0..Len(rec)
  BY <1>4, <1>5
<1>7. Max(T) \in 0..FANOUT
  BY <1>2, <1>6, TreeAssumption
<1> HIDE DEF l
<1>8. pos \in PosType
  BY <1>2, <1>3, <1>7 DEF PosType
<1> QED BY <1>1, <1>3, <1>6, <1>8 DEF InTree, l

\* A step along the list of leaves ends at an entry, or behind the list.
LEMMA GoodNeighbour ==
  ASSUME NEW t, NEW old, NEW after, NEW key, Good(t, old, after, key), NEW d \in {LEFT, RIGHT},
         NEW pos \in PosType, pos.leaf = NoNode \/ InTree(t, pos)
  PROVE  /\ Neighbour(t, d, pos) \in PosType
         /\ \/ Neighbour(t, d, pos).leaf = NoNode
            \/ InTree(t, Neighbour(t, d, pos)) /\ Neighbour(t, d, pos).entry # 0
<1> DEFINE q == Neighbour(t, d, pos)
           x == t.page[pos.leaf]
           m == Len(x.rec)
           next == IF d = LEFT THEN x.prev ELSE x.next
           edge == IF d = LEFT THEN 1 ELSE m
<1>0. PICK lev : Shape(t, lev, old, after)
  BY DEF Good
<1>1. CASE pos.leaf = NoNode
  BY <1>1 DEF Neighbour
<1>2. CASE pos.leaf # NoNode
  <2>1. InTree(t, pos) /\ IsLeaf(t, pos.leaf) /\ pos.entry \in 0..m
    BY <1>2 DEF InTree
  <2>2. m \in 0..FANOUT /\ pos.leaf \in 1..Len(t.page) /\ lev[pos.leaf] = 0
    BY <1>0, <2>1, LeafEntries, LeafLevel
  <2>3. CASE pos.entry \notin {edge, Start}
    <3>1. q = [pos EXCEPT !.entry = pos.entry + d]
      BY <1>2, <2>3 DEF Neighbour
    <3>2. pos.entry + d \in 1..m
      <4>1. PICK e, k : e = pos.entry /\ k = m
        OBVIOUS
      <4>2. k \in Nat /\ e \in 0..k /\ e # 0
        BY <2>1, <2>2, <2>3, <4>1, TreeAssumption DEF Start
      <4>3. d = LEFT => e # 1
        BY <2>3, <4>1
      <4>4. d = RIGHT => e # k
        BY <2>3, <4>1 DEF LEFT, RIGHT
      <4>5. e + d \in 1..k
        BY <4>2, <4>3, <4>4 DEF LEFT, RIGHT
      <4> QED BY <4>1, <4>5
    <3>3. pos.entry + d \in 0..FANOUT
      BY <2>2, <3>2, TreeAssumption
    <3>4. PICK e : e = pos.entry + d
      OBVIOUS
    <3>5. q \in PosType /\ q.leaf = pos.leaf /\ q.entry = e
      BY <3>1, <3>3, <3>4 DEF PosType
    <3>6. q.entry \in 0..m /\ q.entry # 0
      BY <2>2, <3>2, <3>4, <3>5
    <3> QED BY <2>1, <3>5, <3>6 DEF InTree
  <2>4. CASE pos.entry \in {edge, Start}
    <3>1. q = [leaf |-> next,
               entry |-> IF next = NoNode THEN pos.entry
                         ELSE IF d = LEFT THEN Len(t.page[next].rec) ELSE 1]
      BY <1>2, <2>4 DEF Neighbour
    <3>2. x.prev \in Nat /\ x.next \in Nat
      BY <2>1 DEF IsLeaf, LeafNode
    <3>3. CASE next = NoNode
      <4>1. pos.entry \in 0..FANOUT
        BY DEF PosType
      <4>2. q = [leaf |-> NoNode, entry |-> pos.entry]
        BY <3>1, <3>3
      <4> QED BY <4>1, <4>2 DEF PosType, NoNode
    <3>4. CASE next # NoNode
      <4>1. PICK o : o = next
        OBVIOUS
      <4>2. o \in 1..Len(t.page) /\ lev[o] = 0
        BY <1>0, <2>2, <3>4, <4>1 DEF Shape, Linked
      <4>3. IsLeaf(t, o)
        BY <1>0, <4>2, LeafLevel
      <4>4. t.page[o].rec # <<>>
        <5>1. CASE o # t.first
          BY <1>0, <4>2, <5>1 DEF Shape, Linked
        <5>2. CASE o = t.first
          <6>2. d = LEFT
            <7>1. d = RIGHT => t.page[o].prev = pos.leaf
              BY <1>0, <2>2, <3>4, <4>1 DEF Shape, Linked, LEFT, RIGHT
            <7>2. t.page[o].prev = NoNode
              BY <1>0, <5>2 DEF Shape, Linked
            <7> QED BY <1>2, <7>1, <7>2
          <6>3. t.page[o].next = pos.leaf
            BY <1>0, <2>2, <3>4, <4>1, <6>2 DEF Shape, Linked
          <6>4. Begun(t)
            BY <1>0 DEF Shape
          <6> QED BY <1>2, <5>2, <6>3, <6>4 DEF Begun
        <5> QED BY <5>1, <5>2
      <4>5. o \in Nat /\ t.page[o].rec \in Seq(Rec) /\ Len(t.page[o].rec) \in 0..FANOUT
        BY <4>3, LeafEntries
      <4>6. Len(t.page[o].rec) \in 1..FANOUT
        BY <4>4, <4>5
      <4>7. PICK e : e = IF d = LEFT THEN Len(t.page[o].rec) ELSE 1
        OBVIOUS
      <4>8. q = [leaf |-> o, entry |-> e]
        BY <3>1, <3>4, <4>1, <4>7
      <4>9. e \in 0..Len(t.page[o].rec) /\ e # 0 /\ e \in 0..FANOUT
        BY <4>6, <4>7, TreeAssumption
      <4>10. q \in PosType
        BY <4>5, <4>8, <4>9 DEF PosType
      <4>11. q.leaf = o /\ q.entry = e
        BY <4>8
      <4> QED BY <4>3, <4>9, <4>10, <4>11 DEF InTree
    <3> QED BY <3>3, <3>4
  <2> QED BY <2>3, <2>4
<1> QED BY <1>1, <1>2

\* A tree with other entries in a leaf, as many, has the same positions.
LEMMA GoodMark ==
  ASSUME NEW t, NEW old, NEW after, NEW key, Good(t, old, after, key), NEW pos, InTree(t, pos), pos.entry # 0
  PROVE  /\ Good(AM_MarkDeleted(t, pos), old, after, key)
         /\ \A o \in 1..Len(t.page) : AM_MarkDeleted(t, pos).page[o].parent = t.page[o].parent
         /\ \A p : InTree(t, p) => InTree(AM_MarkDeleted(t, pos), p)
<1> DEFINE u == AM_MarkDeleted(t, pos)
           o == pos.leaf
           i == pos.entry
<1>1. PICK lev : Shape(t, lev, old, after) /\ (Fits => Sound(t, lev, old, after, key))
  BY DEF Good
<1>2. o \in 1..Len(t.page) /\ lev[o] = 0 /\ i \in 0..Len(t.page[o].rec)
  BY <1>1, LeafLevel DEF InTree
<1>3. PICK s : s = t.page[o].rec
  OBVIOUS
<1>4. s \in Seq(Rec) /\ Len(s) \in Nat /\ IsLeaf(t, o)
  <2>1. IsLeaf(t, o)
    BY DEF InTree
  <2>2. t.page[o].rec \in Seq(Rec) /\ Len(t.page[o].rec) \in 0..FANOUT
    BY <2>1, LeafEntries
  <2> QED BY <1>3, <2>1, <2>2, TreeAssumption
<1>5. i \in 1..Len(t.page[o].rec)
  BY <1>2, <1>3, <1>4
<1>6. PICK rec : rec = [t.page[o].rec EXCEPT ![i].deleted = TRUE]
  OBVIOUS
<1>7. Shape(u, lev, old, after) /\ Rewritten(t, u, o, rec)
  BY <1>1, <1>2, <1>5, <1>6, MarkShape
<1>8. Len(rec) = Len(s)
  BY <1>3, <1>4, <1>6
<1>9. Good(u, old, after, key)
  <2>1. ASSUME Fits
        PROVE  Sound(u, lev, old, after, key)
    <3>1. CopiesOK(t)
      BY <1>1, <2>1 DEF Sound
    <3>2. PICK low, high : Ordered(t, lev, low, high, old, after, key)
      BY <1>1, <2>1 DEF Sound
    <3>3. Ordered(u, lev, low, high, old, after, key) /\ CopiesOK(u)
      BY <1>1, <1>2, <1>5, <3>1, <3>2, MarkOrder
    <3> QED BY <3>3 DEF Sound
  <2> QED BY <1>7, <2>1 DEF Good
<1>10. \A q \in 1..Len(t.page) : u.page[q].parent = t.page[q].parent
  BY <1>7 DEF Rewritten
<1>11. ASSUME NEW p, InTree(t, p)
       PROVE  InTree(u, p)
  <2>1. CASE p.leaf = o
    BY <1>3, <1>7, <1>8, <1>11, <2>1 DEF InTree, IsLeaf, Rewritten
  <2>2. CASE p.leaf # o
    BY <1>7, <1>11, <2>2 DEF InTree, IsLeaf, Rewritten
  <2> QED BY <2>1, <2>2
<1> HIDE DEF u
<1> QED BY <1>9, <1>10, <1>11 DEF u
-----------------------------------------------------------------------------
(* What the insertions of AM.tla make of a good tree. *)

LEMMA NewRecIn ==
  ASSUME NEW v \in Value, NEW id \in RecId
  PROVE  NewRec(v, id) \in Rec /\ NewRec(v, id).value = v
BY DEF NewRec, Rec

LEMMA GoodPlace ==
  ASSUME NEW t, Whole(t), NEW v \in Value, NEW id \in RecId, Copies(t, v) < MaxCopies,
         Len(t.page[AM_SearchLeaf(t, v)].rec) < FANOUT
  PROVE  Whole(PlaceInLeaf(t, AM_SearchLeaf(t, v), NewRec(v, id)))
<1>1. PICK o, e : o = AM_SearchLeaf(t, v) /\ e = NewRec(v, id)
  OBVIOUS
<1>2. PICK lev : /\ Shape(t, lev, NoNode, NoNode)
                 /\ Fits => Sound(t, lev, NoNode, NoNode, NoNode)
  BY DEF Good, Whole
<1>3. o \in 1..Len(t.page) /\ lev[o] = 0
  BY <1>1, <1>2, SearchEnds
<1>4. Len(t.page[o].rec) < FANOUT /\ e \in Rec /\ e.value = v
  BY <1>1, NewRecIn
<1>5. PICK u : u = PlaceInLeaf(t, o, e)
  OBVIOUS
<1>6. Shape(u, lev, NoNode, NoNode)
  <2>1. Shape(PlaceInLeaf(t, o, e), lev, NoNode, NoNode)
    BY <1>2, <1>3, <1>4, PlaceShape
  <2> QED BY <1>5, <2>1
<1>7. ASSUME Fits
      PROVE  Sound(u, lev, NoNode, NoNode, NoNode)
  <2>1. CopiesOK(t)
    BY <1>2, <1>7 DEF Sound
  <2>2. PICK low, high : Ordered(t, lev, low, high, NoNode, NoNode, NoNode)
    BY <1>2, <1>7 DEF Sound
  <2>3. PICK n : n = Len(t.page)
    OBVIOUS
  <2>4. Size(t, n) /\ o \in 1..n
    BY <1>2, <1>3, <2>3 DEF Size, Shape, Pages, TreeRec
  <2>5. low[o] <= e.value /\ e.value < high[o]
    <3>1. Within(low, high, AM_SearchLeaf(t, v), v)
      BY <1>2, <1>7, <2>2, SearchWithin DEF InOrder, Fits
    <3> QED BY <1>1, <1>4, <3>1 DEF Within
  <2>6. Copies(t, e.value) < MaxCopies
    BY <1>4
  <2>7. Ordered(u, lev, low, high, NoNode, NoNode, NoNode)
    BY <1>2, <1>3, <1>4, <1>5, <1>7, <2>1, <2>2, <2>4, <2>5, <2>6, PlaceOrder
  <2>8. CopiesOK(u)
    BY <1>2, <1>3, <1>4, <1>5, <1>7, <2>1, <2>2, <2>4, <2>5, <2>6, PlaceOrder
  <2> QED BY <2>7, <2>8 DEF Sound
<1> QED BY <1>1, <1>5, <1>6, <1>7 DEF Good, Whole

LEMMA GoodSplit ==
  ASSUME NEW t, Whole(t), NEW v \in Value, NEW id \in RecId, Copies(t, v) < MaxCopies,
         Len(t.page[AM_SearchLeaf(t, v)].rec) = FANOUT,
         NEW s, s = SplitLeaf(t, AM_SearchLeaf(t, v), NewRec(v, id))
  PROVE  /\ Good(s.tree, AM_SearchLeaf(t, v), Len(t.page) + 1, s.key)
         /\ Len(t.page) + 1 # NoNode /\ s.key \in Value
         /\ s.tree.page[AM_SearchLeaf(t, v)].parent = AM_SearchIndex(t, v)
<1>1. PICK o, e : o = AM_SearchLeaf(t, v) /\ e = NewRec(v, id)
  OBVIOUS
<1>2. PICK lev : /\ Shape(t, lev, NoNode, NoNode)
                 /\ Fits => Sound(t, lev, NoNode, NoNode, NoNode)
  BY DEF Good, Whole
<1>3. o \in 1..Len(t.page) /\ lev[o] = 0 /\ t.page[o].parent = AM_SearchIndex(t, v)
  BY <1>1, <1>2, SearchEnds
<1>4. Len(t.page[o].rec) = FANOUT /\ e \in Rec /\ e.value = v
  BY <1>1, NewRecIn
<1>5. PICK u, n, lev2 : u = s.tree /\ n = Len(t.page) /\ lev2 = Grown(lev, n, lev[o])
  OBVIOUS
<1>6. s = SplitLeaf(t, o, e)
  BY <1>1
<1>7. /\ Shape(u, lev2, o, n + 1)
      /\ \A q \in 1..n : u.page[q].parent = t.page[q].parent
      /\ s.key \in Value
  <2>1. PICK w, lev3 : w = SplitLeaf(t, o, e).tree /\ lev3 = Grown(lev, Len(t.page), lev[o])
    OBVIOUS
  <2>2. /\ Shape(w, lev3, o, Len(t.page) + 1)
        /\ \A q \in 1..Len(t.page) : w.page[q].parent = t.page[q].parent
        /\ SplitLeaf(t, o, e).key \in Value
    BY <1>2, <1>3, <1>4, <2>1, SplitLeafShape
  <2> QED BY <1>5, <1>6, <2>1, <2>2
<1>8. Size(t, n) /\ n \in Nat /\ o \in 1..n
  BY <1>2, <1>3, <1>5 DEF Size, Shape, Pages, TreeRec
<1>9. ASSUME Fits
      PROVE  Sound(u, lev2, o, n + 1, s.key)
  <2>1. CopiesOK(t)
    BY <1>2, <1>9 DEF Sound
  <2>2. PICK low, high : Ordered(t, lev, low, high, NoNode, NoNode, NoNode)
    BY <1>2, <1>9 DEF Sound
  <2>3. low[o] <= e.value /\ e.value < high[o]
    <3>1. Within(low, high, AM_SearchLeaf(t, v), v)
      BY <1>2, <1>9, <2>2, SearchWithin DEF InOrder, Fits
    <3> QED BY <1>1, <1>4, <3>1 DEF Within
  <2>4. Copies(t, e.value) < MaxCopies
    BY <1>4
  <2>5. PICK low2, high2 : SplitInto(low, high, n, o, s.key, low2, high2)
    BY DEF SplitInto
  <2>6. Ordered(s.tree, Grown(lev, n, lev[o]), low2, high2, o, n + 1, s.key)
    BY <1>2, <1>3, <1>4, <1>6, <1>8, <1>9, <2>1, <2>2, <2>3, <2>4, <2>5, SplitLeafOrder
  <2>7. CopiesOK(s.tree)
    BY <1>2, <1>3, <1>4, <1>6, <1>8, <1>9, <2>1, <2>2, <2>3, <2>4, <2>5, SplitLeafOrder
  <2> QED BY <1>5, <2>6, <2>7 DEF Sound
<1>10. Good(u, o, n + 1, s.key)
  BY <1>7, <1>9 DEF Good
<1>11. n + 1 # NoNode
  BY <1>8 DEF NoNode
<1> QED BY <1>1, <1>3, <1>5, <1>7, <1>8, <1>10, <1>11

LEMMA GoodNewRoot ==
  ASSUME NEW t, NEW old, NEW after, NEW key \in Value, Good(t, old, after, key),
         after # NoNode, t.page[old].parent = NoNode
  PROVE  Whole(NewRoot(t, key, old, after))
<1>1. PICK lev : Shape(t, lev, old, after) /\ (Fits => Sound(t, lev, old, after, key))
  BY DEF Good
<1>2. PICK u, n, lev2 : /\ u = NewRoot(t, key, old, after) /\ n = Len(t.page)
                        /\ lev2 = Grown(lev, n, t.height + 1)
  OBVIOUS
<1>3. Size(t, n)
  BY <1>1, <1>2 DEF Size, Shape, Pages, TreeRec
<1>4. Shape(u, lev2, NoNode, NoNode)
  <2>1. Shape(NewRoot(t, key, old, after), Grown(lev, Len(t.page), t.height + 1), NoNode, NoNode)
    BY <1>1, NewRootShape
  <2> QED BY <1>2, <2>1
<1>5. ASSUME Fits
      PROVE  Sound(u, lev2, NoNode, NoNode, NoNode)
  <2>1. CopiesOK(t)
    BY <1>1, <1>5 DEF Sound
  <2>2. PICK low, high : Ordered(t, lev, low, high, old, after, key)
    BY <1>1, <1>5 DEF Sound
  <2>3. /\ Ordered(u, Grown(lev, n, t.height + 1), Grown(low, n, Bottom), Grown(high, n, Top),
                   NoNode, NoNode, NoNode)
        /\ CopiesOK(u)
    <3>1. u = NewRoot(t, key, old, after)
      BY <1>2
    <3> QED BY <1>1, <1>3, <2>1, <2>2, <3>1, NewRootOrder
  <2> QED BY <1>2, <2>3 DEF Sound
<1> QED BY <1>2, <1>4, <1>5 DEF Good, Whole

LEMMA GoodPlaceKey ==
  ASSUME NEW t, NEW old, NEW after, NEW key \in Value, Good(t, old, after, key), after # NoNode,
         NEW o, o = t.page[old].parent, o # NoNode, Len(t.page[o].child) < FANOUT
  PROVE  Whole([t EXCEPT !.page[o] = AM_InsertKeyToIndexNoSplit(@, key, after)])
<1>1. PICK lev : Shape(t, lev, old, after) /\ (Fits => Sound(t, lev, old, after, key))
  BY DEF Good
<1>2. PICK u : u = [t EXCEPT !.page[o] = AM_InsertKeyToIndexNoSplit(@, key, after)]
  OBVIOUS
<1>3. Shape(u, lev, NoNode, NoNode)
  <2>1. Shape([t EXCEPT !.page[o] = AM_InsertKeyToIndexNoSplit(@, key, after)], lev, NoNode, NoNode)
    BY <1>1, PlaceKeyShape
  <2> QED BY <1>2, <2>1
<1>4. ASSUME Fits
      PROVE  Sound(u, lev, NoNode, NoNode, NoNode)
  <2>1. CopiesOK(t) /\ DifferencesFit
    BY <1>1, <1>4 DEF Sound, Fits
  <2>2. PICK low, high : Ordered(t, lev, low, high, old, after, key)
    BY <1>1, <1>4 DEF Sound
  <2>3. Ordered(u, lev, low, high, NoNode, NoNode, NoNode) /\ CopiesOK(u)
    BY <1>1, <1>2, <2>1, <2>2, PlaceKeyOrder
  <2> QED BY <2>3 DEF Sound
<1> QED BY <1>2, <1>3, <1>4 DEF Good, Whole

LEMMA GoodSplitInternal ==
  ASSUME NEW t, NEW old, NEW after, NEW key \in Value, Good(t, old, after, key), after # NoNode,
         NEW o, o = t.page[old].parent, o # NoNode, Len(t.page[o].child) = FANOUT,
         NEW s, s = SplitInternal(t, o, key, after)
  PROVE  /\ Good(s.tree, o, Len(t.page) + 1, s.key)
         /\ Len(t.page) + 1 # NoNode /\ s.key \in Value
         /\ s.tree.page[o].parent = t.page[o].parent
<1>1. PICK lev : Shape(t, lev, old, after) /\ (Fits => Sound(t, lev, old, after, key))
  BY DEF Good
<1>2. PICK u, n, lev2 : u = s.tree /\ n = Len(t.page) /\ lev2 = Grown(lev, n, lev[o])
  OBVIOUS
<1>3. Shape(u, lev2, o, n + 1) /\ u.page[o].parent = t.page[o].parent /\ s.key \in Value
  <2>1. /\ Shape(SplitInternal(t, o, key, after).tree, Grown(lev, Len(t.page), lev[o]),
                 o, Len(t.page) + 1)
        /\ SplitInternal(t, o, key, after).tree.page[o].parent = t.page[o].parent
        /\ SplitInternal(t, o, key, after).key \in Value
    BY <1>1, SplitInternalShape
  <2> QED BY <1>2, <2>1
<1>4. Size(t, n) /\ n \in Nat /\ o \in 1..n
  <2>1. o \in 1..Len(t.page)
    BY <1>1, Above
  <2> QED BY <1>1, <1>2, <2>1 DEF Size, Shape, Pages, TreeRec
<1>5. ASSUME Fits
      PROVE  Sound(u, lev2, o, n + 1, s.key)
  <2>1. CopiesOK(t) /\ DifferencesFit
    BY <1>1, <1>5 DEF Sound, Fits
  <2>2. PICK low, high : Ordered(t, lev, low, high, old, after, key)
    BY <1>1, <1>5 DEF Sound
  <2>3. PICK low2, high2 : SplitInto(low, high, n, o, s.key, low2, high2)
    BY DEF SplitInto
  <2>4. /\ Ordered(s.tree, Grown(lev, n, lev[o]), low2, high2, o, n + 1, s.key)
        /\ CopiesOK(s.tree)
    BY <1>1, <1>4, <2>1, <2>2, <2>3, SplitInternalOrder
  <2> QED BY <1>2, <2>4 DEF Sound
<1>6. Good(u, o, n + 1, s.key)
  BY <1>3, <1>5 DEF Good
<1>7. n + 1 # NoNode
  BY <1>4 DEF NoNode
<1> QED BY <1>2, <1>3, <1>6, <1>7

\* The children of a node are the nodes that name it as their parent.
LEMMA GoodParents ==
  ASSUME NEW t, Whole(t), NEW o \in DOMAIN t.page
  PROVE  {p \in DOMAIN t.page \ Leaves(t) : o \in ToSet(t.page[p].child)}
           = IF o = t.root THEN {} ELSE {t.page[o].parent}
<1> DEFINE n == Len(t.page)
<1>1. PICK lev : Shape(t, lev, NoNode, NoNode)
  BY DEF Good, Whole
<1>2. Pages(t, lev) /\ Family(t, lev, NoNode) /\ DOMAIN t.page = 1..n /\ n \in Nat
  BY <1>1, GoodNodes DEF Shape, Whole
<1>3. ASSUME NEW p
      PROVE  p \in DOMAIN t.page \ Leaves(t) <=> p \in 1..n /\ lev[p] # 0
  <2>1. p \in 1..n => (lev[p] = 0 => t.page[p] \in LeafNode) /\ (lev[p] # 0 => t.page[p] \in InnerNode)
    BY <1>2, LeafIn
  <2> QED BY <1>2, <2>1, KindsApart DEF Leaves
<1>4. ASSUME NEW p \in 1..n, lev[p] # 0
      PROVE  o \in ToSet(t.page[p].child) <=> IsChild(t, o, p)
  <2>1. t.page[p].child \in Seq(Nat)
    BY <1>2, <1>4, LeafIn DEF InnerNode
  <2> QED BY <2>1 DEF ToSet, IsChild
<1>5. ASSUME NEW p \in 1..n, lev[p] # 0, IsChild(t, o, p)
      PROVE  o # t.root /\ t.page[o].parent = p
  <2>1. t.page[o].parent = p
    BY <1>2, <1>5, ChildIn
  <2>2. t.page[t.root].parent = NoNode /\ p # NoNode
    BY <1>2, <1>5 DEF Family, NoNode
  <2> QED BY <2>1, <2>2
<1>6. ASSUME o # t.root
      PROVE  t.page[o].parent \in 1..n /\ lev[t.page[o].parent] # 0 /\ IsChild(t, o, t.page[o].parent)
  <2>1. o \in 1..n /\ o # NoNode
    BY <1>2 DEF NoNode
  <2> QED BY <1>2, <1>6, <2>1 DEF Family
<1>7. \A p : p \in DOMAIN t.page \ Leaves(t) /\ o \in ToSet(t.page[p].child)
               <=> o # t.root /\ p = t.page[o].parent
  BY <1>3, <1>4, <1>5, <1>6
<1> HIDE DEF n
<1> QED BY <1>7


\* A search finds every value.
FindsAll(t) ==
  \A e \in Entries(t) :
    LET v == t.page[e[1]].rec[e[2]].value
    IN  \E i \in DOMAIN t.page[AM_SearchLeaf(t, v)].rec :
          t.page[AM_SearchLeaf(t, v)].rec[i].value = v

LEMMA GoodFinds ==
  ASSUME Fits, NEW t, Whole(t)
  PROVE  FindsAll(t)
<1>1. PICK lev : /\ Shape(t, lev, NoNode, NoNode)
                 /\ Sound(t, lev, NoNode, NoNode, NoNode)
  BY DEF Good, Whole
<1>2. PICK low, high : Ordered(t, lev, low, high, NoNode, NoNode, NoNode)
  BY <1>1 DEF Sound
<1>3. InOrder(t, lev, low, high) /\ Pages(t, lev) /\ DifferencesFit
  BY <1>1, <1>2 DEF InOrder, Shape, Fits
<1>4. ASSUME NEW e \in Entries(t)
      PROVE  \E w : /\ w = t.page[e[1]].rec[e[2]].value
                    /\ \E k \in DOMAIN t.page[AM_SearchLeaf(t, w)].rec :
                         t.page[AM_SearchLeaf(t, w)].rec[k].value = w
  <2>1. PICK o, i : o = e[1] /\ i = e[2]
    OBVIOUS
  <2>2. PICK w : w = t.page[e[1]].rec[e[2]].value
    OBVIOUS
  <2>3. o \in 1..Len(t.page) /\ lev[o] = 0 /\ i \in 1..Len(t.page[o].rec)
    <3>1. e \in Places(t, w)
      BY <2>2 DEF Places
    <3>2. <<o, i>> \in Places(t, w)
      BY <2>1, <3>1, PlacesPairs
    <3> QED BY <1>3, <3>2, PlaceIn
  <2>4. HasValue(t, o, i, w)
    BY <2>1, <2>2 DEF HasValue
  <2>5. FoundIn(t, AM_SearchLeaf(t, w), w)
    BY <1>3, <2>3, <2>4, ValueFound
  <2>6. PICK l : l = AM_SearchLeaf(t, w)
    OBVIOUS
  <2>7. DOMAIN t.page[l].rec = 1..Len(t.page[l].rec)
    <3>1. IsLeaf(t, l)
      BY <2>6, GoodSearch DEF Whole
    <3> QED BY <3>1, LeafEntries DEF Whole
  <2>8. PICK j \in 1..Len(t.page[l].rec) : HasValue(t, l, j, w)
    BY <2>5, <2>6 DEF FoundIn
  <2>9. \E k \in DOMAIN t.page[l].rec : t.page[l].rec[k].value = w
    BY <2>7, <2>8 DEF HasValue
  <2> QED BY <2>2, <2>6, <2>9
<1> QED BY <1>4 DEF FindsAll

\* The list of the leaves.
LEMMA GoodList ==
  ASSUME NEW t, Whole(t)
  PROVE  /\ t.page[t.first].prev = NoNode
         /\ \A o \in Leaves(t) :
              /\ o # t.first => /\ t.page[o].prev \in Leaves(t)
                                /\ t.page[t.page[o].prev].next = o
                                /\ t.page[o].rec # <<>>
              /\ t.page[o].next # NoNode =>
                   t.page[o].next \in Leaves(t) /\ t.page[t.page[o].next].prev = o
<1>1. PICK lev : Shape(t, lev, NoNode, NoNode)
  BY DEF Good, Whole
<1>2. Pages(t, lev) /\ Linked(t, lev)
  BY <1>1 DEF Shape
<1>3. \A o : o \in Leaves(t) <=> o \in 1..Len(t.page) /\ lev[o] = 0
  BY <1>2, LeavesAre
<1>4. t.page[t.first].prev = NoNode
  BY <1>2 DEF Linked
<1>5. ASSUME NEW o \in Leaves(t)
      PROVE  /\ o # t.first => /\ t.page[o].prev \in Leaves(t)
                               /\ t.page[t.page[o].prev].next = o
                               /\ t.page[o].rec # <<>>
             /\ t.page[o].next # NoNode =>
                  t.page[o].next \in Leaves(t) /\ t.page[t.page[o].next].prev = o
  <2>1. o \in 1..Len(t.page) /\ lev[o] = 0
    BY <1>3
  <2>2. PICK p, q : p = t.page[o].prev /\ q = t.page[o].next
    OBVIOUS
  <2>3. /\ o # t.first => p # NoNode /\ t.page[o].rec # <<>>
        /\ p # NoNode => p \in 1..Len(t.page) /\ lev[p] = 0 /\ t.page[p].next = o
        /\ q # NoNode => q \in 1..Len(t.page) /\ lev[q] = 0 /\ t.page[q].prev = o
    BY <1>2, <2>1, <2>2 DEF Linked
  <2>4. (p # NoNode => p \in Leaves(t)) /\ (q # NoNode => q \in Leaves(t))
    BY <1>3, <2>3
  <2> QED BY <2>2, <2>3, <2>4
<1> QED BY <1>4, <1>5

LEMMA GoodRises ==
  ASSUME Fits, NEW t, Whole(t), NEW o \in Leaves(t)
  PROVE  /\ \A i, j \in DOMAIN t.page[o].rec :
              i < j => t.page[o].rec[i].value <= t.page[o].rec[j].value
         /\ t.page[o].next # NoNode /\ t.page[o].rec # <<>> =>
              Last(t.page[o].rec).value <= Head(t.page[t.page[o].next].rec).value
<1>1. PICK lev : /\ Shape(t, lev, NoNode, NoNode)
                 /\ Sound(t, lev, NoNode, NoNode, NoNode)
  BY DEF Good, Whole
<1>2. PICK low, high : Ordered(t, lev, low, high, NoNode, NoNode, NoNode)
  BY <1>1 DEF Sound
<1>3. InOrder(t, lev, low, high) /\ Pages(t, lev)
  BY <1>1, <1>2 DEF InOrder, Shape
<1>4. o \in 1..Len(t.page) /\ lev[o] = 0
  BY <1>3, LeavesAre
<1> QED BY <1>3, <1>4, ListRises

-----------------------------------------------------------------------------
(* The index table, and the trees of all index files. *)

\* The tables as arrays of C structures.
Tables ==
  /\ pf_table \in [Fd -> Name \cup {NoName}]
  /\ DOMAIN am_index_table = Fd
  /\ \A fd \in Fd :
       DOMAIN am_index_table[fd] = {"valid", "scan_active", "fileName", "pf_fd"}
  /\ DOMAIN am_scan_table = Fd
  /\ \A sd \in Fd :
       DOMAIN am_scan_table[sd] =
         {"valid", "fileDesc", "pf_fd", "op", "value", "org", "pos", "direction"}

OpenNamed ==
  \A fd \in OpenFds : am_index_table[fd].fileName \in Name /\ am_index_table[fd].pf_fd \in Fd

\* No index is open twice: AM_OpenIndex has looked for its name.
NamesApart ==
  \A f1, f2 \in OpenFds : am_index_table[f1].fileName = am_index_table[f2].fileName => f1 = f2

AInv == Tables /\ OpenNamed /\ NamesApart /\ EntryOwnsFile

-----------------------------------------------------------------------------
(* What the searches of the tables find. *)

LEMMA LeastFree ==
  ASSUME NEW S \in SUBSET Fd, S # {}
  PROVE  Min(S) \in S
<1>1. S \in SUBSET Nat
  BY DEF Fd
<1> QED BY <1>1, LeastOf DEF Min

LEMMA GreatestFree ==
  ASSUME NEW S \in SUBSET Fd, S # {}
  PROVE  Max(S) \in S
<1>1. MAXOPENFILES - 1 \in Int /\ S \in SUBSET (0..(MAXOPENFILES - 1))
  BY AMAssumption DEF Fd
<1> QED BY <1>1, GreatestOf DEF Max

-----------------------------------------------------------------------------
(* What the steps do to the tables. *)

\* What entries and scans are looked up by does not change, but scans may end.
KeysKept ==
  /\ pf_table' = pf_table
  /\ DOMAIN am_index_table' = Fd
  /\ \A fd \in Fd : /\ DOMAIN am_index_table'[fd] = DOMAIN am_index_table[fd]
                    /\ am_index_table'[fd].valid = am_index_table[fd].valid
                    /\ am_index_table'[fd].fileName = am_index_table[fd].fileName
                    /\ am_index_table'[fd].pf_fd = am_index_table[fd].pf_fd
  /\ DOMAIN am_scan_table' = Fd
  /\ \A sd \in Fd :
       /\ DOMAIN am_scan_table'[sd] = DOMAIN am_scan_table[sd]
       /\ am_scan_table'[sd].valid =>
            /\ am_scan_table[sd].valid
            /\ am_scan_table'[sd].fileDesc = am_scan_table[sd].fileDesc
            /\ am_scan_table'[sd].pf_fd = am_scan_table[sd].pf_fd

LEMMA KeepsAInv ==
  ASSUME AInv, KeysKept
  PROVE  AInv'
<1>1. OpenFds' = OpenFds /\ OpenFds \subseteq Fd
  BY DEF KeysKept, OpenFds
<1>2. \A sd \in OpenScans' : sd \in Fd /\ sd \in OpenScans
  BY DEF KeysKept, OpenScans
<1>3. Tables'
  BY DEF KeysKept, AInv, Tables
<1>4. OpenNamed'
  BY <1>1 DEF KeysKept, AInv, OpenNamed
<1>5. NamesApart'
  BY <1>1 DEF KeysKept, AInv, NamesApart
<1>6. \A fd \in OpenFds' : Usable(fd)'
  BY <1>1 DEF KeysKept, AInv, EntryOwnsFile, Usable
<1>7. \A sd \in OpenScans' : Readable(sd)'
  <2> SUFFICES ASSUME NEW sd \in OpenScans' PROVE Readable(sd)'
    OBVIOUS
  <2>1. Readable(sd) /\ sd \in Fd
    BY <1>2 DEF AInv, EntryOwnsFile
  <2>2. /\ am_scan_table'[sd].fileDesc = am_scan_table[sd].fileDesc
        /\ am_scan_table'[sd].pf_fd = am_scan_table[sd].pf_fd
    BY <2>1 DEF KeysKept, OpenScans
  <2>3. am_scan_table[sd].fileDesc \in OpenFds
    BY <2>1 DEF Readable, Usable
  <2> QED BY <1>1, <1>6, <2>1, <2>2, <2>3 DEF KeysKept, Readable
<1> QED BY <1>3, <1>4, <1>5, <1>6, <1>7 DEF AInv, EntryOwnsFile

\* A step after which the tables are as before.
LEMMA StillStep ==
  ASSUME AInv, UNCHANGED tables
  PROVE  AInv'
<1>1. KeysKept
  BY DEF AInv, Tables, KeysKept, tables
<1> QED BY <1>1, KeepsAInv

LEMMA ScanMoves ==
  ASSUME AInv, NEW sd, NEW r, Moves(sd, r),
         DOMAIN r = DOMAIN am_scan_table[sd], r.valid = am_scan_table[sd].valid,
         r.fileDesc = am_scan_table[sd].fileDesc, r.pf_fd = am_scan_table[sd].pf_fd,
         UNCHANGED <<pf_table, am_index_table>>
  PROVE  AInv'
<1>1. KeysKept
  BY DEF Moves, AInv, Tables, KeysKept
<1> QED BY <1>1, KeepsAInv

\* An activation of AM_FindNextEntry moves the scan and leaves the rest of it.
LEMMA FindStep ==
  ASSUME AInv, NEW sd \in Fd, Activation(sd)
  PROVE  AInv'
<1> DEFINE scan == am_scan_table[sd]
<1>1. DOMAIN scan =
        {"valid", "fileDesc", "pf_fd", "op", "value", "org", "pos", "direction"}
  BY DEF AInv, Tables
<1>2. UNCHANGED <<pf_table, am_index_table>>
  BY DEF Activation
<1>3. CASE FindFirst(sd)
  <2> DEFINE p == AM_GetFirstEntry(ScanTree(sd), scan.op, scan.value)
             r == [scan EXCEPT !.org = p, !.pos = p, !.direction = LEFT]
  <2>1. Moves(sd, r)
    BY <1>3 DEF FindFirst
  <2>2. /\ DOMAIN r = DOMAIN scan /\ r.valid = scan.valid
        /\ r.fileDesc = scan.fileDesc /\ r.pf_fd = scan.pf_fd
    <3> HIDE DEF p, scan
    <3> QED BY <1>1
  <2> QED BY <1>2, <2>1, <2>2, ScanMoves
<1>4. CASE FindLeft(sd)
  <2> DEFINE p == Neighbour(ScanTree(sd), LEFT, scan.pos)
             r1 == [scan EXCEPT !.pos = p]
             r2 == [scan EXCEPT !.pos = scan.org, !.direction = RIGHT]
  <2>1. Moves(sd, r1) \/ Moves(sd, r2)
    BY <1>4 DEF FindLeft
  <2>2. /\ DOMAIN r1 = DOMAIN scan /\ r1.valid = scan.valid
        /\ r1.fileDesc = scan.fileDesc /\ r1.pf_fd = scan.pf_fd
        /\ DOMAIN r2 = DOMAIN scan /\ r2.valid = scan.valid
        /\ r2.fileDesc = scan.fileDesc /\ r2.pf_fd = scan.pf_fd
    <3> HIDE DEF p, scan
    <3> QED BY <1>1
  <2> HIDE DEF r1, r2
  <2> QED BY <1>2, <2>1, <2>2, ScanMoves
<1>5. CASE FindRight(sd)
  <2> DEFINE p == Neighbour(ScanTree(sd), RIGHT, scan.pos)
             r == [scan EXCEPT !.pos = p]
  <2>1. Moves(sd, r)
    BY <1>5 DEF FindRight
  <2>2. /\ DOMAIN r = DOMAIN scan /\ r.valid = scan.valid
        /\ r.fileDesc = scan.fileDesc /\ r.pf_fd = scan.pf_fd
    <3> HIDE DEF p, scan
    <3> QED BY <1>1
  <2> QED BY <1>2, <2>1, <2>2, ScanMoves
<1> QED BY <1>3, <1>4, <1>5 DEF Activation

\* The new entry gets a PF descriptor that no open entry has, and a name that
\* none has; it was not in use, so no scan refers to it.
LEMMA OpenStep ==
  ASSUME AInv, NEW n \in Name, AM_OpenIndex(n)
  PROVE  AInv'
<1> DEFINE d == Min(FreePf)
           g == Max(Fd \ OpenFds)
           new == [valid |-> TRUE, scan_active |-> FALSE, fileName |-> n, pf_fd |-> d]
<1>1. d \in Fd /\ pf_table[d] = NoName
  <2>1. FreePf \in SUBSET Fd /\ FreePf # {}
    BY DEF FreePf, AM_OpenIndex, PF_OpenFile
  <2> QED BY <2>1, LeastFree DEF FreePf
<1>2. g \in Fd /\ g \notin OpenFds
  <2>1. Fd \ OpenFds \in SUBSET Fd /\ Fd \ OpenFds # {}
    BY DEF OpenFds, AM_OpenIndex
  <2> QED BY <2>1, GreatestFree
<1>3. /\ pf_table' = [pf_table EXCEPT ![d] = n]
      /\ am_index_table' = [am_index_table EXCEPT ![g] = new]
      /\ am_scan_table' = am_scan_table
      /\ \A fd \in OpenFds : am_index_table[fd].fileName # n
  BY DEF AM_OpenIndex, PF_OpenFile, AM_SearchTable
<1> HIDE DEF d, g
<1>4. /\ DOMAIN new = {"valid", "scan_active", "fileName", "pf_fd"}
      /\ new.valid = TRUE /\ new.fileName = n /\ new.pf_fd = d
  OBVIOUS
<1> HIDE DEF new
<1>5. /\ am_index_table'[g] = new
      /\ \A fd \in Fd : fd # g => am_index_table'[fd] = am_index_table[fd]
      /\ pf_table'[d] = n
      /\ \A i \in Fd : i # d => pf_table'[i] = pf_table[i]
  BY <1>1, <1>2, <1>3 DEF AInv, Tables
<1>6. Tables'
  BY <1>1, <1>2, <1>3, <1>4, <1>5 DEF AInv, Tables
<1>7. OpenFds' = OpenFds \cup {g} /\ OpenScans' = OpenScans
  BY <1>2, <1>3, <1>4, <1>5 DEF OpenFds, OpenScans
<1>8. \A fd \in OpenFds : /\ am_index_table'[fd] = am_index_table[fd]
                          /\ am_index_table[fd].pf_fd # d
  BY <1>1, <1>2, <1>5, AMAssumption
     DEF AInv, EntryOwnsFile, OpenNamed, Usable, OpenFds
<1>9. OpenNamed'
  BY <1>1, <1>4, <1>5, <1>7, <1>8 DEF AInv, OpenNamed
<1>10. NamesApart'
  BY <1>3, <1>4, <1>5, <1>7, <1>8 DEF AInv, NamesApart
<1>11. \A fd \in OpenFds' : Usable(fd)'
  BY <1>4, <1>5, <1>7, <1>8 DEF AInv, OpenNamed, EntryOwnsFile, Usable
<1>12. \A sd \in OpenScans' : Readable(sd)'
  BY <1>3, <1>7, <1>8, <1>11 DEF AInv, EntryOwnsFile, Readable, Usable
<1> QED BY <1>6, <1>9, <1>10, <1>11, <1>12 DEF AInv, EntryOwnsFile

\* The PF file that is closed is that of the entry that is freed, and no scan
\* of it is open.
LEMMA CloseStep ==
  ASSUME AInv, NEW fd \in Fd, AM_CloseIndex(fd), ScansOf(fd) = {}
  PROVE  AInv'
<1> DEFINE d == am_index_table[fd].pf_fd
<1>1. /\ fd \in OpenFds
      /\ pf_table' = [pf_table EXCEPT ![d] = NoName]
      /\ am_index_table' = [am_index_table EXCEPT ![fd].valid = FALSE]
      /\ am_scan_table' = am_scan_table
  BY DEF AM_CloseIndex, PF_CloseFile
<1>2. /\ am_index_table'[fd].valid = FALSE
      /\ \A g \in Fd : g # fd => am_index_table'[g] = am_index_table[g]
      /\ \A i \in Fd : i # d => pf_table'[i] = pf_table[i]
  BY <1>1 DEF AInv, Tables
<1>3. Tables'
  BY <1>1 DEF AInv, Tables
<1>4. OpenFds' = OpenFds \ {fd} /\ OpenScans' = OpenScans
  BY <1>1, <1>2 DEF OpenFds, OpenScans
<1>5. \A g \in OpenFds' : /\ g \in OpenFds /\ am_index_table'[g] = am_index_table[g]
                          /\ am_index_table[g].pf_fd # d
  BY <1>1, <1>2, <1>4 DEF AInv, EntryOwnsFile, NamesApart, Usable, OpenFds
<1> HIDE DEF d
<1>6. OpenNamed' /\ NamesApart'
  BY <1>5 DEF AInv, OpenNamed, NamesApart
<1>7. \A g \in OpenFds' : Usable(g)'
  BY <1>2, <1>5 DEF AInv, OpenNamed, EntryOwnsFile, Usable
<1>8. \A sd \in OpenScans : am_scan_table[sd].fileDesc \in OpenFds'
  BY <1>4 DEF AInv, EntryOwnsFile, Readable, Usable, ScansOf
<1>9. \A sd \in OpenScans' : Readable(sd)'
  BY <1>1, <1>4, <1>5, <1>7, <1>8 DEF AInv, EntryOwnsFile, Readable
<1> QED BY <1>3, <1>6, <1>7, <1>9 DEF AInv, EntryOwnsFile

\* A scan remembers the PF descriptor of the index it is opened on.
LEMMA OpenScanStep ==
  ASSUME AInv, NEW fd \in Fd, NEW op, NEW v, AM_OpenIndexScan(fd, op, v)
  PROVE  AInv'
<1> DEFINE s == Max(FreeScans)
           new == [valid |-> TRUE, fileDesc |-> fd, pf_fd |-> am_index_table[fd].pf_fd,
                   op |-> op, value |-> Copied(am_scan_table[s].value, v),
                   org |-> Nowhere, pos |-> Nowhere, direction |-> NOTDEFINED]
<1>1. s \in Fd
  <2>1. FreeScans \in SUBSET Fd /\ FreeScans # {}
    BY DEF FreeScans, AM_OpenIndexScan
  <2> QED BY <2>1, GreatestFree
<1>2. /\ fd \in OpenFds /\ pf_table' = pf_table
      /\ am_scan_table' = [am_scan_table EXCEPT ![s] = new]
      /\ am_index_table' = [am_index_table EXCEPT ![fd].scan_active = TRUE]
  BY DEF AM_OpenIndexScan
<1> HIDE DEF s
<1>3. /\ DOMAIN new = {"valid", "fileDesc", "pf_fd", "op", "value", "org", "pos",
                       "direction"}
      /\ new.fileDesc = fd /\ new.pf_fd = am_index_table[fd].pf_fd
  OBVIOUS
<1> HIDE DEF new
<1>4. /\ am_scan_table'[s] = new
      /\ \A sd \in Fd : sd # s => am_scan_table'[sd] = am_scan_table[sd]
  BY <1>1, <1>2 DEF AInv, Tables
<1>5. /\ DOMAIN am_index_table' = Fd
      /\ \A g \in Fd : /\ DOMAIN am_index_table'[g] = DOMAIN am_index_table[g]
                       /\ am_index_table'[g].valid = am_index_table[g].valid
                       /\ am_index_table'[g].fileName = am_index_table[g].fileName
                       /\ am_index_table'[g].pf_fd = am_index_table[g].pf_fd
  BY <1>2 DEF AInv, Tables
<1>6. Tables'
  BY <1>1, <1>2, <1>3, <1>4, <1>5 DEF AInv, Tables
<1>7. OpenFds' = OpenFds /\ OpenFds \subseteq Fd
  BY <1>5 DEF OpenFds
<1>8. OpenNamed' /\ NamesApart'
  BY <1>5, <1>7 DEF AInv, OpenNamed, NamesApart
<1>9. \A g \in OpenFds' : Usable(g)'
  BY <1>2, <1>5, <1>7 DEF AInv, EntryOwnsFile, Usable
<1>10. ASSUME NEW sd \in OpenScans' PROVE Readable(sd)'
  <2>1. CASE sd = s
    BY <1>2, <1>3, <1>4, <1>5, <1>7, <1>9, <2>1 DEF Readable
  <2>2. CASE sd # s
    <3>1. sd \in OpenScans /\ am_scan_table'[sd] = am_scan_table[sd]
      BY <1>4, <2>2 DEF OpenScans
    <3>2. am_scan_table[sd].fileDesc \in OpenFds
      BY <3>1 DEF AInv, EntryOwnsFile, Readable, Usable
    <3> QED BY <1>5, <1>7, <1>9, <3>1, <3>2 DEF AInv, EntryOwnsFile, Readable
  <2> QED BY <2>1, <2>2
<1> QED BY <1>6, <1>8, <1>9, <1>10 DEF AInv, EntryOwnsFile

LEMMA CloseScanStep ==
  ASSUME AInv, NEW sd \in Fd, AM_CloseIndexScan(sd)
  PROVE  AInv'
<1>1. KeysKept
  BY DEF AM_CloseIndexScan, AInv, Tables, KeysKept
<1> QED BY <1>1, KeepsAInv

-----------------------------------------------------------------------------
LEMMA InitAInv == AInit => AInv
<1> SUFFICES ASSUME AInit PROVE AInv
  OBVIOUS
<1>1. /\ pf_table = [d \in Fd |-> NoName]
      /\ am_index_table = [fd \in Fd |-> NewEntry]
      /\ am_scan_table = [sd \in Fd |-> NewScan]
  BY DEF AInit, Init
<1>2. /\ DOMAIN NewEntry = {"valid", "scan_active", "fileName", "pf_fd"}
      /\ NewEntry.valid = FALSE
      /\ DOMAIN NewScan = {"valid", "fileDesc", "pf_fd", "op", "value", "org", "pos",
                           "direction"}
      /\ NewScan.valid = FALSE
  BY DEF NewEntry, NewScan
<1>3. OpenFds = {} /\ OpenScans = {}
  BY <1>1, <1>2 DEF OpenFds, OpenScans
<1> QED BY <1>1, <1>2, <1>3 DEF AInv, Tables, OpenNamed, NamesApart, EntryOwnsFile

\* The turns of a running call.
LEMMA RunningStep ==
  ASSUME AInv, ARunning
  PROVE  AInv'
<1>1. CASE AClimb
  BY <1>1, StillStep DEF AClimb, ClimbNewRoot, ClimbPlace, ClimbSplit
<1>2. CASE ADeleteNext
  <2>1. UNCHANGED tables
    BY <1>2, Zenon DEF ADeleteNext, DeleteNext, Marks, NotFound
  <2> QED BY <2>1, StillStep
<1>3. ASSUME NEW sd \in Fd, AFindAgain(sd)
      PROVE  AInv'
  BY <1>3, FindStep DEF AFindAgain, FindAgain
<1> QED BY <1>1, <1>2, <1>3 DEF ARunning

LEMMA FileStep ==
  ASSUME AInv, NEW n \in Name, AFile(n)
  PROVE  AInv'
<1>1. CASE AM_OpenIndex(n)
  BY <1>1, OpenStep
<1>2. CASE AM_CreateIndex(n) \/ CreateRefused(n) \/ DestroyRefused(n)
             \/ OpenRefused(n) \/ AM_DestroyIndex(n)
  BY <1>2, StillStep DEF AM_CreateIndex, CreateRefused, DestroyRefused, OpenRefused,
     AM_DestroyIndex, Refuses
<1> QED BY <1>1, <1>2 DEF AFile

LEMMA EntryStep ==
  ASSUME AInv, NEW fd \in Fd, AInsert(fd) \/ InvalidFd(fd)
  PROVE  AInv'
<1>1. CASE InvalidFd(fd)
  BY <1>1, StillStep DEF InvalidFd, Refuses
<1>2. CASE AInsert(fd)
  <2>1. UNCHANGED tables
    BY <1>2, Zenon DEF AInsert, AM_InsertEntry, InsertSplit
  <2> QED BY <2>1, StillStep
<1> QED BY <1>1, <1>2

LEMMA DeleteStep ==
  ASSUME AInv, ADeletes
  PROVE  AInv'
<1>1. UNCHANGED tables
  BY Zenon DEF ADeletes, ADelete, AM_DeleteEntry, Marks, NotFound
<1> QED BY <1>1, StillStep

LEMMA NextAInv ==
  ASSUME AInv, bound \in Bounds, [ANext]_avars
  PROVE  AInv'
<1>1. CASE ARunning
  BY <1>1, RunningStep
<1>2. CASE ADeletes
  BY <1>2, DeleteStep
<1>3. ASSUME NEW n \in bound.names, AFile(n)
      PROVE  AInv'
  <2>1. n \in Name
    BY BoundsAssumption
  <2> QED BY <1>3, <2>1, FileStep
<1>4. ASSUME NEW fd \in Fd, AClose(fd)
      PROVE  AInv'
  <2>1. CASE AM_CloseIndex(fd)
    BY <1>4, <2>1, CloseStep DEF AClose
  <2>2. CASE CloseRefused(fd)
    BY <2>2, StillStep DEF CloseRefused, Refuses
  <2> QED BY <1>4, <2>1, <2>2 DEF AClose
<1>5. ASSUME NEW fd \in Fd, AInsert(fd) \/ InvalidFd(fd)
      PROVE  AInv'
  BY <1>5, EntryStep
<1>6. ASSUME NEW fd \in Fd, NEW op, NEW v, AOpenScan(fd, op, v)
      PROVE  AInv'
  BY <1>6, OpenScanStep DEF AOpenScan
<1>7. ASSUME NEW sd \in Fd, AFind(sd) \/ ACloseScan(sd) \/ FindInvalid(sd)
      PROVE  AInv'
  <2>1. CASE AFind(sd)
    BY <2>1, FindStep DEF AFind, AM_FindNextEntry
  <2>2. CASE ACloseScan(sd)
    BY <2>2, CloseScanStep DEF ACloseScan
  <2>3. CASE FindInvalid(sd)
    BY <2>3, StillStep DEF FindInvalid, Refuses
  <2> QED BY <1>7, <2>1, <2>2, <2>3
<1>8. CASE UNCHANGED avars
  BY <1>8, StillStep DEF avars, tables
<1> QED BY <1>1, <1>2, <1>3, <1>4, <1>5, <1>6, <1>7, <1>8 DEF ANext, ACall

(* An open entry of the index table leads to the file of its index, and an  *)
(* open scan to that of the index it was opened on (am.c:857-930, 969-1013).*)
THEOREM OwnsFile == ASpec => []EntryOwnsFile
<1> DEFINE Inv == AInv /\ bound \in Bounds
<1>1. AInit => Inv
  BY InitAInv DEF AInit
<1>2. Inv /\ [ANext]_avars => Inv'
  <2>1. [ANext]_avars => bound' = bound
    BY DEF ANext, ARunning, avars
  <2> QED BY <2>1, NextAInv
<1>3. Inv => EntryOwnsFile
  BY DEF AInv
<1> QED BY <1>1, <1>2, <1>3, PTL DEF ASpec

-----------------------------------------------------------------------------
(* The trees.  Each index file that is one holds a tree; in the one that a   *)
(* split climbs in, one node waits for its place.  What a call or a scan    *)
(* remembers of a tree is still there.                                      *)

Climbs(n) == call.at = "climb" /\ am_index_table[call.fd].fileName = n

TreesGood ==
  \A n \in Name : index[n] \notin {Missing, Headless} =>
    /\ Climbs(n) => Good(index[n], call.old, call.after, call.key)
    /\ ~Climbs(n) => Whole(index[n])

OpenHave == \A fd \in OpenFds : Tree(fd) \notin {Missing, Headless}

TablesTyped ==
  /\ am_index_table \in [Fd -> [valid : BOOLEAN, scan_active : BOOLEAN,
                                fileName : Name \cup {NoName}, pf_fd : Fd]]
  /\ am_scan_table = [sd \in Fd |-> am_scan_table[sd]]
ScanTyped(scan) ==
  scan \in [valid : BOOLEAN, fileDesc : Fd, pf_fd : Fd, op : 0..NE_OP, value : Int,
            org : PosType, pos : PosType, direction : {LEFT, NOTDEFINED, RIGHT}]

PosIn(t, pos) == pos.leaf = NoNode \/ InTree(t, pos)

ScanIn(t, scan) ==
  scan.direction # NOTDEFINED => PosIn(t, scan.pos) /\ PosIn(t, scan.org)

ScansIn == \A sd \in OpenScans : ScanIn(ScanTree(sd), am_scan_table[sd])

ClimbOK ==
  /\ DOMAIN call = {"at", "fd", "offset", "key", "old", "after"}
  /\ call.fd \in OpenFds /\ ScansOf(call.fd) = {}
  /\ call.key \in Value /\ call.after # NoNode
  /\ call.offset = Tree(call.fd).page[call.old].parent

DeleteOK ==
  /\ DOMAIN call = {"at", "fd", "value", "id", "pos", "direction"}
  /\ call.fd \in OpenFds /\ call.pos \in PosType /\ PosIn(Tree(call.fd), call.pos)
  /\ call.direction \in {LEFT, RIGHT}

CallOK ==
  /\ call.at \in {"idle", "climb", "delete", "find"}
  /\ call.at = "climb" => ClimbOK
  /\ call.at = "delete" => DeleteOK
  /\ call.at = "find" => call.sd \in OpenScans

TInv ==
  /\ AInv /\ DOMAIN index = Name /\ TreesGood /\ OpenHave
  /\ TablesTyped /\ (\A sd \in Fd : ScanTyped(am_scan_table[sd])) /\ ScansIn /\ CallOK
  /\ bound \in Bounds /\ todo \in Seq(Value)

LEMMA OpenTree ==
  ASSUME TInv, NEW fd \in OpenFds
  PROVE  /\ am_index_table[fd].fileName \in Name /\ fd \in Fd
         /\ Tree(fd) = index[am_index_table[fd].fileName]
         /\ call.at # "climb" => Whole(Tree(fd))
         /\ call.at = "climb" /\ fd = call.fd => Good(Tree(fd), call.old, call.after, call.key)
<1>1. am_index_table[fd].fileName \in Name /\ fd \in Fd
  BY DEF TInv, AInv, OpenNamed, OpenFds
<1>2. index[am_index_table[fd].fileName] \notin {Missing, Headless}
  BY DEF TInv, OpenHave, Tree
<1> QED BY <1>1, <1>2 DEF TInv, TreesGood, Climbs, Tree

LEMMA GoodThere ==
  ASSUME NEW t, NEW old, NEW after, NEW key, Good(t, old, after, key)
  PROVE  t \notin {Missing, Headless}
BY GoodNodes, AMAssumption

-----------------------------------------------------------------------------
(* What a write to an open index leaves. *)

LEMMA WriteIs ==
  ASSUME TInv, UNCHANGED tables, NEW fd \in OpenFds, NEW u, Writes(fd, u),
         u \notin {Missing, Headless}
  PROVE  /\ DOMAIN index' = Name /\ OpenHave' /\ Tree(fd)' = u /\ OpenFds' = OpenFds
         /\ index'[am_index_table[fd].fileName] = u
         /\ \A n \in Name : n # am_index_table[fd].fileName => index'[n] = index[n]
         /\ \A f \in OpenFds : f # fd => Tree(f)' = Tree(f)
<1> DEFINE m == am_index_table[fd].fileName
<1>1. m \in Name /\ DOMAIN index = Name /\ index' = [index EXCEPT ![m] = u]
  BY OpenTree DEF TInv, Writes
<1>2. am_index_table' = am_index_table
  BY DEF tables
<1>3. OpenFds' = OpenFds
  BY <1>2 DEF OpenFds
<1>4. DOMAIN index' = Name /\ index'[m] = u /\ \A n \in Name : n # m => index'[n] = index[n]
  BY <1>1
<1>5. \A f \in OpenFds : f # fd => am_index_table[f].fileName # m /\ am_index_table[f].fileName \in Name
  BY DEF TInv, AInv, NamesApart, OpenNamed
<1>6. Tree(fd)' = u /\ \A f \in OpenFds : f # fd => Tree(f)' = Tree(f)
  BY <1>2, <1>4, <1>5 DEF Tree
<1>7. OpenHave'
  BY <1>3, <1>6 DEF TInv, OpenHave
<1> QED BY <1>3, <1>4, <1>6, <1>7

\* The scans of the index must still stand where the tree has entries.
LEMMA WriteStep ==
  ASSUME TInv, UNCHANGED <<tables, bound>>, todo' \in Seq(Value),
         NEW fd \in OpenFds, NEW u, Writes(fd, u), u \notin {Missing, Headless},
         \A sd \in ScansOf(fd) : \A p : PosIn(Tree(fd), p) => PosIn(u, p),
         call.at = "climb" => fd = call.fd,
         call'.at = "climb" => call'.fd = fd /\ Good(u, call'.old, call'.after, call'.key),
         call'.at # "climb" => Whole(u),
         CallOK'
  PROVE  TInv'
<1>1. AInv'
  BY StillStep DEF TInv
<1>2. /\ am_index_table' = am_index_table /\ am_scan_table' = am_scan_table
      /\ OpenScans' = OpenScans
  BY DEF tables, OpenScans
<1>3. /\ DOMAIN index' = Name /\ OpenHave' /\ Tree(fd)' = u /\ OpenFds' = OpenFds
      /\ index'[am_index_table[fd].fileName] = u
      /\ \A n \in Name : n # am_index_table[fd].fileName => index'[n] = index[n]
      /\ \A f \in OpenFds : f # fd => Tree(f)' = Tree(f)
  BY WriteIs
<1>4. TreesGood'
  <2>1. ASSUME NEW n \in Name, index'[n] \notin {Missing, Headless}
        PROVE  /\ Climbs(n)' => Good(index'[n], call'.old, call'.after, call'.key)
               /\ ~Climbs(n)' => Whole(index'[n])
    <3>1. CASE n = am_index_table[fd].fileName
      BY <1>2, <1>3, <3>1 DEF Climbs
    <3>2. CASE n # am_index_table[fd].fileName
      <4>1. index'[n] = index[n] /\ ~Climbs(n) /\ ~Climbs(n)'
        BY <1>2, <1>3, <3>2 DEF Climbs
      <4>2. Whole(index[n])
        BY <2>1, <4>1 DEF TInv, TreesGood
      <4> QED BY <4>1, <4>2
    <3> QED BY <3>1, <3>2
  <2> QED BY <2>1 DEF TreesGood
<1>5. ScansIn'
  <2>1. ASSUME NEW sd \in OpenScans
        PROVE  ScanIn(ScanTree(sd)', am_scan_table[sd])
    <3>1. ScanIn(ScanTree(sd), am_scan_table[sd])
      BY DEF TInv, ScansIn
    <3>2. am_scan_table[sd].fileDesc \in OpenFds
      BY DEF TInv, AInv, EntryOwnsFile, Readable, Usable
    <3>3. CASE am_scan_table[sd].fileDesc = fd
      <4>1. sd \in ScansOf(fd)
        BY <3>3 DEF ScansOf
      <4>2. ScanTree(sd) = Tree(fd) /\ ScanTree(sd)' = u
        BY <1>2, <1>3, <3>3 DEF ScanTree
      <4> QED BY <3>1, <4>1, <4>2 DEF ScanIn
    <3>4. CASE am_scan_table[sd].fileDesc # fd
      BY <1>2, <1>3, <3>1, <3>2, <3>4 DEF ScanTree
    <3> QED BY <3>3, <3>4
  <2> QED BY <1>2, <2>1 DEF ScansIn
<1>6. TablesTyped' /\ (\A sd \in Fd : ScanTyped(am_scan_table'[sd]))
  BY <1>2 DEF TInv, TablesTyped
<1> QED BY <1>1, <1>3, <1>4, <1>5, <1>6 DEF TInv

-----------------------------------------------------------------------------
(* Steps that leave the trees. *)

LEMMA TreesStay ==
  ASSUME TInv, index' = index, call.at # "climb", call'.at # "climb"
  PROVE  TreesGood'
BY DEF TInv, TreesGood, Climbs

LEMMA QuietStep ==
  ASSUME TInv, UNCHANGED <<index, tables, bound>>, todo' \in Seq(Value),
         call.at # "climb", call'.at # "climb", CallOK'
  PROVE  TInv'
<1>1. TreesGood' /\ AInv'
  BY TreesStay, StillStep DEF TInv
<1>2. /\ am_index_table' = am_index_table /\ am_scan_table' = am_scan_table
      /\ OpenScans' = OpenScans /\ OpenFds' = OpenFds
  BY DEF tables, OpenScans, OpenFds
<1>3. OpenHave'
  BY <1>2 DEF TInv, OpenHave, Tree
<1>4. ScansIn'
  BY <1>2 DEF TInv, ScansIn, ScanTree, Tree
<1>5. TablesTyped' /\ (\A sd \in Fd : ScanTyped(am_scan_table'[sd]))
  BY <1>2 DEF TInv, TablesTyped
<1> QED BY <1>1, <1>3, <1>4, <1>5 DEF TInv

LEMMA StutterStep ==
  ASSUME TInv, UNCHANGED <<index, tables, call, bound, todo>>
  PROVE  TInv'
<1>1. /\ pf_table' = pf_table /\ am_index_table' = am_index_table /\ am_scan_table' = am_scan_table
      /\ OpenScans' = OpenScans /\ OpenFds' = OpenFds
  BY DEF tables, OpenScans, OpenFds
<1>2. AInv'
  BY StillStep DEF TInv
<1>3. OpenHave' /\ ScansIn' /\ TreesGood'
  BY <1>1 DEF TInv, OpenHave, ScansIn, ScanTree, Tree, TreesGood, Climbs
<1>4. CallOK'
  BY <1>1 DEF TInv, CallOK, ClimbOK, DeleteOK, ScansOf, Tree
<1>5. TablesTyped' /\ (\A sd \in Fd : ScanTyped(am_scan_table'[sd]))
  BY <1>1 DEF TInv, TablesTyped
<1> QED BY <1>2, <1>3, <1>4, <1>5 DEF TInv

LEMMA IdleCall ==
  ASSUME call = None
  PROVE  call.at = "idle" /\ call.at # "climb" /\ call.at # "delete" /\ CallOK
BY DEF None, CallOK

\* An index that is not open gets another content.
LEMMA SetStep ==
  ASSUME TInv, Idle, UNCHANGED <<tables, call, bound, todo>>, NEW n \in Name, NEW u,
         index' = [index EXCEPT ![n] = u], u = Missing \/ Whole(u),
         \A fd \in OpenFds : am_index_table[fd].fileName # n
  PROVE  TInv'
<1>1. /\ pf_table' = pf_table /\ am_index_table' = am_index_table /\ am_scan_table' = am_scan_table
      /\ OpenScans' = OpenScans /\ OpenFds' = OpenFds
  BY DEF tables, OpenScans, OpenFds
<1>2. call = None /\ call' = None /\ call.at # "climb" /\ call'.at # "climb"
  BY IdleCall DEF Idle
<1>3. CallOK'
  BY <1>2, IdleCall DEF None, CallOK
<1>4. DOMAIN index' = Name /\ index'[n] = u /\ \A m \in Name : m # n => index'[m] = index[m]
  BY DEF TInv
<1>5. TreesGood'
  BY <1>2, <1>4 DEF TInv, TreesGood, Climbs
<1>6. \A fd \in OpenFds : Tree(fd)' = Tree(fd)
  BY <1>1, <1>4 DEF TInv, AInv, OpenNamed, Tree
<1>7. OpenHave'
  BY <1>1, <1>6 DEF TInv, OpenHave
<1>8. \A sd \in OpenScans : am_scan_table[sd].fileDesc \in OpenFds
  BY DEF TInv, AInv, EntryOwnsFile, Readable, Usable
<1>9. ScansIn'
  BY <1>1, <1>6, <1>8 DEF TInv, ScansIn, ScanTree
<1>10. AInv'
  BY StillStep DEF TInv
<1>11. TablesTyped' /\ (\A sd \in Fd : ScanTyped(am_scan_table'[sd]))
  BY <1>1 DEF TInv, TablesTyped
<1> QED BY <1>3, <1>4, <1>5, <1>7, <1>9, <1>10, <1>11 DEF TInv

\* Only the tables change: what is open was open before, under the same name,
\* or is a tree.
LEMMA TableStep ==
  ASSUME TInv, AInv', index' = index, UNCHANGED <<bound, todo>>,
         call.at # "climb", call'.at # "climb", CallOK', TablesTyped', ScansIn',
         \A sd \in Fd : ScanTyped(am_scan_table'[sd]),
         \A fd \in OpenFds' :
           \/ index[am_index_table'[fd].fileName] \notin {Missing, Headless}
           \/ fd \in OpenFds /\ am_index_table'[fd].fileName = am_index_table[fd].fileName
  PROVE  TInv'
<1>1. OpenHave'
  BY DEF TInv, OpenHave, Tree
<1> QED BY <1>1, TreesStay DEF TInv

LEMMA OpenIndexStep ==
  ASSUME TInv, NEW n \in Name, AM_OpenIndex(n), UNCHANGED <<bound, todo>>
  PROVE  TInv'
<1> DEFINE d == Min(FreePf)
           g == Max(Fd \ OpenFds)
           new == [valid |-> TRUE, scan_active |-> FALSE, fileName |-> n, pf_fd |-> d]
<1>1. d \in Fd
  <2>1. FreePf \in SUBSET Fd /\ FreePf # {}
    BY DEF FreePf, AM_OpenIndex, PF_OpenFile
  <2> QED BY <2>1, LeastFree
<1>2. g \in Fd
  <2>1. Fd \ OpenFds \in SUBSET Fd /\ Fd \ OpenFds # {}
    BY DEF OpenFds, AM_OpenIndex
  <2> QED BY <2>1, GreatestFree
<1>3. /\ index[n] \notin {Missing, Headless} /\ Idle /\ index' = index /\ call' = call
      /\ am_index_table' = [am_index_table EXCEPT ![g] = new]
      /\ am_scan_table' = am_scan_table
  BY DEF AM_OpenIndex, PF_OpenFile
<1> HIDE DEF d, g
<1>4. new \in [valid : BOOLEAN, scan_active : BOOLEAN, fileName : Name \cup {NoName}, pf_fd : Fd]
  BY <1>1
<1>5. new.fileName = n
  OBVIOUS
<1> HIDE DEF new
<1>6. /\ am_index_table'[g] = new
      /\ \A f \in Fd : f # g => am_index_table'[f] = am_index_table[f]
  BY <1>2, <1>3 DEF TInv, TablesTyped
<1>7. TablesTyped'
  BY <1>2, <1>3, <1>4 DEF TInv, TablesTyped
<1>8. AInv'
  BY OpenStep DEF TInv
<1>9. call.at # "climb" /\ call'.at # "climb" /\ CallOK'
  BY <1>3, IdleCall DEF Idle, None, CallOK
<1>10. OpenFds \subseteq Fd /\ OpenFds' \subseteq OpenFds \cup {g}
  BY <1>3, <1>6 DEF OpenFds
<1>11. ASSUME NEW f \in OpenFds'
       PROVE  \/ index[am_index_table'[f].fileName] \notin {Missing, Headless}
              \/ f \in OpenFds /\ am_index_table'[f].fileName = am_index_table[f].fileName
  BY <1>3, <1>5, <1>6, <1>10
<1>12. ScansIn'
  <2>1. OpenScans' = OpenScans
    BY <1>3 DEF OpenScans
  <2>2. \A sd \in OpenScans : am_scan_table[sd].fileDesc \in OpenFds /\ am_scan_table[sd].fileDesc # g
    <3>1. g \notin OpenFds
      <4>1. Fd \ OpenFds \in SUBSET Fd /\ Fd \ OpenFds # {}
        BY DEF OpenFds, AM_OpenIndex
      <4> QED BY <4>1, GreatestFree DEF g
    <3> QED BY <3>1 DEF TInv, AInv, EntryOwnsFile, Readable, Usable
  <2> QED BY <1>3, <1>6, <1>10, <2>1, <2>2 DEF TInv, ScansIn, ScanTree, Tree
<1> QED BY <1>3, <1>7, <1>8, <1>9, <1>11, <1>12, TableStep DEF TInv

LEMMA CloseIndexStep ==
  ASSUME TInv, NEW fd \in Fd, AM_CloseIndex(fd), ScansOf(fd) = {}, UNCHANGED <<bound, todo>>
  PROVE  TInv'
<1>1. /\ Idle /\ index' = index /\ call' = call /\ am_scan_table' = am_scan_table
      /\ am_index_table' = [am_index_table EXCEPT ![fd].valid = FALSE]
  BY DEF AM_CloseIndex, PF_CloseFile
<1>2. /\ am_index_table'[fd] = [am_index_table[fd] EXCEPT !.valid = FALSE]
      /\ \A f \in Fd : f # fd => am_index_table'[f] = am_index_table[f]
  BY <1>1 DEF TInv, TablesTyped
<1>3. TablesTyped'
  BY <1>1 DEF TInv, TablesTyped
<1>4. AInv'
  BY CloseStep DEF TInv
<1>5. call.at # "climb" /\ call'.at # "climb" /\ CallOK'
  BY <1>1, IdleCall DEF Idle, None, CallOK
<1>6. \A f \in Fd : am_index_table'[f].fileName = am_index_table[f].fileName
                    /\ (am_index_table'[f].valid => am_index_table[f].valid)
  BY <1>1 DEF TInv, TablesTyped
<1>7. \A f \in OpenFds' : f \in OpenFds /\ am_index_table'[f].fileName = am_index_table[f].fileName
  BY <1>6 DEF OpenFds
<1>8. ScansIn'
  <2>1. OpenScans' = OpenScans
    BY <1>1 DEF OpenScans
  <2>2. \A sd \in OpenScans : am_scan_table[sd].fileDesc \in Fd
    BY DEF TInv, AInv, EntryOwnsFile, Readable, Usable, OpenFds
  <2> QED BY <1>1, <1>6, <2>1, <2>2 DEF TInv, ScansIn, ScanTree, Tree
<1> QED BY <1>1, <1>3, <1>4, <1>5, <1>7, <1>8, TableStep DEF TInv

LEMMA CopiedInt ==
  ASSUME NEW old \in Int, NEW v \in Int
  PROVE  Copied(old, v) \in Int
<1>1. BYTE \in Nat \ {0}
  BY AMAssumption
<1>2. old \div BYTE \in Int
  BY <1>1
<1>3. PICK q \in Int : q = old \div BYTE
  BY <1>2
<1>4. v + BYTE * q \in Int
  BY <1>1
<1> QED BY <1>3, <1>4 DEF Copied

LEMMA ValueInt == \A v \in Value : v \in Int
BY AMAssumption, TreeAssumption

LEMMA OpenIndexScanStep ==
  ASSUME TInv, NEW fd \in Fd, NEW op \in Op, NEW v \in Value, AM_OpenIndexScan(fd, op, v),
         UNCHANGED <<bound, todo>>
  PROVE  TInv'
<1> DEFINE s == Max(FreeScans)
           new == [valid |-> TRUE, fileDesc |-> fd, pf_fd |-> am_index_table[fd].pf_fd,
                   op |-> op, value |-> Copied(am_scan_table[s].value, v),
                   org |-> Nowhere, pos |-> Nowhere, direction |-> NOTDEFINED]
<1>1. s \in Fd
  <2>1. FreeScans \in SUBSET Fd /\ FreeScans # {}
    BY DEF FreeScans, AM_OpenIndexScan
  <2> QED BY <2>1, GreatestFree
<1>2. /\ Idle /\ index' = index /\ call' = call
      /\ am_scan_table' = [am_scan_table EXCEPT ![s] = new]
      /\ am_index_table' = [am_index_table EXCEPT ![fd].scan_active = TRUE]
  BY DEF AM_OpenIndexScan
<1> HIDE DEF s
<1>3. new.direction = NOTDEFINED
  OBVIOUS
<1>4. ScanTyped(new)
  <2>1. am_scan_table[s].value \in Int
    BY <1>1 DEF TInv, ScanTyped
  <2>2. Copied(am_scan_table[s].value, v) \in Int
    BY <2>1, CopiedInt, ValueInt
  <2>3. PICK c \in Int : c = Copied(am_scan_table[s].value, v)
    BY <2>2
  <2>4. am_index_table[fd].pf_fd \in Fd
    BY DEF TInv, TablesTyped
  <2>5. Nowhere \in PosType
    BY TreeAssumption DEF Nowhere, PosType, Start
  <2>6. op \in 0..NE_OP
    BY AMAssumption DEF EQ_OP, NE_OP
  <2> QED BY <2>3, <2>4, <2>5, <2>6 DEF ScanTyped
<1> HIDE DEF new
<1>5. /\ DOMAIN am_scan_table = Fd /\ am_scan_table'[s] = new
      /\ \A sd \in Fd : sd # s => am_scan_table'[sd] = am_scan_table[sd]
  BY <1>1, <1>2 DEF TInv, AInv, Tables
<1>6. \A sd \in Fd : ScanTyped(am_scan_table'[sd])
  BY <1>4, <1>5 DEF TInv
<1>7. TablesTyped'
  BY <1>2 DEF TInv, TablesTyped
<1>8. AInv'
  BY OpenScanStep DEF TInv
<1>9. call.at # "climb" /\ call'.at # "climb" /\ CallOK'
  BY <1>2, IdleCall DEF Idle, None, CallOK
<1>10. \A f \in Fd : /\ am_index_table'[f].fileName = am_index_table[f].fileName
                     /\ am_index_table'[f].valid = am_index_table[f].valid
  BY <1>2 DEF TInv, TablesTyped
<1>11. \A f \in OpenFds' : f \in OpenFds /\ am_index_table'[f].fileName = am_index_table[f].fileName
  BY <1>10 DEF OpenFds
<1>12. ScansIn'
  <2>1. ASSUME NEW sd \in OpenScans'
        PROVE  ScanIn(ScanTree(sd)', am_scan_table'[sd])
    <3>1. CASE sd = s
      BY <1>3, <1>5, <3>1 DEF ScanIn
    <3>2. CASE sd # s
      <4>1. sd \in OpenScans /\ am_scan_table'[sd] = am_scan_table[sd]
        BY <1>5, <3>2 DEF OpenScans
      <4>2. am_scan_table[sd].fileDesc \in Fd
        BY <4>1 DEF TInv, AInv, EntryOwnsFile, Readable, Usable, OpenFds
      <4> QED BY <1>2, <1>10, <4>1, <4>2 DEF TInv, ScansIn, ScanTree, Tree
    <3> QED BY <3>1, <3>2
  <2> QED BY <2>1 DEF ScansIn
<1> QED BY <1>2, <1>6, <1>7, <1>8, <1>9, <1>11, <1>12, TableStep DEF TInv

LEMMA CloseIndexScanStep ==
  ASSUME TInv, NEW sd \in OpenScans, AM_CloseIndexScan(sd), UNCHANGED <<bound, todo>>
  PROVE  TInv'
<1> DEFINE fd == am_scan_table[sd].fileDesc
<1>1. sd \in Fd /\ fd \in Fd
  BY DEF TInv, AInv, EntryOwnsFile, Readable, Usable, OpenFds, OpenScans
<1>2. /\ Idle /\ index' = index /\ call' = call
      /\ am_scan_table' = [am_scan_table EXCEPT ![sd].valid = FALSE]
      /\ am_index_table' = [am_index_table EXCEPT ![fd].scan_active = FALSE]
  BY DEF AM_CloseIndexScan
<1>3. /\ DOMAIN am_scan_table = Fd
      /\ am_scan_table'[sd] = [am_scan_table[sd] EXCEPT !.valid = FALSE]
      /\ \A s \in Fd : s # sd => am_scan_table'[s] = am_scan_table[s]
  BY <1>1, <1>2 DEF TInv, AInv, Tables
<1>4. ScanTyped(am_scan_table'[sd]) /\ ~am_scan_table'[sd].valid
  BY <1>1, <1>3 DEF TInv, ScanTyped
<1>5. \A s \in Fd : ScanTyped(am_scan_table'[s])
  BY <1>3, <1>4 DEF TInv
<1> HIDE DEF fd
<1>6. TablesTyped'
  BY <1>1, <1>2 DEF TInv, TablesTyped
<1>7. AInv'
  BY <1>1, CloseScanStep DEF TInv
<1>8. call.at # "climb" /\ call'.at # "climb" /\ CallOK'
  BY <1>2, IdleCall DEF Idle, None, CallOK
<1>9. \A f \in Fd : /\ am_index_table'[f].fileName = am_index_table[f].fileName
                    /\ am_index_table'[f].valid = am_index_table[f].valid
  BY <1>1, <1>2 DEF TInv, TablesTyped
<1>10. \A f \in OpenFds' : f \in OpenFds /\ am_index_table'[f].fileName = am_index_table[f].fileName
  BY <1>9 DEF OpenFds
<1>11. ScansIn'
  <2>1. ASSUME NEW s \in OpenScans'
        PROVE  ScanIn(ScanTree(s)', am_scan_table'[s])
    <3>1. s # sd
      BY <1>4 DEF OpenScans
    <3>2. s \in OpenScans /\ am_scan_table'[s] = am_scan_table[s]
      BY <1>3, <3>1 DEF OpenScans
    <3>3. am_scan_table[s].fileDesc \in Fd
      BY <3>2 DEF TInv, AInv, EntryOwnsFile, Readable, Usable, OpenFds
    <3> QED BY <1>2, <1>9, <3>2, <3>3 DEF TInv, ScansIn, ScanTree, Tree
  <2> QED BY <2>1 DEF ScansIn
<1> QED BY <1>2, <1>5, <1>6, <1>7, <1>8, <1>10, <1>11, TableStep DEF TInv

LEMMA MoveStep ==
  ASSUME TInv, AInv', NEW sd \in OpenScans, NEW r, Moves(sd, r), ScanTyped(r), r.valid,
         r.fileDesc = am_scan_table[sd].fileDesc, ScanIn(ScanTree(sd), r),
         UNCHANGED <<index, pf_table, am_index_table, bound, todo>>,
         call.at # "climb", call' = None \/ call' = [at |-> "find", sd |-> sd]
  PROVE  TInv'
<1>1. sd \in Fd
  BY DEF OpenScans
<1>2. /\ DOMAIN am_scan_table = Fd /\ am_scan_table'[sd] = r
      /\ \A s \in Fd : s # sd => am_scan_table'[s] = am_scan_table[s]
  BY <1>1 DEF TInv, AInv, Tables, Moves
<1>3. \A s \in Fd : ScanTyped(am_scan_table'[s])
  BY <1>2 DEF TInv
<1>4. OpenScans' = OpenScans
  BY <1>1, <1>2 DEF OpenScans
<1>5. OpenFds' = OpenFds
  BY DEF OpenFds
<1>6. \A s \in OpenScans : s \in Fd
  BY DEF OpenScans
<1>7. ASSUME NEW s \in OpenScans
      PROVE  ScanIn(ScanTree(s)', am_scan_table'[s])
  <2>1. CASE s = sd
    <3>1. ScanTree(sd)' = ScanTree(sd)
      BY <1>2 DEF ScanTree, Tree
    <3> QED BY <1>2, <2>1, <3>1
  <2>2. CASE s # sd
    <3>1. am_scan_table'[s] = am_scan_table[s]
      BY <1>2, <1>6, <2>2
    <3>2. ScanTree(s)' = ScanTree(s)
      BY <3>1 DEF ScanTree, Tree
    <3> QED BY <3>1, <3>2 DEF TInv, ScansIn
  <2> QED BY <2>1, <2>2
<1>8. ScansIn'
  BY <1>4, <1>7 DEF ScansIn
<1>9. call'.at # "climb" /\ CallOK'
  BY <1>4 DEF None, CallOK
<1>10. TablesTyped'
  BY DEF TInv, TablesTyped, Moves
<1> QED BY <1>3, <1>5, <1>8, <1>9, <1>10, TableStep DEF TInv

LEMMA HandsOutCall ==
  ASSUME NEW sd, NEW entry, HandsOut(sd, entry)
  PROVE  call' = None \/ call' = [at |-> "find", sd |-> sd]
BY DEF HandsOut, Again

LEMMA ActivationStep ==
  ASSUME TInv, NEW sd \in OpenScans, Activation(sd), UNCHANGED <<bound, todo>>,
         call.at # "climb"
  PROVE  TInv'
<1>1. PICK scan : scan = am_scan_table[sd]
  OBVIOUS
<1>2. PICK t : t = ScanTree(sd)
  OBVIOUS
<1>3. sd \in Fd /\ scan.fileDesc \in OpenFds /\ scan.valid
  BY <1>1 DEF TInv, AInv, EntryOwnsFile, Readable, Usable, OpenScans
<1>4. Whole(t)
  BY <1>1, <1>2, <1>3, OpenTree DEF ScanTree
<1>5. ScanTyped(scan) /\ ScanIn(t, scan)
  BY <1>1, <1>2, <1>3 DEF TInv, ScansIn
<1>6. AInv' /\ UNCHANGED <<index, pf_table, am_index_table>>
  BY <1>3, FindStep DEF TInv, Activation
<1>7. ASSUME NEW d \in {LEFT, RIGHT}, scan.direction # NOTDEFINED
      PROVE  Neighbour(t, d, scan.pos) \in PosType /\ PosIn(t, Neighbour(t, d, scan.pos))
  <2>1. scan.pos \in PosType /\ PosIn(t, scan.pos)
    BY <1>5, <1>7 DEF ScanTyped, ScanIn
  <2> QED BY <1>4, <2>1, GoodNeighbour DEF Whole, PosIn
<1>8. ASSUME NEW p \in PosType, PosIn(t, p), scan.direction # NOTDEFINED,
             NEW r, r = [scan EXCEPT !.pos = p]
      PROVE  /\ ScanTyped(r) /\ ScanIn(t, r) /\ r.valid
             /\ r.fileDesc = am_scan_table[sd].fileDesc
  <2>1. ScanTyped(r) /\ r.pos = p /\ r.org = scan.org /\ r.valid /\ r.fileDesc = scan.fileDesc
    BY <1>3, <1>5, <1>8 DEF ScanTyped
  <2> QED BY <1>1, <1>5, <1>8, <2>1 DEF ScanIn
<1>9. CASE FindFirst(sd)
  <2>1. PICK pos : pos = AM_GetFirstEntry(t, scan.op, scan.value)
    OBVIOUS
  <2>2. pos \in PosType /\ PosIn(t, pos)
    BY <1>4, <2>1, GoodFirst DEF Whole, PosIn
  <2>3. PICK r : r = [scan EXCEPT !.org = pos, !.pos = pos, !.direction = LEFT]
    OBVIOUS
  <2>4. Moves(sd, r) /\ (call' = None \/ call' = [at |-> "find", sd |-> sd])
    BY <1>1, <1>2, <1>9, <2>1, <2>3, HandsOutCall DEF FindFirst, Again
  <2>5. ScanTyped(r) /\ r.pos = pos /\ r.org = pos /\ r.valid /\ r.fileDesc = scan.fileDesc
    BY <1>3, <1>5, <2>2, <2>3 DEF ScanTyped
  <2>6. ScanIn(t, r)
    BY <2>2, <2>5 DEF ScanIn
  <2> QED BY <1>1, <1>2, <1>6, <2>4, <2>5, <2>6, MoveStep
<1>10. CASE FindLeft(sd)
  <2>1. PICK pos : pos = Neighbour(t, LEFT, scan.pos)
    OBVIOUS
  <2>2. scan.direction # NOTDEFINED
    BY <1>1, <1>10 DEF FindLeft, LEFT, NOTDEFINED
  <2>3. pos \in PosType /\ PosIn(t, pos)
    BY <1>7, <2>1, <2>2
  <2>4. CASE Matches(t, pos, scan.op, scan.value)
    <3>1. PICK r : r = [scan EXCEPT !.pos = pos]
      OBVIOUS
    <3>2. Moves(sd, r) /\ (call' = None \/ call' = [at |-> "find", sd |-> sd])
      BY <1>1, <1>2, <1>10, <2>1, <2>4, <3>1, HandsOutCall DEF FindLeft
    <3>3. ScanTyped(r) /\ ScanIn(t, r) /\ r.valid /\ r.fileDesc = am_scan_table[sd].fileDesc
      BY <1>8, <2>2, <2>3, <3>1
    <3> QED BY <1>2, <1>6, <3>2, <3>3, MoveStep
  <2>5. CASE ~Matches(t, pos, scan.op, scan.value)
    <3>1. PICK r : r = [scan EXCEPT !.pos = scan.org, !.direction = RIGHT]
      OBVIOUS
    <3>2. Moves(sd, r) /\ call' = [at |-> "find", sd |-> sd]
      BY <1>1, <1>2, <1>10, <2>1, <2>5, <3>1 DEF FindLeft, Again
    <3>3. ScanTyped(r) /\ r.pos = scan.org /\ r.org = scan.org /\ r.valid
          /\ r.fileDesc = scan.fileDesc
      BY <1>3, <1>5, <3>1 DEF ScanTyped
    <3>4. ScanIn(t, r)
      BY <1>5, <2>2, <3>3 DEF ScanIn
    <3> QED BY <1>1, <1>2, <1>6, <3>2, <3>3, <3>4, MoveStep
  <2> QED BY <2>4, <2>5
<1>11. CASE FindRight(sd)
  <2>1. PICK pos : pos = Neighbour(t, RIGHT, scan.pos)
    OBVIOUS
  <2>2. scan.direction # NOTDEFINED
    BY <1>1, <1>11 DEF FindRight, RIGHT, NOTDEFINED
  <2>3. pos \in PosType /\ PosIn(t, pos)
    BY <1>7, <2>1, <2>2
  <2>4. PICK r : r = [scan EXCEPT !.pos = pos]
    OBVIOUS
  <2>5. Moves(sd, r)
    BY <1>1, <1>2, <1>11, <2>1, <2>4 DEF FindRight
  <2>6. call' = None \/ call' = [at |-> "find", sd |-> sd]
    BY <1>1, <1>2, <1>11, HandsOutCall DEF FindRight
  <2>7. ScanTyped(r) /\ ScanIn(t, r) /\ r.valid /\ r.fileDesc = am_scan_table[sd].fileDesc
    BY <1>8, <2>2, <2>3, <2>4
  <2> QED BY <1>2, <1>6, <2>5, <2>6, <2>7, MoveStep
<1> QED BY <1>9, <1>10, <1>11 DEF Activation

-----------------------------------------------------------------------------
(* Steps that write a tree. *)

LEMMA PlaceStep ==
  ASSUME TInv, NEW fd \in OpenFds, ScansOf(fd) = {}, NEW v \in Value, NEW id \in RecId,
         Copies(Tree(fd), v) < MaxCopies, AM_InsertEntry(fd, v, id), UNCHANGED bound,
         todo' \in Seq(Value)
  PROVE  TInv'
<1>1. PICK t : t = Tree(fd)
  OBVIOUS
<1>2. PICK u : u = PlaceInLeaf(t, AM_SearchLeaf(t, v), NewRec(v, id))
  OBVIOUS
<1>3. /\ Idle /\ UNCHANGED <<tables, call>> /\ Writes(fd, u)
      /\ Len(t.page[AM_SearchLeaf(t, v)].rec) < FANOUT
  BY <1>1, <1>2 DEF AM_InsertEntry
<1>4. call = None /\ call' = None /\ call.at # "climb" /\ call'.at # "climb"
  BY <1>3, IdleCall DEF Idle
<1>5. CallOK'
  BY <1>4 DEF None, CallOK
<1>6. Whole(t)
  BY <1>1, <1>4, OpenTree
<1>7. Whole(u)
  <2>1. Copies(t, v) < MaxCopies
    BY <1>1
  <2> QED BY <1>2, <1>3, <1>6, <2>1, GoodPlace
<1>8. u \notin {Missing, Headless}
  BY <1>7, GoodThere DEF Whole
<1> QED BY <1>3, <1>4, <1>5, <1>7, <1>8, WriteStep

LEMMA SplitStep ==
  ASSUME TInv, NEW fd \in OpenFds, ScansOf(fd) = {}, NEW v \in Value, NEW id \in RecId,
         Copies(Tree(fd), v) < MaxCopies, InsertSplit(fd, v, id), UNCHANGED bound,
         todo' \in Seq(Value)
  PROVE  TInv'
<1>1. PICK t, l : t = Tree(fd) /\ l = AM_SearchLeaf(t, v)
  OBVIOUS
<1>2. PICK s : s = SplitLeaf(t, l, NewRec(v, id))
  OBVIOUS
<1>3. /\ Idle /\ UNCHANGED tables /\ Writes(fd, s.tree) /\ Len(t.page[l].rec) = FANOUT
      /\ call' = [at |-> "climb", fd |-> fd, offset |-> AM_SearchIndex(t, v),
                  key |-> s.key, old |-> l, after |-> Len(t.page) + 1]
  BY <1>1, <1>2 DEF InsertSplit
<1>4. call.at # "climb"
  BY <1>3, IdleCall DEF Idle
<1>5. Whole(t)
  BY <1>1, <1>4, OpenTree
<1>6. /\ Good(s.tree, l, Len(t.page) + 1, s.key) /\ Len(t.page) + 1 # NoNode /\ s.key \in Value
      /\ s.tree.page[l].parent = AM_SearchIndex(t, v)
  <2>1. Copies(t, v) < MaxCopies
    BY <1>1
  <2> QED BY <1>1, <1>2, <1>3, <1>5, <2>1, GoodSplit
<1>7. s.tree \notin {Missing, Headless}
  BY <1>6, GoodThere
<1>8. Tree(fd)' = s.tree /\ OpenFds' = OpenFds
  BY <1>3, <1>7, WriteIs
<1>9. ScansOf(fd)' = {}
  BY <1>3 DEF ScansOf, OpenScans, tables
<1>10. PICK p, a, k : p = AM_SearchIndex(t, v) /\ a = Len(t.page) + 1 /\ k = s.key
  OBVIOUS
<1>11. /\ call'.at = "climb" /\ call'.fd = fd /\ call'.offset = p /\ call'.key = k
       /\ call'.old = l /\ call'.after = a
       /\ DOMAIN call' = {"at", "fd", "offset", "key", "old", "after"}
  BY <1>3, <1>10
<1>12. CallOK'
  BY <1>6, <1>8, <1>9, <1>10, <1>11 DEF CallOK, ClimbOK
<1> QED BY <1>3, <1>4, <1>6, <1>7, <1>10, <1>11, <1>12, WriteStep

LEMMA ClimbTree ==
  ASSUME TInv, call.at = "climb"
  PROVE  /\ Good(Tree(call.fd), call.old, call.after, call.key) /\ call.fd \in OpenFds
         /\ ScansOf(call.fd) = {} /\ call.key \in Value /\ call.after # NoNode
         /\ call.offset = Tree(call.fd).page[call.old].parent
         /\ DOMAIN call = {"at", "fd", "offset", "key", "old", "after"}
<1>1. ClimbOK
  BY DEF TInv, CallOK
<1>2. call.fd \in OpenFds
  BY <1>1 DEF ClimbOK
<1> QED BY <1>1, <1>2, OpenTree DEF ClimbOK

\* The climb ends.
LEMMA ClimbEnds ==
  ASSUME TInv, call.at = "climb", NEW u, Whole(u), Writes(call.fd, u), call' = None,
         UNCHANGED <<tables, bound, todo>>
  PROVE  TInv'
<1>1. u \notin {Missing, Headless}
  BY GoodThere DEF Whole
<1>2. call'.at # "climb" /\ CallOK'
  BY DEF None, CallOK
<1>3. PICK fd : fd = call.fd
  OBVIOUS
<1>4. fd \in OpenFds /\ ScansOf(fd) = {} /\ Writes(fd, u)
  BY <1>3, ClimbTree
<1>5. todo' \in Seq(Value)
  BY DEF TInv
<1> QED BY <1>1, <1>2, <1>3, <1>4, <1>5, WriteStep

LEMMA ClimbStep ==
  ASSUME TInv, ClimbNewRoot \/ ClimbPlace \/ ClimbSplit, UNCHANGED <<bound, todo>>
  PROVE  TInv'
<1>1. call.at = "climb" /\ UNCHANGED tables
  BY DEF ClimbNewRoot, ClimbPlace, ClimbSplit
<1>2. PICK t, fd, o, key, old, after :
        /\ t = Tree(call.fd) /\ fd = call.fd /\ o = call.offset /\ key = call.key
        /\ old = call.old /\ after = call.after
  OBVIOUS
<1>3. /\ Good(t, old, after, key) /\ fd \in OpenFds /\ ScansOf(fd) = {} /\ key \in Value
      /\ after # NoNode /\ o = t.page[old].parent
  BY <1>1, <1>2, ClimbTree
<1>4. CASE ClimbNewRoot
  <2>1. PICK u : u = NewRoot(t, key, old, after)
    OBVIOUS
  <2>2. o = NoNode /\ Writes(call.fd, u) /\ call' = None
    BY <1>2, <1>4, <2>1 DEF ClimbNewRoot
  <2>3. Whole(u)
    BY <1>3, <2>1, <2>2, GoodNewRoot
  <2> QED BY <1>1, <2>2, <2>3, ClimbEnds
<1>5. CASE ClimbPlace
  <2>1. PICK u : u = [t EXCEPT !.page[o] = AM_InsertKeyToIndexNoSplit(@, key, after)]
    OBVIOUS
  <2>2. o # NoNode /\ Len(t.page[o].child) < FANOUT /\ Writes(call.fd, u) /\ call' = None
    BY <1>2, <1>5, <2>1 DEF ClimbPlace
  <2>3. Whole(u)
    BY <1>3, <2>1, <2>2, GoodPlaceKey
  <2> QED BY <1>1, <2>2, <2>3, ClimbEnds
<1>6. CASE ClimbSplit
  <2>1. PICK s : s = SplitInternal(t, o, key, after)
    OBVIOUS
  <2>2. /\ o # NoNode /\ Len(t.page[o].child) = FANOUT /\ Writes(fd, s.tree)
        /\ call' = [call EXCEPT !.offset = t.page[o].parent, !.key = s.key,
                                !.old = o, !.after = Len(t.page) + 1]
    BY <1>2, <1>6, <2>1 DEF ClimbSplit
  <2>3. /\ Good(s.tree, o, Len(t.page) + 1, s.key) /\ Len(t.page) + 1 # NoNode
        /\ s.key \in Value /\ s.tree.page[o].parent = t.page[o].parent
    BY <1>3, <2>1, <2>2, GoodSplitInternal
  <2>4. s.tree \notin {Missing, Headless}
    BY <2>3, GoodThere
  <2>5. Tree(fd)' = s.tree /\ OpenFds' = OpenFds
    BY <1>1, <1>3, <2>2, <2>4, WriteIs
  <2>6. ScansOf(fd)' = {}
    BY <1>1, <1>3 DEF ScansOf, OpenScans, tables
  <2>7. PICK p, a, k : p = t.page[o].parent /\ a = Len(t.page) + 1 /\ k = s.key
    OBVIOUS
  <2>8. /\ call'.at = "climb" /\ call'.fd = fd /\ call'.offset = p /\ call'.key = k
        /\ call'.old = o /\ call'.after = a
        /\ DOMAIN call' = {"at", "fd", "offset", "key", "old", "after"}
    <3>1. DOMAIN call = {"at", "fd", "offset", "key", "old", "after"}
      BY <1>1, ClimbTree
    <3> QED BY <1>1, <1>2, <2>2, <2>7, <3>1
  <2>9. CallOK'
    BY <1>3, <2>3, <2>5, <2>6, <2>7, <2>8 DEF CallOK, ClimbOK
  <2>10. todo' \in Seq(Value)
    BY DEF TInv
  <2>11. Good(s.tree, call'.old, call'.after, call'.key)
    BY <2>3, <2>7, <2>8
  <2> QED BY <1>1, <1>2, <1>3, <2>2, <2>4, <2>8, <2>9, <2>10, <2>11, WriteStep
<1> QED BY <1>4, <1>5, <1>6

\* A deletion ends with its entry marked, or with nothing changed.
LEMMA MarksStep ==
  ASSUME TInv, NEW fd \in OpenFds, NEW pos, InTree(Tree(fd), pos), pos.entry # 0, NEW v, NEW id,
         call.at # "climb", Marks(fd, pos, v, id), UNCHANGED <<bound, todo>>
  PROVE  TInv'
<1>1. PICK t, u : t = Tree(fd) /\ u = AM_MarkDeleted(t, pos)
  OBVIOUS
<1>2. Writes(fd, u) /\ call' = None /\ UNCHANGED tables
  BY <1>1 DEF Marks
<1>3. Whole(t) /\ InTree(t, pos)
  BY <1>1, OpenTree
<1>4. Whole(u) /\ \A p : InTree(t, p) => InTree(u, p)
  BY <1>1, <1>3, GoodMark DEF Whole
<1>5. \A p : PosIn(t, p) => PosIn(u, p)
  BY <1>4 DEF PosIn
<1>6. u \notin {Missing, Headless}
  BY <1>4, GoodThere DEF Whole
<1>7. call'.at # "climb" /\ CallOK'
  BY <1>2 DEF None, CallOK
<1>8. todo' \in Seq(Value)
  BY DEF TInv
<1> QED BY <1>1, <1>2, <1>4, <1>5, <1>6, <1>7, <1>8, WriteStep

LEMMA NotFoundStep ==
  ASSUME TInv, NEW v, NEW id, NotFound(v, id), call.at # "climb", UNCHANGED <<bound, todo>>
  PROVE  TInv'
<1>1. call'.at # "climb" /\ CallOK' /\ UNCHANGED <<index, tables>>
  BY DEF NotFound, None, CallOK
<1> QED BY <1>1, QuietStep DEF TInv

\* It goes on from another position of the tree.
LEMMA WalksStep ==
  ASSUME TInv, call.at # "climb", UNCHANGED <<index, tables, bound, todo>>,
         NEW fd \in OpenFds, NEW v, NEW id, NEW pos \in PosType, PosIn(Tree(fd), pos),
         NEW d \in {LEFT, RIGHT},
         call' = [at |-> "delete", fd |-> fd, value |-> v, id |-> id, pos |-> pos,
                  direction |-> d]
  PROVE  TInv'
<1>1. /\ call'.at = "delete" /\ call'.fd = fd /\ call'.pos = pos /\ call'.direction = d
      /\ DOMAIN call' = {"at", "fd", "value", "id", "pos", "direction"}
  OBVIOUS
<1>2. OpenFds' = OpenFds /\ Tree(fd)' = Tree(fd)
  BY DEF OpenFds, Tree, tables
<1>3. CallOK'
  BY <1>1, <1>2 DEF CallOK, DeleteOK
<1> QED BY <1>1, <1>3, QuietStep DEF TInv

LEMMA DeleteEntryStep ==
  ASSUME TInv, NEW fd \in Fd, NEW v, NEW id, ADelete(fd, v, id), UNCHANGED <<bound, todo>>
  PROVE  TInv'
<1>1. PICK t : t = Tree(fd)
  OBVIOUS
<1>2. PICK pos : pos = AM_GetFirstEntry(t, EQ_OP, v)
  OBVIOUS
<1>3. fd \in OpenFds /\ Idle /\ AM_DeleteEntry(fd, v, id)
  BY DEF ADelete, Usable, AM_DeleteEntry
<1>4. call.at # "climb"
  BY <1>3, IdleCall DEF Idle
<1>5. Whole(t)
  BY <1>1, <1>3, <1>4, OpenTree
<1>6. InTree(t, pos) /\ pos \in PosType
  BY <1>2, <1>5, GoodFirst DEF Whole
<1>7. CASE pos.entry = Start
  <2>1. NotFound(v, id)
    BY <1>1, <1>2, <1>3, <1>7 DEF AM_DeleteEntry
  <2> QED BY <1>4, <2>1, NotFoundStep
<1>8. CASE pos.entry # Start /\ Sought(t, pos, id)
  <2>1. Marks(fd, pos, v, id)
    BY <1>1, <1>2, <1>3, <1>8 DEF AM_DeleteEntry
  <2> QED BY <1>1, <1>3, <1>4, <1>6, <1>8, <2>1, MarksStep DEF Start
<1>9. CASE pos.entry # Start /\ ~Sought(t, pos, id)
  <2>1. /\ call' = [at |-> "delete", fd |-> fd, value |-> v, id |-> id,
                    pos |-> pos, direction |-> LEFT]
        /\ UNCHANGED <<index, tables, res>>
    BY <1>1, <1>2, <1>3, <1>9 DEF AM_DeleteEntry
  <2>2. PosIn(t, pos) /\ LEFT \in {LEFT, RIGHT}
    BY <1>6 DEF PosIn
  <2> QED BY <1>1, <1>3, <1>4, <1>6, <2>1, <2>2, WalksStep
<1> QED BY <1>7, <1>8, <1>9

LEMMA DeleteNextStep ==
  ASSUME TInv, DeleteNext, UNCHANGED <<bound, todo>>
  PROVE  TInv'
<1>1. call.at = "delete" /\ call.at # "climb" /\ DeleteOK
  BY DEF DeleteNext, TInv, CallOK
<1>2. PICK fd, t, v, id, d :
        fd = call.fd /\ t = Tree(fd) /\ v = call.value /\ id = call.id /\ d = call.direction
  OBVIOUS
<1>3. PICK pos : pos = Neighbour(t, d, call.pos)
  OBVIOUS
<1>4. fd \in OpenFds /\ d \in {LEFT, RIGHT}
  BY <1>1, <1>2 DEF DeleteOK
<1>5. Whole(t)
  BY <1>1, <1>2, <1>4, OpenTree
<1>6. PICK p : p = call.pos
  OBVIOUS
<1>7. p \in PosType /\ PosIn(t, p)
  BY <1>1, <1>2, <1>6 DEF DeleteOK
<1>8. /\ pos \in PosType
      /\ \/ pos.leaf = NoNode
         \/ InTree(t, pos) /\ pos.entry # 0
  <2>1. /\ Neighbour(t, d, p) \in PosType
        /\ \/ Neighbour(t, d, p).leaf = NoNode
           \/ InTree(t, Neighbour(t, d, p)) /\ Neighbour(t, d, p).entry # 0
    BY <1>4, <1>5, <1>7, GoodNeighbour DEF Whole, PosIn
  <2>2. pos = Neighbour(t, d, p)
    BY <1>3, <1>6
  <2> QED BY <2>1, <2>2
<1>9. PosIn(t, pos)
  BY <1>8 DEF PosIn
<1>10. PICK m \in BOOLEAN : m <=> Matches(t, pos, EQ_OP, v)
  OBVIOUS
<1>11. m => pos.leaf # NoNode
  BY <1>10 DEF Matches
<1>12. IF m /\ Sought(t, pos, id) THEN Marks(fd, pos, v, id)
       ELSE IF ~m /\ d = RIGHT THEN NotFound(v, id)
       ELSE /\ call' = [call EXCEPT !.pos = pos, !.direction = IF m THEN d ELSE RIGHT]
            /\ UNCHANGED <<index, tables, res>>
  BY <1>2, <1>3, <1>10 DEF DeleteNext
<1>13. CASE m /\ Sought(t, pos, id)
  BY <1>1, <1>2, <1>4, <1>8, <1>11, <1>12, <1>13, MarksStep
<1>14. CASE ~(m /\ Sought(t, pos, id)) /\ ~m /\ d = RIGHT
  BY <1>1, <1>12, <1>14, NotFoundStep
<1>15. CASE ~(m /\ Sought(t, pos, id)) /\ ~(~m /\ d = RIGHT)
  <2>1. PICK e : e = IF m THEN d ELSE RIGHT
    OBVIOUS
  <2>2. call' = [call EXCEPT !.pos = pos, !.direction = e] /\ UNCHANGED <<index, tables, res>>
    BY <1>12, <1>15, <2>1
  <2>3. DOMAIN call = {"at", "fd", "value", "id", "pos", "direction"}
    BY <1>1 DEF DeleteOK
  <2>4. /\ call'.at = "delete" /\ call'.fd = fd /\ call'.pos = pos /\ call'.direction = e
        /\ DOMAIN call' = {"at", "fd", "value", "id", "pos", "direction"}
    BY <1>1, <1>2, <2>2, <2>3
  <2>5. OpenFds' = OpenFds /\ Tree(fd)' = t
    BY <1>2, <2>2 DEF OpenFds, Tree, tables
  <2>6. e \in {LEFT, RIGHT}
    BY <1>4, <2>1
  <2>7. CallOK'
    BY <1>4, <1>8, <1>9, <2>4, <2>5, <2>6 DEF CallOK, DeleteOK
  <2> QED BY <1>1, <2>2, <2>4, <2>7, QuietStep DEF TInv
<1> QED BY <1>10, <1>13, <1>14, <1>15

LEMMA InsertStep ==
  ASSUME TInv, NEW fd \in Fd, AInsert(fd), UNCHANGED bound
  PROVE  TInv'
<1>1. PICK v \in (IF Loaded THEN bound.values ELSE {Head(todo)}), id \in bound.ids :
        /\ Copies(Tree(fd), v) < MaxCopies
        /\ AM_InsertEntry(fd, v, id) \/ InsertSplit(fd, v, id)
  BY DEF AInsert
<1>2. fd \in OpenFds /\ ScansOf(fd) = {} /\ todo' = IF Loaded THEN todo ELSE Tail(todo)
  BY DEF AInsert, Usable
<1>3. bound \in Bounds /\ todo \in Seq(Value)
  BY DEF TInv
<1>4. id \in RecId /\ bound.values \subseteq Value
  BY <1>3, BoundsAssumption
<1>5. v \in Value
  BY <1>1, <1>3, <1>4 DEF Loaded
<1>6. todo' \in Seq(Value)
  BY <1>2, <1>3 DEF Loaded
<1> QED BY <1>1, <1>2, <1>4, <1>5, <1>6, PlaceStep, SplitStep

LEMMA FileTreeStep ==
  ASSUME TInv, NEW n \in Name, AFile(n), UNCHANGED <<bound, todo>>
  PROVE  TInv'
<1>1. CASE AM_OpenIndex(n)
  BY <1>1, OpenIndexStep
<1>2. CASE CreateRefused(n) \/ DestroyRefused(n) \/ OpenRefused(n)
  BY <1>2, StutterStep DEF CreateRefused, DestroyRefused, OpenRefused, Refuses
<1>3. CASE AM_CreateIndex(n)
  <2>1. \A fd \in OpenFds : am_index_table[fd].fileName # n
    BY <1>3 DEF AM_CreateIndex, TInv, OpenHave, Tree
  <2> QED BY <1>3, <2>1, SetStep, GoodEmpty DEF AM_CreateIndex
<1>4. CASE AM_DestroyIndex(n)
  <2>1. \A fd \in OpenFds : am_index_table[fd].fileName # n
    BY <1>4 DEF AM_DestroyIndex, PF_SearchTable, TInv, AInv, EntryOwnsFile, Usable, OpenNamed
  <2> QED BY <1>4, <2>1, SetStep DEF AM_DestroyIndex
<1> QED BY <1>1, <1>2, <1>3, <1>4 DEF AFile

LEMMA NextTInv ==
  ASSUME TInv, [ANext]_avars
  PROVE  TInv'
<1>1. CASE UNCHANGED avars
  BY <1>1, StutterStep DEF avars, tables
<1> SUFFICES ASSUME ANext PROVE TInv'
  BY <1>1
<1>2. UNCHANGED bound /\ bound \in Bounds
  BY DEF ANext, ARunning, TInv
<1>3. CASE AClimb
  BY <1>2, <1>3, ClimbStep DEF AClimb, Kept
<1>4. CASE ADeleteNext
  BY <1>2, <1>4, DeleteNextStep DEF ADeleteNext
<1>5. ASSUME NEW sd \in Fd, AFindAgain(sd)
      PROVE  TInv'
  <2>1. /\ call.at = "find" /\ call.at # "climb" /\ call.sd = sd /\ Activation(sd)
        /\ UNCHANGED todo
    BY <1>5 DEF AFindAgain, FindAgain, Sees
  <2>2. sd \in OpenScans
    BY <2>1 DEF TInv, CallOK
  <2> QED BY <1>2, <2>1, <2>2, ActivationStep
<1>6. ASSUME NEW fd \in Fd, NEW v, NEW id, ADelete(fd, v, id), UNCHANGED todo
      PROVE  TInv'
  BY <1>2, <1>6, DeleteEntryStep
<1>7. ASSUME NEW n \in bound.names, AFile(n), Kept
      PROVE  TInv'
  <2>1. n \in Name
    BY <1>2, BoundsAssumption
  <2> QED BY <1>2, <1>7, <2>1, FileTreeStep DEF Kept
<1>8. ASSUME NEW fd \in Fd, AClose(fd), Kept
      PROVE  TInv'
  <2>1. CASE AM_CloseIndex(fd)
    BY <1>2, <1>8, <2>1, CloseIndexStep DEF AClose, Kept
  <2>2. CASE CloseRefused(fd)
    BY <1>2, <1>8, <2>2, StutterStep DEF CloseRefused, Refuses, Kept
  <2> QED BY <1>8, <2>1, <2>2 DEF AClose
<1>9. ASSUME NEW fd \in Fd, InvalidFd(fd), Kept
      PROVE  TInv'
  BY <1>2, <1>9, StutterStep DEF InvalidFd, Refuses, Kept
<1>10. ASSUME NEW fd \in Fd, AInsert(fd)
       PROVE  TInv'
  BY <1>2, <1>10, InsertStep
<1>11. ASSUME NEW fd \in Fd, NEW op \in bound.ops, NEW v \in bound.values, AOpenScan(fd, op, v)
       PROVE  TInv'
  <2>1. op \in Op /\ v \in Value
    BY <1>2, BoundsAssumption
  <2> QED BY <1>2, <1>11, <2>1, OpenIndexScanStep DEF AOpenScan
<1>12. ASSUME NEW sd \in Fd, AFind(sd)
       PROVE  TInv'
  <2>1. Idle /\ sd \in OpenScans /\ Activation(sd) /\ UNCHANGED todo
    BY <1>12 DEF AFind, AM_FindNextEntry, Sees
  <2>2. call.at # "climb"
    BY <2>1, IdleCall DEF Idle
  <2> QED BY <1>2, <2>1, <2>2, ActivationStep
<1>13. ASSUME NEW sd \in Fd, ACloseScan(sd)
       PROVE  TInv'
  BY <1>2, <1>13, CloseIndexScanStep DEF ACloseScan
<1>14. ASSUME NEW sd \in Fd, FindInvalid(sd), Kept
       PROVE  TInv'
  BY <1>2, <1>14, StutterStep DEF FindInvalid, Refuses, Kept
<1> QED BY <1>3, <1>4, <1>5, <1>6, <1>7, <1>8, <1>9, <1>10, <1>11, <1>12, <1>13, <1>14
        DEF ANext, ARunning, ACall, ADeletes

LEMMA InitTInv == AInit => TInv
<1> SUFFICES ASSUME AInit PROVE TInv
  OBVIOUS
<1>1. /\ index = [n \in Name |-> Missing] /\ call = None
      /\ am_index_table = [fd \in Fd |-> NewEntry]
      /\ am_scan_table = [sd \in Fd |-> NewScan]
      /\ bound \in Bounds /\ todo = bound.load
  BY DEF AInit, Init
<1>2. todo \in Seq(Value)
  BY <1>1, BoundsAssumption
<1>3. 0 \in Fd
  BY AMAssumption DEF Fd
<1>4. NewEntry \in [valid : BOOLEAN, scan_active : BOOLEAN,
                    fileName : Name \cup {NoName}, pf_fd : Fd]
      /\ ~NewEntry.valid
  BY <1>3 DEF NewEntry
<1>5. Nowhere \in PosType
  BY TreeAssumption DEF Nowhere, PosType, Start
<1>6. ScanTyped(NewScan) /\ ~NewScan.valid
  BY <1>3, <1>5 DEF NewScan, ScanTyped, NE_OP
<1>7. OpenFds = {} /\ OpenScans = {}
  BY <1>1, <1>4, <1>6 DEF OpenFds, OpenScans
<1>8. DOMAIN index = Name /\ TreesGood /\ OpenHave /\ ScansIn
  BY <1>1, <1>7 DEF TreesGood, OpenHave, ScansIn
<1>9. TablesTyped /\ \A sd \in Fd : ScanTyped(am_scan_table[sd])
  BY <1>1, <1>4, <1>6 DEF TablesTyped
<1> QED BY <1>1, <1>2, <1>8, <1>9, InitAInv, IdleCall DEF TInv

LEMMA AlwaysTInv == ASpec => []TInv
BY InitTInv, NextTInv, PTL DEF ASpec

(* Every node has the shape of its page and no more children or entries    *)
(* than slots, and every entry of the tables and position of a scan is of  *)
(* its type, whatever is inserted and split (am.c:292-500, 857-1089).      *)
THEOREM TypesHold == ASpec => []TypeOK
<1>1. TInv => TypeOK
  <2> SUFFICES ASSUME TInv PROVE TypeOK
    OBVIOUS
  <2>1. ASSUME NEW n \in Name, index[n] \notin {Missing, Headless},
               NEW o \in DOMAIN index[n].page
        PROVE  LeafOK(index[n].page[o]) \/ InnerOK(index[n].page[o])
    <3>1. PICK old, after, key : Good(index[n], old, after, key)
      BY <2>1 DEF TInv, TreesGood, Whole
    <3> QED BY <3>1, GoodNodes
  <2>2. pf_table \in [Fd -> Name \cup {NoName}]
    BY DEF TInv, AInv, Tables
  <2>3. am_index_table \in [Fd -> [valid : BOOLEAN, scan_active : BOOLEAN,
                                   fileName : Name \cup {NoName}, pf_fd : Fd]]
    BY DEF TInv, TablesTyped
  <2>4. am_scan_table \in [Fd -> [valid : BOOLEAN, fileDesc : Fd, pf_fd : Fd, op : 0..NE_OP,
                                  value : Int, org : PosType, pos : PosType,
                                  direction : {LEFT, NOTDEFINED, RIGHT}]]
    BY DEF TInv, TablesTyped, ScanTyped
  <2> QED BY <2>1, <2>2, <2>3, <2>4 DEF TypeOK
<1> QED BY <1>1, AlwaysTInv, PTL

(* In every tree that no split climbs in, the parent that a node names is  *)
(* the one node whose child it is: the climb of every later split goes to  *)
(* the right places (am.c:277-290, 323-357).                               *)
THEOREM ParentsHold == ASpec => []ParentsAgree
<1>1. TInv => ParentsAgree
  <2> SUFFICES ASSUME TInv PROVE ParentsAgree
    OBVIOUS
  <2>1. ASSUME NEW t \in Trees
        PROVE  Whole(t)
    BY DEF Trees, TInv, TreesGood, Climbs
  <2> QED BY <2>1, GoodParents DEF ParentsAgree
<1> QED BY <1>1, AlwaysTInv, PTL

(* When no value of an index has more entries than half a leaf (and the    *)
(* differences of two values fit an int), the search for the value of any  *)
(* entry ends at a leaf with an entry of that value: no entry is out of    *)
(* the reach of deletions and scans, however the nodes above it have been  *)
(* split and their keys moved up (am.c:277-500, 558-585, 857-893).         *)
THEOREM SearchesFind ==
  ASSUME Fits
  PROVE  ASpec => []SearchFinds
<1>1. TInv => SearchFinds
  <2> SUFFICES ASSUME TInv PROVE SearchFinds
    OBVIOUS
  <2>1. ASSUME NEW t \in Trees
        PROVE  Whole(t)
    BY DEF Trees, TInv, TreesGood, Climbs
  <2>2. \A t \in Trees : FindsAll(t)
    BY <2>1, GoodFinds
  <2> QED BY <2>2, Zenon DEF SearchFinds, FindsAll
<1> QED BY <1>1, AlwaysTInv, PTL

(* Under the same hypothesis the leaves are one list in the order of their *)
(* values, linked both ways from the first one, through every split: the   *)
(* walk of a scan meets the entries in order (am.c:359-426, 760-855).      *)
THEOREM LeavesInOrder ==
  ASSUME Fits
  PROVE  ASpec => []LeavesLinked
<1>1. TInv => LeavesLinked
  <2> SUFFICES ASSUME TInv PROVE LeavesLinked
    OBVIOUS
  <2>1. ASSUME NEW t \in Trees
        PROVE  Whole(t)
    BY DEF Trees, TInv, TreesGood, Climbs
  <2> QED BY <2>1, GoodList, GoodRises DEF LeavesLinked
<1> QED BY <1>1, AlwaysTInv, PTL
=============================================================================
