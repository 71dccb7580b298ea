---------------------------- MODULE AMTree_proofs ---------------------------
(***************************************************************************)
(* What the operators of AMTree do to the shape of a tree, for every       *)
(* fanout and every tree, and how they compare, find and place the values  *)
(* of one node.                                                            *)
(***************************************************************************)
EXTENDS AMClient, FiniteSetTheorems, SequenceTheorems, WellFoundedInduction, TLAPS

\* A nonempty set of positions has a first one.
LEMMA LeastOf ==
  ASSUME NEW T \in SUBSET Nat, T # {}
  PROVE  \E i \in T : \A j \in T : i <= j
<1>1. PICK i \in T : \A j \in T : ~(<<j, i>> \in OpToRel(<, Nat))
  BY NatLessThanWellFounded, WFMin, Zenon
<1>2. \A j \in T : ~(j < i)
  BY <1>1 DEF OpToRel
<1>3. \A j \in T : i <= j
  BY <1>2
<1> QED BY <1>3

\* A nonempty set of positions in a table has a last one.
LEMMA GreatestOf ==
  ASSUME NEW n \in Int, NEW T \in SUBSET (0..n), T # {}
  PROVE  \E i \in T : \A j \in T : i >= j
<1> DEFINE S == {n - i : i \in T}
<1>1. S \in SUBSET Nat /\ S # {}
  <2>1. \A i \in T : n - i \in Nat
    OBVIOUS
  <2>2. \A k \in S : k \in Nat
    BY <2>1
  <2>3. PICK i \in T : TRUE
    OBVIOUS
  <2>4. n - i \in S
    BY <2>3
  <2> QED BY <2>2, <2>4
<1>2. PICK k \in S : \A l \in S : k <= l
  BY <1>1, LeastOf
<1>3. PICK i \in T : k = n - i
  BY <1>2
<1>4. \A j \in T : n - i <= n - j
  BY <1>2, <1>3
<1>5. \A j \in T : i >= j
  BY <1>4
<1> QED BY <1>5

-----------------------------------------------------------------------------
(* Sequences. *)

\* The element of a concatenation at each place.
LEMMA ConcatElements ==
  ASSUME NEW S, NEW a \in Seq(S), NEW b \in Seq(S)
  PROVE  /\ a \o b \in Seq(S) /\ Len(a \o b) = Len(a) + Len(b)
         /\ \A j \in 1..(Len(a) + Len(b)) :
              (a \o b)[j] = IF j <= Len(a) THEN a[j] ELSE b[j - Len(a)]
BY ConcatProperties

\* The part of a sequence from its a-th element to its b-th.
LEMMA SubSeqIn ==
  ASSUME NEW S, NEW s \in Seq(S), NEW a \in 1..(Len(s) + 1), NEW b \in 0..Len(s), a <= b + 1
  PROVE  SubSeq(s, a, b) \in Seq(S) /\ Len(SubSeq(s, a, b)) = b - a + 1
OBVIOUS

LEMMA SubSeqIs ==
  ASSUME NEW S, NEW s \in Seq(S), NEW a \in 1..(Len(s) + 1), NEW b \in 0..Len(s), a <= b + 1,
         NEW j \in 1..(b - a + 1)
  PROVE  SubSeq(s, a, b)[j] = s[a + j - 1]
OBVIOUS

\* What putting e into the i-th place of a sequence makes of it.
LEMMA InsertAtElements ==
  ASSUME NEW S, NEW s \in Seq(S), NEW i \in 1..(Len(s) + 1), NEW e \in S
  PROVE  /\ InsertAt(s, i, e) \in Seq(S)
         /\ Len(InsertAt(s, i, e)) = Len(s) + 1
         /\ \A j \in 1..(Len(s) + 1) :
              InsertAt(s, i, e)[j] = IF j < i THEN s[j] ELSE IF j = i THEN e ELSE s[j - 1]
<1> DEFINE a == SubSeq(s, 1, i - 1)
           b == SubSeq(s, i, Len(s))
           c == a \o <<e>>
<1>1. a \in Seq(S) /\ Len(a) = i - 1 /\ \A j \in 1..(i - 1) : a[j] = s[j]
  OBVIOUS
<1>2. b \in Seq(S) /\ Len(b) = Len(s) - i + 1
      /\ \A j \in 1..(Len(s) - i + 1) : b[j] = s[i + j - 1]
  OBVIOUS
<1> HIDE DEF a, b
<1>3. <<e>> \in Seq(S) /\ Len(<<e>>) = 1 /\ <<e>>[1] = e
  OBVIOUS
<1>4. /\ c \in Seq(S) /\ Len(c) = Len(a) + Len(<<e>>)
      /\ \A j \in 1..(Len(a) + Len(<<e>>)) :
           c[j] = IF j <= Len(a) THEN a[j] ELSE <<e>>[j - Len(a)]
  BY <1>1, <1>3, ConcatElements
<1> HIDE DEF c
<1>5. c \in Seq(S) /\ Len(c) = i /\ \A j \in 1..i : c[j] = IF j < i THEN s[j] ELSE e
  BY <1>1, <1>3, <1>4
<1>8. /\ c \o b \in Seq(S) /\ Len(c \o b) = Len(c) + Len(b)
      /\ \A j \in 1..(Len(c) + Len(b)) : (c \o b)[j] = IF j <= Len(c) THEN c[j] ELSE b[j - Len(c)]
  BY <1>2, <1>5, ConcatElements
<1>6. Len(c) + Len(b) = Len(s) + 1
  BY <1>2, <1>5
<1>9. InsertAt(s, i, e) = c \o b
  BY DEF InsertAt, a, b, c
<1>7. PICK t : t = c \o b
  OBVIOUS
<1>10. ASSUME NEW j \in 1..(Len(s) + 1)
       PROVE  t[j] = IF j < i THEN s[j] ELSE IF j = i THEN e ELSE s[j - 1]
  <2>1. t[j] = IF j <= i THEN c[j] ELSE b[j - i]
    BY <1>5, <1>6, <1>7, <1>8
  <2>2. CASE j <= i
    <3>1. c[j] = IF j < i THEN s[j] ELSE e
      BY <1>5, <2>2
    <3> QED BY <2>1, <2>2, <3>1
  <2>3. CASE j > i
    <3>1. j - i \in 1..(Len(s) - i + 1) /\ i + (j - i) - 1 = j - 1
      BY <2>3
    <3>2. b[j - i] = s[j - 1]
      BY <1>2, <3>1
    <3> QED BY <2>1, <2>3, <3>2
  <2> QED BY <2>2, <2>3
<1> QED BY <1>6, <1>7, <1>8, <1>9, <1>10

LEMMA InsertAtIn ==
  ASSUME NEW S, NEW s \in Seq(S), NEW i \in 1..(Len(s) + 1), NEW e \in S
  PROVE  InsertAt(s, i, e) \in Seq(S) /\ Len(InsertAt(s, i, e)) = Len(s) + 1
BY InsertAtElements

LEMMA InsertAtIs ==
  ASSUME NEW S, NEW s \in Seq(S), NEW i \in 1..(Len(s) + 1), NEW e \in S,
         NEW j \in 1..(Len(s) + 1)
  PROVE  InsertAt(s, i, e)[j] = IF j < i THEN s[j] ELSE IF j = i THEN e ELSE s[j - 1]
BY InsertAtElements

LEMMA InsertAtChild ==
  ASSUME NEW s \in Seq(Nat), NEW i \in 1..(Len(s) + 1), NEW e \in Nat, NEW j \in 1..(Len(s) + 1)
  PROVE  InsertAt(s, i, e)[j] = IF j < i THEN s[j] ELSE IF j = i THEN e ELSE s[j - 1]
BY InsertAtIs

\* AM_UpperBound is a position, whatever it compares.
LEMMA UpperBoundIn ==
  ASSUME NEW values, NEW last \in Nat \ {0}, NEW v
  PROVE  AM_UpperBound(values, last, v) \in 1..last
<1> DEFINE T == {i \in 1..(last - 1) : AM_CompAttVal(v, values[i]) < 0} \cup {last}
<1>1. T \in SUBSET Nat /\ T # {} /\ T \subseteq 1..last
  OBVIOUS
<1> HIDE DEF T
<1>2. Min(T) \in T
  BY <1>1, LeastOf DEF Min
<1> QED BY <1>1, <1>2 DEF AM_UpperBound, T
-----------------------------------------------------------------------------
(* Entries of a leaf. *)

\* What s with e put into place p holds at place j.
Spread(s, p, e, j) == IF j < p THEN s[j] ELSE IF j = p THEN e ELSE s[j - 1]

\* Where AM_InsertRecNoSplit puts an entry.
RecPlace(rec, e) ==
  LET n == Len(rec)
      at == AM_UpperBound(Values(rec), n, e.value)
  IN  IF n = 0 THEN 1
      ELSE IF at = n /\ AM_CompAttVal(e.value, rec[n].value) > 0 THEN n + 1 ELSE at

LEMMA InsertRec ==
  ASSUME NEW S, NEW rec \in Seq(S), NEW e \in S
  PROVE  /\ RecPlace(rec, e) \in 1..(Len(rec) + 1)
         /\ AM_InsertRecNoSplit(rec, e) \in Seq(S)
         /\ Len(AM_InsertRecNoSplit(rec, e)) = Len(rec) + 1
         /\ \A j \in 1..(Len(rec) + 1) :
              AM_InsertRecNoSplit(rec, e)[j] = Spread(rec, RecPlace(rec, e), e, j)
<1> DEFINE n == Len(rec)
           at == AM_UpperBound(Values(rec), n, e.value)
<1>1. CASE n = 0
  <2>1. AM_InsertRecNoSplit(rec, e) = <<e>> /\ RecPlace(rec, e) = 1
    BY <1>1 DEF AM_InsertRecNoSplit, RecPlace
  <2> QED BY <1>1, <2>1 DEF Spread
<1>2. CASE n # 0
  <2>0. n \in Nat \ {0}
    BY <1>2
  <2>1. at \in 1..n
    BY <2>0, UpperBoundIn
  <2> HIDE DEF at
  <2>2. CASE at = n /\ AM_CompAttVal(e.value, rec[n].value) > 0
    <3>1. AM_InsertRecNoSplit(rec, e) = Append(rec, e) /\ RecPlace(rec, e) = n + 1
      BY <1>2, <2>2 DEF AM_InsertRecNoSplit, RecPlace, at
    <3> QED BY <3>1 DEF Spread
  <2>3. CASE ~(at = n /\ AM_CompAttVal(e.value, rec[n].value) > 0)
    <3>1. AM_InsertRecNoSplit(rec, e) = InsertAt(rec, at, e) /\ RecPlace(rec, e) = at
      BY <1>2, <2>3 DEF AM_InsertRecNoSplit, RecPlace, at
    <3>2. at \in 1..(Len(rec) + 1)
      BY <2>1
    <3>3. InsertAt(rec, at, e) \in Seq(S) /\ Len(InsertAt(rec, at, e)) = Len(rec) + 1
      BY <3>2, InsertAtIn
    <3>4. \A j \in 1..(Len(rec) + 1) : InsertAt(rec, at, e)[j] =
            IF j < at THEN rec[j] ELSE IF j = at THEN e ELSE rec[j - 1]
      BY <3>2, InsertAtIs
    <3> QED BY <3>1, <3>2, <3>3, <3>4 DEF Spread
  <2> QED BY <2>2, <2>3
<1> QED BY <1>1, <1>2

\* Where SplitLeaf cuts, and the halves.
Middle == FANOUT \div 2
GoesRight(rec, e) == AM_CompAttVal(e.value, rec[Middle + 1].value) > 0
LeafPoint(rec, e) == IF GoesRight(rec, e) THEN Middle + 1 ELSE Middle
LeftRec(rec, e) ==
  IF GoesRight(rec, e) THEN SubSeq(rec, 1, LeafPoint(rec, e))
  ELSE AM_InsertRecNoSplit(SubSeq(rec, 1, LeafPoint(rec, e)), e)
RightRec(rec, e) ==
  IF GoesRight(rec, e) THEN AM_InsertRecNoSplit(SubSeq(rec, LeafPoint(rec, e) + 1, FANOUT), e)
  ELSE SubSeq(rec, LeafPoint(rec, e) + 1, FANOUT)

LEMMA SplitLeafIs ==
  ASSUME NEW t, NEW o, NEW e
  PROVE  /\ SplitLeaf(t, o, e).tree =
              CreateNode(t, o, [t.page[o] EXCEPT !.rec = LeftRec(t.page[o].rec, e)],
                               [t.page[o] EXCEPT !.rec = RightRec(t.page[o].rec, e)])
         /\ SplitLeaf(t, o, e).key = RightRec(t.page[o].rec, e)[1].value
BY DEF SplitLeaf, LeftRec, RightRec, GoesRight, LeafPoint, Middle

\* Where the new entry stands in the two halves taken as one.
SplitPlace(rec, e) ==
  IF GoesRight(rec, e)
  THEN Middle + 1 + RecPlace(SubSeq(rec, Middle + 2, FANOUT), e)
  ELSE RecPlace(SubSeq(rec, 1, Middle), e)

LEMMA MiddleIs ==
  /\ Middle \in Nat /\ Middle >= 2 /\ Middle + 2 <= FANOUT
  /\ FANOUT \in {2 * Middle, 2 * Middle + 1} /\ FANOUT \in Nat /\ FANOUT >= 4
BY TreeAssumption DEF Middle

LEMMA Halves ==
  ASSUME NEW S, NEW rec \in Seq(S), Len(rec) = FANOUT, NEW e \in S,
         NEW l, NEW r, NEW p, <<l, r, p>> = <<LeftRec(rec, e), RightRec(rec, e), SplitPlace(rec, e)>>
  PROVE  /\ l \in Seq(S) /\ Len(l) = Middle + 1
         /\ r \in Seq(S) /\ Len(r) = FANOUT - Middle
         /\ p \in 1..(FANOUT + 1) /\ (p > Len(l) <=> GoesRight(rec, e))
         /\ \A j \in 1..Len(l) : l[j] = Spread(rec, p, e, j)
         /\ \A j \in 1..Len(r) : r[j] = Spread(rec, p, e, Len(l) + j)
<1>1. CASE GoesRight(rec, e)
  <2> DEFINE m == SubSeq(rec, Middle + 2, FANOUT)
             q == RecPlace(m, e)
  <2>1. /\ m \in Seq(S) /\ Len(m) = FANOUT - Middle - 1
        /\ \A j \in 1..(FANOUT - Middle - 1) : m[j] = rec[Middle + 1 + j]
    <3>1. /\ Middle + 2 \in 1..(Len(rec) + 1) /\ FANOUT \in 0..Len(rec) /\ Middle + 2 <= FANOUT + 1
          /\ FANOUT - (Middle + 2) + 1 = FANOUT - Middle - 1
          /\ \A j \in Int : Middle + 2 + j - 1 = Middle + 1 + j
      BY MiddleIs
    <3>2. m \in Seq(S) /\ Len(m) = FANOUT - (Middle + 2) + 1
      BY <3>1, SubSeqIn
    <3>3. ASSUME NEW j \in 1..(FANOUT - Middle - 1) PROVE m[j] = rec[Middle + 1 + j]
      <4>1. j \in 1..(FANOUT - (Middle + 2) + 1) /\ Middle + 2 + j - 1 = Middle + 1 + j
        BY <3>1
      <4>2. m[j] = rec[Middle + 2 + j - 1]
        <5>1. PICK a, b : a = Middle + 2 /\ b = FANOUT
          OBVIOUS
        <5>2. a \in 1..(Len(rec) + 1) /\ b \in 0..Len(rec) /\ a <= b + 1 /\ j \in 1..(b - a + 1)
          BY <3>1, <4>1, <5>1
        <5>3. SubSeq(rec, a, b)[j] = rec[a + j - 1]
          BY <5>2, SubSeqIs
        <5> QED BY <5>1, <5>3
      <4> QED BY <4>1, <4>2
    <3> QED BY <3>1, <3>2, <3>3
  <2>2. /\ l = SubSeq(rec, 1, Middle + 1) /\ r = AM_InsertRecNoSplit(m, e)
        /\ p = Middle + 1 + q
    <3>1. LeafPoint(rec, e) = Middle + 1 /\ LeafPoint(rec, e) + 1 = Middle + 2
      BY <1>1, MiddleIs DEF LeafPoint
    <3> QED BY <1>1, <3>1 DEF LeftRec, RightRec, SplitPlace
  <2>3. l \in Seq(S) /\ Len(l) = Middle + 1 /\ \A j \in 1..(Middle + 1) : l[j] = rec[j]
    BY <2>2, MiddleIs
  <2> HIDE DEF m, q
  <2>4. /\ q \in 1..(Len(m) + 1)
        /\ r \in Seq(S) /\ Len(r) = Len(m) + 1
        /\ \A j \in 1..(Len(m) + 1) : r[j] = Spread(m, q, e, j)
    <3>1. /\ q \in 1..(Len(m) + 1) /\ AM_InsertRecNoSplit(m, e) \in Seq(S)
          /\ Len(AM_InsertRecNoSplit(m, e)) = Len(m) + 1
      BY <2>1, InsertRec DEF q
    <3>2. \A j \in 1..(Len(m) + 1) : AM_InsertRecNoSplit(m, e)[j] = Spread(m, q, e, j)
      BY <2>1, InsertRec DEF q
    <3> QED BY <2>2, <3>1, <3>2
  <2>5. ASSUME NEW j \in 1..Len(r)
        PROVE  r[j] = Spread(rec, p, e, Len(l) + j)
    <3>1. r[j] = Spread(m, q, e, j) /\ j \in 1..(FANOUT - Middle) /\ q \in Int /\ q > 0
      BY <2>1, <2>4, MiddleIs
    <3>2. CASE j < q
      BY <2>1, <2>2, <2>3, <2>4, <3>1, <3>2, MiddleIs DEF Spread
    <3>3. CASE j = q
      BY <2>2, <2>3, <3>1, <3>3, MiddleIs DEF Spread
    <3>4. CASE j > q
      <4>1. m[j - 1] = rec[Middle + 1 + (j - 1)] /\ Middle + 1 + (j - 1) = Len(l) + j - 1
        BY <2>1, <2>3, <3>1, <3>4, MiddleIs
      <4>2. r[j] = m[j - 1]
        BY <3>1, <3>4 DEF Spread
      <4>3. Spread(rec, p, e, Len(l) + j) = rec[Len(l) + j - 1]
        BY <2>2, <2>3, <3>1, <3>4, MiddleIs DEF Spread
      <4> QED BY <4>1, <4>2, <4>3
    <3> QED BY <3>1, <3>2, <3>3, <3>4
  <2>6. p \in 1..(FANOUT + 1) /\ p > Len(l)
    BY <2>1, <2>2, <2>3, <2>4, MiddleIs
  <2>7. \A j \in 1..Len(l) : l[j] = Spread(rec, p, e, j)
    BY <2>3, <2>6 DEF Spread
  <2>8. Len(r) = FANOUT - Middle
    BY <2>1, <2>4, MiddleIs
  <2> QED BY <1>1, <2>3, <2>4, <2>5, <2>6, <2>7, <2>8
<1>2. CASE ~GoesRight(rec, e)
  <2> DEFINE m == SubSeq(rec, 1, Middle)
  <2>1. /\ m \in Seq(S) /\ Len(m) = Middle /\ \A j \in 1..Middle : m[j] = rec[j]
    BY MiddleIs
  <2>2. /\ l = AM_InsertRecNoSplit(m, e) /\ r = SubSeq(rec, Middle + 1, FANOUT)
        /\ p = RecPlace(m, e)
    <3>1. LeafPoint(rec, e) = Middle
      BY <1>2 DEF LeafPoint
    <3> QED BY <1>2, <3>1 DEF LeftRec, RightRec, SplitPlace
  <2>3. /\ r \in Seq(S) /\ Len(r) = FANOUT - Middle
        /\ \A j \in 1..(FANOUT - Middle) : r[j] = rec[Middle + j]
    BY <2>2, MiddleIs
  <2> HIDE DEF m
  <2>4. /\ p \in 1..(Len(m) + 1)
        /\ l \in Seq(S) /\ Len(l) = Len(m) + 1
        /\ \A j \in 1..(Len(m) + 1) : l[j] = Spread(m, p, e, j)
    BY <2>1, <2>2, InsertRec
  <2>5. ASSUME NEW j \in 1..Len(l)
        PROVE  l[j] = Spread(rec, p, e, j)
    <3>1. l[j] = Spread(m, p, e, j) /\ j \in 1..(Middle + 1) /\ p \in 1..(Middle + 1)
      BY <2>1, <2>4
    <3>2. CASE j < p
      BY <2>1, <3>1, <3>2, MiddleIs DEF Spread
    <3>3. CASE j = p
      BY <3>1, <3>3 DEF Spread
    <3>4. CASE j > p
      <4>1. m[j - 1] = rec[j - 1]
        BY <2>1, <3>1, <3>4, MiddleIs
      <4> QED BY <3>1, <3>4, <4>1, MiddleIs DEF Spread
    <3> QED BY <3>1, <3>2, <3>3, <3>4, MiddleIs
  <2>6. ASSUME NEW j \in 1..Len(r)
        PROVE  r[j] = Spread(rec, p, e, Len(l) + j)
    <3>1. Len(l) = Middle + 1 /\ p <= Middle + 1 /\ p \in Int /\ j \in Int /\ j >= 1
          /\ j <= FANOUT - Middle
      BY <2>1, <2>3, <2>4, MiddleIs
    <3>2. ~(Len(l) + j < p) /\ Len(l) + j # p /\ Len(l) + j - 1 = Middle + j
      BY <3>1, MiddleIs
    <3> QED BY <2>3, <3>1, <3>2 DEF Spread
  <2>7. p \in 1..(FANOUT + 1) /\ ~(p > Len(l))
    BY <2>1, <2>4, MiddleIs
  <2> QED BY <1>2, <2>1, <2>3, <2>4, <2>5, <2>6, <2>7
<1> QED BY <1>1, <1>2
-----------------------------------------------------------------------------
(* Keys and children of an inner node. *)

\* A node of n children.
Inner(node, n) ==
  node \in InnerNode /\ Len(node.child) = n /\ Len(node.keys) = n - 1

KeyPlace(node, key) == AM_UpperBound(node.keys, Len(node.child), key)

LEMMA InsertKey ==
  ASSUME NEW n \in Nat \ {0}, NEW node, Inner(node, n), NEW key \in Value, NEW after \in Nat
  PROVE  /\ KeyPlace(node, key) \in 1..n
         /\ Inner(AM_InsertKeyToIndexNoSplit(node, key, after), n + 1)
         /\ AM_InsertKeyToIndexNoSplit(node, key, after).parent = node.parent
         /\ AM_InsertKeyToIndexNoSplit(node, key, after).next = node.next
         /\ AM_InsertKeyToIndexNoSplit(node, key, after).prev = node.prev
         /\ \A j \in 1..n : AM_InsertKeyToIndexNoSplit(node, key, after).keys[j]
                              = Spread(node.keys, KeyPlace(node, key), key, j)
         /\ \A j \in 1..(n + 1) : AM_InsertKeyToIndexNoSplit(node, key, after).child[j]
                                    = Spread(node.child, KeyPlace(node, key) + 1, after, j)
<1> DEFINE at == KeyPlace(node, key)
           ks == InsertAt(node.keys, at, key)
           cs == InsertAt(node.child, at + 1, after)
           nn == AM_InsertKeyToIndexNoSplit(node, key, after)
<1>1. node \in InnerNode /\ Len(node.child) = n /\ Len(node.keys) = n - 1
  BY DEF Inner
<1>2. node.keys \in Seq(Value) /\ node.child \in Seq(Nat)
  BY <1>1 DEF InnerNode
<1>3. at \in 1..n
  BY <1>1, UpperBoundIn DEF KeyPlace
<1> HIDE DEF at
<1>4. at \in 1..(Len(node.keys) + 1) /\ at + 1 \in 1..(Len(node.child) + 1)
  BY <1>1, <1>3
<1>5. ks \in Seq(Value) /\ Len(ks) = Len(node.keys) + 1
  BY <1>2, <1>4, InsertAtIn
<1>6. ASSUME NEW j \in 1..(Len(node.keys) + 1)
      PROVE  ks[j] = IF j < at THEN node.keys[j] ELSE IF j = at THEN key ELSE node.keys[j - 1]
  BY SMTT(30), <1>2, <1>4, InsertAtIs
<1>7. cs \in Seq(Nat) /\ Len(cs) = Len(node.child) + 1
  <2>1. PICK s, i : s = node.child /\ i = at + 1
    OBVIOUS
  <2>2. s \in Seq(Nat) /\ i \in 1..(Len(s) + 1)
    BY <1>2, <1>4, <2>1
  <2>3. InsertAt(s, i, after) \in Seq(Nat) /\ Len(InsertAt(s, i, after)) = Len(s) + 1
    BY <2>2, InsertAtIn
  <2> QED BY <2>1, <2>3
<1>8. ASSUME NEW j \in 1..(Len(node.child) + 1)
      PROVE  cs[j] = IF j < at + 1 THEN node.child[j] ELSE IF j = at + 1 THEN after
                     ELSE node.child[j - 1]
  <2>1. PICK s, i : s = node.child /\ i = at + 1
    OBVIOUS
  <2>2. s \in Seq(Nat) /\ i \in 1..(Len(s) + 1) /\ j \in 1..(Len(s) + 1)
    BY <1>2, <1>4, <2>1
  <2>3. InsertAt(s, i, after)[j] = IF j < i THEN s[j] ELSE IF j = i THEN after ELSE s[j - 1]
    BY <2>2, InsertAtChild
  <2> QED BY <2>1, <2>3
<1>9. nn = [node EXCEPT !.keys = ks, !.child = cs]
  BY DEF AM_InsertKeyToIndexNoSplit, at, KeyPlace
<1> HIDE DEF ks, cs, nn
<1>10. /\ nn \in InnerNode /\ nn.keys = ks /\ nn.child = cs /\ nn.parent = node.parent
       /\ nn.next = node.next /\ nn.prev = node.prev
  BY <1>1, <1>5, <1>7, <1>9 DEF InnerNode
<1>11. Inner(nn, n + 1)
  BY <1>1, <1>5, <1>7, <1>10 DEF Inner
<1>12. \A j \in 1..n : nn.keys[j] = Spread(node.keys, at, key, j)
  BY <1>1, <1>6, <1>10 DEF Spread
<1>13. \A j \in 1..(n + 1) : nn.child[j] = Spread(node.child, at + 1, after, j)
  BY <1>1, <1>8, <1>10 DEF Spread
<1> QED BY <1>3, <1>10, <1>11, <1>12, <1>13 DEF at, nn

\* The part of an inner node from its a-th child to its b-th.
Part(node, a, b) ==
  [node EXCEPT !.keys = SubSeq(@, a, b - 1), !.child = SubSeq(@, a, b)]

LEMMA PartOf ==
  ASSUME NEW n \in Nat \ {0}, NEW node, Inner(node, n), NEW a \in 1..n, NEW b \in a..n
  PROVE  /\ Inner(Part(node, a, b), b - a + 1)
         /\ Part(node, a, b).parent = node.parent
         /\ Part(node, a, b).next = node.next
         /\ Part(node, a, b).prev = node.prev
         /\ \A j \in 1..(b - a) : Part(node, a, b).keys[j] = node.keys[a + j - 1]
         /\ \A j \in 1..(b - a + 1) : Part(node, a, b).child[j] = node.child[a + j - 1]
<1> DEFINE ks == SubSeq(node.keys, a, b - 1)
           cs == SubSeq(node.child, a, b)
           nn == Part(node, a, b)
<1>1. node \in InnerNode /\ Len(node.child) = n /\ Len(node.keys) = n - 1
  BY DEF Inner
<1>2. node.keys \in Seq(Value) /\ node.child \in Seq(Nat)
  BY <1>1 DEF InnerNode
<1>3. /\ a \in 1..(Len(node.keys) + 1) /\ b - 1 \in 0..Len(node.keys) /\ a <= (b - 1) + 1
      /\ a \in 1..(Len(node.child) + 1) /\ b \in 0..Len(node.child) /\ a <= b + 1
  BY <1>1
<1>4. ks \in Seq(Value) /\ Len(ks) = (b - 1) - a + 1
  BY <1>2, <1>3, SubSeqIn
<1>5. \A j \in 1..((b - 1) - a + 1) : ks[j] = node.keys[a + j - 1]
  BY <1>2, <1>3, SubSeqIs
<1>6. cs \in Seq(Nat) /\ Len(cs) = b - a + 1
  BY <1>2, <1>3, SubSeqIn
<1>7. \A j \in 1..(b - a + 1) : cs[j] = node.child[a + j - 1]
  BY <1>2, <1>3, SubSeqIs
<1>8. nn = [node EXCEPT !.keys = ks, !.child = cs]
  BY DEF Part
<1> HIDE DEF ks, cs, nn
<1>9. /\ nn \in InnerNode /\ nn.keys = ks /\ nn.child = cs /\ nn.parent = node.parent
      /\ nn.next = node.next /\ nn.prev = node.prev
  BY <1>1, <1>4, <1>6, <1>8 DEF InnerNode
<1>10. Inner(nn, b - a + 1)
  BY <1>4, <1>6, <1>9 DEF Inner
<1> QED BY <1>5, <1>7, <1>9, <1>10 DEF nn

\* Where SplitInternal cuts, and the halves.
KeyMiddle == (FANOUT - 1) \div 2 + 1
KeyRight(node, key) == AM_CompAttVal(key, node.keys[KeyMiddle]) > 0
KeyPoint(node, key) ==
  IF KeyRight(node, key) /\ ~(AM_CompAttVal(key, node.keys[KeyMiddle + 1]) < 0)
  THEN KeyMiddle + 1 ELSE KeyMiddle
Stays(node, key) == Part(node, 1, KeyPoint(node, key))
Leaving(node, key) == Part(node, KeyPoint(node, key) + 1, FANOUT)
LeftNode(node, key, after) ==
  IF KeyRight(node, key) THEN Stays(node, key)
  ELSE AM_InsertKeyToIndexNoSplit(Stays(node, key), key, after)
RightNode(node, key, after) ==
  IF KeyRight(node, key) THEN AM_InsertKeyToIndexNoSplit(Leaving(node, key), key, after)
  ELSE Leaving(node, key)

LEMMA SplitInternalIs ==
  ASSUME NEW t, NEW o, NEW key, NEW after
  PROVE  /\ SplitInternal(t, o, key, after).tree =
              AM_ResetIndexChildParent(
                CreateNode(t, o, LeftNode(t.page[o], key, after), RightNode(t.page[o], key, after)),
                Len(t.page) + 1)
         /\ SplitInternal(t, o, key, after).key = t.page[o].keys[KeyPoint(t.page[o], key)]
BY DEF SplitInternal, LeftNode, RightNode, Stays, Leaving, Part, KeyPoint, KeyRight, KeyMiddle

LEMMA KeyMiddleIs ==
  /\ KeyMiddle \in Nat /\ KeyMiddle >= 2 /\ KeyMiddle + 2 <= FANOUT
  /\ FANOUT \in Nat /\ FANOUT >= 4
BY TreeAssumption DEF KeyMiddle

LEMMA PointIs ==
  ASSUME NEW node, NEW key
  PROVE  /\ KeyPoint(node, key) \in {KeyMiddle, KeyMiddle + 1}
         /\ KeyPoint(node, key) \in 2..(FANOUT - 1) /\ FANOUT - KeyPoint(node, key) \in 1..(FANOUT - 2)
BY KeyMiddleIs DEF KeyPoint

\* The children of the left half, and the place of the new one in both halves.
LeftSize(node, key) ==
  IF KeyRight(node, key) THEN KeyPoint(node, key) ELSE KeyPoint(node, key) + 1
ChildPlace(node, key) ==
  IF KeyRight(node, key) THEN KeyPoint(node, key) + KeyPlace(Leaving(node, key), key) + 1
  ELSE KeyPlace(Stays(node, key), key) + 1

\* A place in what is moved by k is that place behind k.
LEMMA SpreadBehind ==
  ASSUME NEW s, NEW m, NEW k \in Int, NEW q \in Int, NEW e, NEW j \in Int,
         j < q => m[j] = s[k + j], j > q => m[j - 1] = s[k + j - 1]
  PROVE  Spread(m, q, e, j) = Spread(s, k + q, e, k + j)
BY DEF Spread

LEMMA NodeHalves ==
  ASSUME NEW node, Inner(node, FANOUT), NEW key \in Value, NEW after \in Nat
  PROVE  /\ LeftSize(node, key) \in 2..FANOUT /\ FANOUT + 1 - LeftSize(node, key) \in 1..FANOUT
         /\ Inner(LeftNode(node, key, after), LeftSize(node, key))
         /\ Inner(RightNode(node, key, after), FANOUT + 1 - LeftSize(node, key))
         /\ LeftNode(node, key, after).parent = node.parent
         /\ LeftNode(node, key, after).prev = node.prev
         /\ RightNode(node, key, after).parent = node.parent
         /\ ChildPlace(node, key) \in 2..(FANOUT + 1)
         /\ \A j \in 1..LeftSize(node, key) : LeftNode(node, key, after).child[j]
              = Spread(node.child, ChildPlace(node, key), after, j)
         /\ \A j \in 1..(FANOUT + 1 - LeftSize(node, key)) : RightNode(node, key, after).child[j]
              = Spread(node.child, ChildPlace(node, key), after, LeftSize(node, key) + j)
<1> DEFINE x == KeyPoint(node, key)
           a == Stays(node, key)
           b == Leaving(node, key)
           l == LeftNode(node, key, after)
           r == RightNode(node, key, after)
<1>1. x \in 2..(FANOUT - 1) /\ FANOUT \in Nat /\ FANOUT >= 4
  BY PointIs, KeyMiddleIs
<1> HIDE DEF x
<1>2. /\ Inner(a, x) /\ a.parent = node.parent /\ a.prev = node.prev
      /\ \A j \in 1..x : a.child[j] = node.child[j]
  <2>1. FANOUT \in Nat \ {0} /\ 1 \in 1..FANOUT /\ x \in 1..FANOUT
    BY <1>1
  <2>2. /\ Inner(Part(node, 1, x), x - 1 + 1) /\ Part(node, 1, x).parent = node.parent
        /\ Part(node, 1, x).prev = node.prev
        /\ \A j \in 1..(x - 1 + 1) : Part(node, 1, x).child[j] = node.child[1 + j - 1]
    BY <2>1, PartOf
  <2>3. x - 1 + 1 = x /\ \A j \in 1..x : 1 + j - 1 = j
    BY <1>1
  <2>4. a = Part(node, 1, x)
    BY DEF Stays, x
  <2> HIDE DEF a
  <2>5. \A j \in 1..x : a.child[j] = node.child[j]
    BY <2>2, <2>3, <2>4
  <2> QED BY <2>2, <2>3, <2>4, <2>5
<1>3. /\ Inner(b, FANOUT - x) /\ b.parent = node.parent
      /\ \A j \in 1..(FANOUT - x) : b.child[j] = node.child[x + j]
  <2>1. FANOUT \in Nat \ {0} /\ x + 1 \in 1..FANOUT /\ FANOUT \in (x + 1)..FANOUT
    BY <1>1
  <2>2. /\ Inner(Part(node, x + 1, FANOUT), FANOUT - (x + 1) + 1)
        /\ Part(node, x + 1, FANOUT).parent = node.parent
        /\ \A j \in 1..(FANOUT - (x + 1) + 1) :
             Part(node, x + 1, FANOUT).child[j] = node.child[(x + 1) + j - 1]
    BY <2>1, PartOf
  <2>3. FANOUT - (x + 1) + 1 = FANOUT - x
        /\ \A j \in 1..(FANOUT - x) : (x + 1) + j - 1 = x + j
    BY <1>1
  <2>4. b = Part(node, x + 1, FANOUT)
    BY DEF Leaving, x
  <2> HIDE DEF b
  <2>5. \A j \in 1..(FANOUT - x) : b.child[j] = node.child[x + j]
    BY <2>2, <2>3, <2>4
  <2> QED BY <2>2, <2>3, <2>4, <2>5
<1> HIDE DEF a, b
<1>4. CASE KeyRight(node, key)
  <2> DEFINE q == KeyPlace(b, key)
  <2>1. /\ LeftSize(node, key) = x /\ ChildPlace(node, key) = x + q + 1
        /\ l = a /\ r = AM_InsertKeyToIndexNoSplit(b, key, after)
    BY <1>4 DEF LeftSize, ChildPlace, LeftNode, RightNode, x, a, b
  <2>2. FANOUT - x \in Nat \ {0}
    BY <1>1
  <2>3. /\ q \in 1..(FANOUT - x)
        /\ Inner(r, FANOUT - x + 1) /\ r.parent = b.parent
        /\ \A j \in 1..(FANOUT - x + 1) : r.child[j] = Spread(b.child, q + 1, after, j)
    BY <1>3, <2>1, <2>2, InsertKey
  <2> HIDE DEF q, l, r
  <2>4. ASSUME NEW j \in 1..(FANOUT + 1 - x)
        PROVE  r.child[j] = Spread(node.child, x + q + 1, after, x + j)
    <3>1. j \in 1..(FANOUT - x + 1) /\ q + 1 \in 1..(FANOUT - x + 1) /\ x \in Nat
          /\ FANOUT - x \in Nat /\ x + (q + 1) = x + q + 1
      BY <1>1, <2>3
    <3>2. /\ x \in Int /\ q + 1 \in Int /\ j \in Int
          /\ j < q + 1 => b.child[j] = node.child[x + j]
          /\ j > q + 1 => b.child[j - 1] = node.child[x + j - 1]
      <4>1. j < q + 1 => j \in 1..(FANOUT - x)
        BY <2>3, <3>1
      <4>2. j > q + 1 => j - 1 \in 1..(FANOUT - x) /\ x + (j - 1) = x + j - 1
        BY <2>3, <3>1
      <4> QED BY <1>3, <2>3, <3>1, <4>1, <4>2
    <3>3. Spread(b.child, q + 1, after, j) = Spread(node.child, x + (q + 1), after, x + j)
      BY <3>2, SpreadBehind
    <3> QED BY <2>3, <3>1, <3>3
  <2>5. ASSUME NEW j \in 1..x
        PROVE  l.child[j] = Spread(node.child, x + q + 1, after, j)
    BY <1>1, <1>2, <2>1, <2>3 DEF Spread
  <2>6. FANOUT + 1 - x = FANOUT - x + 1 /\ x \in 2..FANOUT /\ FANOUT + 1 - x \in 1..FANOUT
        /\ x + q + 1 \in 2..(FANOUT + 1)
    BY <1>1, <2>3
  <2> QED BY <1>2, <1>3, <2>1, <2>3, <2>4, <2>5, <2>6 DEF l, r
<1>5. CASE ~KeyRight(node, key)
  <2> DEFINE q == KeyPlace(a, key)
  <2>1. /\ LeftSize(node, key) = x + 1 /\ ChildPlace(node, key) = q + 1
        /\ l = AM_InsertKeyToIndexNoSplit(a, key, after) /\ r = b
    BY <1>5 DEF LeftSize, ChildPlace, LeftNode, RightNode, x, a, b
  <2>2. x \in Nat \ {0}
    BY <1>1
  <2>3. /\ q \in 1..x /\ Inner(l, x + 1) /\ l.parent = a.parent /\ l.prev = a.prev
        /\ \A j \in 1..(x + 1) : l.child[j] = Spread(a.child, q + 1, after, j)
    <3>1. Inner(a, x)
      BY <1>2
    <3>2. /\ q \in 1..x /\ Inner(AM_InsertKeyToIndexNoSplit(a, key, after), x + 1)
          /\ AM_InsertKeyToIndexNoSplit(a, key, after).parent = a.parent
          /\ AM_InsertKeyToIndexNoSplit(a, key, after).prev = a.prev
      BY <2>2, <3>1, InsertKey
    <3>3. \A j \in 1..(x + 1) : AM_InsertKeyToIndexNoSplit(a, key, after).child[j]
                                    = Spread(a.child, q + 1, after, j)
      BY <2>2, <3>1, InsertKey
    <3> HIDE DEF q, l
    <3> QED BY <2>1, <3>2, <3>3
  <2> HIDE DEF q, l, r
  <2>4. ASSUME NEW j \in 1..(x + 1)
        PROVE  l.child[j] = Spread(node.child, q + 1, after, j)
    <3>1. /\ j < q + 1 => a.child[j] = node.child[j]
          /\ j > q + 1 => a.child[j - 1] = node.child[j - 1]
      BY <1>1, <1>2, <2>3
    <3>2. Spread(a.child, q + 1, after, j) = Spread(node.child, q + 1, after, j)
      BY <1>1, <2>3, <3>1 DEF Spread
    <3> QED BY <2>3, <3>2
  <2>5. ASSUME NEW j \in 1..(FANOUT + 1 - (x + 1))
        PROVE  r.child[j] = Spread(node.child, q + 1, after, x + 1 + j)
    <3>1. j \in 1..(FANOUT - x) /\ ~(x + 1 + j < q + 1) /\ x + 1 + j # q + 1
          /\ x + 1 + j - 1 = x + j
      BY <1>1, <2>3
    <3>2. r.child[j] = node.child[x + j]
      BY <1>3, <2>1, <3>1
    <3> QED BY <1>1, <2>3, <3>1, <3>2 DEF Spread
  <2>6. FANOUT + 1 - (x + 1) = FANOUT - x /\ x + 1 \in 2..FANOUT /\ FANOUT - x \in 1..FANOUT
        /\ q + 1 \in 2..(FANOUT + 1)
    BY <1>1, <2>3
  <2> QED BY <1>2, <1>3, <2>1, <2>3, <2>4, <2>5, <2>6 DEF l, r
<1> QED BY <1>4, <1>5
-----------------------------------------------------------------------------
(* The shape of a tree: lev is the level of each node, 0 for a leaf.  While *)
(* a split climbs, node after, split off node old, is nobody's child yet.   *)

Pages(t, lev) ==
  /\ t \in TreeRec /\ lev \in [1..Len(t.page) -> Nat]
  /\ t.root \in 1..Len(t.page) /\ lev[t.root] = t.height
  /\ \A o \in 1..Len(t.page) :
       /\ lev[o] <= t.height
       /\ lev[o] = 0 => LeafOK(t.page[o])
       /\ lev[o] # 0 => InnerOK(t.page[o])

Linked(t, lev) ==
  /\ t.first \in 1..Len(t.page) /\ lev[t.first] = 0 /\ t.page[t.first].prev = NoNode
  /\ \A o \in 1..Len(t.page) :
       /\ t.page[o].next # NoNode =>
            /\ t.page[o].next \in 1..Len(t.page) /\ t.page[o].next # o
            /\ lev[t.page[o].next] = lev[o] /\ t.page[t.page[o].next].prev = o
       /\ t.page[o].prev # NoNode =>
            /\ t.page[o].prev \in 1..Len(t.page)
            /\ lev[t.page[o].prev] = lev[o] /\ t.page[t.page[o].prev].next = o
       /\ lev[o] = 0 /\ o # t.first => t.page[o].prev # NoNode /\ t.page[o].rec # <<>>

\* o is a child of p.
IsChild(t, o, p) == \E i \in 1..Len(t.page[p].child) : t.page[p].child[i] = o

Family(t, lev, after) ==
  /\ t.page[t.root].parent = NoNode
  /\ \A p \in 1..Len(t.page) : lev[p] # 0 =>
       /\ \A i \in 1..Len(t.page[p].child) :
            LET c == t.page[p].child[i] IN
            c \in 1..Len(t.page) /\ lev[c] = lev[p] - 1 /\ t.page[c].parent = p /\ c # after
       /\ \A i, j \in 1..Len(t.page[p].child) : t.page[p].child[i] = t.page[p].child[j] => i = j
  /\ \A o \in 1..Len(t.page) : o # t.root /\ o # after =>
       LET p == t.page[o].parent IN p \in 1..Len(t.page) /\ lev[p] # 0 /\ IsChild(t, o, p)

Pending(t, lev, old, after) ==
  after # NoNode =>
    /\ old \in 1..Len(t.page) /\ after \in 1..Len(t.page) /\ old # after /\ after # t.root
    /\ lev[old] = lev[after] /\ t.page[old].parent = t.page[after].parent

\* The children of a node: a level below it, and it is their parent.
LEMMA ChildIn ==
  ASSUME NEW t, NEW lev, NEW after, Family(t, lev, after), NEW p \in 1..Len(t.page), lev[p] # 0,
         NEW q, IsChild(t, q, p)
  PROVE  q \in 1..Len(t.page) /\ lev[q] = lev[p] - 1 /\ t.page[q].parent = p /\ q # after
<1>1. PICK i \in 1..Len(t.page[p].child) : t.page[p].child[i] = q
  BY DEF IsChild
<1> QED BY <1>1 DEF Family

\* The root has no parent; another node is a child of its parent.
LEMMA RootIn ==
  ASSUME NEW t, NEW lev, NEW after, Pages(t, lev), Family(t, lev, after)
  PROVE  t.root \in 1..Len(t.page) /\ t.page[t.root].parent = NoNode
BY DEF Pages, Family

LEMMA ParentIn ==
  ASSUME NEW t, NEW lev, NEW after, Family(t, lev, after), NEW q \in 1..Len(t.page),
         q # t.root, q # after
  PROVE  /\ t.page[q].parent \in 1..Len(t.page) /\ lev[t.page[q].parent] # 0
         /\ IsChild(t, q, t.page[q].parent)
BY DEF Family

\* Only a leaf that is alone is empty.
Begun(t) == t.page[t.first].next # NoNode => t.page[t.first].rec # <<>>

Shape(t, lev, old, after) ==
  /\ Pages(t, lev) /\ Linked(t, lev) /\ Begun(t)
  /\ Family(t, lev, after) /\ Pending(t, lev, old, after)

-----------------------------------------------------------------------------
(* What the writes of a split do. *)

\* Node x is y but for its neighbours.
Same(x, y) ==
  /\ x.parent = y.parent
  /\ y \in LeafNode => x \in LeafNode /\ x.rec = y.rec
  /\ y \in InnerNode => x \in InnerNode /\ x.keys = y.keys /\ x.child = y.child

LEMMA NextIsSame ==
  ASSUME NEW y \in LeafNode \cup InnerNode, NEW a \in Nat
  PROVE  /\ [y EXCEPT !.next = a] \in LeafNode \cup InnerNode
         /\ Same([y EXCEPT !.next = a], y)
         /\ [y EXCEPT !.next = a].next = a /\ [y EXCEPT !.next = a].prev = y.prev
<1>1. CASE y \in LeafNode
  BY <1>1 DEF LeafNode, InnerNode, Same
<1>2. CASE y \in InnerNode
  BY <1>2 DEF LeafNode, InnerNode, Same
<1> QED BY <1>1, <1>2

LEMMA PrevIsSame ==
  ASSUME NEW y \in LeafNode \cup InnerNode, NEW a \in Nat
  PROVE  /\ [y EXCEPT !.prev = a] \in LeafNode \cup InnerNode
         /\ Same([y EXCEPT !.prev = a], y)
         /\ [y EXCEPT !.prev = a].prev = a /\ [y EXCEPT !.prev = a].next = y.next
<1>1. CASE y \in LeafNode
  BY <1>1 DEF LeafNode, InnerNode, Same
<1>2. CASE y \in InnerNode
  BY <1>2 DEF LeafNode, InnerNode, Same
<1> QED BY <1>1, <1>2

\* u is t with a new page linked in behind page o.
Relinked(t, u, o) ==
  LET n == Len(t.page) IN
  /\ Len(u.page) = n + 1 /\ u.first = t.first
  /\ u.page[n + 1].next = t.page[o].next /\ u.page[n + 1].prev = o
  /\ u.page[o].next = n + 1 /\ u.page[o].prev = t.page[o].prev
  /\ \A q \in 1..n : q # o =>
       /\ u.page[q].next = t.page[q].next
       /\ u.page[q].prev = IF q = t.page[o].next THEN n + 1 ELSE t.page[q].prev

LEMMA CreateNodeIs ==
  ASSUME NEW t \in TreeRec, NEW o \in 1..Len(t.page),
         NEW left \in LeafNode \cup InnerNode, NEW right \in LeafNode \cup InnerNode,
         left.prev = t.page[o].prev
  PROVE  LET u == CreateNode(t, o, left, right)
             n == Len(t.page)
         IN  /\ u \in TreeRec /\ u.height = t.height /\ u.root = t.root
             /\ Relinked(t, u, o)
             /\ Same(u.page[o], left) /\ Same(u.page[n + 1], right)
             /\ \A q \in 1..n : q # o => Same(u.page[q], t.page[q])
<1> DEFINE N == LeafNode \cup InnerNode
           n == Len(t.page)
           nx == t.page[o].next
           l == [left EXCEPT !.next = n + 1]
           r1 == [right EXCEPT !.next = nx]
           r == [r1 EXCEPT !.prev = o]
           at(q) == IF q = o THEN l ELSE IF q = nx THEN [t.page[q] EXCEPT !.prev = n + 1]
                    ELSE t.page[q]
           g == [q \in DOMAIN t.page |-> at(q)]
           u == CreateNode(t, o, left, right)
<1>1. /\ t.page \in Seq(N) /\ n \in Nat /\ DOMAIN t.page = 1..n
      /\ \A q \in 1..n : t.page[q] \in N
  BY DEF TreeRec
<1>2. \A y \in N : y.next \in Nat /\ y.prev \in Nat
  BY DEF LeafNode, InnerNode
<1>3. nx \in Nat /\ n + 1 \in Nat /\ o \in Nat
  BY <1>1, <1>2
<1>4. /\ l \in N /\ Same(l, left) /\ l.next = n + 1 /\ l.prev = left.prev
  BY <1>3, NextIsSame
<1>5. r1 \in N /\ Same(r1, right) /\ r1.next = nx
  BY <1>3, NextIsSame
<1> HIDE DEF r1, nx
<1>6. r \in N /\ Same(r, r1) /\ r.prev = o /\ r.next = nx
  BY <1>3, <1>5, PrevIsSame
<1>7. Same(r, right)
  BY <1>5, <1>6 DEF Same
<1>8. u = [t EXCEPT !.page = Append(g, r)]
  BY DEF CreateNode, r1, nx
<1> HIDE DEF l, r, N
<1>9. \A q \in 1..n : /\ [t.page[q] EXCEPT !.prev = n + 1] \in N
                      /\ Same([t.page[q] EXCEPT !.prev = n + 1], t.page[q])
                      /\ [t.page[q] EXCEPT !.prev = n + 1].prev = n + 1
                      /\ [t.page[q] EXCEPT !.prev = n + 1].next = t.page[q].next
  BY <1>1, <1>3, PrevIsSame DEF N
<1>10. \A q \in 1..n : at(q) \in N
  BY <1>1, <1>4, <1>9
<1>11. g \in Seq(N) /\ Len(g) = n /\ \A q \in 1..n : g[q] = at(q)
  <2> HIDE DEF at
  <2>1. g \in [1..n -> N]
    BY <1>1, <1>10
  <2> QED BY <1>1, <2>1, SeqDef, LenProperties
<1> HIDE DEF g, u
<1>12. /\ Append(g, r) \in Seq(N) /\ Len(Append(g, r)) = n + 1
       /\ Append(g, r)[n + 1] = r
       /\ \A q \in 1..n : Append(g, r)[q] = at(q)
  BY <1>6, <1>11
<1>13. /\ u \in TreeRec /\ u.height = t.height /\ u.root = t.root /\ u.first = t.first
       /\ u.page = Append(g, r)
  BY <1>8, <1>12 DEF TreeRec, N
<1>14. Len(u.page) = n + 1 /\ u.page[n + 1] = r /\ \A q \in 1..n : u.page[q] = at(q)
  BY <1>12, <1>13
<1>15. \A y \in N : Same(y, y)
  BY DEF Same
<1>16. Relinked(t, u, o)
  <2>1. u.page[o] = l
    BY <1>14
  <2>2. \A q \in 1..n : q # o =>
          /\ u.page[q].next = t.page[q].next
          /\ u.page[q].prev = IF q = nx THEN n + 1 ELSE t.page[q].prev
    BY <1>9, <1>14
  <2> HIDE DEF at
  <2> QED BY <1>4, <1>6, <1>13, <1>14, <2>1, <2>2 DEF Relinked, nx
<1>17. Same(u.page[o], left) /\ Same(u.page[n + 1], right)
  BY <1>4, <1>7, <1>14
<1>18. ASSUME NEW q \in 1..n, q # o PROVE Same(u.page[q], t.page[q])
  BY <1>1, <1>9, <1>14, <1>15, <1>18
<1> QED BY <1>13, <1>16, <1>17, <1>18 DEF u

\* Node x is y but for its parent.
Moved(x, y) ==
  /\ x.next = y.next /\ x.prev = y.prev
  /\ y \in LeafNode => x \in LeafNode /\ x.rec = y.rec
  /\ y \in InnerNode => x \in InnerNode /\ x.keys = y.keys /\ x.child = y.child

LEMMA ResetIs ==
  ASSUME NEW t \in TreeRec, NEW o \in 1..Len(t.page), t.page[o] \in InnerNode
  PROVE  LET u == AM_ResetIndexChildParent(t, o) IN
         /\ u \in TreeRec /\ u.height = t.height /\ u.root = t.root /\ u.first = t.first
         /\ Len(u.page) = Len(t.page)
         /\ \A q \in 1..Len(t.page) :
              /\ Moved(u.page[q], t.page[q])
              /\ IsChild(t, q, o) => u.page[q].parent = o
              /\ ~IsChild(t, q, o) => u.page[q].parent = t.page[q].parent
<1> DEFINE N == LeafNode \cup InnerNode
           n == Len(t.page)
           at(q) == IF q \in ToSet(t.page[o].child) THEN [t.page[q] EXCEPT !.parent = o]
                    ELSE t.page[q]
           g == [q \in DOMAIN t.page |-> at(q)]
           u == AM_ResetIndexChildParent(t, o)
<1>1. /\ t.page \in Seq(N) /\ n \in Nat /\ DOMAIN t.page = 1..n
      /\ \A q \in 1..n : t.page[q] \in N
  BY DEF TreeRec
<1>2. u = [t EXCEPT !.page = g]
  BY DEF AM_ResetIndexChildParent
<1>3. \A q : q \in ToSet(t.page[o].child) <=> IsChild(t, q, o)
  <2>1. DOMAIN t.page[o].child = 1..Len(t.page[o].child)
    BY DEF InnerNode
  <2> QED BY <2>1 DEF ToSet, IsChild
<1>4. ASSUME NEW y \in N
      PROVE  /\ [y EXCEPT !.parent = o] \in N /\ Moved([y EXCEPT !.parent = o], y)
             /\ [y EXCEPT !.parent = o].parent = o
             /\ Moved(y, y)
  <2>0. o \in Nat
    BY <1>1
  <2>1. CASE y \in LeafNode
    BY <2>0, <2>1 DEF LeafNode, InnerNode, Moved
  <2>2. CASE y \in InnerNode
    BY <2>0, <2>2 DEF LeafNode, InnerNode, Moved
  <2> QED BY <2>1, <2>2
<1> HIDE DEF N
<1>5. \A q \in 1..n : at(q) \in N /\ Moved(at(q), t.page[q])
  BY <1>1, <1>4
<1>6. \A q \in 1..n : /\ IsChild(t, q, o) => at(q).parent = o
                      /\ ~IsChild(t, q, o) => at(q).parent = t.page[q].parent
  BY <1>1, <1>3, <1>4
<1> HIDE DEF at
<1>7. g \in Seq(N) /\ Len(g) = n /\ \A q \in 1..n : g[q] = at(q)
  <2>1. g \in [1..n -> N]
    BY <1>1, <1>5
  <2> QED BY <1>1, <2>1, SeqDef, LenProperties
<1> HIDE DEF g, u
<1>8. /\ u \in TreeRec /\ u.height = t.height /\ u.root = t.root /\ u.first = t.first
      /\ u.page = g
  BY <1>2, <1>7 DEF TreeRec, N
<1> QED BY <1>5, <1>6, <1>7, <1>8 DEF u
-----------------------------------------------------------------------------
(* A tree grows by a node. *)

\* The level of a node that is split off node o, or put above it.
Grown(lev, n, l) == [q \in 1..(n + 1) |-> IF q = n + 1 THEN l ELSE lev[q]]

LEMMA LinksGrow ==
  ASSUME NEW t, NEW u, NEW lev, NEW o \in 1..Len(t.page), Len(t.page) \in Nat,
         NEW lev2, lev2 = Grown(lev, Len(t.page), lev[o]),
         Linked(t, lev), Relinked(t, u, o), o \in Nat,
         \A q \in 1..Len(u.page) : lev2[q] = 0 /\ q # u.first => u.page[q].rec # <<>>
  PROVE  Linked(u, lev2)
<1> DEFINE n == Len(t.page)
<1>1. /\ \A q \in 1..n : lev2[q] = lev[q]
      /\ lev2[n + 1] = lev[o]
  BY DEF Grown
<1>2. n \in Nat /\ Len(u.page) = n + 1 /\ n + 1 # NoNode
  BY DEF Relinked, NoNode
<1>3. /\ u.first \in 1..(n + 1) /\ lev2[u.first] = 0 /\ u.page[u.first].prev = NoNode
  <2>1. t.first \in 1..n /\ lev[t.first] = 0 /\ t.page[t.first].prev = NoNode
    BY DEF Linked
  <2>2. t.first # t.page[o].next
    BY <2>1 DEF Linked, NoNode
  <2> QED BY SMTT(30), <1>1, <1>2, <2>1, <2>2 DEF Relinked
<1>4. ASSUME NEW q \in 1..(n + 1), u.page[q].next # NoNode
      PROVE  /\ u.page[q].next \in 1..(n + 1) /\ u.page[q].next # q
             /\ lev2[u.page[q].next] = lev2[q] /\ u.page[u.page[q].next].prev = q
  <2>1. CASE q = n + 1
    <3>1. u.page[q].next = t.page[o].next
      BY <2>1 DEF Relinked
    <3>2. t.page[o].next \in 1..n /\ t.page[o].next # o /\ lev[t.page[o].next] = lev[o]
      BY <1>4, <3>1 DEF Linked
    <3>3. u.page[t.page[o].next].prev = n + 1
      BY <3>2 DEF Relinked
    <3> QED BY <1>1, <1>2, <2>1, <3>1, <3>2, <3>3
  <2>2. CASE q = o
    BY <1>1, <1>2, <2>2 DEF Relinked
  <2>3. CASE q # o /\ q \in 1..n
    <3>1. u.page[q].next = t.page[q].next
      BY <2>3 DEF Relinked
    <3>2. /\ t.page[q].next \in 1..n /\ t.page[q].next # q
          /\ lev[t.page[q].next] = lev[q] /\ t.page[t.page[q].next].prev = q
      BY <1>4, <2>3, <3>1 DEF Linked
    <3>3. PICK x : x = t.page[q].next
      OBVIOUS
    <3>4. x # t.page[o].next
      <4>1. CASE t.page[o].next = NoNode
        BY <3>2, <3>3, <4>1 DEF NoNode
      <4>2. CASE t.page[o].next # NoNode
        <5>1. t.page[t.page[o].next].prev = o
          BY <4>2 DEF Linked
        <5> QED BY <2>3, <3>2, <3>3, <5>1
      <4> QED BY <4>1, <4>2
    <3>5. u.page[x].prev = q
      <4>1. CASE x = o
        <5>1. u.page[o].prev = t.page[o].prev
          BY DEF Relinked
        <5> QED BY <3>2, <3>3, <4>1, <5>1
      <4>2. CASE x # o
        <5>1. u.page[x].prev = t.page[x].prev
          BY <3>2, <3>3, <3>4, <4>2 DEF Relinked
        <5> QED BY <3>2, <3>3, <5>1
      <4> QED BY <4>1, <4>2
    <3> QED BY <1>1, <1>2, <2>3, <3>1, <3>2, <3>3, <3>5
  <2> QED BY <1>2, <2>1, <2>2, <2>3
<1>5. ASSUME NEW q \in 1..(n + 1), u.page[q].prev # NoNode
      PROVE  /\ u.page[q].prev \in 1..(n + 1)
             /\ lev2[u.page[q].prev] = lev2[q] /\ u.page[u.page[q].prev].next = q
  <2>1. CASE q = n + 1
    BY <1>1, <1>2, <2>1 DEF Relinked
  <2>2. CASE q # o /\ q \in 1..n /\ q = t.page[o].next
    <3>1. u.page[q].prev = n + 1 /\ u.page[n + 1].next = q
      BY <2>2 DEF Relinked
    <3>2. lev[q] = lev[o]
      BY <1>2, <2>2 DEF Linked, NoNode
    <3> QED BY <1>1, <1>2, <2>2, <3>1, <3>2
  <2>3. CASE q \in 1..n /\ (q = o \/ q # t.page[o].next)
    <3>1. u.page[q].prev = t.page[q].prev
      BY <2>3 DEF Relinked
    <3>2. /\ t.page[q].prev \in 1..n /\ lev[t.page[q].prev] = lev[q]
          /\ t.page[t.page[q].prev].next = q
      BY <1>5, <2>3, <3>1 DEF Linked
    <3>3. t.page[q].prev # o
      <4>1. CASE q = o
        <5>1. q # NoNode
          BY <2>3 DEF NoNode
        <5> QED BY <3>2, <4>1, <5>1 DEF Linked
      <4>2. CASE q # o
        BY <2>3, <3>2, <4>2
      <4> QED BY <4>1, <4>2
    <3>4. u.page[t.page[q].prev].next = q
      BY <3>2, <3>3 DEF Relinked
    <3> QED BY <1>1, <1>2, <2>3, <3>1, <3>2, <3>4
  <2> QED BY <1>2, <2>1, <2>2, <2>3
<1>6. ASSUME NEW q \in 1..(n + 1), lev2[q] = 0, q # u.first
      PROVE  u.page[q].prev # NoNode
  <2>1. CASE q = n + 1
    BY <2>1 DEF Relinked, NoNode
  <2>2. CASE q \in 1..n
    <3>1. t.page[q].prev # NoNode
      BY <1>1, <1>6, <2>2 DEF Linked, Relinked
    <3>2. q = o => u.page[q].prev = t.page[q].prev
      BY DEF Relinked
    <3>3. q # o => u.page[q].prev = IF q = t.page[o].next THEN n + 1 ELSE t.page[q].prev
      BY <2>2 DEF Relinked
    <3> QED BY <1>2, <3>1, <3>2, <3>3
  <2> QED BY <1>2, <2>1, <2>2
<1> QED BY <1>2, <1>3, <1>4, <1>5, <1>6 DEF Linked

\* u is t with a node more, at the level of node o.
Grows(t, u, lev, lev2, o) ==
  /\ Len(t.page) \in Nat /\ o \in 1..Len(t.page) /\ lev2 = Grown(lev, Len(t.page), lev[o])
  /\ u \in TreeRec /\ u.height = t.height /\ u.root = t.root
  /\ Len(u.page) = Len(t.page) + 1
  /\ \A q \in 1..Len(u.page) : /\ lev2[q] = 0 => LeafOK(u.page[q])
                               /\ lev2[q] # 0 => InnerOK(u.page[q])

LEMMA PagesGrow ==
  ASSUME NEW t, NEW u, NEW lev, NEW lev2, NEW o, Grows(t, u, lev, lev2, o), Pages(t, lev)
  PROVE  Pages(u, lev2)
<1> DEFINE n == Len(t.page)
<1>1. lev \in [1..n -> Nat] /\ t.root \in 1..n /\ lev[t.root] = t.height
      /\ \A q \in 1..n : lev[q] <= t.height
  BY DEF Pages
<1>2. /\ n \in Nat /\ o \in 1..n
      /\ lev2 = [q \in 1..(n + 1) |-> IF q = n + 1 THEN lev[o] ELSE lev[q]]
      /\ Len(u.page) = n + 1 /\ \A q \in 1..(n + 1) : q \in 1..n \/ q = n + 1
  BY DEF Grown, Grows
<1> HIDE DEF n
<1>3. lev[o] \in Nat /\ \A q \in 1..n : lev[q] \in Nat /\ q # n + 1
  BY <1>1, <1>2
<1>4. lev2 \in [1..(n + 1) -> Nat]
  BY <1>2, <1>3
<1>5. /\ \A q \in 1..n : lev2[q] = lev[q]
      /\ lev2[n + 1] = lev[o]
  BY <1>2, <1>3
<1>6. \A q \in 1..(n + 1) : lev2[q] <= t.height
  BY <1>1, <1>2, <1>5
<1>7. t.root \in 1..(n + 1) /\ lev2[t.root] = t.height
  BY <1>1, <1>2, <1>5
<1>8. /\ u \in TreeRec /\ u.height = t.height /\ u.root = t.root
      /\ \A q \in 1..Len(u.page) : /\ lev2[q] = 0 => LeafOK(u.page[q])
                                   /\ lev2[q] # 0 => InnerOK(u.page[q])
  BY DEF Grows
<1>9. /\ lev2 \in [1..Len(u.page) -> Nat] /\ u.root \in 1..Len(u.page)
      /\ lev2[u.root] = u.height /\ \A q \in 1..Len(u.page) : lev2[q] <= u.height
  BY <1>2, <1>4, <1>6, <1>7, <1>8
<1> QED BY <1>8, <1>9 DEF Pages

\* A leaf of a tree and the tree around it.
LEMMA LeafIn ==
  ASSUME NEW t, NEW lev, Pages(t, lev), NEW o \in 1..Len(t.page)
  PROVE  /\ Len(t.page) \in Nat /\ o \in Nat /\ t \in TreeRec
         /\ t.page[o] \in LeafNode \cup InnerNode
         /\ t.page[o].parent \in Nat /\ t.page[o].next \in Nat /\ t.page[o].prev \in Nat
         /\ lev[o] \in Nat
         /\ lev[o] = 0 => /\ t.page[o] \in LeafNode /\ t.page[o].rec \in Seq(Rec)
                          /\ Len(t.page[o].rec) \in 0..FANOUT /\ o # t.root
         /\ lev[o] # 0 => /\ t.page[o] \in InnerNode /\ Len(t.page[o].child) \in 1..FANOUT
                          /\ Inner(t.page[o], Len(t.page[o].child))
<1>1. t \in TreeRec /\ t.page \in Seq(LeafNode \cup InnerNode) /\ t.height # 0
  BY DEF Pages, TreeRec
<1>2. Len(t.page) \in Nat /\ t.page[o] \in LeafNode \cup InnerNode
  BY <1>1
<1>3. /\ t.page[o].parent \in Nat /\ t.page[o].next \in Nat /\ t.page[o].prev \in Nat
  BY <1>2 DEF LeafNode, InnerNode
<1>4. lev[o] = 0 => /\ t.page[o] \in LeafNode /\ t.page[o].rec \in Seq(Rec)
                    /\ Len(t.page[o].rec) \in 0..FANOUT /\ o # t.root
  BY <1>1, TreeAssumption DEF Pages, LeafOK, LeafNode
<1>5. lev[o] # 0 => /\ t.page[o] \in InnerNode /\ Len(t.page[o].child) \in 1..FANOUT
                    /\ Inner(t.page[o], Len(t.page[o].child))
  BY DEF Pages, InnerOK, Inner
<1>6. lev[o] \in Nat /\ o \in Nat
  BY <1>2 DEF Pages
<1> QED BY <1>1, <1>2, <1>3, <1>4, <1>5, <1>6

LEMMA SameOK ==
  ASSUME NEW x, NEW y, Same(x, y) \/ Moved(x, y)
  PROVE  (LeafOK(y) => LeafOK(x)) /\ (InnerOK(y) => InnerOK(x))
BY DEF Same, Moved, LeafOK, InnerOK

LEMMA SplitLeafShape ==
  ASSUME NEW t, NEW lev, Shape(t, lev, NoNode, NoNode), NEW o \in 1..Len(t.page), lev[o] = 0,
         Len(t.page[o].rec) = FANOUT, NEW e \in Rec,
         NEW u, u = SplitLeaf(t, o, e).tree,
         NEW lev2, lev2 = Grown(lev, Len(t.page), lev[o])
  PROVE  /\ Shape(u, lev2, o, Len(t.page) + 1)
         /\ Relinked(t, u, o) /\ u.height = t.height /\ u.root = t.root
         /\ u.page[o].rec = LeftRec(t.page[o].rec, e)
         /\ u.page[Len(t.page) + 1].rec = RightRec(t.page[o].rec, e)
         /\ \A q \in 1..Len(t.page) : q # o => Same(u.page[q], t.page[q])
         /\ \A q \in 1..Len(t.page) : u.page[q].parent = t.page[q].parent
         /\ SplitLeaf(t, o, e).key = RightRec(t.page[o].rec, e)[1].value
         /\ SplitLeaf(t, o, e).key \in Value
<1> DEFINE n == Len(t.page)
           x == t.page[o]
           lr == LeftRec(x.rec, e)
           rr == RightRec(x.rec, e)
           l == [x EXCEPT !.rec = lr]
           r == [x EXCEPT !.rec = rr]
<1>1. Pages(t, lev) /\ Linked(t, lev) /\ Begun(t) /\ Family(t, lev, NoNode)
  BY DEF Shape
<1>2. n \in Nat /\ o \in Nat /\ t \in TreeRec /\ x \in LeafNode /\ x.rec \in Seq(Rec) /\ o # t.root
  BY <1>1, LeafIn
<1>3. /\ lr \in Seq(Rec) /\ Len(lr) = Middle + 1 /\ rr \in Seq(Rec) /\ Len(rr) = FANOUT - Middle
  <2>1. PICK s : s = x.rec
    OBVIOUS
  <2>2. s \in Seq(Rec) /\ Len(s) = FANOUT
    BY <1>2, <2>1
  <2>3. /\ LeftRec(s, e) \in Seq(Rec) /\ Len(LeftRec(s, e)) = Middle + 1
        /\ RightRec(s, e) \in Seq(Rec) /\ Len(RightRec(s, e)) = FANOUT - Middle
    BY <2>2, Halves
  <2> QED BY <2>1, <2>3
<1>4. u = CreateNode(t, o, l, r) /\ SplitLeaf(t, o, e).key = rr[1].value
  <2>1. SplitLeaf(t, o, e).tree = CreateNode(t, o, l, r) /\ SplitLeaf(t, o, e).key = rr[1].value
    BY DEF SplitLeaf, LeftRec, RightRec, GoesRight, LeafPoint, Middle
  <2> QED BY <2>1
<1> HIDE DEF lr, rr
<1>5. /\ l \in LeafNode /\ l.rec = lr /\ l.parent = x.parent /\ l.prev = x.prev
      /\ r \in LeafNode /\ r.rec = rr /\ r.parent = x.parent
  BY <1>2, <1>3 DEF LeafNode
<1> HIDE DEF l, r
<1>6. /\ u \in TreeRec /\ u.height = t.height /\ u.root = t.root /\ Relinked(t, u, o)
      /\ Same(u.page[o], l) /\ Same(u.page[n + 1], r)
      /\ \A q \in 1..n : q # o => Same(u.page[q], t.page[q])
  <2>1. l \in LeafNode \cup InnerNode /\ r \in LeafNode \cup InnerNode /\ l.prev = t.page[o].prev
    BY <1>5
  <2> QED BY <1>2, <1>4, <2>1, CreateNodeIs
<1>7. /\ u.page[o] \in LeafNode /\ u.page[o].rec = lr /\ u.page[o].parent = x.parent
      /\ u.page[n + 1] \in LeafNode /\ u.page[n + 1].rec = rr /\ u.page[n + 1].parent = x.parent
  BY <1>5, <1>6 DEF Same
<1>8. /\ \A q \in 1..n : lev2[q] = lev[q]
      /\ lev2[n + 1] = 0 /\ Len(u.page) = n + 1 /\ u.first = t.first
      /\ \A q \in 1..(n + 1) : q \in 1..n \/ q = n + 1
  BY <1>2, <1>6 DEF Grown, Relinked
<1>9. LeafOK(u.page[o]) /\ LeafOK(u.page[n + 1])
  BY <1>3, <1>7, MiddleIs DEF LeafOK
<1>10. ASSUME NEW q \in 1..(n + 1)
       PROVE  (lev2[q] = 0 => LeafOK(u.page[q])) /\ (lev2[q] # 0 => InnerOK(u.page[q]))
  <2>1. CASE q = o \/ q = n + 1
    BY <1>8, <1>9, <2>1
  <2>2. CASE q \in 1..n /\ q # o
    BY <1>1, <1>6, <1>8, <2>2, SameOK DEF Pages
  <2> QED BY <1>8, <2>1, <2>2
<1>11. Pages(u, lev2)
  <2>1. \A q \in 1..Len(u.page) : /\ lev2[q] = 0 => LeafOK(u.page[q])
                                  /\ lev2[q] # 0 => InnerOK(u.page[q])
    BY <1>8, <1>10
  <2>2. Grows(t, u, lev, lev2, o)
    BY <1>2, <1>6, <1>8, <2>1 DEF Grows
  <2> QED BY <1>1, <2>2, PagesGrow
<1>12. Linked(u, lev2)
  <2>1. ASSUME NEW q \in 1..(n + 1), lev2[q] = 0, q # u.first
        PROVE  u.page[q].rec # <<>>
    <3>1. CASE q = o \/ q = n + 1
      BY <1>3, <1>7, <3>1, MiddleIs
    <3>2. CASE q \in 1..n /\ q # o
      <4>1. t.page[q].rec # <<>> /\ t.page[q] \in LeafNode
        <5>1. lev[q] = 0 /\ q # t.first
          BY <1>8, <2>1, <3>2
        <5>2. q \in 1..Len(t.page)
          BY <3>2
        <5>3. t.page[q].rec # <<>>
          BY <1>1, <5>1, <5>2 DEF Linked
        <5> QED BY <1>1, <5>1, <5>2, <5>3, LeafIn
      <4> QED BY <1>6, <3>2, <4>1 DEF Same
    <3> QED BY <1>8, <3>1, <3>2
  <2> QED BY <1>1, <1>2, <1>6, <1>8, <2>1, LinksGrow
<1>13. \A q \in 1..n : u.page[q].parent = t.page[q].parent
  BY <1>6, <1>7 DEF Same
<1>14. ASSUME NEW p \in 1..(n + 1), lev2[p] # 0
       PROVE  p \in 1..n /\ lev[p] # 0 /\ u.page[p].child = t.page[p].child
  <2>1. p \in 1..n /\ lev[p] # 0 /\ p # o
    BY <1>8, <1>14
  <2>2. t.page[p] \in InnerNode
    BY <1>1, <2>1, LeafIn
  <2> QED BY <1>6, <2>1, <2>2 DEF Same
<1>15. Family(u, lev2, n + 1)
  <2>1. u.page[u.root].parent = NoNode
    <3>1. t.root \in 1..n /\ t.page[t.root].parent = NoNode
      BY <1>1, RootIn
    <3>2. u.root = t.root
      BY <1>6
    <3> QED BY <1>13, <3>1, <3>2
  <2>2. ASSUME NEW p \in 1..(n + 1), lev2[p] # 0, NEW i \in 1..Len(u.page[p].child)
        PROVE  LET c == u.page[p].child[i] IN
               c \in 1..(n + 1) /\ lev2[c] = lev2[p] - 1 /\ u.page[c].parent = p /\ c # n + 1
    <3>1. p \in 1..n /\ lev[p] # 0 /\ u.page[p].child = t.page[p].child
      BY <1>14, <2>2
    <3>2. PICK c : c = t.page[p].child[i]
      OBVIOUS
    <3>3. c \in 1..n /\ lev[c] = lev[p] - 1 /\ t.page[c].parent = p
      <4>1. IsChild(t, c, p)
        BY <2>2, <3>1, <3>2 DEF IsChild
      <4> QED BY <1>1, <3>1, <4>1, ChildIn
    <3>4. c \in 1..(n + 1) /\ lev2[c] = lev2[p] - 1 /\ u.page[c].parent = p /\ c # n + 1
      <4>1. c \in 1..(n + 1) /\ c # n + 1 /\ lev2[c] = lev[c] /\ lev2[p] = lev[p]
        BY <1>2, <1>8, <3>1, <3>3
      <4>2. u.page[c].parent = p
        BY <1>13, <3>3
      <4> QED BY <3>3, <4>1, <4>2
    <3> QED BY <3>1, <3>2, <3>4
  <2>3. ASSUME NEW p \in 1..(n + 1), lev2[p] # 0
        PROVE  \A i, j \in 1..Len(u.page[p].child) : u.page[p].child[i] = u.page[p].child[j] => i = j
    <3>1. p \in 1..n /\ lev[p] # 0 /\ u.page[p].child = t.page[p].child
      BY <1>14, <2>3
    <3>2. \A i, j \in 1..Len(t.page[p].child) : t.page[p].child[i] = t.page[p].child[j] => i = j
      BY <1>1, <3>1 DEF Family
    <3> QED BY <3>1, <3>2
  <2>4. ASSUME NEW q \in 1..(n + 1), q # u.root, q # n + 1
        PROVE  LET p == u.page[q].parent IN p \in 1..(n + 1) /\ lev2[p] # 0 /\ IsChild(u, q, p)
    <3>1. PICK p : p = t.page[q].parent
      OBVIOUS
    <3>2. q \in 1..n /\ q # NoNode
      BY <1>8, <2>4 DEF NoNode
    <3>3. p \in 1..n /\ lev[p] # 0 /\ IsChild(t, q, p)
      BY <1>1, <1>6, <2>4, <3>1, <3>2 DEF Family
    <3>4. lev2[p] # 0 /\ p \in 1..(n + 1)
      BY <1>2, <1>8, <3>3
    <3>5. u.page[p].child = t.page[p].child
      BY <1>14, <3>4
    <3>6. IsChild(u, q, p)
      BY <3>3, <3>5 DEF IsChild
    <3> QED BY <1>13, <3>1, <3>2, <3>4, <3>6
  <2>6. Len(u.page) = n + 1
    BY <1>8
  <2>7. \A p \in 1..Len(u.page) : lev2[p] # 0 => \A i \in 1..Len(u.page[p].child) :
          LET c == u.page[p].child[i] IN
          c \in 1..Len(u.page) /\ lev2[c] = lev2[p] - 1 /\ u.page[c].parent = p /\ c # n + 1
    BY SMTT(30), <2>6, <2>2
  <2>8. \A p \in 1..Len(u.page) : lev2[p] # 0 => \A i, j \in 1..Len(u.page[p].child) :
          u.page[p].child[i] = u.page[p].child[j] => i = j
    BY <2>6, <2>3
  <2>9. \A q \in 1..Len(u.page) : q # u.root /\ q # n + 1 =>
          LET p == u.page[q].parent IN p \in 1..Len(u.page) /\ lev2[p] # 0 /\ IsChild(u, q, p)
    BY <2>6, <2>4
  <2> QED BY <2>1, <2>7, <2>8, <2>9 DEF Family
<1>16. Pending(u, lev2, o, n + 1)
  <2>1. t.root \in 1..n
    BY <1>1 DEF Pages
  <2> QED BY <1>2, <1>6, <1>7, <1>8, <2>1 DEF Pending
<1>17. SplitLeaf(t, o, e).key \in Value
  <2>1. rr[1] \in Rec
    BY <1>3, MiddleIs
  <2>2. rr[1].value \in Value
    BY <2>1 DEF Rec
  <2> QED BY <1>4, <2>2
<1>18. Begun(u)
  <2>1. t.first \in 1..n /\ lev[t.first] = 0 /\ u.first = t.first
    BY <1>1, <1>8 DEF Linked
  <2>2. CASE t.first = o
    BY <1>3, <1>7, <2>1, <2>2, MiddleIs DEF Begun
  <2>3. CASE t.first # o
    <3>1. u.page[t.first].next = t.page[t.first].next
      BY <1>6, <2>1, <2>3 DEF Relinked
    <3>2. t.page[t.first] \in LeafNode
      BY <1>1, <2>1, LeafIn
    <3>3. u.page[t.first].rec = t.page[t.first].rec
      BY <1>6, <2>1, <2>3, <3>2 DEF Same
    <3> QED BY <1>1, <2>1, <3>1, <3>3 DEF Begun
  <2> QED BY <2>2, <2>3
<1> QED BY <1>4, <1>6, <1>7, <1>11, <1>12, <1>13, <1>15, <1>16, <1>17, <1>18 DEF Shape, lr, rr
-----------------------------------------------------------------------------
(* A leaf is written. *)

\* u is t with other entries in leaf o.
Rewritten(t, u, o, rec) ==
  /\ u \in TreeRec /\ u.height = t.height /\ u.root = t.root /\ u.first = t.first
  /\ Len(u.page) = Len(t.page)
  /\ u.page[o] \in LeafNode /\ u.page[o].rec = rec /\ u.page[o].parent = t.page[o].parent
  /\ u.page[o].next = t.page[o].next /\ u.page[o].prev = t.page[o].prev
  /\ \A q \in 1..Len(t.page) : q # o => u.page[q] = t.page[q]

LEMMA RewriteIs ==
  ASSUME NEW t \in TreeRec, NEW o \in 1..Len(t.page), t.page[o] \in LeafNode,
         NEW rec \in Seq(Rec)
  PROVE  Rewritten(t, [t EXCEPT !.page[o].rec = rec], o, rec)
<1> DEFINE N == LeafNode \cup InnerNode
           n == Len(t.page)
           x == [t.page[o] EXCEPT !.rec = rec]
           g == [t.page EXCEPT ![o] = x]
           u == [t EXCEPT !.page = g]
<1>1. /\ t.page \in Seq(N) /\ n \in Nat /\ DOMAIN t.page = 1..n
  BY DEF TreeRec
<1>2. /\ x \in LeafNode /\ x.rec = rec /\ x.parent = t.page[o].parent
      /\ x.next = t.page[o].next /\ x.prev = t.page[o].prev
  BY DEF LeafNode
<1>3. u = [t EXCEPT !.page[o].rec = rec]
  BY DEF TreeRec
<1> HIDE DEF x
<1>4. x \in N
  BY <1>2
<1> HIDE DEF N
<1>5. g \in Seq(N) /\ Len(g) = n /\ g[o] = x /\ \A q \in 1..n : q # o => g[q] = t.page[q]
  BY <1>1, <1>4
<1> HIDE DEF g
<1>6. /\ u \in TreeRec /\ u.height = t.height /\ u.root = t.root /\ u.first = t.first
      /\ u.page = g
  BY <1>5 DEF TreeRec, N
<1> HIDE DEF u
<1>7. Rewritten(t, u, o, rec)
  BY <1>2, <1>5, <1>6 DEF Rewritten
<1> QED BY <1>3, <1>7

LEMMA RewriteShape ==
  ASSUME NEW t, NEW u, NEW lev, NEW old, NEW after, Shape(t, lev, old, after), NEW o \in 1..Len(t.page),
         lev[o] = 0, NEW rec \in Seq(Rec), Rewritten(t, u, o, rec),
         Len(rec) <= FANOUT, t.page[o].rec # <<>> => rec # <<>>
  PROVE  Shape(u, lev, old, after)
<1> DEFINE n == Len(t.page)
<1>1. /\ Pages(t, lev) /\ Linked(t, lev) /\ Family(t, lev, after) /\ Pending(t, lev, old, after)
      /\ Len(u.page) = n /\ t.root \in 1..n /\ t.first \in 1..n
  BY DEF Shape, Rewritten, Pages, Linked
<1>2. /\ u \in TreeRec /\ u.height = t.height /\ u.root = t.root /\ u.first = t.first
      /\ u.page[o] \in LeafNode /\ u.page[o].rec = rec
  BY DEF Rewritten
<1>3. \A q \in 1..n : /\ u.page[q].parent = t.page[q].parent
                      /\ u.page[q].next = t.page[q].next /\ u.page[q].prev = t.page[q].prev
                      /\ q # o => u.page[q] = t.page[q]
  BY DEF Rewritten
<1>4. Pages(u, lev)
  <2>1. ASSUME NEW q \in 1..n
        PROVE  (lev[q] = 0 => LeafOK(u.page[q])) /\ (lev[q] # 0 => InnerOK(u.page[q]))
    <3>1. CASE q = o
      BY <1>2, <3>1 DEF LeafOK
    <3>2. CASE q # o
      BY <1>1, <1>3, <3>2 DEF Pages
    <3> QED BY <3>1, <3>2
  <2> QED BY <1>1, <1>2, <2>1 DEF Pages
<1>5. Linked(u, lev)
  <2>1. ASSUME NEW q \in 1..n, lev[q] = 0, q # t.first
        PROVE  u.page[q].rec # <<>>
    <3>1. t.page[q].rec # <<>>
      BY <1>1, <2>1 DEF Linked
    <3> QED BY <1>2, <1>3, <3>1
  <2>2. ASSUME NEW q \in 1..n
        PROVE  /\ u.page[q].next # NoNode =>
                    /\ u.page[q].next \in 1..n /\ u.page[q].next # q
                    /\ lev[u.page[q].next] = lev[q] /\ u.page[u.page[q].next].prev = q
               /\ u.page[q].prev # NoNode =>
                    /\ u.page[q].prev \in 1..n
                    /\ lev[u.page[q].prev] = lev[q] /\ u.page[u.page[q].prev].next = q
               /\ lev[q] = 0 /\ q # t.first => u.page[q].prev # NoNode
    <3>1. PICK a, b : a = t.page[q].next /\ b = t.page[q].prev
      OBVIOUS
    <3>2. /\ a # NoNode => a \in 1..n /\ a # q /\ lev[a] = lev[q] /\ t.page[a].prev = q
          /\ b # NoNode => b \in 1..n /\ lev[b] = lev[q] /\ t.page[b].next = q
          /\ lev[q] = 0 /\ q # t.first => b # NoNode
      BY <1>1, <3>1 DEF Linked
    <3>3. u.page[q].next = a /\ u.page[q].prev = b
      BY <1>3, <3>1
    <3>4. /\ a # NoNode => u.page[a].prev = q
          /\ b # NoNode => u.page[b].next = q
      BY <1>3, <3>2
    <3> QED BY <3>2, <3>3, <3>4
  <2>3. lev[t.first] = 0 /\ u.page[t.first].prev = NoNode
    BY <1>1, <1>3 DEF Linked
  <2> HIDE DEF n
  <2> QED BY <1>1, <1>2, <2>1, <2>2, <2>3 DEF Linked
<1>6. \A p \in 1..n : lev[p] # 0 => u.page[p] = t.page[p]
  BY <1>3
<1>7. Family(u, lev, after)
  <2>1. u.page[u.root].parent = NoNode
    BY <1>1, <1>2, <1>3 DEF Family
  <2>2. ASSUME NEW p \in 1..n, lev[p] # 0
        PROVE  /\ \A i \in 1..Len(u.page[p].child) :
                    LET c == u.page[p].child[i] IN
                    c \in 1..n /\ lev[c] = lev[p] - 1 /\ u.page[c].parent = p /\ c # after
               /\ \A i, j \in 1..Len(u.page[p].child) :
                    u.page[p].child[i] = u.page[p].child[j] => i = j
    <3>1. u.page[p] = t.page[p]
      BY <1>6, <2>2
    <3>2. PICK s : s = t.page[p].child
      OBVIOUS
    <3>3. /\ \A i \in 1..Len(s) : s[i] \in 1..n /\ lev[s[i]] = lev[p] - 1 /\ t.page[s[i]].parent = p
                                   /\ s[i] # after
          /\ \A i, j \in 1..Len(s) : s[i] = s[j] => i = j
      BY <1>1, <2>2, <3>2 DEF Family
    <3>4. \A i \in 1..Len(s) : u.page[s[i]].parent = p
      BY <1>3, <3>3
    <3>5. u.page[p].child = s
      BY <3>1, <3>2
    <3> QED BY <3>3, <3>4, <3>5
  <2>3. ASSUME NEW q \in 1..n, q # t.root, q # after
        PROVE  LET p == u.page[q].parent IN p \in 1..n /\ lev[p] # 0 /\ IsChild(u, q, p)
    <3>1. PICK p : p = t.page[q].parent
      OBVIOUS
    <3>2. p \in 1..n /\ lev[p] # 0 /\ IsChild(t, q, p)
      BY <1>1, <2>3, <3>1 DEF Family
    <3>3. IsChild(u, q, p)
      BY <1>6, <3>2 DEF IsChild
    <3> QED BY <1>3, <3>1, <3>2, <3>3
  <2>7. \A p \in 1..Len(u.page) : lev[p] # 0 => \A i \in 1..Len(u.page[p].child) :
          LET c == u.page[p].child[i] IN
          c \in 1..Len(u.page) /\ lev[c] = lev[p] - 1 /\ u.page[c].parent = p /\ c # after
    BY SMTT(30), <1>1, <2>2
  <2>8. \A p \in 1..Len(u.page) : lev[p] # 0 => \A i, j \in 1..Len(u.page[p].child) :
          u.page[p].child[i] = u.page[p].child[j] => i = j
    BY <1>1, <2>2
  <2>9. \A q \in 1..Len(u.page) : q # u.root /\ q # after =>
          LET p == u.page[q].parent IN p \in 1..Len(u.page) /\ lev[p] # 0 /\ IsChild(u, q, p)
    BY <1>1, <1>2, <2>3
  <2> QED BY <2>1, <2>7, <2>8, <2>9 DEF Family
<1>8. Pending(u, lev, old, after)
  BY <1>1, <1>2, <1>3 DEF Pending
<1>9. Begun(u)
  <2>1. t.page[t.first].next # NoNode => t.page[t.first].rec # <<>>
    BY DEF Shape, Begun
  <2> QED BY <1>1, <1>2, <1>3, <2>1 DEF Begun
<1> QED BY <1>4, <1>5, <1>7, <1>8, <1>9 DEF Shape

LEMMA PlaceShape ==
  ASSUME NEW t, NEW lev, Shape(t, lev, NoNode, NoNode), NEW o \in 1..Len(t.page), lev[o] = 0,
         Len(t.page[o].rec) < FANOUT, NEW e \in Rec
  PROVE  /\ Shape(PlaceInLeaf(t, o, e), lev, NoNode, NoNode)
         /\ Rewritten(t, PlaceInLeaf(t, o, e), o, AM_InsertRecNoSplit(t.page[o].rec, e))
<1> DEFINE rec == AM_InsertRecNoSplit(t.page[o].rec, e)
           u == PlaceInLeaf(t, o, e)
<1>1. Pages(t, lev)
  BY DEF Shape
<1>2. t \in TreeRec /\ t.page[o] \in LeafNode /\ t.page[o].rec \in Seq(Rec)
  BY <1>1, LeafIn
<1>3. PICK s : s = t.page[o].rec
  OBVIOUS
<1>4. s \in Seq(Rec) /\ Len(s) < FANOUT
  BY <1>2, <1>3
<1>5. AM_InsertRecNoSplit(s, e) \in Seq(Rec) /\ Len(AM_InsertRecNoSplit(s, e)) = Len(s) + 1
  BY <1>4, InsertRec
<1>6. rec \in Seq(Rec) /\ Len(rec) <= FANOUT /\ rec # <<>>
  BY <1>3, <1>4, <1>5, TreeAssumption
<1>7. u = [t EXCEPT !.page[o].rec = rec]
  BY DEF PlaceInLeaf
<1> HIDE DEF rec, u
<1>8. Rewritten(t, u, o, rec)
  BY <1>2, <1>6, <1>7, RewriteIs
<1>9. Shape(u, lev, NoNode, NoNode)
  BY <1>6, <1>8, RewriteShape
<1> QED BY <1>8, <1>9 DEF rec, u

LEMMA MarkShape ==
  ASSUME NEW t, NEW lev, NEW old, NEW after, Shape(t, lev, old, after), NEW at,
         at.leaf \in 1..Len(t.page), lev[at.leaf] = 0, at.entry \in 1..Len(t.page[at.leaf].rec),
         NEW rec, rec = [t.page[at.leaf].rec EXCEPT ![at.entry].deleted = TRUE]
  PROVE  /\ Shape(AM_MarkDeleted(t, at), lev, old, after)
         /\ Rewritten(t, AM_MarkDeleted(t, at), at.leaf, rec)
<1> DEFINE o == at.leaf
           i == at.entry
           u == AM_MarkDeleted(t, at)
           s == t.page[o].rec
<1>1. Pages(t, lev)
  BY DEF Shape
<1>2. t \in TreeRec /\ t.page[o] \in LeafNode /\ s \in Seq(Rec) /\ Len(s) \in 0..FANOUT
  BY <1>1, LeafIn
<1>3. u = [t EXCEPT !.page[o].rec = [t.page[o].rec EXCEPT ![i].deleted = TRUE]]
  BY <1>2 DEF AM_MarkDeleted, TreeRec, LeafNode
<1> HIDE DEF u
<1>4. rec \in Seq(Rec) /\ Len(rec) = Len(s)
  <2> DEFINE e == [s[i] EXCEPT !.deleted = TRUE]
  <2>1. s[i] \in Rec /\ i \in 1..Len(s)
    BY SMTT(30), <1>2
  <2>2. e \in Rec
    BY <2>1 DEF Rec
  <2>3. rec = [s EXCEPT ![i] = e]
    OBVIOUS
  <2> HIDE DEF e
  <2> QED BY SMTT(30), <1>2, <2>1, <2>2, <2>3
<1>5. Rewritten(t, u, o, rec)
  BY <1>2, <1>3, <1>4, RewriteIs
<1>6. Len(rec) <= FANOUT /\ (t.page[o].rec # <<>> => rec # <<>>)
  <2>1. Len(rec) <= FANOUT
    BY <1>2, <1>4, TreeAssumption
  <2>2. s # <<>> => rec # <<>>
    BY <1>2, <1>4
  <2> QED BY <2>1, <2>2
<1>7. Shape(u, lev, old, after)
  BY <1>4, <1>5, <1>6, RewriteShape
<1> QED BY <1>5, <1>7 DEF u
-----------------------------------------------------------------------------
(* An inner node is split. *)

LEMMA SpreadFrom ==
  ASSUME NEW n \in Nat, NEW s, NEW p \in 1..(n + 1), NEW e, NEW j \in 1..(n + 1)
  PROVE  Spread(s, p, e, j) = e \/ \E i \in 1..n : Spread(s, p, e, j) = s[i]
<1>1. CASE j < p
  BY <1>1 DEF Spread
<1>2. CASE j = p
  BY <1>2 DEF Spread
<1>3. CASE j > p
  <2>1. j - 1 \in 1..n /\ Spread(s, p, e, j) = s[j - 1]
    BY <1>3 DEF Spread
  <2> QED BY <2>1
<1> QED BY <1>1, <1>2, <1>3

LEMMA SpreadOnce ==
  ASSUME NEW n \in Nat, NEW s, NEW p \in 1..(n + 1), NEW e,
         \A i \in 1..n : s[i] # e, \A i, j \in 1..n : s[i] = s[j] => i = j,
         NEW i \in 1..(n + 1), NEW j \in 1..(n + 1), Spread(s, p, e, i) = Spread(s, p, e, j)
  PROVE  i = j
<1> DEFINE low(k) == IF k < p THEN k ELSE k - 1
<1>1. \A k \in 1..(n + 1) : k # p => low(k) \in 1..n /\ Spread(s, p, e, k) = s[low(k)]
  BY DEF Spread
<1>2. Spread(s, p, e, p) = e
  BY DEF Spread
<1>3. CASE i = p \/ j = p
  BY <1>1, <1>2, <1>3
<1>4. CASE i # p /\ j # p
  <2>1. low(i) = low(j)
    <3> HIDE DEF low
    <3> QED BY <1>1, <1>4
  <2> QED BY <1>4, <2>1
<1> QED BY <1>3, <1>4

\* q is among the children of node x.
HasChild(x, q) == \E i \in 1..Len(x.child) : x.child[i] = q

\* w is t with page o split into l and r.
Halved(t, w, o, l, r) ==
  LET n == Len(t.page) IN
  /\ w \in TreeRec /\ w.height = t.height /\ w.root = t.root /\ Relinked(t, w, o)
  /\ w.page[o] \in InnerNode /\ w.page[o].keys = l.keys /\ w.page[o].child = l.child
  /\ w.page[n + 1] \in InnerNode /\ w.page[n + 1].keys = r.keys /\ w.page[n + 1].child = r.child
  /\ \A q \in 1..n : q # o =>
       /\ t.page[q] \in LeafNode => w.page[q] \in LeafNode /\ w.page[q].rec = t.page[q].rec
       /\ t.page[q] \in InnerNode => /\ w.page[q] \in InnerNode /\ w.page[q].keys = t.page[q].keys
                                     /\ w.page[q].child = t.page[q].child
  /\ \A q \in 1..n : w.page[q].parent = IF HasChild(r, q) THEN n + 1 ELSE t.page[q].parent
  /\ w.page[n + 1].parent = IF HasChild(r, n + 1) THEN n + 1 ELSE t.page[o].parent

LEMMA SplitInternalHalved ==
  ASSUME NEW t, NEW lev, Pages(t, lev), NEW o \in 1..Len(t.page), lev[o] # 0,
         Inner(t.page[o], FANOUT), NEW key \in Value, NEW after \in Nat
  PROVE  Halved(t, SplitInternal(t, o, key, after).tree, o,
                LeftNode(t.page[o], key, after), RightNode(t.page[o], key, after))
<1> DEFINE n == Len(t.page)
           l == LeftNode(t.page[o], key, after)
           r == RightNode(t.page[o], key, after)
           u == CreateNode(t, o, l, r)
           w == AM_ResetIndexChildParent(u, n + 1)
<1>1. n \in Nat /\ o \in Nat /\ t \in TreeRec
  BY LeafIn
<1>2. /\ l \in InnerNode /\ r \in InnerNode
      /\ l.parent = t.page[o].parent /\ l.prev = t.page[o].prev /\ r.parent = t.page[o].parent
  <2>1. PICK x : x = t.page[o]
    OBVIOUS
  <2>2. Inner(x, FANOUT)
    BY <2>1
  <2>3. /\ Inner(LeftNode(x, key, after), LeftSize(x, key))
        /\ Inner(RightNode(x, key, after), FANOUT + 1 - LeftSize(x, key))
        /\ LeftNode(x, key, after).parent = x.parent
        /\ LeftNode(x, key, after).prev = x.prev
        /\ RightNode(x, key, after).parent = x.parent
    BY <2>2, NodeHalves
  <2> QED BY <2>1, <2>3 DEF Inner
<1>3. SplitInternal(t, o, key, after).tree = w
  BY DEF SplitInternal, LeftNode, RightNode, Stays, Leaving, Part, KeyPoint, KeyRight, KeyMiddle
<1> HIDE DEF l, r
<1>4. /\ u \in TreeRec /\ u.height = t.height /\ u.root = t.root /\ Relinked(t, u, o)
      /\ Same(u.page[o], l) /\ Same(u.page[n + 1], r)
      /\ \A q \in 1..n : q # o => Same(u.page[q], t.page[q])
  <2>1. l \in LeafNode \cup InnerNode /\ r \in LeafNode \cup InnerNode
    BY <1>2
  <2> QED BY <1>1, <1>2, <2>1, CreateNodeIs
<1> HIDE DEF u
<1>5. /\ u.page[o] \in InnerNode /\ u.page[o].keys = l.keys /\ u.page[o].child = l.child
      /\ u.page[o].parent = t.page[o].parent
      /\ u.page[n + 1] \in InnerNode /\ u.page[n + 1].keys = r.keys
      /\ u.page[n + 1].child = r.child /\ u.page[n + 1].parent = t.page[o].parent
  BY <1>2, <1>4 DEF Same
<1>6. Len(u.page) = n + 1 /\ n + 1 \in 1..Len(u.page)
  BY <1>1, <1>4 DEF Relinked
<1>7. /\ w \in TreeRec /\ w.height = u.height /\ w.root = u.root /\ w.first = u.first
      /\ Len(w.page) = Len(u.page)
      /\ \A q \in 1..Len(u.page) :
           /\ Moved(w.page[q], u.page[q])
           /\ IsChild(u, q, n + 1) => w.page[q].parent = n + 1
           /\ ~IsChild(u, q, n + 1) => w.page[q].parent = u.page[q].parent
  BY <1>4, <1>5, <1>6, ResetIs
<1> HIDE DEF w
<1>8. \A q : IsChild(u, q, n + 1) <=> HasChild(r, q)
  BY <1>5 DEF IsChild, HasChild
<1>9. \A q \in 1..n : q \in 1..(n + 1)
  BY <1>1
<1>10. /\ Moved(w.page[o], u.page[o]) /\ Moved(w.page[n + 1], u.page[n + 1])
       /\ \A q \in 1..n : Moved(w.page[q], u.page[q])
  BY <1>6, <1>7, <1>9
<1>11. Relinked(t, w, o)
  BY SMTT(30), <1>4, <1>6, <1>7, <1>10 DEF Relinked, Moved
<1>12. /\ w.page[o] \in InnerNode /\ w.page[o].keys = l.keys /\ w.page[o].child = l.child
       /\ w.page[n + 1] \in InnerNode /\ w.page[n + 1].keys = r.keys
       /\ w.page[n + 1].child = r.child
  BY <1>5, <1>10 DEF Moved
<1>13. ASSUME NEW q \in 1..n, q # o
       PROVE  /\ t.page[q] \in LeafNode => w.page[q] \in LeafNode /\ w.page[q].rec = t.page[q].rec
              /\ t.page[q] \in InnerNode => /\ w.page[q] \in InnerNode
                                            /\ w.page[q].keys = t.page[q].keys
                                            /\ w.page[q].child = t.page[q].child
  <2>1. Same(u.page[q], t.page[q]) /\ Moved(w.page[q], u.page[q])
    BY <1>4, <1>10, <1>13
  <2> QED BY <2>1 DEF Same, Moved
<1>14. \A q \in 1..n : u.page[q].parent = t.page[q].parent
  BY <1>4, <1>5 DEF Same
<1>15. \A q \in 1..n : w.page[q].parent = IF HasChild(r, q) THEN n + 1 ELSE t.page[q].parent
  BY <1>6, <1>7, <1>8, <1>9, <1>14
<1>16. w.page[n + 1].parent = IF HasChild(r, n + 1) THEN n + 1 ELSE t.page[o].parent
  BY <1>5, <1>6, <1>7, <1>8
<1>17. Halved(t, w, o, l, r)
  BY <1>4, <1>7, <1>11, <1>12, <1>13, <1>15, <1>16 DEF Halved
<1> QED BY <1>3, <1>17 DEF l, r

\* The node that a split's key goes to, if there is one above.
LEMMA Above ==
  ASSUME NEW t, NEW lev, NEW old, NEW after, Shape(t, lev, old, after), after # NoNode,
         NEW o, o = t.page[old].parent
  PROVE  /\ old \in 1..Len(t.page) /\ after \in 1..Len(t.page) /\ old # after /\ after # t.root
         /\ t.page[after].parent = o /\ lev[after] = lev[old]
         /\ o = NoNode => old = t.root
         /\ o # NoNode => /\ o \in 1..Len(t.page) /\ lev[o] # 0 /\ IsChild(t, old, o)
                          /\ lev[old] = lev[o] - 1
<1>1. /\ old \in 1..Len(t.page) /\ after \in 1..Len(t.page) /\ old # after /\ after # t.root
      /\ t.page[after].parent = o /\ lev[after] = lev[old]
  BY DEF Shape, Pending
<1>2. ASSUME old # t.root
      PROVE  o \in 1..Len(t.page) /\ lev[o] # 0 /\ IsChild(t, old, o)
  BY <1>1, <1>2 DEF Shape, Family
<1>3. ASSUME old = t.root
      PROVE  o = NoNode
  BY <1>3 DEF Shape, Family
<1>4. ASSUME old # t.root
      PROVE  lev[old] = lev[o] - 1
  <2>1. Family(t, lev, after)
    BY DEF Shape
  <2> QED BY <1>2, <1>4, <2>1, ChildIn
<1>5. o \in 1..Len(t.page) => o # NoNode
  BY DEF NoNode
<1> QED BY <1>1, <1>2, <1>3, <1>4, <1>5

\* The children of o and node after are the children of l and r, each once.
Shared(t, o, after, l, r) ==
  /\ \A i, j \in 1..Len(l.child) : l.child[i] = l.child[j] => i = j
  /\ \A i, j \in 1..Len(r.child) : r.child[i] = r.child[j] => i = j
  /\ \A q : ~(HasChild(l, q) /\ HasChild(r, q))
  /\ \A q : HasChild(l, q) \/ HasChild(r, q) <=> q = after \/ IsChild(t, q, o)

LEMMA HalvesShared ==
  ASSUME NEW t, NEW lev, NEW after, Family(t, lev, after), NEW o \in 1..Len(t.page), lev[o] # 0,
         Inner(t.page[o], FANOUT), NEW key \in Value, after \in Nat
  PROVE  Shared(t, o, after, LeftNode(t.page[o], key, after), RightNode(t.page[o], key, after))
<1> DEFINE x == t.page[o]
           l == LeftNode(x, key, after)
           r == RightNode(x, key, after)
           m == LeftSize(x, key)
           p == ChildPlace(x, key)
           S(j) == Spread(x.child, p, after, j)
<1>1. /\ m \in 2..FANOUT /\ FANOUT + 1 - m \in 1..FANOUT /\ Inner(l, m) /\ Inner(r, FANOUT + 1 - m)
      /\ p \in 2..(FANOUT + 1)
      /\ \A j \in 1..m : l.child[j] = S(j)
      /\ \A j \in 1..(FANOUT + 1 - m) : r.child[j] = S(m + j)
  <2>1. PICK y : y = t.page[o]
    OBVIOUS
  <2>2. Inner(y, FANOUT)
    BY <2>1
  <2>3. /\ LeftSize(y, key) \in 2..FANOUT /\ FANOUT + 1 - LeftSize(y, key) \in 1..FANOUT
        /\ Inner(LeftNode(y, key, after), LeftSize(y, key))
        /\ Inner(RightNode(y, key, after), FANOUT + 1 - LeftSize(y, key))
        /\ ChildPlace(y, key) \in 2..(FANOUT + 1)
    BY <2>2, NodeHalves
  <2>4. /\ \A j \in 1..LeftSize(y, key) : LeftNode(y, key, after).child[j]
              = Spread(y.child, ChildPlace(y, key), after, j)
        /\ \A j \in 1..(FANOUT + 1 - LeftSize(y, key)) : RightNode(y, key, after).child[j]
              = Spread(y.child, ChildPlace(y, key), after, LeftSize(y, key) + j)
    BY <2>2, NodeHalves
  <2> QED BY <2>1, <2>3, <2>4
<1>2. /\ FANOUT \in Nat /\ p \in 1..(FANOUT + 1)
      /\ \A i \in 1..FANOUT : x.child[i] # after
      /\ \A i, j \in 1..FANOUT : x.child[i] = x.child[j] => i = j
  <2>1. Len(t.page[o].child) = FANOUT
    BY DEF Inner
  <2>2. /\ \A i \in 1..Len(t.page[o].child) : t.page[o].child[i] # after
        /\ \A i, j \in 1..Len(t.page[o].child) : t.page[o].child[i] = t.page[o].child[j] => i = j
    BY DEF Family
  <2>3. FANOUT \in Nat /\ p \in 1..(FANOUT + 1)
    BY <1>1, TreeAssumption
  <2> HIDE DEF p
  <2> QED BY <2>1, <2>2, <2>3
<1>3. Len(l.child) = m /\ Len(r.child) = FANOUT + 1 - m /\ Len(x.child) = FANOUT
  BY <1>1 DEF Inner
<1> HIDE DEF l, r, m, p, x
<1>4. ASSUME NEW i \in 1..(FANOUT + 1), NEW j \in 1..(FANOUT + 1), S(i) = S(j)
      PROVE  i = j
  BY <1>2, <1>4, SpreadOnce
<1>5. /\ \A j \in 1..(FANOUT + 1) : S(j) = after \/ \E i \in 1..FANOUT : S(j) = x.child[i]
      /\ S(p) = after
      /\ \A i \in 1..FANOUT : \E j \in 1..(FANOUT + 1) : S(j) = x.child[i]
  <2>1. PICK s : s = x.child
    OBVIOUS
  <2>2. Spread(s, p, after, p) = after
    BY <1>2 DEF Spread
  <2>3. ASSUME NEW i \in 1..FANOUT
        PROVE  \E j \in 1..(FANOUT + 1) : Spread(s, p, after, j) = s[i]
    <3>1. CASE i < p
      <4>1. i \in 1..(FANOUT + 1) /\ Spread(s, p, after, i) = s[i]
        BY <1>2, <3>1 DEF Spread
      <4> QED BY <4>1
    <3>2. CASE i >= p
      <4>1. i + 1 \in 1..(FANOUT + 1) /\ Spread(s, p, after, i + 1) = s[i]
        BY <1>2, <3>2 DEF Spread
      <4> QED BY <4>1
    <3> QED BY <1>2, <3>1, <3>2
  <2>4. ASSUME NEW j \in 1..(FANOUT + 1)
        PROVE  Spread(s, p, after, j) = after \/ \E i \in 1..FANOUT : Spread(s, p, after, j) = s[i]
    <3>1. CASE j < p
      <4>1. j \in 1..FANOUT /\ Spread(s, p, after, j) = s[j]
        BY <1>2, <3>1 DEF Spread
      <4> QED BY <4>1
    <3>2. CASE j = p
      BY <3>2 DEF Spread
    <3>3. CASE j > p
      <4>1. j - 1 \in 1..FANOUT /\ Spread(s, p, after, j) = s[j - 1]
        BY <1>2, <3>3 DEF Spread
      <4> QED BY <4>1
    <3> QED BY <1>2, <3>1, <3>2, <3>3
  <2> QED BY <2>1, <2>2, <2>3, <2>4
<1> HIDE DEF S
<1>6. /\ \A j \in 1..m : j \in 1..(FANOUT + 1)
      /\ \A j \in 1..(FANOUT + 1 - m) : m + j \in 1..(FANOUT + 1)
      /\ \A j \in 1..(FANOUT + 1) : j \in 1..m \/ (j - m \in 1..(FANOUT + 1 - m) /\ m + (j - m) = j)
  BY <1>1, <1>2
<1>7. \A i, j \in 1..m : l.child[i] = l.child[j] => i = j
  BY <1>1, <1>4, <1>6
<1>8. ASSUME NEW i \in 1..(FANOUT + 1 - m), NEW j \in 1..(FANOUT + 1 - m), r.child[i] = r.child[j]
      PROVE  i = j
  <2>1. m + i = m + j
    BY <1>1, <1>4, <1>6, <1>8
  <2> QED BY <1>1, <2>1
<1>9. ASSUME NEW q, HasChild(l, q), HasChild(r, q)
      PROVE  FALSE
  <2>1. PICK i \in 1..m : S(i) = q
    BY <1>1, <1>3, <1>9 DEF HasChild
  <2>2. PICK j \in 1..(FANOUT + 1 - m) : S(m + j) = q
    BY <1>1, <1>3, <1>9 DEF HasChild
  <2>3. i = m + j
    BY <1>4, <1>6, <2>1, <2>2
  <2> QED BY <1>1, <2>3
<1>10. \A q : HasChild(l, q) \/ HasChild(r, q) <=> \E j \in 1..(FANOUT + 1) : S(j) = q
  <2>1. ASSUME NEW q, HasChild(l, q) PROVE \E j \in 1..(FANOUT + 1) : S(j) = q
    BY <1>1, <1>3, <1>6, <2>1 DEF HasChild
  <2>2. ASSUME NEW q, HasChild(r, q) PROVE \E j \in 1..(FANOUT + 1) : S(j) = q
    BY <1>1, <1>3, <1>6, <2>2 DEF HasChild
  <2>3. ASSUME NEW q, NEW j \in 1..(FANOUT + 1), S(j) = q PROVE HasChild(l, q) \/ HasChild(r, q)
    <3>1. CASE j \in 1..m
      BY <1>1, <1>3, <2>3, <3>1 DEF HasChild
    <3>2. CASE j - m \in 1..(FANOUT + 1 - m) /\ m + (j - m) = j
      <4>1. r.child[j - m] = q
        BY <1>1, <2>3, <3>2
      <4> QED BY <1>3, <3>2, <4>1 DEF HasChild
    <3> QED BY <1>6, <3>1, <3>2
  <2> QED BY <2>1, <2>2, <2>3
<1>11. \A q : q = after \/ IsChild(t, q, o) <=> \E j \in 1..(FANOUT + 1) : S(j) = q
  <2>1. \A q : IsChild(t, q, o) <=> \E i \in 1..FANOUT : x.child[i] = q
    BY <1>3 DEF IsChild, x
  <2>2. ASSUME NEW q, q = after \/ IsChild(t, q, o) PROVE \E j \in 1..(FANOUT + 1) : S(j) = q
    BY <1>2, <1>5, <2>1, <2>2
  <2>3. ASSUME NEW q, NEW j \in 1..(FANOUT + 1), S(j) = q PROVE q = after \/ IsChild(t, q, o)
    BY <1>5, <2>1, <2>3
  <2> QED BY <2>2, <2>3
<1>12. Shared(t, o, after, l, r)
  BY <1>3, <1>7, <1>8, <1>9, <1>10, <1>11 DEF Shared
<1> QED BY <1>12 DEF l, r, x

LEMMA HalvedShape ==
  ASSUME NEW t, NEW lev, NEW old, NEW after, Shape(t, lev, old, after), after # NoNode,
         NEW o \in 1..Len(t.page), lev[o] # 0, o = t.page[old].parent,
         NEW l, NEW r, NEW m, Inner(l, m), m \in 1..FANOUT,
         Inner(r, FANOUT + 1 - m), FANOUT + 1 - m \in 1..FANOUT,
         Shared(t, o, after, l, r), NEW w, Halved(t, w, o, l, r),
         NEW lev2, lev2 = Grown(lev, Len(t.page), lev[o])
  PROVE  Shape(w, lev2, o, Len(t.page) + 1)
<1>1. /\ Pages(t, lev) /\ Linked(t, lev) /\ Family(t, lev, after)
  BY DEF Shape
<1>2. PICK n : n = Len(t.page)
  OBVIOUS
<1>3. /\ n \in Nat /\ o \in 1..n /\ o \in Nat /\ n + 1 \in Nat /\ n + 1 \notin 1..n /\ n + 1 # NoNode
      /\ \A q \in 1..(n + 1) : q \in 1..n \/ q = n + 1
      /\ \A q \in 1..n : q \in 1..(n + 1)
  <2>1. n \in Nat /\ o \in 1..n
    BY <1>1, <1>2, LeafIn
  <2> QED BY <2>1 DEF NoNode
<1>4. /\ w \in TreeRec /\ w.height = t.height /\ w.root = t.root /\ Relinked(t, w, o)
      /\ w.page[o] \in InnerNode /\ w.page[o].keys = l.keys /\ w.page[o].child = l.child
      /\ w.page[n + 1] \in InnerNode /\ w.page[n + 1].keys = r.keys /\ w.page[n + 1].child = r.child
  BY <1>2 DEF Halved
<1>5. \A q \in 1..n : q # o =>
       /\ t.page[q] \in LeafNode => w.page[q] \in LeafNode /\ w.page[q].rec = t.page[q].rec
       /\ t.page[q] \in InnerNode => /\ w.page[q] \in InnerNode /\ w.page[q].keys = t.page[q].keys
                                     /\ w.page[q].child = t.page[q].child
  BY <1>2 DEF Halved
<1>6. /\ \A q \in 1..n : w.page[q].parent = IF HasChild(r, q) THEN n + 1 ELSE t.page[q].parent
      /\ w.page[n + 1].parent = IF HasChild(r, n + 1) THEN n + 1 ELSE t.page[o].parent
  BY <1>2 DEF Halved
<1>7. Len(w.page) = n + 1 /\ w.first = t.first
  BY <1>2, <1>4 DEF Relinked
<1>8. /\ \A q \in 1..n : lev2[q] = lev[q]
      /\ lev2[n + 1] = lev[o]
  BY <1>2, <1>3 DEF Grown
<1>9. \A q \in 1..n : /\ lev[q] \in Nat
                      /\ lev[q] = 0 => t.page[q] \in LeafNode /\ LeafOK(t.page[q])
                      /\ lev[q] # 0 => t.page[q] \in InnerNode /\ InnerOK(t.page[q])
  <2>1. ASSUME NEW q \in 1..Len(t.page)
        PROVE  /\ lev[q] \in Nat
               /\ lev[q] = 0 => t.page[q] \in LeafNode /\ LeafOK(t.page[q])
               /\ lev[q] # 0 => t.page[q] \in InnerNode /\ InnerOK(t.page[q])
    BY <1>1 DEF Pages, LeafOK, InnerOK
  <2> QED BY <1>2, <2>1
<1>10. /\ old \in 1..n /\ after \in 1..n /\ old # after /\ after # t.root /\ o # NoNode
       /\ t.page[after].parent = o /\ lev[after] = lev[old] /\ lev[old] = lev[o] - 1
  <2>1. o # NoNode
    BY <1>3 DEF NoNode
  <2> QED BY <1>2, <2>1, Above
\* The children of the halves.
<1>11. ASSUME NEW q, HasChild(l, q) \/ HasChild(r, q)
       PROVE  q \in 1..n /\ lev[q] = lev[o] - 1 /\ t.page[q].parent = o /\ q # t.root /\ q # o /\ q # n + 1
  <2>1. q = after \/ IsChild(t, q, o)
    BY <1>11 DEF Shared
  <2>2. q \in 1..n /\ lev[q] = lev[o] - 1 /\ t.page[q].parent = o
    BY <1>1, <1>2, <1>10, <2>1, ChildIn
  <2>3. t.page[t.root].parent = NoNode
    BY <1>1 DEF Family
  <2>4. q # t.root
    BY <1>10, <2>2, <2>3
  <2>5. q # o
    <3>1. lev[o] \in Nat
      BY <1>3, <1>9
    <3> QED BY <2>2, <3>1
  <2> QED BY <1>3, <2>2, <2>4, <2>5
<1>12. \A q : ~(HasChild(l, q) /\ HasChild(r, q))
  BY DEF Shared
<1>13. LeafOK(w.page[o]) \/ InnerOK(w.page[o])
  BY <1>4 DEF InnerOK, Inner
<1>14. InnerOK(w.page[o]) /\ InnerOK(w.page[n + 1])
  BY <1>4 DEF InnerOK, Inner
<1>15. Pages(w, lev2)
  <2>1. ASSUME NEW q \in 1..(n + 1)
        PROVE  (lev2[q] = 0 => LeafOK(w.page[q])) /\ (lev2[q] # 0 => InnerOK(w.page[q]))
    <3>1. CASE q = o \/ q = n + 1
      BY <1>3, <1>8, <1>14, <3>1
    <3>2. CASE q \in 1..n /\ q # o
      BY <1>5, <1>8, <1>9, <3>2 DEF LeafOK, InnerOK
    <3> QED BY <1>3, <3>1, <3>2
  <2>2. \A q \in 1..Len(w.page) : /\ lev2[q] = 0 => LeafOK(w.page[q])
                                  /\ lev2[q] # 0 => InnerOK(w.page[q])
    BY <1>7, <2>1
  <2>3. Grows(t, w, lev, lev2, o)
    BY <1>2, <1>3, <1>4, <1>7, <2>2 DEF Grows
  <2> QED BY <1>1, <2>3, PagesGrow
<1>16. Linked(w, lev2)
  <2>1. ASSUME NEW q \in 1..(n + 1), lev2[q] = 0, q # w.first
        PROVE  w.page[q].rec # <<>>
    <3>1. q \in 1..n /\ q # o /\ lev[q] = 0
      BY <1>3, <1>8, <2>1
    <3>2. t.page[q].rec # <<>> /\ t.page[q] \in LeafNode
      BY <1>1, <1>2, <1>7, <1>9, <2>1, <3>1 DEF Linked
    <3> QED BY <1>5, <3>1, <3>2
  <2>2. \A q \in 1..Len(w.page) : lev2[q] = 0 /\ q # w.first => w.page[q].rec # <<>>
    BY <1>7, <2>1
  <2>3. Len(t.page) \in Nat
    BY <1>2, <1>3
  <2> QED BY <1>1, <1>3, <1>4, <2>2, <2>3, LinksGrow
<1>17. ASSUME NEW p \in 1..(n + 1), lev2[p] # 0, NEW c, HasChild(w.page[p], c)
       PROVE  c \in 1..(n + 1) /\ lev2[c] = lev2[p] - 1 /\ w.page[c].parent = p /\ c # n + 1
  <2>1. CASE p = o
    <3>1. HasChild(l, c) /\ ~HasChild(r, c)
      BY <1>4, <1>12, <1>17, <2>1 DEF HasChild
    <3>2. c \in 1..n /\ lev[c] = lev[o] - 1 /\ t.page[c].parent = o /\ c # n + 1
      BY <1>11, <3>1
    <3>3. c \in 1..(n + 1) /\ lev2[c] = lev[c] /\ lev2[p] = lev[o]
      BY <1>3, <1>8, <2>1, <3>2
    <3>4. w.page[c].parent = o
      BY <1>6, <3>1, <3>2
    <3> QED BY <2>1, <3>2, <3>3, <3>4
  <2>2. CASE p = n + 1
    <3>1. HasChild(r, c)
      BY <1>4, <1>17, <2>2 DEF HasChild
    <3> QED BY <1>3, <1>6, <1>8, <1>11, <2>2, <3>1
  <2>3. CASE p \in 1..n /\ p # o
    <3>1. w.page[p].child = t.page[p].child /\ lev[p] # 0
      BY <1>5, <1>8, <1>9, <1>17, <2>3
    <3>2. IsChild(t, c, p)
      BY <1>17, <3>1 DEF IsChild, HasChild
    <3>3. c \in 1..n /\ lev[c] = lev[p] - 1 /\ t.page[c].parent = p
      BY <1>1, <1>2, <2>3, <3>1, <3>2, ChildIn
    <3>4. ~HasChild(r, c)
      BY <1>11, <2>3, <3>3
    <3> QED BY <1>3, <1>6, <1>8, <2>3, <3>3, <3>4
  <2> QED BY <1>3, <2>1, <2>2, <2>3
<1>18. ASSUME NEW p \in 1..(n + 1), lev2[p] # 0
       PROVE  \A i, j \in 1..Len(w.page[p].child) : w.page[p].child[i] = w.page[p].child[j] => i = j
  <2>1. /\ \A i, j \in 1..Len(l.child) : l.child[i] = l.child[j] => i = j
        /\ \A i, j \in 1..Len(r.child) : r.child[i] = r.child[j] => i = j
    BY DEF Shared
  <2>3. CASE p = o
    <3>1. w.page[p].child = l.child
      BY <1>4, <2>3
    <3> QED BY <2>1, <3>1
  <2>4. CASE p = n + 1
    <3>1. w.page[p].child = r.child
      BY <1>4, <2>4
    <3> QED BY <2>1, <3>1
  <2>2. CASE p \in 1..n /\ p # o
    <3>1. w.page[p].child = t.page[p].child /\ lev[p] # 0
      BY <1>5, <1>8, <1>9, <1>18, <2>2
    <3>2. \A i, j \in 1..Len(t.page[p].child) : t.page[p].child[i] = t.page[p].child[j] => i = j
      BY <1>1, <1>2, <2>2, <3>1 DEF Family
    <3> QED BY <3>1, <3>2
  <2> QED BY <1>3, <2>2, <2>3, <2>4
<1>19. ASSUME NEW q \in 1..n, q # t.root, NEW p, p = w.page[q].parent
       PROVE  p \in 1..(n + 1) /\ lev2[p] # 0 /\ IsChild(w, q, p)
  <2>1. CASE HasChild(r, q)
    <3>1. p = n + 1 /\ IsChild(w, q, p)
      <4>1. p = n + 1
        BY <1>6, <1>19, <2>1
      <4>2. w.page[p].child = r.child
        BY <1>4, <4>1
      <4> QED BY <2>1, <4>1, <4>2 DEF IsChild, HasChild
    <3> QED BY <1>3, <1>8, <3>1
  <2>2. CASE HasChild(l, q)
    <3>1. p = o
      BY <1>6, <1>11, <1>12, <1>19, <2>2
    <3>2. IsChild(w, q, p)
      BY <1>4, <2>2, <3>1 DEF IsChild, HasChild
    <3> QED BY <1>3, <1>8, <3>1, <3>2
  <2>3. CASE ~HasChild(l, q) /\ ~HasChild(r, q)
    <3>1. q # after /\ ~IsChild(t, q, o)
      BY <2>3 DEF Shared
    <3>2. p = t.page[q].parent
      BY <1>6, <1>19, <2>3
    <3>3. p \in 1..n /\ lev[p] # 0 /\ IsChild(t, q, p)
      BY <1>1, <1>2, <1>19, <3>1, <3>2, ParentIn
    <3>4. p # o
      BY <3>1, <3>3
    <3>5. w.page[p].child = t.page[p].child
      BY <1>5, <1>9, <3>3, <3>4
    <3>6. IsChild(w, q, p)
      BY <3>3, <3>5 DEF IsChild
    <3> QED BY <1>3, <1>8, <3>3, <3>6
  <2> QED BY <2>1, <2>2, <2>3
<1>20. Family(w, lev2, n + 1)
  <2>1. w.page[w.root].parent = NoNode
    <3>1. t.root \in 1..n /\ t.page[t.root].parent = NoNode
      BY <1>1, <1>2 DEF Family, Pages
    <3>2. ~HasChild(r, t.root)
      BY <1>11
    <3> QED BY <1>4, <1>6, <3>1, <3>2
  <2>2. ASSUME NEW p \in 1..(n + 1), lev2[p] # 0, NEW i \in 1..Len(w.page[p].child)
        PROVE  LET c == w.page[p].child[i] IN
               c \in 1..(n + 1) /\ lev2[c] = lev2[p] - 1 /\ w.page[c].parent = p /\ c # n + 1
    <3>1. PICK c : c = w.page[p].child[i]
      OBVIOUS
    <3>2. HasChild(w.page[p], c)
      BY <3>1 DEF HasChild
    <3>3. c \in 1..(n + 1) /\ lev2[c] = lev2[p] - 1 /\ w.page[c].parent = p /\ c # n + 1
      BY <1>17, <2>2, <3>2
    <3> QED BY <3>1, <3>3
  <2>3. ASSUME NEW q \in 1..(n + 1), q # w.root, q # n + 1
        PROVE  LET p == w.page[q].parent IN p \in 1..(n + 1) /\ lev2[p] # 0 /\ IsChild(w, q, p)
    <3>1. q \in 1..n /\ q # t.root
      BY <1>3, <1>4, <2>3
    <3> QED BY <1>19, <3>1
  <2>7. \A p \in 1..Len(w.page) : lev2[p] # 0 => \A i \in 1..Len(w.page[p].child) :
          LET c == w.page[p].child[i] IN
          c \in 1..Len(w.page) /\ lev2[c] = lev2[p] - 1 /\ w.page[c].parent = p /\ c # n + 1
    BY <1>7, <2>2
  <2>8. \A p \in 1..Len(w.page) : lev2[p] # 0 => \A i, j \in 1..Len(w.page[p].child) :
          w.page[p].child[i] = w.page[p].child[j] => i = j
    BY <1>7, <1>18
  <2>9. \A q \in 1..Len(w.page) : q # w.root /\ q # n + 1 =>
          LET p == w.page[q].parent IN p \in 1..Len(w.page) /\ lev2[p] # 0 /\ IsChild(w, q, p)
    BY <1>7, <2>3
  <2> QED BY <2>1, <2>7, <2>8, <2>9 DEF Family
<1>21. Pending(w, lev2, o, n + 1)
  <2>1. ~HasChild(r, o) /\ ~HasChild(r, n + 1) /\ t.root \in 1..n
    BY <1>1, <1>2, <1>11 DEF Pages
  <2>2. w.page[o].parent = t.page[o].parent /\ w.page[n + 1].parent = t.page[o].parent
    BY <1>3, <1>6, <2>1
  <2>3. lev2[o] = lev2[n + 1] /\ n + 1 # t.root /\ o # n + 1
    BY <1>3, <1>8, <2>1
  <2>4. o \in 1..Len(w.page) /\ n + 1 \in 1..Len(w.page)
    BY <1>3, <1>7
  <2> QED BY <1>4, <2>2, <2>3, <2>4 DEF Pending
<1>22. Begun(w)
  <2>1. t.first \in 1..n /\ lev[t.first] = 0 /\ w.first = t.first /\ t.first # o
    BY <1>1, <1>2, <1>7 DEF Linked
  <2>2. w.page[t.first].next = t.page[t.first].next
    BY <1>2, <1>4, <2>1 DEF Relinked
  <2>3. w.page[t.first].rec = t.page[t.first].rec
    BY <1>5, <1>9, <2>1
  <2>4. Begun(t)
    BY DEF Shape
  <2> QED BY <2>1, <2>2, <2>3, <2>4 DEF Begun
<1> QED BY <1>2, <1>15, <1>16, <1>20, <1>21, <1>22 DEF Shape

\* A full inner node is split, and its new neighbour waits for a parent.
LEMMA SplitInternalShape ==
  ASSUME NEW t, NEW lev, NEW old, NEW after, Shape(t, lev, old, after), after # NoNode,
         NEW o, o = t.page[old].parent, o # NoNode, Len(t.page[o].child) = FANOUT,
         NEW key \in Value
  PROVE  /\ Shape(SplitInternal(t, o, key, after).tree, Grown(lev, Len(t.page), lev[o]),
                  o, Len(t.page) + 1)
         /\ SplitInternal(t, o, key, after).tree.page[o].parent = t.page[o].parent
         /\ SplitInternal(t, o, key, after).key \in Value
<1> DEFINE n == Len(t.page)
           x == t.page[o]
           l == LeftNode(x, key, after)
           r == RightNode(x, key, after)
           m == LeftSize(x, key)
           w == SplitInternal(t, o, key, after).tree
           lev2 == Grown(lev, n, lev[o])
<1>1. Pages(t, lev) /\ Family(t, lev, after)
  BY DEF Shape
<1>2. o \in 1..n /\ lev[o] # 0 /\ after \in 1..n
  BY Above
<1>3. Inner(x, Len(t.page[o].child)) /\ after \in Nat
  BY <1>1, <1>2, LeafIn
<1>4. Inner(x, FANOUT)
  BY <1>3
<1>5. PICK y : y = x
  OBVIOUS
<1>6. Inner(y, FANOUT)
  BY <1>4, <1>5
<1>7. /\ LeftSize(y, key) \in 2..FANOUT /\ FANOUT + 1 - LeftSize(y, key) \in 1..FANOUT
      /\ Inner(LeftNode(y, key, after), LeftSize(y, key))
      /\ Inner(RightNode(y, key, after), FANOUT + 1 - LeftSize(y, key))
  BY <1>3, <1>6, NodeHalves
<1>8. /\ m \in 2..FANOUT /\ FANOUT + 1 - m \in 1..FANOUT
      /\ Inner(l, m) /\ Inner(r, FANOUT + 1 - m)
  BY <1>5, <1>7
<1>9. m \in 1..FANOUT
  BY <1>8
<1>10. Shared(t, o, after, l, r)
  BY <1>1, <1>2, <1>3, <1>4, HalvesShared
<1>11. Halved(t, w, o, l, r)
  BY <1>1, <1>2, <1>3, <1>4, SplitInternalHalved
<1>12. SplitInternal(t, o, key, after).key = x.keys[KeyPoint(x, key)]
  BY SplitInternalIs
<1>13. x.keys[KeyPoint(x, key)] \in Value
  <2>1. y.keys \in Seq(Value) /\ Len(y.keys) = FANOUT - 1
    BY <1>6 DEF Inner, InnerNode
  <2>2. KeyPoint(y, key) \in 2..(FANOUT - 1)
    BY PointIs
  <2>3. y.keys[KeyPoint(y, key)] \in Value
    BY <2>1, <2>2
  <2> QED BY <1>5, <2>3
<1> HIDE DEF l, r, m, w, lev2
<1>14. lev2 = Grown(lev, Len(t.page), lev[o])
  BY DEF lev2
<1>15. Shape(w, lev2, o, Len(t.page) + 1)
  BY <1>2, <1>8, <1>9, <1>10, <1>11, <1>14, HalvedShape
<1>16. w.page[o].parent = t.page[o].parent
  <2>1. lev[o] \in Nat
    BY <1>1, <1>2, LeafIn
  <2>2. o # after /\ ~IsChild(t, o, o)
    <3>1. lev[after] = lev[o] - 1
      BY <1>2, Above
    <3>2. IsChild(t, o, o) => lev[o] = lev[o] - 1
      BY <1>1, <1>2, ChildIn
    <3> QED BY <2>1, <3>1, <3>2
  <2>3. ~HasChild(r, o)
    BY <1>10, <2>2 DEF Shared
  <2>4. \A q \in 1..n : w.page[q].parent = IF HasChild(r, q) THEN n + 1 ELSE t.page[q].parent
    BY <1>11 DEF Halved
  <2> QED BY <1>2, <2>3, <2>4
<1> QED BY <1>12, <1>13, <1>15, <1>16 DEF w, lev2
-----------------------------------------------------------------------------
(* A node gets the child that waits for a parent. *)

\* u is t with node x at page o.
Replaced(t, u, o, x) ==
  /\ u \in TreeRec /\ u.height = t.height /\ u.root = t.root /\ u.first = t.first
  /\ Len(u.page) = Len(t.page) /\ u.page[o] = x
  /\ \A q \in 1..Len(t.page) : q # o => u.page[q] = t.page[q]

LEMMA ReplaceIs ==
  ASSUME NEW t \in TreeRec, NEW o \in 1..Len(t.page), NEW x \in LeafNode \cup InnerNode
  PROVE  Replaced(t, [t EXCEPT !.page[o] = x], o, x)
<1> DEFINE N == LeafNode \cup InnerNode
           n == Len(t.page)
           g == [t.page EXCEPT ![o] = x]
           u == [t EXCEPT !.page = g]
<1>1. /\ t.page \in Seq(N) /\ n \in Nat /\ DOMAIN t.page = 1..n /\ x \in N
  BY DEF TreeRec
<1>3. u = [t EXCEPT !.page[o] = x]
  BY DEF TreeRec
<1> HIDE DEF N
<1>5. g \in Seq(N) /\ Len(g) = n /\ g[o] = x /\ \A q \in 1..n : q # o => g[q] = t.page[q]
  BY <1>1
<1> HIDE DEF g
<1>6. /\ u \in TreeRec /\ u.height = t.height /\ u.root = t.root /\ u.first = t.first
      /\ u.page = g
  BY <1>5 DEF TreeRec, N
<1> HIDE DEF u
<1>7. Replaced(t, u, o, x)
  BY <1>5, <1>6 DEF Replaced
<1> QED BY <1>3, <1>7

\* The children of node x and node after, each once, are those of y.
Adopts(x, y, after) ==
  /\ \A q : HasChild(y, q) <=> q = after \/ HasChild(x, q)
  /\ \A i, j \in 1..Len(y.child) : y.child[i] = y.child[j] => i = j

LEMMA InsertAdopts ==
  ASSUME NEW n \in Nat \ {0}, NEW x, Inner(x, n), NEW key \in Value, NEW after \in Nat,
         ~HasChild(x, after), \A i, j \in 1..Len(x.child) : x.child[i] = x.child[j] => i = j
  PROVE  Adopts(x, AM_InsertKeyToIndexNoSplit(x, key, after), after)
<1> DEFINE y == AM_InsertKeyToIndexNoSplit(x, key, after)
           p == KeyPlace(x, key) + 1
           s == x.child
           S(j) == Spread(s, p, after, j)
<1>1. /\ p \in 1..(n + 1) /\ Inner(y, n + 1)
      /\ \A j \in 1..(n + 1) : y.child[j] = S(j)
  <2>1. KeyPlace(x, key) \in 1..n /\ Inner(y, n + 1)
    BY InsertKey
  <2>2. \A j \in 1..(n + 1) : y.child[j] = S(j)
    BY InsertKey
  <2> QED BY <2>1, <2>2
<1>2. Len(x.child) = n /\ Len(y.child) = n + 1
  BY <1>1 DEF Inner
<1>3. /\ \A i \in 1..n : s[i] # after
      /\ \A i, j \in 1..n : s[i] = s[j] => i = j
  BY <1>2 DEF HasChild
<1> HIDE DEF y, p, s
<1>4. ASSUME NEW i \in 1..(n + 1), NEW j \in 1..(n + 1), S(i) = S(j)
      PROVE  i = j
  BY <1>1, <1>3, <1>4, SpreadOnce
<1>5. ASSUME NEW j \in 1..(n + 1)
      PROVE  S(j) = after \/ \E i \in 1..n : S(j) = s[i]
  <2>1. CASE j < p
    BY <1>1, <2>1 DEF Spread
  <2>2. CASE j = p
    BY <2>2 DEF Spread
  <2>3. CASE j > p
    <3>1. j - 1 \in 1..n /\ S(j) = s[j - 1]
      BY <1>1, <2>3 DEF Spread
    <3> QED BY <3>1
  <2> QED BY <1>1, <2>1, <2>2, <2>3
<1>6. S(p) = after
  BY <1>1 DEF Spread
<1>7. ASSUME NEW i \in 1..n
      PROVE  \E j \in 1..(n + 1) : S(j) = s[i]
  <2>1. CASE i < p
    <3>1. i \in 1..(n + 1) /\ S(i) = s[i]
      BY <1>1, <2>1 DEF Spread
    <3> QED BY <3>1
  <2>2. CASE i >= p
    <3>1. i + 1 \in 1..(n + 1) /\ S(i + 1) = s[i]
      BY <1>1, <2>2 DEF Spread
    <3> QED BY <3>1
  <2> QED BY <1>1, <2>1, <2>2
<1> HIDE DEF S
<1>8. \A i, j \in 1..Len(y.child) : y.child[i] = y.child[j] => i = j
  BY <1>1, <1>2, <1>4
<1>9. ASSUME NEW q
      PROVE  HasChild(y, q) <=> q = after \/ HasChild(x, q)
  <2>1. HasChild(y, q) <=> \E j \in 1..(n + 1) : S(j) = q
    BY <1>1, <1>2 DEF HasChild
  <2>2. HasChild(x, q) <=> \E i \in 1..n : s[i] = q
    BY <1>2 DEF HasChild, s
  <2>3. HasChild(y, q) => q = after \/ HasChild(x, q)
    BY <1>5, <2>1, <2>2
  <2>4. q = after => HasChild(y, q)
    BY <1>1, <1>6, <2>1
  <2>5. HasChild(x, q) => HasChild(y, q)
    BY <1>7, <2>1, <2>2
  <2> QED BY <2>3, <2>4, <2>5
<1>10. Adopts(x, y, after)
  BY <1>8, <1>9 DEF Adopts
<1> QED BY <1>10 DEF y

\* A node with room gets the new child, and no node waits any more.
LEMMA AdoptShape ==
  ASSUME NEW t, NEW lev, NEW old, NEW after, Shape(t, lev, old, after), after # NoNode,
         NEW o, o = t.page[old].parent, o # NoNode,
         NEW y, InnerOK(y), Adopts(t.page[o], y, after),
         y.parent = t.page[o].parent, y.next = t.page[o].next, y.prev = t.page[o].prev,
         NEW u, Replaced(t, u, o, y)
  PROVE  Shape(u, lev, NoNode, NoNode)
<1>1. Pages(t, lev) /\ Linked(t, lev) /\ Family(t, lev, after)
  BY DEF Shape
<1>2. PICK n : n = Len(t.page)
  OBVIOUS
<1>3. /\ o \in 1..n /\ lev[o] # 0 /\ lev[after] = lev[o] - 1 /\ after \in 1..n
      /\ t.page[after].parent = o /\ after # t.root
  BY <1>2, Above
<1>4. n \in Nat /\ NoNode \notin 1..n
  BY <1>1, <1>2, <1>3, LeafIn DEF NoNode
<1>5. /\ u \in TreeRec /\ u.height = t.height /\ u.root = t.root /\ u.first = t.first
      /\ Len(u.page) = n /\ u.page[o] = y
      /\ \A q \in 1..n : q # o => u.page[q] = t.page[q]
  BY <1>2 DEF Replaced
<1>6. \A q \in 1..n : /\ u.page[q].parent = t.page[q].parent
                      /\ u.page[q].next = t.page[q].next /\ u.page[q].prev = t.page[q].prev
                      /\ lev[q] = 0 => u.page[q] = t.page[q]
  BY <1>3, <1>5
<1>7. Pages(u, lev)
  <2>1. ASSUME NEW q \in 1..n
        PROVE  /\ lev[q] <= t.height
               /\ lev[q] = 0 => LeafOK(u.page[q])
               /\ lev[q] # 0 => InnerOK(u.page[q])
    BY <1>1, <1>2, <1>5, <1>6 DEF Pages
  <2>2. lev \in [1..n -> Nat] /\ t.root \in 1..n /\ lev[t.root] = t.height
    BY <1>1, <1>2 DEF Pages
  <2> QED BY <1>5, <2>1, <2>2 DEF Pages
<1>8. Linked(u, lev)
  <2>1. t.first \in 1..n /\ lev[t.first] = 0 /\ u.page[t.first].prev = NoNode
    BY <1>1, <1>2, <1>6 DEF Linked
  <2>2. ASSUME NEW q \in 1..n
        PROVE  /\ u.page[q].next # NoNode =>
                    /\ u.page[q].next \in 1..n /\ u.page[q].next # q
                    /\ lev[u.page[q].next] = lev[q] /\ u.page[u.page[q].next].prev = q
               /\ u.page[q].prev # NoNode =>
                    /\ u.page[q].prev \in 1..n
                    /\ lev[u.page[q].prev] = lev[q] /\ u.page[u.page[q].prev].next = q
               /\ lev[q] = 0 /\ q # u.first => u.page[q].prev # NoNode /\ u.page[q].rec # <<>>
    <3>1. PICK a, b : a = t.page[q].next /\ b = t.page[q].prev
      OBVIOUS
    <3>2. /\ a # NoNode => a \in 1..n /\ a # q /\ lev[a] = lev[q] /\ t.page[a].prev = q
          /\ b # NoNode => b \in 1..n /\ lev[b] = lev[q] /\ t.page[b].next = q
          /\ lev[q] = 0 /\ q # t.first => b # NoNode /\ t.page[q].rec # <<>>
      BY <1>1, <1>2, <3>1 DEF Linked
    <3>3. u.page[q].next = a /\ u.page[q].prev = b
      BY <1>6, <3>1
    <3>4. /\ a # NoNode => u.page[a].prev = q
          /\ b # NoNode => u.page[b].next = q
          /\ lev[q] = 0 => u.page[q].rec = t.page[q].rec
      BY <1>6, <3>2
    <3> QED BY <1>5, <3>2, <3>3, <3>4
  <2> QED BY <1>5, <2>1, <2>2 DEF Linked
<1>9. ASSUME NEW p \in 1..n, lev[p] # 0, NEW c, HasChild(u.page[p], c)
      PROVE  c \in 1..n /\ lev[c] = lev[p] - 1 /\ u.page[c].parent = p /\ c # NoNode
  <2>1. IsChild(t, c, p) \/ (p = o /\ c = after)
    <3>1. IsChild(t, c, p) <=> HasChild(t.page[p], c)
      BY DEF HasChild, IsChild
    <3>2. \A q : HasChild(y, q) => q = after \/ HasChild(t.page[o], q)
      BY DEF Adopts
    <3>3. p = o => u.page[p] = y /\ t.page[p] = t.page[o]
      BY <1>5
    <3>4. p # o => u.page[p] = t.page[p]
      BY <1>5
    <3> QED BY <1>9, <3>1, <3>2, <3>3, <3>4
  <2>2. IsChild(t, c, p) => c \in 1..n /\ lev[c] = lev[p] - 1 /\ t.page[c].parent = p
    BY <1>1, <1>2, <1>9, ChildIn
  <2>3. c \in 1..n /\ lev[c] = lev[p] - 1 /\ t.page[c].parent = p
    BY <1>3, <2>1, <2>2
  <2> QED BY <1>4, <1>6, <2>3
<1>10. ASSUME NEW p \in 1..n, lev[p] # 0
       PROVE  \A i, j \in 1..Len(u.page[p].child) : u.page[p].child[i] = u.page[p].child[j] => i = j
  <2>1. CASE p = o
    <3>1. \A i, j \in 1..Len(y.child) : y.child[i] = y.child[j] => i = j
      BY DEF Adopts
    <3> QED BY <1>5, <2>1, <3>1
  <2>2. CASE p # o
    <3>1. \A i, j \in 1..Len(t.page[p].child) : t.page[p].child[i] = t.page[p].child[j] => i = j
      BY <1>1, <1>2, <1>10 DEF Family
    <3> QED BY <1>5, <2>2, <3>1
  <2> QED BY <2>1, <2>2
<1>11. ASSUME NEW q \in 1..n, q # t.root, NEW p, p = u.page[q].parent
       PROVE  p \in 1..n /\ lev[p] # 0 /\ IsChild(u, q, p)
  <2>1. p = t.page[q].parent
    BY <1>6, <1>11
  <2>2. p \in 1..n /\ lev[p] # 0 /\ (IsChild(t, q, p) \/ (q = after /\ p = o))
    <3>1. CASE q = after
      BY <1>3, <2>1, <3>1
    <3>2. CASE q # after
      BY <1>1, <1>2, <1>11, <2>1, <3>2, ParentIn
    <3> QED BY <3>1, <3>2
  <2>3. IsChild(u, q, p)
    <3>1. /\ IsChild(t, q, p) <=> HasChild(t.page[p], q)
          /\ IsChild(u, q, p) <=> HasChild(u.page[p], q)
      BY DEF HasChild, IsChild
    <3>2. HasChild(y, after) /\ \A c : HasChild(t.page[o], c) => HasChild(y, c)
      BY DEF Adopts
    <3>3. p = o => u.page[p] = y /\ t.page[p] = t.page[o]
      BY <1>5
    <3>4. p # o => u.page[p] = t.page[p]
      BY <1>5, <2>2
    <3> QED BY <2>2, <3>1, <3>2, <3>3, <3>4
  <2> QED BY <2>2, <2>3
<1>12. Family(u, lev, NoNode)
  <2>1. u.page[u.root].parent = NoNode
    <3>1. t.root \in 1..n /\ t.page[t.root].parent = NoNode
      BY <1>1, <1>2, RootIn
    <3> QED BY <1>5, <1>6, <3>1
  <2>2. ASSUME NEW p \in 1..n, lev[p] # 0, NEW i \in 1..Len(u.page[p].child)
        PROVE  LET c == u.page[p].child[i] IN
               c \in 1..n /\ lev[c] = lev[p] - 1 /\ u.page[c].parent = p /\ c # NoNode
    <3>1. PICK c : c = u.page[p].child[i]
      OBVIOUS
    <3>2. HasChild(u.page[p], c)
      BY <3>1 DEF HasChild
    <3>3. c \in 1..n /\ lev[c] = lev[p] - 1 /\ u.page[c].parent = p /\ c # NoNode
      BY <1>9, <2>2, <3>2
    <3> QED BY <3>1, <3>3
  <2>7. \A p \in 1..Len(u.page) : lev[p] # 0 => \A i \in 1..Len(u.page[p].child) :
          LET c == u.page[p].child[i] IN
          c \in 1..Len(u.page) /\ lev[c] = lev[p] - 1 /\ u.page[c].parent = p /\ c # NoNode
    BY <1>5, <2>2
  <2>8. \A p \in 1..Len(u.page) : lev[p] # 0 => \A i, j \in 1..Len(u.page[p].child) :
          u.page[p].child[i] = u.page[p].child[j] => i = j
    BY <1>5, <1>10
  <2>9. \A q \in 1..Len(u.page) : q # u.root /\ q # NoNode =>
          LET p == u.page[q].parent IN p \in 1..Len(u.page) /\ lev[p] # 0 /\ IsChild(u, q, p)
    BY <1>5, <1>11
  <2> QED BY <2>1, <2>7, <2>8, <2>9 DEF Family
<1>13. Pending(u, lev, NoNode, NoNode)
  BY DEF Pending
<1>14. Begun(u)
  <2>1. t.first \in 1..n /\ lev[t.first] = 0
    BY <1>1, <1>2 DEF Linked
  <2>2. Begun(t)
    BY DEF Shape
  <2> QED BY <1>5, <1>6, <2>1, <2>2 DEF Begun
<1> QED BY <1>7, <1>8, <1>12, <1>13, <1>14 DEF Shape

LEMMA PlaceKeyShape ==
  ASSUME NEW t, NEW lev, NEW old, NEW after, Shape(t, lev, old, after), after # NoNode,
         NEW o, o = t.page[old].parent, o # NoNode, Len(t.page[o].child) < FANOUT,
         NEW key \in Value
  PROVE  Shape([t EXCEPT !.page[o] = AM_InsertKeyToIndexNoSplit(@, key, after)],
               lev, NoNode, NoNode)
<1> DEFINE x == t.page[o]
           y == AM_InsertKeyToIndexNoSplit(x, key, after)
           u == [t EXCEPT !.page[o] = y]
<1>1. Pages(t, lev) /\ Family(t, lev, after)
  BY DEF Shape
<1>2. o \in 1..Len(t.page) /\ lev[o] # 0 /\ after \in 1..Len(t.page)
  BY Above
<1>3. PICK k : k = Len(t.page[o].child)
  OBVIOUS
<1>4. /\ k \in 1..FANOUT /\ k < FANOUT /\ Inner(x, k) /\ after \in Nat /\ t \in TreeRec
      /\ Len(x.child) = k
  BY <1>1, <1>2, <1>3, LeafIn
<1>5. k \in Nat \ {0} /\ k + 1 \in 1..FANOUT
  BY <1>4, TreeAssumption
<1>6. /\ Inner(y, k + 1) /\ y.parent = x.parent /\ y.next = x.next /\ y.prev = x.prev
  <2>1. PICK z : z = x
    OBVIOUS
  <2>2. Inner(z, k)
    BY <1>4, <2>1
  <2>3. /\ Inner(AM_InsertKeyToIndexNoSplit(z, key, after), k + 1)
        /\ AM_InsertKeyToIndexNoSplit(z, key, after).parent = z.parent
        /\ AM_InsertKeyToIndexNoSplit(z, key, after).next = z.next
        /\ AM_InsertKeyToIndexNoSplit(z, key, after).prev = z.prev
    BY <1>4, <1>5, <2>2, InsertKey
  <2> QED BY <2>1, <2>3
<1>7. InnerOK(y) /\ y \in LeafNode \cup InnerNode
  BY <1>5, <1>6 DEF InnerOK, Inner
<1>8. /\ ~HasChild(x, after)
      /\ \A i, j \in 1..Len(x.child) : x.child[i] = x.child[j] => i = j
  BY <1>1, <1>2 DEF Family, HasChild
<1>9. Adopts(x, y, after)
  BY <1>4, <1>5, <1>8, InsertAdopts
<1>10. [t EXCEPT !.page[o] = AM_InsertKeyToIndexNoSplit(@, key, after)] = u
  OBVIOUS
<1> HIDE DEF y
<1>11. Replaced(t, u, o, y)
  BY <1>2, <1>4, <1>7, ReplaceIs
<1> HIDE DEF u
<1>12. Shape(u, lev, NoNode, NoNode)
  BY <1>6, <1>7, <1>9, <1>11, AdoptShape
<1> QED BY <1>10, <1>12
-----------------------------------------------------------------------------
(* A tree gets a root above its old one. *)

RootNode(key, old, after) ==
  [parent |-> NoNode, next |-> NoNode, prev |-> NoNode, keys |-> <<key>>, child |-> <<old, after>>]

\* u is t with a root above old and after.
Raised(t, u, old, after) ==
  LET n == Len(t.page) IN
  /\ u \in TreeRec /\ u.height = t.height + 1 /\ u.root = n + 1 /\ u.first = t.first
  /\ Len(u.page) = n + 1
  /\ InnerOK(u.page[n + 1]) /\ u.page[n + 1].next = NoNode /\ u.page[n + 1].prev = NoNode
  /\ u.page[n + 1].parent = NoNode
  /\ Len(u.page[n + 1].child) = 2
  /\ u.page[n + 1].child[1] = old /\ u.page[n + 1].child[2] = after
  /\ \A q \in 1..n :
       /\ Moved(u.page[q], t.page[q])
       /\ u.page[q].parent = IF q \in {old, after} THEN n + 1 ELSE t.page[q].parent

LEMMA NewRootIs ==
  ASSUME NEW t \in TreeRec, NEW old \in 1..Len(t.page), NEW after \in 1..Len(t.page),
         NEW key \in Value
  PROVE  /\ Raised(t, NewRoot(t, key, old, after), old, after)
         /\ NewRoot(t, key, old, after).page[Len(t.page) + 1].keys = <<key>>
<1> DEFINE N == LeafNode \cup InnerNode
           n == Len(t.page)
           x == RootNode(key, old, after)
           g == Append(t.page, x)
           v == [t EXCEPT !.height = @ + 1, !.root = n + 1, !.page = g]
           u == AM_ResetIndexChildParent(v, n + 1)
<1>1. /\ t.page \in Seq(N) /\ n \in Nat /\ \A q \in 1..n : t.page[q] \in N
      /\ t.height \in Nat
  BY DEF TreeRec
<1>2. NewRoot(t, key, old, after) = u
  BY DEF NewRoot, RootNode
<1>3. /\ x \in InnerNode /\ Len(x.child) = 2 /\ Len(x.keys) = 1 /\ x.child[1] = old
      /\ x.child[2] = after /\ x.parent = NoNode /\ x.next = NoNode /\ x.prev = NoNode
      /\ x.keys = <<key>>
  <2>1. <<old, after>> \in Seq(Nat) /\ <<key>> \in Seq(Value)
    BY <1>1
  <2> QED BY <2>1 DEF RootNode, InnerNode, NoNode
<1> HIDE DEF x
<1>4. x \in N
  BY <1>3
<1> HIDE DEF N
<1>5. /\ g \in Seq(N) /\ Len(g) = n + 1 /\ g[n + 1] = x
      /\ \A q \in 1..n : g[q] = t.page[q]
  BY <1>1, <1>4
<1> HIDE DEF g
<1>6. /\ v \in TreeRec /\ v.height = t.height + 1 /\ v.root = n + 1 /\ v.first = t.first
      /\ v.page = g
  <2>1. PICK m : m = n + 1
    OBVIOUS
  <2>2. m \in Nat /\ t.height + 1 \in Nat \ {0}
    BY <1>1, <2>1
  <2>3. PICK h : h = t.height + 1
    OBVIOUS
  <2>4. v = [t EXCEPT !.height = h, !.root = m, !.page = g]
    BY <2>1, <2>3
  <2> HIDE DEF v
  <2>5. v \in TreeRec /\ v.height = h /\ v.root = m /\ v.first = t.first /\ v.page = g
    BY <1>5, <2>2, <2>3, <2>4 DEF TreeRec, N
  <2> QED BY <2>1, <2>3, <2>5
<1> HIDE DEF v
<1>7. n + 1 \in 1..Len(v.page) /\ v.page[n + 1] \in InnerNode
  BY <1>1, <1>3, <1>5, <1>6
<1>8. /\ u \in TreeRec /\ u.height = v.height /\ u.root = v.root /\ u.first = v.first
      /\ Len(u.page) = Len(v.page)
      /\ \A q \in 1..Len(v.page) :
           /\ Moved(u.page[q], v.page[q])
           /\ IsChild(v, q, n + 1) => u.page[q].parent = n + 1
           /\ ~IsChild(v, q, n + 1) => u.page[q].parent = v.page[q].parent
  BY <1>6, <1>7, ResetIs
<1> HIDE DEF u
<1>9. \A q : IsChild(v, q, n + 1) <=> q \in {old, after}
  <2>1. Len(v.page[n + 1].child) = 2 /\ v.page[n + 1].child[1] = old
        /\ v.page[n + 1].child[2] = after
    BY <1>3, <1>5, <1>6
  <2>2. 1..2 = {1, 2}
    OBVIOUS
  <2> QED BY <2>1, <2>2 DEF IsChild
<1>10. /\ Moved(u.page[n + 1], x) /\ u.page[n + 1].parent = NoNode
  <2>1. n + 1 \notin {old, after}
    BY <1>1
  <2> QED BY <1>3, <1>5, <1>6, <1>7, <1>8, <1>9, <2>1
<1>11. ASSUME NEW q \in 1..n
       PROVE  /\ Moved(u.page[q], t.page[q])
              /\ u.page[q].parent = IF q \in {old, after} THEN n + 1 ELSE t.page[q].parent
  <2>1. q \in 1..Len(v.page) /\ v.page[q] = t.page[q]
    BY <1>1, <1>5, <1>6
  <2> QED BY <1>8, <1>9, <2>1
<1>12. /\ InnerOK(u.page[n + 1]) /\ u.page[n + 1].next = NoNode /\ u.page[n + 1].prev = NoNode
       /\ Len(u.page[n + 1].child) = 2
       /\ u.page[n + 1].child[1] = old /\ u.page[n + 1].child[2] = after
  <2>1. PICK y : y = u.page[n + 1]
    OBVIOUS
  <2>2. /\ y \in InnerNode /\ y.keys = x.keys /\ y.child = x.child
        /\ y.next = NoNode /\ y.prev = NoNode
    BY <1>3, <1>10, <2>1 DEF Moved
  <2>3. 2 \in 1..FANOUT
    BY TreeAssumption
  <2>5. Len(y.child) = 2 /\ Len(y.keys) = 1 /\ y \in InnerNode
    BY <1>3, <2>2
  <2>6. Len(y.child) \in 1..FANOUT /\ Len(y.keys) = Len(y.child) - 1
    BY <2>3, <2>5
  <2>4. InnerOK(y)
    BY <2>5, <2>6 DEF InnerOK
  <2> QED BY <1>3, <2>1, <2>2, <2>4
<1>13. Raised(t, u, old, after)
  BY <1>5, <1>6, <1>8, <1>10, <1>11, <1>12 DEF Raised
<1>14. u.page[n + 1].keys = <<key>>
  BY <1>3, <1>10 DEF Moved
<1> QED BY <1>2, <1>13, <1>14

LEMMA RaisedShape ==
  ASSUME NEW t, NEW lev, NEW old, NEW after, Shape(t, lev, old, after), after # NoNode,
         t.page[old].parent = NoNode, NEW u, Raised(t, u, old, after),
         NEW lev2, lev2 = Grown(lev, Len(t.page), t.height + 1)
  PROVE  Shape(u, lev2, NoNode, NoNode)
<1>1. Pages(t, lev) /\ Linked(t, lev) /\ Family(t, lev, after)
  BY DEF Shape
<1>2. PICK n : n = Len(t.page)
  OBVIOUS
<1>3. /\ old = t.root /\ old \in 1..n /\ after \in 1..n /\ old # after
      /\ t.page[after].parent = NoNode /\ lev[after] = lev[old] /\ lev[old] = t.height
  BY <1>1, <1>2, Above DEF Pages
<1>4. /\ n \in Nat /\ NoNode \notin 1..n /\ n + 1 \notin 1..n /\ n + 1 # NoNode
      /\ \A q \in 1..(n + 1) : q \in 1..n \/ q = n + 1
      /\ \A q \in 1..n : q \in 1..(n + 1)
  <2>1. n \in Nat
    BY <1>1, <1>2 DEF Pages, TreeRec
  <2> QED BY <2>1 DEF NoNode
<1>5. /\ u \in TreeRec /\ u.height = t.height + 1 /\ u.root = n + 1 /\ u.first = t.first
      /\ Len(u.page) = n + 1 /\ InnerOK(u.page[n + 1]) /\ u.page[n + 1].next = NoNode
      /\ u.page[n + 1].prev = NoNode /\ u.page[n + 1].parent = NoNode
  BY <1>2 DEF Raised
<1>6. \A q : HasChild(u.page[n + 1], q) <=> q \in {old, after}
  <2>1. /\ Len(u.page[n + 1].child) = 2
        /\ u.page[n + 1].child[1] = old /\ u.page[n + 1].child[2] = after
    BY <1>2 DEF Raised
  <2>2. 1..2 = {1, 2}
    OBVIOUS
  <2> QED BY <2>1, <2>2 DEF HasChild
<1>7. \A q \in 1..n :
        /\ Moved(u.page[q], t.page[q])
        /\ u.page[q].parent = IF q \in {old, after} THEN n + 1 ELSE t.page[q].parent
  BY <1>2 DEF Raised
<1>8. /\ \A q \in 1..n : lev2[q] = lev[q]
      /\ lev2[n + 1] = t.height + 1 /\ lev2[n + 1] # 0
      /\ t.height \in Nat
  <2>1. t.height \in Nat
    BY <1>1 DEF Pages, TreeRec
  <2> QED BY <1>2, <1>4, <2>1 DEF Grown
<1>9. \A q \in 1..n : /\ lev[q] \in Nat /\ lev[q] <= t.height
                      /\ lev[q] = 0 => t.page[q] \in LeafNode /\ LeafOK(t.page[q])
                      /\ lev[q] # 0 => t.page[q] \in InnerNode /\ InnerOK(t.page[q])
  <2>1. ASSUME NEW q \in 1..Len(t.page)
        PROVE  /\ lev[q] \in Nat /\ lev[q] <= t.height
               /\ lev[q] = 0 => t.page[q] \in LeafNode /\ LeafOK(t.page[q])
               /\ lev[q] # 0 => t.page[q] \in InnerNode /\ InnerOK(t.page[q])
    BY <1>1 DEF Pages, LeafOK, InnerOK
  <2> QED BY <1>2, <2>1
<1>10. Pages(u, lev2)
  <2>1. lev2 \in [1..(n + 1) -> Nat]
    BY <1>2, <1>4, <1>8, <1>9 DEF Grown
  <2>2. ASSUME NEW q \in 1..(n + 1)
        PROVE  /\ lev2[q] <= t.height + 1
               /\ lev2[q] = 0 => LeafOK(u.page[q])
               /\ lev2[q] # 0 => InnerOK(u.page[q])
    <3>1. CASE q = n + 1
      BY <1>5, <1>8, <3>1
    <3>2. CASE q \in 1..n
      BY <1>7, <1>8, <1>9, <3>2, SameOK
    <3> QED BY <1>4, <3>1, <3>2
  <2>3. n + 1 \in 1..(n + 1)
    BY <1>4
  <2> QED BY <1>5, <1>8, <2>1, <2>2, <2>3 DEF Pages
<1>11. Linked(u, lev2)
  <2>1. t.first \in 1..n /\ lev[t.first] = 0 /\ t.page[t.first].prev = NoNode
    BY <1>1, <1>2 DEF Linked
  <2>2. t.first \in 1..(n + 1) /\ lev2[t.first] = 0 /\ u.page[t.first].prev = NoNode
    BY <1>4, <1>7, <1>8, <2>1 DEF Moved
  <2>3. ASSUME NEW q \in 1..(n + 1)
        PROVE  /\ u.page[q].next # NoNode =>
                    /\ u.page[q].next \in 1..(n + 1) /\ u.page[q].next # q
                    /\ lev2[u.page[q].next] = lev2[q] /\ u.page[u.page[q].next].prev = q
               /\ u.page[q].prev # NoNode =>
                    /\ u.page[q].prev \in 1..(n + 1)
                    /\ lev2[u.page[q].prev] = lev2[q] /\ u.page[u.page[q].prev].next = q
               /\ lev2[q] = 0 /\ q # u.first => u.page[q].prev # NoNode /\ u.page[q].rec # <<>>
    <3>1. CASE q = n + 1
      BY <1>5, <1>8, <3>1
    <3>2. CASE q \in 1..n
      <4>1. PICK a, b : a = t.page[q].next /\ b = t.page[q].prev
        OBVIOUS
      <4>2. /\ a # NoNode => a \in 1..n /\ a # q /\ lev[a] = lev[q] /\ t.page[a].prev = q
            /\ b # NoNode => b \in 1..n /\ lev[b] = lev[q] /\ t.page[b].next = q
            /\ lev[q] = 0 /\ q # t.first => b # NoNode /\ t.page[q].rec # <<>>
        BY <1>1, <1>2, <3>2, <4>1 DEF Linked
      <4>3. u.page[q].next = a /\ u.page[q].prev = b
        BY <1>7, <3>2, <4>1 DEF Moved
      <4>4. /\ a # NoNode => u.page[a].prev = q /\ lev2[a] = lev2[q] /\ a \in 1..(n + 1)
            /\ b # NoNode => u.page[b].next = q /\ lev2[b] = lev2[q] /\ b \in 1..(n + 1)
        BY <1>4, <1>7, <1>8, <3>2, <4>2 DEF Moved
      <4>5. lev2[q] = 0 => lev[q] = 0 /\ u.page[q].rec = t.page[q].rec
        BY <1>7, <1>8, <1>9, <3>2 DEF Moved
      <4> QED BY <1>5, <4>2, <4>3, <4>4, <4>5
    <3> QED BY <1>4, <3>1, <3>2
  <2> QED BY <1>5, <2>2, <2>3 DEF Linked
<1>12. \A p \in 1..n : lev[p] # 0 => u.page[p].child = t.page[p].child
  BY <1>7, <1>9 DEF Moved
<1>13. ASSUME NEW p \in 1..(n + 1), lev2[p] # 0, NEW c, HasChild(u.page[p], c)
       PROVE  c \in 1..(n + 1) /\ lev2[c] = lev2[p] - 1 /\ u.page[c].parent = p /\ c # NoNode
  <2>1. CASE p = n + 1
    <3>1. c \in {old, after}
      BY <1>6, <1>13, <2>1
    <3>2. c \in 1..n /\ c \in 1..(n + 1) /\ c # NoNode /\ lev[c] = lev2[c]
      BY <1>3, <1>4, <1>8, <3>1
    <3>3. u.page[c].parent = p
      BY <1>7, <2>1, <3>1, <3>2
    <3>4. lev2[c] = lev2[p] - 1
      BY <1>3, <1>4, <1>8, <2>1, <3>1, <3>2
    <3> QED BY <3>2, <3>3, <3>4
  <2>2. CASE p \in 1..n
    <3>1. lev[p] # 0 /\ IsChild(t, c, p)
      BY <1>8, <1>12, <1>13, <2>2 DEF HasChild, IsChild
    <3>2. c \in 1..n /\ lev[c] = lev[p] - 1 /\ t.page[c].parent = p
      BY <1>1, <1>2, <2>2, <3>1, ChildIn
    <3>3. c \notin {old, after}
      BY <1>3, <1>4, <2>2, <3>2
    <3> QED BY <1>4, <1>7, <1>8, <2>2, <3>2, <3>3
  <2> QED BY <1>4, <2>1, <2>2
<1>14. ASSUME NEW p \in 1..(n + 1), lev2[p] # 0
       PROVE  \A i, j \in 1..Len(u.page[p].child) : u.page[p].child[i] = u.page[p].child[j] => i = j
  <2>1. CASE p = n + 1
    <3>1. /\ Len(u.page[p].child) = 2
          /\ u.page[p].child[1] = old /\ u.page[p].child[2] = after
      BY <1>2, <2>1 DEF Raised
    <3>2. 1..2 = {1, 2}
      OBVIOUS
    <3> QED BY <1>3, <3>1, <3>2
  <2>2. CASE p \in 1..n
    <3>1. lev[p] # 0 /\ u.page[p].child = t.page[p].child
      BY <1>8, <1>12, <1>14, <2>2
    <3>2. \A i, j \in 1..Len(t.page[p].child) : t.page[p].child[i] = t.page[p].child[j] => i = j
      BY <1>1, <1>2, <2>2, <3>1 DEF Family
    <3> QED BY <3>1, <3>2
  <2> QED BY <1>4, <2>1, <2>2
<1>15. ASSUME NEW q \in 1..n, NEW p, p = u.page[q].parent
       PROVE  p \in 1..(n + 1) /\ lev2[p] # 0 /\ IsChild(u, q, p)
  <2>1. CASE q \in {old, after}
    <3>1. p = n + 1 /\ HasChild(u.page[p], q)
      BY <1>6, <1>7, <1>15, <2>1
    <3> QED BY <1>4, <1>8, <3>1 DEF HasChild, IsChild
  <2>2. CASE q \notin {old, after}
    <3>1. p = t.page[q].parent
      BY <1>7, <1>15, <2>2
    <3>2. p \in 1..n /\ lev[p] # 0 /\ IsChild(t, q, p)
      BY <1>1, <1>2, <1>3, <2>2, <3>1 DEF Family
    <3>3. IsChild(u, q, p)
      BY <1>12, <3>2 DEF IsChild
    <3> QED BY <1>4, <1>8, <3>2, <3>3
  <2> QED BY <2>1, <2>2
<1>16. Family(u, lev2, NoNode)
  <2>2. ASSUME NEW p \in 1..(n + 1), lev2[p] # 0, NEW i \in 1..Len(u.page[p].child)
        PROVE  LET c == u.page[p].child[i] IN
               c \in 1..(n + 1) /\ lev2[c] = lev2[p] - 1 /\ u.page[c].parent = p /\ c # NoNode
    <3>1. PICK c : c = u.page[p].child[i]
      OBVIOUS
    <3>2. HasChild(u.page[p], c)
      BY <3>1 DEF HasChild
    <3>3. c \in 1..(n + 1) /\ lev2[c] = lev2[p] - 1 /\ u.page[c].parent = p /\ c # NoNode
      BY <1>13, <2>2, <3>2
    <3> QED BY <3>1, <3>3
  <2>3. ASSUME NEW q \in 1..(n + 1), q # u.root, q # NoNode
        PROVE  LET p == u.page[q].parent IN p \in 1..(n + 1) /\ lev2[p] # 0 /\ IsChild(u, q, p)
    <3>1. q \in 1..n
      BY <1>4, <1>5, <2>3
    <3> QED BY <1>15, <3>1
  <2>7. \A p \in 1..Len(u.page) : lev2[p] # 0 => \A i \in 1..Len(u.page[p].child) :
          LET c == u.page[p].child[i] IN
          c \in 1..Len(u.page) /\ lev2[c] = lev2[p] - 1 /\ u.page[c].parent = p /\ c # NoNode
    BY <1>5, <2>2
  <2>8. \A p \in 1..Len(u.page) : lev2[p] # 0 => \A i, j \in 1..Len(u.page[p].child) :
          u.page[p].child[i] = u.page[p].child[j] => i = j
    BY <1>5, <1>14
  <2>9. \A q \in 1..Len(u.page) : q # u.root /\ q # NoNode =>
          LET p == u.page[q].parent IN p \in 1..Len(u.page) /\ lev2[p] # 0 /\ IsChild(u, q, p)
    BY <1>5, <2>3
  <2> QED BY <1>5, <2>7, <2>8, <2>9 DEF Family
<1>17. Pending(u, lev2, NoNode, NoNode)
  BY DEF Pending
<1>18. Begun(u)
  <2>1. t.first \in 1..n /\ lev[t.first] = 0
    BY <1>1, <1>2 DEF Linked
  <2>2. Begun(t)
    BY DEF Shape
  <2>3. u.page[t.first].next = t.page[t.first].next /\ u.page[t.first].rec = t.page[t.first].rec
    BY <1>7, <1>9, <2>1 DEF Moved
  <2> QED BY <1>5, <2>2, <2>3 DEF Begun
<1> QED BY <1>10, <1>11, <1>16, <1>17, <1>18 DEF Shape

LEMMA NewRootShape ==
  ASSUME NEW t, NEW lev, NEW old, NEW after, Shape(t, lev, old, after), after # NoNode,
         t.page[old].parent = NoNode, NEW key \in Value
  PROVE  Shape(NewRoot(t, key, old, after), Grown(lev, Len(t.page), t.height + 1), NoNode, NoNode)
<1>1. PICK lev2 : lev2 = Grown(lev, Len(t.page), t.height + 1)
  OBVIOUS
<1>2. t \in TreeRec /\ old \in 1..Len(t.page) /\ after \in 1..Len(t.page)
  BY DEF Shape, Pages, Pending
<1>3. PICK u : u = NewRoot(t, key, old, after)
  OBVIOUS
<1>4. Raised(t, NewRoot(t, key, old, after), old, after)
  BY <1>2, NewRootIs
<1>5. Raised(t, u, old, after)
  BY <1>3, <1>4
<1>6. Shape(u, lev2, NoNode, NoNode)
  BY <1>1, <1>5, RaisedShape
<1> QED BY <1>1, <1>3, <1>6

\* A new index: a root over one empty leaf.
LEMMA EmptyShape == Shape(EmptyTree, [q \in 1..2 |-> 2 - q], NoNode, NoNode)
<1> DEFINE x == [parent |-> NoNode, next |-> NoNode, prev |-> NoNode, keys |-> <<>>, child |-> <<2>>]
           y == [parent |-> 1, next |-> NoNode, prev |-> NoNode, rec |-> <<>>]
           t == EmptyTree
           lev == [q \in 1..2 |-> 2 - q]
<1>1. /\ t.height = 1 /\ t.root = 1 /\ t.first = 2 /\ t.page = <<x, y>>
      /\ Len(t.page) = 2 /\ t.page[1] = x /\ t.page[2] = y
  BY DEF EmptyTree
<1>2. x.child = <<2>> /\ Len(x.child) = 1 /\ x.child[1] = 2 /\ x.keys = <<>> /\ Len(x.keys) = 0
      /\ x.parent = NoNode /\ x.next = NoNode /\ x.prev = NoNode
  OBVIOUS
<1>3. y.parent = 1 /\ y.next = NoNode /\ y.prev = NoNode /\ y.rec = <<>> /\ Len(y.rec) = 0
  OBVIOUS
<1>4. x \in InnerNode /\ y \in LeafNode
  BY DEF InnerNode, LeafNode, NoNode
<1> HIDE DEF x, y
<1>5. t \in TreeRec
  <2>1. PICK g : g = <<x, y>>
    OBVIOUS
  <2>2. g \in Seq(LeafNode \cup InnerNode)
    BY <1>4, <2>1
  <2>3. t = [height |-> 1, root |-> 1, first |-> 2, page |-> g]
    BY <2>1 DEF EmptyTree, x, y
  <2> QED BY <2>2, <2>3 DEF TreeRec
<1> HIDE DEF t
<1>6. lev[1] = 1 /\ lev[2] = 0 /\ lev \in [1..2 -> Nat] /\ 1..2 = {1, 2} /\ 1..1 = {1}
  OBVIOUS
<1> HIDE DEF lev
<1>7. LeafOK(y) /\ InnerOK(x)
  BY <1>2, <1>3, <1>4, TreeAssumption DEF LeafOK, InnerOK
<1>8. Pages(t, lev)
  BY <1>1, <1>5, <1>6, <1>7 DEF Pages
<1>9. Linked(t, lev)
  BY <1>1, <1>2, <1>3, <1>6 DEF Linked
<1>10. IsChild(t, 2, 1)
  BY <1>1, <1>2, <1>6 DEF IsChild
<1>11. Family(t, lev, NoNode)
  BY <1>1, <1>2, <1>3, <1>6, <1>10 DEF Family, NoNode
<1>12. Pending(t, lev, NoNode, NoNode)
  BY DEF Pending
<1>14. Begun(t)
  BY <1>1, <1>3 DEF Begun
<1>13. Shape(t, lev, NoNode, NoNode)
  BY <1>8, <1>9, <1>11, <1>12, <1>14 DEF Shape
<1> QED BY <1>13 DEF t, lev
-----------------------------------------------------------------------------
(* The way of a search. *)

PathStep(t, v, g, level) ==
  IF level = 0 THEN t.root
  ELSE LET node == t.page[g[level - 1]]
       IN node.child[AM_UpperBound(node.keys, Len(node.child), v)]

IsPath(t, v, g) == g = [level \in 0..t.height |-> PathStep(t, v, g, level)]

LEMMA PathIsPath ==
  ASSUME NEW t, NEW v, NEW f, IsPath(t, v, f)
  PROVE  IsPath(t, v, Path(t, v))
<1>1. Path(t, v) = CHOOSE g : IsPath(t, v, g)
  BY DEF Path, IsPath, PathStep
<1> QED BY <1>1

\* The child that a search goes on to.
Down(t, v, p) ==
  t.page[p].child[AM_UpperBound(t.page[p].keys, Len(t.page[p].child), v)]

LEMMA PathGoesDown ==
  ASSUME NEW t, NEW lev, NEW old, NEW after, Shape(t, lev, old, after), NEW v,
         NEW p \in 1..Len(t.page), lev[p] # 0
  PROVE  /\ Down(t, v, p) \in 1..Len(t.page) /\ lev[Down(t, v, p)] = lev[p] - 1
         /\ t.page[Down(t, v, p)].parent = p
<1>1. Pages(t, lev) /\ Family(t, lev, after)
  BY DEF Shape
<1>2. PICK k, ks : k = Len(t.page[p].child) /\ ks = t.page[p].keys
  OBVIOUS
<1>3. k \in 1..FANOUT /\ ks \in Seq(Value) /\ Len(ks) = k - 1
  BY <1>1, <1>2, LeafIn DEF Inner, InnerNode
<1>4. AM_UpperBound(ks, k, v) \in 1..k
  BY <1>3, UpperBoundIn, TreeAssumption
<1>5. AM_UpperBound(t.page[p].keys, Len(t.page[p].child), v) \in 1..Len(t.page[p].child)
  BY <1>2, <1>4
<1>6. IsChild(t, Down(t, v, p), p)
  BY <1>5 DEF IsChild, Down
<1>7. PICK c : c = Down(t, v, p)
  OBVIOUS
<1>8. IsChild(t, c, p)
  BY <1>6, <1>7
<1>9. c \in 1..Len(t.page) /\ lev[c] = lev[p] - 1 /\ t.page[c].parent = p
  BY <1>1, <1>8, ChildIn
<1> QED BY <1>7, <1>9

\* f is the way of a search down to level k from the root.
Prefix(t, v, k, f) ==
  /\ DOMAIN f = 0..k /\ f[0] = t.root
  /\ \A i \in 1..k : f[i] = Down(t, v, f[i - 1])

\* Where each node on the way lies.
LEMMA PrefixLevels ==
  ASSUME NEW t, NEW lev, NEW old, NEW after, Shape(t, lev, old, after), NEW v,
         NEW k \in 0..t.height, NEW f, Prefix(t, v, k, f), NEW i \in 0..k
  PROVE  f[i] \in 1..Len(t.page) /\ lev[f[i]] = t.height - i
<1> DEFINE Off(j) == ~(f[j] \in 1..Len(t.page) /\ lev[f[j]] = t.height - j)
           S == {j \in 0..k : Off(j)}
<1>1. t.height \in Nat /\ t.root \in 1..Len(t.page) /\ lev[t.root] = t.height
  BY DEF Shape, Pages, TreeRec
<1>2. k \in Nat /\ k <= t.height
  BY <1>1
<1>3. SUFFICES ASSUME S # {} PROVE FALSE
  OBVIOUS
<1>4. PICK j \in S : \A i2 \in S : j <= i2
  <2>1. S \in SUBSET Nat
    BY <1>2
  <2> HIDE DEF S
  <2> QED BY <1>3, <2>1, LeastOf
<1>5. j \in 0..k /\ Off(j) /\ j \in Nat
  BY <1>2, <1>4
<1>6. j # 0
  BY <1>1, <1>5 DEF Prefix
<1>7. j - 1 \in 0..k /\ j - 1 \notin S /\ j \in 1..k
  BY <1>2, <1>4, <1>5, <1>6
<1>8. f[j - 1] \in 1..Len(t.page) /\ lev[f[j - 1]] = t.height - (j - 1)
  BY <1>7
<1> HIDE DEF S
<1>9. lev[f[j - 1]] # 0
  BY <1>1, <1>2, <1>7, <1>8
<1>10. f[j] = Down(t, v, f[j - 1])
  BY <1>7 DEF Prefix
<1>11. f[j] \in 1..Len(t.page) /\ lev[f[j]] = lev[f[j - 1]] - 1
  BY <1>8, <1>9, <1>10, PathGoesDown
<1>12. lev[f[j]] = t.height - j
  BY <1>1, <1>5, <1>8, <1>11
<1> QED BY <1>5, <1>11, <1>12

LEMMA PrefixExists ==
  ASSUME NEW t, NEW v, t.height \in Nat, NEW k \in 0..t.height
  PROVE  \E f : Prefix(t, v, k, f)
<1> DEFINE S == {j \in 0..t.height : ~\E f : Prefix(t, v, j, f)}
<1>1. SUFFICES ASSUME S # {} PROVE FALSE
  OBVIOUS
<1>2. PICK j \in S : \A i \in S : j <= i
  <2>1. S \in SUBSET Nat
    OBVIOUS
  <2> HIDE DEF S
  <2> QED BY <1>1, <2>1, LeastOf
<1>3. j \in 0..t.height /\ j \in Nat /\ ~\E f : Prefix(t, v, j, f)
  BY <1>2
<1>4. j # 0
  <2>1. Prefix(t, v, 0, [i \in 0..0 |-> t.root])
    BY DEF Prefix
  <2> QED BY <1>3, <2>1
<1>5. j - 1 \in 0..t.height /\ j - 1 \notin S /\ j - 1 \in Nat
  BY <1>2, <1>3, <1>4
<1>6. PICK f : Prefix(t, v, j - 1, f)
  BY <1>5
<1> DEFINE c == Down(t, v, f[j - 1])
           g == [i \in 0..j |-> IF i = j THEN c ELSE f[i]]
<1>7. /\ DOMAIN g = 0..j /\ g[j] = c
      /\ \A i \in 0..(j - 1) : g[i] = f[i]
  <2> HIDE DEF c
  <2> QED BY <1>3, <1>5
<1>8. DOMAIN f = 0..(j - 1) /\ f[0] = t.root
  BY <1>6 DEF Prefix
<1>9. \A i \in 1..(j - 1) : f[i] = Down(t, v, f[i - 1])
  BY <1>6 DEF Prefix
<1> HIDE DEF g
<1>10. ASSUME NEW i \in 1..j
       PROVE  g[i] = Down(t, v, g[i - 1])
  <2>1. i - 1 \in 0..(j - 1) /\ g[i - 1] = f[i - 1]
    BY <1>3, <1>7
  <2>2. CASE i = j
    BY <1>7, <2>1, <2>2
  <2>3. CASE i # j
    <3>1. i \in 1..(j - 1) /\ i \in 0..(j - 1)
      BY <1>3, <2>3
    <3>2. g[i] = f[i]
      BY <1>7, <3>1
    <3> QED BY <1>9, <2>1, <3>1, <3>2
  <2> QED BY <2>2, <2>3
<1>11. g[0] = t.root
  BY <1>5, <1>7, <1>8
<1>12. Prefix(t, v, j, g)
  BY <1>7, <1>10, <1>11 DEF Prefix
<1> QED BY <1>3, <1>12

LEMMA PathIsPrefix ==
  ASSUME NEW t, NEW v, t.height \in Nat
  PROVE  Prefix(t, v, t.height, Path(t, v))
<1> DEFINE h == t.height
           g == Path(t, v)
           Step(f, i) == PathStep(t, v, f, i)
<1>1. PICK f : Prefix(t, v, h, f)
  BY PrefixExists
<1>2. PICK r : r = [i \in 0..h |-> f[i]]
  OBVIOUS
<1>8. IsPath(t, v, r)
  <2>1. \A i \in 0..h : r[i] = f[i]
    BY <1>2
  <2>2. \A i \in 0..h : i = 0 \/ (i \in 1..h /\ i # 0 /\ i - 1 \in 0..h)
    OBVIOUS
  <2>3. f[0] = t.root /\ \A i \in 1..h : f[i] = Down(t, v, f[i - 1])
    BY <1>1 DEF Prefix
  <2>4. \A i \in 0..h : f[i] = Step(r, i)
    BY <2>1, <2>2, <2>3 DEF PathStep, Down
  <2> HIDE DEF Step
  <2>5. r = [i \in 0..h |-> Step(r, i)]
    BY <1>2, <2>4
  <2> QED BY <2>5 DEF IsPath, Step
<1>3. IsPath(t, v, g)
  BY <1>8, PathIsPath
<1> HIDE DEF g
<1>4. g = [i \in 0..h |-> Step(g, i)]
  BY <1>3 DEF IsPath
<1>5. DOMAIN g = 0..h /\ \A i \in 0..h : g[i] = Step(g, i)
  <2> HIDE DEF Step
  <2> QED BY <1>4
<1>6. 0 \in 0..h /\ \A i \in 1..h : i \in 0..h /\ i # 0
  OBVIOUS
<1>7. g[0] = t.root /\ \A i \in 1..h : g[i] = Down(t, v, g[i - 1])
  BY <1>5, <1>6 DEF PathStep, Down
<1> QED BY <1>5, <1>7 DEF Prefix, g

\* A search ends in a leaf, and comes there through its parent.
LEMMA SearchEnds ==
  ASSUME NEW t, NEW lev, NEW old, NEW after, Shape(t, lev, old, after), NEW v
  PROVE  /\ AM_SearchLeaf(t, v) \in 1..Len(t.page) /\ lev[AM_SearchLeaf(t, v)] = 0
         /\ t.page[AM_SearchLeaf(t, v)].parent = AM_SearchIndex(t, v)
<1> DEFINE f == Path(t, v)
           h == t.height
<1>1. h \in Nat \ {0}
  BY DEF Shape, Pages, TreeRec
<1>2. Prefix(t, v, h, f)
  BY <1>1, PathIsPrefix
<1>3. h \in 0..h /\ h - 1 \in 0..h /\ h \in 1..h
  BY <1>1
<1> HIDE DEF f
<1>4. ASSUME NEW i \in 0..h PROVE f[i] \in 1..Len(t.page) /\ lev[f[i]] = h - i
  BY <1>2, <1>3, PrefixLevels
<1>5. f[h] \in 1..Len(t.page) /\ lev[f[h]] = 0
  BY <1>1, <1>3, <1>4
<1>6. f[h - 1] \in 1..Len(t.page) /\ lev[f[h - 1]] # 0
  BY <1>1, <1>3, <1>4
<1>7. f[h] = Down(t, v, f[h - 1])
  BY <1>2, <1>3 DEF Prefix
<1>8. t.page[f[h]].parent = f[h - 1]
  BY <1>6, <1>7, PathGoesDown
<1> QED BY <1>5, <1>8 DEF AM_SearchLeaf, AM_SearchIndex, f, h

-----------------------------------------------------------------------------
(* Comparing values. *)

\* The comparison of am.c:541 is a subtraction: it is right when no difference
\* of two values overflows.
DifferencesFit == \A a, b \in Value : a - b \in (-INT_MAX - 1)..INT_MAX

LEMMA SmallMod ==
  ASSUME NEW m \in Nat, NEW y \in 0..(m - 1)
  PROVE  y % m = y
<1>1. m > 0 /\ y \in Int
  OBVIOUS
<1> DEFINE k == y \div m
<1>2. y = m * k + (y % m) /\ y % m \in 0..(m - 1) /\ k \in Int
  BY <1>1
<1>3. k = 0
  <2>1. k \in Int /\ y = m * k + (y % m) /\ y % m \in 0..(m - 1) /\ y \in 0..(m - 1) /\ m \in Nat
    BY <1>2
  <2> HIDE DEF k
  <2>2. ~(k >= 1)
    BY <2>1
  <2>3. ~(k <= -1)
    BY <2>1
  <2> QED BY <2>1, <2>2, <2>3
<1> QED BY <1>2, <1>3

LEMMA CompIs ==
  ASSUME DifferencesFit, NEW a \in Value, NEW b \in Value
  PROVE  a \in Int /\ b \in Int /\ AM_CompAttVal(a, b) = a - b
<1> DEFINE x == a - b
           m == 2 * INT_MAX + 2
           y == x + INT_MAX + 1
<1>1. INT_MAX \in Nat /\ a \in Int /\ b \in Int
  BY TreeAssumption, AMAssumption
<1>2. x \in (-INT_MAX - 1)..INT_MAX
  BY DEF DifferencesFit
<1> HIDE DEF x
<1>3. m \in Nat /\ y \in 0..(m - 1)
  BY <1>1, <1>2
<1>4. y % m = y
  BY <1>3, SmallMod
<1>5. Wrap(x) = (y % m) - INT_MAX - 1
  BY DEF Wrap
<1> HIDE DEF m
<1>6. Wrap(x) = x
  BY <1>1, <1>2, <1>4, <1>5
<1> QED BY <1>1, <1>6 DEF AM_CompAttVal, x

\* AM_UpperBound finds the first value above v, or the last place.
LEMMA UpperBoundOrder ==
  ASSUME DifferencesFit, NEW values, NEW last \in Nat \ {0}, NEW v \in Value,
         \A j \in 1..(last - 1) : values[j] \in Value
  PROVE  /\ AM_UpperBound(values, last, v) \in 1..last
         /\ \A j \in 1..(last - 1) :
              /\ j < AM_UpperBound(values, last, v) => values[j] <= v
              /\ j = AM_UpperBound(values, last, v) => v < values[j]
<1> DEFINE T == {i \in 1..(last - 1) : AM_CompAttVal(v, values[i]) < 0} \cup {last}
<1>1. T \in SUBSET Nat /\ T # {} /\ T \subseteq 1..last
  OBVIOUS
<1>2. ASSUME NEW j \in 1..(last - 1)
      PROVE  j \in T <=> v < values[j]
  <2>1. j # last
    OBVIOUS
  <2>2. j \in T <=> AM_CompAttVal(v, values[j]) < 0
    BY <2>1
  <2>3. v \in Int /\ values[j] \in Int /\ AM_CompAttVal(v, values[j]) = v - values[j]
    BY CompIs
  <2> HIDE DEF T
  <2> QED BY <2>2, <2>3
<1> HIDE DEF T
<1>3. Min(T) \in T /\ \A j \in T : Min(T) <= j
  BY <1>1, LeastOf DEF Min
<1>4. AM_UpperBound(values, last, v) = Min(T)
  BY DEF AM_UpperBound, T
<1>5. ASSUME NEW j \in 1..(last - 1), j < Min(T)
      PROVE  values[j] <= v
  <2>1. Min(T) \in Nat /\ j \in Nat
    <3>1. PICK m : m = Min(T)
      OBVIOUS
    <3>2. m \in Nat
      BY <1>1, <1>3, <3>1
    <3> QED BY <3>1, <3>2
  <2>3. j \notin T
    BY <1>3, <1>5, <2>1
  <2>2. v \in Int /\ values[j] \in Int
    BY CompIs
  <2> QED BY <1>2, <2>2, <2>3
<1>6. ASSUME NEW j \in 1..(last - 1), j = Min(T)
      PROVE  v < values[j]
  BY <1>2, <1>3, <1>6
<1> QED BY <1>1, <1>3, <1>4, <1>5, <1>6
-----------------------------------------------------------------------------
(* The entries of a leaf. *)

\* Below every value, and above.
Bottom == -INT_MAX - 2
Top == INT_MAX + 1

LEMMA Ends ==
  /\ Bottom \in Int /\ Top \in Int /\ Bottom < Top
  /\ \A v \in Value : v \in Int /\ Bottom < v /\ v < Top
BY TreeAssumption, AMAssumption DEF Bottom, Top

Sorted(rec) == \A i, j \in 1..Len(rec) : i <= j => rec[i].value <= rec[j].value

\* The entries of a leaf for the values from lo to hi.  Only the leftmost leaf
\* can do without an entry of its smallest value.
LeafOrder(rec, lo, hi) ==
  /\ Sorted(rec)
  /\ \A i \in 1..Len(rec) : lo <= rec[i].value /\ rec[i].value <= hi
  /\ lo # Bottom => Len(rec) # 0 /\ rec[1].value = lo

\* v belongs in place p of rec.
Parts(rec, p, v) ==
  \A j \in 1..Len(rec) : /\ j < p => rec[j].value <= v
                         /\ j >= p => v <= rec[j].value

LEMMA RecIn ==
  ASSUME NEW rec \in Seq(Rec), NEW j \in 1..Len(rec)
  PROVE  rec[j] \in Rec /\ rec[j].value \in Value /\ rec[j].value \in Int
<1>1. rec[j] \in Rec
  OBVIOUS
<1>2. rec[j].value \in Value
  BY <1>1 DEF Rec
<1> QED BY <1>1, <1>2, Ends

LEMMA RecPlaceParts ==
  ASSUME DifferencesFit, NEW rec \in Seq(Rec), Sorted(rec), NEW e \in Rec
  PROVE  Parts(rec, RecPlace(rec, e), e.value)
<1> DEFINE n == Len(rec)
           v == e.value
           at == AM_UpperBound(Values(rec), n, v)
           p == RecPlace(rec, e)
<1>1. v \in Value /\ v \in Int /\ n \in Nat
  BY Ends DEF Rec
<1>2. \A j \in 1..n : rec[j].value \in Value /\ rec[j].value \in Int /\ Values(rec)[j] = rec[j].value
  <2>1. \A j \in 1..n : rec[j].value \in Value /\ rec[j].value \in Int
    BY RecIn
  <2>2. \A j \in 1..n : Values(rec)[j] = rec[j].value
    BY DEF Values
  <2> QED BY <2>1, <2>2
<1>3. CASE n = 0
  BY <1>3 DEF Parts
<1>4. CASE n # 0
  <2>1. /\ at \in 1..n
        /\ \A j \in 1..(n - 1) : /\ j < at => Values(rec)[j] <= v
                                 /\ j = at => v < Values(rec)[j]
    <3>1. n \in Nat \ {0} /\ \A j \in 1..(n - 1) : Values(rec)[j] \in Value
      BY <1>1, <1>2, <1>4
    <3>2. PICK vs, k : vs = Values(rec) /\ k = n
      OBVIOUS
    <3>3. /\ AM_UpperBound(vs, k, v) \in 1..k
          /\ \A j \in 1..(k - 1) : /\ j < AM_UpperBound(vs, k, v) => vs[j] <= v
                                   /\ j = AM_UpperBound(vs, k, v) => v < vs[j]
      BY <1>1, <3>1, <3>2, UpperBoundOrder
    <3> QED BY <3>2, <3>3
  <2>2. p = IF at = n /\ AM_CompAttVal(v, rec[n].value) > 0 THEN n + 1 ELSE at
    BY <1>4 DEF RecPlace
  <2>3. n \in 1..n /\ AM_CompAttVal(v, rec[n].value) = v - rec[n].value
    <3>1. n \in 1..n
      BY <1>1, <1>4
    <3> QED BY <1>1, <1>2, <3>1, CompIs
  <2> HIDE DEF at, p, v
  <2>4. \A i, j \in 1..n : i <= j => rec[i].value <= rec[j].value
    BY DEF Sorted
  <2>5. ASSUME NEW j \in 1..n
        PROVE  /\ j < p => rec[j].value <= v
               /\ j >= p => v <= rec[j].value
    <3>1. CASE at = n /\ v > rec[n].value
      <4>1. p = n + 1
        BY <1>1, <1>2, <2>2, <2>3, <3>1
      <4>2. rec[j].value <= rec[n].value
        BY <1>1, <2>3, <2>4
      <4> QED BY <1>1, <1>2, <2>3, <3>1, <4>1, <4>2
    <3>2. CASE at = n /\ ~(v > rec[n].value)
      <4>1. p = n
        BY <1>1, <1>2, <2>2, <2>3, <3>2
      <4>2. j < n => rec[j].value <= v
        BY <1>1, <1>2, <2>1, <3>2
      <4> QED BY <1>1, <1>2, <2>3, <3>2, <4>1, <4>2
    <3>3. CASE at # n
      <4>1. p = at /\ at \in 1..(n - 1)
        BY <1>1, <2>1, <2>2, <3>3
      <4>2. v < rec[at].value
        BY <1>2, <2>1, <4>1
      <4>3. j < at => rec[j].value <= v
        BY <1>1, <1>2, <2>1, <4>1
      <4>4. j >= at => rec[at].value <= rec[j].value
        BY <2>1, <2>4
      <4> QED BY <1>1, <1>2, <2>1, <4>1, <4>2, <4>3, <4>4
    <3> QED BY <3>1, <3>2, <3>3
  <2> QED BY <2>5 DEF Parts, p, v
<1> QED BY <1>3, <1>4

\* Putting an entry where it belongs keeps the order.
LEMMA SpreadSorted ==
  ASSUME NEW rec \in Seq(Rec), Sorted(rec), NEW e \in Rec, NEW p \in 1..(Len(rec) + 1),
         Parts(rec, p, e.value), NEW i \in 1..(Len(rec) + 1), NEW j \in 1..(Len(rec) + 1), i <= j
  PROVE  Spread(rec, p, e, i).value <= Spread(rec, p, e, j).value
<1> DEFINE n == Len(rec)
           v == e.value
<1>1. n \in Nat /\ v \in Int /\ \A k \in 1..n : rec[k].value \in Int
  <2>1. \A k \in 1..Len(rec) : rec[k].value \in Int
    BY RecIn
  <2>2. e.value \in Int
    BY Ends DEF Rec
  <2> QED BY <2>1, <2>2
<1>2. \A k \in 1..n : (k < p => rec[k].value <= v) /\ (k >= p => v <= rec[k].value)
  BY DEF Parts
<1>3. \A k, l \in 1..n : k <= l => rec[k].value <= rec[l].value
  BY DEF Sorted
<1> HIDE DEF n, v
<1>4. CASE j < p
  <2>1. Spread(rec, p, e, i) = rec[i] /\ Spread(rec, p, e, j) = rec[j] /\ i \in 1..n /\ j \in 1..n
    BY <1>4 DEF Spread, n
  <2> QED BY <1>3, <2>1
<1>5. CASE j = p
  <2>1. Spread(rec, p, e, j).value = v
    BY <1>5 DEF Spread, v
  <2>2. i < p => i \in 1..n /\ Spread(rec, p, e, i) = rec[i]
    BY DEF Spread, n
  <2>3. i = p => Spread(rec, p, e, i).value = v
    BY DEF Spread, v
  <2> QED BY <1>1, <1>2, <1>5, <2>1, <2>2, <2>3
<1>6. CASE j > p
  <2>1. Spread(rec, p, e, j) = rec[j - 1] /\ j - 1 \in 1..n /\ j - 1 >= p
    BY <1>6 DEF Spread, n
  <2>2. CASE i < p
    <3>1. Spread(rec, p, e, i) = rec[i] /\ i \in 1..n /\ i <= j - 1
      BY <1>6, <2>2 DEF Spread, n
    <3> QED BY <1>3, <2>1, <3>1
  <2>3. CASE i = p
    <3>1. Spread(rec, p, e, i).value = v
      BY <2>3 DEF Spread, v
    <3> QED BY <1>2, <2>1, <3>1
  <2>4. CASE i > p
    <3>1. Spread(rec, p, e, i) = rec[i - 1] /\ i - 1 \in 1..n /\ i - 1 <= j - 1
      BY <2>4 DEF Spread, n
    <3> QED BY <1>3, <2>1, <3>1
  <2> QED BY <2>2, <2>3, <2>4
<1> QED BY <1>4, <1>5, <1>6

LEMMA SpreadValues ==
  ASSUME NEW rec \in Seq(Rec), NEW e \in Rec, NEW p \in 1..(Len(rec) + 1), NEW lo \in Int, NEW hi \in Int,
         \A i \in 1..Len(rec) : lo <= rec[i].value /\ rec[i].value <= hi,
         lo <= e.value, e.value <= hi, NEW j \in 1..(Len(rec) + 1)
  PROVE  lo <= Spread(rec, p, e, j).value /\ Spread(rec, p, e, j).value <= hi
<1>1. CASE j < p
  <2>1. j \in 1..Len(rec) /\ Spread(rec, p, e, j) = rec[j]
    BY <1>1 DEF Spread
  <2> QED BY <2>1
<1>2. CASE j = p
  BY <1>2 DEF Spread
<1>3. CASE j > p
  <2>1. j - 1 \in 1..Len(rec) /\ Spread(rec, p, e, j) = rec[j - 1]
    BY <1>3 DEF Spread
  <2> QED BY <2>1
<1> QED BY <1>1, <1>2, <1>3

\* The first value stays the first.
LEMMA SpreadFirst ==
  ASSUME NEW rec \in Seq(Rec), Len(rec) # 0, NEW e \in Rec, NEW p \in 1..(Len(rec) + 1),
         Parts(rec, p, e.value), rec[1].value <= e.value
  PROVE  Spread(rec, p, e, 1).value = rec[1].value
<1>1. 1 \in 1..Len(rec)
  OBVIOUS
<1>2. e.value \in Int /\ rec[1].value \in Int
  <2>1. e.value \in Int
    BY Ends DEF Rec
  <2> QED BY <1>1, <2>1, RecIn
<1>3. CASE p = 1
  <2>1. e.value <= rec[1].value /\ Spread(rec, p, e, 1) = e
    BY <1>1, <1>3 DEF Parts, Spread
  <2> QED BY <1>2, <2>1
<1>4. CASE p > 1
  BY <1>4 DEF Spread
<1> QED BY <1>3, <1>4

\* x is a part of rec with e in it.
LEMMA PartSorted ==
  ASSUME NEW rec \in Seq(Rec), Sorted(rec), NEW e \in Rec, NEW p \in 1..(Len(rec) + 1),
         Parts(rec, p, e.value), NEW k \in Nat, NEW x \in Seq(Rec), k + Len(x) <= Len(rec) + 1,
         \A j \in 1..Len(x) : x[j] = Spread(rec, p, e, k + j)
  PROVE  Sorted(x)
<1>1. ASSUME NEW i \in 1..Len(x), NEW j \in 1..Len(x), i <= j
      PROVE  x[i].value <= x[j].value
  <2>1. PICK a, b : a = k + i /\ b = k + j
    OBVIOUS
  <2>2. a \in 1..(Len(rec) + 1) /\ b \in 1..(Len(rec) + 1) /\ a <= b
    BY <1>1, <2>1
  <2>3. Spread(rec, p, e, a).value <= Spread(rec, p, e, b).value
    BY <2>2, SpreadSorted
  <2> QED BY <2>1, <2>3
<1> QED BY <1>1 DEF Sorted

LEMMA PlaceRecOrder ==
  ASSUME DifferencesFit, NEW rec \in Seq(Rec), NEW lo \in Int, NEW hi \in Int,
         LeafOrder(rec, lo, hi), NEW e \in Rec, lo <= e.value, e.value <= hi
  PROVE  LeafOrder(AM_InsertRecNoSplit(rec, e), lo, hi)
<1> DEFINE x == AM_InsertRecNoSplit(rec, e)
           p == RecPlace(rec, e)
<1>1. /\ p \in 1..(Len(rec) + 1) /\ x \in Seq(Rec) /\ Len(x) = Len(rec) + 1
      /\ \A j \in 1..(Len(rec) + 1) : x[j] = Spread(rec, p, e, j)
  BY InsertRec
<1>2. Sorted(rec) /\ \A i \in 1..Len(rec) : lo <= rec[i].value /\ rec[i].value <= hi
  BY DEF LeafOrder
<1>3. Parts(rec, p, e.value)
  BY <1>2, RecPlaceParts
<1> HIDE DEF x, p
<1>4. Sorted(x)
  <2>1. \A j \in 1..Len(x) : x[j] = Spread(rec, p, e, 0 + j)
    BY <1>1
  <2>2. 0 \in Nat /\ 0 + Len(x) <= Len(rec) + 1
    BY <1>1
  <2> QED BY <1>1, <1>2, <1>3, <2>1, <2>2, PartSorted
<1>5. ASSUME NEW j \in 1..Len(x)
      PROVE  lo <= x[j].value /\ x[j].value <= hi
  <2>1. j \in 1..(Len(rec) + 1) /\ x[j] = Spread(rec, p, e, j)
    BY <1>1
  <2>2. lo <= Spread(rec, p, e, j).value /\ Spread(rec, p, e, j).value <= hi
    BY <1>1, <1>2, <2>1, SpreadValues
  <2> QED BY <2>1, <2>2
<1>6. ASSUME lo # Bottom
      PROVE  Len(x) # 0 /\ x[1].value = lo
  <2>1. Len(rec) # 0 /\ rec[1].value = lo
    BY <1>6 DEF LeafOrder
  <2>2. Spread(rec, p, e, 1).value = rec[1].value
    BY <1>1, <1>3, <2>1, SpreadFirst
  <2>3. Len(rec) \in Nat /\ 1 \in 1..(Len(rec) + 1)
    OBVIOUS
  <2> QED BY <1>1, <2>1, <2>2, <2>3
<1> QED BY <1>4, <1>5, <1>6 DEF LeafOrder, x

LEMMA SplitPlaceParts ==
  ASSUME DifferencesFit, NEW rec \in Seq(Rec), Len(rec) = FANOUT, Sorted(rec), NEW e \in Rec
  PROVE  Parts(rec, SplitPlace(rec, e), e.value)
<1> DEFINE v == e.value
           p == SplitPlace(rec, e)
<1>1. \A i, j \in 1..FANOUT : i <= j => rec[i].value <= rec[j].value
  BY DEF Sorted
<1>2. \A j \in 1..FANOUT : rec[j].value \in Value /\ rec[j].value \in Int
  BY RecIn
<1>3. v \in Value /\ v \in Int
  BY Ends DEF Rec
<1>4. Middle + 1 \in 1..FANOUT /\ Middle \in 1..FANOUT /\ Middle \in Nat /\ FANOUT \in Nat
  BY MiddleIs
<1>5. GoesRight(rec, e) <=> v > rec[Middle + 1].value
  <2>1. AM_CompAttVal(v, rec[Middle + 1].value) = v - rec[Middle + 1].value
    BY <1>2, <1>3, <1>4, CompIs
  <2> QED BY <1>2, <1>3, <1>4, <2>1 DEF GoesRight
<1> HIDE DEF v
<1>6. CASE GoesRight(rec, e)
  <2> DEFINE m == SubSeq(rec, Middle + 2, FANOUT)
             q == RecPlace(m, e)
  <2>1. /\ Middle + 2 \in 1..(Len(rec) + 1) /\ FANOUT \in 0..Len(rec) /\ Middle + 2 <= FANOUT + 1
        /\ FANOUT - (Middle + 2) + 1 = FANOUT - Middle - 1
    BY MiddleIs
  <2>2. m \in Seq(Rec) /\ Len(m) = FANOUT - Middle - 1
    <3>1. m \in Seq(Rec) /\ Len(m) = FANOUT - (Middle + 2) + 1
      BY <2>1, SubSeqIn
    <3> QED BY <2>1, <3>1
  <2>3. ASSUME NEW j \in 1..(FANOUT - Middle - 1)
        PROVE  m[j] = rec[Middle + 1 + j] /\ Middle + 1 + j \in 1..FANOUT
    <3>1. PICK a, b : a = Middle + 2 /\ b = FANOUT
      OBVIOUS
    <3>2. a \in 1..(Len(rec) + 1) /\ b \in 0..Len(rec) /\ a <= b + 1 /\ j \in 1..(b - a + 1)
      BY <2>1, <3>1
    <3>3. SubSeq(rec, a, b)[j] = rec[a + j - 1]
      BY <3>2, SubSeqIs
    <3>4. a + j - 1 = Middle + 1 + j
      BY <1>4, <3>1
    <3> QED BY <1>4, <3>1, <3>3, <3>4
  <2> HIDE DEF m
  <2>4. Sorted(m)
    <3>1. ASSUME NEW i \in 1..Len(m), NEW j \in 1..Len(m), i <= j
          PROVE  m[i].value <= m[j].value
      <4>1. Middle + 1 + i <= Middle + 1 + j /\ i \in 1..(FANOUT - Middle - 1) /\ j \in 1..(FANOUT - Middle - 1)
        BY <1>4, <2>2, <3>1
      <4> QED BY <1>1, <2>3, <4>1
    <3> QED BY <3>1 DEF Sorted
  <2>5. q \in 1..(Len(m) + 1) /\ Parts(m, q, v)
    BY <2>2, <2>4, RecPlaceParts, InsertRec DEF v
  <2>6. p = Middle + 1 + q
    BY <1>6 DEF SplitPlace, m
  <2> HIDE DEF q, p
  <2>7. ASSUME NEW j \in 1..FANOUT
        PROVE  (j < p => rec[j].value <= v) /\ (j >= p => v <= rec[j].value)
    <3>1. CASE j <= Middle + 1
      <4>1. rec[j].value <= rec[Middle + 1].value
        BY <1>1, <1>4, <3>1
      <4>2. j < p
        BY <1>4, <2>2, <2>5, <2>6, <3>1
      <4>3. v > rec[Middle + 1].value
        BY <1>5, <1>6
      <4>4. rec[j].value \in Int /\ rec[Middle + 1].value \in Int
        BY <1>2, <1>4
      <4>5. j \in Int /\ p \in Int /\ ~(j >= p)
        BY <1>4, <2>2, <2>5, <2>6, <3>1
      <4> QED BY <1>3, <4>1, <4>3, <4>4, <4>5
    <3>2. CASE j > Middle + 1
      <4>1. PICK i \in 1..(FANOUT - Middle - 1) : j = Middle + 1 + i
        <5>1. j - Middle - 1 \in 1..(FANOUT - Middle - 1) /\ j = Middle + 1 + (j - Middle - 1)
          BY <1>4, <3>2
        <5> QED BY <5>1
      <4>2. m[i] = rec[j] /\ i \in 1..Len(m)
        BY <2>2, <2>3, <4>1
      <4>3. (i < q => m[i].value <= v) /\ (i >= q => v <= m[i].value)
        BY <2>5, <4>2 DEF Parts
      <4>4. (j < p <=> i < q) /\ (j >= p <=> i >= q)
        BY <1>4, <2>2, <2>5, <2>6, <4>1
      <4> QED BY <4>2, <4>3, <4>4
    <3> QED BY <1>4, <3>1, <3>2
  <2> QED BY <2>7 DEF Parts, v, p
<1>7. CASE ~GoesRight(rec, e)
  <2> DEFINE m == SubSeq(rec, 1, Middle)
             q == RecPlace(m, e)
  <2>2. m \in Seq(Rec) /\ Len(m) = Middle
    <3>1. 1 \in 1..(Len(rec) + 1) /\ Middle \in 0..Len(rec) /\ 1 <= Middle + 1 /\ Middle - 1 + 1 = Middle
      BY <1>4
    <3>2. m \in Seq(Rec) /\ Len(m) = Middle - 1 + 1
      BY <3>1, SubSeqIn
    <3> QED BY <3>1, <3>2
  <2>3. ASSUME NEW j \in 1..Middle
        PROVE  m[j] = rec[j] /\ j \in 1..FANOUT
    <3>1. PICK a, b : a = 1 /\ b = Middle
      OBVIOUS
    <3>2. a \in 1..(Len(rec) + 1) /\ b \in 0..Len(rec) /\ a <= b + 1 /\ j \in 1..(b - a + 1)
      BY <1>4, <3>1
    <3>3. SubSeq(rec, a, b)[j] = rec[a + j - 1]
      BY <3>2, SubSeqIs
    <3>4. a + j - 1 = j
      BY <3>1
    <3> QED BY <1>4, <3>1, <3>3, <3>4
  <2> HIDE DEF m
  <2>4. Sorted(m)
    <3>1. ASSUME NEW i \in 1..Len(m), NEW j \in 1..Len(m), i <= j
          PROVE  m[i].value <= m[j].value
      BY <1>1, <2>2, <2>3, <3>1
    <3> QED BY <3>1 DEF Sorted
  <2>5. q \in 1..(Len(m) + 1) /\ Parts(m, q, v)
    BY <2>2, <2>4, RecPlaceParts, InsertRec DEF v
  <2>6. p = q
    BY <1>7 DEF SplitPlace, m
  <2> HIDE DEF q, p
  <2>7. ASSUME NEW j \in 1..FANOUT
        PROVE  (j < p => rec[j].value <= v) /\ (j >= p => v <= rec[j].value)
    <3>1. CASE j > Middle
      <4>1. rec[Middle + 1].value <= rec[j].value
        BY <1>1, <1>4, <3>1
      <4>2. ~(j < p)
        BY <1>4, <2>2, <2>5, <2>6, <3>1
      <4> QED BY <1>2, <1>3, <1>4, <1>5, <1>7, <4>1, <4>2
    <3>2. CASE j <= Middle
      <4>2. m[j] = rec[j] /\ j \in 1..Len(m)
        BY <1>4, <2>2, <2>3, <3>2
      <4>3. (j < q => m[j].value <= v) /\ (j >= q => v <= m[j].value)
        BY <2>5, <4>2 DEF Parts
      <4> QED BY <2>6, <4>2, <4>3
    <3> QED BY <1>4, <3>1, <3>2
  <2> QED BY <2>7 DEF Parts, v, p
<1> QED BY <1>6, <1>7

\* The smallest value of the right half.
CutAt(rec, e, key) == key = RightRec(rec, e)[1].value

LEMMA HalvesAre ==
  ASSUME NEW rec \in Seq(Rec), Len(rec) = FANOUT, NEW e \in Rec
  PROVE  /\ LeftRec(rec, e) \in Seq(Rec) /\ Len(LeftRec(rec, e)) = Middle + 1
         /\ RightRec(rec, e) \in Seq(Rec) /\ Len(RightRec(rec, e)) = FANOUT - Middle
         /\ SplitPlace(rec, e) \in 1..(FANOUT + 1)
         /\ \A j \in 1..Len(LeftRec(rec, e)) :
              LeftRec(rec, e)[j] = Spread(rec, SplitPlace(rec, e), e, j)
         /\ \A j \in 1..Len(RightRec(rec, e)) :
              RightRec(rec, e)[j] = Spread(rec, SplitPlace(rec, e), e, Len(LeftRec(rec, e)) + j)
BY Halves

\* A full leaf with e in it is cut into two whose values meet in key.  If key is
\* one of its bounds, many of its entries have that value.
LEMMA SplitRecOrder ==
  ASSUME DifferencesFit, NEW rec \in Seq(Rec), Len(rec) = FANOUT, NEW lo \in Int, NEW hi \in Int,
         LeafOrder(rec, lo, hi), NEW e \in Rec, lo <= e.value, e.value < hi,
         NEW key, CutAt(rec, e, key)
  PROVE  /\ key \in Value /\ lo <= key /\ key <= hi
         /\ LeafOrder(LeftRec(rec, e), lo, key) /\ LeafOrder(RightRec(rec, e), key, hi)
         /\ key = lo => /\ \A j \in 1..(Middle + 1) : rec[j].value = lo
                        /\ e.value = lo \/ rec[Middle + 2].value = lo
         /\ key = hi => \A j \in (Middle + 1)..FANOUT : rec[j].value = hi
<1>1. PICK l, r, p : <<l, r, p>> = <<LeftRec(rec, e), RightRec(rec, e), SplitPlace(rec, e)>>
  OBVIOUS
<1>0. l = LeftRec(rec, e) /\ r = RightRec(rec, e) /\ p = SplitPlace(rec, e)
  BY <1>1
<1>2. /\ l \in Seq(Rec) /\ Len(l) = Middle + 1 /\ r \in Seq(Rec) /\ Len(r) = FANOUT - Middle
      /\ p \in 1..(FANOUT + 1)
      /\ \A j \in 1..Len(l) : l[j] = Spread(rec, p, e, j)
      /\ \A j \in 1..Len(r) : r[j] = Spread(rec, p, e, Len(l) + j)
  BY <1>0, HalvesAre
<1>3. Sorted(rec) /\ \A j \in 1..FANOUT : lo <= rec[j].value /\ rec[j].value <= hi
  BY DEF LeafOrder
<1>4. Parts(rec, p, e.value)
  BY <1>0, <1>3, SplitPlaceParts
<1>5. /\ Middle \in Nat /\ FANOUT \in Nat /\ Middle + 2 <= FANOUT
      /\ FANOUT - Middle \in Nat /\ 1 \in 1..(FANOUT - Middle) /\ Middle + 1 \in Nat
      /\ Middle + 1 + (FANOUT - Middle) = FANOUT + 1
  BY MiddleIs
<1>6. e.value \in Int /\ key = r[1].value /\ r[1] = Spread(rec, p, e, Middle + 2)
  <2>1. e.value \in Int
    BY Ends DEF Rec
  <2>2. key = r[1].value
    BY <1>0 DEF CutAt
  <2>3. r[1] = Spread(rec, p, e, Middle + 1 + 1) /\ Middle + 1 + 1 = Middle + 2
    BY <1>2, <1>5
  <2> QED BY <2>1, <2>2, <2>3
<1>7. key \in Value /\ key \in Int
  BY <1>2, <1>5, <1>6, RecIn
<1>8. ASSUME NEW i \in 1..(FANOUT + 1), NEW j \in 1..(FANOUT + 1), i <= j
      PROVE  Spread(rec, p, e, i).value <= Spread(rec, p, e, j).value
  BY <1>2, <1>3, <1>4, <1>8, SpreadSorted
<1>9. ASSUME NEW j \in 1..(FANOUT + 1)
      PROVE  lo <= Spread(rec, p, e, j).value /\ Spread(rec, p, e, j).value <= hi
  <2>1. \A i \in 1..Len(rec) : lo <= rec[i].value /\ rec[i].value <= hi
    BY <1>3
  <2>2. p \in 1..(Len(rec) + 1) /\ j \in 1..(Len(rec) + 1) /\ e.value <= hi
    BY <1>2, <1>6
  <2> QED BY <2>1, <2>2, SpreadValues
<1>10. key = Spread(rec, p, e, Middle + 2).value /\ Middle + 2 \in 1..(FANOUT + 1)
  BY <1>5, <1>6
<1>11. lo <= key /\ key <= hi
  BY <1>9, <1>10
<1>12. LeafOrder(l, lo, key)
  <2>1. Sorted(l)
    <3>1. \A j \in 1..Len(l) : l[j] = Spread(rec, p, e, 0 + j)
      <4>1. \A j \in 1..Len(l) : 0 + j = j
        OBVIOUS
      <4> QED BY <1>2, <4>1
    <3>2. 0 \in Nat /\ 0 + Len(l) <= Len(rec) + 1
      BY <1>2, <1>5
    <3> QED BY <1>2, <1>3, <1>4, <3>1, <3>2, PartSorted
  <2>2. ASSUME NEW j \in 1..Len(l)
        PROVE  lo <= l[j].value /\ l[j].value <= key
    <3>1. j \in 1..(FANOUT + 1) /\ j <= Middle + 2 /\ l[j] = Spread(rec, p, e, j)
      BY <1>2, <1>5
    <3> QED BY <1>8, <1>9, <1>10, <3>1
  <2>3. ASSUME lo # Bottom
        PROVE  Len(l) # 0 /\ l[1].value = lo
    <3>1. Len(rec) # 0 /\ rec[1].value = lo
      BY <2>3 DEF LeafOrder
    <3>2. Spread(rec, p, e, 1).value = rec[1].value
      BY <1>2, <1>4, <3>1, SpreadFirst
    <3>3. 1 \in 1..Len(l)
      BY <1>2, <1>5
    <3> QED BY <1>2, <1>5, <3>1, <3>2, <3>3
  <2> QED BY <2>1, <2>2, <2>3 DEF LeafOrder
<1>13. LeafOrder(r, key, hi)
  <2>1. Sorted(r)
    <3>1. \A j \in 1..Len(r) : r[j] = Spread(rec, p, e, (Middle + 1) + j)
      BY <1>2
    <3>2. Middle + 1 \in Nat /\ (Middle + 1) + Len(r) <= Len(rec) + 1
      BY <1>2, <1>5
    <3>3. PICK k : k = Middle + 1
      OBVIOUS
    <3>4. /\ k \in Nat /\ k + Len(r) <= Len(rec) + 1
          /\ \A j \in 1..Len(r) : r[j] = Spread(rec, p, e, k + j)
      BY <3>1, <3>2, <3>3
    <3> QED BY <1>2, <1>3, <1>4, <3>4, PartSorted
  <2>2. ASSUME NEW j \in 1..Len(r)
        PROVE  key <= r[j].value /\ r[j].value <= hi
    <3>1. PICK i : i = Middle + 1 + j
      OBVIOUS
    <3>2. i \in 1..(FANOUT + 1) /\ Middle + 2 <= i /\ r[j] = Spread(rec, p, e, i)
      BY <1>2, <1>5, <3>1
    <3> QED BY <1>8, <1>9, <1>10, <3>2
  <2>3. Len(r) # 0 /\ r[1].value = key
    BY <1>2, <1>5, <1>6
  <2> QED BY <2>1, <2>2, <2>3 DEF LeafOrder
<1>14. ASSUME key = lo
       PROVE  /\ \A j \in 1..(Middle + 1) : rec[j].value = lo
              /\ e.value = lo \/ rec[Middle + 2].value = lo
  <2>1. ASSUME NEW j \in 1..(Middle + 2)
        PROVE  Spread(rec, p, e, j).value = lo /\ Spread(rec, p, e, j).value \in Int
    <3>1. j \in 1..(FANOUT + 1) /\ j <= Middle + 2
      BY <1>5
    <3>2. lo <= Spread(rec, p, e, j).value /\ Spread(rec, p, e, j).value <= lo
      BY <1>8, <1>9, <1>10, <1>14, <3>1
    <3>3. Spread(rec, p, e, j).value \in Int
      <4>1. j < p => j \in 1..Len(rec)
        BY <1>2, <3>1
      <4>2. j > p => j - 1 \in 1..Len(rec)
        BY <1>2, <3>1
      <4>3. \A q \in 1..Len(rec) : rec[q].value \in Int
        BY RecIn
      <4>4. j \in Int /\ p \in Int
        BY <1>2, <3>1
      <4>5. CASE j < p
        BY <4>1, <4>3, <4>5 DEF Spread
      <4>6. CASE j = p
        BY <1>6, <4>6 DEF Spread
      <4>7. CASE j > p
        BY <4>2, <4>3, <4>4, <4>7 DEF Spread
      <4> QED BY <4>4, <4>5, <4>6, <4>7
    <3> QED BY <3>2, <3>3
  <2>2. ASSUME NEW j \in 1..(Middle + 1)
        PROVE  rec[j].value = lo
    <3>1. CASE j < p
      <4>1. j \in 1..(Middle + 2) /\ Spread(rec, p, e, j) = rec[j]
        BY <1>5, <3>1 DEF Spread
      <4> QED BY <2>1, <4>1
    <3>2. CASE j >= p
      <4>1. j + 1 \in 1..(Middle + 2) /\ Spread(rec, p, e, j + 1) = rec[j]
        BY <1>2, <1>5, <3>2 DEF Spread
      <4> QED BY <2>1, <4>1
    <3> QED BY <1>2, <3>1, <3>2
  <2>3. CASE p <= Middle + 2
    <3>1. p \in 1..(Middle + 2) /\ Spread(rec, p, e, p) = e
      BY <1>2, <1>5, <2>3 DEF Spread
    <3>2. e.value = lo
      BY <2>1, <3>1
    <3> QED BY <2>2, <3>2
  <2>4. CASE p > Middle + 2
    <3>1. Middle + 2 \in 1..(Middle + 2) /\ Spread(rec, p, e, Middle + 2) = rec[Middle + 2]
      BY <1>2, <1>5, <2>4 DEF Spread
    <3>2. rec[Middle + 2].value = lo
      BY <2>1, <3>1
    <3> QED BY <2>2, <3>2
  <2> QED BY <1>2, <1>5, <2>3, <2>4
<1>15. ASSUME key = hi
       PROVE  \A j \in (Middle + 1)..FANOUT : rec[j].value = hi
  <2>1. p < Middle + 2
    <3>1. CASE p >= Middle + 2
      <4>1. Spread(rec, p, e, Middle + 2).value <= Spread(rec, p, e, p).value
        BY <1>2, <1>8, <1>10, <3>1
      <4>2. Spread(rec, p, e, p) = e
        BY <1>2 DEF Spread
      <4> QED BY <1>6, <1>7, <1>10, <1>15, <4>1, <4>2
    <3> QED BY <1>2, <1>5, <3>1
  <2>2. ASSUME NEW j \in (Middle + 1)..FANOUT
        PROVE  rec[j].value = hi
    <3>1. j + 1 \in 1..(FANOUT + 1) /\ Middle + 2 <= j + 1 /\ j \in 1..Len(rec)
      BY <1>5
    <3>2. Spread(rec, p, e, j + 1) = rec[j]
      BY <1>2, <1>5, <2>1 DEF Spread
    <3>3. PICK i : i = j + 1
      OBVIOUS
    <3>4. hi <= Spread(rec, p, e, i).value /\ Spread(rec, p, e, i).value <= hi
      BY <1>8, <1>9, <1>10, <1>15, <3>1, <3>3
    <3>5. rec[j].value \in Int
      BY <3>1, RecIn
    <3> QED BY <3>2, <3>3, <3>4, <3>5
  <2> QED BY <2>2
<1> QED BY <1>0, <1>7, <1>11, <1>12, <1>13, <1>14, <1>15
-----------------------------------------------------------------------------
(* The keys of an inner node. *)

\* Where the values below the j-th of m children end, and those below the next
\* begin.
Bound(ks, m, lo, hi, j) == IF j = 0 THEN lo ELSE IF j = m THEN hi ELSE ks[j]

Rising(ks, m, lo, hi) ==
  /\ \A j \in 0..m : Bound(ks, m, lo, hi, j) \in Int
  /\ \A i, j \in 0..m : i < j => Bound(ks, m, lo, hi, i) < Bound(ks, m, lo, hi, j)

\* low and up are the bounds of each node.
Chain(ks, cs, m, lo, hi, low, up) ==
  /\ Rising(ks, m, lo, hi)
  /\ \A j \in 1..m : /\ low[cs[j]] = Bound(ks, m, lo, hi, j - 1)
                     /\ up[cs[j]] = Bound(ks, m, lo, hi, j)

\* The child whose bounds a value lies between is the one that a search takes.
LEMMA KeyPlaceIs ==
  ASSUME DifferencesFit, NEW m \in Nat \ {0}, NEW ks, NEW lo, NEW hi, Rising(ks, m, lo, hi),
         \A j \in 1..(m - 1) : ks[j] \in Value, NEW v \in Value, NEW k \in 1..m,
         Bound(ks, m, lo, hi, k - 1) <= v, v < Bound(ks, m, lo, hi, k)
  PROVE  AM_UpperBound(ks, m, v) = k
<1>1. PICK u : u = AM_UpperBound(ks, m, v)
  OBVIOUS
<1>2. /\ u \in 1..m
      /\ \A j \in 1..(m - 1) : (j < u => ks[j] <= v) /\ (j = u => v < ks[j])
  BY <1>1, UpperBoundOrder
<1>3. \A j \in 1..(m - 1) : ks[j] = Bound(ks, m, lo, hi, j)
  BY DEF Bound
<1>4. /\ \A j \in 0..m : Bound(ks, m, lo, hi, j) \in Int
      /\ \A i, j \in 0..m : i < j => Bound(ks, m, lo, hi, i) < Bound(ks, m, lo, hi, j)
  BY DEF Rising
<1>5. v \in Int /\ k - 1 \in 0..m /\ k \in 0..m
  BY Ends
<1>6. ~(k < u)
  <2>1. SUFFICES ASSUME k < u PROVE FALSE
    OBVIOUS
  <2>2. k \in 1..(m - 1) /\ ks[k] <= v
    BY <1>2, <2>1
  <2>3. ks[k] = Bound(ks, m, lo, hi, k)
    BY <1>3, <2>2
  <2>4. Bound(ks, m, lo, hi, k) \in Int
    BY <1>4, <1>5
  <2> QED BY <1>5, <2>2, <2>3, <2>4
<1>7. ~(u < k)
  <2>1. SUFFICES ASSUME u < k PROVE FALSE
    OBVIOUS
  <2>2. u \in 1..(m - 1) /\ v < ks[u] /\ u \in 0..m /\ u <= k - 1
    BY <1>2, <2>1
  <2>3. ks[u] = Bound(ks, m, lo, hi, u)
    BY <1>3, <2>2
  <2>4. Bound(ks, m, lo, hi, u) <= Bound(ks, m, lo, hi, k - 1)
    <3>1. CASE u = k - 1
      BY <1>4, <2>2, <3>1
    <3>2. CASE u < k - 1
      BY <1>4, <1>5, <2>2, <3>2
    <3> QED BY <2>2, <3>1, <3>2
  <2>5. Bound(ks, m, lo, hi, u) \in Int /\ Bound(ks, m, lo, hi, k - 1) \in Int
    BY <1>4, <1>5, <2>2
  <2> QED BY <1>5, <2>2, <2>3, <2>4, <2>5
<1>8. u = k
  BY <1>2, <1>6, <1>7
<1> QED BY <1>1, <1>8

\* The part of a chain from behind its a-th child to its b-th.
LEMMA ChainPart ==
  ASSUME NEW m \in Nat, NEW ks, NEW cs, NEW lo, NEW hi, NEW low, NEW up,
         Chain(ks, cs, m, lo, hi, low, up), NEW a \in 0..m, NEW b \in 0..m, a < b,
         NEW ks2, \A j \in 1..(b - a - 1) : ks2[j] = ks[a + j],
         NEW cs2, \A j \in 1..(b - a) : cs2[j] = cs[a + j]
  PROVE  Chain(ks2, cs2, b - a, Bound(ks, m, lo, hi, a), Bound(ks, m, lo, hi, b), low, up)
<1>1. PICK B : B = [j \in 0..m |-> Bound(ks, m, lo, hi, j)]
  OBVIOUS
<1>2. \A j \in 0..m : B[j] = Bound(ks, m, lo, hi, j)
  BY <1>1
<1>3. /\ \A j \in 0..m : B[j] \in Int
      /\ \A i, j \in 0..m : i < j => B[i] < B[j]
      /\ \A j \in 1..m : low[cs[j]] = B[j - 1] /\ up[cs[j]] = B[j]
  <2>1. \A j \in 1..m : j - 1 \in 0..m /\ j \in 0..m
    OBVIOUS
  <2> QED BY <1>2, <2>1 DEF Chain, Rising
<1>4. PICK x, y, d : x = Bound(ks, m, lo, hi, a) /\ y = Bound(ks, m, lo, hi, b) /\ d = b - a
  OBVIOUS
<1>5. d \in Nat /\ \A j \in 0..d : a + j \in 0..m
  BY <1>4
<1>6. ASSUME NEW j \in 0..d
      PROVE  Bound(ks2, d, x, y, j) = B[a + j]
  <2>1. x = B[a] /\ y = B[b]
    BY <1>2, <1>4
  <2>2. CASE j = 0
    <3>1. a + j = a /\ Bound(ks2, d, x, y, j) = x
      BY <2>2 DEF Bound
    <3> QED BY <2>1, <3>1
  <2>3. CASE j = d /\ j # 0
    <3>1. a + j = b /\ Bound(ks2, d, x, y, j) = y
      BY <1>4, <2>3 DEF Bound
    <3> QED BY <2>1, <3>1
  <2>4. CASE j # 0 /\ j # d
    <3>1. j \in 1..(b - a - 1) /\ a + j # 0 /\ a + j # m /\ a + j \in 0..m
      BY <1>4, <2>4
    <3>2. ks2[j] = ks[a + j]
      BY <3>1
    <3>3. Bound(ks2, d, x, y, j) = ks2[j]
      BY <2>4 DEF Bound
    <3>4. Bound(ks, m, lo, hi, a + j) = ks[a + j]
      BY <3>1 DEF Bound
    <3> QED BY <1>2, <3>1, <3>2, <3>3, <3>4
  <2> QED BY <2>2, <2>3, <2>4
<1>7. Rising(ks2, d, x, y)
  <2>1. \A j \in 0..d : B[a + j] \in Int
    BY <1>3, <1>5
  <2>2. \A i, j \in 0..d : i < j => B[a + i] < B[a + j]
    <3>1. ASSUME NEW i \in 0..d, NEW j \in 0..d, i < j
          PROVE  B[a + i] < B[a + j]
      <4>1. PICK p, q : p = a + i /\ q = a + j
        OBVIOUS
      <4>2. p \in 0..m /\ q \in 0..m /\ p < q
        BY <1>5, <3>1, <4>1
      <4>3. B[p] < B[q]
        BY <1>3, <4>2
      <4> QED BY <4>1, <4>3
    <3> QED BY <3>1
  <2> QED BY <1>6, <2>1, <2>2 DEF Rising
<1>8. ASSUME NEW j \in 1..d
      PROVE  low[cs2[j]] = Bound(ks2, d, x, y, j - 1) /\ up[cs2[j]] = Bound(ks2, d, x, y, j)
  <2>1. j \in 1..(b - a) /\ a + j \in 1..m /\ a + j - 1 = a + (j - 1) /\ j - 1 \in 0..d /\ j \in 0..d
    BY <1>4
  <2>2. cs2[j] = cs[a + j]
    BY <2>1
  <2>3. low[cs[a + j]] = B[a + (j - 1)] /\ up[cs[a + j]] = B[a + j]
    BY <1>3, <2>1
  <2> QED BY <1>6, <2>1, <2>2, <2>3
<1>9. Chain(ks2, cs2, d, x, y, low, up)
  BY <1>7, <1>8 DEF Chain
<1> QED BY <1>4, <1>9

\* The k-th child is split: what lies above key moves to node after.
LEMMA ChainInsert ==
  ASSUME NEW m \in Nat \ {0}, NEW ks, NEW cs, NEW lo, NEW hi, NEW low, NEW up,
         Chain(ks, cs, m, lo, hi, low, up), NEW k \in 1..m, NEW key \in Int,
         Bound(ks, m, lo, hi, k - 1) < key, key < Bound(ks, m, lo, hi, k),
         NEW ks2, \A j \in 1..m : ks2[j] = Spread(ks, k, key, j),
         NEW cs2, NEW after, \A j \in 1..(m + 1) : cs2[j] = Spread(cs, k + 1, after, j),
         NEW high, \A j \in 1..m : j # k => high[cs[j]] = up[cs[j]],
         high[cs[k]] = key, low[after] = key, high[after] = up[cs[k]]
  PROVE  Chain(ks2, cs2, m + 1, lo, hi, low, high)
<1>1. PICK B : B = [j \in 0..m |-> Bound(ks, m, lo, hi, j)]
  OBVIOUS
<1>2. \A j \in 0..m : B[j] = Bound(ks, m, lo, hi, j)
  BY <1>1
<1>3. /\ \A j \in 0..m : B[j] \in Int
      /\ \A i, j \in 0..m : i < j => B[i] < B[j]
      /\ \A j \in 1..m : low[cs[j]] = B[j - 1] /\ up[cs[j]] = B[j]
      /\ B[k - 1] < key /\ key < B[k]
  <2>1. \A j \in 1..m : j - 1 \in 0..m /\ j \in 0..m
    OBVIOUS
  <2>2. /\ \A j \in 0..m : B[j] \in Int
        /\ \A i, j \in 0..m : i < j => B[i] < B[j]
        /\ \A j \in 1..m : low[cs[j]] = B[j - 1] /\ up[cs[j]] = B[j]
    BY <1>2, <2>1 DEF Chain, Rising
  <2>3. B[k - 1] < key /\ key < B[k]
    BY <1>2, <2>1
  <2> QED BY <2>2, <2>3
<1>4. B[0] = lo /\ B[m] = hi /\ \A j \in 1..(m - 1) : B[j] = ks[j]
  BY <1>2 DEF Bound
<1>5. PICK n : n = m + 1
  OBVIOUS
<1>6. PICK C : C = [j \in 0..n |-> IF j < k THEN B[j] ELSE IF j = k THEN key ELSE B[j - 1]]
  OBVIOUS
<1>7. ASSUME NEW j \in 0..n
      PROVE  /\ j < k => C[j] = B[j] /\ j \in 0..m
             /\ j = k => C[j] = key
             /\ j > k => C[j] = B[j - 1] /\ j - 1 \in 0..m
  BY <1>5, <1>6
<1>8. ASSUME NEW j \in 0..n
      PROVE  Bound(ks2, n, lo, hi, j) = C[j]
  <2>1. CASE j = 0
    BY <1>4, <1>7, <2>1 DEF Bound
  <2>2. CASE j = n
    <3>1. j > k /\ j - 1 = m /\ j # 0
      BY <1>5, <2>2
    <3> QED BY <1>4, <1>7, <2>2, <3>1 DEF Bound
  <2>3. CASE j # 0 /\ j # n
    <3>1. j \in 1..m
      BY <1>5, <2>3
    <3>2. Bound(ks2, n, lo, hi, j) = Spread(ks, k, key, j)
      BY <2>3, <3>1 DEF Bound
    <3>3. CASE j < k
      <4>1. j \in 1..(m - 1) /\ Spread(ks, k, key, j) = ks[j]
        BY <3>1, <3>3 DEF Spread
      <4> QED BY <1>4, <1>7, <3>2, <3>3, <4>1
    <3>4. CASE j = k
      BY <1>7, <3>2, <3>4 DEF Spread
    <3>5. CASE j > k
      <4>1. j - 1 \in 1..(m - 1) /\ Spread(ks, k, key, j) = ks[j - 1]
        BY <3>1, <3>5 DEF Spread
      <4> QED BY <1>4, <1>7, <3>2, <3>5, <4>1
    <3> QED BY <3>1, <3>3, <3>4, <3>5
  <2> QED BY <2>1, <2>2, <2>3
<1>9. ASSUME NEW i \in 0..n, NEW j \in 0..n, i < j
      PROVE  C[i] < C[j]
  <2>1. CASE j < k
    BY <1>3, <1>7, <1>9, <2>1
  <2>2. CASE j = k
    <3>1. C[i] = B[i] /\ i \in 0..m /\ i <= k - 1 /\ k - 1 \in 0..m /\ C[j] = key
      BY <1>7, <1>9, <2>2
    <3>2. i < k - 1 => B[i] < B[k - 1]
      BY <1>3, <3>1
    <3> QED BY <1>3, <3>1, <3>2
  <2>3. CASE j > k
    <3>1. C[j] = B[j - 1] /\ j - 1 \in 0..m /\ k <= j - 1 /\ k \in 0..m
      BY <1>7, <2>3
    <3>2. CASE i < k
      <4>1. C[i] = B[i] /\ i \in 0..m /\ i < j - 1
        BY <1>7, <3>1, <3>2
      <4> QED BY <1>3, <3>1, <4>1
    <3>3. CASE i = k
      <4>1. C[i] = key
        BY <1>7, <3>3
      <4>2. k < j - 1 => B[k] < B[j - 1]
        BY <1>3, <3>1
      <4> QED BY <1>3, <3>1, <4>1, <4>2
    <3>4. CASE i > k
      <4>1. C[i] = B[i - 1] /\ i - 1 \in 0..m /\ i - 1 < j - 1
        BY <1>7, <1>9, <3>4
      <4> QED BY <1>3, <3>1, <4>1
    <3> QED BY <3>2, <3>3, <3>4
  <2> QED BY <2>1, <2>2, <2>3
<1>10. \A j \in 0..n : C[j] \in Int
  BY <1>3, <1>7
<1>11. Rising(ks2, n, lo, hi)
  BY <1>8, <1>9, <1>10 DEF Rising
<1>12. ASSUME NEW j \in 1..n
       PROVE  low[cs2[j]] = C[j - 1] /\ high[cs2[j]] = C[j]
  <2>1. j \in 0..n /\ j - 1 \in 0..n /\ j \in 1..(m + 1)
    BY <1>5
  <2>2. cs2[j] = Spread(cs, k + 1, after, j)
    BY <2>1
  <2>3. CASE j < k
    <3>1. cs2[j] = cs[j] /\ j \in 1..m /\ j - 1 < k
      BY <2>2, <2>3 DEF Spread
    <3> QED BY <1>3, <1>7, <2>1, <2>3, <3>1
  <2>4. CASE j = k
    <3>1. cs2[j] = cs[k] /\ j - 1 < k
      BY <2>2, <2>4 DEF Spread
    <3> QED BY <1>3, <1>7, <2>1, <2>4, <3>1
  <2>5. CASE j = k + 1
    <3>1. cs2[j] = after /\ j - 1 = k /\ j > k
      BY <2>2, <2>5 DEF Spread
    <3> QED BY <1>3, <1>7, <2>1, <3>1
  <2>6. CASE j > k + 1
    <3>1. cs2[j] = cs[j - 1] /\ j - 1 \in 1..m /\ j - 1 > k /\ j > k /\ j - 1 # k
      BY <1>5, <2>2, <2>6 DEF Spread
    <3> QED BY <1>3, <1>7, <2>1, <3>1
  <2> QED BY <2>3, <2>4, <2>5, <2>6
<1>13. \A j \in 1..n : /\ low[cs2[j]] = Bound(ks2, n, lo, hi, j - 1)
                       /\ high[cs2[j]] = Bound(ks2, n, lo, hi, j)
  <2>1. \A j \in 1..n : j \in 0..n /\ j - 1 \in 0..n
    BY <1>5
  <2> QED BY <1>8, <1>12, <2>1
<1>14. Chain(ks2, cs2, n, lo, hi, low, high)
  BY <1>11, <1>13 DEF Chain
<1> QED BY <1>5, <1>14

\* The keys of the halves of a full node.
LEMMA PartKeys ==
  ASSUME NEW node, Inner(node, FANOUT), NEW key \in Value
  PROVE  /\ Inner(Stays(node, key), KeyPoint(node, key))
         /\ Inner(Leaving(node, key), FANOUT - KeyPoint(node, key))
         /\ \A j \in 1..(KeyPoint(node, key) - 1) : Stays(node, key).keys[j] = node.keys[j]
         /\ \A j \in 1..(FANOUT - KeyPoint(node, key) - 1) :
              Leaving(node, key).keys[j] = node.keys[KeyPoint(node, key) + j]
<1> DEFINE x == KeyPoint(node, key)
           a == Stays(node, key)
           b == Leaving(node, key)
<1>1. x \in 2..(FANOUT - 1) /\ FANOUT \in Nat /\ FANOUT >= 4
  BY PointIs, KeyMiddleIs
<1> HIDE DEF x
<1>2. Inner(a, x) /\ \A j \in 1..(x - 1) : a.keys[j] = node.keys[j]
  <2>1. FANOUT \in Nat \ {0} /\ 1 \in 1..FANOUT /\ x \in 1..FANOUT
    BY <1>1
  <2>2. /\ Inner(Part(node, 1, x), x - 1 + 1)
        /\ \A j \in 1..(x - 1) : Part(node, 1, x).keys[j] = node.keys[1 + j - 1]
    BY <2>1, PartOf
  <2>3. x - 1 + 1 = x /\ \A j \in 1..(x - 1) : 1 + j - 1 = j
    BY <1>1
  <2>4. a = Part(node, 1, x)
    BY DEF Stays, x
  <2> HIDE DEF a
  <2>5. \A j \in 1..(x - 1) : a.keys[j] = node.keys[j]
    BY <2>2, <2>3, <2>4
  <2> QED BY <2>2, <2>3, <2>4, <2>5
<1>3. Inner(b, FANOUT - x) /\ \A j \in 1..(FANOUT - x - 1) : b.keys[j] = node.keys[x + j]
  <2>1. FANOUT \in Nat \ {0} /\ x + 1 \in 1..FANOUT /\ FANOUT \in (x + 1)..FANOUT
    BY <1>1
  <2>2. /\ Inner(Part(node, x + 1, FANOUT), FANOUT - (x + 1) + 1)
        /\ \A j \in 1..(FANOUT - (x + 1)) :
             Part(node, x + 1, FANOUT).keys[j] = node.keys[(x + 1) + j - 1]
    BY <2>1, PartOf
  <2>3. FANOUT - (x + 1) + 1 = FANOUT - x /\ FANOUT - (x + 1) = FANOUT - x - 1
        /\ \A j \in 1..(FANOUT - x - 1) : (x + 1) + j - 1 = x + j
    BY <1>1
  <2>4. b = Part(node, x + 1, FANOUT)
    BY DEF Leaving, x
  <2> HIDE DEF b
  <2>5. \A j \in 1..(FANOUT - x - 1) : b.keys[j] = node.keys[x + j]
    BY <2>2, <2>3, <2>4
  <2> QED BY <2>2, <2>3, <2>4, <2>5
<1> QED BY <1>2, <1>3 DEF x

\* With the new key they are those of the node with that key among them.
SplitAt(node, key, s, k) ==
  s = LeftSize(node, key) /\ k + 1 = ChildPlace(node, key) /\ k \in Int

LEMMA KeyHalves ==
  ASSUME NEW node, Inner(node, FANOUT), NEW key \in Value, NEW after \in Nat,
         NEW s, NEW k, SplitAt(node, key, s, k)
  PROVE  /\ \A j \in 1..(s - 1) : LeftNode(node, key, after).keys[j] = Spread(node.keys, k, key, j)
         /\ \A j \in 1..(FANOUT - s) :
              RightNode(node, key, after).keys[j] = Spread(node.keys, k, key, s + j)
         /\ node.keys[KeyPoint(node, key)] = Spread(node.keys, k, key, s)
<1> DEFINE x == KeyPoint(node, key)
           a == Stays(node, key)
           b == Leaving(node, key)
           l == LeftNode(node, key, after)
           r == RightNode(node, key, after)
<1>0. s = LeftSize(node, key) /\ k + 1 = ChildPlace(node, key) /\ k \in Int
  BY DEF SplitAt
<1>1. x \in 2..(FANOUT - 1) /\ FANOUT \in Nat /\ FANOUT >= 4
  BY PointIs, KeyMiddleIs
<1>2. /\ Inner(a, x) /\ Inner(b, FANOUT - x)
      /\ \A j \in 1..(x - 1) : a.keys[j] = node.keys[j]
      /\ \A j \in 1..(FANOUT - x - 1) : b.keys[j] = node.keys[x + j]
  BY PartKeys
<1> HIDE DEF x, a, b
<1>4. CASE KeyRight(node, key)
  <2> DEFINE q == KeyPlace(b, key)
  <2>1. s = x /\ ChildPlace(node, key) = x + q + 1 /\ l = a
        /\ r = AM_InsertKeyToIndexNoSplit(b, key, after)
    BY <1>0, <1>4 DEF LeftSize, ChildPlace, LeftNode, RightNode, x, a, b
  <2>2. FANOUT - x \in Nat \ {0}
    BY <1>1
  <2>3. q \in 1..(FANOUT - x) /\ \A j \in 1..(FANOUT - x) : r.keys[j] = Spread(b.keys, q, key, j)
    BY <1>2, <2>1, <2>2, InsertKey
  <2> HIDE DEF q, l, r
  <2>4. k = x + q
    BY <1>0, <1>1, <2>1, <2>3
  <2>5. ASSUME NEW j \in 1..(FANOUT - s)
        PROVE  r.keys[j] = Spread(node.keys, k, key, s + j)
    <3>1. j \in 1..(FANOUT - x) /\ x \in Int /\ q \in Int /\ j \in Int
      BY <1>1, <2>1, <2>3
    <3>2. /\ j < q => b.keys[j] = node.keys[x + j]
          /\ j > q => b.keys[j - 1] = node.keys[x + j - 1]
      <4>1. j < q => j \in 1..(FANOUT - x - 1)
        BY <1>1, <2>3, <3>1
      <4>2. j > q => j - 1 \in 1..(FANOUT - x - 1) /\ x + (j - 1) = x + j - 1
        BY <1>1, <2>3, <3>1
      <4> QED BY <1>2, <4>1, <4>2
    <3>3. Spread(b.keys, q, key, j) = Spread(node.keys, x + q, key, x + j)
      BY <3>1, <3>2 DEF Spread
    <3> QED BY <2>1, <2>3, <2>4, <3>1, <3>3
  <2>6. ASSUME NEW j \in 1..(s - 1)
        PROVE  l.keys[j] = Spread(node.keys, k, key, j)
    <3>1. j \in 1..(x - 1) /\ j < x + q
      BY <1>1, <2>1, <2>3
    <3> QED BY <1>2, <2>1, <2>4, <3>1 DEF Spread
  <2>7. node.keys[x] = Spread(node.keys, k, key, s)
    <3>1. x < x + q
      BY <1>1, <2>3
    <3> QED BY <2>1, <2>4, <3>1 DEF Spread
  <2> QED BY <2>5, <2>6, <2>7 DEF l, r, x
<1>5. CASE ~KeyRight(node, key)
  <2> DEFINE q == KeyPlace(a, key)
  <2>1. s = x + 1 /\ ChildPlace(node, key) = q + 1
        /\ l = AM_InsertKeyToIndexNoSplit(a, key, after) /\ r = b
    BY <1>0, <1>5 DEF LeftSize, ChildPlace, LeftNode, RightNode, x, a, b
  <2>2. x \in Nat \ {0}
    BY <1>1
  <2>3. q \in 1..x /\ \A j \in 1..x : l.keys[j] = Spread(a.keys, q, key, j)
    BY <1>2, <2>1, <2>2, InsertKey
  <2> HIDE DEF q, l, r
  <2>4. k = q
    BY <1>0, <2>1, <2>3
  <2>5. ASSUME NEW j \in 1..(s - 1)
        PROVE  l.keys[j] = Spread(node.keys, k, key, j)
    <3>1. j \in 1..x
      BY <1>1, <2>1
    <3>2. /\ j < q => a.keys[j] = node.keys[j]
          /\ j > q => a.keys[j - 1] = node.keys[j - 1]
      BY <1>1, <1>2, <2>3, <3>1
    <3>3. Spread(a.keys, q, key, j) = Spread(node.keys, q, key, j)
      BY <1>1, <2>3, <3>1, <3>2 DEF Spread
    <3> QED BY <2>3, <2>4, <3>1, <3>3
  <2>6. ASSUME NEW j \in 1..(FANOUT - s)
        PROVE  r.keys[j] = Spread(node.keys, k, key, s + j)
    <3>1. j \in 1..(FANOUT - x - 1)
      BY <1>1, <2>1
    <3>2. r.keys[j] = node.keys[x + j]
      BY <1>2, <2>1, <3>1
    <3>3. PICK i : i = s + j
      OBVIOUS
    <3>4. ~(i < q) /\ i # q /\ i - 1 = x + j
      BY <1>1, <2>1, <2>3, <3>1, <3>3
    <3>5. Spread(node.keys, q, key, i) = r.keys[j]
      BY <3>2, <3>4 DEF Spread
    <3> QED BY <2>4, <3>3, <3>5
  <2>7. node.keys[x] = Spread(node.keys, k, key, s)
    <3>1. s - 1 = x /\ ~(s < q) /\ s # q
      BY <1>1, <2>1, <2>3
    <3> QED BY <2>4, <3>1 DEF Spread
  <2> QED BY <2>5, <2>6, <2>7 DEF l, r, x
<1> QED BY <1>4, <1>5

\* A search for v goes on to the k-th child.
Between(ks, m, lo, hi, k, v) ==
  Bound(ks, m, lo, hi, k - 1) <= v /\ v < Bound(ks, m, lo, hi, k)

\* ks are the keys of m children, ks2 those behind the a-th of them up to the b-th.
Keys(ks, m) == \A j \in 1..(m - 1) : ks[j] \in Value
Cut(ks2, ks, a, b) == \A j \in 1..(b - a - 1) : ks2[j] = ks[a + j]

\* The place of a value in a part of the keys.
LEMMA PartPlace ==
  ASSUME DifferencesFit, NEW m \in Nat, NEW ks, NEW lo, NEW hi, Rising(ks, m, lo, hi), Keys(ks, m),
         NEW a \in 0..m, NEW b \in 0..m, NEW ks2, Cut(ks2, ks, a, b),
         NEW v \in Value, NEW k \in (a + 1)..b, Between(ks, m, lo, hi, k, v)
  PROVE  AM_UpperBound(ks2, b - a, v) = k - a
<1>17. a < b /\ \A j \in 1..(b - a - 1) : ks2[j] = ks[a + j]
  BY DEF Cut
<1>18. Bound(ks, m, lo, hi, k - 1) <= v /\ v < Bound(ks, m, lo, hi, k)
  BY DEF Between
<1>19. \A j \in 1..(m - 1) : ks[j] \in Value
  BY DEF Keys
<1>1. PICK cs, low, up : /\ cs = [j \in 1..m |-> j]
                         /\ low = [j \in 1..m |-> Bound(ks, m, lo, hi, j - 1)]
                         /\ up = [j \in 1..m |-> Bound(ks, m, lo, hi, j)]
  OBVIOUS
<1>2. \A j \in 1..m : /\ cs[j] = j /\ low[j] = Bound(ks, m, lo, hi, j - 1)
                      /\ up[j] = Bound(ks, m, lo, hi, j)
  BY <1>1
<1>3. Chain(ks, cs, m, lo, hi, low, up)
  BY <1>2 DEF Chain
<1>4. PICK cs2 : cs2 = [j \in 1..(b - a) |-> cs[a + j]]
  OBVIOUS
<1>5. \A j \in 1..(b - a) : cs2[j] = cs[a + j]
  BY <1>4
<1>6. PICK x, y : x = Bound(ks, m, lo, hi, a) /\ y = Bound(ks, m, lo, hi, b)
  OBVIOUS
<1>7. Chain(ks2, cs2, b - a, Bound(ks, m, lo, hi, a), Bound(ks, m, lo, hi, b), low, up)
  BY <1>3, <1>5, <1>17, ChainPart
<1>8. PICK d, i : d = b - a /\ i = k - a
  OBVIOUS
<1>9. Chain(ks2, cs2, d, x, y, low, up)
  BY <1>6, <1>7, <1>8
<1>10. d \in Nat \ {0} /\ i \in 1..d /\ a + i = k /\ k \in 1..m
  BY <1>8, <1>17
<1>11. low[cs2[i]] = Bound(ks2, d, x, y, i - 1) /\ up[cs2[i]] = Bound(ks2, d, x, y, i)
  BY <1>9, <1>10 DEF Chain
<1>12. cs2[i] = k
  BY <1>2, <1>5, <1>8, <1>10
<1>13. Bound(ks2, d, x, y, i - 1) <= v /\ v < Bound(ks2, d, x, y, i)
  BY <1>2, <1>10, <1>11, <1>12, <1>18
<1>14. \A j \in 1..(d - 1) : ks2[j] \in Value
  <2>1. ASSUME NEW j \in 1..(d - 1)
        PROVE  ks2[j] \in Value
    <3>1. j \in 1..(b - a - 1) /\ a + j \in 1..(m - 1)
      BY <1>8
    <3>2. PICK q : q = a + j
      OBVIOUS
    <3>3. ks2[j] = ks[q] /\ q \in 1..(m - 1)
      BY <1>17, <3>1, <3>2
    <3> QED BY <1>19, <3>3
  <2> QED BY <2>1
<1>15. Rising(ks2, d, x, y)
  BY <1>9 DEF Chain
<1>16. AM_UpperBound(ks2, d, v) = i
  BY <1>10, <1>13, <1>14, <1>15, KeyPlaceIs
<1> QED BY <1>8, <1>16

\* The bounds of children: which of them is first.
LEMMA BoundsRise ==
  ASSUME NEW m \in Nat, NEW ks, NEW lo, NEW hi, Rising(ks, m, lo, hi),
         NEW i \in 0..m, NEW j \in 0..m, i <= j
  PROVE  /\ Bound(ks, m, lo, hi, i) \in Int /\ Bound(ks, m, lo, hi, j) \in Int
         /\ Bound(ks, m, lo, hi, i) <= Bound(ks, m, lo, hi, j)
<1>1. Bound(ks, m, lo, hi, i) \in Int /\ Bound(ks, m, lo, hi, j) \in Int
  BY DEF Rising
<1>2. CASE i = j
  BY <1>1, <1>2
<1>3. CASE i < j
  BY <1>1, <1>3 DEF Rising
<1> QED BY <1>1, <1>2, <1>3

\* The halves of a full node have the new child where the whole node would.
LEMMA HalvesPlace ==
  ASSUME DifferencesFit, NEW node, Inner(node, FANOUT), NEW lo, NEW hi,
         Rising(node.keys, FANOUT, lo, hi), NEW key \in Value, NEW k \in 1..FANOUT,
         Bound(node.keys, FANOUT, lo, hi, k - 1) < key,
         key < Bound(node.keys, FANOUT, lo, hi, k)
  PROVE  ChildPlace(node, key) = k + 1
<1> DEFINE x == KeyPoint(node, key)
           a == Stays(node, key)
           b == Leaving(node, key)
<1>0. x \in 2..(FANOUT - 1) /\ FANOUT \in Nat /\ FANOUT >= 4 /\ x \in {KeyMiddle, KeyMiddle + 1}
      /\ KeyMiddle \in 1..(FANOUT - 1) /\ KeyMiddle + 1 \in 1..(FANOUT - 1) /\ KeyMiddle \in Nat
  BY PointIs, KeyMiddleIs
<1>1. PICK ks : ks = node.keys
  OBVIOUS
<1>2. Rising(ks, FANOUT, lo, hi) /\ ks \in Seq(Value) /\ Len(ks) = FANOUT - 1
  BY <1>1 DEF Inner, InnerNode
<1>3. /\ Inner(a, x) /\ Inner(b, FANOUT - x)
      /\ \A j \in 1..(x - 1) : a.keys[j] = ks[j]
      /\ \A j \in 1..(FANOUT - x - 1) : b.keys[j] = ks[x + j]
  BY <1>1, PartKeys
<1>4. \A j \in 1..(FANOUT - 1) : ks[j] \in Value /\ ks[j] = Bound(ks, FANOUT, lo, hi, j)
  BY <1>0, <1>2 DEF Bound
<1>5. PICK p, q : p = Bound(ks, FANOUT, lo, hi, k - 1) /\ q = Bound(ks, FANOUT, lo, hi, k)
  OBVIOUS
<1>6. p < key /\ key < q /\ k - 1 \in 0..FANOUT /\ k \in 0..FANOUT
  BY <1>0, <1>1, <1>5
<1>7. key \in Int /\ p \in Int /\ q \in Int
  BY <1>2, <1>5, <1>6, Ends DEF Rising
<1>8. ASSUME NEW j \in 1..(FANOUT - 1)
      PROVE  /\ AM_CompAttVal(key, ks[j]) > 0 <=> key > ks[j]
             /\ AM_CompAttVal(key, ks[j]) < 0 <=> key < ks[j]
             /\ key > ks[j] => k > j
             /\ key <= ks[j] => k <= j
             /\ key >= ks[j] => k > j
  <2>1. ks[j] \in Value /\ j \in 0..FANOUT
    BY <1>0, <1>4
  <2>2. AM_CompAttVal(key, ks[j]) = key - ks[j] /\ ks[j] \in Int
    BY <2>1, CompIs
  <2>3. j <= k - 1 => ks[j] <= p
    BY <1>2, <1>4, <1>5, <1>6, <2>1, <1>0, BoundsRise
  <2>4. k <= j => q <= ks[j]
    BY <1>2, <1>4, <1>5, <1>6, <2>1, <1>0, BoundsRise
  <2> QED BY <1>6, <1>7, <2>2, <2>3, <2>4
<1>9. KeyRight(node, key) <=> key > ks[KeyMiddle]
  BY <1>0, <1>1, <1>8 DEF KeyRight
<1>10. KeyRight(node, key) => IF key < ks[KeyMiddle + 1] THEN x = KeyMiddle ELSE x = KeyMiddle + 1
  BY <1>0, <1>1, <1>8 DEF KeyPoint
<1>11. ~KeyRight(node, key) => x = KeyMiddle
  BY DEF KeyPoint
<1>12. ks[KeyMiddle] \in Int /\ ks[KeyMiddle + 1] \in Int
  BY <1>0, <1>4, Ends
<1>15. Between(ks, FANOUT, lo, hi, k, key)
  BY <1>5, <1>6, <1>7 DEF Between
<1>16. Keys(ks, FANOUT)
  BY <1>4 DEF Keys
<1>17. Rising(ks, FANOUT, lo, hi) /\ FANOUT \in Nat
  BY <1>0, <1>2
<1>13. CASE ~KeyRight(node, key)
  <2>1. k <= x
    BY <1>0, <1>7, <1>8, <1>9, <1>11, <1>12, <1>13
  <2>2. ChildPlace(node, key) = KeyPlace(a, key) + 1 /\ Len(a.child) = x
    BY <1>3, <1>13 DEF ChildPlace, Inner
  <2>3. PICK s : s = a.keys
    OBVIOUS
  <2> HIDE DEF x, a, b
  <2>9. PICK z : z = 0
    OBVIOUS
  <2>4. z \in 0..FANOUT /\ x \in 0..FANOUT /\ z < x /\ k \in (z + 1)..x
    BY <1>0, <2>1, <2>9
  <2>5. Cut(s, ks, z, x)
    <3>1. x - z - 1 = x - 1 /\ \A j \in 1..(x - 1) : z + j = j
      BY <1>0, <2>9
    <3>2. \A j \in 1..(x - z - 1) : s[j] = ks[z + j]
      BY <1>3, <2>3, <3>1
    <3> QED BY <3>2 DEF Cut
  <2>7. AM_UpperBound(s, x - z, key) = k - z
    BY <1>15, <1>16, <1>17, <2>4, <2>5, PartPlace
  <2>8. KeyPlace(a, key) = k
    <3>1. x - z = x /\ k - z = k
      BY <1>0, <2>9
    <3> QED BY <2>2, <2>3, <2>7, <3>1 DEF KeyPlace
  <2> QED BY <2>2, <2>8
<1>14. CASE KeyRight(node, key)
  <2>1. k \in (x + 1)..FANOUT
    <3>1. k > KeyMiddle
      BY <1>0, <1>8, <1>9, <1>14
    <3>2. CASE key < ks[KeyMiddle + 1]
      BY <1>0, <1>10, <1>14, <3>1, <3>2
    <3>3. CASE ~(key < ks[KeyMiddle + 1])
      <4>1. k > KeyMiddle + 1
        BY <1>0, <1>7, <1>8, <1>12, <3>3
      <4> QED BY <1>0, <1>10, <1>14, <3>3, <4>1
    <3> QED BY <3>2, <3>3
  <2>2. ChildPlace(node, key) = x + KeyPlace(b, key) + 1 /\ Len(b.child) = FANOUT - x
    BY <1>3, <1>14 DEF ChildPlace, Inner
  <2>3. PICK s : s = b.keys
    OBVIOUS
  <2> HIDE DEF x, a, b
  <2>4. x \in 0..FANOUT /\ FANOUT \in 0..FANOUT /\ x < FANOUT
    BY <1>0
  <2>5. Cut(s, ks, x, FANOUT)
    BY <1>3, <2>3 DEF Cut
  <2>7. AM_UpperBound(s, FANOUT - x, key) = k - x
    BY <1>15, <1>16, <1>17, <2>1, <2>4, <2>5, PartPlace
  <2>8. KeyPlace(b, key) = k - x
    BY <2>2, <2>3, <2>7 DEF KeyPlace
  <2> QED BY <1>0, <2>2, <2>8
<1> QED BY <1>13, <1>14
=============================================================================
