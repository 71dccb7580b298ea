------------------------------ MODULE FE_proofs -----------------------------
(***************************************************************************)
(* Proofs about FE under callers that keep the rules, for any number of    *)
(* tables, attributes, rows and slots.                                     *)
(*                                                                         *)
(* The properties are about lists that are sorted out of attrcat.  The     *)
(* invariant CatInv says the same of the records themselves: those of a    *)
(* relation number its attributes (Numbered), wherever they are; the keys  *)
(* of the marked ones are the index files (Keys).  Then a record may move  *)
(* to another slot without disturbing anything.  What a function of        *)
(* FETables does is said as a predicate on the files before and after      *)
(* (RowsChange, Fills, Reflags, Returns, ...), and Step is what every call *)
(* may do.                                                                 *)
(***************************************************************************)
EXTENDS FEClient, FiniteSetTheorems, SequenceTheorems, WellFoundedInduction, TLAPS

-----------------------------------------------------------------------------
(* Sets put in order. *)

\* A finite set whose elements have ranks of their own.
Ranked(S, rank) ==
  /\ IsFiniteSet(S)
  /\ \A x \in S : rank[x] \in Int
  /\ \A x, y \in S : rank[x] = rank[y] => x = y

Below(S, rank, x) == {y \in S : rank[y] < rank[x]}

\* The number of smaller elements tells the elements from one another.
LEMMA BelowCounts ==
  ASSUME NEW S, NEW rank, Ranked(S, rank)
  PROVE  /\ Cardinality(S) \in Nat
         /\ \A x \in S : Cardinality(Below(S, rank, x)) \in 0..(Cardinality(S) - 1)
         /\ \A x, y \in S : rank[x] < rank[y] =>
              Cardinality(Below(S, rank, x)) < Cardinality(Below(S, rank, y))
<1>1. IsFiniteSet(S) /\ Cardinality(S) \in Nat
  BY FS_CardinalityType DEF Ranked
<1>2. \A x \in S : Below(S, rank, x) \in SUBSET S /\ x \notin Below(S, rank, x)
  BY DEF Below, Ranked
<1>3. \A x \in S : IsFiniteSet(Below(S, rank, x))
  BY <1>1, <1>2, FS_Subset
<1>4. \A x \in S : Cardinality(Below(S, rank, x)) \in Nat
  BY <1>3, FS_CardinalityType
<1>5. \A x \in S : Cardinality(Below(S, rank, x)) < Cardinality(S)
  <2> SUFFICES ASSUME NEW x \in S PROVE Cardinality(Below(S, rank, x)) < Cardinality(S)
    OBVIOUS
  <2>1. Cardinality(Below(S, rank, x)) <= Cardinality(S)
        /\ (Cardinality(S) = Cardinality(Below(S, rank, x)) => S = Below(S, rank, x))
    BY <1>1, <1>2, FS_Subset
  <2> QED BY <2>1, <1>1, <1>2, <1>4
<1>6. ASSUME NEW x \in S, NEW y \in S, rank[x] < rank[y]
      PROVE  Cardinality(Below(S, rank, x)) < Cardinality(Below(S, rank, y))
  <2>1. Below(S, rank, x) \in SUBSET Below(S, rank, y) /\ x \in Below(S, rank, y)
    BY <1>6 DEF Below, Ranked
  <2>2. Below(S, rank, x) # Below(S, rank, y)
    BY <2>1, <1>2
  <2>3. Cardinality(Below(S, rank, x)) <= Cardinality(Below(S, rank, y))
        /\ (Cardinality(Below(S, rank, y)) = Cardinality(Below(S, rank, x))
              => Below(S, rank, y) = Below(S, rank, x))
    BY <2>1, <1>3, FS_Subset
  <2> QED BY <2>2, <2>3, <1>4
<1> QED BY <1>1, <1>4, <1>5, <1>6

\* So the elements of a finite set have the ranks 0, 1 and so on.
LEMMA BelowFills ==
  ASSUME NEW S, NEW rank, Ranked(S, rank)
  PROVE  \A i \in 0..(Cardinality(S) - 1) :
           \E x \in S : Cardinality(Below(S, rank, x)) = i
<1> DEFINE n == Cardinality(S)
           f == [x \in S |-> Cardinality(Below(S, rank, x))]
<1>1. n \in Nat /\ \A x \in S : f[x] \in 0..(n - 1)
  BY BelowCounts
<1>2. \A x, y \in S : rank[x] < rank[y] => f[x] < f[y]
  BY BelowCounts
<1>3. \A x, y \in S : f[x] = f[y] => x = y
  BY <1>1, <1>2 DEF Ranked
<1>4. IsFiniteSet(0..(n - 1)) /\ Cardinality(0..(n - 1)) = n
  BY <1>1, FS_Interval
<1>5. f \in Injection(S, 0..(n - 1))
  <2>1. DOMAIN f = S /\ f = [x \in S |-> f[x]]
    OBVIOUS
  <2> HIDE DEF f, n
  <2> QED BY <1>1, <1>3, <2>1 DEF Injection, IsInjective
<1>6. f \in Surjection(S, 0..(n - 1))
  <2> HIDE DEF f
  <2> QED BY <1>4, <1>5, FS_Injection
<1>7. \A i \in 0..(n - 1) : \E x \in S : f[x] = i
  <2> HIDE DEF f, n
  <2> QED BY <1>6 DEF Surjection
<1> QED BY <1>7

\* InOrder lists a set, each element once.
LEMMA InOrderLists ==
  ASSUME NEW S, NEW rank, Ranked(S, rank)
  PROVE  /\ DOMAIN InOrder(S, rank) = 1..Cardinality(S)
         /\ \A i \in DOMAIN InOrder(S, rank) :
              /\ InOrder(S, rank)[i] \in S
              /\ Cardinality(Below(S, rank, InOrder(S, rank)[i])) = i - 1
         /\ \A i, j \in DOMAIN InOrder(S, rank) :
              InOrder(S, rank)[i] = InOrder(S, rank)[j] => i = j
         /\ \A x \in S : \E i \in DOMAIN InOrder(S, rank) : InOrder(S, rank)[i] = x
<1> DEFINE s == InOrder(S, rank)
<1>1. DOMAIN s = 1..Cardinality(S) /\ Cardinality(S) \in Nat
  BY BelowCounts DEF InOrder
<1>2. \A i \in DOMAIN s : s[i] \in S /\ Cardinality(Below(S, rank, s[i])) = i - 1
  <2> SUFFICES ASSUME NEW i \in 1..Cardinality(S)
               PROVE  s[i] \in S /\ Cardinality(Below(S, rank, s[i])) = i - 1
    BY <1>1
  <2>1. \E x \in S : Cardinality(Below(S, rank, x)) = i - 1
    BY <1>1, BelowFills
  <2>2. s[i] = CHOOSE x \in S : Cardinality(Below(S, rank, x)) = i - 1
    BY DEF InOrder, Below
  <2> QED BY <2>1, <2>2
<1>3. \A i, j \in DOMAIN s : s[i] = s[j] => i = j
  BY <1>1, <1>2
<1>4. ASSUME NEW x \in S PROVE \E i \in DOMAIN s : s[i] = x
  <2> DEFINE i == Cardinality(Below(S, rank, x)) + 1
  <2>1. i \in DOMAIN s /\ i \in Int /\ i - 1 = Cardinality(Below(S, rank, x))
    BY <1>1, BelowCounts
  <2>2. s[i] \in S /\ Cardinality(Below(S, rank, s[i])) = Cardinality(Below(S, rank, x))
    BY <1>2, <2>1
  <2>3. ~(rank[s[i]] < rank[x]) /\ ~(rank[x] < rank[s[i]])
    <3> DEFINE y == s[i]
    <3>1. y \in S /\ Cardinality(Below(S, rank, y)) = Cardinality(Below(S, rank, x))
      BY <2>2
    <3>2. Cardinality(Below(S, rank, x)) \in Int
      BY BelowCounts
    <3> HIDE DEF y
    <3>3. ~(rank[y] < rank[x]) /\ ~(rank[x] < rank[y])
      BY <3>1, <3>2, BelowCounts
    <3> QED BY <3>3 DEF y
  <2>4. s[i] = x
    BY <2>2, <2>3 DEF Ranked
  <2> QED BY <2>1, <2>4
<1> QED BY <1>1, <1>2, <1>3, <1>4

\* A finite set whose elements have the numbers from 0 to n - 1.
Numbered(S, rank, n) ==
  /\ n \in Nat /\ IsFiniteSet(S)
  /\ \A x \in S : rank[x] \in 0..(n - 1)
  /\ \A x, y \in S : rank[x] = rank[y] => x = y
  /\ \A k \in 0..(n - 1) : \E x \in S : rank[x] = k

\* A set that the integers up to m number has m elements.
LEMMA NumberedCount ==
  ASSUME NEW S, NEW rank, NEW n, Numbered(S, rank, n)
  PROVE  Cardinality(S) = n
<1> DEFINE f == [x \in S |-> rank[x]]
<1>1. IsFiniteSet(0..(n - 1)) /\ Cardinality(0..(n - 1)) = n
  BY FS_Interval DEF Numbered
<1>2. \A x \in S : f[x] = rank[x]
  OBVIOUS
<1>3. DOMAIN f = S /\ f = [x \in S |-> f[x]]
  OBVIOUS
<1> HIDE DEF f
<1>4. f \in Injection(S, 0..(n - 1))
  BY <1>2, <1>3 DEF Numbered, Injection, IsInjective
<1>5. f \in Surjection(S, 0..(n - 1))
  BY <1>2, <1>3 DEF Numbered, Surjection
<1>6. Cardinality(S) = Cardinality(0..(n - 1))
  BY <1>1, <1>4, <1>5, FS_Injection
<1> QED BY <1>1, <1>6

LEMMA NumberedBelow ==
  ASSUME NEW S, NEW rank, NEW n, Numbered(S, rank, n), NEW x \in S
  PROVE  Cardinality(Below(S, rank, x)) = rank[x]
<1>1. rank[x] \in Nat /\ rank[x] \in 0..(n - 1) /\ n \in Nat
  BY DEF Numbered
<1>2. Below(S, rank, x) \in SUBSET S /\ IsFiniteSet(Below(S, rank, x))
  BY FS_Subset DEF Numbered, Below
<1>3. \A y \in Below(S, rank, x) : rank[y] \in 0..(rank[x] - 1)
  BY <1>1, <1>2 DEF Numbered, Below
<1>4. ASSUME NEW k \in 0..(rank[x] - 1) PROVE \E y \in Below(S, rank, x) : rank[y] = k
  <2>1. k \in 0..(n - 1) /\ k < rank[x]
    BY <1>1
  <2>2. PICK y \in S : rank[y] = k
    BY <2>1 DEF Numbered
  <2> QED BY <2>1, <2>2 DEF Below
<1>5. Numbered(Below(S, rank, x), rank, rank[x])
  BY <1>1, <1>2, <1>3, <1>4 DEF Numbered
<1> QED BY <1>5, NumberedCount

\* InOrder lists such a set by its numbers.
LEMMA InOrderNumbers ==
  ASSUME NEW S, NEW rank, NEW n, Numbered(S, rank, n)
  PROVE  /\ DOMAIN InOrder(S, rank) = 1..n
         /\ \A i \in 1..n : /\ InOrder(S, rank)[i] \in S
                            /\ rank[InOrder(S, rank)[i]] = i - 1
         /\ \A x \in S : /\ rank[x] + 1 \in 1..n
                         /\ InOrder(S, rank)[rank[x] + 1] = x
<1>1. Ranked(S, rank)
  BY DEF Ranked, Numbered
<1>2. DOMAIN InOrder(S, rank) = 1..n
  BY <1>1, InOrderLists, NumberedCount
<1>3. ASSUME NEW i \in 1..n
      PROVE  InOrder(S, rank)[i] \in S /\ rank[InOrder(S, rank)[i]] = i - 1
  <2> DEFINE x == InOrder(S, rank)[i]
  <2>1. x \in S /\ Cardinality(Below(S, rank, x)) = i - 1
    BY <1>1, <1>2, InOrderLists
  <2> HIDE DEF x
  <2>2. rank[x] = i - 1
    BY <2>1, NumberedBelow
  <2> QED BY <2>1, <2>2 DEF x
<1>4. ASSUME NEW x \in S
      PROVE  rank[x] + 1 \in 1..n /\ InOrder(S, rank)[rank[x] + 1] = x
  <2>1. rank[x] + 1 \in 1..n /\ rank[x] + 1 - 1 = rank[x] /\ rank[x] \in Int
    BY DEF Numbered
  <2>2. InOrder(S, rank)[rank[x] + 1] \in S
        /\ rank[InOrder(S, rank)[rank[x] + 1]] = rank[x]
    BY <2>1, <1>3
  <2> QED BY <2>1, <2>2 DEF Numbered
<1> QED BY <1>2, <1>3, <1>4

\* A scan meets each slot in use once.
LEMMA ScannedLists ==
  ASSUME NEW S \in SUBSET Nat, IsFiniteSet(S)
  PROVE  /\ Cardinality(S) \in Nat
         /\ DOMAIN Scanned(S) = 1..Cardinality(S)
         /\ \A i \in DOMAIN Scanned(S) : Scanned(S)[i] \in S
         /\ \A i, j \in DOMAIN Scanned(S) : Scanned(S)[i] = Scanned(S)[j] => i = j
         /\ \A x \in S : \E i \in DOMAIN Scanned(S) : Scanned(S)[i] = x
<1> DEFINE rank == [s \in S |-> s]
<1>1. Ranked(S, rank)
  BY DEF Ranked
<1>2. Scanned(S) = InOrder(S, rank) /\ Cardinality(S) \in Nat
  BY FS_CardinalityType DEF Scanned
<1> HIDE DEF rank
<1>3. /\ DOMAIN InOrder(S, rank) = 1..Cardinality(S)
      /\ \A i \in DOMAIN InOrder(S, rank) : InOrder(S, rank)[i] \in S
      /\ \A i, j \in DOMAIN InOrder(S, rank) :
           InOrder(S, rank)[i] = InOrder(S, rank)[j] => i = j
      /\ \A x \in S : \E i \in DOMAIN InOrder(S, rank) : InOrder(S, rank)[i] = x
  BY <1>1, InOrderLists
<1> QED BY <1>2, <1>3

-----------------------------------------------------------------------------
(* Insertions into a file. *)

\* The ids from which HF_InsertRec takes, and a file that has room for m more.
HasIds(f, ids) == ids \in SUBSET Nat /\ IsFiniteSet(ids) /\ DOMAIN f \in SUBSET ids
RoomFor(f, ids, m) == m \in Nat /\ Cardinality(DOMAIN f) + m <= Cardinality(ids)

\* The file g is f with the m records recs at ids that were free.
Inserted(f, ids, recs, m, g, at) ==
  /\ \A i \in 1..m : at[i] \in ids \ DOMAIN f
  /\ \A i, j \in 1..m : at[i] = at[j] => i = j
  /\ DOMAIN g = DOMAIN f \cup {at[i] : i \in 1..m}
  /\ \A id \in DOMAIN f : g[id] = f[id]
  /\ \A i \in 1..m : g[at[i]] = recs[i]
  /\ g = [id \in DOMAIN g |-> g[id]]

LEMMA FreeIds ==
  ASSUME NEW f, NEW ids, NEW m, HasIds(f, ids), RoomFor(f, ids, m)
  PROVE  /\ \A i \in 1..m : Scanned(ids \ DOMAIN f)[i] \in ids \ DOMAIN f
         /\ \A i, j \in 1..m :
              Scanned(ids \ DOMAIN f)[i] = Scanned(ids \ DOMAIN f)[j] => i = j
<1>1. PICK free : free = ids \ DOMAIN f
  OBVIOUS
<1>2. free \in SUBSET Nat /\ IsFiniteSet(free)
      /\ Cardinality(free) = Cardinality(ids) - Cardinality(ids \cap DOMAIN f)
  BY <1>1, FS_Difference DEF HasIds
<1>3. ids \cap DOMAIN f = DOMAIN f /\ Cardinality(ids) \in Nat /\ Cardinality(free) \in Nat
  BY <1>2, FS_CardinalityType DEF HasIds
<1>4. IsFiniteSet(DOMAIN f)
  BY FS_Subset DEF HasIds
<1>5. Cardinality(DOMAIN f) \in Nat
  BY <1>4, FS_CardinalityType
<1>6. m <= Cardinality(free) /\ m \in Nat
  BY <1>2, <1>3, <1>5 DEF RoomFor
<1>7. /\ DOMAIN Scanned(free) = 1..Cardinality(free)
      /\ \A i \in DOMAIN Scanned(free) : Scanned(free)[i] \in free
      /\ \A i, j \in DOMAIN Scanned(free) : Scanned(free)[i] = Scanned(free)[j] => i = j
  BY <1>2, ScannedLists
<1>8. \A i \in 1..m : i \in DOMAIN Scanned(free)
  BY <1>3, <1>6, <1>7
<1> QED BY <1>1, <1>7, <1>8

LEMMA RecsInserted ==
  ASSUME NEW f, NEW ids, NEW recs, NEW m, HasIds(f, ids), RoomFor(f, ids, m),
         DOMAIN recs = 1..m
  PROVE  Inserted(f, ids, recs, m, HF_InsertRecs(f, ids, recs), Scanned(ids \ DOMAIN f))
<1> DEFINE at == Scanned(ids \ DOMAIN f)
           new == {at[i] : i \in 1..m}
           g == HF_InsertRecs(f, ids, recs)
<1>1. /\ \A i \in 1..m : at[i] \in ids \ DOMAIN f
      /\ \A i, j \in 1..m : at[i] = at[j] => i = j
  BY FreeIds
<1>2. g = [id \in DOMAIN f \cup new |->
             IF id \in new THEN recs[CHOOSE i \in 1..m : at[i] = id] ELSE f[id]]
  BY DEF HF_InsertRecs
<1> HIDE DEF at, g
<1>3. DOMAIN g = DOMAIN f \cup new
  BY <1>2
<1>4. \A id \in DOMAIN f : g[id] = f[id]
  BY <1>1, <1>2
<1>5. ASSUME NEW i \in 1..m PROVE g[at[i]] = recs[i]
  <2>1. at[i] \in new
    OBVIOUS
  <2>2. g[at[i]] = recs[CHOOSE k \in 1..m : at[k] = at[i]]
    BY <1>2, <2>1
  <2>3. (CHOOSE k \in 1..m : at[k] = at[i]) = i
    BY <1>1
  <2> QED BY <2>2, <2>3
<1>6. g = [id \in DOMAIN g |-> g[id]]
  BY <1>2
<1>7. Inserted(f, ids, recs, m, g, at)
  BY <1>1, <1>3, <1>4, <1>5, <1>6 DEF Inserted
<1> QED BY <1>7 DEF g, at

\* One record goes to one id.
LEMMA RecInserted ==
  ASSUME NEW f, NEW ids, NEW rec, HasIds(f, ids), RoomFor(f, ids, 1)
  PROVE  \E id \in ids \ DOMAIN f : HF_InsertRec(f, ids, rec) = With(f, id, rec)
<1> DEFINE at == Scanned(ids \ DOMAIN f)
           g == HF_InsertRecs(f, ids, <<rec>>)
<1>1. DOMAIN <<rec>> = 1..1 /\ 1 \in 1..1 /\ <<rec>>[1] = rec
  OBVIOUS
<1>2. Inserted(f, ids, <<rec>>, 1, g, at)
  BY <1>1, RecsInserted
<1> HIDE DEF at, g
<1>3. \A i \in 1..1 : i = 1
  OBVIOUS
<1>4. {at[i] : i \in 1..1} = {at[1]}
  BY <1>1, <1>3
<1>5. DOMAIN g = DOMAIN f \cup {at[1]} /\ g[at[1]] = rec /\ at[1] \in ids \ DOMAIN f
  BY <1>1, <1>2, <1>4 DEF Inserted
<1>6. \A id \in DOMAIN g : g[id] = IF id = at[1] THEN rec ELSE f[id]
  BY <1>2, <1>5 DEF Inserted
<1>7. g = [id \in DOMAIN g |-> g[id]]
  BY <1>2 DEF Inserted
<1>8. g = With(f, at[1], rec)
  BY <1>5, <1>6, <1>7 DEF With
<1>9. HF_InsertRec(f, ids, rec) = g
  BY DEF HF_InsertRec, g
<1> QED BY <1>5, <1>8, <1>9

-----------------------------------------------------------------------------
(* Sets as bags. *)

LEMMA BagsAdded ==
  ASSUME NEW P, NEW Q, P \cap Q = {}
  PROVE  SetToBag(P) (+) SetToBag(Q) = SetToBag(P \cup Q)
<1>1. DOMAIN SetToBag(P) = P /\ DOMAIN SetToBag(Q) = Q
      /\ (\A x \in P : SetToBag(P)[x] = 1) /\ (\A x \in Q : SetToBag(Q)[x] = 1)
  BY DEF SetToBag
<1>2. SetToBag(P) (+) SetToBag(Q) =
        [x \in P \cup Q |-> (IF x \in P THEN SetToBag(P)[x] ELSE 0)
                            + (IF x \in Q THEN SetToBag(Q)[x] ELSE 0)]
  BY <1>1 DEF (+)
<1>3. \A x \in P \cup Q : (IF x \in P THEN SetToBag(P)[x] ELSE 0)
                           + (IF x \in Q THEN SetToBag(Q)[x] ELSE 0) = 1
  BY <1>1
<1>4. SetToBag(P \cup Q) = [x \in P \cup Q |-> 1]
  BY DEF SetToBag
<1> QED BY <1>2, <1>3, <1>4

LEMMA BagsTaken ==
  ASSUME NEW P, NEW Q
  PROVE  SetToBag(P) (-) SetToBag(Q) = SetToBag(P \ Q)
<1>1. DOMAIN SetToBag(P) = P /\ DOMAIN SetToBag(Q) = Q
      /\ (\A x \in P : SetToBag(P)[x] = 1) /\ (\A x \in Q : SetToBag(Q)[x] = 1)
  BY DEF SetToBag
<1> DEFINE B == [x \in P |-> IF x \in Q THEN SetToBag(P)[x] - SetToBag(Q)[x]
                             ELSE SetToBag(P)[x]]
<1>2. SetToBag(P) (-) SetToBag(Q) = [x \in {y \in DOMAIN B : B[y] > 0} |-> B[x]]
  BY <1>1 DEF (-)
<1>3. DOMAIN B = P /\ \A x \in P : B[x] = IF x \in Q THEN 0 ELSE 1
  BY <1>1
<1> HIDE DEF B
<1>4. {y \in DOMAIN B : B[y] > 0} = P \ Q
  BY <1>3
<1>5. [x \in P \ Q |-> B[x]] = [x \in P \ Q |-> 1]
  BY <1>3
<1> QED BY <1>2, <1>4, <1>5 DEF SetToBag

LEMMA SetsAreBags ==
  ASSUME NEW P
  PROVE  IsABag(SetToBag(P)) /\ DOMAIN SetToBag(P) = P
BY DEF SetToBag, IsABag

LEMMA BagPlus ==
  ASSUME NEW B, NEW C, IsABag(B), IsABag(C)
  PROVE  /\ IsABag(B (+) C) /\ DOMAIN (B (+) C) = DOMAIN B \cup DOMAIN C
         /\ \A x \in DOMAIN B : B[x] \in Nat /\ (B (+) C)[x] \in Nat /\ B[x] <= (B (+) C)[x]
<1>1. (\A x \in DOMAIN B : B[x] \in Nat /\ B[x] > 0)
      /\ \A x \in DOMAIN C : C[x] \in Nat /\ C[x] > 0
  BY DEF IsABag
<1> DEFINE sum(x) == (IF x \in DOMAIN B THEN B[x] ELSE 0) + (IF x \in DOMAIN C THEN C[x] ELSE 0)
<1>2. B (+) C = [x \in DOMAIN B \cup DOMAIN C |-> sum(x)]
  BY DEF (+)
<1>3. \A x \in DOMAIN B \cup DOMAIN C : sum(x) \in Nat /\ sum(x) > 0
  BY <1>1
<1>4. \A x \in DOMAIN B : B[x] <= sum(x)
  BY <1>1
<1> HIDE DEF sum
<1> QED BY <1>1, <1>2, <1>3, <1>4 DEF IsABag

LEMMA BagMinus ==
  ASSUME NEW B, IsABag(B), NEW Q
  PROVE  /\ IsABag(B (-) SetToBag(Q))
         /\ DOMAIN B \ Q \in SUBSET DOMAIN (B (-) SetToBag(Q))
<1>1. \A x \in DOMAIN B : B[x] \in Nat /\ B[x] > 0
  BY DEF IsABag
<1>2. DOMAIN SetToBag(Q) = Q /\ \A x \in Q : SetToBag(Q)[x] = 1
  BY DEF SetToBag
<1> DEFINE L == [x \in DOMAIN B |-> IF x \in Q THEN B[x] - SetToBag(Q)[x] ELSE B[x]]
<1>3. B (-) SetToBag(Q) = [x \in {y \in DOMAIN L : L[y] > 0} |-> L[x]]
  BY <1>2 DEF (-)
<1>4. DOMAIN L = DOMAIN B /\ (\A x \in DOMAIN B : L[x] \in Int)
      /\ \A x \in DOMAIN B \ Q : L[x] > 0
  BY <1>1, <1>2
<1> HIDE DEF L
<1>5. \A x \in {y \in DOMAIN L : L[y] > 0} : L[x] \in Nat /\ L[x] > 0
  BY <1>4
<1> QED BY <1>3, <1>4, <1>5 DEF IsABag

-----------------------------------------------------------------------------
(* An index and the rows it is about. *)

LEMMA ValuesAreABag ==
  ASSUME NEW k, NEW rows, IsFiniteSet(DOMAIN rows)
  PROVE  IsABag(ValuesOf(k, rows))
<1> DEFINE value(id) == rows[id][k[2] + 1]
           having(v) == {id \in DOMAIN rows : value(id) = v}
           V == {value(id) : id \in DOMAIN rows}
<1>1. ValuesOf(k, rows) = [v \in V |-> Cardinality(having(v))]
  BY DEF ValuesOf
<1>2. ASSUME NEW v \in V PROVE Cardinality(having(v)) \in Nat /\ Cardinality(having(v)) > 0
  <2>1. having(v) # {} /\ having(v) \in SUBSET DOMAIN rows
    OBVIOUS
  <2> HIDE DEF having
  <2>2. IsFiniteSet(having(v))
    BY <2>1, FS_Subset
  <2>3. Cardinality(having(v)) \in Nat /\ Cardinality(having(v)) # 0
    BY <2>1, <2>2, FS_CardinalityType, FS_EmptySet
  <2> QED BY <2>3
<1> HIDE DEF having, V
<1> QED BY <1>1, <1>2 DEF IsABag

\* The index x has the entries in P, and as long as AM finds each, no other.
Follows(x, P) ==
  /\ x = [entries |-> x.entries, entered |-> x.entered]
  /\ IsABag(x.entries) /\ IsABag(x.entered)
  /\ P \in SUBSET DOMAIN x.entries
  /\ Few(x) => x.entries = SetToBag(P)

LEMMA NewFollows ==
  Follows(NewIndex, {})
<1>1. SetToBag({}) = EmptyBag
  BY DEF EmptyBag
<1>2. NewIndex.entries = EmptyBag /\ NewIndex.entered = EmptyBag
      /\ NewIndex = [entries |-> NewIndex.entries, entered |-> NewIndex.entered]
  BY DEF NewIndex
<1> QED BY <1>1, <1>2, SetsAreBags DEF Follows

LEMMA GrownFollows ==
  ASSUME NEW x, NEW P, Follows(x, P), NEW k, NEW rows, IsFiniteSet(DOMAIN rows),
         P \cap Pairs(k, rows, DOMAIN rows) = {}
  PROVE  Follows(Grown(x, k, rows), P \cup Pairs(k, rows, DOMAIN rows))
<1> DEFINE Q == Pairs(k, rows, DOMAIN rows)
           g == Grown(x, k, rows)
<1>1. g.entries = x.entries (+) SetToBag(Q) /\ g.entered = x.entered (+) ValuesOf(k, rows)
      /\ g = [entries |-> g.entries, entered |-> g.entered]
  BY DEF Grown
<1> HIDE DEF g, Q
<1>2. IsABag(x.entries) /\ IsABag(x.entered) /\ P \in SUBSET DOMAIN x.entries
      /\ (Few(x) => x.entries = SetToBag(P))
  BY DEF Follows
<1>3. IsABag(g.entries) /\ P \cup Q \in SUBSET DOMAIN g.entries
  <2>1. IsABag(SetToBag(Q)) /\ DOMAIN SetToBag(Q) = Q
    BY SetsAreBags
  <2>2. PICK B, C : B = x.entries /\ C = SetToBag(Q)
    OBVIOUS
  <2>3. IsABag(B (+) C) /\ DOMAIN (B (+) C) = DOMAIN B \cup DOMAIN C
    BY <2>1, <2>2, <1>2, BagPlus
  <2> QED BY <2>1, <2>2, <2>3, <1>1, <1>2
<1>4. /\ IsABag(g.entered) /\ DOMAIN x.entered \in SUBSET DOMAIN g.entered
      /\ \A v \in DOMAIN x.entered : x.entered[v] \in Nat /\ g.entered[v] \in Nat
                                    /\ x.entered[v] <= g.entered[v]
  <2>1. PICK B, C : B = x.entered /\ C = ValuesOf(k, rows)
    OBVIOUS
  <2>2. IsABag(B) /\ IsABag(C)
    BY <2>1, <1>2, ValuesAreABag
  <2>3. /\ IsABag(B (+) C) /\ DOMAIN (B (+) C) = DOMAIN B \cup DOMAIN C
        /\ \A v \in DOMAIN B : B[v] \in Nat /\ (B (+) C)[v] \in Nat /\ B[v] <= (B (+) C)[v]
    BY <2>2, BagPlus
  <2> QED BY <2>1, <2>3, <1>1
<1>5. ASSUME Few(g) PROVE g.entries = SetToBag(P \cup Q)
  <2>1. ASSUME NEW v \in DOMAIN x.entered PROVE x.entered[v] <= MaxCopies
    <3>1. g.entered[v] <= MaxCopies /\ MaxCopies \in Nat
      BY <1>4, <1>5, FilesAssumption DEF Few
    <3> QED BY <3>1, <1>4
  <2>2. x.entries = SetToBag(P)
    BY <2>1, <1>2 DEF Few
  <2>3. P \cap Q = {}
    BY DEF Q
  <2> QED BY <2>2, <2>3, <1>1, BagsAdded
<1>6. Follows(g, P \cup Q)
  BY <1>1, <1>3, <1>4, <1>5 DEF Follows
<1> QED BY <1>6 DEF g, Q

\* Entries whose rows go are deleted, all of them if AM finds each.
LEMMA ErasedFollows ==
  ASSUME NEW x, NEW P, Follows(x, P), NEW Q, NEW M \in SUBSET Q, Few(x) => M = Q
  PROVE  Follows(Shrunk(x, M), P \ Q)
<1>1. PICK B : B = x.entries (-) SetToBag(M)
  OBVIOUS
<1>2. PICK y : y = [x EXCEPT !.entries = B]
  OBVIOUS
<1>3. /\ x = [entries |-> x.entries, entered |-> x.entered]
      /\ IsABag(x.entries) /\ IsABag(x.entered) /\ P \in SUBSET DOMAIN x.entries
      /\ (Few(x) => x.entries = SetToBag(P))
  BY DEF Follows
<1>4. y = [entries |-> y.entries, entered |-> y.entered]
      /\ y.entries = B /\ y.entered = x.entered
  BY <1>2, <1>3
<1>5. IsABag(B) /\ DOMAIN x.entries \ M \in SUBSET DOMAIN B
  BY <1>1, <1>3, BagMinus
<1>6. P \ Q \in SUBSET DOMAIN B
  BY <1>3, <1>5
<1>7. ASSUME Few(y) PROVE B = SetToBag(P \ Q)
  <2>1. Few(x)
    BY <1>4, <1>7 DEF Few
  <2> QED BY <2>1, <1>1, <1>3, BagsTaken
<1>8. Follows(y, P \ Q)
  BY <1>3, <1>4, <1>5, <1>6, <1>7 DEF Follows
<1> QED BY <1>1, <1>2, <1>8 DEF Shrunk

-----------------------------------------------------------------------------
(* What the files of a database say of one another. *)

Name == Table \cup {SEARCH_TMP_FILE_MARK, JOIN_TMP_FILE_MARK}

Shape(e) ==
  e = [relcat |-> e.relcat, attrcat |-> e.attrcat, recs |-> e.recs, index |-> e.index,
       opened |-> e.opened]

AttrRec == [relname : Name, attrname : STRING, indexed : BOOLEAN, attrno : Nat]

Numbers(e, r) == [s \in AttrSlots(e, r) |-> e.attrcat[s].attrno]
Marked(e, r) == {s \in AttrSlots(e, r) : e.attrcat[s].indexed}
Keys(e, r) == {<<r, e.attrcat[s].attrno>> : s \in Marked(e, r)}

\* The records of attrcat are of relations that relcat has, and number the
\* attributes of each; relcat counts those that are indexed.
Records(e) ==
  /\ DOMAIN e.attrcat \in SUBSET Slot
  /\ \A s \in DOMAIN e.attrcat :
       e.attrcat[s] \in AttrRec /\ e.attrcat[s].relname \in DOMAIN e.relcat
Catalogs(e) ==
  \A r \in DOMAIN e.relcat :
    /\ e.relcat[r] = [attrcnt |-> e.relcat[r].attrcnt, indexcnt |-> e.relcat[r].indexcnt]
    /\ Numbered(AttrSlots(e, r), Numbers(e, r), e.relcat[r].attrcnt)
    /\ e.relcat[r].indexcnt = Cardinality(Keys(e, r))

\* A relation that relcat has, has its file.
Files(e) ==
  /\ DOMAIN e.relcat \in SUBSET DOMAIN e.recs /\ DOMAIN e.recs \in SUBSET Name
  /\ \A r \in DOMAIN e.recs : DOMAIN e.recs[r] \in SUBSET RecId
  /\ JOIN_TMP_FILE_MARK \notin e.opened

\* The index files are those of the marked attributes, and have their rows.
Entries(e, k) == Pairs(k, e.recs[k[1]], DOMAIN e.recs[k[1]])
IndexFiles(e) ==
  /\ \A k \in DOMAIN e.index :
       k[1] \in Table /\ k[1] \in DOMAIN e.relcat /\ k \in Keys(e, k[1])
  /\ \A r \in DOMAIN e.relcat : Keys(e, r) \in SUBSET DOMAIN e.index
  /\ \A k \in DOMAIN e.index : Follows(e.index[k], Entries(e, k))

CatInv(e) == Shape(e) /\ Records(e) /\ Catalogs(e) /\ Files(e) /\ IndexFiles(e)

-----------------------------------------------------------------------------
(* The list of attributes that Search_AttrCatalog makes. *)

LEMMA SlotsNumbered ==
  ASSUME NEW e, CatInv(e), NEW r \in DOMAIN e.relcat
  PROVE  /\ Numbered(AttrSlots(e, r), Numbers(e, r), e.relcat[r].attrcnt)
         /\ e.relcat[r].attrcnt \in Nat
         /\ AttrSlots(e, r) \in SUBSET Slot /\ AttrSlots(e, r) \in SUBSET DOMAIN e.attrcat
         /\ IsFiniteSet(AttrSlots(e, r)) /\ AttrSlots(e, r) \in SUBSET Nat
<1>1. Numbered(AttrSlots(e, r), Numbers(e, r), e.relcat[r].attrcnt)
  BY DEF CatInv, Catalogs
<1>2. AttrSlots(e, r) \in SUBSET Slot /\ AttrSlots(e, r) \in SUBSET DOMAIN e.attrcat
  BY DEF CatInv, Records, AttrSlots
<1>3. IsFiniteSet(AttrSlots(e, r)) /\ AttrSlots(e, r) \in SUBSET Nat
  BY <1>2, FilesAssumption, FS_Subset
<1> QED BY <1>1, <1>2, <1>3 DEF Numbered

LEMMA ListIs ==
  ASSUME NEW e, CatInv(e), NEW r \in DOMAIN e.relcat
  PROVE  /\ DOMAIN AttrList(e, r) = 1..e.relcat[r].attrcnt
         /\ \A i \in 1..e.relcat[r].attrcnt :
              /\ AttrList(e, r)[i] \in AttrRec
              /\ AttrList(e, r)[i].attrno = i - 1
              /\ \E s \in AttrSlots(e, r) : AttrList(e, r)[i] = e.attrcat[s]
         /\ \A s \in AttrSlots(e, r) :
              /\ e.attrcat[s].attrno + 1 \in 1..e.relcat[r].attrcnt
              /\ AttrList(e, r)[e.attrcat[s].attrno + 1] = e.attrcat[s]
<1> DEFINE n == e.relcat[r].attrcnt
           rank == Numbers(e, r)
           by == InOrder(AttrSlots(e, r), rank)
<1>1. Numbered(AttrSlots(e, r), rank, n) /\ AttrSlots(e, r) \in SUBSET DOMAIN e.attrcat
  BY SlotsNumbered
<1>2. \A s \in AttrSlots(e, r) : rank[s] = e.attrcat[s].attrno
  BY DEF Numbers
<1>3. AttrList(e, r) = [i \in DOMAIN by |-> e.attrcat[by[i]]]
  BY DEF AttrList, Numbers
<1>4. /\ DOMAIN by = 1..n
      /\ \A i \in 1..n : by[i] \in AttrSlots(e, r) /\ rank[by[i]] = i - 1
      /\ \A s \in AttrSlots(e, r) : rank[s] + 1 \in 1..n /\ by[rank[s] + 1] = s
  <2> HIDE DEF n, rank
  <2> QED BY <1>1, InOrderNumbers
<1> HIDE DEF n, rank, by
<1>5. \A s \in AttrSlots(e, r) : e.attrcat[s] \in AttrRec
  BY <1>1 DEF CatInv, Records
<1>6. \A i \in 1..n : /\ AttrList(e, r)[i] \in AttrRec /\ AttrList(e, r)[i].attrno = i - 1
                      /\ \E s \in AttrSlots(e, r) : AttrList(e, r)[i] = e.attrcat[s]
  BY <1>2, <1>3, <1>4, <1>5
<1>7. \A s \in AttrSlots(e, r) : e.attrcat[s].attrno + 1 \in 1..n
                                 /\ AttrList(e, r)[e.attrcat[s].attrno + 1] = e.attrcat[s]
  BY <1>2, <1>3, <1>4
<1> QED BY <1>3, <1>4, <1>6, <1>7 DEF n

LEMMA IndexesAreKeys ==
  ASSUME NEW e, CatInv(e), NEW r \in DOMAIN e.relcat
  PROVE  Indexes(e, r) = Keys(e, r)
<1> DEFINE n == e.relcat[r].attrcnt
           list == AttrList(e, r)
<1>1. /\ DOMAIN list = 1..n
      /\ \A i \in 1..n : \E s \in AttrSlots(e, r) : list[i] = e.attrcat[s]
      /\ \A s \in AttrSlots(e, r) : e.attrcat[s].attrno + 1 \in 1..n
                                    /\ list[e.attrcat[s].attrno + 1] = e.attrcat[s]
  BY ListIs
<1> HIDE DEF n, list
<1>2. ToSet(list) = {e.attrcat[s] : s \in AttrSlots(e, r)}
  <2>1. \A i \in DOMAIN list : \E s \in AttrSlots(e, r) : list[i] = e.attrcat[s]
    BY <1>1
  <2>2. \A s \in AttrSlots(e, r) : \E i \in DOMAIN list : list[i] = e.attrcat[s]
    BY <1>1
  <2> QED BY <2>1, <2>2 DEF ToSet
<1>3. Indexes(e, r) = {<<r, a.attrno>> : a \in {a \in ToSet(list) : a.indexed}}
  BY DEF Indexes, list
<1>4. \A k : k \in Indexes(e, r) <=> \E a \in ToSet(list) : a.indexed /\ k = <<r, a.attrno>>
  BY <1>3
<1>5. \A k : k \in Keys(e, r) <=> \E s \in AttrSlots(e, r) : e.attrcat[s].indexed
                                                  /\ k = <<r, e.attrcat[s].attrno>>
  BY DEF Keys, Marked
<1>6. \A k : k \in Indexes(e, r) <=> k \in Keys(e, r)
  BY <1>2, <1>4, <1>5
<1> QED BY <1>6

\* What the invariant says of the properties.
LEMMA InvCounts ==
  ASSUME CatInv(d)
  PROVE  CountsIndexes
<1> SUFFICES ASSUME NEW r \in DOMAIN d.relcat
             PROVE  /\ Exists(r)
                    /\ [i \in DOMAIN List(r) |-> List(r)[i].attrno]
                         = [i \in 1..d.relcat[r].attrcnt |-> i - 1]
                    /\ Cardinality(Indexes(d, r)) = d.relcat[r].indexcnt
  BY DEF CountsIndexes
<1>1. DOMAIN AttrList(d, r) = 1..d.relcat[r].attrcnt
      /\ \A i \in 1..d.relcat[r].attrcnt : AttrList(d, r)[i].attrno = i - 1
  BY ListIs
<1>2. Indexes(d, r) = Keys(d, r)
  BY IndexesAreKeys
<1>3. Cardinality(Keys(d, r)) = d.relcat[r].indexcnt /\ r \in DOMAIN d.recs
  BY DEF CatInv, Catalogs, Files
<1> QED BY <1>1, <1>2, <1>3 DEF List, Exists

LEMMA InvFlags ==
  ASSUME CatInv(d)
  PROVE  FlagsIndexes
<1>1. \A r \in DOMAIN d.relcat : Indexes(d, r) = Keys(d, r)
  BY IndexesAreKeys
<1>2. \A k : k \in DOMAIN d.index <=> \E r \in DOMAIN d.relcat : k \in Keys(d, r)
  BY DEF CatInv, IndexFiles
<1> QED BY <1>1, <1>2 DEF FlagsIndexes

LEMMA InvAgree ==
  ASSUME CatInv(d)
  PROVE  IndexesAgree
BY DEF CatInv, IndexFiles, Entries, Follows, IndexesAgree

LEMMA InvEmpty ==
  CatInv(Empty)
<1>1. DOMAIN <<>> = {}
  OBVIOUS
<1>2. Shape(Empty)
  BY DEF Shape, Empty
<1>3. Empty.attrcat = <<>> /\ Empty.relcat = <<>> /\ Empty.recs = <<>> /\ Empty.index = <<>>
      /\ Empty.opened = {}
  BY DEF Empty
<1> QED BY <1>1, <1>2, <1>3 DEF CatInv, Records, Catalogs, Files, IndexFiles

-----------------------------------------------------------------------------
(* What depends on attrcat alone. *)

LEMMA SameAttrs ==
  ASSUME NEW e, NEW g, g.attrcat = e.attrcat, NEW r
  PROVE  /\ AttrSlots(g, r) = AttrSlots(e, r) /\ Numbers(g, r) = Numbers(e, r)
         /\ Keys(g, r) = Keys(e, r) /\ AttrList(g, r) = AttrList(e, r)
         /\ RecIds(g, r) = RecIds(e, r) /\ Indexes(g, r) = Indexes(e, r)
<1>1. AttrSlots(g, r) = AttrSlots(e, r)
  BY DEF AttrSlots
<1>2. Numbers(g, r) = Numbers(e, r) /\ Marked(g, r) = Marked(e, r)
  BY <1>1 DEF Numbers, Marked
<1>3. Keys(g, r) = Keys(e, r)
  BY <1>2 DEF Keys
<1>4. AttrList(g, r) = AttrList(e, r) /\ RecIds(g, r) = RecIds(e, r)
  BY <1>1 DEF AttrList, RecIds
<1>5. Indexes(g, r) = Indexes(e, r)
  BY <1>4 DEF Indexes
<1> QED BY <1>1, <1>2, <1>3, <1>4, <1>5

\* A change of records and index entries leaves the catalogs as they are.
LEMMA SameCatalogs ==
  ASSUME NEW e, NEW g, CatInv(e), g.attrcat = e.attrcat, g.relcat = e.relcat
  PROVE  Records(g) /\ Catalogs(g)
<1>1. Records(g)
  BY DEF CatInv, Records
<1>2. \A r : Keys(g, r) = Keys(e, r) /\ AttrSlots(g, r) = AttrSlots(e, r)
             /\ Numbers(g, r) = Numbers(e, r)
  BY SameAttrs
<1>3. Catalogs(g)
  BY <1>2 DEF CatInv, Catalogs
<1> QED BY <1>1, <1>3

\* Files that are left open change nothing else.
LEMMA OpenedKeeps ==
  ASSUME NEW e, CatInv(e), NEW o, JOIN_TMP_FILE_MARK \notin o
  PROVE  CatInv([e EXCEPT !.opened = o])
<1> DEFINE g == [e EXCEPT !.opened = o]
<1>1. g = [relcat |-> e.relcat, attrcat |-> e.attrcat, recs |-> e.recs, index |-> e.index,
           opened |-> o]
  BY DEF CatInv, Shape
<1> HIDE DEF g
<1>2. g.attrcat = e.attrcat /\ g.relcat = e.relcat /\ g.recs = e.recs /\ g.index = e.index
      /\ g.opened = o /\ Shape(g)
  BY <1>1 DEF Shape
<1>3. Records(g) /\ Catalogs(g)
  BY <1>2, SameCatalogs
<1>4. Files(g)
  BY <1>2 DEF CatInv, Files
<1>5. \A k : Keys(g, k) = Keys(e, k) /\ Entries(g, k) = Entries(e, k)
  BY <1>2, SameAttrs DEF Entries
<1>6. IndexFiles(g)
  BY <1>2, <1>5 DEF CatInv, IndexFiles
<1> QED BY <1>2, <1>3, <1>4, <1>6 DEF CatInv, g

-----------------------------------------------------------------------------
(* A relation comes. *)

\* What CreateTable puts into attrcat.
NewAttrs(r, names) ==
  [i \in DOMAIN names |->
     [relname |-> r, attrname |-> names[i], indexed |-> FALSE, attrno |-> i - 1]]

LEMMA CreatedIs ==
  ASSUME NEW e, CatInv(e), NEW r, NEW names
  PROVE  /\ Shape(Created(e, r, names))
         /\ Created(e, r, names).recs = With(e.recs, r, <<>>)
         /\ Created(e, r, names).relcat =
              With(e.relcat, r, [attrcnt |-> Len(names), indexcnt |-> 0])
         /\ Created(e, r, names).attrcat = HF_InsertRecs(e.attrcat, Slot, NewAttrs(r, names))
         /\ Created(e, r, names).index = e.index
         /\ Created(e, r, names).opened = e.opened
<1> DEFINE recs == With(e.recs, r, <<>>)
           relcat == With(e.relcat, r, [attrcnt |-> Len(names), indexcnt |-> 0])
           attrcat == HF_InsertRecs(e.attrcat, Slot, NewAttrs(r, names))
<1>1. Created(e, r, names) =
        [e EXCEPT !.recs = recs, !.relcat = relcat, !.attrcat = attrcat]
  BY DEF Created, NewAttrs
<1> HIDE DEF recs, relcat, attrcat
<1>2. Created(e, r, names) =
        [relcat |-> relcat, attrcat |-> attrcat, recs |-> recs, index |-> e.index,
         opened |-> e.opened]
  BY <1>1 DEF CatInv, Shape
<1>3. /\ Shape(Created(e, r, names))
      /\ Created(e, r, names).recs = recs /\ Created(e, r, names).relcat = relcat
      /\ Created(e, r, names).attrcat = attrcat /\ Created(e, r, names).index = e.index
      /\ Created(e, r, names).opened = e.opened
  BY <1>2 DEF Shape
<1> QED BY <1>3 DEF recs, relcat, attrcat

\* Relations are there, so that a new one has no record in attrcat yet.
LEMMA NewRelation ==
  ASSUME NEW e, CatInv(e), NEW r, r \notin DOMAIN e.recs
  PROVE  /\ r \notin DOMAIN e.relcat
         /\ \A s \in DOMAIN e.attrcat : e.attrcat[s].relname # r
         /\ \A k \in DOMAIN e.index : k[1] # r
BY DEF CatInv, Records, Files, IndexFiles

LEMMA CreatedKeeps ==
  ASSUME NEW e, CatInv(e), NEW r \in Name, r \notin DOMAIN e.recs,
         NEW names \in Seq(STRING), RoomFor(e.attrcat, Slot, Len(names))
  PROVE  CatInv(Created(e, r, names))
<1> DEFINE n == Len(names)
           new == NewAttrs(r, names)
           at == Scanned(Slot \ DOMAIN e.attrcat)
<1>1. DOMAIN names = 1..n /\ n \in Nat /\ \A i \in 1..n : names[i] \in STRING
  OBVIOUS
<1> DEFINE f == Created(e, r, names)
<1>20. /\ Shape(f) /\ f.recs = With(e.recs, r, <<>>)
       /\ f.relcat = With(e.relcat, r, [attrcnt |-> n, indexcnt |-> 0])
       /\ f.attrcat = HF_InsertRecs(e.attrcat, Slot, new)
       /\ f.index = e.index /\ f.opened = e.opened
  BY CreatedIs
<1>2. PICK g : g = f
  OBVIOUS
<1> HIDE DEF n, new, f
<1>3. /\ Shape(g) /\ g.recs = With(e.recs, r, <<>>)
      /\ g.relcat = With(e.relcat, r, [attrcnt |-> n, indexcnt |-> 0])
      /\ g.attrcat = HF_InsertRecs(e.attrcat, Slot, new)
      /\ g.index = e.index /\ g.opened = e.opened
  BY <1>2, <1>20
<1> USE DEF n, new
<1>4. r \notin DOMAIN e.relcat /\ (\A s \in DOMAIN e.attrcat : e.attrcat[s].relname # r)
      /\ \A k \in DOMAIN e.index : k[1] # r
  BY NewRelation
<1>5. Inserted(e.attrcat, Slot, new, n, g.attrcat, at)
  <2>1. HasIds(e.attrcat, Slot)
    BY FilesAssumption DEF HasIds, CatInv, Records
  <2>2. DOMAIN new = 1..n
    BY <1>1 DEF NewAttrs
  <2> HIDE DEF n, new, at
  <2>3. RoomFor(e.attrcat, Slot, n)
    BY DEF n
  <2>4. Inserted(e.attrcat, Slot, new, n, HF_InsertRecs(e.attrcat, Slot, new), at)
    BY <2>1, <2>2, <2>3, RecsInserted DEF at
  <2> QED BY <1>3, <2>4
<1>6. \A i \in 1..n : new[i] = [relname |-> r, attrname |-> names[i], indexed |-> FALSE,
                               attrno |-> i - 1]
  BY <1>1 DEF NewAttrs
<1>7. \A i \in 1..n : new[i] \in AttrRec /\ new[i].relname = r /\ ~new[i].indexed
                      /\ new[i].attrno = i - 1
  <2> SUFFICES ASSUME NEW i \in 1..n
               PROVE  new[i] \in AttrRec /\ new[i].relname = r /\ ~new[i].indexed
                      /\ new[i].attrno = i - 1
    OBVIOUS
  <2> HIDE DEF new
  <2>1. i - 1 \in Nat /\ names[i] \in STRING
    BY <1>1
  <2>2. new[i] = [relname |-> r, attrname |-> names[i], indexed |-> FALSE, attrno |-> i - 1]
    BY <1>6
  <2> QED BY <2>1, <2>2 DEF AttrRec
<1> HIDE DEF n, new, at
<1>8. /\ \A i \in 1..n : at[i] \in Slot \ DOMAIN e.attrcat
      /\ \A i, j \in 1..n : at[i] = at[j] => i = j
      /\ DOMAIN g.attrcat = DOMAIN e.attrcat \cup {at[i] : i \in 1..n}
      /\ \A s \in DOMAIN e.attrcat : g.attrcat[s] = e.attrcat[s]
      /\ \A i \in 1..n : g.attrcat[at[i]] = new[i]
  BY <1>5 DEF Inserted
<1>9. DOMAIN g.relcat = DOMAIN e.relcat \cup {r} /\ DOMAIN g.recs = DOMAIN e.recs \cup {r}
      /\ g.relcat[r] = [attrcnt |-> n, indexcnt |-> 0] /\ g.recs[r] = <<>>
      /\ (\A x \in DOMAIN e.relcat : g.relcat[x] = e.relcat[x])
      /\ \A x \in DOMAIN e.recs : g.recs[x] = e.recs[x]
  BY <1>3, <1>4 DEF With
<1>10. Records(g)
  <2>1. DOMAIN g.attrcat \in SUBSET Slot
    BY <1>8 DEF CatInv, Records
  <2>2. ASSUME NEW s \in DOMAIN g.attrcat
        PROVE  g.attrcat[s] \in AttrRec /\ g.attrcat[s].relname \in DOMAIN g.relcat
    <3>1. CASE s \in DOMAIN e.attrcat
      BY <3>1, <1>8, <1>9 DEF CatInv, Records
    <3>2. CASE \E i \in 1..n : s = at[i]
      BY <3>2, <1>7, <1>8, <1>9
    <3> QED BY <3>1, <3>2, <1>8
  <2> QED BY <2>1, <2>2 DEF Records
<1>11. AttrSlots(g, r) = {at[i] : i \in 1..n} /\ Keys(g, r) = {}
  <2>1. AttrSlots(g, r) = {at[i] : i \in 1..n}
    BY <1>4, <1>7, <1>8 DEF AttrSlots
  <2>2. Marked(g, r) = {}
    BY <2>1, <1>7, <1>8 DEF Marked
  <2> QED BY <2>1, <2>2 DEF Keys
<1>12. \A x \in DOMAIN e.relcat : AttrSlots(g, x) = AttrSlots(e, x)
  BY <1>4, <1>7, <1>8 DEF AttrSlots
<1>13. \A x \in DOMAIN e.relcat : Numbers(g, x) = Numbers(e, x) /\ Keys(g, x) = Keys(e, x)
  <2> SUFFICES ASSUME NEW x \in DOMAIN e.relcat
               PROVE  Numbers(g, x) = Numbers(e, x) /\ Keys(g, x) = Keys(e, x)
    OBVIOUS
  <2>1. AttrSlots(g, x) = AttrSlots(e, x)
        /\ \A s \in AttrSlots(e, x) : g.attrcat[s] = e.attrcat[s]
    BY <1>8, <1>12 DEF AttrSlots
  <2> QED BY <2>1 DEF Numbers, Marked, Keys
<1>14. Numbered(AttrSlots(g, r), Numbers(g, r), n)
  <2>1. n \in Nat /\ IsFiniteSet(AttrSlots(g, r))
    <3>1. AttrSlots(g, r) \in SUBSET Slot
      BY <1>10 DEF Records, AttrSlots
    <3> QED BY <3>1, <1>1, FilesAssumption, FS_Subset
  <2>2. \A i \in 1..n : at[i] \in AttrSlots(g, r) /\ Numbers(g, r)[at[i]] = i - 1
    BY <1>7, <1>8, <1>11 DEF Numbers
  <2>3. \A s \in AttrSlots(g, r) : \E i \in 1..n : s = at[i]
    BY <1>11
  <2>4. \A s \in AttrSlots(g, r) : Numbers(g, r)[s] \in 0..(n - 1)
    BY <2>1, <2>2, <2>3
  <2>5. \A s, t \in AttrSlots(g, r) : Numbers(g, r)[s] = Numbers(g, r)[t] => s = t
    BY <2>1, <2>2, <2>3
  <2>6. ASSUME NEW k \in 0..(n - 1) PROVE \E s \in AttrSlots(g, r) : Numbers(g, r)[s] = k
    <3>1. k + 1 \in 1..n /\ k + 1 - 1 = k
      BY <2>1
    <3> QED BY <3>1, <2>2
  <2> QED BY <2>1, <2>4, <2>5, <2>6 DEF Numbered
<1>15. Catalogs(g)
  <2>1. Cardinality(Keys(g, r)) = 0
    BY <1>11, FS_EmptySet
  <2>2. ASSUME NEW x \in DOMAIN g.relcat
        PROVE  /\ g.relcat[x] = [attrcnt |-> g.relcat[x].attrcnt,
                                 indexcnt |-> g.relcat[x].indexcnt]
               /\ Numbered(AttrSlots(g, x), Numbers(g, x), g.relcat[x].attrcnt)
               /\ g.relcat[x].indexcnt = Cardinality(Keys(g, x))
    <3>1. CASE x = r
      BY <3>1, <2>1, <1>9, <1>14
    <3>2. CASE x \in DOMAIN e.relcat
      BY <3>2, <1>9, <1>12, <1>13 DEF CatInv, Catalogs
    <3> QED BY <3>1, <3>2, <1>9
  <2> QED BY <2>2 DEF Catalogs
<1>16. Files(g)
  BY <1>3, <1>9 DEF CatInv, Files
<1>17. IndexFiles(g)
  <2>1. \A k \in DOMAIN e.index : k[1] \in DOMAIN e.relcat /\ k[1] \in DOMAIN e.recs
    BY DEF CatInv, IndexFiles, Files
  <2>2. \A k \in DOMAIN e.index : Entries(g, k) = Entries(e, k)
    BY <2>1, <1>9 DEF Entries
  <2>3. \A k \in DOMAIN g.index : k[1] \in Table /\ k[1] \in DOMAIN g.relcat
                                  /\ k \in Keys(g, k[1])
    BY <2>1, <1>3, <1>9, <1>13 DEF CatInv, IndexFiles
  <2>4. \A x \in DOMAIN g.relcat : Keys(g, x) \in SUBSET DOMAIN g.index
    BY <1>3, <1>9, <1>11, <1>13 DEF CatInv, IndexFiles
  <2>5. \A k \in DOMAIN g.index : Follows(g.index[k], Entries(g, k))
    BY <2>2, <1>3 DEF CatInv, IndexFiles
  <2> QED BY <2>3, <2>4, <2>5 DEF IndexFiles
<1> QED BY <1>2, <1>3, <1>10, <1>15, <1>16, <1>17 DEF CatInv, f

-----------------------------------------------------------------------------
(* A relation goes. *)

LEMMA DestroyedIs ==
  ASSUME NEW e, CatInv(e), NEW r
  PROVE  /\ Shape(Destroyed(e, r))
         /\ Destroyed(e, r).relcat = Without(e.relcat, {r})
         /\ Destroyed(e, r).attrcat = Without(e.attrcat, ToSet(RecIds(e, r)))
         /\ Destroyed(e, r).recs = IF r \in e.opened THEN e.recs ELSE Without(e.recs, {r})
         /\ Destroyed(e, r).index = Without(e.index, Indexes(e, r))
         /\ Destroyed(e, r).opened = e.opened
<1> DEFINE recs == IF r \in e.opened THEN e.recs ELSE Without(e.recs, {r})
           relcat == Without(e.relcat, {r})
           attrcat == Without(e.attrcat, ToSet(RecIds(e, r)))
           index == Without(e.index, Indexes(e, r))
<1>1. Destroyed(e, r) =
        [e EXCEPT !.index = index, !.relcat = relcat, !.attrcat = attrcat, !.recs = recs]
  BY DEF Destroyed
<1> HIDE DEF recs, relcat, attrcat, index
<1>2. Destroyed(e, r) =
        [relcat |-> relcat, attrcat |-> attrcat, recs |-> recs, index |-> index,
         opened |-> e.opened]
  BY <1>1 DEF CatInv, Shape
<1>3. /\ Shape(Destroyed(e, r))
      /\ Destroyed(e, r).recs = recs /\ Destroyed(e, r).relcat = relcat
      /\ Destroyed(e, r).attrcat = attrcat /\ Destroyed(e, r).index = index
      /\ Destroyed(e, r).opened = e.opened
  BY <1>2 DEF Shape
<1> QED BY <1>3 DEF recs, relcat, attrcat, index

\* Search_AttrCatalog finds all the records of a relation.
LEMMA RecIdsAreSlots ==
  ASSUME NEW e, CatInv(e), NEW r \in DOMAIN e.relcat
  PROVE  ToSet(RecIds(e, r)) = AttrSlots(e, r)
<1>1. PICK S : S = AttrSlots(e, r)
  OBVIOUS
<1>2. S \in SUBSET Nat /\ IsFiniteSet(S)
  BY <1>1, SlotsNumbered
<1>3. /\ \A i \in DOMAIN Scanned(S) : Scanned(S)[i] \in S
      /\ \A x \in S : \E i \in DOMAIN Scanned(S) : Scanned(S)[i] = x
  BY <1>2, ScannedLists
<1>4. ToSet(Scanned(S)) = S
  BY <1>3 DEF ToSet
<1> QED BY <1>1, <1>4 DEF RecIds

LEMMA DestroyedKeeps ==
  ASSUME NEW e, CatInv(e), NEW r \in DOMAIN e.relcat
  PROVE  CatInv(Destroyed(e, r))
<1> DEFINE g == Destroyed(e, r)
<1>1. /\ Shape(g) /\ g.relcat = Without(e.relcat, {r}) /\ g.opened = e.opened
      /\ g.attrcat = Without(e.attrcat, ToSet(RecIds(e, r)))
      /\ g.recs = IF r \in e.opened THEN e.recs ELSE Without(e.recs, {r})
      /\ g.index = Without(e.index, Indexes(e, r))
  BY DestroyedIs
<1> HIDE DEF g
<1>2. Shape(g)
      /\ DOMAIN g.relcat = DOMAIN e.relcat \ {r}
      /\ (\A x \in DOMAIN g.relcat : g.relcat[x] = e.relcat[x])
      /\ g.opened = e.opened
  BY <1>1 DEF Without, Restrict
<1>3. DOMAIN g.attrcat = DOMAIN e.attrcat \ AttrSlots(e, r)
      /\ \A s \in DOMAIN g.attrcat : g.attrcat[s] = e.attrcat[s]
  BY <1>1, RecIdsAreSlots DEF Without, Restrict
<1>4. /\ DOMAIN e.recs \ {r} \in SUBSET DOMAIN g.recs
      /\ DOMAIN g.recs \in SUBSET DOMAIN e.recs
      /\ \A x \in DOMAIN g.recs : g.recs[x] = e.recs[x]
  <2>1. g.recs = IF r \in e.opened THEN e.recs ELSE Without(e.recs, {r})
    BY <1>1
  <2> QED BY <2>1 DEF Without, Restrict
<1>5. DOMAIN g.index = DOMAIN e.index \ Keys(e, r)
      /\ \A k \in DOMAIN g.index : g.index[k] = e.index[k]
  BY <1>1, IndexesAreKeys DEF Without, Restrict
<1>6. \A s \in DOMAIN g.attrcat : e.attrcat[s].relname # r
  BY <1>3 DEF AttrSlots
<1>7. Records(g)
  BY <1>2, <1>3, <1>6 DEF CatInv, Records
<1>8. \A x \in DOMAIN g.relcat : AttrSlots(g, x) = AttrSlots(e, x)
  BY <1>2, <1>3 DEF AttrSlots
<1>9. \A x \in DOMAIN g.relcat : Numbers(g, x) = Numbers(e, x) /\ Keys(g, x) = Keys(e, x)
  <2> SUFFICES ASSUME NEW x \in DOMAIN g.relcat
               PROVE  Numbers(g, x) = Numbers(e, x) /\ Keys(g, x) = Keys(e, x)
    OBVIOUS
  <2>1. AttrSlots(g, x) = AttrSlots(e, x)
        /\ \A s \in AttrSlots(e, x) : g.attrcat[s] = e.attrcat[s]
    BY <1>3, <1>8 DEF AttrSlots
  <2> QED BY <2>1 DEF Numbers, Marked, Keys
<1>10. Catalogs(g)
  BY <1>2, <1>8, <1>9 DEF CatInv, Catalogs
<1>11. Files(g)
  BY <1>2, <1>4 DEF CatInv, Files
<1>12. \A x, y : x # y => Keys(e, x) \cap Keys(e, y) = {}
  BY DEF Keys
<1>13. IndexFiles(g)
  <2>1. ASSUME NEW k \in DOMAIN g.index
        PROVE  k[1] \in Table /\ k[1] \in DOMAIN g.relcat /\ k \in Keys(g, k[1])
    <3>1. k[1] \in Table /\ k[1] \in DOMAIN e.relcat /\ k \in Keys(e, k[1])
      BY <2>1, <1>5 DEF CatInv, IndexFiles
    <3>2. k[1] # r
      BY <3>1, <1>5
    <3> QED BY <3>1, <3>2, <1>2, <1>9
  <2>2. ASSUME NEW x \in DOMAIN g.relcat PROVE Keys(g, x) \in SUBSET DOMAIN g.index
    BY <1>2, <1>5, <1>9, <1>12 DEF CatInv, IndexFiles
  <2>3. ASSUME NEW k \in DOMAIN g.index PROVE Follows(g.index[k], Entries(g, k))
    <3>1. k[1] \in DOMAIN g.recs
      BY <2>1, <1>11 DEF Files
    <3>2. Entries(g, k) = Entries(e, k)
      BY <3>1, <1>4 DEF Entries
    <3> QED BY <3>2, <1>5 DEF CatInv, IndexFiles
  <2> QED BY <2>1, <2>2, <2>3 DEF IndexFiles
<1> QED BY <1>2, <1>7, <1>10, <1>11, <1>13 DEF CatInv, g

-----------------------------------------------------------------------------
(* Rows come and go. *)

\* From e to g only the rows of r change, and its indexes with them.
RowsChange(e, g, r) ==
  /\ Shape(g) /\ g.attrcat = e.attrcat /\ g.relcat = e.relcat /\ g.opened = e.opened
  /\ r \in DOMAIN e.recs /\ DOMAIN g.recs = DOMAIN e.recs
  /\ \A x \in DOMAIN e.recs : x # r => g.recs[x] = e.recs[x]
  /\ DOMAIN g.recs[r] \in SUBSET RecId
  /\ DOMAIN g.index = DOMAIN e.index
  /\ \A k \in DOMAIN e.index :
       IF k[1] = r THEN Follows(g.index[k], Entries(g, k)) ELSE g.index[k] = e.index[k]

LEMMA RowsKeep ==
  ASSUME NEW e, NEW g, NEW r, CatInv(e), RowsChange(e, g, r)
  PROVE  CatInv(g)
<1>1. Records(g) /\ Catalogs(g)
  BY SameCatalogs DEF RowsChange
<1>2. Files(g)
  BY DEF RowsChange, CatInv, Files
<1>3. \A x : Keys(g, x) = Keys(e, x)
  BY SameAttrs DEF RowsChange
<1>4. ASSUME NEW k \in DOMAIN e.index PROVE Follows(g.index[k], Entries(g, k))
  <2>1. CASE k[1] = r
    BY <2>1 DEF RowsChange
  <2>2. CASE k[1] # r
    <3>1. k[1] \in DOMAIN e.recs
      BY DEF CatInv, IndexFiles, Files
    <3>2. Entries(g, k) = Entries(e, k)
      BY <2>2, <3>1 DEF RowsChange, Entries
    <3>3. Follows(e.index[k], Entries(e, k))
      BY DEF CatInv, IndexFiles
    <3> QED BY <2>2, <3>2, <3>3 DEF RowsChange
  <2> QED BY <2>1, <2>2
<1>5. DOMAIN g.index = DOMAIN e.index /\ DOMAIN g.relcat = DOMAIN e.relcat
  BY DEF RowsChange
<1>6. \A k \in DOMAIN g.index : k[1] \in Table /\ k[1] \in DOMAIN g.relcat
                                /\ k \in Keys(g, k[1])
  BY <1>3, <1>5 DEF CatInv, IndexFiles
<1>7. \A x \in DOMAIN g.relcat : Keys(g, x) \in SUBSET DOMAIN g.index
  BY <1>3, <1>5 DEF CatInv, IndexFiles
<1>8. IndexFiles(g)
  BY <1>4, <1>5, <1>6, <1>7 DEF IndexFiles
<1> QED BY <1>1, <1>2, <1>8 DEF CatInv, RowsChange

\* A relation's file takes m more records.
TakesRows(e, r, rows, m) ==
  r \in DOMAIN e.recs /\ DOMAIN rows = 1..m /\ RoomFor(e.recs[r], RecId, m)

\* Then the file has those it had, and others.
Fills(e, g, r) ==
  /\ Shape(g) /\ g.attrcat = e.attrcat /\ g.relcat = e.relcat /\ g.opened = e.opened
  /\ g.index = e.index /\ DOMAIN g.recs = DOMAIN e.recs
  /\ \A x \in DOMAIN e.recs : x # r => g.recs[x] = e.recs[x]
  /\ DOMAIN g.recs[r] \in SUBSET RecId /\ DOMAIN e.recs[r] \in SUBSET DOMAIN g.recs[r]
  /\ \A id \in DOMAIN e.recs[r] : g.recs[r][id] = e.recs[r][id]

LEMMA FilledIs ==
  ASSUME NEW e, CatInv(e), NEW r, NEW rows, NEW m, TakesRows(e, r, rows, m)
  PROVE  Fills(e, Filled(e, r, rows), r)
<1> DEFINE f == e.recs[r]
           h == HF_InsertRecs(f, RecId, rows)
           g == Filled(e, r, rows)
           at == Scanned(RecId \ DOMAIN f)
<1>1. HasIds(f, RecId) /\ r \in DOMAIN e.recs
  BY FilesAssumption DEF HasIds, CatInv, Files, TakesRows
<1>2. Inserted(f, RecId, rows, m, h, at)
  <2>1. RoomFor(f, RecId, m) /\ DOMAIN rows = 1..m
    BY DEF TakesRows
  <2> HIDE DEF f, at
  <2>2. Inserted(f, RecId, rows, m, HF_InsertRecs(f, RecId, rows), Scanned(RecId \ DOMAIN f))
    BY <1>1, <2>1, RecsInserted
  <2> QED BY <2>2 DEF at
<1>3. g = [e EXCEPT !.recs = [e.recs EXCEPT ![r] = h]]
  BY DEF Filled
<1> HIDE DEF g, h, f, at
<1>4. g = [relcat |-> e.relcat, attrcat |-> e.attrcat, recs |-> [e.recs EXCEPT ![r] = h],
           index |-> e.index, opened |-> e.opened]
  BY <1>3 DEF CatInv, Shape
<1>5. /\ Shape(g) /\ g.attrcat = e.attrcat /\ g.relcat = e.relcat /\ g.opened = e.opened
      /\ g.index = e.index /\ g.recs = [e.recs EXCEPT ![r] = h]
  BY <1>4 DEF Shape
<1>6. /\ DOMAIN g.recs = DOMAIN e.recs /\ g.recs[r] = h
      /\ \A x \in DOMAIN e.recs : x # r => g.recs[x] = e.recs[x]
  BY <1>1, <1>5
<1>7. /\ DOMAIN h \in SUBSET RecId /\ DOMAIN f \in SUBSET DOMAIN h
      /\ \A id \in DOMAIN f : h[id] = f[id]
  BY <1>1, <1>2 DEF Inserted, HasIds
<1>8. Fills(e, g, r)
  BY <1>5, <1>6, <1>7 DEF Fills, f
<1> QED BY <1>8 DEF g

\* Select and Join fill relations that have no index.
LEMMA FilledKeeps ==
  ASSUME NEW e, CatInv(e), NEW r, NEW rows, NEW m, TakesRows(e, r, rows, m), Keys(e, r) = {}
  PROVE  CatInv(Filled(e, r, rows))
<1> DEFINE g == Filled(e, r, rows)
<1>1. Fills(e, g, r)
  BY FilledIs
<1> HIDE DEF g
<1>2. \A k \in DOMAIN e.index : k[1] # r
  BY DEF CatInv, IndexFiles
<1>3. r \in DOMAIN e.recs
  BY DEF TakesRows
<1>4. RowsChange(e, g, r)
  BY <1>1, <1>2, <1>3 DEF RowsChange, Fills
<1>5. CatInv(g)
  BY <1>4, RowsKeep
<1> QED BY <1>5 DEF g

LEMMA EntriesApart ==
  ASSUME NEW k, NEW rows, NEW ids, NEW more, ids \cap more = {}
  PROVE  Pairs(k, rows, ids) \cap Pairs(k, rows, more) = {}
<1>1. \A id, jd : Pair(k, rows[id], id) = Pair(k, rows[jd], jd) => id = jd
  BY DEF Pair
<1> QED BY <1>1 DEF Pairs

LEMMA EnteredIs ==
  ASSUME NEW e, Shape(e), NEW r, NEW new
  PROVE  /\ Shape(Entered(e, r, new)) /\ Entered(e, r, new).attrcat = e.attrcat
         /\ Entered(e, r, new).relcat = e.relcat /\ Entered(e, r, new).opened = e.opened
         /\ Entered(e, r, new).recs = e.recs
         /\ Entered(e, r, new).index =
              [k \in DOMAIN e.index |->
                 IF k \in Indexes(e, r)
                 THEN Grown(e.index[k], k, new)
                 ELSE e.index[k]]
<1> DEFINE g == Entered(e, r, new)
           index == [k \in DOMAIN e.index |->
                       IF k \in Indexes(e, r)
                       THEN Grown(e.index[k], k, new)
                       ELSE e.index[k]]
<1>1. g = [e EXCEPT !.index = index]
  BY DEF Entered
<1> HIDE DEF g, index
<1>2. g = [relcat |-> e.relcat, attrcat |-> e.attrcat, recs |-> e.recs, index |-> index,
           opened |-> e.opened]
  BY <1>1 DEF Shape
<1>3. /\ Shape(g) /\ g.attrcat = e.attrcat /\ g.relcat = e.relcat /\ g.opened = e.opened
      /\ g.recs = e.recs /\ g.index = index
  BY <1>2 DEF Shape
<1> QED BY <1>3 DEF g, index

LEMMA StoredKeeps ==
  ASSUME NEW e, CatInv(e), NEW r \in DOMAIN e.relcat, NEW rows, NEW m, TakesRows(e, r, rows, m)
  PROVE  CatInv(Stored(e, r, rows))
<1> DEFINE f == Filled(e, r, rows)
           old == DOMAIN e.recs[r]
           more == DOMAIN f.recs[r] \ old
           new == Without(f.recs[r], old)
           g == Stored(e, r, rows)
<1>1. Fills(e, f, r)
  BY FilledIs
<1>2. g = Entered(f, r, new)
  BY DEF Stored
<1>3. DOMAIN new = more /\ \A id \in more : new[id] = f.recs[r][id]
  BY DEF Without, Restrict
<1> HIDE DEF f, new, g
<1>4. Indexes(f, r) = Indexes(e, r)
  <2>1. f.attrcat = e.attrcat
    BY <1>1 DEF Fills
  <2> QED BY <2>1, SameAttrs
<1>5. Indexes(f, r) = Keys(e, r)
  BY <1>4, IndexesAreKeys
<1>6. /\ Shape(g) /\ g.attrcat = f.attrcat /\ g.relcat = f.relcat /\ g.opened = f.opened
      /\ g.recs = f.recs
      /\ g.index = [k \in DOMAIN f.index |->
                      IF k \in Indexes(f, r)
                      THEN Grown(f.index[k], k, new)
                      ELSE f.index[k]]
  <2>1. Shape(f)
    BY <1>1 DEF Fills
  <2> DEFINE h == Entered(f, r, new)
  <2>2. /\ Shape(h) /\ h.attrcat = f.attrcat /\ h.relcat = f.relcat /\ h.opened = f.opened
        /\ h.recs = f.recs
        /\ h.index = [k \in DOMAIN f.index |->
                        IF k \in Indexes(f, r)
                        THEN Grown(f.index[k], k, new)
                        ELSE f.index[k]]
    BY <2>1, EnteredIs
  <2> HIDE DEF h
  <2>3. g = h
    BY <1>2 DEF h
  <2> QED BY <2>2, <2>3
<1>7. ASSUME NEW k \in DOMAIN e.index
      PROVE  IF k[1] = r THEN Follows(g.index[k], Entries(g, k)) ELSE g.index[k] = e.index[k]
  <2>1. k \in DOMAIN f.index /\ f.index[k] = e.index[k]
    BY <1>1 DEF Fills
  <2>2. Follows(e.index[k], Entries(e, k)) /\ k \in Keys(e, k[1])
    BY DEF CatInv, IndexFiles
  <2>3. CASE k[1] = r
    <3>1. g.index[k] = Grown(e.index[k], k, new)
      BY <2>1, <2>2, <2>3, <1>5, <1>6
    <3> DEFINE all == f.recs[r]
    <3>2. Entries(e, k) = Pairs(k, all, old)
      BY <2>3, <1>1 DEF Entries, Pairs, Fills
    <3>3. Pairs(k, new, DOMAIN new) = Pairs(k, all, more)
      BY <1>3 DEF Pairs
    <3>4. old \cup more = DOMAIN all
      BY <1>1 DEF Fills
    <3>5. old \cap more = {}
      OBVIOUS
    <3>6. IsFiniteSet(DOMAIN new)
      BY <1>1, <1>3, FilesAssumption, FS_Subset DEF Fills
    <3> HIDE DEF all, old, more
    <3>7. Pairs(k, all, old) \cap Pairs(k, new, DOMAIN new) = {}
      BY <3>3, <3>5, EntriesApart
    <3>8. Follows(Grown(e.index[k], k, new), Pairs(k, all, old) \cup Pairs(k, new, DOMAIN new))
      BY <2>2, <3>2, <3>6, <3>7, GrownFollows
    <3>9. Pairs(k, all, old) \cup Pairs(k, all, more) = Pairs(k, all, old \cup more)
      BY DEF Pairs
    <3>10. Entries(g, k) = Pairs(k, all, DOMAIN all)
      BY <2>3, <1>6 DEF Entries, all
    <3> QED BY <2>3, <3>1, <3>3, <3>4, <3>8, <3>9, <3>10
  <2>4. CASE k[1] # r
    <3>1. k \notin Keys(e, r)
      BY <2>4 DEF Keys
    <3> QED BY <2>1, <2>4, <3>1, <1>5, <1>6
  <2> QED BY <2>3, <2>4
<1>8. RowsChange(e, g, r)
  <2>1. r \in DOMAIN e.recs
    BY DEF TakesRows
  <2>2. DOMAIN g.index = DOMAIN e.index
    BY <1>1, <1>6 DEF Fills
  <2> QED BY <2>1, <2>2, <1>1, <1>6, <1>7 DEF RowsChange, Fills
<1>9. CatInv(g)
  BY <1>8, RowsKeep
<1> QED BY <1>9 DEF g

\* The rows ids of r go, and the entries of those that are not missed.
Loses(e, g, r, ids, missed) ==
  /\ Shape(g) /\ g.attrcat = e.attrcat /\ g.relcat = e.relcat /\ g.opened = e.opened
  /\ g.recs = [e.recs EXCEPT ![r] = Without(e.recs[r], ids)]
  /\ DOMAIN g.index = DOMAIN e.index
  /\ \A k \in DOMAIN e.index :
       g.index[k] = IF k \in Indexes(e, r)
                    THEN Shrunk(e.index[k], Pairs(k, e.recs[r], ids \ missed[k]))
                    ELSE e.index[k]

LEMMA ErasedIs ==
  ASSUME NEW e, CatInv(e), NEW r \in DOMAIN e.recs, NEW ids, NEW missed
  PROVE  Loses(e, Erased(e, r, ids, missed), r, ids, missed)
<1> DEFINE g == Erased(e, r, ids, missed)
           taken(k) == Pairs(k, e.recs[r], ids \ missed[k])
           recs == [e.recs EXCEPT ![r] = Without(e.recs[r], ids)]
           index == [k \in DOMAIN e.index |->
             IF k \in Indexes(e, r) THEN Shrunk(e.index[k], taken(k)) ELSE e.index[k]]
<1>1. g = [e EXCEPT !.recs = recs, !.index = index]
  BY DEF Erased
<1> HIDE DEF recs, index, g
<1>2. g = [relcat |-> e.relcat, attrcat |-> e.attrcat, recs |-> recs, index |-> index,
           opened |-> e.opened]
  BY <1>1 DEF CatInv, Shape
<1>3. /\ Shape(g) /\ g.attrcat = e.attrcat /\ g.relcat = e.relcat /\ g.opened = e.opened
      /\ g.recs = recs /\ g.index = index
  BY <1>2 DEF Shape
<1>4. Loses(e, g, r, ids, missed)
  BY <1>3 DEF recs, index, Loses
<1> QED BY <1>4 DEF g

LEMMA ErasedKeeps ==
  ASSUME NEW e, CatInv(e), NEW r \in DOMAIN e.relcat, NEW ids \in SUBSET DOMAIN e.recs[r],
         NEW missed \in Missable(e, r, ids)
  PROVE  CatInv(Erased(e, r, ids, missed))
<1> DEFINE g == Erased(e, r, ids, missed)
           all == e.recs[r]
           left == DOMAIN all \ ids
           found(k) == Pairs(k, all, ids \ missed[k])
<1>1. r \in DOMAIN e.recs
  BY DEF CatInv, Files
<1>2. /\ Shape(g) /\ g.attrcat = e.attrcat /\ g.relcat = e.relcat /\ g.opened = e.opened
      /\ g.recs = [e.recs EXCEPT ![r] = Without(all, ids)]
      /\ DOMAIN g.index = DOMAIN e.index
      /\ \A k \in DOMAIN e.index :
           g.index[k] = IF k \in Indexes(e, r) THEN Shrunk(e.index[k], found(k)) ELSE e.index[k]
  <2>1. Loses(e, g, r, ids, missed)
    BY <1>1, ErasedIs
  <2> HIDE DEF g
  <2> QED BY <2>1 DEF Loses
<1>3. Indexes(e, r) = Keys(e, r)
  BY IndexesAreKeys
<1> HIDE DEF g
<1>4. /\ DOMAIN g.recs = DOMAIN e.recs /\ g.recs[r] = Without(all, ids)
      /\ \A x \in DOMAIN e.recs : x # r => g.recs[x] = e.recs[x]
  BY <1>1, <1>2
<1>5. DOMAIN g.recs[r] = left /\ \A id \in left : g.recs[r][id] = all[id]
  BY <1>4 DEF Without, Restrict
<1>6. ASSUME NEW k \in DOMAIN e.index
      PROVE  IF k[1] = r THEN Follows(g.index[k], Entries(g, k)) ELSE g.index[k] = e.index[k]
  <2>1. Follows(e.index[k], Entries(e, k)) /\ k \in Keys(e, k[1])
    BY DEF CatInv, IndexFiles
  <2>2. CASE k[1] = r
    <3>1. g.index[k] = Shrunk(e.index[k], found(k))
      BY <2>1, <2>2, <1>2, <1>3
    <3>2. Entries(e, k) = Pairs(k, all, DOMAIN all)
      BY <2>2 DEF Entries
    <3>3. Entries(g, k) = Pairs(k, all, left)
      BY <2>2, <1>5 DEF Entries, Pairs
    <3>4. k \in Indexes(e, r)
      BY <2>1, <2>2, <1>3
    <3>5. found(k) \in SUBSET Pairs(k, all, ids)
      BY DEF Pairs
    <3>6. Few(e.index[k]) => found(k) = Pairs(k, all, ids)
      <4>1. Few(e.index[k]) => missed[k] = {}
        BY <3>4 DEF Missable
      <4>2. missed[k] = {} => ids \ missed[k] = ids
        OBVIOUS
      <4> QED BY <4>1, <4>2
    <3> HIDE DEF all, found
    <3>7. Pairs(k, all, DOMAIN all) \ Pairs(k, all, ids) = Pairs(k, all, left)
      <4>1. left \cap ids = {}
        OBVIOUS
      <4> HIDE DEF left
      <4>2. Pairs(k, all, left) \cap Pairs(k, all, ids) = {}
        BY <4>1, EntriesApart
      <4>3. DOMAIN all = left \cup ids
        BY DEF left, all
      <4> QED BY <4>2, <4>3 DEF Pairs
    <3>8. Follows(Shrunk(e.index[k], found(k)),
                  Pairs(k, all, DOMAIN all) \ Pairs(k, all, ids))
      BY <2>1, <3>2, <3>5, <3>6, ErasedFollows
    <3> QED BY <2>2, <3>1, <3>3, <3>7, <3>8
  <2>3. CASE k[1] # r
    <3>1. k \notin Keys(e, r)
      BY <2>3 DEF Keys
    <3> QED BY <2>3, <3>1, <1>2, <1>3
  <2> QED BY <2>2, <2>3
<1>7. RowsChange(e, g, r)
  <2>1. DOMAIN g.recs[r] \in SUBSET RecId
    BY <1>1, <1>5 DEF CatInv, Files
  <2>2. DOMAIN g.index = DOMAIN e.index
    BY <1>2
  <2> QED BY <2>1, <2>2, <1>1, <1>2, <1>4, <1>6 DEF RowsChange
<1>8. CatInv(g)
  BY <1>7, RowsKeep
<1> QED BY <1>8 DEF g

-----------------------------------------------------------------------------
(* The record of an attribute is marked, and moves. *)

\* In attrcat, the record at s of an attribute of r is at t, with the mark flag.
Moved(e, g, r, s, t, flag) ==
  /\ s \in AttrSlots(e, r) /\ flag \in BOOLEAN
  /\ t \in Slot /\ (t \notin DOMAIN e.attrcat \/ t = s)
  /\ DOMAIN g.attrcat = (DOMAIN e.attrcat \ {s}) \cup {t}
  /\ \A u \in DOMAIN e.attrcat : u # s => g.attrcat[u] = e.attrcat[u]
  /\ g.attrcat[t] = [e.attrcat[s] EXCEPT !.indexed = flag]

RecordMoved(e, g, r, s, t, flag) ==
  /\ g.attrcat[t] \in AttrRec /\ g.attrcat[t].relname = r
  /\ g.attrcat[t].attrno = e.attrcat[s].attrno /\ g.attrcat[t].indexed = flag

SlotsMoved(e, g, r, s, t) ==
  /\ AttrSlots(g, r) = (AttrSlots(e, r) \ {s}) \cup {t}
  /\ \A x : x # r => AttrSlots(g, x) = AttrSlots(e, x)
  /\ t \notin AttrSlots(e, r) \ {s}

KeysMoved(e, g, r, s, flag) ==
  /\ Keys(g, r) = IF flag THEN Keys(e, r) \cup {<<r, e.attrcat[s].attrno>>}
                  ELSE Keys(e, r) \ {<<r, e.attrcat[s].attrno>>}
  /\ <<r, e.attrcat[s].attrno>> \in Keys(e, r) <=> e.attrcat[s].indexed
  /\ \A x : x # r => Keys(g, x) = Keys(e, x) /\ Numbers(g, x) = Numbers(e, x)

LEMMA MovedRecord ==
  ASSUME NEW e, NEW g, NEW r \in DOMAIN e.relcat, NEW s, NEW t, NEW flag,
         CatInv(e), Moved(e, g, r, s, t, flag)
  PROVE  RecordMoved(e, g, r, s, t, flag)
<1>1. s \in DOMAIN e.attrcat /\ e.attrcat[s].relname = r /\ e.attrcat[s] \in AttrRec
  BY DEF Moved, AttrSlots, CatInv, Records
<1>2. PICK a \in AttrRec : a = e.attrcat[s]
  BY <1>1
<1>3. g.attrcat[t] = [a EXCEPT !.indexed = flag] /\ flag \in BOOLEAN
  BY <1>2 DEF Moved
<1>4. PICK b : b = [a EXCEPT !.indexed = flag]
  OBVIOUS
<1>5. b \in AttrRec /\ b.relname = a.relname /\ b.attrno = a.attrno /\ b.indexed = flag
  BY <1>3, <1>4 DEF AttrRec
<1> QED BY <1>1, <1>2, <1>3, <1>4, <1>5 DEF RecordMoved

LEMMA MovedSlots ==
  ASSUME NEW e, NEW g, NEW r \in DOMAIN e.relcat, NEW s, NEW t, NEW flag,
         CatInv(e), Moved(e, g, r, s, t, flag)
  PROVE  SlotsMoved(e, g, r, s, t)
<1>1. g.attrcat[t].relname = r /\ s \in DOMAIN e.attrcat /\ e.attrcat[s].relname = r
  BY MovedRecord DEF RecordMoved, Moved, AttrSlots
<1>2. /\ DOMAIN g.attrcat = (DOMAIN e.attrcat \ {s}) \cup {t}
      /\ \A u \in DOMAIN e.attrcat : u # s => g.attrcat[u] = e.attrcat[u]
      /\ t \notin DOMAIN e.attrcat \/ t = s
  BY DEF Moved
<1>3. AttrSlots(g, r) = (AttrSlots(e, r) \ {s}) \cup {t}
  BY <1>1, <1>2 DEF AttrSlots
<1>4. \A x : x # r => AttrSlots(g, x) = AttrSlots(e, x)
  BY <1>1, <1>2 DEF AttrSlots
<1> QED BY <1>2, <1>3, <1>4 DEF AttrSlots, SlotsMoved

LEMMA MovedNumbers ==
  ASSUME NEW e, NEW g, NEW r \in DOMAIN e.relcat, NEW s, NEW t, NEW flag,
         CatInv(e), Moved(e, g, r, s, t, flag)
  PROVE  Numbered(AttrSlots(g, r), Numbers(g, r), e.relcat[r].attrcnt)
<1> DEFINE n == e.relcat[r].attrcnt
           S == AttrSlots(e, r)
           T == AttrSlots(g, r)
<1>1. Numbered(S, Numbers(e, r), n) /\ S \in SUBSET Slot
  BY SlotsNumbered
<1>2. T = (S \ {s}) \cup {t} /\ t \notin S \ {s} /\ s \in S /\ t \in Slot
      /\ \A u \in S : u # s => g.attrcat[u] = e.attrcat[u]
  <2>1. T = (S \ {s}) \cup {t} /\ t \notin S \ {s}
    BY MovedSlots DEF SlotsMoved
  <2>2. s \in S /\ t \in Slot /\ \A u \in S : u # s => g.attrcat[u] = e.attrcat[u]
    BY DEF Moved, AttrSlots
  <2> QED BY <2>1, <2>2
<1>3. \A u \in S : Numbers(e, r)[u] = e.attrcat[u].attrno
  BY DEF Numbers
<1>4. \A u \in T : Numbers(g, r)[u] = g.attrcat[u].attrno
  BY DEF Numbers
<1>5. g.attrcat[t].attrno = e.attrcat[s].attrno
  BY MovedRecord DEF RecordMoved
<1> HIDE DEF S, T, n
\* Where a record that is in T now was before.
<1> DEFINE was == [u \in T |-> IF u = t THEN s ELSE u]
<1>6. \A u \in T : was[u] \in S /\ Numbers(g, r)[u] = Numbers(e, r)[was[u]]
  BY <1>2, <1>3, <1>4, <1>5
<1>7. \A u, v \in T : was[u] = was[v] => u = v
  BY <1>2
<1>8. \A v \in S : \E u \in T : was[u] = v
  <2> SUFFICES ASSUME NEW v \in S PROVE \E u \in T : was[u] = v
    OBVIOUS
  <2>1. CASE v = s
    <3>1. t \in T /\ was[t] = v
      BY <2>1, <1>2
    <3> QED BY <3>1
  <2>2. CASE v # s
    <3>1. v \in T /\ was[v] = v
      BY <2>2, <1>2
    <3> QED BY <3>1
  <2> QED BY <2>1, <2>2
<1> HIDE DEF was
<1>9. IsFiniteSet(T)
  <2>1. T \in SUBSET Slot
    BY <1>1, <1>2
  <2> QED BY <2>1, FilesAssumption, FS_Subset
<1>10. \A u \in T : Numbers(g, r)[u] \in 0..(n - 1)
  BY <1>1, <1>6 DEF Numbered
<1>11. \A u, v \in T : Numbers(g, r)[u] = Numbers(g, r)[v] => u = v
  BY <1>1, <1>6, <1>7 DEF Numbered
<1>12. \A k \in 0..(n - 1) : \E u \in T : Numbers(g, r)[u] = k
  BY <1>1, <1>6, <1>8 DEF Numbered
<1>13. Numbered(T, Numbers(g, r), n)
  BY <1>1, <1>9, <1>10, <1>11, <1>12 DEF Numbered
<1> QED BY <1>13 DEF T, n

LEMMA MovedKeys ==
  ASSUME NEW e, NEW g, NEW r \in DOMAIN e.relcat, NEW s, NEW t, NEW flag,
         CatInv(e), Moved(e, g, r, s, t, flag)
  PROVE  KeysMoved(e, g, r, s, flag)
<1> DEFINE S == AttrSlots(e, r)
           T == AttrSlots(g, r)
           no == e.attrcat[s].attrno
<1>1. T = (S \ {s}) \cup {t} /\ t \notin S \ {s} /\ s \in S
      /\ (\A u \in S : u # s => g.attrcat[u] = e.attrcat[u])
  <2>1. T = (S \ {s}) \cup {t} /\ t \notin S \ {s}
    BY MovedSlots DEF SlotsMoved
  <2>2. s \in S /\ \A u \in S : u # s => g.attrcat[u] = e.attrcat[u]
    BY DEF Moved, AttrSlots
  <2> QED BY <2>1, <2>2
<1>2. g.attrcat[t].attrno = no /\ g.attrcat[t].indexed = flag
  BY MovedRecord DEF RecordMoved
<1>3. \A u, v \in S : e.attrcat[u].attrno = e.attrcat[v].attrno => u = v
  BY SlotsNumbered DEF Numbered, Numbers
<1>4. \A x : x \in Keys(e, r) <=> \E u \in S : e.attrcat[u].indexed
                                                /\ x = <<r, e.attrcat[u].attrno>>
  BY DEF Keys, Marked
<1>5. \A x : x \in Keys(g, r) <=> \E u \in T : g.attrcat[u].indexed
                                                /\ x = <<r, g.attrcat[u].attrno>>
  BY DEF Keys, Marked
<1> HIDE DEF S, T, no
<1>6. <<r, no>> \in Keys(e, r) <=> e.attrcat[s].indexed
  BY <1>1, <1>3, <1>4 DEF no
<1>7. <<r, no>> \in Keys(g, r) <=> flag
  BY <1>1, <1>2, <1>3, <1>5 DEF no
<1>8. \A x : x # <<r, no>> => (x \in Keys(g, r) <=> x \in Keys(e, r))
  <2>1. \A x : x \in Keys(g, r) /\ x # <<r, no>> => x \in Keys(e, r)
    BY <1>1, <1>2, <1>4, <1>5
  <2>2. \A x : x \in Keys(e, r) /\ x # <<r, no>> => x \in Keys(g, r)
    BY <1>1, <1>4, <1>5 DEF no
  <2> QED BY <2>1, <2>2
<1>9. Keys(g, r) = IF flag THEN Keys(e, r) \cup {<<r, no>>} ELSE Keys(e, r) \ {<<r, no>>}
  BY <1>7, <1>8
<1>10. ASSUME NEW x, x # r PROVE Keys(g, x) = Keys(e, x) /\ Numbers(g, x) = Numbers(e, x)
  <2>1. AttrSlots(g, x) = AttrSlots(e, x) /\ s \notin AttrSlots(e, x)
    BY <1>10, MovedSlots DEF SlotsMoved, Moved, AttrSlots
  <2>2. \A u \in AttrSlots(e, x) : g.attrcat[u] = e.attrcat[u]
    BY <2>1 DEF Moved, AttrSlots
  <2> QED BY <2>1, <2>2 DEF Keys, Marked, Numbers
<1> QED BY <1>6, <1>9, <1>10 DEF no, KeysMoved

\* The mark of the record at s of r changes, and the count with it.
Reflags(e, g, r, s, flag, more) ==
  /\ Shape(g) /\ g.recs = e.recs /\ g.opened = e.opened
  /\ DOMAIN g.relcat = DOMAIN e.relcat
  /\ \A x \in DOMAIN e.relcat : x # r => g.relcat[x] = e.relcat[x]
  /\ g.relcat[r] = [attrcnt |-> e.relcat[r].attrcnt, indexcnt |-> e.relcat[r].indexcnt + more]
  /\ \E t : Moved(e, g, r, s, t, flag)

\* The i-th record that Search_AttrCatalog finds.
LEMMA RecIdOf ==
  ASSUME NEW e, CatInv(e), NEW r \in DOMAIN e.relcat, NEW i \in 1..e.relcat[r].attrcnt
  PROVE  RecIds(e, r)[i] \in AttrSlots(e, r)
<1>1. PICK S : S = AttrSlots(e, r)
  OBVIOUS
<1>2. S \in SUBSET Nat /\ IsFiniteSet(S)
  BY <1>1, SlotsNumbered
<1>3. Cardinality(AttrSlots(e, r)) = e.relcat[r].attrcnt
  BY SlotsNumbered, NumberedCount
<1>4. DOMAIN Scanned(S) = 1..Cardinality(S) /\ \A j \in DOMAIN Scanned(S) : Scanned(S)[j] \in S
  BY <1>2, ScannedLists
<1> QED BY <1>1, <1>3, <1>4 DEF RecIds

\* The record that is taken out leaves room.
LEMMA MoveFits ==
  ASSUME NEW e, CatInv(e), NEW s \in DOMAIN e.attrcat
  PROVE  /\ HasIds(Without(e.attrcat, {s}), Slot) /\ RoomFor(Without(e.attrcat, {s}), Slot, 1)
         /\ DOMAIN Without(e.attrcat, {s}) = DOMAIN e.attrcat \ {s}
         /\ \A u \in DOMAIN e.attrcat : u # s => Without(e.attrcat, {s})[u] = e.attrcat[u]
<1> DEFINE f == Without(e.attrcat, {s})
           D == DOMAIN e.attrcat
<1>1. DOMAIN f = D \ {s} /\ \A u \in D : u # s => f[u] = e.attrcat[u]
  BY DEF Without, Restrict
<1>2. Slot \in SUBSET Nat /\ IsFiniteSet(Slot) /\ D \in SUBSET Slot
  BY FilesAssumption DEF CatInv, Records
<1>3. IsFiniteSet(D) /\ Cardinality(D) <= Cardinality(Slot)
  BY <1>2, FS_Subset
<1>4. Cardinality(D) \in Nat /\ Cardinality(Slot) \in Nat
  BY <1>2, <1>3, FS_CardinalityType
<1>5. Cardinality(D \ {s}) = Cardinality(D) - 1
  BY <1>3, FS_RemoveElement
<1> HIDE DEF f, D
<1>6. RoomFor(f, Slot, 1)
  BY <1>1, <1>3, <1>4, <1>5 DEF RoomFor
<1>7. HasIds(f, Slot)
  BY <1>1, <1>2 DEF HasIds
<1> QED BY <1>1, <1>6, <1>7 DEF f, D

LEMMA ReflaggedIs ==
  ASSUME NEW e, CatInv(e), NEW r \in DOMAIN e.relcat, NEW i \in 1..e.relcat[r].attrcnt,
         NEW flag \in BOOLEAN, NEW more \in Int
  PROVE  /\ Reflags(e, Reflagged(e, r, i, flag, more), r, RecIds(e, r)[i], flag, more)
         /\ Reflagged(e, r, i, flag, more).index = e.index
<1> DEFINE s == RecIds(e, r)[i]
           g == Reflagged(e, r, i, flag, more)
           rec == [e.attrcat[s] EXCEPT !.indexed = flag]
           f == Without(e.attrcat, {s})
           relcat == [e.relcat EXCEPT ![r].indexcnt = @ + more]
           attrcat == HF_InsertRec(f, Slot, rec)
<1>1. s \in AttrSlots(e, r) /\ s \in DOMAIN e.attrcat
  BY RecIdOf DEF AttrSlots
<1>2. g = [e EXCEPT !.relcat = relcat, !.attrcat = attrcat]
  <2>1. g = [e EXCEPT !.relcat[r].indexcnt = @ + more, !.attrcat = attrcat]
    BY DEF Reflagged
  <2> HIDE DEF g, attrcat, s
  <2> QED BY <2>1
<1>3. HasIds(f, Slot) /\ RoomFor(f, Slot, 1) /\ DOMAIN f = DOMAIN e.attrcat \ {s}
      /\ \A u \in DOMAIN e.attrcat : u # s => f[u] = e.attrcat[u]
  <2> HIDE DEF s
  <2> QED BY <1>1, MoveFits
<1> HIDE DEF f, rec, relcat, attrcat, g, s
<1>4. PICK t \in Slot \ DOMAIN f : attrcat = With(f, t, rec)
  <2>1. \E t \in Slot \ DOMAIN f : HF_InsertRec(f, Slot, rec) = With(f, t, rec)
    BY <1>3, RecInserted
  <2> QED BY <2>1 DEF attrcat
<1>5. g = [relcat |-> relcat, attrcat |-> attrcat, recs |-> e.recs, index |-> e.index,
           opened |-> e.opened]
  BY <1>2 DEF CatInv, Shape
<1>6. /\ Shape(g) /\ g.recs = e.recs /\ g.opened = e.opened /\ g.index = e.index
      /\ g.relcat = relcat /\ g.attrcat = attrcat
  BY <1>5 DEF Shape
<1>7. Moved(e, g, r, s, t, flag)
  <2>1. DOMAIN attrcat = (DOMAIN e.attrcat \ {s}) \cup {t}
    BY <1>3, <1>4 DEF With
  <2>2. \A u \in DOMAIN e.attrcat : u # s => attrcat[u] = e.attrcat[u]
    BY <1>3, <1>4 DEF With
  <2>3. attrcat[t] = [e.attrcat[s] EXCEPT !.indexed = flag]
    BY <1>4 DEF With, rec
  <2>4. t \in Slot /\ (t \notin DOMAIN e.attrcat \/ t = s)
    BY <1>3, <1>4
  <2> QED BY <2>1, <2>2, <2>3, <2>4, <1>1, <1>6 DEF Moved
<1>8. /\ DOMAIN g.relcat = DOMAIN e.relcat
      /\ \A x \in DOMAIN e.relcat : x # r => g.relcat[x] = e.relcat[x]
  BY <1>6 DEF relcat
<1>9. g.relcat[r] = [attrcnt |-> e.relcat[r].attrcnt, indexcnt |-> e.relcat[r].indexcnt + more]
  <2>1. e.relcat[r] = [attrcnt |-> e.relcat[r].attrcnt, indexcnt |-> e.relcat[r].indexcnt]
    BY DEF CatInv, Catalogs
  <2>2. g.relcat[r] = [e.relcat[r] EXCEPT !.indexcnt = @ + more]
    BY <1>6 DEF relcat
  <2> QED BY <2>1, <2>2
<1>10. Reflags(e, g, r, s, flag, more)
  BY <1>6, <1>7, <1>8, <1>9 DEF Reflags
<1> QED BY <1>6, <1>10 DEF g, s

\* A mark is set where there is none, and taken where there is one.
Remarks(e, g, r, s, t, flag) ==
  /\ Moved(e, g, r, s, t, flag) /\ Reflags(e, g, r, s, flag, IF flag THEN 1 ELSE -1)
  /\ e.attrcat[s].indexed = ~flag

LEMMA RemarksCatalogs ==
  ASSUME NEW e, NEW g, NEW r \in DOMAIN e.relcat, NEW s, NEW t, NEW flag,
         CatInv(e), Remarks(e, g, r, s, t, flag)
  PROVE  Records(g) /\ Catalogs(g) /\ Files(g) /\ KeysMoved(e, g, r, s, flag)
<1> DEFINE k == <<r, e.attrcat[s].attrno>>
<1>1. Moved(e, g, r, s, t, flag)
  BY DEF Remarks
<1>21. RecordMoved(e, g, r, s, t, flag) /\ KeysMoved(e, g, r, s, flag)
  BY <1>1, MovedRecord, MovedKeys
<1>22. SlotsMoved(e, g, r, s, t)
  BY <1>1, MovedSlots
<1>2. /\ g.attrcat[t] \in AttrRec /\ g.attrcat[t].relname = r
  BY <1>21 DEF RecordMoved
<1>3. Numbered(AttrSlots(g, r), Numbers(g, r), e.relcat[r].attrcnt)
  BY <1>1, MovedNumbers
<1>4. Keys(g, r) = IF flag THEN Keys(e, r) \cup {k} ELSE Keys(e, r) \ {k}
  BY <1>21 DEF KeysMoved
<1>5. k \in Keys(e, r) <=> e.attrcat[s].indexed
  BY <1>21 DEF KeysMoved
<1>6. \A x : x # r => Keys(g, x) = Keys(e, x) /\ Numbers(g, x) = Numbers(e, x)
  BY <1>21 DEF KeysMoved
<1>7. \A x : x # r => AttrSlots(g, x) = AttrSlots(e, x)
  BY <1>22 DEF SlotsMoved
<1> HIDE DEF k
<1>8. /\ DOMAIN g.relcat = DOMAIN e.relcat /\ g.recs = e.recs /\ g.opened = e.opened
      /\ \A x \in DOMAIN e.relcat : x # r => g.relcat[x] = e.relcat[x]
      /\ g.relcat[r] = [attrcnt |-> e.relcat[r].attrcnt,
                        indexcnt |-> e.relcat[r].indexcnt + IF flag THEN 1 ELSE -1]
  BY DEF Remarks, Reflags
<1>9. Records(g)
  <2>1. DOMAIN g.attrcat \in SUBSET Slot
    BY <1>1 DEF Moved, CatInv, Records
  <2>2. ASSUME NEW u \in DOMAIN g.attrcat
        PROVE  g.attrcat[u] \in AttrRec /\ g.attrcat[u].relname \in DOMAIN g.relcat
    <3>1. CASE u = t
      BY <3>1, <1>2, <1>8
    <3>2. CASE u # t
      <4>1. u \in DOMAIN e.attrcat /\ g.attrcat[u] = e.attrcat[u]
        BY <3>2, <1>1 DEF Moved
      <4> QED BY <4>1, <1>8 DEF CatInv, Records
    <3> QED BY <3>1, <3>2
  <2> QED BY <2>1, <2>2 DEF Records
<1>10. IsFiniteSet(Keys(e, r))
  <2> DEFINE f == [u \in Marked(e, r) |-> <<r, e.attrcat[u].attrno>>]
  <2>1. IsFiniteSet(Marked(e, r))
    <3>1. Marked(e, r) \in SUBSET AttrSlots(e, r) /\ IsFiniteSet(AttrSlots(e, r))
      BY SlotsNumbered DEF Marked
    <3> QED BY <3>1, FS_Subset
  <2>2. f \in Surjection(Marked(e, r), Keys(e, r))
    <3>1. f \in [Marked(e, r) -> Keys(e, r)]
      BY DEF Keys
    <3>2. \A x \in Keys(e, r) : \E u \in Marked(e, r) : f[u] = x
      BY DEF Keys
    <3> HIDE DEF f
    <3> QED BY <3>1, <3>2 DEF Surjection
  <2> HIDE DEF f
  <2> QED BY <2>1, <2>2, FS_Surjection
<1>11. Cardinality(Keys(g, r)) = Cardinality(Keys(e, r)) + IF flag THEN 1 ELSE -1
  <2>1. e.attrcat[s].indexed = ~flag /\ flag \in BOOLEAN
    BY <1>1 DEF Remarks, Moved
  <2>2. CASE flag
    <3>1. k \notin Keys(e, r) /\ Keys(g, r) = Keys(e, r) \cup {k}
      BY <2>1, <2>2, <1>4, <1>5
    <3> QED BY <2>2, <3>1, <1>10, FS_AddElement
  <2>3. CASE ~flag
    <3>1. k \in Keys(e, r) /\ Keys(g, r) = Keys(e, r) \ {k}
      BY <2>1, <2>3, <1>4, <1>5
    <3>2. Cardinality(Keys(e, r) \ {k}) = Cardinality(Keys(e, r)) - 1
      BY <3>1, <1>10, FS_RemoveElement
    <3>3. Cardinality(Keys(e, r)) \in Nat
      BY <1>10, FS_CardinalityType
    <3> QED BY <2>3, <3>1, <3>2, <3>3
  <2> QED BY <2>2, <2>3
<1>12. Catalogs(g)
  <2> SUFFICES ASSUME NEW x \in DOMAIN g.relcat
               PROVE  /\ g.relcat[x] = [attrcnt |-> g.relcat[x].attrcnt,
                                        indexcnt |-> g.relcat[x].indexcnt]
                      /\ Numbered(AttrSlots(g, x), Numbers(g, x), g.relcat[x].attrcnt)
                      /\ g.relcat[x].indexcnt = Cardinality(Keys(g, x))
    BY DEF Catalogs
  <2>1. CASE x = r
    <3>1. e.relcat[r].indexcnt = Cardinality(Keys(e, r))
      BY DEF CatInv, Catalogs
    <3> QED BY <2>1, <3>1, <1>3, <1>8, <1>11
  <2>2. CASE x # r
    BY <2>2, <1>6, <1>7, <1>8 DEF CatInv, Catalogs
  <2> QED BY <2>1, <2>2
<1>13. Files(g)
  BY <1>8 DEF CatInv, Files
<1> QED BY <1>9, <1>12, <1>13, <1>21

\* An operator for a change of the index files.
Reindexed(e, index) == [e EXCEPT !.index = index]

LEMMA ReindexedIs ==
  ASSUME NEW e, Shape(e), NEW index
  PROVE  /\ Shape(Reindexed(e, index)) /\ Reindexed(e, index).attrcat = e.attrcat
         /\ Reindexed(e, index).relcat = e.relcat /\ Reindexed(e, index).recs = e.recs
         /\ Reindexed(e, index).opened = e.opened /\ Reindexed(e, index).index = index
<1> DEFINE g == Reindexed(e, index)
<1>1. g = [relcat |-> e.relcat, attrcat |-> e.attrcat, recs |-> e.recs, index |-> index,
           opened |-> e.opened]
  BY DEF Shape, Reindexed
<1> HIDE DEF g
<1>2. /\ Shape(g) /\ g.attrcat = e.attrcat /\ g.relcat = e.relcat /\ g.recs = e.recs
      /\ g.opened = e.opened /\ g.index = index
  BY <1>1 DEF Shape
<1> QED BY <1>2 DEF g

\* BuildIndex marks an attribute that is not and makes its index file.
LEMMA BuiltKeeps ==
  ASSUME NEW e, CatInv(e), NEW r \in DOMAIN e.relcat, r \in Table,
         NEW i \in 1..e.relcat[r].attrcnt, NEW k,
         k = <<r, AttrList(e, r)[i].attrno>>,
         e.attrcat[RecIds(e, r)[i]] = AttrList(e, r)[i], ~AttrList(e, r)[i].indexed
  PROVE  /\ k \notin DOMAIN e.index
         /\ CatInv(Reindexed(Reflagged(e, r, i, TRUE, 1),
                             With(e.index, k, Grown(NewIndex, k, e.recs[r]))))
<1> DEFINE s == RecIds(e, r)[i]
           f == Reflagged(e, r, i, TRUE, 1)
           x0 == Grown(NewIndex, k, e.recs[r])
           index == With(e.index, k, x0)
           g == Reindexed(f, index)
<1>1. Reflags(e, f, r, s, TRUE, 1)
  <2>1. TRUE \in BOOLEAN /\ FALSE \in BOOLEAN /\ 1 \in Int /\ -1 \in Int
    OBVIOUS
  <2> QED BY <2>1, ReflaggedIs
<1> HIDE DEF s, f, index, g, x0
<1>2. PICK t : Moved(e, f, r, s, t, TRUE)
  BY <1>1 DEF Reflags
<1>3. k = <<r, e.attrcat[s].attrno>> /\ k[1] = r /\ ~e.attrcat[s].indexed
      /\ e.attrcat[s].indexed \in BOOLEAN
  <2>1. e.attrcat[s] \in AttrRec
    BY <1>2 DEF Moved, AttrSlots, CatInv, Records
  <2> QED BY <2>1 DEF s, AttrRec
<1>4. Remarks(e, f, r, s, t, TRUE)
  BY <1>1, <1>2, <1>3 DEF Remarks
<1>14. Records(f) /\ Catalogs(f) /\ Files(f) /\ KeysMoved(e, f, r, s, TRUE)
  BY <1>4, RemarksCatalogs
<1>5. /\ Records(f) /\ Catalogs(f) /\ Files(f)
      /\ Keys(f, r) = Keys(e, r) \cup {k}
      /\ \A x : x # r => Keys(f, x) = Keys(e, x)
  BY <1>3, <1>14 DEF KeysMoved
<1>6. k \notin Keys(e, r)
  BY <1>3, <1>14 DEF KeysMoved
<1>7. k \notin DOMAIN e.index
  BY <1>3, <1>6 DEF CatInv, IndexFiles
<1>8. Shape(f) /\ f.recs = e.recs /\ f.opened = e.opened /\ DOMAIN f.relcat = DOMAIN e.relcat
  BY <1>1 DEF Reflags
<1>9. /\ Shape(g) /\ g.attrcat = f.attrcat /\ g.relcat = f.relcat /\ g.recs = f.recs
      /\ g.opened = f.opened /\ g.index = index
  <2>1. Shape(f)
    BY <1>8
  <2> QED BY <2>1, ReindexedIs DEF g
<1>10. Records(g) /\ Catalogs(g) /\ Files(g) /\ \A x : Keys(g, x) = Keys(f, x)
  <2>1. \A x : AttrSlots(g, x) = AttrSlots(f, x) /\ Numbers(g, x) = Numbers(f, x)
               /\ Keys(g, x) = Keys(f, x)
    BY <1>9, SameAttrs
  <2>2. Records(g)
    BY <1>5, <1>9 DEF Records
  <2>3. Catalogs(g)
    BY <2>1, <1>5, <1>9 DEF Catalogs
  <2>4. Files(g)
    BY <1>5, <1>9 DEF Files
  <2> QED BY <2>1, <2>2, <2>3, <2>4
<1>11. /\ DOMAIN g.index = DOMAIN e.index \cup {k} /\ g.index[k] = x0
       /\ \A x \in DOMAIN e.index : g.index[x] = e.index[x]
  BY <1>7, <1>9 DEF index, With
<1>12. IndexFiles(g)
  <2>1. \A x : Entries(g, x) = Entries(e, x)
    BY <1>8, <1>9 DEF Entries
  <2>4. Follows(x0, Entries(e, k))
    <3>1. IsFiniteSet(DOMAIN e.recs[r])
      BY FilesAssumption, FS_Subset DEF CatInv, Files
    <3>2. {} \cap Pairs(k, e.recs[r], DOMAIN e.recs[r]) = {}
      OBVIOUS
    <3>3. Follows(x0, {} \cup Pairs(k, e.recs[r], DOMAIN e.recs[r]))
      BY <3>1, <3>2, NewFollows, GrownFollows DEF x0
    <3>4. Entries(e, k) = {} \cup Pairs(k, e.recs[r], DOMAIN e.recs[r])
      BY <1>3 DEF Entries
    <3> QED BY <3>3, <3>4
  <2>2. ASSUME NEW x \in DOMAIN g.index
        PROVE  /\ x[1] \in Table /\ x[1] \in DOMAIN g.relcat /\ x \in Keys(g, x[1])
               /\ Follows(g.index[x], Entries(g, x))
    <3>1. CASE x = k
      BY <3>1, <2>1, <2>4, <1>3, <1>5, <1>8, <1>9, <1>10, <1>11
    <3>2. CASE x \in DOMAIN e.index
      <4>1. x[1] \in Table /\ x[1] \in DOMAIN e.relcat /\ x \in Keys(e, x[1])
            /\ Follows(e.index[x], Entries(e, x))
        BY <3>2 DEF CatInv, IndexFiles
      <4>2. x \in Keys(f, x[1])
        BY <4>1, <1>5
      <4> QED BY <3>2, <4>1, <4>2, <2>1, <1>8, <1>9, <1>10, <1>11
    <3> QED BY <3>1, <3>2, <1>11
  <2>3. \A x \in DOMAIN g.relcat : Keys(g, x) \in SUBSET DOMAIN g.index
    <3>1. \A x \in DOMAIN e.relcat : Keys(e, x) \in SUBSET DOMAIN e.index
      BY DEF CatInv, IndexFiles
    <3> QED BY <3>1, <1>5, <1>8, <1>9, <1>10, <1>11
  <2> QED BY <2>2, <2>3 DEF IndexFiles
<1>13. CatInv(g)
  BY <1>9, <1>10, <1>12 DEF CatInv
<1> QED BY <1>7, <1>13 DEF g, f, index, x0

\* DropIndex takes the mark and the index file of an attribute that has them.
LEMMA DroppedKeeps ==
  ASSUME NEW e, CatInv(e), NEW r \in DOMAIN e.relcat,
         NEW i \in 1..e.relcat[r].attrcnt, NEW k,
         k = <<r, AttrList(e, r)[i].attrno>>,
         e.attrcat[RecIds(e, r)[i]] = AttrList(e, r)[i], AttrList(e, r)[i].indexed
  PROVE  CatInv(Reindexed(Reflagged(e, r, i, FALSE, -1), Without(e.index, {k})))
<1> DEFINE s == RecIds(e, r)[i]
           f == Reflagged(e, r, i, FALSE, -1)
           index == Without(e.index, {k})
           g == Reindexed(f, index)
<1>1. Reflags(e, f, r, s, FALSE, -1)
  <2>1. TRUE \in BOOLEAN /\ FALSE \in BOOLEAN /\ 1 \in Int /\ -1 \in Int
    OBVIOUS
  <2> QED BY <2>1, ReflaggedIs
<1> HIDE DEF s, f, index, g
<1>2. PICK t : Moved(e, f, r, s, t, FALSE)
  BY <1>1 DEF Reflags
<1>3. k = <<r, e.attrcat[s].attrno>> /\ k[1] = r /\ e.attrcat[s].indexed
      /\ e.attrcat[s].indexed \in BOOLEAN
  <2>1. e.attrcat[s] \in AttrRec
    BY <1>2 DEF Moved, AttrSlots, CatInv, Records
  <2> QED BY <2>1 DEF s, AttrRec
<1>4. Remarks(e, f, r, s, t, FALSE)
  BY <1>1, <1>2, <1>3 DEF Remarks
<1>14. Records(f) /\ Catalogs(f) /\ Files(f) /\ KeysMoved(e, f, r, s, FALSE)
  BY <1>4, RemarksCatalogs
<1>5. /\ Records(f) /\ Catalogs(f) /\ Files(f)
      /\ Keys(f, r) = Keys(e, r) \ {k}
      /\ \A x : x # r => Keys(f, x) = Keys(e, x)
  BY <1>3, <1>14 DEF KeysMoved
<1>8. Shape(f) /\ f.recs = e.recs /\ f.opened = e.opened /\ DOMAIN f.relcat = DOMAIN e.relcat
  BY <1>1 DEF Reflags
<1>9. /\ Shape(g) /\ g.attrcat = f.attrcat /\ g.relcat = f.relcat /\ g.recs = f.recs
      /\ g.opened = f.opened /\ g.index = index
  <2>1. Shape(f)
    BY <1>8
  <2> QED BY <2>1, ReindexedIs DEF g
<1>10. Records(g) /\ Catalogs(g) /\ Files(g) /\ \A x : Keys(g, x) = Keys(f, x)
  <2>1. \A x : AttrSlots(g, x) = AttrSlots(f, x) /\ Numbers(g, x) = Numbers(f, x)
               /\ Keys(g, x) = Keys(f, x)
    BY <1>9, SameAttrs
  <2>2. Records(g)
    BY <1>5, <1>9 DEF Records
  <2>3. Catalogs(g)
    BY <2>1, <1>5, <1>9 DEF Catalogs
  <2>4. Files(g)
    BY <1>5, <1>9 DEF Files
  <2> QED BY <2>1, <2>2, <2>3, <2>4
<1>11. /\ DOMAIN g.index = DOMAIN e.index \ {k}
       /\ \A x \in DOMAIN g.index : g.index[x] = e.index[x]
  BY <1>9 DEF index, Without, Restrict
<1>12. IndexFiles(g)
  <2>1. \A x : Entries(g, x) = Entries(e, x)
    BY <1>8, <1>9 DEF Entries
  <2>2. ASSUME NEW x \in DOMAIN g.index
        PROVE  /\ x[1] \in Table /\ x[1] \in DOMAIN g.relcat /\ x \in Keys(g, x[1])
               /\ Follows(g.index[x], Entries(g, x))
    <3>1. x[1] \in Table /\ x[1] \in DOMAIN e.relcat /\ x \in Keys(e, x[1]) /\ x # k
          /\ Follows(e.index[x], Entries(e, x))
      BY <1>11 DEF CatInv, IndexFiles
    <3>2. x \in Keys(f, x[1])
      BY <3>1, <1>5
    <3> QED BY <3>1, <3>2, <2>1, <1>8, <1>9, <1>10, <1>11
  <2>3. \A x \in DOMAIN g.relcat : Keys(g, x) \in SUBSET DOMAIN g.index
    <3>1. \A x \in DOMAIN e.relcat : Keys(e, x) \in SUBSET DOMAIN e.index
      BY DEF CatInv, IndexFiles
    <3>2. \A x : x # r => k \notin Keys(e, x)
      BY <1>3 DEF Keys
    <3> QED BY <3>1, <3>2, <1>5, <1>8, <1>9, <1>10, <1>11
  <2> QED BY <2>2, <2>3 DEF IndexFiles
<1>13. CatInv(g)
  BY <1>9, <1>10, <1>12 DEF CatInv
<1> QED BY <1>13 DEF g, f, index

-----------------------------------------------------------------------------
(* A relation is filled with the rows of another. *)

LEMMA LenOf ==
  ASSUME NEW f, NEW n \in Nat, DOMAIN f = 1..n, f = [i \in DOMAIN f |-> f[i]]
  PROVE  Len(f) = n
<1> DEFINE S == {f[i] : i \in 1..n}
<1>1. \A i \in 1..n : f[i] \in S
  OBVIOUS
<1>2. f \in [1..n -> S]
  BY <1>1
<1>3. f \in Seq(S)
  BY <1>2
<1> HIDE DEF S
<1>4. DOMAIN f = 1..Len(f) /\ Len(f) \in Nat
  BY <1>3
<1> QED BY <1>4

LEMMA SeqElements ==
  ASSUME NEW S, NEW s \in Seq(S)
  PROVE  DOMAIN s = 1..Len(s) /\ Len(s) \in Nat /\ \A i \in DOMAIN s : s[i] \in S
OBVIOUS

\* The name of a result.
LEMMA ResultName ==
  ASSUME NEW res \in Table \cup {NoTable}
  PROVE  ResName(res) \in Name /\ ResName(res) # JOIN_TMP_FILE_MARK
BY NamesAssumption DEF ResName, Name

\* Fits, of a relation that has its record in relcat if it has its file.
LEMMA FitsRoom ==
  ASSUME NEW e, CatInv(e), NEW r, NEW names \in Seq(STRING), NEW n \in Nat,
         Fits(e, r, names, n)
  PROVE  /\ r \in DOMAIN e.recs => r \in DOMAIN e.relcat
         /\ r \in DOMAIN e.recs => RoomFor(e.recs[r], RecId, n)
         /\ n <= Cardinality(RecId)
         /\ r \notin DOMAIN e.recs => RoomFor(e.attrcat, Slot, Len(names))
<1>1. Len(names) \in Nat
  OBVIOUS
<1> QED BY <1>1 DEF Fits, RoomFor

LEMMA PreparedKeeps ==
  ASSUME NEW e, CatInv(e), NEW r \in Name, NEW names \in Seq(STRING), NEW n \in Nat,
         Fits(e, r, names, n), Keys(e, r) = {}
  PROVE  /\ CatInv(Prepared(e, r, names)) /\ Keys(Prepared(e, r, names), r) = {}
         /\ r \in DOMAIN Prepared(e, r, names).relcat
         /\ RoomFor(Prepared(e, r, names).recs[r], RecId, n)
<1> DEFINE p == Prepared(e, r, names)
           c == Created(e, r, names)
<1>0. /\ r \in DOMAIN e.recs => r \in DOMAIN e.relcat
      /\ r \in DOMAIN e.recs => RoomFor(e.recs[r], RecId, n)
      /\ n <= Cardinality(RecId)
      /\ r \notin DOMAIN e.recs => RoomFor(e.attrcat, Slot, Len(names))
  BY FitsRoom
<1>1. CASE r \in DOMAIN e.recs
  <2>1. p = e
    BY <1>1 DEF Prepared
  <2> HIDE DEF p
  <2> QED BY <2>1, <1>0, <1>1 DEF p
<1>2. CASE r \notin DOMAIN e.recs
  <2>1. p = c
    BY <1>2 DEF Prepared
  <2>2. CatInv(c)
    BY <1>0, <1>2, CreatedKeeps
  <2>3. /\ c.recs = With(e.recs, r, <<>>) /\ c.index = e.index
        /\ c.relcat = With(e.relcat, r, [attrcnt |-> Len(names), indexcnt |-> 0])
    BY CreatedIs
  <2> HIDE DEF p, c
  <2>4. r \in DOMAIN c.relcat /\ c.recs[r] = <<>>
    BY <2>3 DEF With
  <2>5. Keys(c, r) = {}
    <3>1. \A k \in Keys(c, r) : k[1] = r /\ k \in DOMAIN e.index
      BY <2>2, <2>3, <2>4 DEF CatInv, IndexFiles, Keys
    <3>2. \A k \in DOMAIN e.index : k[1] # r
      BY <1>2, NewRelation
    <3> QED BY <3>1, <3>2
  <2>6. RoomFor(c.recs[r], RecId, n)
    <3>1. DOMAIN c.recs[r] = {}
      BY <2>4
    <3>2. Cardinality(DOMAIN c.recs[r]) = 0
      BY <3>1, FS_EmptySet
    <3> QED BY <3>2, <1>0 DEF RoomFor
  <2> QED BY <2>1, <2>2, <2>4, <2>5, <2>6 DEF p
<1> QED BY <1>1, <1>2

\* The rows that Select reads.
LEMMA RowsAre ==
  ASSUME NEW e, CatInv(e), NEW r \in DOMAIN e.recs, NEW sel, NEW names
  PROVE  \E m \in 0..Cardinality(DOMAIN e.recs[r]) :
           /\ DOMAIN Rows(e, r, sel, names) = 1..m
           /\ Len(Rows(e, r, sel, names)) = m
<1> DEFINE M == Matching(e, r, sel)
           D == DOMAIN e.recs[r]
           rows == Rows(e, r, sel, names)
<1>1. D \in SUBSET RecId /\ RecId \in SUBSET Nat /\ IsFiniteSet(RecId)
  BY FilesAssumption DEF CatInv, Files
<1>2. M \in SUBSET D
  BY DEF Matching
<1>3. IsFiniteSet(D)
  BY <1>1, FS_Subset
<1>4. IsFiniteSet(M) /\ Cardinality(M) <= Cardinality(D)
  BY <1>2, <1>3, FS_Subset
<1>5. Cardinality(M) \in 0..Cardinality(D) /\ M \in SUBSET Nat
  <2>1. Cardinality(M) \in Nat
    BY <1>4, FS_CardinalityType
  <2>2. Cardinality(D) \in Nat
    BY <1>3, FS_CardinalityType
  <2>3. M \in SUBSET Nat
    BY <1>1, <1>2
  <2> HIDE DEF M, D
  <2>4. Cardinality(M) \in 0..Cardinality(D)
    BY <1>4, <2>1, <2>2
  <2> QED BY <2>3, <2>4
<1>6. DOMAIN rows = DOMAIN Scanned(M) /\ rows = [i \in DOMAIN rows |-> rows[i]]
  BY DEF Rows
<1> HIDE DEF M, D, rows
<1>7. DOMAIN Scanned(M) = 1..Cardinality(M)
  BY <1>4, <1>5, ScannedLists
<1>8. PICK m \in 0..Cardinality(D) : m = Cardinality(M)
  BY <1>5
<1>9. DOMAIN rows = 1..m /\ m \in Nat
  BY <1>6, <1>7, <1>8
<1>10. Len(rows) = m
  BY <1>6, <1>9, LenOf
<1> QED BY <1>9, <1>10 DEF D, rows

\* What Select has room for, and the relation that it fills, which has no index.
Selects(e, src, names, res, n) ==
  /\ src \in DOMAIN e.relcat
  /\ names \in Seq(STRING) /\ res \in Table \cup {NoTable}
  /\ n \in Nat /\ Cardinality(DOMAIN e.recs[src]) <= n
  /\ Fits(e, ResName(res), names, n)
  /\ Keys(e, ResName(res)) = {}

LEMMA FullKeeps ==
  ASSUME NEW e, CatInv(e), NEW src, NEW sel, NEW names, NEW res, NEW n,
         Selects(e, src, names, res, n)
  PROVE  LET p == Prepared(e, ResName(res), names)
             full == Filled(p, ResName(res), Rows(e, src, sel, names))
         IN  /\ CatInv(p) /\ CatInv(full) /\ Fills(p, full, ResName(res))
             /\ ResName(res) \in DOMAIN p.relcat
<1> DEFINE to == ResName(res)
           p == Prepared(e, to, names)
           rows == Rows(e, src, sel, names)
<1>1. /\ names \in Seq(STRING) /\ n \in Nat /\ Cardinality(DOMAIN e.recs[src]) <= n
      /\ Fits(e, to, names, n) /\ Keys(e, to) = {} /\ src \in DOMAIN e.recs
      /\ to \in Name
  BY ResultName DEF Selects, CatInv, Files
<1> HIDE DEF to
<1>2. /\ CatInv(p) /\ Keys(p, to) = {} /\ to \in DOMAIN p.relcat
      /\ RoomFor(p.recs[to], RecId, n)
  BY <1>1, PreparedKeeps
<1>3. PICK m \in 0..Cardinality(DOMAIN e.recs[src]) : DOMAIN rows = 1..m
  BY <1>1, RowsAre
<1> HIDE DEF p, rows
<1>4. TakesRows(p, to, rows, m)
  <2>1. to \in DOMAIN p.recs
    BY <1>2 DEF CatInv, Files
  <2>2. IsFiniteSet(DOMAIN e.recs[src]) /\ IsFiniteSet(DOMAIN p.recs[to])
    BY <1>1, <1>2, <2>1, FilesAssumption, FS_Subset DEF CatInv, Files
  <2>3. Cardinality(DOMAIN e.recs[src]) \in Nat
    BY <2>2, FS_CardinalityType
  <2>4. Cardinality(DOMAIN p.recs[to]) \in Nat
    BY <2>2, FS_CardinalityType
  <2>5. Cardinality(RecId) \in Nat
    BY FilesAssumption, FS_CardinalityType
  <2>6. m \in Nat /\ m <= n
    BY <1>1, <1>3, <2>3
  <2>7. RoomFor(p.recs[to], RecId, m)
    BY <1>1, <1>2, <2>4, <2>5, <2>6 DEF RoomFor
  <2> QED BY <2>1, <2>7, <1>3 DEF TakesRows
<1>5. Fills(p, Filled(p, to, rows), to)
  BY <1>2, <1>4, FilledIs
<1>6. CatInv(Filled(p, to, rows))
  BY <1>2, <1>4, FilledKeeps
<1> QED BY <1>2, <1>5, <1>6 DEF to, p, rows

\* The tables that are there keep their rows and their indexes.
KeepsRows(e, g) ==
  \A r \in DOMAIN e.relcat :
    /\ r \in DOMAIN g.relcat /\ g.recs[r] = e.recs[r]
    /\ \A k \in Keys(e, r) : g.index[k] = e.index[k]

\* A file that no catalog knows in g is one that none knew in e.
NoOrphan(e, g) ==
  \A r \in DOMAIN g.recs : r \in DOMAIN g.relcat \/ r \in DOMAIN e.recs \ DOMAIN e.relcat

\* A temporary relation of g is one of e.
NoLeftover(e, g) == Temporary(g) \in SUBSET Temporary(e)

\* From e to g at most the relation to comes or is filled.
Prepares(e, g, to) ==
  /\ NoOrphan(e, g)
  /\ DOMAIN e.relcat \in SUBSET DOMAIN g.relcat /\ g.opened = e.opened
  /\ DOMAIN g.recs \in SUBSET (DOMAIN e.recs \cup {to})
  /\ DOMAIN g.relcat \in SUBSET (DOMAIN e.relcat \cup {to})

LEMMA PreparedPrepares ==
  ASSUME NEW e, CatInv(e), NEW r, NEW names
  PROVE  KeepsRows(e, Prepared(e, r, names)) /\ Prepares(e, Prepared(e, r, names), r)
<1> DEFINE p == Prepared(e, r, names)
           c == Created(e, r, names)
<1>1. CASE r \in DOMAIN e.recs
  <2>1. p = e
    BY <1>1 DEF Prepared
  <2> HIDE DEF p
  <2>2. KeepsRows(e, p) /\ Prepares(e, p, r)
    BY <2>1 DEF KeepsRows, Prepares, NoOrphan
  <2> QED BY <2>2 DEF p
<1>2. CASE r \notin DOMAIN e.recs
  <2>1. p = c
    BY <1>2 DEF Prepared
  <2>3. /\ c.recs = With(e.recs, r, <<>>) /\ c.index = e.index /\ c.opened = e.opened
        /\ c.relcat = With(e.relcat, r, [attrcnt |-> Len(names), indexcnt |-> 0])
    BY CreatedIs
  <2> HIDE DEF p, c
  <2>4. DOMAIN e.relcat \in SUBSET DOMAIN e.recs
    BY DEF CatInv, Files
  <2>5. /\ DOMAIN c.relcat = DOMAIN e.relcat \cup {r} /\ DOMAIN c.recs = DOMAIN e.recs \cup {r}
        /\ \A x \in DOMAIN e.recs : c.recs[x] = e.recs[x]
    BY <2>3, <1>2 DEF With
  <2>6. KeepsRows(e, c)
    BY <2>3, <2>4, <2>5 DEF KeepsRows
  <2>7. Prepares(e, c, r)
    BY <2>3, <2>5 DEF Prepares, NoOrphan
  <2> QED BY <2>1, <2>6, <2>7 DEF p
<1> QED BY <1>1, <1>2

LEMMA OpeningIs ==
  ASSUME NEW e, CatInv(e), NEW rels, JOIN_TMP_FILE_MARK \notin rels
  PROVE  /\ CatInv(Opening(e, rels)) /\ Opening(e, rels).recs = e.recs
         /\ Opening(e, rels).relcat = e.relcat /\ Opening(e, rels).index = e.index
         /\ Opening(e, rels).opened = e.opened \cup rels
<1> DEFINE o == e.opened \cup rels
           g == Opening(e, rels)
<1>1. g = [e EXCEPT !.opened = o]
  BY DEF Opening
<1>2. JOIN_TMP_FILE_MARK \notin o
  BY DEF CatInv, Files
<1>3. Shape(e)
  BY DEF CatInv
<1> HIDE DEF o, g
<1>4. CatInv([e EXCEPT !.opened = o])
  BY <1>2, OpenedKeeps
<1>5. g = [relcat |-> e.relcat, attrcat |-> e.attrcat, recs |-> e.recs, index |-> e.index,
           opened |-> o]
  BY <1>1, <1>3 DEF Shape
<1>6. g.recs = e.recs /\ g.relcat = e.relcat /\ g.index = e.index /\ g.opened = o
  BY <1>5
<1> QED BY <1>1, <1>4, <1>6 DEF g, o

\* What is so wherever Select returns.
Returns(e, g, ret, to, plain) ==
  /\ CatInv(g) /\ NoOrphan(e, g)
  /\ ret = FEE_OK \/ plain => g.opened = e.opened /\ NoLeftover(e, g)
  /\ ret # FEE_OK => KeepsRows(e, g)
  /\ DOMAIN g.recs \in SUBSET (DOMAIN e.recs \cup {to})
  /\ \A r \in DOMAIN e.relcat : r # to => r \in DOMAIN g.relcat

LEMMA KeptReturns ==
  ASSUME NEW e, CatInv(e), NEW ret, NEW to, NEW plain
  PROVE  Returns(e, e, ret, to, plain)
BY DEF Returns, KeepsRows, NoOrphan, NoLeftover

LEMMA OpeningReturns ==
  ASSUME NEW e, NEW p, CatInv(p), NEW rels, JOIN_TMP_FILE_MARK \notin rels, NEW ret, NEW to,
         KeepsRows(e, p), Prepares(e, p, to), ret # FEE_OK
  PROVE  Returns(e, Opening(p, rels), ret, to, FALSE)
<1> DEFINE g == Opening(p, rels)
<1>1. CatInv(g) /\ g.recs = p.recs /\ g.relcat = p.relcat /\ g.index = p.index
  BY OpeningIs
<1> HIDE DEF g
<1>2. KeepsRows(e, g)
  BY <1>1 DEF KeepsRows
<1>3. NoOrphan(e, g)
  BY <1>1 DEF NoOrphan, Prepares
<1>4. Returns(e, g, ret, to, FALSE)
  BY <1>1, <1>2, <1>3 DEF Returns, Prepares
<1> QED BY <1>4 DEF g

LEMMA FullReturns ==
  ASSUME NEW e, NEW p, NEW g, CatInv(g), NEW to \in Table, NEW plain,
         Prepares(e, p, to), Fills(p, g, to)
  PROVE  Returns(e, g, FEE_OK, to, plain)
<1>1. NoLeftover(e, g)
  BY NamesAssumption DEF NoLeftover, Temporary, Prepares, Fills
<1> QED BY <1>1 DEF Returns, Prepares, Fills, NoOrphan

LEMMA DestroyedReturns ==
  ASSUME NEW e, NEW p, NEW g, CatInv(g), NEW to \in DOMAIN g.relcat, NEW plain,
         Prepares(e, p, to), Fills(p, g, to), to \notin e.opened
  PROVE  Returns(e, Destroyed(g, to), FEE_OK, to, plain)
<1> DEFINE h == Destroyed(g, to)
<1>1. CatInv(h)
  BY DestroyedKeeps
<1>2. /\ h.relcat = Without(g.relcat, {to}) /\ h.opened = g.opened
      /\ h.recs = IF to \in g.opened THEN g.recs ELSE Without(g.recs, {to})
  BY DestroyedIs
<1> HIDE DEF h
<1>3. DOMAIN h.relcat = DOMAIN g.relcat \ {to} /\ DOMAIN h.recs \in SUBSET DOMAIN g.recs
  BY <1>2 DEF Without, Restrict
<1>4. NoOrphan(e, h) /\ NoLeftover(e, h)
  <2>1. to \notin g.opened
    BY DEF Prepares, Fills
  <2>2. DOMAIN h.recs = DOMAIN g.recs \ {to}
    BY <2>1, <1>2 DEF Without, Restrict
  <2>3. NoOrphan(e, h)
    BY <2>2, <1>3 DEF NoOrphan, Prepares, Fills
  <2>4. NoLeftover(e, h)
    BY <2>2 DEF NoLeftover, Temporary, Prepares, Fills
  <2> QED BY <2>3, <2>4
<1>5. Returns(e, h, FEE_OK, to, plain)
  BY <1>1, <1>2, <1>3, <1>4 DEF Returns, Prepares, Fills
<1> QED BY <1>5 DEF h

\* A query that leaves no file open on its ways out: it has no condition, and
\* the relations that it opens can be opened.
Plain(e, src, sel, res) == sel = AllRows /\ src \notin e.opened \cup {ResName(res)}

LEMMA SelectedReturns ==
  ASSUME NEW e, CatInv(e), NEW src, NEW sel, NEW names, NEW res, NEW n,
         Selects(e, src, names, res, n), src # JOIN_TMP_FILE_MARK \/ sel = AllRows
  PROVE  Returns(e, Selected(e, src, sel, names, res).d, Selected(e, src, sel, names, res).ret,
                 ResName(res), Plain(e, src, sel, res))
<1> DEFINE list == AttrList(e, src)
           to == ResName(res)
           p == Prepared(e, to, names)
           full == Filled(p, to, Rows(e, src, sel, names))
           s == Selected(e, src, sel, names, res)
           plain == Plain(e, src, sel, res)
           known == ~(\E i \in DOMAIN names : Named(list, names[i]) = {})
<1>1. CatInv(p) /\ CatInv(full) /\ Fills(p, full, to) /\ to \in DOMAIN p.relcat
  BY FullKeeps
<1>2. KeepsRows(e, p) /\ Prepares(e, p, to)
  BY PreparedPrepares
<1>3. to # JOIN_TMP_FILE_MARK
  BY ResultName DEF Selects
<1>4. s = IF ~known THEN Outcome(e, FEE_SELECT_ATTR_NAME, <<>>)
          ELSE IF to \in e.opened THEN Outcome(e, FEE_HF, <<>>)
          ELSE IF src \in e.opened \cup {to} THEN Outcome(Opening(p, {to}), FEE_HF, <<>>)
          ELSE IF sel # AllRows /\ Named(list, sel.attr) = {}
            THEN Outcome(Opening(p, {to, src}), FEE_SELECT_ATTR_NAME, <<>>)
          ELSE IF res = NoTable THEN Outcome(Destroyed(full, to), FEE_OK, AllOf(full, to))
          ELSE Outcome(full, FEE_OK, <<>>)
  BY DEF Selected
<1>5. plain <=> sel = AllRows /\ src \notin e.opened \cup {to}
  BY DEF Plain
<1>6. plain \in BOOLEAN
  BY DEF Plain
<1> HIDE DEF list, p, full, s, plain, known, to
<1>7. \A g, ret, printed : /\ Outcome(g, ret, printed).d = g
                           /\ Outcome(g, ret, printed).ret = ret
  BY DEF Outcome
<1>8. FEE_SELECT_ATTR_NAME # FEE_OK /\ FEE_HF # FEE_OK
  BY DEF FEE_SELECT_ATTR_NAME, FEE_HF, FEE_OK
<1>9. CASE ~known \/ to \in e.opened
  <2>1. s.d = e
    BY <1>4, <1>7, <1>9
  <2>2. Returns(e, e, s.ret, to, plain)
    BY KeptReturns
  <2> QED BY <2>1, <2>2 DEF s, plain, to
<1>10. CASE known /\ to \notin e.opened /\ src \in e.opened \cup {to}
  <2>1. s.d = Opening(p, {to}) /\ s.ret = FEE_HF /\ plain = FALSE
    BY <1>4, <1>5, <1>6, <1>7, <1>10
  <2>2. JOIN_TMP_FILE_MARK \notin {to}
    BY <1>3
  <2>3. Returns(e, Opening(p, {to}), FEE_HF, to, FALSE)
    BY <2>2, <1>1, <1>2, <1>8, OpeningReturns
  <2> QED BY <2>1, <2>3 DEF s, plain, to
<1>11. CASE /\ known /\ to \notin e.opened /\ src \notin e.opened \cup {to}
            /\ sel # AllRows /\ Named(list, sel.attr) = {}
  <2>1. s.d = Opening(p, {to, src}) /\ s.ret = FEE_SELECT_ATTR_NAME /\ plain = FALSE
    BY <1>4, <1>5, <1>6, <1>7, <1>11
  <2>2. JOIN_TMP_FILE_MARK \notin {to, src}
    BY <1>3, <1>11
  <2>3. Returns(e, Opening(p, {to, src}), FEE_SELECT_ATTR_NAME, to, FALSE)
    BY <2>2, <1>1, <1>2, <1>8, OpeningReturns
  <2> QED BY <2>1, <2>3 DEF s, plain, to
<1>12. CASE /\ known /\ to \notin e.opened /\ src \notin e.opened \cup {to}
            /\ ~(sel # AllRows /\ Named(list, sel.attr) = {})
  <2>1. CASE res = NoTable
    <3>1. s.d = Destroyed(full, to) /\ s.ret = FEE_OK
      BY <1>4, <1>7, <1>12, <2>1
    <3>2. to \in DOMAIN full.relcat
      BY <1>1 DEF Fills
    <3>3. Returns(e, Destroyed(full, to), FEE_OK, to, plain)
      BY <3>2, <1>1, <1>2, <1>12, DestroyedReturns
    <3> QED BY <3>1, <3>3 DEF s, plain, to
  <2>2. CASE res # NoTable
    <3>1. s.d = full /\ s.ret = FEE_OK
      BY <1>4, <1>7, <1>12, <2>2
    <3>2. to \in Table
      BY <2>2 DEF to, ResName, Selects
    <3>4. Returns(e, full, FEE_OK, to, plain)
      BY <3>2, <1>1, <1>2, FullReturns
    <3> QED BY <3>1, <3>4 DEF s, plain, to
  <2> QED BY <2>1, <2>2
<1> QED BY <1>9, <1>10, <1>11, <1>12

-----------------------------------------------------------------------------
(* A join. *)

LEMMA NoKeys ==
  ASSUME NEW e, CatInv(e), NEW r
  PROVE  Keys(e, r) = {} <=> \A k \in DOMAIN e.index : k[1] # r
<1>1. \A k \in DOMAIN e.index : k \in Keys(e, k[1])
  BY DEF CatInv, IndexFiles
<1>2. \A k \in Keys(e, r) : k[1] = r /\ k \in DOMAIN e.index
  BY DEF CatInv, IndexFiles, Records, Keys, Marked, AttrSlots
<1> QED BY <1>1, <1>2

\* A file that was empty then has no more than the rows that were inserted.
LEMMA FilledCount ==
  ASSUME NEW e, CatInv(e), NEW r, NEW rows, NEW m, TakesRows(e, r, rows, m),
         DOMAIN e.recs[r] = {}
  PROVE  Cardinality(DOMAIN Filled(e, r, rows).recs[r]) <= m
<1> DEFINE f == e.recs[r]
           h == HF_InsertRecs(f, RecId, rows)
           at == Scanned(RecId \ DOMAIN f)
           s == [i \in 1..m |-> at[i]]
<1>1. HasIds(f, RecId) /\ r \in DOMAIN e.recs
  BY FilesAssumption DEF HasIds, CatInv, Files, TakesRows
<1>2. Inserted(f, RecId, rows, m, h, at)
  <2>1. RoomFor(f, RecId, m) /\ DOMAIN rows = 1..m
    BY DEF TakesRows
  <2> HIDE DEF f, at
  <2>2. Inserted(f, RecId, rows, m, HF_InsertRecs(f, RecId, rows), Scanned(RecId \ DOMAIN f))
    BY <1>1, <2>1, RecsInserted
  <2> QED BY <2>2 DEF at
<1>3. Filled(e, r, rows).recs = [e.recs EXCEPT ![r] = h]
  <2>1. Filled(e, r, rows) = [e EXCEPT !.recs = [e.recs EXCEPT ![r] = h]]
    BY DEF Filled
  <2>2. Shape(e)
    BY DEF CatInv
  <2> HIDE DEF h
  <2> QED BY <2>1, <2>2 DEF Shape
<1>4. Filled(e, r, rows).recs[r] = h
  BY <1>1, <1>3
<1>5. DOMAIN f = {}
  OBVIOUS
<1> HIDE DEF f, h, at
<1>6. DOMAIN h = {at[i] : i \in 1..m}
  BY <1>2, <1>5 DEF Inserted
<1>7. s \in Surjection(1..m, DOMAIN h)
  <2>1. s \in [1..m -> DOMAIN h] /\ \A x \in DOMAIN h : \E i \in 1..m : s[i] = x
    BY <1>6
  <2> HIDE DEF s
  <2> QED BY <2>1 DEF Surjection
<1>8. IsFiniteSet(1..m) /\ Cardinality(1..m) = m
  <2>1. m \in Nat
    BY DEF TakesRows, RoomFor
  <2> QED BY <2>1, FS_Interval
<1>9. Cardinality(DOMAIN h) <= Cardinality(1..m)
  BY <1>7, <1>8, FS_Surjection
<1> QED BY <1>4, <1>8, <1>9

LEMMA JoinRowsAre ==
  ASSUME CatInv(d), NEW j1, NEW j2, j1.rel \in DOMAIN d.recs, j2.rel \in DOMAIN d.recs
  PROVE  \E m \in Nat : DOMAIN JoinRows(j1, j2) = 1..m /\ Len(JoinRows(j1, j2)) = m
<1> DEFINE at(j) == Max(Named(List(j.rel), j.attr))
           inner == AllOf(d, j2.rel)
           row1(n) == AllOf(d, j1.rel)[(n \div Len(inner)) + 1]
           row2(n) == inner[(n % Len(inner)) + 1]
           turns == 0..(Len(AllOf(d, j1.rel)) * Len(inner) - 1)
           S == {n \in turns : Same(row1(n)[at(j1)], row2(n)[at(j2)])}
           rows == JoinRows(j1, j2)
<1>1. Len(AllOf(d, j1.rel)) \in Int /\ Len(inner) \in Int
  <2>1. \A r \in DOMAIN d.recs : Len(AllOf(d, r)) \in Int
    <3> SUFFICES ASSUME NEW r \in DOMAIN d.recs PROVE Len(AllOf(d, r)) \in Int
      OBVIOUS
    <3>1. PICK m \in 0..Cardinality(DOMAIN d.recs[r]) :
            Len(Rows(d, r, AllRows, Names(AttrList(d, r)))) = m
      BY RowsAre
    <3> QED BY <3>1 DEF AllOf
  <2> QED BY <2>1
<1>2. Len(AllOf(d, j1.rel)) * Len(inner) - 1 \in Int
  <2> HIDE DEF inner
  <2> QED BY <1>1
<1>3. rows = [i \in DOMAIN Scanned(S) |-> row1(Scanned(S)[i]) \o row2(Scanned(S)[i])]
  BY DEF JoinRows
<1>4. rows = [i \in DOMAIN rows |-> rows[i]] /\ DOMAIN rows = DOMAIN Scanned(S)
  BY <1>3
<1>5. S \in SUBSET turns
  OBVIOUS
<1> HIDE DEF S, rows
<1>6. IsFiniteSet(turns) /\ turns \in SUBSET Nat
  BY <1>2, FS_Interval
<1> HIDE DEF turns
<1>7. S \in SUBSET Nat /\ IsFiniteSet(S)
  BY <1>5, <1>6, FS_Subset
<1>8. DOMAIN rows = 1..Cardinality(S) /\ Cardinality(S) \in Nat
  BY <1>4, <1>7, ScannedLists
<1>9. PICK m \in Nat : m = Cardinality(S)
  BY <1>8
<1>10. DOMAIN rows = 1..m
  BY <1>8, <1>9
<1>11. Len(rows) = m
  BY <1>4, <1>10, LenOf
<1> QED BY <1>10, <1>11 DEF rows

LEMMA NamesAre ==
  ASSUME NEW e, CatInv(e), NEW r \in DOMAIN e.relcat
  PROVE  Names(AttrList(e, r)) \in Seq(STRING)
<1> DEFINE list == AttrList(e, r)
           n == e.relcat[r].attrcnt
<1>1. DOMAIN list = 1..n /\ \A i \in 1..n : list[i] \in AttrRec
  BY ListIs
<1>2. n \in Nat
  BY SlotsNumbered
<1>3. Names(list) = [i \in DOMAIN list |-> list[i].attrname]
  BY DEF Names
<1> HIDE DEF list, n
<1>4. \A i \in 1..n : list[i].attrname \in STRING
  BY <1>1 DEF AttrRec
<1>5. Names(list) \in [1..n -> STRING]
  BY <1>1, <1>3, <1>4
<1>6. Names(list) \in Seq(STRING)
  BY <1>2, <1>5
<1> QED BY <1>6 DEF list

\* The relation of the pairs, before and after Select makes the result.
JoinInto(j1, j2) ==
  Filled(Prepared(d, JOIN_TMP_FILE_MARK, Names(List(j1.rel)) \o Names(List(j2.rel))),
         JOIN_TMP_FILE_MARK, JoinRows(j1, j2))

\* What the relation of the pairs changes.
Paired(e, n) ==
  /\ CatInv(e) /\ JOIN_TMP_FILE_MARK \in DOMAIN e.relcat /\ NoOrphan(d, e)
  /\ e.opened = d.opened /\ e.index = d.index
  /\ DOMAIN e.recs \in SUBSET (DOMAIN d.recs \cup {JOIN_TMP_FILE_MARK})
  /\ Cardinality(DOMAIN e.recs[JOIN_TMP_FILE_MARK]) <= n

Creates(e, c, r) ==
  c.recs = With(e.recs, r, <<>>) /\ c.index = e.index /\ c.opened = e.opened

LEMMA CreatedCreates ==
  ASSUME NEW e, CatInv(e), NEW r, NEW names
  PROVE  Creates(e, Created(e, r, names), r)
<1> DEFINE recs == With(e.recs, r, <<>>)
           relcat == With(e.relcat, r, [attrcnt |-> Len(names), indexcnt |-> 0])
           attrcat == HF_InsertRecs(e.attrcat, Slot, NewAttrs(r, names))
           c == Created(e, r, names)
<1>1. c = [e EXCEPT !.recs = recs, !.relcat = relcat, !.attrcat = attrcat]
  BY DEF Created, NewAttrs
<1> HIDE DEF recs, relcat, attrcat, c
<1>2. c = [relcat |-> relcat, attrcat |-> attrcat, recs |-> recs, index |-> e.index,
           opened |-> e.opened]
  BY <1>1 DEF CatInv, Shape
<1>3. c.recs = recs /\ c.index = e.index /\ c.opened = e.opened
  BY <1>2
<1>4. Creates(e, c, r)
  BY <1>3 DEF Creates, recs
<1> QED BY <1>4 DEF c

LEMMA PairsAre ==
  ASSUME CatInv(d), JOIN_TMP_FILE_MARK \notin DOMAIN d.recs,
         NEW j1, NEW j2, Joinable(j1, j2),
         Fits(d, JOIN_TMP_FILE_MARK, Names(List(j1.rel)) \o Names(List(j2.rel)),
              Len(JoinRows(j1, j2)))
  PROVE  Paired(JoinInto(j1, j2), Len(JoinRows(j1, j2))) /\ Len(JoinRows(j1, j2)) \in Nat
<1> DEFINE tmp == JOIN_TMP_FILE_MARK
           both == Names(List(j1.rel)) \o Names(List(j2.rel))
           rows == JoinRows(j1, j2)
           p == Prepared(d, tmp, both)
           e == JoinInto(j1, j2)
<1>1. /\ j1.rel \in DOMAIN d.relcat /\ j1.rel \in DOMAIN d.recs
      /\ j2.rel \in DOMAIN d.relcat /\ j2.rel \in DOMAIN d.recs
  BY DEF Joinable, Described, Exists
<1>2. both \in Seq(STRING)
  <2>1. Names(List(j1.rel)) \in Seq(STRING) /\ Names(List(j2.rel)) \in Seq(STRING)
    BY <1>1, NamesAre DEF List
  <2> QED BY <2>1
<1>3. PICK m \in Nat : DOMAIN rows = 1..m /\ Len(rows) = m
  BY <1>1, JoinRowsAre
<1>4. tmp \in Name /\ Fits(d, tmp, both, m) /\ Keys(d, tmp) = {}
  <2>1. \A k \in DOMAIN d.index : k[1] # tmp
    BY NewRelation
  <2>2. Keys(d, tmp) = {}
    BY <2>1, NoKeys
  <2> QED BY <2>2, <1>3 DEF Name
<1>5. e = Filled(p, tmp, rows)
  BY DEF JoinInto
<1>6. p.recs = With(d.recs, tmp, <<>>) /\ p.index = d.index /\ p.opened = d.opened
  <2>1. p = Created(d, tmp, both)
    BY DEF Prepared
  <2> HIDE DEF both, p
  <2>2. Creates(d, Created(d, tmp, both), tmp)
    BY CreatedCreates
  <2> QED BY <2>1, <2>2 DEF Creates
<1> HIDE DEF both, rows, p, e
<1>7. CatInv(p) /\ Keys(p, tmp) = {} /\ tmp \in DOMAIN p.relcat /\ RoomFor(p.recs[tmp], RecId, m)
  BY <1>2, <1>3, <1>4, PreparedKeeps DEF p
<1>8. TakesRows(p, tmp, rows, m) /\ DOMAIN p.recs[tmp] = {}
  <2>1. tmp \in DOMAIN p.recs /\ p.recs[tmp] = <<>>
    BY <1>6 DEF With
  <2> QED BY <2>1, <1>3, <1>7 DEF TakesRows
<1>9. Fills(p, Filled(p, tmp, rows), tmp)
  BY <1>7, <1>8, FilledIs
<1>10. CatInv(Filled(p, tmp, rows))
  BY <1>7, <1>8, FilledKeeps
<1>11. Cardinality(DOMAIN Filled(p, tmp, rows).recs[tmp]) <= m
  BY <1>7, <1>8, FilledCount
<1>12. CatInv(e) /\ Fills(p, e, tmp) /\ Cardinality(DOMAIN e.recs[tmp]) <= m
  BY <1>5, <1>9, <1>10, <1>11
<1>13. NoOrphan(d, e) /\ DOMAIN e.recs \in SUBSET (DOMAIN d.recs \cup {tmp})
  <2>1. Prepares(d, p, tmp)
    BY PreparedPrepares DEF p
  <2> QED BY <2>1, <1>12 DEF Prepares, Fills, NoOrphan
<1>14. Paired(e, m)
  BY <1>6, <1>7, <1>12, <1>13 DEF Paired, Fills
<1> QED BY <1>3, <1>14 DEF e, rows

\* A relation that Select may fill has no index.
LEMMA UnindexedKeys ==
  ASSUME CatInv(d), NEW r, r \in DOMAIN d.recs => Sound(r), Unindexed(r)
  PROVE  \A k \in DOMAIN d.index : k[1] # r
<1>1. CASE r \in DOMAIN d.recs
  <2>1. r \in DOMAIN d.relcat /\ Indexes(d, r) = {}
    BY <1>1 DEF Sound, Described, Unindexed, Exists
  <2>2. Indexes(d, r) = Keys(d, r)
    BY <2>1, IndexesAreKeys
  <2>3. Keys(d, r) = {}
    BY <2>1, <2>2
  <2> QED BY <2>3, NoKeys
<1>2. CASE r \notin DOMAIN d.recs
  BY <1>2, NewRelation
<1> QED BY <1>1, <1>2

\* It has none while the pairs are made.
LEMMA PairsKeys ==
  ASSUME CatInv(d), NEW e, NEW n, Paired(e, n), NEW r,
         r \in DOMAIN d.recs => Sound(r), Unindexed(r)
  PROVE  Keys(e, r) = {}
<1>1. \A k \in DOMAIN d.index : k[1] # r
  BY UnindexedKeys
<1>2. CatInv(e) /\ DOMAIN e.index = DOMAIN d.index
  BY DEF Paired
<1>3. \A k \in DOMAIN e.index : k[1] # r
  BY <1>1, <1>2
<1> QED BY <1>2, <1>3, NoKeys

JoinArgs(j1, j2, proj, res) ==
  /\ proj \in Seq([rel : Table, attr : STRING]) /\ res \in Table \cup {NoTable}
  /\ Unindexed(ResName(res))

LEMMA JoinKeeps ==
  ASSUME CatInv(d), JOIN_TMP_FILE_MARK \notin DOMAIN d.recs,
         NEW j1, NEW op, NEW j2, NEW proj, NEW res, JoinArgs(j1, j2, proj, res),
         Join(j1, op, j2, proj, res)
  PROVE  /\ CatInv(d') /\ JOIN_TMP_FILE_MARK \notin DOMAIN d'.recs
         /\ d'.opened = d.opened /\ NoOrphan(d, d') /\ NoLeftover(d, d')
<1> DEFINE tmp == JOIN_TMP_FILE_MARK
           both == Names(List(j1.rel)) \o Names(List(j2.rel))
           names == [i \in DOMAIN proj |-> proj[i].attr]
           n == Len(JoinRows(j1, j2))
           e == JoinInto(j1, j2)
           s == Selected(e, tmp, AllRows, names, res)
           to == ResName(res)
<1>1. /\ Joinable(j1, j2) /\ Fits(d, tmp, both, n)
      /\ (to \in DOMAIN d.recs => Sound(to)) /\ Fits(e, to, names, n)
      /\ d' = Destroyed(s.d, tmp)
  BY DEF Join, JoinInto, Become, Exists
<1>2. Paired(e, n) /\ n \in Nat
  <2> HIDE DEF e, n
  <2>1. Paired(JoinInto(j1, j2), Len(JoinRows(j1, j2))) /\ Len(JoinRows(j1, j2)) \in Nat
    BY <1>1, PairsAre DEF n
  <2> QED BY <2>1 DEF e, n
<1>3. names \in Seq(STRING)
  <2>1. proj \in Seq([rel : Table, attr : STRING])
    BY DEF JoinArgs
  <2>2. \A i \in DOMAIN proj : proj[i].attr \in STRING
    <3>1. \A i \in DOMAIN proj : proj[i] \in [rel : Table, attr : STRING]
      BY <2>1, SeqElements
    <3>2. \A q \in [rel : Table, attr : STRING] : q.attr \in STRING
      OBVIOUS
    <3> QED BY <3>1, <3>2
  <2>3. DOMAIN proj = 1..Len(proj) /\ Len(proj) \in Nat
    BY <2>1, SeqElements
  <2>4. names \in [1..Len(proj) -> STRING]
    BY <2>2, <2>3
  <2> HIDE DEF names
  <2> QED BY <2>3, <2>4
<1> HIDE DEF e, n, names, both
<1>4. Unindexed(to) /\ res \in Table \cup {NoTable}
  BY DEF JoinArgs
<1>5. to # tmp
  BY <1>4, ResultName
<1>6. Keys(e, to) = {}
  <2> HIDE DEF to
  <2> QED BY <1>1, <1>2, <1>4, PairsKeys
<1>7. Selects(e, tmp, names, res, n)
  BY <1>1, <1>2, <1>3, <1>4, <1>6 DEF Selects, Paired
<1>8. Returns(e, s.d, s.ret, to, Plain(e, tmp, AllRows, res))
  <2>1. CatInv(e)
    BY <1>2 DEF Paired
  <2> QED BY <2>1, <1>7, SelectedReturns
<1>9. Plain(e, tmp, AllRows, res)
  BY <1>2, <1>5 DEF Paired, Plain, CatInv, Files
<1> HIDE DEF s, to
<1>10. /\ CatInv(s.d) /\ s.d.opened = d.opened /\ tmp \in DOMAIN s.d.relcat
       /\ NoOrphan(d, s.d) /\ NoLeftover(e, s.d)
  <2>1. NoOrphan(d, s.d)
    BY <1>2, <1>8 DEF Returns, Paired, NoOrphan
  <2> QED BY <2>1, <1>2, <1>5, <1>8, <1>9 DEF Returns, Paired
<1>11. CatInv(Destroyed(s.d, tmp))
  BY <1>10, DestroyedKeeps
<1>12. /\ Destroyed(s.d, tmp).opened = s.d.opened
       /\ Destroyed(s.d, tmp).recs =
            IF tmp \in s.d.opened THEN s.d.recs ELSE Without(s.d.recs, {tmp})
       /\ Destroyed(s.d, tmp).relcat = Without(s.d.relcat, {tmp})
  <2> DEFINE g == s.d
  <2> HIDE DEF g
  <2>1. CatInv(g)
    BY <1>10 DEF g
  <2>2. /\ Destroyed(g, tmp).opened = g.opened /\ Destroyed(g, tmp).relcat = Without(g.relcat, {tmp})
        /\ Destroyed(g, tmp).recs =
             IF tmp \in g.opened THEN g.recs ELSE Without(g.recs, {tmp})
    BY <2>1, DestroyedIs
  <2> QED BY <2>2 DEF g
<1>13. tmp \notin s.d.opened
  BY <1>10 DEF CatInv, Files
<1>14. tmp \notin DOMAIN Destroyed(s.d, tmp).recs
  BY <1>12, <1>13 DEF Without, Restrict
<1>15. NoOrphan(d, Destroyed(s.d, tmp)) /\ NoLeftover(d, Destroyed(s.d, tmp))
  <2> DEFINE h == Destroyed(s.d, tmp)
  <2>1. DOMAIN h.recs = DOMAIN s.d.recs \ {tmp} /\ DOMAIN h.relcat = DOMAIN s.d.relcat \ {tmp}
    BY <1>12, <1>13 DEF Without, Restrict
  <2> HIDE DEF h
  <2>2. NoOrphan(d, h)
    BY <2>1, <1>10 DEF NoOrphan
  <2>3. NoLeftover(d, h)
    <3>1. DOMAIN e.recs \in SUBSET (DOMAIN d.recs \cup {tmp})
      BY <1>2 DEF Paired
    <3> QED BY <3>1, <2>1, <1>10 DEF NoLeftover, Temporary
  <2> QED BY <2>2, <2>3 DEF h
<1> QED BY <1>1, <1>10, <1>11, <1>12, <1>14, <1>15

-----------------------------------------------------------------------------
(* The steps. *)

\* Between calls no relation of pairs is there.
FInv ==
  /\ CatInv(d) /\ JOIN_TMP_FILE_MARK \notin DOMAIN d.recs
  /\ bound \in Bounds

\* What a step may leave in d.
Keeps == CatInv(d') /\ JOIN_TMP_FILE_MARK \notin DOMAIN d'.recs

LEMMA TableNames ==
  ASSUME FInv, NEW r \in bound.tables
  PROVE  r \in Table /\ r \in Name /\ r # JOIN_TMP_FILE_MARK
BY NamesAssumption, BoundsAssumption DEF FInv, Name

\* What the properties of steps say of a call.
Closes == did'.ret = FEE_OK => d'.opened \subseteq d.opened
Spares == did'.ret # FEE_OK /\ did'.call.op # "DestroyTable" => KeepsRows(d, d')
Describes == did'.ret = FEE_OK \/ did'.call.op # "DestroyTable" => NoOrphan(d, d')
Tidies == did'.ret = FEE_OK => NoLeftover(d, d')
Step == Keeps /\ Closes /\ Spares /\ Describes /\ Tidies

\* The relations that are there, and open, are the same.
SameFrame(e, g) ==
  DOMAIN g.recs = DOMAIN e.recs /\ DOMAIN g.relcat = DOMAIN e.relcat /\ g.opened = e.opened

LEMMA FrameStep ==
  ASSUME FInv, CatInv(d'), SameFrame(d, d'), did'.ret = FEE_OK
  PROVE  Step
BY DEF SameFrame, NoOrphan, NoLeftover, Temporary, FInv, Step, Keeps, Closes, Spares, Describes,
       Tidies

LEMMA SameStep ==
  ASSUME FInv, d' = d
  PROVE  Step
BY DEF FInv, Step, Keeps, Closes, Spares, Describes, Tidies, KeepsRows, NoOrphan, NoLeftover

LEMMA RefusedStep ==
  ASSUME FInv, NEW call, NEW ret, Refuse(call, ret)
  PROVE  Step
BY SameStep DEF Refuse

LEMMA EmptyStep ==
  ASSUME FInv, d' = Empty, did'.ret = FEE_OK
  PROVE  Step
<1>1. Empty.recs = <<>> /\ Empty.opened = {} /\ DOMAIN <<>> = {}
  BY DEF Empty
<1>2. NoOrphan(d, Empty) /\ NoLeftover(d, Empty)
  BY <1>1 DEF NoOrphan, NoLeftover, Temporary
<1> QED BY <1>1, <1>2, InvEmpty DEF Step, Keeps, Closes, Spares, Describes, Tidies

LEMMA BecomeStep ==
  ASSUME FInv, NEW call, NEW e, NEW printed, Become(call, e, printed),
         CatInv(e), JOIN_TMP_FILE_MARK \notin DOMAIN e.recs, e.opened \subseteq d.opened,
         NoOrphan(d, e), NoLeftover(d, e)
  PROVE  Step
BY DEF Become, Did, Step, Keeps, Closes, Spares, Describes, Tidies

LEMMA LeaveOpenStep ==
  ASSUME FInv, NEW call, NEW ret, NEW rels, LeaveOpen(call, ret, rels),
         JOIN_TMP_FILE_MARK \notin rels, ret # FEE_OK
  PROVE  Step
<1> DEFINE g == Opening(d, rels)
<1>1. d' = g /\ did'.ret = ret
  BY DEF LeaveOpen, Opening, Did
<1>2. CatInv(g) /\ g.recs = d.recs /\ g.relcat = d.relcat /\ g.index = d.index
  BY OpeningIs DEF FInv
<1> HIDE DEF g
<1>3. KeepsRows(d, g)
  BY <1>2 DEF KeepsRows
<1>4. NoOrphan(d, g)
  BY <1>2 DEF NoOrphan
<1> QED BY <1>1, <1>2, <1>3, <1>4 DEF Step, Keeps, Closes, Spares, Describes, Tidies, FInv

LEMMA UtilityStep ==
  ASSUME FInv, CUtility
  PROVE  Step
<1>1. CASE DBcreate
  BY <1>1, EmptyStep DEF DBcreate, Did
<1>2. CASE DBconnect
  BY <1>2, SameStep DEF DBconnect
<1>3. CASE DBclose
  BY <1>3, SameStep DEF DBclose
<1>4. CASE DBdestroy
  BY <1>4, EmptyStep DEF DBdestroy, Did
<1>5. CASE DBrefused
  BY <1>5, SameStep DEF DBrefused, Refuse
<1>6. CASE FE_Init
  <2> DEFINE g == [d EXCEPT !.opened = {}]
  <2>1. d' = g /\ did'.ret = FEE_OK
    BY <1>6 DEF FE_Init, Did
  <2>2. CatInv(g)
    BY OpenedKeeps DEF FInv
  <2>3. g.recs = d.recs /\ g.relcat = d.relcat /\ g.opened = {}
    BY DEF FInv, CatInv, Shape
  <2> HIDE DEF g
  <2>4. NoOrphan(d, g) /\ NoLeftover(d, g)
    BY <2>3 DEF NoOrphan, NoLeftover, Temporary
  <2> QED BY <2>1, <2>2, <2>3, <2>4
             DEF Step, Keeps, Closes, Spares, Describes, Tidies, FInv
<1> QED BY <1>1, <1>2, <1>3, <1>4, <1>5, <1>6 DEF CUtility

\* A nonempty set of positions has a first one.
LEMMA LeastOf ==
  ASSUME NEW T \in SUBSET Nat, T # {}
  PROVE  \E i \in T : \A j \in T : i <= j
<1>1. PICK i \in T : \A j \in T : ~(<<j, i>> \in OpToRel(<, Nat))
  BY NatLessThanWellFounded, WFMin, Zenon
<1>2. \A j \in T : ~(j < i)
  BY <1>1 DEF OpToRel
<1>3. \A j \in T : i <= j
  BY <1>2
<1> QED BY <1>3

\* A nonempty set of positions in a table has a last one.
LEMMA GreatestOf ==
  ASSUME NEW n \in Int, NEW T \in SUBSET (0..n), T # {}
  PROVE  \E i \in T : \A j \in T : i >= j
<1> DEFINE S == {n - i : i \in T}
<1>1. S \in SUBSET Nat /\ S # {}
  <2>1. \A i \in T : n - i \in Nat
    OBVIOUS
  <2>2. \A k \in S : k \in Nat
    BY <2>1
  <2>3. PICK i \in T : TRUE
    OBVIOUS
  <2>4. n - i \in S
    BY <2>3
  <2> QED BY <2>2, <2>4
<1>2. PICK k \in S : \A l \in S : k <= l
  BY <1>1, LeastOf
<1>3. PICK i \in T : k = n - i
  BY <1>2
<1>4. \A j \in T : n - i <= n - j
  BY <1>2, <1>3
<1>5. \A j \in T : i >= j
  BY <1>4
<1> QED BY <1>5

\* The attribute that BuildIndex and DropIndex take is one of the list.
LEMMA TakenPlace ==
  ASSUME CatInv(d), NEW r \in DOMAIN d.relcat, NEW a, Has(r, a)
  PROVE  Max(Named(List(r), a)) \in 1..d.relcat[r].attrcnt
<1> DEFINE n == d.relcat[r].attrcnt
           T == Named(List(r), a)
<1>1. DOMAIN List(r) = 1..n /\ n \in Nat
  BY ListIs, SlotsNumbered DEF List
<1>2. T \in SUBSET (1..n) /\ T # {}
  BY <1>1 DEF Named, Has
<1>3. T \in SUBSET (0..n) /\ n \in Int
  BY <1>1, <1>2
<1>4. \E i \in T : \A j \in T : i >= j
  <2> HIDE DEF T, n
  <2> QED BY <1>2, <1>3, GreatestOf
<1>5. Max(T) \in T
  BY <1>4 DEF Max
<1> QED BY <1>2, <1>5

LEMMA BuildKeeps ==
  ASSUME FInv, NEW r \in bound.tables, NEW a, CBuild(r, a)
  PROVE  Step
<1> DEFINE i == Max(Named(List(r), a))
           k == <<r, List(r)[i].attrno>>
           f == Reflagged(d, r, i, TRUE, 1)
           old == IF k \in DOMAIN d.index THEN d.index[k] ELSE NewIndex
           built == Grown(old, k, d.recs[r])
           new == Grown(NewIndex, k, d.recs[r])
<1>1. /\ r \in DOMAIN d.relcat /\ Has(r, a) /\ d.attrcat[RecIds(d, r)[i]] = AttrList(d, r)[i]
      /\ ~AttrList(d, r)[i].indexed
      /\ d' = [f EXCEPT !.index = With(f.index, k, built)] /\ did'.ret = FEE_OK
  BY DEF CBuild, BuildIndex, Described, InPlace, Flagged, List, Become, Did
<1>2. CatInv(d) /\ r \in Table
  BY TableNames DEF FInv
<1>3. i \in 1..d.relcat[r].attrcnt
  BY <1>1, <1>2, TakenPlace
<1>4. k = <<r, AttrList(d, r)[i].attrno>>
  BY DEF List
<1>5. /\ f.index = d.index /\ f.recs = d.recs /\ f.opened = d.opened
      /\ DOMAIN f.relcat = DOMAIN d.relcat
  <2>1. TRUE \in BOOLEAN /\ 1 \in Int
    OBVIOUS
  <2>2. Reflags(d, f, r, RecIds(d, r)[i], TRUE, 1) /\ f.index = d.index
    <3> HIDE DEF i
    <3> QED BY <1>1, <1>2, <1>3, <2>1, ReflaggedIs
  <2> QED BY <2>2 DEF Reflags
<1> HIDE DEF i, k
<1>6. /\ k \notin DOMAIN d.index
      /\ CatInv(Reindexed(Reflagged(d, r, i, TRUE, 1), With(d.index, k, new)))
  BY <1>1, <1>2, <1>3, <1>4, BuiltKeeps
<1>7. built = new
  BY <1>6
<1> HIDE DEF built, new, f
<1>8. d' = Reindexed(f, With(d.index, k, new))
  BY <1>1, <1>5, <1>7 DEF Reindexed
<1>9. CatInv(d')
  BY <1>6, <1>8 DEF f
<1>10. d'.recs = f.recs /\ d'.opened = f.opened /\ d'.relcat = f.relcat
  <2>1. Shape(f)
    <3>1. TRUE \in BOOLEAN /\ 1 \in Int
      OBVIOUS
    <3>2. Reflags(d, f, r, RecIds(d, r)[i], TRUE, 1)
      BY <1>1, <1>2, <1>3, <3>1, ReflaggedIs DEF f
    <3> QED BY <3>2 DEF Reflags
  <2>2. PICK index : d' = Reindexed(f, index)
    BY <1>8
  <2>3. /\ Reindexed(f, index).recs = f.recs /\ Reindexed(f, index).opened = f.opened
        /\ Reindexed(f, index).relcat = f.relcat
    BY <2>1, ReindexedIs
  <2> QED BY <2>2, <2>3
<1>11. SameFrame(d, d')
  BY <1>5, <1>10 DEF SameFrame
<1> QED BY <1>1, <1>9, <1>11, FrameStep

LEMMA DropKeeps ==
  ASSUME FInv, NEW r \in bound.tables, NEW a, CDrop(r, a)
  PROVE  Step
<1> DEFINE i == Max(Named(List(r), a))
           k == <<r, List(r)[i].attrno>>
           f == Reflagged(d, r, i, FALSE, -1)
<1>1. /\ r \in DOMAIN d.relcat /\ Has(r, a) /\ d.attrcat[RecIds(d, r)[i]] = AttrList(d, r)[i]
      /\ AttrList(d, r)[i].indexed
      /\ d' = [f EXCEPT !.index = Without(f.index, {k})] /\ did'.ret = FEE_OK
  BY DEF CDrop, DropIndex, Described, InPlace, Flagged, List, Become, Did
<1>2. CatInv(d) /\ k = <<r, AttrList(d, r)[i].attrno>>
  BY DEF FInv, List
<1>3. i \in 1..d.relcat[r].attrcnt
  BY <1>1, <1>2, TakenPlace
<1>4. FALSE \in BOOLEAN /\ -1 \in Int
  OBVIOUS
<1> HIDE DEF i
<1>5. Reflags(d, f, r, RecIds(d, r)[i], FALSE, -1) /\ f.index = d.index
  BY <1>1, <1>2, <1>3, <1>4, ReflaggedIs
<1>6. CatInv(Reindexed(Reflagged(d, r, i, FALSE, -1), Without(d.index, {k})))
  <2> HIDE DEF k
  <2> QED BY <1>1, <1>2, <1>3, DroppedKeeps
<1> HIDE DEF k, f
<1>7. d' = Reindexed(f, Without(d.index, {k}))
  BY <1>1, <1>5 DEF Reindexed
<1>8. CatInv(d')
  BY <1>6, <1>7 DEF f
<1>9. Shape(f) /\ f.recs = d.recs /\ f.opened = d.opened /\ DOMAIN f.relcat = DOMAIN d.relcat
  BY <1>5 DEF Reflags
<1>10. d'.recs = f.recs /\ d'.opened = f.opened /\ d'.relcat = f.relcat
  <2>1. PICK index : d' = Reindexed(f, index)
    BY <1>7
  <2>2. /\ Reindexed(f, index).recs = f.recs /\ Reindexed(f, index).opened = f.opened
        /\ Reindexed(f, index).relcat = f.relcat
    BY <1>9, ReindexedIs
  <2> QED BY <2>1, <2>2
<1>11. SameFrame(d, d')
  BY <1>9, <1>10 DEF SameFrame
<1> QED BY <1>1, <1>8, <1>11, FrameStep

LEMMA StoredFrame ==
  ASSUME CatInv(d), NEW r, NEW rows, NEW m, TakesRows(d, r, rows, m)
  PROVE  SameFrame(d, Stored(d, r, rows))
<1> DEFINE f == Filled(d, r, rows)
           new == Without(f.recs[r], DOMAIN d.recs[r])
<1>1. Fills(d, f, r)
  BY FilledIs
<1>2. Stored(d, r, rows) = Entered(f, r, new)
  BY DEF Stored
<1> HIDE DEF f, new
<1>3. Shape(f) /\ DOMAIN f.recs = DOMAIN d.recs /\ f.opened = d.opened /\ f.relcat = d.relcat
  BY <1>1 DEF Fills
<1>4. /\ Entered(f, r, new).recs = f.recs /\ Entered(f, r, new).opened = f.opened
      /\ Entered(f, r, new).relcat = f.relcat
  <2> DEFINE index == [k \in DOMAIN f.index |->
                         IF k \in Indexes(f, r) THEN Grown(f.index[k], k, new)
                         ELSE f.index[k]]
  <2>1. Entered(f, r, new) = Reindexed(f, index)
    BY DEF Entered, Reindexed
  <2>2. Shape(f)
    BY <1>3
  <2> HIDE DEF index
  <2>3. /\ Reindexed(f, index).recs = f.recs /\ Reindexed(f, index).opened = f.opened
        /\ Reindexed(f, index).relcat = f.relcat
    BY <2>2, ReindexedIs
  <2> QED BY <2>1, <2>3
<1> QED BY <1>2, <1>3, <1>4 DEF SameFrame

LEMMA CreateStep ==
  ASSUME FInv, NEW r \in bound.tables, NEW names \in bound.schemas[r], CreateTable(r, names)
  PROVE  Step
<1> DEFINE call == [op |-> "CreateTable", rel |-> r, names |-> names]
           c == Created(d, r, names)
<1>1. names \in Seq(STRING) /\ r \in Table /\ r \in Name
  <2>1. bound.schemas \in [bound.tables -> SUBSET Seq(STRING)]
    BY BoundsAssumption DEF FInv
  <2> QED BY <2>1, TableNames
<1>2. CASE r \in DOMAIN d.recs
  <2>1. Refuse(call, FEE_HF)
    BY <1>2 DEF CreateTable, Exists
  <2> HIDE DEF call
  <2> QED BY <2>1, RefusedStep
<1>3. CASE r \notin DOMAIN d.recs
  <2>1. /\ Cardinality(DOMAIN d.attrcat) + Len(names) <= Cardinality(Slot)
        /\ Become(call, c, <<>>)
    BY <1>3 DEF CreateTable, Exists
  <2>2. RoomFor(d.attrcat, Slot, Len(names))
    BY <1>1, <2>1 DEF RoomFor
  <2>3. CatInv(c) /\ c.recs = With(d.recs, r, <<>>) /\ c.opened = d.opened /\ NoOrphan(d, c)
    <3>1. CatInv(d)
      BY DEF FInv
    <3>2. CatInv(c)
      BY <1>1, <1>3, <2>2, <3>1, CreatedKeeps
    <3>3. /\ c.recs = With(d.recs, r, <<>>) /\ c.opened = d.opened
          /\ c.relcat = With(d.relcat, r, [attrcnt |-> Len(names), indexcnt |-> 0])
      BY <3>1, CreatedIs
    <3> HIDE DEF c
    <3>4. NoOrphan(d, c)
      BY <3>3 DEF NoOrphan, With
    <3> QED BY <3>2, <3>3, <3>4
  <2> HIDE DEF call, c
  <2>4. JOIN_TMP_FILE_MARK \notin DOMAIN c.recs
    BY <2>3, TableNames DEF FInv, With
  <2>5. NoLeftover(d, c)
    BY <1>1, <2>3, NamesAssumption DEF NoLeftover, Temporary, With
  <2> QED BY <2>1, <2>3, <2>4, <2>5, BecomeStep
<1> QED BY <1>2, <1>3

LEMMA DestroyStep ==
  ASSUME FInv, NEW r, DestroyTable(r)
  PROVE  Step
<1> DEFINE g == Destroyed(d, r)
<1>1. /\ r \in DOMAIN d.relcat /\ d' = g /\ did'.call.op = "DestroyTable"
      /\ did'.ret = IF r \in d.opened THEN FEE_HF ELSE FEE_OK
  BY DEF DestroyTable, Described, Did, IsOpen
<1>2. CatInv(g)
  BY <1>1, DestroyedKeeps DEF FInv
<1>3. /\ g.opened = d.opened /\ g.relcat = Without(d.relcat, {r})
      /\ g.recs = IF r \in d.opened THEN d.recs ELSE Without(d.recs, {r})
  BY DestroyedIs DEF FInv
<1> HIDE DEF g
<1>4. DOMAIN g.recs \in SUBSET DOMAIN d.recs
  BY <1>3 DEF Without, Restrict
<1>5. r \notin d.opened => NoOrphan(d, g)
  BY <1>3 DEF Without, Restrict, NoOrphan
<1>6. Describes
  BY <1>1, <1>5 DEF Describes, FEE_HF, FEE_OK
<1>7. NoLeftover(d, g)
  BY <1>4 DEF NoLeftover, Temporary
<1> QED BY <1>1, <1>2, <1>3, <1>4, <1>6, <1>7 DEF Step, Keeps, Closes, Spares, Tidies, FInv

LEMMA PrintStep ==
  ASSUME FInv, NEW r, PrintTable(r)
  PROVE  Step
BY SameStep DEF PrintTable, Refuse, Become

LEMMA LoadStep ==
  ASSUME FInv, NEW r, NEW rows \in bound.files, LoadTable(r, rows)
  PROVE  Step
<1> DEFINE g == Stored(d, r, rows)
           call == LoadCall(r, rows)
           m == Len(rows)
<1>1. /\ r \in DOMAIN d.relcat /\ r \in DOMAIN d.recs /\ HasRoom(r, m)
      /\ Become(call, g, <<>>)
  BY DEF LoadTable, Sound, Described, Exists
<1>2. DOMAIN rows = 1..m /\ m \in Nat
  <2>1. rows \in Seq(Seq(Int))
    BY BoundsAssumption DEF FInv
  <2> QED BY <2>1, SeqElements
<1> HIDE DEF m
<1>3. TakesRows(d, r, rows, m)
  BY <1>1, <1>2 DEF TakesRows, RoomFor, HasRoom
<1>4. CatInv(g)
  BY <1>1, <1>3, StoredKeeps DEF FInv
<1>5. SameFrame(d, g)
  BY <1>3, StoredFrame DEF FInv
<1>6. d' = g /\ did'.ret = FEE_OK
  BY <1>1 DEF Become, Did
<1> HIDE DEF g
<1> QED BY <1>4, <1>5, <1>6, FrameStep

LEMMA InsertStep ==
  ASSUME FInv, NEW r, NEW values, Insert(r, values)
  PROVE  Step
<1> DEFINE rows == <<Buff(r, values)>>
           g == Stored(d, r, rows)
           call == InsertCall(r, values)
<1>1. /\ r \in DOMAIN d.relcat /\ r \in DOMAIN d.recs /\ HasRoom(r, 1)
      /\ Become(call, g, <<>>)
  BY DEF Insert, Sound, Described, Exists
<1>2. DOMAIN rows = 1..1
  <2> DEFINE b == Buff(r, values)
  <2> HIDE DEF b
  <2>1. DOMAIN <<b>> = 1..1
    OBVIOUS
  <2> QED BY <2>1 DEF b
<1> HIDE DEF rows
<1>3. TakesRows(d, r, rows, 1)
  BY <1>1, <1>2 DEF TakesRows, RoomFor, HasRoom
<1>4. CatInv(g)
  BY <1>1, <1>3, StoredKeeps DEF FInv
<1>5. SameFrame(d, g)
  BY <1>3, StoredFrame DEF FInv
<1>6. d' = g /\ did'.ret = FEE_OK
  BY <1>1 DEF Become, Did
<1> HIDE DEF g
<1> QED BY <1>4, <1>5, <1>6, FrameStep

LEMMA ErasedFrame ==
  ASSUME NEW e, CatInv(e), NEW r \in DOMAIN e.recs, NEW ids, NEW missed
  PROVE  SameFrame(e, Erased(e, r, ids, missed))
<1>1. PICK g : g = Erased(e, r, ids, missed)
  OBVIOUS
<1>2. Loses(e, g, r, ids, missed)
  BY <1>1, ErasedIs
<1>3. SameFrame(e, g)
  BY <1>2 DEF SameFrame, Loses
<1> QED BY <1>1, <1>3

LEMMA DeleteStep ==
  ASSUME FInv, NEW r, NEW sel, Delete(r, sel)
  PROVE  Step
<1> DEFINE ids == Matching(d, r, sel)
           call == DeleteCall(r, sel)
<1>7. PICK missed \in Missable(d, r, ids) : Become(call, Erased(d, r, ids, missed), <<>>)
  BY DEF Delete
<1> DEFINE g == Erased(d, r, ids, missed)
<1>1. r \in DOMAIN d.relcat /\ r \in DOMAIN d.recs /\ Become(call, g, <<>>)
  BY <1>7 DEF Delete, Sound, Described, Exists
<1>2. ids \in SUBSET DOMAIN d.recs[r]
  BY DEF Matching
<1> HIDE DEF ids
<1>3. CatInv(g)
  BY <1>1, <1>2, ErasedKeeps DEF FInv
<1>4. CatInv(d) /\ r \in DOMAIN d.recs
  BY <1>1 DEF FInv
<1>5. SameFrame(d, g)
  BY <1>4, ErasedFrame
<1>6. d' = g /\ did'.ret = FEE_OK
  BY <1>1 DEF Become, Did
<1> HIDE DEF g
<1> QED BY <1>3, <1>5, <1>6, FrameStep

\* The calls that find an error.
LEMMA ErrorStep ==
  ASSUME FInv, NEW r, r # JOIN_TMP_FILE_MARK,
         \/ LoadRefused(r)
         \/ LoadUnwritable(r)
         \/ \E a : IndexRefused(r, a)
         \/ \E values : InsertRefused(r, values) \/ InsertUnknown(r, values)
         \/ \E sel : DeleteRefused(r, sel) \/ DeleteUnknown(r, sel)
  PROVE  Step
<1>1. JOIN_TMP_FILE_MARK \notin {r}
  OBVIOUS
<1>2. CASE LoadRefused(r)
  BY <1>2, RefusedStep DEF LoadRefused
<1>3. CASE LoadUnwritable(r)
  <2>1. FEE_LOADFILEOPEN # FEE_OK
    BY DEF FEE_LOADFILEOPEN, FEE_OK
  <2>2. PICK call : LeaveOpen(call, FEE_LOADFILEOPEN, {r})
    BY <1>3 DEF LoadUnwritable
  <2> QED BY <1>1, <2>1, <2>2, LeaveOpenStep
<1>4. CASE \E a : IndexRefused(r, a)
  <2>1. PICK a : IndexRefused(r, a)
    BY <1>4
  <2>2. PICK call : Refuse(call, FEE_NONEXISTATTR)
    BY <2>1 DEF IndexRefused
  <2> QED BY <2>2, RefusedStep
<1>5. CASE \E values : InsertRefused(r, values)
  <2>1. PICK values : InsertRefused(r, values)
    BY <1>5
  <2>2. PICK call, ret : Refuse(call, ret)
    BY <2>1 DEF InsertRefused
  <2> QED BY <2>2, RefusedStep
<1>6. CASE \E values : InsertUnknown(r, values)
  <2>1. FEE_INSERT_ATTR_NAME # FEE_OK
    BY DEF FEE_INSERT_ATTR_NAME, FEE_OK
  <2>2. PICK values : InsertUnknown(r, values)
    BY <1>6
  <2>3. PICK call : LeaveOpen(call, FEE_INSERT_ATTR_NAME, {r})
    BY <2>2 DEF InsertUnknown
  <2> QED BY <1>1, <2>1, <2>3, LeaveOpenStep
<1>7. CASE \E sel : DeleteRefused(r, sel)
  <2>1. PICK sel : DeleteRefused(r, sel)
    BY <1>7
  <2>2. PICK call, ret : Refuse(call, ret)
    BY <2>1 DEF DeleteRefused
  <2> QED BY <2>2, RefusedStep
<1>8. CASE \E sel : DeleteUnknown(r, sel)
  <2>1. FEE_DELETE_ATTR_NAME # FEE_OK
    BY DEF FEE_DELETE_ATTR_NAME, FEE_OK
  <2>2. PICK sel : DeleteUnknown(r, sel)
    BY <1>8
  <2>3. PICK call : LeaveOpen(call, FEE_DELETE_ATTR_NAME, {r})
    BY <2>2 DEF DeleteUnknown
  <2> QED BY <1>1, <2>1, <2>3, LeaveOpenStep
<1> QED BY <1>2, <1>3, <1>4, <1>5, <1>6, <1>7, <1>8

LEMMA SelectStep ==
  ASSUME FInv, NEW q \in bound.selects, Unindexed(ResName(q.res)),
         Select(q.src, q.sel, q.names, q.res)
  PROVE  Step
<1> DEFINE to == ResName(q.res)
           n == Cardinality(DOMAIN d.recs[q.src])
           s == Selected(d, q.src, q.sel, q.names, q.res)
<1>1. CatInv(d) /\ JOIN_TMP_FILE_MARK \notin DOMAIN d.recs
  BY DEF FInv
<1>2. q.src \in Table /\ q.names \in Seq(STRING) /\ q.res \in Table \cup {NoTable}
  BY BoundsAssumption DEF FInv
<1>3. /\ q.src \in DOMAIN d.relcat /\ q.src \in DOMAIN d.recs
      /\ (to \in DOMAIN d.recs => Sound(to)) /\ Fits(d, to, q.names, n)
      /\ d' = s.d /\ did'.ret = s.ret
  BY DEF Select, Described, Exists, Did
<1>4. n \in Nat
  <2>1. DOMAIN d.recs[q.src] \in SUBSET RecId
    BY <1>1, <1>3 DEF CatInv, Files
  <2>2. IsFiniteSet(DOMAIN d.recs[q.src])
    BY <2>1, FilesAssumption, FS_Subset
  <2> QED BY <2>2, FS_CardinalityType
<1>5. Keys(d, to) = {}
  <2> HIDE DEF to
  <2>1. \A k \in DOMAIN d.index : k[1] # to
    BY <1>1, <1>3, UnindexedKeys DEF to
  <2> QED BY <1>1, <2>1, NoKeys
<1>6. Selects(d, q.src, q.names, q.res, n)
  BY <1>2, <1>3, <1>4, <1>5 DEF Selects
<1>7. q.src # JOIN_TMP_FILE_MARK /\ to # JOIN_TMP_FILE_MARK
  BY <1>2, ResultName, NamesAssumption
<1>8. Returns(d, s.d, s.ret, to, Plain(d, q.src, q.sel, q.res))
  <2> HIDE DEF n
  <2> QED BY <1>1, <1>6, <1>7, SelectedReturns
<1> HIDE DEF s, to, n
<1>9. /\ CatInv(s.d) /\ NoOrphan(d, s.d)
      /\ DOMAIN s.d.recs \in SUBSET (DOMAIN d.recs \cup {to})
      /\ (s.ret = FEE_OK => s.d.opened = d.opened /\ NoLeftover(d, s.d))
      /\ (s.ret # FEE_OK => KeepsRows(d, s.d))
  BY <1>8 DEF Returns
<1>10. Keeps
  BY <1>1, <1>3, <1>7, <1>9 DEF Keeps
<1>11. Closes /\ Spares /\ Describes /\ Tidies
  BY <1>3, <1>9 DEF Closes, Spares, Describes, Tidies
<1> QED BY <1>10, <1>11 DEF Step

LEMMA JoinStep ==
  ASSUME FInv, NEW q \in bound.joins, Unindexed(ResName(q.res)),
         \/ Join(q.j1, q.op, q.j2, q.proj, q.res)
         \/ JoinUnknown(q.j1, q.op, q.j2, q.proj, q.res)
  PROVE  Step
<1>1. /\ q.j1 \in [rel : Table, attr : STRING] /\ q.j2 \in [rel : Table, attr : STRING]
      /\ q.proj \in Seq([rel : Table, attr : STRING]) /\ q.res \in Table \cup {NoTable}
  BY BoundsAssumption DEF FInv
<1>2. CASE Join(q.j1, q.op, q.j2, q.proj, q.res)
  <2>1. JoinArgs(q.j1, q.j2, q.proj, q.res)
    BY <1>1 DEF JoinArgs
  <2>2. CatInv(d) /\ JOIN_TMP_FILE_MARK \notin DOMAIN d.recs
    BY DEF FInv
  <2>3. /\ CatInv(d') /\ JOIN_TMP_FILE_MARK \notin DOMAIN d'.recs
        /\ d'.opened = d.opened /\ NoOrphan(d, d') /\ NoLeftover(d, d')
    BY <1>2, <2>1, <2>2, JoinKeeps
  <2>4. did'.ret = FEE_OK
    BY <1>2 DEF Join, Become, Did
  <2> QED BY <2>3, <2>4 DEF Step, Keeps, Closes, Spares, Describes, Tidies
<1>3. CASE JoinUnknown(q.j1, q.op, q.j2, q.proj, q.res)
  <2>1. FEE_JOIN_ATTR_NAME # FEE_OK
    BY DEF FEE_JOIN_ATTR_NAME, FEE_OK
  <2>2. JOIN_TMP_FILE_MARK \notin {q.j1.rel, q.j2.rel}
    BY <1>1, NamesAssumption
  <2>3. PICK call : LeaveOpen(call, FEE_JOIN_ATTR_NAME, {q.j1.rel, q.j2.rel})
    BY <1>3 DEF JoinUnknown
  <2> QED BY <2>1, <2>2, <2>3, LeaveOpenStep
<1> QED BY <1>2, <1>3

\* Every call of the clients.
LEMMA CallStep ==
  ASSUME FInv, CCall
  PROVE  Step
<1>1. CASE CUtility
  BY <1>1, UtilityStep
<1>2. CASE CQuery
  BY <1>2, SelectStep, JoinStep DEF CQuery
<1>3. ASSUME NEW r \in bound.tables, CDefine(r)
      PROVE  Step
  <2>1. r # JOIN_TMP_FILE_MARK
    BY TableNames
  <2>2. ASSUME NEW names \in bound.schemas[r], CreateTable(r, names)
        PROVE  Step
    BY <2>2, CreateStep
  <2>3. CASE DestroyTable(r)
    BY <2>3, DestroyStep
  <2>4. CASE PrintTable(r)
    BY <2>4, PrintStep
  <2>5. ASSUME NEW a, CBuild(r, a)
        PROVE  Step
    BY <2>5, BuildKeeps
  <2>6. ASSUME NEW a, CDrop(r, a)
        PROVE  Step
    BY <2>6, DropKeeps
  <2>7. ASSUME NEW rows \in bound.files, LoadTable(r, rows)
        PROVE  Step
    BY <2>7, LoadStep
  <2>8. CASE LoadRefused(r) \/ LoadUnwritable(r) \/ \E a : IndexRefused(r, a)
    BY <2>1, <2>8, ErrorStep
  <2> QED BY <1>3, <2>2, <2>3, <2>4, <2>5, <2>6, <2>7, <2>8 DEF CDefine
<1>4. ASSUME NEW r \in bound.tables, CChange(r)
      PROVE  Step
  <2>1. r # JOIN_TMP_FILE_MARK
    BY TableNames
  <2>2. ASSUME NEW values, Insert(r, values)
        PROVE  Step
    BY <2>2, InsertStep
  <2>3. ASSUME NEW sel, Delete(r, sel)
        PROVE  Step
    BY <2>3, DeleteStep
  <2>4. CASE \/ \E values : InsertRefused(r, values) \/ InsertUnknown(r, values)
             \/ \E sel : DeleteRefused(r, sel) \/ DeleteUnknown(r, sel)
    BY <2>1, <2>4, ErrorStep
  <2> QED BY <1>4, <2>2, <2>3, <2>4 DEF CChange
<1> QED BY <1>1, <1>2, <1>3, <1>4 DEF CCall

-----------------------------------------------------------------------------
(* The theorems. *)

LEMMA InvInit ==
  ASSUME CInit
  PROVE  FInv
<1>1. d = Empty /\ bound \in Bounds
  BY DEF CInit, Init
<1>2. Empty.recs = <<>> /\ DOMAIN <<>> = {}
  BY DEF Empty
<1> QED BY <1>1, <1>2, InvEmpty DEF FInv

LEMMA InvNext ==
  ASSUME FInv, CNext
  PROVE  FInv' /\ Step
<1>1. Step /\ bound' = bound
  BY CallStep DEF CNext, Within
<1>2. FInv'
  <2>1. CatInv(d') /\ JOIN_TMP_FILE_MARK \notin DOMAIN d'.recs
    BY <1>1 DEF Step, Keeps
  <2>2. bound' \in Bounds
    BY <1>1 DEF FInv
  <2>3. d' = d' /\ CatInv(d)' = CatInv(d')
    BY DEF CatInv, Shape, Records, Catalogs, Files, IndexFiles
  <2> QED BY <2>1, <2>2, <2>3 DEF FInv
<1> QED BY <1>1, <1>2

(* The files of a database agree with one another after every call, and no  *)
(* relation of pairs is left by Join (fe.c:287-1095).                       *)
THEOREM FilesAgree == CSpec => []FInv
<1>1. CInit => FInv
  BY InvInit
<1>2. FInv /\ [CNext]_cvars => FInv'
  <2> SUFFICES ASSUME FInv, [CNext]_cvars
               PROVE  FInv'
    OBVIOUS
  <2>1. CASE CNext
    BY <2>1, InvNext
  <2>2. CASE UNCHANGED cvars
    BY <2>2 DEF cvars, FInv, CatInv, Shape, Records, Catalogs, Files, IndexFiles
  <2> QED BY <2>1, <2>2
<1> QED BY <1>1, <1>2, PTL DEF CSpec

(* The catalogs describe every relation, whatever tables are created,       *)
(* indexed, filled, queried and destroyed: _CreateTable numbers the         *)
(* attributes, BuildIndex and DropIndex count those that are indexed and    *)
(* move their records, and DestroyTable removes all of them                 *)
(* (fe.c:250-281, 334-346, 396-430, 492-526).                               *)
THEOREM CatalogsCount == CSpec => []CountsIndexes
<1>1. FInv => CountsIndexes
  BY InvCounts DEF FInv
<1> QED BY <1>1, FilesAgree, PTL

(* An index file is there exactly for the attributes that the catalog marks *)
(* (fe.c:326-331, 415-435, 511-527).                                        *)
THEOREM MarksAreIndexes == CSpec => []FlagsIndexes
<1>1. FInv => FlagsIndexes
  BY InvFlags DEF FInv
<1> QED BY <1>1, FilesAgree, PTL

(* Every index follows its table through loads, insertions, deletions and   *)
(* queries.  Each row keeps its entry whatever the deletions miss; one      *)
(* entry for every row and no other is what an index has as long as no      *)
(* value has been entered more than MaxCopies times, which is where AM      *)
(* finds every entry (fe.c:440-444, 584-590, 688-693, 784-792).             *)
THEOREM IndexesFollowRows == CSpec => []IndexesAgree
<1>1. FInv => IndexesAgree
  BY InvAgree DEF FInv
<1> QED BY <1>1, FilesAgree, PTL

(* Wherever a call returns with an error, the tables have their rows and    *)
(* their index entries, also those that the call has opened and created     *)
(* (fe.c:390-394, 569-573, 669-674, 751-755, 867-883, 889-909, 1016-1020).  *)
THEOREM ErrorsLoseNothing == CSpec => ErrorsKeepRows
<1> DEFINE A == did'.ret # FEE_OK /\ did'.call.op # "DestroyTable" =>
                  \A r \in DOMAIN d.relcat :
                    /\ r \in DOMAIN d'.relcat /\ d'.recs[r] = d.recs[r]
                    /\ \A k \in Indexes(d, r) : d'.index[k] = d.index[k]
<1>1. FInv /\ [CNext]_cvars => [A]_cvars
  <2> SUFFICES ASSUME FInv, CNext
               PROVE  A
    OBVIOUS
  <2>1. Spares
    BY InvNext DEF Step
  <2>2. \A r \in DOMAIN d.relcat : Indexes(d, r) = Keys(d, r)
    BY IndexesAreKeys DEF FInv
  <2> QED BY <2>1, <2>2 DEF Spares, KeepsRows
<1> QED BY <1>1, FilesAgree, PTL DEF CSpec, ErrorsKeepRows

(* A call that succeeds leaves no more files open than it found             *)
(* (fe.c:446-447, 598, 699, 804, 939-941, 1059-1064, 1277).                 *)
THEOREM SuccessLeavesNothingOpen == CSpec => SuccessCloses
<1> DEFINE A == did'.ret = FEE_OK => d'.opened \subseteq d.opened
<1>1. FInv /\ [CNext]_cvars => [A]_cvars
  <2> SUFFICES ASSUME FInv, CNext
               PROVE  A
    OBVIOUS
  <2> QED BY InvNext DEF Step, Closes
<1> QED BY <1>1, FilesAgree, PTL DEF CSpec, SuccessCloses

(* A call that returns FEE_OK leaves no temporary relation behind, and no   *)
(* call but a DestroyTable that fails leaves a file that no catalog knows,  *)
(* wherever it returned (fe.c:334-355, 889-909, 950-953, 1084-1094).        *)
THEOREM FilesAreDescribed == CSpec => LeftoversAreReported
<1> DEFINE A == /\ did'.ret = FEE_OK => Temporary(d') \subseteq Temporary(d)
                /\ did'.ret = FEE_OK \/ did'.call.op # "DestroyTable" =>
                     Orphans(d') \subseteq Orphans(d)
<1>1. FInv /\ [CNext]_cvars => [A]_cvars
  <2> SUFFICES ASSUME FInv, CNext
               PROVE  A
    OBVIOUS
  <2>1. Describes /\ Tidies
    BY InvNext DEF Step
  <2>2. NoLeftover(d, d') => Temporary(d') \subseteq Temporary(d)
    BY DEF NoLeftover
  <2>3. NoOrphan(d, d') => Orphans(d') \subseteq Orphans(d)
    BY DEF NoOrphan, Orphans
  <2> QED BY <2>1, <2>2, <2>3 DEF Describes, Tidies
<1> QED BY <1>1, FilesAgree, PTL DEF CSpec, LeftoversAreReported
=============================================================================
