----------------------------- MODULE BFPool_proofs ----------------------------
(***************************************************************************)
(* Lemmas about the buffer pool, for every pool size and all pages.  They  *)
(* follow the code: first the list and hash primitives, then making room,  *)
(* then one lemma per operation, which says that PoolOK, the inductive     *)
(* invariant of a pool, survives, and last what each operation does to the *)
(* frames that hold pages.                                                 *)
(***************************************************************************)
EXTENDS BFPool, SequenceTheorems, WellFoundedInduction, TLAPS

\* A nonempty set of positions has a first one.
LEMMA LeastOf ==
  ASSUME NEW T \in SUBSET Nat, T # {}
  PROVE  \E i \in T : \A j \in T : i <= j
<1>1. PICK i \in T : \A j \in T : ~(<<j, i>> \in OpToRel(<, Nat))
  BY NatLessThanWellFounded, WFMin, Zenon
<1>2. \A j \in T : ~(j < i)
  BY <1>1 DEF OpToRel
<1>3. \A j \in T : i <= j
  BY <1>2
<1> QED BY <1>3

\* Frame f is on the LRU list of p.
On(p, f) == \E i \in DOMAIN p.lru : p.lru[i] = f

\* The inductive invariant of a pool.
PoolOK(p) ==
  /\ p \in Pools
  /\ ListsDisjoint(p) /\ HashMatchesLru(p)
  /\ OneFramePerPage(p) /\ FreeFramesBlank(p)

\* What removing the i-th element of a sequence leaves.
LEMMA RemoveAtElements ==
  ASSUME NEW S, NEW s \in Seq(S), NEW i \in 1..Len(s)
  PROVE  /\ RemoveAt(s, i) \in Seq(S)
         /\ Len(RemoveAt(s, i)) = Len(s) - 1
         /\ \A j \in 1..(Len(s) - 1) :
              RemoveAt(s, i)[j] = IF j < i THEN s[j] ELSE s[j + 1]
<1> DEFINE a == SubSeq(s, 1, i - 1)
           b == SubSeq(s, i + 1, Len(s))
<1>1. a \in Seq(S) /\ Len(a) = i - 1 /\ \A j \in 1..(i - 1) : a[j] = s[j]
  OBVIOUS
<1>2. b \in Seq(S) /\ Len(b) = Len(s) - i /\ \A j \in 1..(Len(s) - i) : b[j] = s[i + j]
  OBVIOUS
<1> HIDE DEF a, b
<1>3. /\ a \o b \in Seq(S) /\ Len(a \o b) = Len(a) + Len(b)
      /\ \A j \in 1..(Len(a) + Len(b)) :
           (a \o b)[j] = IF j <= Len(a) THEN a[j] ELSE b[j - Len(a)]
  BY <1>1, <1>2, ConcatProperties
<1>4. \A j \in 1..(Len(s) - 1) : (a \o b)[j] = IF j < i THEN s[j] ELSE s[j + 1]
  BY <1>1, <1>2, <1>3
<1>5. RemoveAt(s, i) = a \o b
  BY DEF RemoveAt, a, b
<1>6. Len(a \o b) = Len(s) - 1
  BY <1>1, <1>2, <1>3
<1> QED BY <1>3, <1>4, <1>5, <1>6

\* lru_delete takes exactly its frame off the list.
LEMMA LruDeleteElements ==
  ASSUME NEW p \in Pools, ListsDisjoint(p), NEW f \in Frame, On(p, f)
  PROVE  LET q == LruDelete(p, f) IN
         /\ q \in Pools
         /\ q.free = p.free /\ q.hash = p.hash /\ q.page = p.page
         /\ \A g \in Frame : On(q, g) <=> On(p, g) /\ g # f
         /\ \A i, j \in DOMAIN q.lru : q.lru[i] = q.lru[j] => i = j
<1> DEFINE k == LruIndex(p, f)
           r == RemoveAt(p.lru, k)
           q == LruDelete(p, f)
<1>1. p.lru \in Seq(Frame) /\ DOMAIN p.lru = 1..Len(p.lru) /\ Len(p.lru) \in Nat
  BY DEF Pools
<1>2. k \in 1..Len(p.lru) /\ p.lru[k] = f
  BY <1>1 DEF On, LruIndex
<1>3. \A i \in 1..Len(p.lru) : p.lru[i] = f => i = k
  BY <1>1, <1>2 DEF ListsDisjoint
<1> HIDE DEF k
<1>4. /\ r \in Seq(Frame) /\ Len(r) = Len(p.lru) - 1
      /\ \A j \in 1..(Len(p.lru) - 1) : r[j] = IF j < k THEN p.lru[j] ELSE p.lru[j + 1]
  BY <1>1, <1>2, RemoveAtElements
<1> HIDE DEF r
<1>5. q = [p EXCEPT !.lru = r]
  BY DEF LruDelete, k, r
<1>6. /\ q \in Pools /\ q.lru = r
      /\ q.free = p.free /\ q.hash = p.hash /\ q.page = p.page
  BY <1>4, <1>5 DEF Pools
<1>7. DOMAIN q.lru = 1..(Len(p.lru) - 1)
  BY <1>4, <1>6
<1> HIDE DEF q
<1>8. ASSUME NEW g \in Frame PROVE On(q, g) <=> On(p, g) /\ g # f
  <2>1. ASSUME On(q, g) PROVE On(p, g) /\ g # f
    <3>1. PICK j \in 1..(Len(p.lru) - 1) : r[j] = g
      BY <1>6, <1>7, <2>1 DEF On
    <3>2. CASE j < k
      <4>1. j \in 1..Len(p.lru) /\ p.lru[j] = g /\ j # k
        BY <1>1, <1>2, <1>4, <3>1, <3>2
      <4> QED BY <1>1, <1>3, <4>1 DEF On
    <3>3. CASE j >= k
      <4>1. j + 1 \in 1..Len(p.lru) /\ p.lru[j + 1] = g /\ j + 1 # k
        BY <1>1, <1>2, <1>4, <3>1, <3>3
      <4> QED BY <1>1, <1>3, <4>1 DEF On
    <3> QED BY <1>1, <1>2, <3>1, <3>2, <3>3
  <2>2. ASSUME On(p, g), g # f PROVE On(q, g)
    <3>1. PICK i \in 1..Len(p.lru) : p.lru[i] = g
      BY <1>1, <2>2 DEF On
    <3>2. i # k
      BY <1>2, <2>2, <3>1
    <3>3. CASE i < k
      <4>1. i \in 1..(Len(p.lru) - 1) /\ r[i] = g
        BY <1>1, <1>2, <1>4, <3>1, <3>3
      <4> QED BY <1>6, <1>7, <4>1 DEF On
    <3>4. CASE i > k
      <4>1. i - 1 \in 1..(Len(p.lru) - 1) /\ r[i - 1] = g
        BY <1>1, <1>2, <1>4, <3>1, <3>4
      <4> QED BY <1>6, <1>7, <4>1 DEF On
    <3> QED BY <1>1, <1>2, <3>1, <3>2, <3>3, <3>4
  <2> QED BY <2>1, <2>2
<1>9. ASSUME NEW i \in DOMAIN q.lru, NEW j \in DOMAIN q.lru, q.lru[i] = q.lru[j]
      PROVE  i = j
  <2> DEFINE At(n) == IF n < k THEN n ELSE n + 1
  <2>1. At(i) \in 1..Len(p.lru) /\ At(j) \in 1..Len(p.lru)
    BY <1>1, <1>2, <1>7
  <2>2. p.lru[At(i)] = p.lru[At(j)]
    BY <1>4, <1>6, <1>7, <1>9
  <2>3. At(i) = At(j)
    BY <1>1, <2>1, <2>2 DEF ListsDisjoint
  <2> QED BY <1>1, <1>2, <1>7, <2>3
<1> QED BY <1>6, <1>8, <1>9 DEF q

\* lru_insert adds its frame to the list.
LEMMA AppendElements ==
  ASSUME NEW p \in Pools, NEW f \in Frame, ~On(p, f), NEW q \in Pools,
         \A i, j \in DOMAIN p.lru : p.lru[i] = p.lru[j] => i = j,
         q.lru = Append(p.lru, f)
  PROVE  /\ \A g \in Frame : On(q, g) <=> On(p, g) \/ g = f
         /\ \A i, j \in DOMAIN q.lru : q.lru[i] = q.lru[j] => i = j
<1>1. p.lru \in Seq(Frame) /\ DOMAIN p.lru = 1..Len(p.lru) /\ Len(p.lru) \in Nat
  BY DEF Pools
<1>2. /\ DOMAIN q.lru = 1..(Len(p.lru) + 1)
      /\ \A i \in 1..Len(p.lru) : q.lru[i] = p.lru[i]
      /\ q.lru[Len(p.lru) + 1] = f
  BY <1>1
<1>3. ASSUME NEW g \in Frame PROVE On(q, g) <=> On(p, g) \/ g = f
  <2>1. ASSUME On(q, g) PROVE On(p, g) \/ g = f
    <3>1. PICK i \in 1..(Len(p.lru) + 1) : q.lru[i] = g
      BY <1>2, <2>1 DEF On
    <3>2. i \in 1..Len(p.lru) \/ i = Len(p.lru) + 1
      BY <1>1
    <3> QED BY <1>1, <1>2, <3>1, <3>2 DEF On
  <2>2. ASSUME On(p, g) PROVE On(q, g)
    <3>1. PICK i \in 1..Len(p.lru) : p.lru[i] = g
      BY <1>1, <2>2 DEF On
    <3>2. i \in 1..(Len(p.lru) + 1)
      BY <1>1
    <3> QED BY <1>2, <3>1, <3>2 DEF On
  <2>3. On(q, f)
    <3>1. Len(p.lru) + 1 \in 1..(Len(p.lru) + 1)
      BY <1>1
    <3> QED BY <1>2, <3>1 DEF On
  <2> QED BY <2>1, <2>2, <2>3
<1>4. ASSUME NEW i \in DOMAIN q.lru, NEW j \in DOMAIN q.lru, q.lru[i] = q.lru[j]
      PROVE  i = j
  <2>1. \A k \in 1..Len(p.lru) : q.lru[k] # f
    BY <1>1, <1>2 DEF On
  <2>2. /\ i \in 1..Len(p.lru) \/ i = Len(p.lru) + 1
        /\ j \in 1..Len(p.lru) \/ j = Len(p.lru) + 1
    BY <1>1, <1>2
  <2> QED BY <1>1, <1>2, <1>4, <2>1, <2>2
<1> QED BY <1>3, <1>4

-----------------------------------------------------------------------------
(* What keeps a pool in order. *)

\* The invariant in terms of On.
LEMMA PoolOKOn ==
  ASSUME NEW p \in Pools
  PROVE  PoolOK(p) <=>
           /\ \A i, j \in DOMAIN p.free : p.free[i] = p.free[j] => i = j
           /\ \A i, j \in DOMAIN p.lru : p.lru[i] = p.lru[j] => i = j
           /\ \A i \in DOMAIN p.free : ~On(p, p.free[i])
           /\ \A f \in Frame : On(p, f) =>
                [fd |-> p.page[f].fd, page_num |-> p.page[f].page_num,
                 bpage |-> f] \in p.hash
           /\ \A e \in p.hash :
                /\ On(p, e.bpage)
                /\ e.fd = p.page[e.bpage].fd
                /\ e.page_num = p.page[e.bpage].page_num
           /\ OneFramePerPage(p)
           /\ FreeFramesBlank(p)
<1>1. \A i \in DOMAIN p.lru : p.lru[i] \in Frame
  BY DEF Pools
<1>2. (\A i \in DOMAIN p.free : ~On(p, p.free[i]))
        <=> \A i \in DOMAIN p.free, j \in DOMAIN p.lru : p.free[i] # p.lru[j]
  BY DEF On
<1>3. (\A f \in Frame : On(p, f) =>
          [fd |-> p.page[f].fd, page_num |-> p.page[f].page_num,
           bpage |-> f] \in p.hash)
        <=> \A i \in DOMAIN p.lru :
              [fd |-> p.page[p.lru[i]].fd, page_num |-> p.page[p.lru[i]].page_num,
               bpage |-> p.lru[i]] \in p.hash
  BY <1>1 DEF On
<1> QED BY <1>2, <1>3 DEF PoolOK, ListsDisjoint, HashMatchesLru, On

\* A change that moves frames within the LRU list, or changes linked pages
\* without changing their keys.
LEMMA SameFrames ==
  ASSUME NEW p, PoolOK(p), NEW q \in Pools,
         q.free = p.free, q.hash = p.hash,
         \A i, j \in DOMAIN q.lru : q.lru[i] = q.lru[j] => i = j,
         \A f \in Frame : On(q, f) <=> On(p, f),
         \A f \in Frame : On(p, f) => /\ q.page[f].fd = p.page[f].fd
                                      /\ q.page[f].page_num = p.page[f].page_num,
         \A f \in Frame : ~On(p, f) => q.page[f] = p.page[f]
  PROVE  PoolOK(q)
<1>1. p \in Pools
  BY DEF PoolOK
<1>2. \A e \in p.hash : e.bpage \in Frame
  BY <1>1 DEF Pools, HashEntries
<1>3. \A i \in DOMAIN p.free : p.free[i] \in Frame
  BY <1>1 DEF Pools
<1>4. /\ \A i, j \in DOMAIN p.free : p.free[i] = p.free[j] => i = j
      /\ \A i \in DOMAIN p.free : ~On(p, p.free[i])
      /\ \A f \in Frame : On(p, f) =>
                [fd |-> p.page[f].fd, page_num |-> p.page[f].page_num,
                 bpage |-> f] \in p.hash
      /\ \A e \in p.hash :
                /\ On(p, e.bpage)
                /\ e.fd = p.page[e.bpage].fd
                /\ e.page_num = p.page[e.bpage].page_num
      /\ OneFramePerPage(p)
      /\ FreeFramesBlank(p)
  BY <1>1, PoolOKOn
<1>5. OneFramePerPage(q)
  BY <1>4 DEF OneFramePerPage
<1>6. FreeFramesBlank(q)
  BY <1>3, <1>4 DEF FreeFramesBlank
<1>7. \A f \in Frame : On(q, f) =>
        [fd |-> q.page[f].fd, page_num |-> q.page[f].page_num, bpage |-> f] \in q.hash
  BY <1>4
<1>8. \A e \in q.hash : /\ On(q, e.bpage)
                        /\ e.fd = q.page[e.bpage].fd
                        /\ e.page_num = q.page[e.bpage].page_num
  BY <1>2, <1>4
<1>9. \A i \in DOMAIN q.free : ~On(q, q.free[i])
  BY <1>3, <1>4
<1> QED BY <1>4, <1>5, <1>6, <1>7, <1>8, <1>9, PoolOKOn

\* The frame found through the hash table is linked and holds that page.
LEMMA FoundFrame ==
  ASSUME NEW p, PoolOK(p), NEW fd, NEW n, InBuf(p, fd, n)
  PROVE  LET f == FrameOf(p, fd, n) IN
         /\ f \in Frame /\ On(p, f)
         /\ p.page[f].fd = fd /\ p.page[f].page_num = n
<1> DEFINE e == HashEntry(p, fd, n)
<1>1. e \in p.hash /\ e.fd = fd /\ e.page_num = n
  BY DEF InBuf, HashEntry, Hashed
<1>2. p \in Pools /\ HashMatchesLru(p)
  BY DEF PoolOK
<1>3. e.bpage \in Frame
  BY <1>1, <1>2 DEF Pools, HashEntries
<1> HIDE DEF e
<1>4. On(p, e.bpage) /\ p.page[e.bpage].fd = fd /\ p.page[e.bpage].page_num = n
  BY <1>1, <1>2 DEF HashMatchesLru, On
<1> QED BY <1>3, <1>4 DEF FrameOf, e

\* lru_delete then lru_insert: the same frames in another order.
LEMMA LruTouchOK ==
  ASSUME NEW p, PoolOK(p), NEW f \in Frame, On(p, f)
  PROVE  LET q == LruTouch(p, f) IN
         /\ PoolOK(q)
         /\ q.free = p.free /\ q.hash = p.hash /\ q.page = p.page
         /\ \A g \in Frame : On(q, g) <=> On(p, g)
<1> DEFINE d == LruDelete(p, f)
           q == LruTouch(p, f)
<1>1. p \in Pools /\ ListsDisjoint(p)
  BY DEF PoolOK
<1>2. /\ d \in Pools
      /\ d.free = p.free /\ d.hash = p.hash /\ d.page = p.page
      /\ \A g \in Frame : On(d, g) <=> On(p, g) /\ g # f
      /\ \A i, j \in DOMAIN d.lru : d.lru[i] = d.lru[j] => i = j
  BY <1>1, LruDeleteElements
<1>3. q = LruInsert(d, f)
  BY DEF LruTouch
<1> HIDE DEF d, q
<1>4. /\ q \in Pools /\ q.lru = Append(d.lru, f)
      /\ q.free = p.free /\ q.hash = p.hash /\ q.page = p.page
  <2>1. q = [d EXCEPT !.lru = Append(d.lru, f)]
    BY <1>3 DEF LruInsert
  <2>2. Append(d.lru, f) \in Seq(Frame)
    BY <1>2 DEF Pools
  <2> QED BY <1>2, <2>1, <2>2 DEF Pools
<1>5. /\ \A g \in Frame : On(q, g) <=> On(d, g) \/ g = f
      /\ \A i, j \in DOMAIN q.lru : q.lru[i] = q.lru[j] => i = j
  BY <1>2, <1>4, AppendElements
<1>6. \A g \in Frame : On(q, g) <=> On(p, g)
  BY <1>2, <1>5
<1>7. PoolOK(q)
  BY <1>4, <1>5, <1>6, SameFrames
<1> QED BY <1>4, <1>6, <1>7 DEF q

\* A store into the structure of a linked page that leaves its key alone.
LEMMA PageUpdateOK ==
  ASSUME NEW p, PoolOK(p), NEW f \in Frame, On(p, f),
         NEW page \in BFpage, page.fd = p.page[f].fd,
         page.page_num = p.page[f].page_num
  PROVE  LET q == [p EXCEPT !.page[f] = page] IN
         /\ PoolOK(q)
         /\ \A g \in Frame : On(q, g) <=> On(p, g)
<1> DEFINE q == [p EXCEPT !.page[f] = page]
<1>1. p \in Pools /\ ListsDisjoint(p)
  BY DEF PoolOK
<1>2. /\ q \in Pools /\ q.free = p.free /\ q.hash = p.hash /\ q.lru = p.lru
      /\ q.page = [p.page EXCEPT ![f] = page]
  BY <1>1 DEF Pools
<1> HIDE DEF q
<1>3. /\ \A i, j \in DOMAIN q.lru : q.lru[i] = q.lru[j] => i = j
      /\ \A g \in Frame : On(q, g) <=> On(p, g)
  BY <1>1, <1>2 DEF ListsDisjoint, On
<1>4. \A g \in Frame : /\ g # f => q.page[g] = p.page[g]
                       /\ g = f => q.page[g] = page
  BY <1>1, <1>2 DEF Pools
<1>5. /\ \A g \in Frame : On(p, g) => /\ q.page[g].fd = p.page[g].fd
                                      /\ q.page[g].page_num = p.page[g].page_num
      /\ \A g \in Frame : ~On(p, g) => q.page[g] = p.page[g]
  BY <1>4
<1>6. PoolOK(q)
  BY <1>2, <1>3, <1>5, SameFrames
<1> QED BY <1>3, <1>6 DEF q

\* A page leaves the pool: bf.c:226-233, 434-439.
LEMMA DiscardOK ==
  ASSUME NEW p, PoolOK(p), NEW f \in Frame, On(p, f)
  PROVE  LET q == Discard(p, f) IN
         /\ PoolOK(q)
         /\ q.free = <<f>> \o p.free
         /\ q.hash \subseteq p.hash
         /\ q.page = [p.page EXCEPT ![f] = BlankPage]
         /\ q.lru = RemoveAt(p.lru, LruIndex(p, f))
         /\ \A g \in Frame : On(q, g) <=> On(p, g) /\ g # f
<1> DEFINE h == HashDelete(p, f)
           d == LruDelete(h, f)
           q == Discard(p, f)
           e == HashEntry(p, p.page[f].fd, p.page[f].page_num)
<1>1. p \in Pools /\ ListsDisjoint(p) /\ OneFramePerPage(p) /\ FreeFramesBlank(p)
  BY DEF PoolOK
<1>2. /\ \A i, j \in DOMAIN p.free : p.free[i] = p.free[j] => i = j
      /\ \A i \in DOMAIN p.free : ~On(p, p.free[i])
      /\ \A g \in Frame : On(p, g) =>
                [fd |-> p.page[g].fd, page_num |-> p.page[g].page_num,
                 bpage |-> g] \in p.hash
      /\ \A x \in p.hash :
                /\ On(p, x.bpage)
                /\ x.fd = p.page[x.bpage].fd
                /\ x.page_num = p.page[x.bpage].page_num
  BY <1>1, PoolOKOn
<1>3. e = [fd |-> p.page[f].fd, page_num |-> p.page[f].page_num, bpage |-> f]
  <2> DEFINE k == [fd |-> p.page[f].fd, page_num |-> p.page[f].page_num, bpage |-> f]
  <2>1. k \in p.hash
    BY <1>2
  <2>2. k \in Hashed(p, p.page[f].fd, p.page[f].page_num)
    BY <2>1 DEF Hashed
  <2>3. e \in p.hash /\ e.fd = p.page[f].fd /\ e.page_num = p.page[f].page_num
    BY <2>2 DEF HashEntry, Hashed
  <2> QED BY <1>1, <2>1, <2>3 DEF OneFramePerPage
<1>4. h = [p EXCEPT !.hash = p.hash \ {e}]
  BY <1>1 DEF HashDelete, Pools
<1> HIDE DEF e, h
<1>5. /\ h \in Pools /\ h.free = p.free /\ h.lru = p.lru /\ h.page = p.page
      /\ h.hash = p.hash \ {e}
  BY <1>1, <1>4 DEF Pools
<1>6. ListsDisjoint(h) /\ \A g \in Frame : On(h, g) <=> On(p, g)
  BY <1>1, <1>5 DEF ListsDisjoint, On
<1>7. /\ d \in Pools
      /\ d.free = h.free /\ d.hash = h.hash /\ d.page = h.page
      /\ \A g \in Frame : On(d, g) <=> On(h, g) /\ g # f
      /\ \A i, j \in DOMAIN d.lru : d.lru[i] = d.lru[j] => i = j
  BY <1>5, <1>6, LruDeleteElements
<1>8. q = FreePagesReturn(d, f)
  BY DEF Discard, h
<1> HIDE DEF d, q
<1>9. BlankPage \in BFpage
  BY PoolAssumption DEF BlankPage, BFpage, Short
<1>10. /\ q \in Pools /\ q.free = <<f>> \o p.free /\ q.lru = d.lru
       /\ q.hash = p.hash \ {e} /\ q.page = [p.page EXCEPT ![f] = BlankPage]
  <2>1. q = [d EXCEPT !.free = <<f>> \o d.free, !.page = [d.page EXCEPT ![f] = BlankPage]]
    BY <1>8 DEF FreePagesReturn
  <2>2. <<f>> \o d.free \in Seq(Frame)
    BY <1>7 DEF Pools
  <2> QED BY <1>5, <1>7, <1>9, <2>1, <2>2 DEF Pools
<1>11. \A g \in Frame : On(q, g) <=> On(p, g) /\ g # f
  BY <1>6, <1>7, <1>10 DEF On
<1>11a. q.lru = RemoveAt(p.lru, LruIndex(p, f))
  <2>1. d.lru = RemoveAt(h.lru, LruIndex(h, f))
    BY <1>5 DEF d, LruDelete, Pools
  <2> QED BY <1>5, <1>10, <2>1 DEF LruIndex
<1>12. \A g \in Frame : /\ g # f => q.page[g] = p.page[g]
                        /\ g = f => q.page[g] = BlankPage
  BY <1>1, <1>10 DEF Pools
<1>13. /\ DOMAIN q.free = 1..(Len(p.free) + 1)
       /\ q.free[1] = f
       /\ \A i \in 2..(Len(p.free) + 1) :
            i - 1 \in DOMAIN p.free /\ q.free[i] = p.free[i - 1]
  BY <1>1, <1>10 DEF Pools
<1>14. Len(p.free) \in Nat /\ \A i \in DOMAIN p.free : p.free[i] \in Frame /\ p.free[i] # f
  BY <1>1, <1>2 DEF Pools
<1>15. ASSUME NEW i \in DOMAIN q.free, NEW j \in DOMAIN q.free, q.free[i] = q.free[j]
       PROVE  i = j
  <2>1. /\ i = 1 \/ i \in 2..(Len(p.free) + 1)
        /\ j = 1 \/ j \in 2..(Len(p.free) + 1)
    BY <1>13, <1>14
  <2>2. CASE i = 1
    BY <1>13, <1>14, <1>15, <2>1, <2>2
  <2>3. CASE j = 1
    BY <1>13, <1>14, <1>15, <2>1, <2>3
  <2>4. CASE i # 1 /\ j # 1
    <3>1. i - 1 = j - 1
      BY <1>2, <1>13, <1>15, <2>1, <2>4
    <3> QED BY <1>13, <1>14, <3>1
  <2> QED BY <2>2, <2>3, <2>4
<1>16. ASSUME NEW i \in DOMAIN q.free
       PROVE  ~On(q, q.free[i]) /\ q.page[q.free[i]] = BlankPage
  <2>1. i = 1 \/ i \in 2..(Len(p.free) + 1)
    BY <1>13, <1>14
  <2>2. CASE i = 1
    BY <1>11, <1>12, <1>13, <2>2
  <2>3. CASE i \in 2..(Len(p.free) + 1)
    BY <1>1, <1>2, <1>11, <1>12, <1>13, <1>14, <2>3 DEF FreeFramesBlank
  <2> QED BY <2>1, <2>2, <2>3
<1>17. OneFramePerPage(q) /\ FreeFramesBlank(q)
  BY <1>1, <1>10, <1>16 DEF OneFramePerPage, FreeFramesBlank
<1>18. \A g \in Frame : On(q, g) =>
        [fd |-> q.page[g].fd, page_num |-> q.page[g].page_num, bpage |-> g] \in q.hash
  BY <1>2, <1>3, <1>10, <1>11, <1>12
<1>19. ASSUME NEW x \in q.hash
       PROVE  On(q, x.bpage) /\ x.fd = q.page[x.bpage].fd
                             /\ x.page_num = q.page[x.bpage].page_num
  <2>1. x \in p.hash /\ x # e
    BY <1>10
  <2>2. x \in HashEntries
    BY <1>1, <2>1 DEF Pools
  <2>3. x.bpage \in Frame
    BY <2>2 DEF HashEntries
  <2>4. x.bpage # f
    BY <1>2, <1>3, <2>1, <2>2 DEF HashEntries
  <2> QED BY <1>2, <1>11, <1>12, <2>1, <2>3, <2>4
<1>20. \A i, j \in DOMAIN q.lru : q.lru[i] = q.lru[j] => i = j
  BY <1>7, <1>10
<1>21. PoolOK(q)
  BY <1>10, <1>15, <1>16, <1>17, <1>18, <1>19, <1>20, PoolOKOn
<1> QED BY <1>10, <1>11, <1>11a, <1>21 DEF q

\* evict_policy returns a linked page that nobody has pinned.
LEMMA VictimOK ==
  ASSUME NEW p \in Pools, Unpinned(p) # {}
  PROVE  Victim(p) \in Frame /\ On(p, Victim(p)) /\ p.page[Victim(p)].count = 0
<1> DEFINE i == CHOOSE i \in Unpinned(p) : \A j \in Unpinned(p) : i <= j
<1>1. Unpinned(p) \subseteq DOMAIN p.lru /\ DOMAIN p.lru \subseteq Nat
  BY DEF Unpinned, Pools
<1>2. i \in Unpinned(p)
  BY <1>1, LeastOf
<1>3. Victim(p) = p.lru[i]
  BY DEF Victim
<1> HIDE DEF i
<1> QED BY <1>1, <1>2, <1>3 DEF Unpinned, On, Pools

\* After making room a frame is free, and only an unpinned page has gone.
LEMMA MakeRoomOK ==
  ASSUME NEW p, PoolOK(p), NEW d, HasRoom(p, d)
  PROVE  LET q == MakeRoom(p) IN
         /\ PoolOK(q) /\ q.free # <<>>
         /\ q.hash \subseteq p.hash
         /\ \A g \in Frame :
              On(p, g) /\ p.page[g].count # 0 => On(q, g) /\ q.page[g] = p.page[g]
<1>1. p \in Pools
  BY DEF PoolOK
<1>2. CASE p.free # <<>>
  BY <1>2 DEF MakeRoom
<1>3. CASE p.free = <<>>
  <2> DEFINE v == Victim(p)
             q == Discard(p, v)
  <2>1. v \in Frame /\ On(p, v) /\ p.page[v].count = 0
    BY <1>1, <1>3, VictimOK DEF HasRoom
  <2>2. /\ PoolOK(q)
        /\ q.free = <<v>> \o p.free
        /\ q.hash \subseteq p.hash
        /\ q.page = [p.page EXCEPT ![v] = BlankPage]
        /\ \A g \in Frame : On(q, g) <=> On(p, g) /\ g # v
    BY <2>1, DiscardOK
  <2>3. MakeRoom(p) = q
    BY <1>3 DEF MakeRoom
  <2> HIDE DEF v, q
  <2>4. q.free # <<>>
    BY <1>3, <2>2
  <2>5. \A g \in Frame : g # v => q.page[g] = p.page[g]
    BY <1>1, <2>2 DEF Pools
  <2> QED BY <2>1, <2>2, <2>3, <2>4, <2>5
<1> QED BY <1>2, <1>3

\* The first free frame is in neither list once taken, and the rest are as
\* they were.
LEMMA TakeFree ==
  ASSUME NEW p, PoolOK(p), p.free # <<>>
  PROVE  LET f == Head(p.free) IN
         /\ f \in Frame /\ ~On(p, f) /\ p.page[f] = BlankPage
         /\ Tail(p.free) \in Seq(Frame)
         /\ \A i, j \in DOMAIN Tail(p.free) : Tail(p.free)[i] = Tail(p.free)[j] => i = j
         /\ \A i \in DOMAIN Tail(p.free) :
              /\ Tail(p.free)[i] \in Frame /\ Tail(p.free)[i] # f
              /\ ~On(p, Tail(p.free)[i])
              /\ p.page[Tail(p.free)[i]] = BlankPage
<1>1. p \in Pools
  BY DEF PoolOK
<1>2. /\ \A i, j \in DOMAIN p.free : p.free[i] = p.free[j] => i = j
      /\ \A i \in DOMAIN p.free : ~On(p, p.free[i])
      /\ \A i \in DOMAIN p.free : p.page[p.free[i]] = BlankPage
  BY <1>1, PoolOKOn DEF FreeFramesBlank
<1>3. p.free \in Seq(Frame) /\ Len(p.free) \in Nat /\ Len(p.free) # 0
  BY <1>1 DEF Pools
<1>4. /\ Tail(p.free) \in Seq(Frame)
      /\ Head(p.free) = p.free[1]
      /\ DOMAIN Tail(p.free) = 1..(Len(p.free) - 1)
      /\ \A i \in 1..(Len(p.free) - 1) : Tail(p.free)[i] = p.free[i + 1]
  BY <1>3
<1>5. /\ 1 \in DOMAIN p.free
      /\ \A i \in 1..(Len(p.free) - 1) : i + 1 \in DOMAIN p.free /\ i + 1 # 1
      /\ \A i \in DOMAIN p.free : p.free[i] \in Frame
  BY <1>3
<1>6. \A i \in DOMAIN Tail(p.free) :
        /\ Tail(p.free)[i] \in Frame /\ Tail(p.free)[i] # Head(p.free)
        /\ ~On(p, Tail(p.free)[i])
        /\ p.page[Tail(p.free)[i]] = BlankPage
  BY <1>2, <1>4, <1>5
<1>7. ASSUME NEW i \in DOMAIN Tail(p.free), NEW j \in DOMAIN Tail(p.free),
             Tail(p.free)[i] = Tail(p.free)[j]
      PROVE  i = j
  <2>1. i + 1 = j + 1
    BY <1>2, <1>4, <1>5, <1>7
  <2> QED BY <1>3, <1>4, <2>1
<1> QED BY <1>2, <1>4, <1>5, <1>6, <1>7

\* A page taken from the free list and linked under a key that was not there:
\* the common end of BF_GetBuf and BF_AllocBuf.
LEMMA LinkOK ==
  ASSUME NEW p, PoolOK(p), p.free # <<>>,
         NEW bq \in BFreq, ~InBuf(p, bq.fd, bq.pagenum),
         NEW page \in BFpage, page.fd = bq.fd, page.page_num = bq.pagenum,
         NEW q \in Pools,
         q.free = Tail(p.free),
         q.lru = Append(p.lru, Head(p.free)),
         q.hash = p.hash \cup {[fd |-> bq.fd, page_num |-> bq.pagenum,
                                bpage |-> Head(p.free)]},
         q.page = [p.page EXCEPT ![Head(p.free)] = page]
  PROVE  /\ PoolOK(q)
         /\ \A g \in Frame : On(q, g) <=> On(p, g) \/ g = Head(p.free)
<1> DEFINE f == Head(p.free)
           e == [fd |-> bq.fd, page_num |-> bq.pagenum, bpage |-> f]
<1>1. p \in Pools /\ ListsDisjoint(p) /\ OneFramePerPage(p)
  BY DEF PoolOK
<1>2. /\ f \in Frame /\ ~On(p, f)
      /\ \A i, j \in DOMAIN Tail(p.free) : Tail(p.free)[i] = Tail(p.free)[j] => i = j
      /\ \A i \in DOMAIN Tail(p.free) :
              /\ Tail(p.free)[i] \in Frame /\ Tail(p.free)[i] # f
              /\ ~On(p, Tail(p.free)[i])
              /\ p.page[Tail(p.free)[i]] = BlankPage
  BY TakeFree
<1>3. /\ \A g \in Frame : On(p, g) =>
                [fd |-> p.page[g].fd, page_num |-> p.page[g].page_num,
                 bpage |-> g] \in p.hash
      /\ \A x \in p.hash :
                /\ On(p, x.bpage)
                /\ x.fd = p.page[x.bpage].fd
                /\ x.page_num = p.page[x.bpage].page_num
  BY <1>1, PoolOKOn
<1>4. \A x \in p.hash : x.fd # bq.fd \/ x.page_num # bq.pagenum
  BY DEF InBuf, Hashed
<1>5. \A x \in p.hash : x.bpage \in Frame
  BY <1>1 DEF Pools, HashEntries
<1>6. /\ q.free = Tail(p.free) /\ q.lru = Append(p.lru, f)
      /\ q.hash = p.hash \cup {e}
      /\ q.page = [p.page EXCEPT ![f] = page]
  OBVIOUS
<1>7. e.fd = bq.fd /\ e.page_num = bq.pagenum /\ e.bpage = f
  OBVIOUS
<1>8. \A x \in p.hash : x.bpage # f
  BY <1>2, <1>3
<1> HIDE DEF f
<1>9. /\ \A g \in Frame : On(q, g) <=> On(p, g) \/ g = f
      /\ \A i, j \in DOMAIN q.lru : q.lru[i] = q.lru[j] => i = j
  BY <1>1, <1>2, <1>6, AppendElements DEF ListsDisjoint
<1>10. \A g \in Frame : /\ g # f => q.page[g] = p.page[g]
                        /\ g = f => q.page[g] = page
  BY <1>1, <1>6 DEF Pools
<1>11. \A g \in Frame : On(q, g) =>
        [fd |-> q.page[g].fd, page_num |-> q.page[g].page_num, bpage |-> g] \in q.hash
  BY <1>3, <1>6, <1>9, <1>10
<1>12. ASSUME NEW x \in q.hash
       PROVE  On(q, x.bpage) /\ x.fd = q.page[x.bpage].fd
                             /\ x.page_num = q.page[x.bpage].page_num
  <2>1. CASE x = e
    BY <1>2, <1>7, <1>9, <1>10, <2>1
  <2>2. CASE x \in p.hash
    BY <1>3, <1>5, <1>8, <1>9, <1>10, <2>2
  <2> QED BY <1>6, <2>1, <2>2
<1> HIDE DEF e
<1>13. OneFramePerPage(q)
  BY <1>1, <1>4, <1>6, <1>7 DEF OneFramePerPage
<1>14. FreeFramesBlank(q)
  BY <1>2, <1>6, <1>10 DEF FreeFramesBlank
<1>15. \A i \in DOMAIN q.free : ~On(q, q.free[i])
  BY <1>2, <1>6, <1>9
<1>16. PoolOK(q)
  <2>1. \A i, j \in DOMAIN q.free : q.free[i] = q.free[j] => i = j
    BY <1>2, <1>6
  <2>2. \A x \in q.hash : On(q, x.bpage) /\ x.fd = q.page[x.bpage].fd
                                       /\ x.page_num = q.page[x.bpage].page_num
    BY <1>12
  <2> QED BY <1>9, <1>11, <1>13, <1>14, <1>15, <2>1, <2>2, PoolOKOn
<1> QED BY <1>9, <1>16 DEF f

-----------------------------------------------------------------------------
(* The operations. *)

\* The pages somebody has pinned stay where they are between p and q.
PinnedKept(p, q) ==
  \A f \in Frame : On(p, f) /\ p.page[f].count # 0 =>
    /\ On(q, f)
    /\ q.page[f].fd = p.page[f].fd /\ q.page[f].page_num = p.page[f].page_num

\* A count stays a C short.
LEMMA CountIsShort ==
  \A c \in Short : ShortInc(c) \in Short /\ ShortDec(c) \in Short
BY PoolAssumption DEF Short, ShortInc, ShortDec

\* The count of a linked page changes.
LEMMA SetCountOK ==
  ASSUME NEW p, PoolOK(p), NEW f \in Frame, On(p, f), NEW c \in Short
  PROVE  LET q == [p EXCEPT !.page[f].count = c] IN
         PoolOK(q) /\ PinnedKept(p, q) /\ \A g \in Frame : On(q, g) <=> On(p, g)
<1> DEFINE page == [p.page[f] EXCEPT !.count = c]
           q == [p EXCEPT !.page[f] = page]
<1>1. p \in Pools /\ p.page[f] \in BFpage
  BY DEF PoolOK, Pools
<1>2. page \in BFpage /\ page.fd = p.page[f].fd /\ page.page_num = p.page[f].page_num
  BY <1>1 DEF BFpage
<1> HIDE DEF page
<1>3. PoolOK(q) /\ \A g \in Frame : On(q, g) <=> On(p, g)
  BY <1>2, PageUpdateOK
<1>4. q.page = [p.page EXCEPT ![f] = page]
  BY <1>1 DEF Pools
<1>5. [p EXCEPT !.page[f].count = c] = q
  BY <1>1 DEF page, Pools
<1> HIDE DEF q
<1>6. PinnedKept(p, q)
  BY <1>1, <1>2, <1>3, <1>4 DEF PinnedKept, Pools
<1> QED BY <1>3, <1>5, <1>6

LEMMA PinOK ==
  ASSUME NEW p, PoolOK(p), NEW f \in Frame, On(p, f)
  PROVE  /\ PoolOK(Pin(p, f)) /\ PinnedKept(p, Pin(p, f))
         /\ \A g \in Frame : On(Pin(p, f), g) <=> On(p, g)
<1>1. p.page[f].count \in Short
  BY DEF PoolOK, Pools, BFpage
<1>2. ShortInc(p.page[f].count) \in Short
  BY <1>1, CountIsShort
<1>3. Pin(p, f) = [p EXCEPT !.page[f].count = ShortInc(p.page[f].count)]
  BY DEF Pin
<1> QED BY <1>2, <1>3, SetCountOK

LEMMA UnpinOK ==
  ASSUME NEW p, PoolOK(p), NEW fd, NEW n
  PROVE  PoolOK(Unpin(p, fd, n)) /\ PinnedKept(p, Unpin(p, fd, n))
<1> DEFINE f == FrameOf(p, fd, n)
<1>1. CASE InBuf(p, fd, n) /\ p.page[f].count # 0
  <2>1. f \in Frame /\ On(p, f)
    BY <1>1, FoundFrame
  <2>2. p.page[f].count \in Short
    BY <2>1 DEF PoolOK, Pools, BFpage
  <2>3. Unpin(p, fd, n) = [p EXCEPT !.page[f].count = ShortDec(p.page[f].count)]
    BY <1>1 DEF Unpin
  <2>4. ShortDec(p.page[f].count) \in Short
    BY <2>2, CountIsShort
  <2> HIDE DEF f
  <2> QED BY <2>1, <2>3, <2>4, SetCountOK
<1>2. CASE ~(InBuf(p, fd, n) /\ p.page[f].count # 0)
  <2>1. Unpin(p, fd, n) = p
    BY <1>2 DEF Unpin
  <2> QED BY <2>1 DEF PinnedKept
<1> QED BY <1>1, <1>2

LEMMA GetHitOK ==
  ASSUME NEW p, PoolOK(p), NEW bq \in BFreq, InBuf(p, bq.fd, bq.pagenum)
  PROVE  PoolOK(GetHit(p, bq)) /\ PinnedKept(p, GetHit(p, bq))
<1> DEFINE f == FrameOf(p, bq.fd, bq.pagenum)
           t == LruTouch(p, f)
<1>1. f \in Frame /\ On(p, f)
  BY FoundFrame
<1>2. PoolOK(t) /\ t.page = p.page /\ \A g \in Frame : On(t, g) <=> On(p, g)
  BY <1>1, LruTouchOK
<1>3. GetHit(p, bq) = Pin(t, f)
  BY DEF GetHit
<1> HIDE DEF f, t
<1>4. PoolOK(Pin(t, f)) /\ PinnedKept(t, Pin(t, f))
  BY <1>1, <1>2, PinOK
<1> QED BY <1>2, <1>3, <1>4 DEF PinnedKept

LEMMA TouchOK ==
  ASSUME NEW p, PoolOK(p), NEW fd, NEW n, InBuf(p, fd, n)
  PROVE  PoolOK(Touch(p, fd, n)) /\ PinnedKept(p, Touch(p, fd, n))
<1> DEFINE f == FrameOf(p, fd, n)
           page == [p.page[f] EXCEPT !.dirty = TRUE]
           q == [p EXCEPT !.page[f] = page]
<1>1. f \in Frame /\ On(p, f)
  BY FoundFrame
<1>2. p \in Pools /\ p.page[f] \in BFpage
  BY <1>1 DEF PoolOK, Pools
<1>3. page \in BFpage /\ page.fd = p.page[f].fd /\ page.page_num = p.page[f].page_num
  BY <1>2 DEF BFpage
<1>4. Touch(p, fd, n) = LruTouch(q, f)
  BY <1>2 DEF Touch, Pools
<1> HIDE DEF f, page
<1>5. PoolOK(q) /\ \A g \in Frame : On(q, g) <=> On(p, g)
  BY <1>1, <1>3, PageUpdateOK
<1>6. q.page = [p.page EXCEPT ![f] = page]
  BY <1>2 DEF Pools
<1> HIDE DEF q
<1>7. LET t == LruTouch(q, f) IN
        PoolOK(t) /\ t.page = q.page /\ \A g \in Frame : On(t, g) <=> On(q, g)
  BY <1>1, <1>5, LruTouchOK
<1>8. PinnedKept(p, LruTouch(q, f))
  BY <1>1, <1>2, <1>3, <1>5, <1>6, <1>7 DEF PinnedKept, Pools
<1> QED BY <1>4, <1>7, <1>8

LEMMA StoreOK ==
  ASSUME NEW p, PoolOK(p), NEW f \in Frame, On(p, f), NEW v \in Data
  PROVE  LET q == [p EXCEPT !.page[f].fpage = v] IN PoolOK(q) /\ PinnedKept(p, q)
<1> DEFINE page == [p.page[f] EXCEPT !.fpage = v]
           q == [p EXCEPT !.page[f] = page]
<1>1. p \in Pools /\ p.page[f] \in BFpage
  BY DEF PoolOK, Pools
<1>2. page \in BFpage /\ page.fd = p.page[f].fd /\ page.page_num = p.page[f].page_num
  BY <1>1 DEF BFpage
<1>3. [p EXCEPT !.page[f].fpage = v] = q
  BY <1>1 DEF Pools
<1> HIDE DEF page
<1>4. PoolOK(q) /\ \A g \in Frame : On(q, g) <=> On(p, g)
  BY <1>2, PageUpdateOK
<1>5. q.page = [p.page EXCEPT ![f] = page]
  BY <1>1 DEF Pools
<1> HIDE DEF q
<1>6. PinnedKept(p, q)
  BY <1>1, <1>2, <1>4, <1>5 DEF PinnedKept, Pools
<1> QED BY <1>3, <1>4, <1>6

\* The first free frame leaves the free list and holds page.
Filled(p, page) == [p EXCEPT !.free = Tail(@), !.page[Head(p.free)] = page]

\* A free frame receives a page and is linked under it.
LEMMA NewPageOK ==
  ASSUME NEW p, PoolOK(p), p.free # <<>>,
         NEW bq \in BFreq, ~InBuf(p, bq.fd, bq.pagenum),
         NEW page \in BFpage, page.fd = bq.fd, page.page_num = bq.pagenum
  PROVE  LET f == Head(p.free)
             r == HashInsert(LruInsert(Filled(p, page), f), f)
         IN /\ PoolOK(r)
            /\ \A g \in Frame : On(r, g) <=> On(p, g) \/ g = f
            /\ r.page = [p.page EXCEPT ![f] = page]
            /\ r.free = Tail(p.free) /\ r.lru = Append(p.lru, f)
<1> DEFINE f == Head(p.free)
           a == Filled(p, page)
           l == LruInsert(a, f)
           r == HashInsert(l, f)
           e == [fd |-> bq.fd, page_num |-> bq.pagenum, bpage |-> f]
<1>1. p \in Pools
  BY DEF PoolOK
<1>2. f \in Frame /\ Tail(p.free) \in Seq(Frame)
  BY TakeFree
<1>3. bq.fd \in Fd /\ bq.pagenum \in PageNum
  BY DEF BFreq
<1>3a. a = [p EXCEPT !.free = Tail(p.free), !.page = [p.page EXCEPT ![f] = page]]
  BY <1>1 DEF Filled
<1> HIDE DEF f, a
<1>4. /\ a \in Pools /\ a.free = Tail(p.free) /\ a.lru = p.lru /\ a.hash = p.hash
      /\ a.page = [p.page EXCEPT ![f] = page]
  BY <1>1, <1>2, <1>3a DEF Pools
<1>5. l = [a EXCEPT !.lru = Append(p.lru, f)]
  BY <1>4 DEF LruInsert, Pools
<1>6. Append(p.lru, f) \in Seq(Frame)
  BY <1>1, <1>2 DEF Pools
<1> HIDE DEF l
<1>7. /\ l \in Pools /\ l.free = Tail(p.free) /\ l.lru = Append(p.lru, f)
      /\ l.hash = p.hash /\ l.page = [p.page EXCEPT ![f] = page]
  BY <1>4, <1>5, <1>6 DEF Pools
<1>8. l.page[f] = page
  BY <1>1, <1>2, <1>7 DEF Pools
<1>9. r = [l EXCEPT !.hash = l.hash \cup {e}]
  BY <1>8 DEF HashInsert
<1>10. e \in HashEntries
  BY <1>2, <1>3 DEF HashEntries
<1> HIDE DEF e, r
<1>11. /\ r \in Pools /\ r.free = Tail(p.free) /\ r.lru = Append(p.lru, f)
       /\ r.hash = p.hash \cup {e} /\ r.page = [p.page EXCEPT ![f] = page]
  BY <1>7, <1>9, <1>10 DEF Pools
<1>12. PoolOK(r) /\ \A g \in Frame : On(r, g) <=> On(p, g) \/ g = f
  BY <1>11, LinkOK DEF e, f
<1> QED BY <1>11, <1>12 DEF r, l, a, f

\* A page that is not in the pool is not there after making room either.
LEMMA StillAbsent ==
  ASSUME NEW p, NEW q, q.hash \subseteq p.hash, NEW fd, NEW n, ~InBuf(p, fd, n)
  PROVE  ~InBuf(q, fd, n)
BY DEF InBuf, Hashed

\* The page structure that BF_GetBuf and BF_AllocBuf fill in.
LEMMA AssignIsPage ==
  ASSUME NEW p, PoolOK(p), p.free # <<>>, NEW bq \in BFreq, NEW c \in Data
  PROVE  \E page \in BFpage :
           /\ page.fd = bq.fd /\ page.page_num = bq.pagenum
           /\ Assign(p, bq, c) = Filled(p, page)
<1> DEFINE f == Head(p.free)
           page == [p.page[f] EXCEPT !.fd = bq.fd, !.unix_fd = bq.unixfd,
                                     !.page_num = bq.pagenum, !.fpage = c]
<1>1. f \in Frame /\ p \in Pools
  BY TakeFree DEF PoolOK
<1>2. p.page[f] \in BFpage
  BY <1>1 DEF Pools
<1>3. bq.fd \in Fd /\ bq.pagenum \in PageNum /\ bq.unixfd \in UnixFd
  BY DEF BFreq
<1>4. page \in BFpage /\ page.fd = bq.fd /\ page.page_num = bq.pagenum
  BY <1>2, <1>3 DEF BFpage
<1>5. Assign(p, bq, c) = Filled(p, page)
  BY DEF Assign, Filled
<1> QED BY <1>4, <1>5

LEMMA GetMissOK ==
  ASSUME NEW p, PoolOK(p), NEW d, HasRoom(p, d),
         NEW bq \in BFreq, ~InBuf(p, bq.fd, bq.pagenum),
         Readable(p, d, bq) \in Data
  PROVE  PoolOK(GetMiss(p, d, bq)) /\ PinnedKept(p, GetMiss(p, d, bq))
<1> DEFINE q == MakeRoom(p)
           f == Head(q.free)
           a == Assign(q, bq, Readable(p, d, bq))
           r == HashInsert(LruInsert(a, f), f)
           t == LruTouch(r, f)
<1>1. /\ PoolOK(q) /\ q.free # <<>> /\ q.hash \subseteq p.hash
      /\ \A g \in Frame :
           On(p, g) /\ p.page[g].count # 0 => On(q, g) /\ q.page[g] = p.page[g]
  BY MakeRoomOK
<1>2. GetMiss(p, d, bq) = Pin(t, f)
  BY DEF GetMiss
<1> HIDE DEF q
<1>3. ~InBuf(q, bq.fd, bq.pagenum)
  BY <1>1, StillAbsent
<1>4. f \in Frame /\ ~On(q, f) /\ q \in Pools
  BY <1>1, TakeFree DEF PoolOK
<1>5. PICK page \in BFpage :
        /\ page.fd = bq.fd /\ page.page_num = bq.pagenum
        /\ a = Filled(q, page)
  BY <1>1, AssignIsPage
<1> HIDE DEF a
<1>6. /\ PoolOK(r) /\ \A g \in Frame : On(r, g) <=> On(q, g) \/ g = f
      /\ r.page = [q.page EXCEPT ![f] = page]
  BY <1>1, <1>3, <1>5, NewPageOK
<1> HIDE DEF r, f
<1>7. On(r, f)
  BY <1>4, <1>6
<1>8. PoolOK(t) /\ t.page = r.page /\ \A g \in Frame : On(t, g) <=> On(r, g)
  BY <1>4, <1>6, <1>7, LruTouchOK
<1> HIDE DEF t
<1>9. PoolOK(Pin(t, f)) /\ PinnedKept(t, Pin(t, f))
  BY <1>4, <1>7, <1>8, PinOK
<1>10. \A g \in Frame : On(p, g) /\ p.page[g].count # 0 =>
                          On(t, g) /\ t.page[g] = p.page[g]
  BY <1>1, <1>4, <1>6, <1>8 DEF Pools
<1> QED BY <1>2, <1>9, <1>10 DEF PinnedKept

LEMMA AllocOK ==
  ASSUME NEW p, PoolOK(p), NEW d, HasRoom(p, d),
         NEW bq \in BFreq, ~InBuf(p, bq.fd, bq.pagenum)
  PROVE  PoolOK(Alloc(p, bq)) /\ PinnedKept(p, Alloc(p, bq))
<1> DEFINE q == MakeRoom(p)
           f == Head(q.free)
           a == Assign(q, bq, q.page[f].fpage)
<1>1. /\ PoolOK(q) /\ q.free # <<>> /\ q.hash \subseteq p.hash
      /\ \A g \in Frame :
           On(p, g) /\ p.page[g].count # 0 => On(q, g) /\ q.page[g] = p.page[g]
  BY MakeRoomOK
<1>2. Alloc(p, bq) = HashInsert(LruInsert(Pin(a, f), f), f)
  BY DEF Alloc
<1> HIDE DEF q
<1>3. ~InBuf(q, bq.fd, bq.pagenum)
  BY <1>1, StillAbsent
<1>4. f \in Frame /\ ~On(q, f) /\ q \in Pools
  BY <1>1, TakeFree DEF PoolOK
<1>5. q.page[f].fpage \in Data
  BY <1>4 DEF Pools, BFpage
<1>6. PICK page \in BFpage :
        /\ page.fd = bq.fd /\ page.page_num = bq.pagenum
        /\ a = Filled(q, page)
  BY <1>1, <1>5, AssignIsPage
<1> DEFINE pinned == [page EXCEPT !.count = ShortInc(page.count)]
<1>7. /\ pinned \in BFpage
      /\ pinned.fd = bq.fd /\ pinned.page_num = bq.pagenum
  BY <1>6, CountIsShort DEF BFpage
<1>8. Pin(a, f) = Filled(q, pinned)
  <2>1. a.page = [q.page EXCEPT ![f] = page] /\ a.free = Tail(q.free)
    BY <1>4, <1>6 DEF Pools, Filled
  <2>2. a.page[f] = page
    BY <1>4, <2>1 DEF Pools
  <2>3. Pin(a, f) = [a EXCEPT !.page = [a.page EXCEPT ![f] = pinned]]
    BY <2>2 DEF Pin
  <2>4. [a.page EXCEPT ![f] = pinned] = [q.page EXCEPT ![f] = pinned]
    BY <1>4, <2>1 DEF Pools
  <2> HIDE DEF pinned, a
  <2> QED BY <1>4, <1>6, <2>3, <2>4 DEF Pools, Filled
<1> HIDE DEF pinned, a
<1>9. LET r == HashInsert(LruInsert(Pin(a, f), f), f) IN
      /\ PoolOK(r) /\ \A g \in Frame : On(r, g) <=> On(q, g) \/ g = f
      /\ r.page = [q.page EXCEPT ![f] = pinned]
  BY <1>1, <1>3, <1>7, <1>8, NewPageOK
<1>10. PinnedKept(p, Alloc(p, bq))
  BY <1>1, <1>2, <1>4, <1>9 DEF PinnedKept, Pools
<1> QED BY <1>2, <1>9, <1>10

\* The frame of a failed read is in no list: nothing else changes.
LEMMA GetUnreadOK ==
  ASSUME NEW p, PoolOK(p), NEW d, HasRoom(p, d), NEW bq \in BFreq
  PROVE  PoolOK(GetUnread(p, bq)) /\ PinnedKept(p, GetUnread(p, bq))
<1> DEFINE q == MakeRoom(p)
           f == Head(q.free)
           a == Assign(q, bq, Zero)
<1>1. /\ PoolOK(q) /\ q.free # <<>> /\ q.hash \subseteq p.hash
      /\ \A g \in Frame :
           On(p, g) /\ p.page[g].count # 0 => On(q, g) /\ q.page[g] = p.page[g]
  BY MakeRoomOK
<1>2. GetUnread(p, bq) = a
  BY DEF GetUnread
<1> HIDE DEF q
<1>3. /\ f \in Frame /\ ~On(q, f)
      /\ Tail(q.free) \in Seq(Frame)
      /\ \A i, j \in DOMAIN Tail(q.free) : Tail(q.free)[i] = Tail(q.free)[j] => i = j
      /\ \A i \in DOMAIN Tail(q.free) :
              /\ Tail(q.free)[i] \in Frame /\ Tail(q.free)[i] # f
              /\ ~On(q, Tail(q.free)[i])
              /\ q.page[Tail(q.free)[i]] = BlankPage
  BY <1>1, TakeFree
<1>4. q \in Pools
  BY <1>1 DEF PoolOK
<1>5. PICK page \in BFpage : a = Filled(q, page)
  BY <1>1, PoolAssumption, AssignIsPage
<1> HIDE DEF a
<1>6. /\ a \in Pools /\ a.free = Tail(q.free) /\ a.lru = q.lru /\ a.hash = q.hash
      /\ a.page = [q.page EXCEPT ![f] = page]
  BY <1>3, <1>4, <1>5 DEF Pools, Filled
<1> HIDE DEF f
<1>7. \A g \in Frame : /\ On(a, g) <=> On(q, g)
                       /\ g # f => a.page[g] = q.page[g]
  BY <1>3, <1>4, <1>6 DEF On, Pools
<1>8. /\ \A g \in Frame : On(q, g) =>
                [fd |-> q.page[g].fd, page_num |-> q.page[g].page_num,
                 bpage |-> g] \in q.hash
      /\ \A x \in q.hash :
                /\ On(q, x.bpage)
                /\ x.fd = q.page[x.bpage].fd
                /\ x.page_num = q.page[x.bpage].page_num
      /\ OneFramePerPage(q)
      /\ \A i, j \in DOMAIN q.lru : q.lru[i] = q.lru[j] => i = j
  BY <1>1, <1>4, PoolOKOn
<1>9. \A x \in q.hash : x.bpage \in Frame
  BY <1>4 DEF Pools, HashEntries
<1>10. \A x \in a.hash : On(a, x.bpage) /\ x.fd = a.page[x.bpage].fd
                                        /\ x.page_num = a.page[x.bpage].page_num
  BY <1>3, <1>6, <1>7, <1>8, <1>9
<1>11. \A g \in Frame : On(a, g) =>
         [fd |-> a.page[g].fd, page_num |-> a.page[g].page_num, bpage |-> g] \in a.hash
  BY <1>3, <1>6, <1>7, <1>8
<1>12. OneFramePerPage(a) /\ FreeFramesBlank(a)
  BY <1>3, <1>6, <1>7, <1>8 DEF OneFramePerPage, FreeFramesBlank
<1>13. /\ \A i, j \in DOMAIN a.free : a.free[i] = a.free[j] => i = j
       /\ \A i, j \in DOMAIN a.lru : a.lru[i] = a.lru[j] => i = j
       /\ \A i \in DOMAIN a.free : ~On(a, a.free[i])
  BY <1>3, <1>6, <1>7, <1>8
<1>14. PoolOK(a)
  BY <1>6, <1>10, <1>11, <1>12, <1>13, PoolOKOn
<1>15. PinnedKept(p, a)
  BY <1>1, <1>3, <1>7 DEF PinnedKept
<1> QED BY <1>2, <1>14, <1>15

-----------------------------------------------------------------------------
(* The frame that holds a page. *)

\* Frame f is linked and holds the page that bq asks for.
Holds(p, f, bq) ==
  /\ f \in Frame /\ On(p, f)
  /\ p.page[f].fd = bq.fd /\ p.page[f].page_num = bq.pagenum

\* The hash table leads to the one frame that holds a page.
LEMMA HoldsFound ==
  ASSUME NEW p, PoolOK(p), NEW bq, NEW f, Holds(p, f, bq)
  PROVE  InBuf(p, bq.fd, bq.pagenum) /\ FrameOf(p, bq.fd, bq.pagenum) = f
<1> DEFINE e == [fd |-> bq.fd, page_num |-> bq.pagenum, bpage |-> f]
           h == HashEntry(p, bq.fd, bq.pagenum)
<1>1. e \in p.hash
  BY PoolOKOn DEF Holds, PoolOK
<1>2. e \in Hashed(p, bq.fd, bq.pagenum)
  BY <1>1 DEF Hashed
<1>3. h \in p.hash /\ h.fd = bq.fd /\ h.page_num = bq.pagenum
  BY <1>2 DEF HashEntry, Hashed
<1>4. h = e
  BY <1>1, <1>3 DEF PoolOK, OneFramePerPage
<1> QED BY <1>2, <1>4 DEF InBuf, FrameOf

LEMMA FoundHolds ==
  ASSUME NEW p, PoolOK(p), NEW bq, InBuf(p, bq.fd, bq.pagenum)
  PROVE  Holds(p, FrameOf(p, bq.fd, bq.pagenum), bq)
BY FoundFrame DEF Holds

LEMMA OneHolds ==
  ASSUME NEW p, PoolOK(p), NEW bq, NEW f, NEW g, Holds(p, f, bq), Holds(p, g, bq)
  PROVE  f = g
BY HoldsFound

-----------------------------------------------------------------------------
(* What the operations do to the frames. *)

\* One linked frame holds another page structure.
Changed(p, q, f, page) ==
  /\ \A g \in Frame : On(q, g) <=> On(p, g)
  /\ \A g \in Frame : q.page[g] = IF g = f THEN page ELSE p.page[g]

\* A frame with an unpinned page is no longer linked.
Dropped(p, q, v) ==
  /\ v \in Frame /\ On(p, v) /\ p.page[v].count = 0
  /\ \A g \in Frame : On(q, g) <=> On(p, g) /\ g # v
  /\ \A g \in Frame : g # v => q.page[g] = p.page[g]

\* A frame that was not linked is, with a page of its own.
Linked(p, q, f, page) ==
  /\ f \in Frame /\ ~On(p, f)
  /\ \A g \in Frame : On(q, g) <=> On(p, g) \/ g = f
  /\ \A g \in Frame : q.page[g] = IF g = f THEN page ELSE p.page[g]

LEMMA HitDoes ==
  ASSUME NEW p, PoolOK(p), NEW bq \in BFreq, NEW f, Holds(p, f, bq)
  PROVE  Changed(p, GetHit(p, bq), f, [p.page[f] EXCEPT !.count = ShortInc(@)])
<1> DEFINE t == LruTouch(p, f)
<1>1. f \in Frame /\ On(p, f) /\ p \in Pools
  BY DEF Holds, PoolOK
<1>2. PoolOK(t) /\ t.page = p.page /\ \A g \in Frame : On(t, g) <=> On(p, g)
  BY <1>1, LruTouchOK
<1>3. GetHit(p, bq) = Pin(t, f)
  BY HoldsFound DEF GetHit
<1> HIDE DEF t
<1>4. t \in Pools
  BY <1>2 DEF PoolOK
<1>5. /\ Pin(t, f).lru = t.lru
      /\ Pin(t, f).page = [p.page EXCEPT ![f] = [p.page[f] EXCEPT !.count = ShortInc(@)]]
  BY <1>1, <1>2, <1>4 DEF Pin, Pools
<1>6. \A g \in Frame : On(Pin(t, f), g) <=> On(p, g)
  BY <1>2, <1>5 DEF On
<1> QED BY <1>1, <1>3, <1>5, <1>6 DEF Changed, Pools

LEMMA TouchDoes ==
  ASSUME NEW p, PoolOK(p), NEW bq \in BFreq, NEW f, Holds(p, f, bq)
  PROVE  Changed(p, Touch(p, bq.fd, bq.pagenum), f, [p.page[f] EXCEPT !.dirty = TRUE])
<1> DEFINE page == [p.page[f] EXCEPT !.dirty = TRUE]
           q == [p EXCEPT !.page[f] = page]
<1>1. f \in Frame /\ On(p, f) /\ p \in Pools /\ p.page[f] \in BFpage
  BY DEF Holds, PoolOK, Pools
<1>2. page \in BFpage /\ page.fd = p.page[f].fd /\ page.page_num = p.page[f].page_num
  BY <1>1 DEF BFpage
<1>3. Touch(p, bq.fd, bq.pagenum) = LruTouch(q, f)
  BY <1>1, HoldsFound DEF Touch, Pools
<1> HIDE DEF page
<1>4. PoolOK(q) /\ \A g \in Frame : On(q, g) <=> On(p, g)
  BY <1>1, <1>2, PageUpdateOK
<1>5. q.page = [p.page EXCEPT ![f] = page]
  BY <1>1 DEF Pools
<1> HIDE DEF q
<1>6. LET t == LruTouch(q, f) IN t.page = q.page /\ \A g \in Frame : On(t, g) <=> On(q, g)
  BY <1>1, <1>4, LruTouchOK
<1> QED BY <1>1, <1>3, <1>4, <1>5, <1>6 DEF Changed, Pools, page

LEMMA StoreDoes ==
  ASSUME NEW p, PoolOK(p), NEW f \in Frame, NEW v
  PROVE  Changed(p, [p EXCEPT !.page[f].fpage = v], f, [p.page[f] EXCEPT !.fpage = v])
BY DEF Changed, On, PoolOK, Pools

LEMMA UnpinDoes ==
  ASSUME NEW p, PoolOK(p), NEW bq \in BFreq, NEW f, Holds(p, f, bq), p.page[f].count # 0
  PROVE  Changed(p, Unpin(p, bq.fd, bq.pagenum), f, [p.page[f] EXCEPT !.count = ShortDec(@)])
<1>1. Unpin(p, bq.fd, bq.pagenum) = [p EXCEPT !.page[f].count = ShortDec(@)]
  BY HoldsFound DEF Unpin
<1> QED BY <1>1 DEF Holds, Changed, On, PoolOK, Pools

LEMMA DiscardDoes ==
  ASSUME NEW p, PoolOK(p), NEW v \in Frame, On(p, v), p.page[v].count = 0
  PROVE  Dropped(p, Discard(p, v), v)
<1> DEFINE q == Discard(p, v)
<1>1. /\ q.page = [p.page EXCEPT ![v] = BlankPage]
      /\ \A g \in Frame : On(q, g) <=> On(p, g) /\ g # v
  BY DiscardOK
<1> HIDE DEF q
<1> QED BY <1>1 DEF Dropped, PoolOK, Pools, q

\* Making room leaves the pool alone or drops the victim.
LEMMA MakeRoomDoes ==
  ASSUME NEW p, PoolOK(p), NEW d, HasRoom(p, d)
  PROVE  \/ p.free # <<>> /\ MakeRoom(p) = p
         \/ p.free = <<>> /\ Dropped(p, MakeRoom(p), Victim(p))
<1>1. CASE p.free # <<>>
  BY <1>1 DEF MakeRoom
<1>2. CASE p.free = <<>>
  <2>1. Victim(p) \in Frame /\ On(p, Victim(p)) /\ p.page[Victim(p)].count = 0
    BY <1>2, VictimOK DEF HasRoom, PoolOK
  <2>2. MakeRoom(p) = Discard(p, Victim(p))
    BY <1>2 DEF MakeRoom
  <2> QED BY <1>2, <2>1, <2>2, DiscardDoes
<1> QED BY <1>1, <1>2

\* The page structure of a new page.
NewPage(bq, contents, n) ==
  [fpage |-> contents, dirty |-> FALSE, count |-> n,
   page_num |-> bq.pagenum, fd |-> bq.fd, unix_fd |-> bq.unixfd]

LEMMA AssignedIs ==
  ASSUME NEW p, PoolOK(p), p.free # <<>>, NEW bq \in BFreq, NEW c \in Data
  PROVE  /\ NewPage(bq, c, 0) \in BFpage /\ NewPage(bq, c, 1) \in BFpage
         /\ Assign(p, bq, c) = Filled(p, NewPage(bq, c, 0))
<1>1. Head(p.free) \in Frame /\ p.page[Head(p.free)] = BlankPage /\ p \in Pools
  BY TakeFree DEF PoolOK
<1>2. bq.fd \in Fd /\ bq.pagenum \in PageNum /\ bq.unixfd \in UnixFd
  BY DEF BFreq
<1>3. NewPage(bq, c, 0) \in BFpage /\ NewPage(bq, c, 1) \in BFpage
  BY <1>2, PoolAssumption DEF NewPage, BFpage, Short
<1>4. [p.page[Head(p.free)] EXCEPT !.fd = bq.fd, !.unix_fd = bq.unixfd,
                                   !.page_num = bq.pagenum, !.fpage = c]
        = NewPage(bq, c, 0)
  <2>1. BlankPage \in BFpage
    BY PoolAssumption DEF BlankPage, BFpage, Short
  <2> DEFINE x == [BlankPage EXCEPT !.fd = bq.fd, !.unix_fd = bq.unixfd,
                                   !.page_num = bq.pagenum, !.fpage = c]
  <2>2. /\ x \in BFpage
        /\ x.fpage = c /\ x.dirty = BlankPage.dirty /\ x.count = BlankPage.count
        /\ x.page_num = bq.pagenum /\ x.fd = bq.fd /\ x.unix_fd = bq.unixfd
    BY <1>2, <2>1 DEF BFpage
  <2>3. BlankPage.dirty = FALSE /\ BlankPage.count = 0
    BY DEF BlankPage
  <2>4. /\ NewPage(bq, c, 0).fpage = c /\ NewPage(bq, c, 0).dirty = FALSE
        /\ NewPage(bq, c, 0).count = 0 /\ NewPage(bq, c, 0).page_num = bq.pagenum
        /\ NewPage(bq, c, 0).fd = bq.fd /\ NewPage(bq, c, 0).unix_fd = bq.unixfd
    BY DEF NewPage
  <2> HIDE DEF x
  <2>5. x = NewPage(bq, c, 0)
    BY <1>3, <2>2, <2>3, <2>4 DEF BFpage
  <2> QED BY <1>1, <2>5 DEF x
<1>5. Assign(p, bq, c) = Filled(p, NewPage(bq, c, 0))
  BY <1>4 DEF Assign, Filled
<1> QED BY <1>3, <1>5

\* Its first pin.
LEMMA PinnedIs ==
  ASSUME NEW bq \in BFreq, NEW c \in Data
  PROVE  [NewPage(bq, c, 0) EXCEPT !.count = ShortInc(@)] = NewPage(bq, c, 1)
<1> DEFINE page == NewPage(bq, c, 0)
           x == [page EXCEPT !.count = 1]
<1>1. bq.fd \in Fd /\ bq.pagenum \in PageNum /\ bq.unixfd \in UnixFd
  BY DEF BFreq
<1>2. page \in BFpage /\ NewPage(bq, c, 1) \in BFpage
  BY <1>1, PoolAssumption DEF NewPage, BFpage, Short
<1>3. page.count = 0 /\ ShortInc(0) = 1
  BY PoolAssumption DEF NewPage, ShortInc
<1>4. /\ NewPage(bq, c, 1).count = 1
      /\ NewPage(bq, c, 1).fpage = page.fpage /\ NewPage(bq, c, 1).dirty = page.dirty
      /\ NewPage(bq, c, 1).page_num = page.page_num
      /\ NewPage(bq, c, 1).fd = page.fd /\ NewPage(bq, c, 1).unix_fd = page.unix_fd
  BY DEF NewPage
<1> HIDE DEF page
<1>5. /\ x \in BFpage /\ x.count = 1
      /\ x.fpage = page.fpage /\ x.dirty = page.dirty
      /\ x.page_num = page.page_num /\ x.fd = page.fd /\ x.unix_fd = page.unix_fd
  BY <1>2, PoolAssumption DEF BFpage, Short
<1> HIDE DEF x
<1>6. x = NewPage(bq, c, 1)
  BY <1>2, <1>4, <1>5 DEF BFpage
<1> QED BY <1>3, <1>6 DEF x, page

LEMMA MissDoes ==
  ASSUME NEW p, PoolOK(p), NEW d, HasRoom(p, d),
         NEW bq \in BFreq, ~InBuf(p, bq.fd, bq.pagenum),
         Readable(p, d, bq) \in Data
  PROVE  LET q == MakeRoom(p)
         IN Linked(q, GetMiss(p, d, bq), Head(q.free), NewPage(bq, Readable(p, d, bq), 1))
<1> DEFINE q == MakeRoom(p)
           f == Head(q.free)
           c == Readable(p, d, bq)
           page == NewPage(bq, c, 0)
           r == HashInsert(LruInsert(Assign(q, bq, c), f), f)
           t == LruTouch(r, f)
<1>1. PoolOK(q) /\ q.free # <<>> /\ q.hash \subseteq p.hash
  BY MakeRoomOK
<1>2. GetMiss(p, d, bq) = Pin(t, f)
  BY DEF GetMiss
<1> HIDE DEF q, c
<1>3. ~InBuf(q, bq.fd, bq.pagenum)
  BY <1>1, StillAbsent
<1>4. f \in Frame /\ ~On(q, f) /\ q \in Pools
  BY <1>1, TakeFree DEF PoolOK
<1>5. page \in BFpage /\ Assign(q, bq, c) = Filled(q, page) /\ c \in Data
  BY <1>1, AssignedIs DEF c
<1>6. page.fd = bq.fd /\ page.page_num = bq.pagenum
  BY DEF NewPage
<1>7. [page EXCEPT !.count = ShortInc(@)] = NewPage(bq, c, 1)
  BY <1>5, PinnedIs
<1> HIDE DEF page
<1>8. /\ PoolOK(r) /\ \A g \in Frame : On(r, g) <=> On(q, g) \/ g = f
      /\ r.page = [q.page EXCEPT ![f] = page]
  BY <1>1, <1>3, <1>5, <1>6, NewPageOK
<1> HIDE DEF r, f
<1>9. PoolOK(t) /\ t.page = r.page /\ \A g \in Frame : On(t, g) <=> On(r, g)
  BY <1>4, <1>8, LruTouchOK
<1> HIDE DEF t
<1>10. t.page[f] = page /\ t \in Pools
  BY <1>4, <1>8, <1>9 DEF Pools, PoolOK
<1>11. /\ Pin(t, f).lru = t.lru
       /\ Pin(t, f).page = [t.page EXCEPT ![f] = NewPage(bq, c, 1)]
  BY <1>4, <1>7, <1>10 DEF Pin, Pools
<1>12. \A g \in Frame : On(Pin(t, f), g) <=> On(q, g) \/ g = f
  BY <1>8, <1>9, <1>11 DEF On
<1>13. \A g \in Frame : Pin(t, f).page[g] = IF g = f THEN NewPage(bq, c, 1) ELSE q.page[g]
  BY <1>4, <1>8, <1>9, <1>11 DEF Pools
<1>14. Linked(q, Pin(t, f), f, NewPage(bq, c, 1))
  BY <1>4, <1>12, <1>13 DEF Linked
<1> QED BY <1>2, <1>14 DEF q, f, c

LEMMA AllocDoes ==
  ASSUME NEW p, PoolOK(p), NEW d, HasRoom(p, d),
         NEW bq \in BFreq, ~InBuf(p, bq.fd, bq.pagenum)
  PROVE  LET q == MakeRoom(p)
         IN Linked(q, Alloc(p, bq), Head(q.free), NewPage(bq, Zero, 1))
<1> DEFINE q == MakeRoom(p)
           f == Head(q.free)
           a == Assign(q, bq, Zero)
           page == NewPage(bq, Zero, 1)
<1>1. PoolOK(q) /\ q.free # <<>> /\ q.hash \subseteq p.hash
  BY MakeRoomOK
<1>2. Alloc(p, bq) = HashInsert(LruInsert(Pin(Assign(q, bq, q.page[f].fpage), f), f), f)
  BY DEF Alloc
<1> HIDE DEF q
<1>3. ~InBuf(q, bq.fd, bq.pagenum)
  BY <1>1, StillAbsent
<1>4. /\ f \in Frame /\ ~On(q, f) /\ q \in Pools
      /\ q.page[f] = BlankPage /\ q.page[f].fpage = Zero
  <2>1. f \in Frame /\ ~On(q, f) /\ q \in Pools /\ q.page[f] = BlankPage
    BY <1>1, TakeFree DEF PoolOK
  <2>2. BlankPage.fpage = Zero
    BY DEF BlankPage
  <2> QED BY <2>1, <2>2
<1>5. /\ page \in BFpage /\ NewPage(bq, Zero, 0) \in BFpage
      /\ a = Filled(q, NewPage(bq, Zero, 0))
  BY <1>1, AssignedIs, PoolAssumption
<1>6. page.fd = bq.fd /\ page.page_num = bq.pagenum
  BY DEF NewPage
<1>7. [NewPage(bq, Zero, 0) EXCEPT !.count = ShortInc(@)] = page
  BY PinnedIs, PoolAssumption
<1>8. Pin(a, f) = Filled(q, page)
  <2>1. a.page = [q.page EXCEPT ![f] = NewPage(bq, Zero, 0)] /\ a.free = Tail(q.free)
    BY <1>4, <1>5 DEF Pools, Filled
  <2>2. a.page[f] = NewPage(bq, Zero, 0)
    BY <1>4, <2>1 DEF Pools
  <2>3. Pin(a, f) = [a EXCEPT !.page = [a.page EXCEPT ![f] = page]]
    BY <1>7, <2>2 DEF Pin
  <2>4. [a.page EXCEPT ![f] = page] = [q.page EXCEPT ![f] = page]
    BY <1>4, <2>1 DEF Pools
  <2> HIDE DEF page, a
  <2> QED BY <1>4, <1>5, <2>3, <2>4 DEF Pools, Filled
<1> HIDE DEF page, a
<1>9. LET r == HashInsert(LruInsert(Pin(a, f), f), f) IN
      /\ \A g \in Frame : On(r, g) <=> On(q, g) \/ g = f
      /\ r.page = [q.page EXCEPT ![f] = page]
  BY <1>1, <1>3, <1>5, <1>6, <1>8, NewPageOK
<1>10. LET r == HashInsert(LruInsert(Pin(a, f), f), f) IN Linked(q, r, f, page)
  BY <1>4, <1>9 DEF Linked, Pools
<1> QED BY <1>2, <1>4, <1>10 DEF q, f, page, a

\* A frame that is not linked takes part in nothing.
SameLinked(p, q) ==
  \A g \in Frame : /\ On(q, g) <=> On(p, g)
                   /\ On(p, g) => q.page[g] = p.page[g]

LEMMA UnreadDoes ==
  ASSUME NEW p, PoolOK(p), NEW d, HasRoom(p, d), NEW bq \in BFreq
  PROVE  SameLinked(MakeRoom(p), GetUnread(p, bq))
<1> DEFINE q == MakeRoom(p)
           f == Head(q.free)
           a == Assign(q, bq, Zero)
<1>1. PoolOK(q) /\ q.free # <<>>
  BY MakeRoomOK
<1>2. GetUnread(p, bq) = a
  BY DEF GetUnread
<1> HIDE DEF q
<1>3. f \in Frame /\ ~On(q, f) /\ q \in Pools
  BY <1>1, TakeFree DEF PoolOK
<1>4. PICK page \in BFpage : a = Filled(q, page)
  BY <1>1, PoolAssumption, AssignIsPage
<1> HIDE DEF a
<1>5. a.lru = q.lru /\ a.page = [q.page EXCEPT ![f] = page]
  BY <1>3, <1>4 DEF Pools, Filled
<1> HIDE DEF f
<1>6. SameLinked(q, a)
  BY <1>3, <1>5 DEF SameLinked, On, Pools
<1> QED BY <1>2, <1>6 DEF q

-----------------------------------------------------------------------------
(* A flush, and an empty pool. *)

\* The page that BF_FlushBuf takes next is linked, belongs to its file and is
\* not pinned.
LEMMA NextOfOK ==
  ASSUME NEW p \in Pools, NEW fd, PagesOf(p, fd) # {}, ~Fixed(p, fd)
  PROVE  LET f == NextOf(p, fd) IN
         f \in Frame /\ On(p, f) /\ p.page[f].count = 0
<1> DEFINE i == CHOOSE i \in PagesOf(p, fd) : \A j \in PagesOf(p, fd) : i <= j
<1>1. PagesOf(p, fd) \subseteq DOMAIN p.lru /\ DOMAIN p.lru \subseteq Nat
  BY DEF PagesOf, Pools
<1>2. i \in PagesOf(p, fd)
  BY <1>1, LeastOf
<1>3. NextOf(p, fd) = p.lru[i]
  BY DEF NextOf
<1> HIDE DEF i
<1> QED BY <1>1, <1>2, <1>3 DEF Fixed, On, Pools

LEMMA EmptyPoolOK == PoolOK(EmptyPool)
<1>1. BlankPage \in BFpage
  BY PoolAssumption DEF BlankPage, BFpage, Short
<1>2. [i \in Frame |-> BF_MAX_BUFS + 1 - i] \in [1..BF_MAX_BUFS -> Frame]
  BY PoolAssumption DEF Frame
<1>3. [i \in Frame |-> BF_MAX_BUFS + 1 - i] \in Seq(Frame)
  BY <1>2, PoolAssumption, SeqDef
<1>4. EmptyPool \in Pools
  BY <1>1, <1>3 DEF EmptyPool, Pools
<1>5. ListsDisjoint(EmptyPool)
  BY PoolAssumption DEF ListsDisjoint, EmptyPool, Frame
<1>6. FreeFramesBlank(EmptyPool)
  BY PoolAssumption DEF FreeFramesBlank, EmptyPool, Frame
<1>7. HashMatchesLru(EmptyPool) /\ OneFramePerPage(EmptyPool)
  BY DEF HashMatchesLru, OneFramePerPage, EmptyPool
<1> QED BY <1>4, <1>5, <1>6, <1>7 DEF PoolOK
-----------------------------------------------------------------------------
(* The disk. *)

\* Unix files with pages K, behind descriptors as in one of O.
DisksOver(O, K) == [open : O, data : [K -> Data \cup {Absent}]]

\* Writing a page opens and closes no file and leaves data in each page.
LEMMA FlushedOver ==
  ASSUME NEW O, NEW K, NEW d \in DisksOver(O, K), NEW page \in BFpage
  PROVE  Flushed(d, page) \in DisksOver(O, K) /\ Flushed(d, page).open = d.open
<1> DEFINE data(v) == [k \in DOMAIN d.data |->
                 IF k = <<d.open[page.unix_fd], page.page_num>> THEN v
                 ELSE IF k[1] = d.open[page.unix_fd] /\ k[2] < page.page_num
                         /\ d.data[k] = Absent
                 THEN Zero ELSE d.data[k]]
<1>1. /\ d.open \in O /\ d.data \in [K -> Data \cup {Absent}]
      /\ d = [open |-> d.open, data |-> d.data]
  BY DEF DisksOver
<1>2. page.fpage \in Data
  BY DEF BFpage
<1>3. data(page.fpage) \in [K -> Data \cup {Absent}]
  BY <1>1, <1>2, PoolAssumption
<1>4. PWrite(d, page.unix_fd, page.page_num, page.fpage)
        = [d EXCEPT !.data = data(page.fpage)]
  BY DEF PWrite
<1> HIDE DEF data
<1>5. /\ PWrite(d, page.unix_fd, page.page_num, page.fpage) \in DisksOver(O, K)
      /\ PWrite(d, page.unix_fd, page.page_num, page.fpage).open = d.open
  BY <1>1, <1>3, <1>4 DEF DisksOver
<1> QED BY <1>5 DEF Flushed

LEMMA RoomDiskOver ==
  ASSUME NEW O, NEW K, NEW d \in DisksOver(O, K), NEW p, PoolOK(p), HasRoom(p, d)
  PROVE  RoomDisk(p, d) \in DisksOver(O, K) /\ RoomDisk(p, d).open = d.open
<1>1. CASE p.free # <<>>
  BY <1>1 DEF RoomDisk
<1>2. CASE p.free = <<>>
  <2>1. Victim(p) \in Frame /\ p \in Pools
    BY <1>2, VictimOK DEF HasRoom, PoolOK
  <2>2. p.page[Victim(p)] \in BFpage
    BY <2>1 DEF Pools
  <2> QED BY <1>2, <2>2, FlushedOver DEF RoomDisk
<1> QED BY <1>1, <1>2
-----------------------------------------------------------------------------
(* The order of the LRU list. *)

\* Frame f comes before frame g, which was used later.
Before(p, f, g) ==
  \E i, j \in DOMAIN p.lru : i < j /\ p.lru[i] = f /\ p.lru[j] = g

\* Frame f has left the list, and the rest is in the order it was in.
Gone(p, q, f) ==
  \A a, b \in Frame : Before(q, a, b) <=> Before(p, a, b) /\ a # f /\ b # f

\* Frame f is the last of the list, and the rest is in the order it was in.
Latest(p, q, f) ==
  \A a, b \in Frame : Before(q, a, b) <=>
    IF b = f THEN On(p, a) /\ a # f ELSE a # f /\ Before(p, a, b)

LEMMA DeleteOrder ==
  ASSUME NEW p \in Pools, ListsDisjoint(p), NEW f \in Frame, On(p, f),
         NEW q, q.lru = RemoveAt(p.lru, LruIndex(p, f))
  PROVE  Gone(p, q, f)
<1> DEFINE k == LruIndex(p, f)
           n == Len(p.lru)
<1>1. p.lru \in Seq(Frame) /\ DOMAIN p.lru = 1..n /\ n \in Nat
  BY DEF Pools
<1>2. k \in 1..n /\ p.lru[k] = f
  BY <1>1 DEF On, LruIndex
<1>3. \A i \in 1..n : p.lru[i] = f => i = k
  BY <1>1, <1>2 DEF ListsDisjoint
<1> DEFINE r == RemoveAt(p.lru, k)
<1> HIDE DEF k
<1>4. /\ DOMAIN q.lru = 1..(n - 1)
      /\ \A j \in 1..(n - 1) : q.lru[j] = IF j < k THEN p.lru[j] ELSE p.lru[j + 1]
  <2>1. /\ r \in Seq(Frame) /\ Len(r) = n - 1
        /\ \A j \in 1..(n - 1) : r[j] = IF j < k THEN p.lru[j] ELSE p.lru[j + 1]
    BY <1>1, <1>2, RemoveAtElements
  <2>2. q.lru = r
    BY DEF k
  <2>3. DOMAIN r = 1..Len(r)
    BY <2>1
  <2> HIDE DEF r
  <2> QED BY <2>1, <2>2, <2>3
<1> HIDE DEF n
<1>5. ASSUME NEW a \in Frame, NEW b \in Frame, Before(q, a, b)
      PROVE  Before(p, a, b) /\ a # f /\ b # f
  <2> DEFINE At(i) == IF i < k THEN i ELSE i + 1
  <2>1. PICK i \in 1..(n - 1), j \in 1..(n - 1) : i < j /\ q.lru[i] = a /\ q.lru[j] = b
    BY <1>4, <1>5 DEF Before
  <2>2. /\ At(i) \in 1..n /\ At(j) \in 1..n /\ At(i) < At(j)
        /\ At(i) # k /\ At(j) # k
    BY <1>1, <1>2, <2>1
  <2>3. p.lru[At(i)] = a /\ p.lru[At(j)] = b
    BY <1>4, <2>1
  <2> HIDE DEF At
  <2> QED BY <1>1, <1>3, <2>2, <2>3 DEF Before
<1>6. ASSUME NEW a \in Frame, NEW b \in Frame, Before(p, a, b), a # f, b # f
      PROVE  Before(q, a, b)
  <2> DEFINE To(i) == IF i < k THEN i ELSE i - 1
  <2>1. PICK i \in 1..n, j \in 1..n : i < j /\ p.lru[i] = a /\ p.lru[j] = b
    BY <1>1, <1>6 DEF Before
  <2>2. i # k /\ j # k
    BY <1>2, <1>6, <2>1
  <2>3. To(i) \in 1..(n - 1) /\ To(j) \in 1..(n - 1) /\ To(i) < To(j)
    BY <1>1, <1>2, <2>1, <2>2
  <2>4. q.lru[To(i)] = a /\ q.lru[To(j)] = b
    <3>1. ASSUME NEW l \in 1..n, l # k, To(l) \in 1..(n - 1)
          PROVE  q.lru[To(l)] = p.lru[l]
      <4>1. CASE l < k
        BY <1>4, <3>1, <4>1
      <4>2. CASE l > k
        <5>1. ~(l - 1 < k) /\ l - 1 + 1 = l
          BY <1>1, <1>2, <3>1, <4>2
        <5> QED BY <1>1, <1>4, <3>1, <4>2, <5>1
      <4> QED BY <1>1, <1>2, <3>1, <4>1, <4>2
    <3> QED BY <2>1, <2>2, <2>3, <3>1
  <2> HIDE DEF To
  <2> QED BY <1>4, <2>3, <2>4 DEF Before
<1> QED BY <1>5, <1>6 DEF Gone

LEMMA AppendOrder ==
  ASSUME NEW p \in Pools, NEW f \in Frame, ~On(p, f), NEW q, q.lru = Append(p.lru, f)
  PROVE  Latest(p, q, f)
<1> DEFINE n == Len(p.lru)
<1>1. p.lru \in Seq(Frame) /\ DOMAIN p.lru = 1..n /\ n \in Nat
  BY DEF Pools
<1>2. /\ DOMAIN q.lru = 1..(n + 1) /\ q.lru[n + 1] = f
      /\ \A i \in 1..n : q.lru[i] = p.lru[i]
  BY <1>1
<1>3. \A i \in 1..n : p.lru[i] # f
  BY <1>1 DEF On
<1> HIDE DEF n
<1>4. ASSUME NEW a \in Frame, NEW b \in Frame, Before(q, a, b)
      PROVE  IF b = f THEN On(p, a) /\ a # f ELSE a # f /\ Before(p, a, b)
  <2>1. PICK i \in 1..(n + 1), j \in 1..(n + 1) : i < j /\ q.lru[i] = a /\ q.lru[j] = b
    BY <1>2, <1>4 DEF Before
  <2>2. i \in 1..n /\ p.lru[i] = a
    BY <1>1, <1>2, <2>1
  <2>3. b # f => j \in 1..n
    BY <1>1, <1>2, <2>1
  <2> QED BY <1>1, <1>2, <1>3, <2>1, <2>2, <2>3 DEF On, Before
<1>5. ASSUME NEW a \in Frame, On(p, a) PROVE Before(q, a, f)
  <2>1. PICK i \in 1..n : p.lru[i] = a
    BY <1>1, <1>5 DEF On
  <2>2. i \in 1..(n + 1) /\ n + 1 \in 1..(n + 1) /\ i < n + 1
    BY <1>1
  <2> QED BY <1>2, <2>1, <2>2 DEF Before
<1>6. ASSUME NEW a \in Frame, NEW b \in Frame, Before(p, a, b) PROVE Before(q, a, b)
  <2>1. 1..n \subseteq 1..(n + 1)
    BY <1>1
  <2> QED BY <1>1, <1>2, <1>6, <2>1 DEF Before
<1> QED BY <1>4, <1>5, <1>6 DEF Latest

LEMMA TouchOrder ==
  ASSUME NEW p, PoolOK(p), NEW f \in Frame, On(p, f)
  PROVE  Latest(p, LruTouch(p, f), f)
<1> DEFINE d == LruDelete(p, f)
           q == LruTouch(p, f)
<1>1. p \in Pools /\ ListsDisjoint(p)
  BY DEF PoolOK
<1>2. d \in Pools /\ \A g \in Frame : On(d, g) <=> On(p, g) /\ g # f
  BY <1>1, LruDeleteElements
<1>3. d.lru = RemoveAt(p.lru, LruIndex(p, f))
  BY <1>1 DEF LruDelete, Pools
<1>4. Gone(p, d, f)
  BY <1>1, <1>3, DeleteOrder
<1>5. q.lru = Append(d.lru, f)
  BY <1>2 DEF LruTouch, LruInsert, Pools
<1> HIDE DEF d, q
<1>6. Latest(d, q, f)
  BY <1>2, <1>5, AppendOrder
<1> QED BY <1>2, <1>4, <1>6 DEF Latest, Gone, q

LEMMA DiscardOrder ==
  ASSUME NEW p, PoolOK(p), NEW f \in Frame, On(p, f)
  PROVE  Gone(p, Discard(p, f), f)
BY DiscardOK, DeleteOrder DEF PoolOK

\* Nothing that keeps the list keeps another order.
LEMMA SameOrder ==
  ASSUME NEW p, NEW q, q.lru = p.lru
  PROVE  /\ \A f : On(q, f) <=> On(p, f)
         /\ \A f, g : Before(q, f, g) <=> Before(p, f, g)
BY DEF On, Before

LEMMA HitOrder ==
  ASSUME NEW p, PoolOK(p), NEW bq, NEW f, Holds(p, f, bq)
  PROVE  Latest(p, GetHit(p, bq), f) /\ GetHit(p, bq).free = p.free
<1> DEFINE t == LruTouch(p, f)
           q == GetHit(p, bq)
<1>1. f \in Frame /\ On(p, f)
  BY DEF Holds
<1>2. q = Pin(t, f)
  BY HoldsFound DEF GetHit
<1>3. t \in Pools /\ t.free = p.free /\ Latest(p, t, f)
  BY <1>1, LruTouchOK, TouchOrder DEF PoolOK
<1> HIDE DEF t
<1>4. q.lru = t.lru /\ q.free = t.free
  BY <1>2, <1>3 DEF Pin, Pools
<1> HIDE DEF q
<1>5. \A a, b : Before(q, a, b) <=> Before(t, a, b)
  BY <1>4, SameOrder
<1>6. Latest(p, q, f)
  BY <1>3, <1>5 DEF Latest
<1> QED BY <1>3, <1>4, <1>6 DEF q

LEMMA TouchBufOrder ==
  ASSUME NEW p, PoolOK(p), NEW bq, NEW f, Holds(p, f, bq)
  PROVE  LET q == Touch(p, bq.fd, bq.pagenum) IN Latest(p, q, f) /\ q.free = p.free
<1> DEFINE page == [p.page[f] EXCEPT !.dirty = TRUE]
           m == [p EXCEPT !.page[f] = page]
<1>1. f \in Frame /\ On(p, f) /\ p \in Pools /\ p.page[f] \in BFpage
  BY DEF Holds, PoolOK, Pools
<1>2. page \in BFpage /\ page.fd = p.page[f].fd /\ page.page_num = p.page[f].page_num
  BY <1>1 DEF BFpage
<1>3. Touch(p, bq.fd, bq.pagenum) = LruTouch(m, f)
  BY <1>1, HoldsFound DEF Touch, Pools
<1> HIDE DEF page
<1>4. PoolOK(m) /\ \A g \in Frame : On(m, g) <=> On(p, g)
  BY <1>1, <1>2, PageUpdateOK
<1>5. m.lru = p.lru /\ m.free = p.free
  BY <1>1 DEF Pools
<1> HIDE DEF m
<1>6. LruTouch(m, f).free = m.free /\ Latest(m, LruTouch(m, f), f)
  BY <1>1, <1>4, LruTouchOK, TouchOrder
<1>7. \A a, b : Before(m, a, b) <=> Before(p, a, b)
  BY <1>5, SameOrder
<1>8. Latest(p, LruTouch(m, f), f)
  BY <1>4, <1>6, <1>7 DEF Latest
<1> QED BY <1>3, <1>5, <1>6, <1>8

\* A new page is the last of the list that making room left.
LEMMA MissOrder ==
  ASSUME NEW p, PoolOK(p), NEW d, HasRoom(p, d),
         NEW bq \in BFreq, ~InBuf(p, bq.fd, bq.pagenum), Readable(p, d, bq) \in Data
  PROVE  LET q == MakeRoom(p)
             r == GetMiss(p, d, bq)
         IN Latest(q, r, Head(q.free)) /\ r.free = Tail(q.free)
<1> DEFINE q == MakeRoom(p)
           f == Head(q.free)
           c == Readable(p, d, bq)
           page == NewPage(bq, c, 0)
           r == HashInsert(LruInsert(Assign(q, bq, c), f), f)
           t == LruTouch(r, f)
<1>1. PoolOK(q) /\ q.free # <<>> /\ q.hash \subseteq p.hash
  BY MakeRoomOK
<1>2. GetMiss(p, d, bq) = Pin(t, f)
  BY DEF GetMiss
<1> HIDE DEF q, c
<1>3. ~InBuf(q, bq.fd, bq.pagenum)
  BY <1>1, StillAbsent
<1>4. f \in Frame /\ ~On(q, f) /\ q \in Pools
  BY <1>1, TakeFree DEF PoolOK
<1>5. page \in BFpage /\ Assign(q, bq, c) = Filled(q, page)
  BY <1>1, AssignedIs DEF c
<1>6. page.fd = bq.fd /\ page.page_num = bq.pagenum
  BY DEF NewPage
<1> HIDE DEF page
<1>7. /\ PoolOK(r) /\ \A g \in Frame : On(r, g) <=> On(q, g) \/ g = f
      /\ r.free = Tail(q.free) /\ r.lru = Append(q.lru, f)
  <2>1. LET b == HashInsert(LruInsert(Filled(q, page), f), f) IN
        /\ PoolOK(b) /\ \A g \in Frame : On(b, g) <=> On(q, g) \/ g = f
        /\ b.free = Tail(q.free) /\ b.lru = Append(q.lru, f)
    <3>1. page \in BFpage
      BY <1>5
    <3> HIDE DEF r, t
    <3>2. PoolOK(HashInsert(LruInsert(Filled(q, page), f), f))
      BY <1>1, <1>3, <1>6, <3>1, NewPageOK
    <3>3. \A g \in Frame : On(HashInsert(LruInsert(Filled(q, page), f), f), g) <=> On(q, g) \/ g = f
      BY <1>1, <1>3, <1>6, <3>1, NewPageOK
    <3>4. HashInsert(LruInsert(Filled(q, page), f), f).free = Tail(q.free)
      BY <1>1, <1>3, <1>6, <3>1, NewPageOK
    <3>5. HashInsert(LruInsert(Filled(q, page), f), f).lru = Append(q.lru, f)
      BY <1>1, <1>3, <1>6, <3>1, NewPageOK
    <3> QED BY <3>2, <3>3, <3>4, <3>5
  <2>2. r = HashInsert(LruInsert(Filled(q, page), f), f)
    BY <1>5
  <2> HIDE DEF r
  <2> QED BY <2>1, <2>2
<1> HIDE DEF r, f
<1>8. Latest(q, r, f)
  BY <1>4, <1>7, AppendOrder
<1>9. t \in Pools /\ t.free = r.free /\ Latest(r, t, f)
  BY <1>4, <1>7, LruTouchOK, TouchOrder DEF PoolOK
<1> HIDE DEF t
<1>10. Pin(t, f).lru = t.lru /\ Pin(t, f).free = t.free
  BY <1>9 DEF Pin, Pools
<1>11. \A a, b : Before(Pin(t, f), a, b) <=> Before(t, a, b)
  BY <1>10, SameOrder
<1>12. Latest(q, Pin(t, f), f)
  BY <1>4, <1>7, <1>8, <1>9, <1>11 DEF Latest
<1> QED BY <1>2, <1>7, <1>9, <1>10, <1>12 DEF q, f

LEMMA AllocOrder ==
  ASSUME NEW p, PoolOK(p), NEW d, HasRoom(p, d),
         NEW bq \in BFreq, ~InBuf(p, bq.fd, bq.pagenum)
  PROVE  LET q == MakeRoom(p)
             r == Alloc(p, bq)
         IN Latest(q, r, Head(q.free)) /\ r.free = Tail(q.free)
<1> DEFINE q == MakeRoom(p)
           f == Head(q.free)
           a == Assign(q, bq, q.page[f].fpage)
           r == HashInsert(LruInsert(Pin(a, f), f), f)
<1>1. PoolOK(q) /\ q.free # <<>> /\ q.hash \subseteq p.hash
  BY MakeRoomOK
<1>2. Alloc(p, bq) = r
  BY DEF Alloc
<1> HIDE DEF q
<1>3. f \in Frame /\ ~On(q, f) /\ q \in Pools
  BY <1>1, TakeFree DEF PoolOK
<1>4. q.page[f].fpage \in Data
  BY <1>3 DEF Pools, BFpage
<1>5. PICK page \in BFpage : a = Filled(q, page)
  BY <1>1, <1>4, AssignIsPage
<1> HIDE DEF a, f
<1>6. a.free = Tail(q.free) /\ a.lru = q.lru
  BY <1>3, <1>5 DEF Pools, Filled
<1>7. a.page \in [Frame -> BFpage]
  BY <1>3, <1>5 DEF Pools, Filled, f
<1>8. r.free = Tail(q.free) /\ r.lru = Append(q.lru, f)
  <2>1. Pin(a, f).free = a.free /\ Pin(a, f).lru = a.lru
    BY <1>3, <1>5 DEF Pin, Pools, Filled
  <2> QED BY <1>3, <1>5, <1>6, <2>1 DEF HashInsert, LruInsert, Pin, Pools, Filled
<1>9. Latest(q, r, f)
  BY <1>3, <1>8, AppendOrder
<1> QED BY <1>2, <1>8, <1>9 DEF q, f

-----------------------------------------------------------------------------
(* The frames there are. *)

\* Frame f is on the free list of p.
Free(p, f) == \E i \in DOMAIN p.free : p.free[i] = f

\* Every frame is on one of the lists.
FramesKept(p) == \A f \in Frame : Free(p, f) \/ On(p, f)

LEMMA DiscardKeeps ==
  ASSUME NEW p, PoolOK(p), NEW f \in Frame, On(p, f), FramesKept(p)
  PROVE  FramesKept(Discard(p, f))
<1> DEFINE q == Discard(p, f)
<1>1. /\ q.free = <<f>> \o p.free
      /\ \A g \in Frame : On(q, g) <=> On(p, g) /\ g # f
  BY DiscardOK
<1>2. p.free \in Seq(Frame)
  BY DEF PoolOK, Pools
<1>3. /\ DOMAIN q.free = 1..(Len(p.free) + 1) /\ q.free[1] = f
      /\ \A i \in 1..Len(p.free) : q.free[i + 1] = p.free[i]
  BY <1>1, <1>2
<1> HIDE DEF q
<1>4. Free(q, f)
  <2>1. 1 \in 1..(Len(p.free) + 1)
    BY <1>2
  <2> QED BY <1>3, <2>1 DEF Free
<1>5. ASSUME NEW g \in Frame, Free(p, g) PROVE Free(q, g)
  <2>1. PICK i \in 1..Len(p.free) : p.free[i] = g
    BY <1>2, <1>5 DEF Free
  <2>2. i + 1 \in 1..(Len(p.free) + 1)
    BY <1>2
  <2> QED BY <1>3, <2>1, <2>2 DEF Free
<1> QED BY <1>1, <1>4, <1>5 DEF FramesKept, q

LEMMA RoomKeeps ==
  ASSUME NEW p, PoolOK(p), NEW d, HasRoom(p, d), FramesKept(p)
  PROVE  FramesKept(MakeRoom(p))
<1>1. CASE p.free # <<>>
  BY <1>1 DEF MakeRoom
<1>2. CASE p.free = <<>>
  <2>1. Victim(p) \in Frame /\ On(p, Victim(p))
    BY <1>2, VictimOK DEF HasRoom, PoolOK
  <2> QED BY <1>2, <2>1, DiscardKeeps DEF MakeRoom
<1> QED BY <1>1, <1>2

\* A frame that leaves the free list is linked.
LEMMA LinkedKeeps ==
  ASSUME NEW p, PoolOK(p), p.free # <<>>, FramesKept(p), NEW q, NEW page,
         Linked(p, q, Head(p.free), page), q.free = Tail(p.free)
  PROVE  FramesKept(q)
<1>1. p.free \in Seq(Frame)
  BY DEF PoolOK, Pools
<1>2. /\ Head(p.free) = p.free[1]
      /\ DOMAIN q.free = 1..(Len(p.free) - 1) /\ Len(p.free) \in Nat
      /\ \A i \in 1..(Len(p.free) - 1) : q.free[i] = p.free[i + 1]
  BY <1>1
<1>3. ASSUME NEW g \in Frame, Free(p, g), g # Head(p.free) PROVE Free(q, g)
  <2>1. PICK i \in 1..Len(p.free) : p.free[i] = g
    BY <1>1, <1>3 DEF Free
  <2>2. i - 1 \in 1..(Len(p.free) - 1) /\ i - 1 + 1 = i
    BY <1>2, <1>3, <2>1
  <2> QED BY <1>2, <2>1, <2>2 DEF Free
<1> QED BY <1>3 DEF FramesKept, Linked

LEMMA ChangedKeeps ==
  ASSUME NEW p, FramesKept(p), NEW q, q.free = p.free, \A g \in Frame : On(q, g) <=> On(p, g)
  PROVE  FramesKept(q)
BY DEF FramesKept, Free

LEMMA EmptyKeeps == FramesKept(EmptyPool)
<1> SUFFICES ASSUME NEW f \in Frame PROVE Free(EmptyPool, f)
  BY DEF FramesKept
<1>1. BF_MAX_BUFS + 1 - f \in Frame /\ BF_MAX_BUFS + 1 - (BF_MAX_BUFS + 1 - f) = f
  BY PoolAssumption DEF Frame
<1>2. EmptyPool.free = [i \in Frame |-> BF_MAX_BUFS + 1 - i]
  BY DEF EmptyPool
<1> QED BY <1>1, <1>2 DEF Free

\* There is no room when nothing is free, and the pages are pinned or the
\* victim cannot be written.
LEMMA NoRoom ==
  ASSUME NEW p, PoolOK(p), NEW d, ~HasRoom(p, d), FramesKept(p)
  PROVE  /\ \A f \in Frame : On(p, f)
         /\ \/ \A f \in Frame : p.page[f].count # 0
            \/ \E f \in Frame : On(p, f) /\ CannotFlush(d, p.page[f])
<1>1. p \in Pools /\ p.free = <<>>
  BY DEF HasRoom, PoolOK
<1>2. \A f \in Frame : On(p, f)
  BY <1>1 DEF FramesKept, Free
<1>3. CASE Unpinned(p) = {}
  <2>1. \A i \in DOMAIN p.lru : p.page[p.lru[i]].count # 0
    BY <1>3 DEF Unpinned
  <2> QED BY <1>2, <2>1 DEF On
<1>4. CASE Unpinned(p) # {}
  BY <1>1, <1>2, <1>4, VictimOK DEF HasRoom
<1> QED BY <1>2, <1>3, <1>4

\* Whatever comes before the victim is pinned.
LEMMA VictimIsFirst ==
  ASSUME NEW p, PoolOK(p), NEW d, HasRoom(p, d), p.free = <<>>,
         NEW f \in Frame, Before(p, f, Victim(p))
  PROVE  p.page[f].count # 0
<1> DEFINE k == CHOOSE i \in Unpinned(p) : \A j \in Unpinned(p) : i <= j
<1>1. p \in Pools /\ \A i, j \in DOMAIN p.lru : p.lru[i] = p.lru[j] => i = j
  BY DEF PoolOK, ListsDisjoint
<1>2. Unpinned(p) \subseteq DOMAIN p.lru /\ DOMAIN p.lru \subseteq Nat /\ Unpinned(p) # {}
  BY <1>1 DEF Unpinned, Pools, HasRoom
<1>3. k \in Unpinned(p) /\ \A j \in Unpinned(p) : k <= j
  BY <1>2, LeastOf
<1>4. Victim(p) = p.lru[k]
  BY DEF Victim
<1> HIDE DEF k
<1>5. PICK i \in DOMAIN p.lru, j \in DOMAIN p.lru : i < j /\ p.lru[i] = f /\ p.lru[j] = Victim(p)
  BY DEF Before
<1>6. j = k
  BY <1>1, <1>2, <1>3, <1>4, <1>5
<1>7. i \notin Unpinned(p)
  BY <1>2, <1>3, <1>5, <1>6
<1> QED BY <1>5, <1>7 DEF Unpinned
=============================================================================
