--------------------------- MODULE BFClient_proofs ---------------------------
(***************************************************************************)
(* Proofs about BF, for every pool size, all files and requests.  Under    *)
(* any caller and in every order of calls, the lists and the hash table    *)
(* agree, and a pinned page stays where it is.  Under callers that keep    *)
(* the rules, a pin keeps its page and its pointer, the pool is a paged    *)
(* store, no frame is lost, and the LRU list is in the order of use, so    *)
(* that a victim is the page out of use for longest.                       *)
(***************************************************************************)
EXTENDS BFClient, BFPool_proofs

LEMMA ReqIs == \A bq \in Reqs : bq \in BFreq
BY BFAssumption

-----------------------------------------------------------------------------
(* The disk. *)

LEMMA FlushedOK ==
  ASSUME NEW d \in Disks, NEW page \in BFpage
  PROVE  Flushed(d, page) \in Disks
BY FlushedOver DEF Disks, DisksOver

LEMMA RoomDiskOK ==
  ASSUME NEW p, PoolOK(p), NEW d \in Disks, HasRoom(p, d)
  PROVE  RoomDisk(p, d) \in Disks
BY RoomDiskOver DEF Disks, DisksOver

\* A read that does not fail returns contents.
LEMMA ReadableOK ==
  ASSUME NEW p, PoolOK(p), NEW d \in Disks, HasRoom(p, d),
         NEW bq \in Reqs, Readable(p, d, bq) # Absent
  PROVE  Readable(p, d, bq) \in Data
<1> DEFINE r == RoomDisk(p, d)
<1>1. r.open = OpenFiles /\ r.data \in [DiskPage -> Data \cup {Absent}]
  BY RoomDiskOK DEF Disks
<1>2. <<OpenFiles[bq.unixfd], bq.pagenum>> \in DiskPage
  BY DEF DiskPage
<1> QED BY <1>1, <1>2 DEF Readable, PRead

-----------------------------------------------------------------------------
(* The invariant. *)

\* While a BF_FlushBuf is in its second loop no page of its file is pinned:
\* its first loop has seen that, and no other call runs in between.
FlushUnpinned == flushing # NoFd => ~Fixed(pool, flushing)

IInv == PoolOK(pool) /\ TypeOK /\ FlushUnpinned

LEMMA InitIInv == Init => IInv
<1> SUFFICES ASSUME Init PROVE IInv
  OBVIOUS
<1>1. PoolOK(pool) /\ pool \in Pools
  BY EmptyPoolOK DEF Init, PoolOK
<1>2. disk \in Disks
  BY PoolAssumption DEF Init, Disks
<1> QED BY <1>1, <1>2 DEF Init, IInv, TypeOK, FlushUnpinned

\* What every call does to the pool and the disk.
LEMMA CallOK ==
  ASSUME IInv, NEW bq \in Reqs, Call(bq)
  PROVE  PoolOK(pool') /\ PinnedKept(pool, pool') /\ disk' \in Disks
<1>1. PoolOK(pool) /\ disk \in Disks
  BY DEF IInv, TypeOK
<1>2. PinnedKept(pool, pool)
  BY DEF PinnedKept
<1>3. CASE GetBufHit(bq)
  BY <1>1, <1>3, ReqIs, GetHitOK DEF GetBufHit, Buffered
<1>4. CASE GetBufMiss(bq)
  <2>1. /\ ~InBuf(pool, bq.fd, bq.pagenum) /\ HasRoom(pool, disk)
        /\ Readable(pool, disk, bq) # Absent
        /\ pool' = GetMiss(pool, disk, bq) /\ disk' = RoomDisk(pool, disk)
    BY <1>4 DEF GetBufMiss, Buffered
  <2>2. Readable(pool, disk, bq) \in Data
    BY <1>1, <2>1, ReadableOK
  <2> QED BY <1>1, <2>1, <2>2, ReqIs, GetMissOK, RoomDiskOK
<1>5. CASE GetBufUnread(bq)
  BY <1>1, <1>5, ReqIs, GetUnreadOK, RoomDiskOK DEF GetBufUnread
<1>6. CASE AllocBuf(bq)
  BY <1>1, <1>6, ReqIs, AllocOK, RoomDiskOK DEF AllocBuf, Buffered
<1>7. CASE UnpinBuf(bq)
  BY <1>1, <1>7, UnpinOK DEF UnpinBuf
<1>8. CASE TouchBuf(bq)
  BY <1>1, <1>8, TouchOK DEF TouchBuf, Buffered
<1>9. CASE GetBufNoMem(bq) \/ AllocBufExists(bq) \/ AllocBufNoMem(bq)
             \/ TouchBufMissing(bq)
  BY <1>1, <1>2, <1>9
     DEF GetBufNoMem, AllocBufExists, AllocBufNoMem, TouchBufMissing
<1> QED BY <1>3, <1>4, <1>5, <1>6, <1>7, <1>8, <1>9 DEF Call

LEMMA StorePageOK ==
  ASSUME IInv, NEW bq \in Reqs, NEW v \in Data, StorePage(bq, v)
  PROVE  PoolOK(pool') /\ PinnedKept(pool, pool')
<1>1. PoolOK(pool) /\ InBuf(pool, bq.fd, bq.pagenum)
  BY DEF IInv, StorePage, Buffered
<1>2. LET f == FrameOf(pool, bq.fd, bq.pagenum) IN f \in Frame /\ On(pool, f)
  BY <1>1, FoundFrame
<1> QED BY <1>1, <1>2, StoreOK DEF StorePage

LEMMA FlushPageOK ==
  ASSUME IInv, FlushBufPage
  PROVE  /\ PoolOK(pool') /\ PinnedKept(pool, pool') /\ disk' \in Disks
         /\ flushing' = flushing /\ ~Fixed(pool', flushing)
<1> DEFINE f == NextOf(pool, flushing)
           q == Discard(pool, f)
<1>1. /\ PoolOK(pool) /\ disk \in Disks /\ pool \in Pools
      /\ PagesOf(pool, flushing) # {} /\ ~Fixed(pool, flushing)
      /\ flushing' = flushing /\ pool' = q
      /\ disk' = Flushed(disk, pool.page[f]) \/ disk' = disk
  BY DEF IInv, TypeOK, PoolOK, FlushBufPage, FlushUnpinned
<1>2. f \in Frame /\ On(pool, f) /\ pool.page[f].count = 0
  BY <1>1, NextOfOK
<1>3. /\ PoolOK(q) /\ q.page = [pool.page EXCEPT ![f] = BlankPage]
      /\ \A g \in Frame : On(q, g) <=> On(pool, g) /\ g # f
  BY <1>1, <1>2, DiscardOK
<1>4. pool.page[f] \in BFpage
  BY <1>1, <1>2 DEF Pools
<1>5. disk' \in Disks
  BY <1>1, <1>4, FlushedOK
<1> HIDE DEF f, q
<1>6. \A g \in Frame : g # f => q.page[g] = pool.page[g]
  BY <1>1, <1>2, <1>3 DEF Pools
<1>7. PinnedKept(pool, q)
  BY <1>2, <1>3, <1>6 DEF PinnedKept
<1>8. ~Fixed(q, flushing)
  <2> SUFFICES ASSUME NEW i \in DOMAIN q.lru, q.page[q.lru[i]].fd = flushing,
                      q.page[q.lru[i]].count # 0
               PROVE  FALSE
    BY DEF Fixed, PagesOf
  <2> DEFINE g == q.lru[i]
  <2>1. g \in Frame /\ On(q, g)
    BY <1>3 DEF On, PoolOK, Pools
  <2>2. On(pool, g) /\ q.page[g] = pool.page[g]
    BY <1>3, <1>6, <2>1
  <2>3. PICK j \in DOMAIN pool.lru : pool.lru[j] = g
    BY <2>2 DEF On
  <2> QED BY <1>1, <2>2, <2>3 DEF Fixed, PagesOf
<1> QED BY <1>1, <1>3, <1>5, <1>7, <1>8

\* Every step keeps the invariant, and every step but a crash the pinned pages.
LEMMA NextIInv ==
  ASSUME IInv, [Next]_vars
  PROVE  IInv' /\ (Crash \/ PinnedKept(pool, pool'))
<1>1. ASSUME NEW bq \in Reqs, Call(bq)
      PROVE  IInv' /\ PinnedKept(pool, pool')
  <2>1. PoolOK(pool') /\ PinnedKept(pool, pool') /\ disk' \in Disks
    BY <1>1, CallOK
  <2>2. flushing' = NoFd /\ rc' \in {BFE_OK, BFE_NOMEM, BFE_PAGENOTINBUF,
                                     BFE_INCOMPLETEWRITE, BFE_UNIX}
    BY <1>1 DEF Call, GetBufHit, GetBufMiss, GetBufUnread, GetBufNoMem, AllocBuf,
       AllocBufExists, AllocBufNoMem, UnpinBuf, TouchBuf, TouchBufMissing, Returns
  <2> QED BY <2>1, <2>2 DEF IInv, TypeOK, PoolOK, FlushUnpinned
<1>2. ASSUME NEW bq \in Reqs, NEW v \in Data, StorePage(bq, v)
      PROVE  IInv' /\ PinnedKept(pool, pool')
  <2>1. PoolOK(pool') /\ PinnedKept(pool, pool')
    BY <1>2, StorePageOK
  <2>2. flushing' = NoFd /\ rc' = rc /\ disk' = disk
    BY <1>2 DEF StorePage
  <2> QED BY <2>1, <2>2 DEF IInv, TypeOK, PoolOK, FlushUnpinned
<1>3. ASSUME NEW fd \in Fd, FlushBufFixed(fd)
      PROVE  IInv' /\ PinnedKept(pool, pool')
  BY <1>3 DEF FlushBufFixed, Returns, IInv, TypeOK, PoolOK, FlushUnpinned, PinnedKept
<1>4. ASSUME NEW fd \in Fd, FlushBufBegin(fd)
      PROVE  IInv' /\ PinnedKept(pool, pool')
  BY <1>4 DEF FlushBufBegin, IInv, TypeOK, PoolOK, FlushUnpinned, PinnedKept
<1>5. ASSUME FlushBufPage
      PROVE  IInv' /\ PinnedKept(pool, pool')
  <2>1. /\ PoolOK(pool') /\ PinnedKept(pool, pool') /\ disk' \in Disks
        /\ flushing' = flushing /\ ~Fixed(pool', flushing')
    BY <1>5, FlushPageOK
  <2>2. rc' = rc
    BY <1>5 DEF FlushBufPage
  <2> QED BY <2>1, <2>2 DEF IInv, TypeOK, PoolOK, FlushUnpinned
<1>6. ASSUME FlushBufEnd
      PROVE  IInv' /\ PinnedKept(pool, pool')
  BY <1>6 DEF FlushBufEnd, IInv, TypeOK, PoolOK, FlushUnpinned, PinnedKept
<1>7. ASSUME Crash
      PROVE  IInv'
  <2>1. PoolOK(pool') /\ disk' = disk /\ flushing' = NoFd /\ rc' = BFE_OK
    BY <1>7, EmptyPoolOK DEF Crash
  <2> QED BY <2>1 DEF IInv, TypeOK, PoolOK, FlushUnpinned
<1>8. ASSUME UNCHANGED vars
      PROVE  IInv' /\ PinnedKept(pool, pool')
  BY <1>8 DEF vars, IInv, TypeOK, PoolOK, FlushUnpinned, PinnedKept
<1> QED BY <1>1, <1>2, <1>3, <1>4, <1>5, <1>6, <1>7, <1>8 DEF Next

-----------------------------------------------------------------------------
(* The pool, the files, the flush in progress and the return value keep     *)
(* their types under any sequence of calls, crashes included; in particular *)
(* the pin count of bf.h stays in the range of a C short.                   *)
THEOREM TypeCorrect == Spec => []TypeOK
<1>1. IInv /\ [Next]_vars => IInv'
  BY NextIInv
<1>2. IInv => TypeOK
  BY DEF IInv
<1> QED BY InitIInv, <1>1, <1>2, PTL DEF Spec

(* The lists and the hash table of bf.c agree after every call: no frame is *)
(* linked twice, every page on the LRU list is found under its key and      *)
(* every hash entry leads to such a page, no page of a file is in two       *)
(* frames, and free frames are blank.                                       *)
THEOREM PoolInvariant == Spec => []PoolInv
<1>1. IInv /\ [Next]_vars => IInv'
  BY NextIInv
<1>2. IInv => PoolInv
  BY DEF IInv, PoolOK, PoolInv
<1> QED BY InitIInv, <1>1, <1>2, PTL DEF Spec

(* No call takes a pinned page out of the pool or gives its frame to        *)
(* another page.                                                            *)
THEOREM PinnedStay == Spec => PinnedPagesStay
<1> DEFINE A == \A i \in DOMAIN pool.lru :
        LET f == pool.lru[i] IN
          pool.page[f].count # 0 /\ ~Crash =>
            /\ \E j \in DOMAIN pool'.lru : pool'.lru[j] = f
            /\ pool'.page[f].fd = pool.page[f].fd
            /\ pool'.page[f].page_num = pool.page[f].page_num
<1>1. IInv /\ [Next]_vars => IInv'
  BY NextIInv
<1>2. IInv /\ [Next]_vars => A
  <2> SUFFICES ASSUME IInv, [Next]_vars, ~Crash,
                      NEW i \in DOMAIN pool.lru, pool.page[pool.lru[i]].count # 0
               PROVE  LET f == pool.lru[i] IN
                      /\ \E j \in DOMAIN pool'.lru : pool'.lru[j] = f
                      /\ pool'.page[f].fd = pool.page[f].fd
                      /\ pool'.page[f].page_num = pool.page[f].page_num
    OBVIOUS
  <2>1. PinnedKept(pool, pool')
    BY NextIInv
  <2>2. pool.lru[i] \in Frame /\ On(pool, pool.lru[i])
    BY DEF On, IInv, PoolOK, Pools
  <2> QED BY <2>1, <2>2 DEF PinnedKept, On
<1>3. IInv /\ [Next]_vars => [A]_vars
  BY <1>2
<1> QED BY InitIInv, <1>1, <1>3, PTL DEF Spec, PinnedPagesStay

-----------------------------------------------------------------------------
(* Callers that keep the rules. *)


\* What callers have and what the pool counts, frame by frame.
Agree(p, ps, pt) ==
  \A bq \in Reqs :
    /\ \A f \in Frame : Holds(p, f, bq) =>
         p.page[f].count = ps[bq] /\ (ps[bq] > 0 => pt[bq] = f)
    /\ ps[bq] > 0 => Holds(p, pt[bq], bq)

PinsTyped == pins \in [Reqs -> 0..MaxPins] /\ ptr \in [Reqs -> Frame \cup {0}]

CInv == IInv /\ PinsTyped /\ Agree(pool, pins, ptr)

-----------------------------------------------------------------------------
(* Requests and frames. *)

\* Within a client's requests a page has one name.
LEMMA OneReq ==
  ASSUME NEW a \in Reqs, NEW b \in Reqs, a.fd = b.fd, a.pagenum = b.pagenum
  PROVE  a = b
<1>1. a.unixfd = b.unixfd
  BY ClientAssumption
<1>2. a \in [fd : Fd, unixfd : UnixFd, pagenum : PageNum]
      /\ b \in [fd : Fd, unixfd : UnixFd, pagenum : PageNum]
  BY ReqIs DEF BFreq
<1> QED BY <1>1, <1>2

-----------------------------------------------------------------------------
(* Pins and counts. *)

LEMMA AgreeChanged ==
  ASSUME NEW p, NEW q, PoolOK(p), PoolOK(q), NEW bq \in Reqs, NEW f, Holds(p, f, bq),
         NEW page, Changed(p, q, f, page),
         page.fd = p.page[f].fd, page.page_num = p.page[f].page_num,
         NEW ps, NEW pt, Agree(p, ps, pt), NEW ps2, NEW pt2,
         \A b \in Reqs : b # bq => ps2[b] = ps[b] /\ pt2[b] = pt[b],
         ps2[bq] = page.count, ps2[bq] > 0 => pt2[bq] = f
  PROVE  Agree(q, ps2, pt2)
<1>1. \A b \in Reqs : \A g : Holds(q, g, b) <=> Holds(p, g, b)
  BY DEF Holds, Changed
<1>2. ASSUME NEW b \in Reqs, b # bq
      PROVE  /\ \A g \in Frame : Holds(q, g, b) =>
                  q.page[g].count = ps2[b] /\ (ps2[b] > 0 => pt2[b] = g)
             /\ ps2[b] > 0 => Holds(q, pt2[b], b)
  <2>1. ~Holds(p, f, b)
    BY <1>2, OneReq DEF Holds
  <2>2. \A g \in Frame : Holds(p, g, b) => q.page[g] = p.page[g]
    BY <2>1 DEF Changed
  <2> QED BY <1>1, <1>2, <2>2 DEF Agree
<1>3. /\ \A g \in Frame : Holds(q, g, bq) =>
           q.page[g].count = ps2[bq] /\ (ps2[bq] > 0 => pt2[bq] = g)
      /\ ps2[bq] > 0 => Holds(q, pt2[bq], bq)
  <2>1. \A g \in Frame : Holds(q, g, bq) => g = f
    BY <1>1, OneHolds
  <2>2. q.page[f] = page
    BY DEF Changed, Holds
  <2> QED BY <1>1, <2>1, <2>2
<1> QED BY <1>2, <1>3 DEF Agree

LEMMA AgreeDropped ==
  ASSUME NEW p, NEW q, NEW v, Dropped(p, q, v), NEW ps, NEW pt, Agree(p, ps, pt)
  PROVE  Agree(q, ps, pt)
<1>1. ASSUME NEW b \in Reqs, NEW g \in Frame, Holds(q, g, b)
      PROVE  Holds(p, g, b) /\ q.page[g] = p.page[g]
  BY <1>1 DEF Holds, Dropped
<1>2. ASSUME NEW b \in Reqs, ps[b] > 0
      PROVE  Holds(q, pt[b], b)
  <2>1. Holds(p, pt[b], b) /\ p.page[pt[b]].count = ps[b]
    BY <1>2 DEF Agree, Holds
  <2>2. pt[b] # v
    BY <1>2, <2>1 DEF Dropped
  <2> QED BY <2>1, <2>2 DEF Holds, Dropped
<1> QED BY <1>1, <1>2 DEF Agree

LEMMA AgreeSame ==
  ASSUME NEW p, NEW q, SameLinked(p, q), NEW ps, NEW pt, Agree(p, ps, pt)
  PROVE  Agree(q, ps, pt)
BY DEF Agree, Holds, SameLinked

LEMMA AgreeLinked ==
  ASSUME NEW p, NEW q, PoolOK(q), NEW bq \in Reqs, NEW f, NEW c,
         Linked(p, q, f, NewPage(bq, c, 1)),
         NEW ps, NEW pt, Agree(p, ps, pt), NEW ps2, NEW pt2,
         \A b \in Reqs : b # bq => ps2[b] = ps[b] /\ pt2[b] = pt[b],
         ps2[bq] = 1, pt2[bq] = f
  PROVE  Agree(q, ps2, pt2) /\ Holds(q, f, bq)
<1> DEFINE page == NewPage(bq, c, 1)
<1>1. page.fd = bq.fd /\ page.page_num = bq.pagenum /\ page.count = 1
  BY DEF NewPage
<1> HIDE DEF page
<1>2. Holds(q, f, bq) /\ q.page[f] = page
  BY <1>1 DEF Holds, Linked, page
<1>3. ASSUME NEW b \in Reqs, b # bq
      PROVE  /\ \A g \in Frame : Holds(q, g, b) =>
                  q.page[g].count = ps2[b] /\ (ps2[b] > 0 => pt2[b] = g)
             /\ ps2[b] > 0 => Holds(q, pt2[b], b)
  <2>1. ~Holds(q, f, b)
    BY <1>2, <1>3, OneReq DEF Holds
  <2>2. \A g \in Frame : Holds(q, g, b) => Holds(p, g, b) /\ q.page[g] = p.page[g]
    BY <2>1 DEF Linked, Holds
  <2>3. \A g : Holds(p, g, b) => Holds(q, g, b)
    BY DEF Linked, Holds
  <2> QED BY <1>3, <2>2, <2>3 DEF Agree
<1>4. \A g \in Frame : Holds(q, g, bq) => g = f
  BY <1>2, OneHolds
<1>5. /\ \A g \in Frame : Holds(q, g, bq) =>
           q.page[g].count = ps2[bq] /\ (ps2[bq] > 0 => pt2[bq] = g)
      /\ ps2[bq] > 0 => Holds(q, pt2[bq], bq)
  BY <1>1, <1>2, <1>4
<1> QED BY <1>2, <1>3, <1>5 DEF Agree

-----------------------------------------------------------------------------
(* The steps of a client are steps of BF. *)

\* What PointersValid says, frame by frame.
LEMMA AgreeIsValid ==
  ASSUME PoolOK(pool), PinsTyped, Agree(pool, pins, ptr)
  PROVE  PointersValid
<1> SUFFICES ASSUME NEW bq \in Reqs
             PROVE  IF InBuf(pool, bq.fd, bq.pagenum)
                    THEN /\ pool.page[FrameOf(pool, bq.fd, bq.pagenum)].count = pins[bq]
                         /\ pins[bq] > 0 => ptr[bq] = FrameOf(pool, bq.fd, bq.pagenum)
                    ELSE pins[bq] = 0
  BY DEF PointersValid
<1>1. CASE InBuf(pool, bq.fd, bq.pagenum)
  <2>1. Holds(pool, FrameOf(pool, bq.fd, bq.pagenum), bq)
    BY <1>1, FoundHolds
  <2> QED BY <1>1, <2>1 DEF Agree, Holds
<1>2. CASE ~InBuf(pool, bq.fd, bq.pagenum)
  <2>1. ~(pins[bq] > 0)
    BY <1>2, HoldsFound DEF Agree
  <2>2. pins[bq] \in Nat
    BY ClientAssumption DEF PinsTyped
  <2> QED BY <1>2, <2>1, <2>2
<1> QED BY <1>1, <1>2

\* What a client knows of a page it has pinned, and of one it has not.
LEMMA PinnedPage ==
  ASSUME CInv, NEW bq \in Reqs
  PROVE  /\ pins[bq] \in 0..MaxPins
         /\ pins[bq] > 0 => Holds(pool, ptr[bq], bq) /\ pool.page[ptr[bq]].count = pins[bq]
         /\ \A f : Holds(pool, f, bq) => pool.page[f].count = pins[bq]
         /\ ~InBuf(pool, bq.fd, bq.pagenum) => pins[bq] = 0
<1>1. pins[bq] \in 0..MaxPins
  BY DEF CInv, PinsTyped
<1>2. /\ pins[bq] > 0 => Holds(pool, ptr[bq], bq)
      /\ \A f : Holds(pool, f, bq) => pool.page[f].count = pins[bq]
  BY DEF CInv, Agree, Holds
<1>3. PoolOK(pool) /\ MaxPins \in Nat
  BY ClientAssumption, PoolAssumption DEF CInv, IInv
<1> QED BY <1>1, <1>2, <1>3, HoldsFound

\* A store through a valid pointer is a store into the page.
LEMMA StoreIsStore ==
  ASSUME CInv, NEW bq \in Reqs, NEW v \in Data, CStore(bq, v)
  PROVE  StorePage(bq, v)
<1>1. pins[bq] > 0 /\ PoolOK(pool)
  BY DEF CStore, CInv, IInv
<1>2. /\ Holds(pool, ptr[bq], bq) /\ pool.page[ptr[bq]].count = pins[bq]
      /\ pins[bq] \in 0..MaxPins
  BY <1>1, PinnedPage
<1>3. pool.page[ptr[bq]].count # 0
  BY <1>1, <1>2
<1>4. InBuf(pool, bq.fd, bq.pagenum) /\ FrameOf(pool, bq.fd, bq.pagenum) = ptr[bq]
  BY <1>1, <1>2, HoldsFound
<1> QED BY <1>3, <1>4 DEF StorePage, CStore, Buffered

LEMMA ClientIsCaller ==
  ASSUME CInv, [CNext]_cvars
  PROVE  [Next]_vars
<1>1. ASSUME NEW bq \in Reqs, CGet(bq) \/ CGetFails(bq) \/ CAlloc(bq) \/ CAllocFails(bq)
                              \/ CTouch(bq) \/ CUnpin(bq)
      PROVE  Next
  <2>1. Call(bq)
    BY <1>1 DEF CGet, CGetFails, CAlloc, CAllocFails, CTouch, CUnpin, Call
  <2> QED BY <2>1 DEF Next
<1>2. ASSUME NEW bq \in Reqs, NEW v \in Data, CStore(bq, v)
      PROVE  Next
  BY <1>2, StoreIsStore DEF Next
<1>3. ASSUME CFlush
      PROVE  Next
  BY <1>3 DEF CFlush, Next
<1>4. ASSUME CCrash
      PROVE  Next
  BY <1>4 DEF CCrash, Next
<1>5. CASE UNCHANGED cvars
  BY <1>5 DEF cvars, vars
<1> QED BY <1>1, <1>2, <1>3, <1>4, <1>5 DEF CNext

LEMMA InitCInv == CInit => CInv
<1> SUFFICES ASSUME CInit PROVE CInv
  OBVIOUS
<1>1. IInv /\ pool = EmptyPool
  BY InitIInv DEF CInit, Init
<1>2. PinsTyped /\ \A bq \in Reqs : pins[bq] = 0
  BY ClientAssumption, PoolAssumption DEF CInit, PinsTyped
<1>3. \A f : ~On(pool, f)
  BY <1>1 DEF On, EmptyPool
<1> QED BY <1>1, <1>2, <1>3 DEF CInv, Agree, Holds

-----------------------------------------------------------------------------
(* Every step of a client keeps pins and counts in agreement. *)

LEMMA GetStep ==
  ASSUME CInv, PoolOK(pool'), NEW bq \in Reqs, CGet(bq)
  PROVE  PinsTyped' /\ Agree(pool, pins, ptr)'
<1>1. /\ PoolOK(pool) /\ disk \in Disks /\ PinsTyped /\ Agree(pool, pins, ptr)
      /\ pins[bq] < MaxPins /\ pins[bq] \in 0..MaxPins /\ MaxPins \in 1..SHORT_MAX
  BY PinnedPage, ClientAssumption DEF CGet, CInv, IInv, TypeOK
<1>2. /\ pins' = [pins EXCEPT ![bq] = pins[bq] + 1]
      /\ ptr' = [ptr EXCEPT ![bq] = FrameOf(pool', bq.fd, bq.pagenum)]
  BY DEF CGet
<1> DEFINE f == FrameOf(pool', bq.fd, bq.pagenum)
<1>3. /\ pins' \in [Reqs -> 0..MaxPins] /\ pins'[bq] = pins[bq] + 1 /\ ptr'[bq] = f
      /\ \A b \in Reqs : b # bq => pins'[b] = pins[b] /\ ptr'[b] = ptr[b]
  BY <1>1, <1>2, PoolAssumption DEF PinsTyped
<1>4. Holds(pool', f, bq) /\ Agree(pool', pins', ptr')
  <2>1. CASE GetBufHit(bq)
    <3> DEFINE g == FrameOf(pool, bq.fd, bq.pagenum)
               page == [pool.page[g] EXCEPT !.count = ShortInc(@)]
    <3>1. Holds(pool, g, bq) /\ pool' = GetHit(pool, bq)
      BY <1>1, <2>1, FoundHolds DEF GetBufHit, Buffered
    <3> HIDE DEF g
    <3>2. Changed(pool, pool', g, page)
      BY <1>1, <3>1, ReqIs, HitDoes
    <3>3. pool.page[g] \in BFpage /\ pool.page[g].count = pins[bq]
      BY <1>1, <3>1, PinnedPage DEF Holds, PoolOK, Pools
    <3>4. /\ page.fd = pool.page[g].fd /\ page.page_num = pool.page[g].page_num
          /\ page.count = pins[bq] + 1
      BY <1>1, <3>3, PoolAssumption DEF BFpage, ShortInc
    <3>5. Holds(pool', g, bq)
      BY <3>1, <3>2, <3>4 DEF Holds, Changed
    <3>6. f = g
      BY <3>5, HoldsFound
    <3> HIDE DEF page, f
    <3>7. Agree(pool', pins', ptr')
      BY <1>1, <1>3, <3>1, <3>2, <3>4, <3>6, AgreeChanged
    <3> QED BY <3>5, <3>6, <3>7
  <2>2. CASE GetBufMiss(bq)
    <3> DEFINE q == MakeRoom(pool)
               g == Head(q.free)
               c == Readable(pool, disk, bq)
    <3>1. /\ ~InBuf(pool, bq.fd, bq.pagenum) /\ HasRoom(pool, disk) /\ c \in Data
          /\ pool' = GetMiss(pool, disk, bq)
      BY <1>1, <2>2, ReadableOK DEF GetBufMiss, Buffered
    <3>2. Linked(q, pool', g, NewPage(bq, c, 1))
      BY <1>1, <3>1, ReqIs, MissDoes
    <3>3. Agree(q, pins, ptr)
      BY <1>1, <3>1, MakeRoomDoes, AgreeDropped
    <3>4. pins[bq] = 0
      BY <3>1, PinnedPage
    <3> HIDE DEF q, g, c
    <3>5. Holds(pool', g, bq)
      BY <3>2 DEF Holds, Linked, NewPage
    <3>6. f = g
      BY <3>5, HoldsFound
    <3> HIDE DEF f
    <3>7. pins'[bq] = 1 /\ ptr'[bq] = g
      BY <1>3, <3>4, <3>6
    <3>8. Agree(pool', pins', ptr')
      BY <1>3, <3>2, <3>3, <3>7, AgreeLinked
    <3> QED BY <3>5, <3>6, <3>8
  <2> QED BY <2>1, <2>2 DEF CGet
<1>5. ptr' \in [Reqs -> Frame \cup {0}]
  BY <1>1, <1>2, <1>4 DEF PinsTyped, Holds
<1> QED BY <1>3, <1>4, <1>5 DEF PinsTyped

LEMMA AllocStep ==
  ASSUME CInv, PoolOK(pool'), NEW bq \in Reqs, CAlloc(bq)
  PROVE  PinsTyped' /\ Agree(pool, pins, ptr)'
<1> DEFINE q == MakeRoom(pool)
           g == Head(q.free)
<1>1. /\ PoolOK(pool) /\ PinsTyped /\ Agree(pool, pins, ptr) /\ MaxPins \in 1..SHORT_MAX
      /\ ~InBuf(pool, bq.fd, bq.pagenum) /\ HasRoom(pool, disk) /\ pool' = Alloc(pool, bq)
      /\ pins' = [pins EXCEPT ![bq] = 1]
      /\ ptr' = [ptr EXCEPT ![bq] = FrameOf(pool', bq.fd, bq.pagenum)]
  BY ClientAssumption DEF CAlloc, AllocBuf, Buffered, CInv, IInv
<1>2. Linked(q, pool', g, NewPage(bq, Zero, 1))
  BY <1>1, ReqIs, AllocDoes
<1>3. Agree(q, pins, ptr)
  BY <1>1, MakeRoomDoes, AgreeDropped
<1> HIDE DEF q, g
<1>4. Holds(pool', g, bq)
  BY <1>2 DEF Holds, Linked, NewPage
<1>5. FrameOf(pool', bq.fd, bq.pagenum) = g
  BY <1>4, HoldsFound
<1>6. /\ pins'[bq] = 1 /\ ptr'[bq] = g
      /\ \A b \in Reqs : b # bq => pins'[b] = pins[b] /\ ptr'[b] = ptr[b]
      /\ pins' \in [Reqs -> 0..MaxPins] /\ ptr' \in [Reqs -> Frame \cup {0}]
  BY <1>1, <1>4, <1>5, PoolAssumption DEF PinsTyped, Holds
<1>7. Agree(pool', pins', ptr')
  BY <1>2, <1>3, <1>6, AgreeLinked
<1> QED BY <1>6, <1>7 DEF PinsTyped

\* A failed call leaves the pins alone, and at most a page nobody has pinned
\* has gone.
LEMMA FailStep ==
  ASSUME CInv, NEW bq \in Reqs, CGetFails(bq) \/ CAllocFails(bq)
  PROVE  PinsTyped' /\ Agree(pool, pins, ptr)'
<1>1. /\ PoolOK(pool) /\ PinsTyped /\ Agree(pool, pins, ptr)
      /\ pins' = pins /\ ptr' = ptr
  BY DEF CGetFails, CAllocFails, CInv, IInv
<1>2. CASE GetBufUnread(bq)
  <2> DEFINE q == MakeRoom(pool)
  <2>1. HasRoom(pool, disk) /\ pool' = GetUnread(pool, bq)
    BY <1>2 DEF GetBufUnread
  <2>2. Agree(q, pins, ptr)
    BY <1>1, <2>1, MakeRoomDoes, AgreeDropped
  <2>3. SameLinked(q, pool')
    BY <1>1, <2>1, ReqIs, UnreadDoes
  <2> QED BY <1>1, <2>2, <2>3, AgreeSame DEF PinsTyped
<1>3. CASE GetBufNoMem(bq) \/ AllocBufNoMem(bq)
  BY <1>1, <1>3 DEF GetBufNoMem, AllocBufNoMem, PinsTyped
<1> QED BY <1>2, <1>3 DEF CGetFails, CAllocFails

LEMMA TouchStep ==
  ASSUME CInv, PoolOK(pool'), NEW bq \in Reqs, CTouch(bq)
  PROVE  PinsTyped' /\ Agree(pool, pins, ptr)'
<1> DEFINE f == ptr[bq]
           page == [pool.page[f] EXCEPT !.dirty = TRUE]
<1>1. /\ PoolOK(pool) /\ PinsTyped /\ Agree(pool, pins, ptr) /\ pins[bq] > 0
      /\ pool' = Touch(pool, bq.fd, bq.pagenum) /\ pins' = pins /\ ptr' = ptr
  BY DEF CTouch, TouchBuf, CInv, IInv
<1>2. Holds(pool, f, bq) /\ pool.page[f].count = pins[bq]
  BY <1>1, PinnedPage
<1> HIDE DEF f
<1>3. Changed(pool, pool', f, page)
  BY <1>1, <1>2, ReqIs, TouchDoes
<1>4. pool.page[f] \in BFpage
  BY <1>1, <1>2 DEF Holds, PoolOK, Pools
<1>5. /\ page.fd = pool.page[f].fd /\ page.page_num = pool.page[f].page_num
      /\ page.count = pins[bq]
  BY <1>2, <1>4 DEF BFpage
<1> HIDE DEF page
<1>6. Agree(pool', pins, ptr)
  BY <1>1, <1>2, <1>3, <1>5, AgreeChanged DEF f
<1> QED BY <1>1, <1>6 DEF PinsTyped

LEMMA StoreStep ==
  ASSUME CInv, PoolOK(pool'), NEW bq \in Reqs, NEW v \in Data, CStore(bq, v)
  PROVE  PinsTyped' /\ Agree(pool, pins, ptr)'
<1> DEFINE f == ptr[bq]
           page == [pool.page[f] EXCEPT !.fpage = v]
<1>1. /\ PoolOK(pool) /\ PinsTyped /\ Agree(pool, pins, ptr) /\ pins[bq] > 0
      /\ pool' = [pool EXCEPT !.page[f].fpage = v] /\ pins' = pins /\ ptr' = ptr
  BY DEF CStore, CInv, IInv
<1>2. Holds(pool, f, bq) /\ pool.page[f].count = pins[bq]
  BY <1>1, PinnedPage
<1> HIDE DEF f
<1>3. Changed(pool, pool', f, page)
  BY <1>1, <1>2, StoreDoes DEF Holds
<1>4. pool.page[f] \in BFpage
  BY <1>1, <1>2 DEF Holds, PoolOK, Pools
<1>5. /\ page.fd = pool.page[f].fd /\ page.page_num = pool.page[f].page_num
      /\ page.count = pins[bq]
  BY <1>2, <1>4 DEF BFpage
<1> HIDE DEF page
<1>6. Agree(pool', pins, ptr)
  BY <1>1, <1>2, <1>3, <1>5, AgreeChanged DEF f
<1> QED BY <1>1, <1>6 DEF PinsTyped

LEMMA UnpinStep ==
  ASSUME CInv, PoolOK(pool'), NEW bq \in Reqs, CUnpin(bq)
  PROVE  PinsTyped' /\ Agree(pool, pins, ptr)'
<1> DEFINE f == ptr[bq]
           page == [pool.page[f] EXCEPT !.count = ShortDec(@)]
<1>1. /\ PoolOK(pool) /\ PinsTyped /\ Agree(pool, pins, ptr) /\ pins[bq] > 0
      /\ pins[bq] \in 0..MaxPins /\ MaxPins \in 1..SHORT_MAX
      /\ pool' = Unpin(pool, bq.fd, bq.pagenum)
      /\ pins' = [pins EXCEPT ![bq] = pins[bq] - 1]
      /\ ptr' = [ptr EXCEPT ![bq] = IF pins[bq] = 1 THEN 0 ELSE f]
  BY PinnedPage, ClientAssumption DEF CUnpin, UnpinBuf, CInv, IInv
<1>2. Holds(pool, f, bq) /\ pool.page[f].count = pins[bq]
  BY <1>1, PinnedPage
<1>3. /\ pins' \in [Reqs -> 0..MaxPins] /\ pins'[bq] = pins[bq] - 1
      /\ ptr' \in [Reqs -> Frame \cup {0}] /\ ptr'[bq] = IF pins[bq] = 1 THEN 0 ELSE f
      /\ \A b \in Reqs : b # bq => pins'[b] = pins[b] /\ ptr'[b] = ptr[b]
  BY <1>1, PoolAssumption DEF PinsTyped
<1> HIDE DEF f
<1>4. Changed(pool, pool', f, page)
  BY <1>1, <1>2, ReqIs, UnpinDoes
<1>5. pool.page[f] \in BFpage
  BY <1>1, <1>2 DEF Holds, PoolOK, Pools
<1>6. /\ page.fd = pool.page[f].fd /\ page.page_num = pool.page[f].page_num
      /\ page.count = pins[bq] - 1
  BY <1>1, <1>2, <1>5, PoolAssumption DEF BFpage, ShortDec
<1> HIDE DEF page
<1>7. /\ PoolOK(pool) /\ Agree(pool, pins, ptr) /\ Holds(pool, f, bq)
      /\ pins'[bq] = page.count /\ (pins'[bq] > 0 => ptr'[bq] = f)
      /\ \A b \in Reqs : b # bq => pins'[b] = pins[b] /\ ptr'[b] = ptr[b]
      /\ page.fd = pool.page[f].fd /\ page.page_num = pool.page[f].page_num
  BY <1>1, <1>2, <1>3, <1>6
<1>8. Agree(pool', pins', ptr')
  BY <1>4, <1>7, AgreeChanged
<1> QED BY <1>3, <1>8 DEF PinsTyped

LEMMA FlushStep ==
  ASSUME CInv, CFlush
  PROVE  PinsTyped' /\ Agree(pool, pins, ptr)'
<1>1. /\ PoolOK(pool) /\ PinsTyped /\ Agree(pool, pins, ptr) /\ FlushUnpinned
      /\ pins' = pins /\ ptr' = ptr
  BY DEF CFlush, CInv, IInv
<1>2. CASE FlushBufPage
  <2> DEFINE f == NextOf(pool, flushing)
  <2>1. /\ PagesOf(pool, flushing) # {} /\ ~Fixed(pool, flushing) /\ pool' = Discard(pool, f)
    BY <1>1, <1>2 DEF FlushBufPage, FlushUnpinned
  <2>2. f \in Frame /\ On(pool, f) /\ pool.page[f].count = 0
    BY <1>1, <2>1, NextOfOK DEF PoolOK
  <2>3. Dropped(pool, pool', f)
    BY <1>1, <2>1, <2>2, DiscardDoes
  <2> QED BY <1>1, <2>3, AgreeDropped DEF PinsTyped
<1>3. CASE pool' = pool
  BY <1>1, <1>3 DEF PinsTyped
<1> QED BY <1>2, <1>3 DEF CFlush, FlushBufFixed, FlushBufBegin, FlushBufEnd

LEMMA CrashStep ==
  ASSUME CCrash
  PROVE  PinsTyped' /\ Agree(pool, pins, ptr)'
<1>1. \A f : ~On(pool', f)
  BY DEF CCrash, Crash, On, EmptyPool
<1>2. /\ pins' = [bq \in Reqs |-> 0] /\ ptr' = [bq \in Reqs |-> 0]
  BY DEF CCrash
<1>3. 0 \in 0..MaxPins
  BY ClientAssumption, PoolAssumption
<1>4. PinsTyped'
  BY <1>2, <1>3 DEF PinsTyped
<1>5. \A bq \in Reqs : ~(pins'[bq] > 0)
  BY <1>2
<1>6. Agree(pool', pins', ptr')
  BY <1>1, <1>5 DEF Agree, Holds
<1> QED BY <1>4, <1>6

LEMMA NextCInv ==
  ASSUME CInv, [CNext]_cvars
  PROVE  CInv'
<1>1. IInv' /\ PoolOK(pool')
  BY ClientIsCaller, NextIInv DEF CInv, IInv
<1> SUFFICES PinsTyped' /\ Agree(pool, pins, ptr)'
  BY <1>1 DEF CInv
<1>2. ASSUME NEW bq \in Reqs, CGet(bq) PROVE PinsTyped' /\ Agree(pool, pins, ptr)'
  BY <1>1, <1>2, GetStep
<1>3. ASSUME NEW bq \in Reqs, CAlloc(bq) PROVE PinsTyped' /\ Agree(pool, pins, ptr)'
  BY <1>1, <1>3, AllocStep
<1>4. ASSUME NEW bq \in Reqs, CGetFails(bq) \/ CAllocFails(bq)
      PROVE  PinsTyped' /\ Agree(pool, pins, ptr)'
  BY <1>4, FailStep
<1>5. ASSUME NEW bq \in Reqs, CTouch(bq) PROVE PinsTyped' /\ Agree(pool, pins, ptr)'
  BY <1>1, <1>5, TouchStep
<1>6. ASSUME NEW bq \in Reqs, CUnpin(bq) PROVE PinsTyped' /\ Agree(pool, pins, ptr)'
  BY <1>1, <1>6, UnpinStep
<1>7. ASSUME NEW bq \in Reqs, NEW v \in Data, CStore(bq, v)
      PROVE  PinsTyped' /\ Agree(pool, pins, ptr)'
  BY <1>1, <1>7, StoreStep
<1>8. ASSUME CFlush PROVE PinsTyped' /\ Agree(pool, pins, ptr)'
  BY <1>8, FlushStep
<1>9. ASSUME CCrash PROVE PinsTyped' /\ Agree(pool, pins, ptr)'
  BY <1>9, CrashStep
<1>10. CASE UNCHANGED cvars
  BY <1>10 DEF cvars, CInv, PinsTyped
<1> QED BY <1>2, <1>3, <1>4, <1>5, <1>6, <1>7, <1>8, <1>9, <1>10 DEF CNext

-----------------------------------------------------------------------------
(* The pin a caller holds is worth something (bf.c:333-334, 365-366, 383):  *)
(* the page stays buffered, its count is the number of pins held, and every *)
(* pointer handed out for it leads to it.                                   *)
THEOREM PointersStayValid == CSpec => []PointersValid
<1>1. CInv /\ [CNext]_cvars => CInv'
  BY NextCInv
<1>2. CInv => PointersValid
  BY AgreeIsValid DEF CInv, IInv
<1> QED BY InitCInv, <1>1, <1>2, PTL DEF CSpec
-----------------------------------------------------------------------------
(* BF is a paged store. *)

Read(d, bq) == PRead(d, bq.unixfd, bq.pagenum)

\* A linked page belongs to the file it was asked for by.
Named(p) ==
  \A f \in Frame : On(p, f) =>
    \E bq \in Reqs : Holds(p, f, bq) /\ p.page[f].unix_fd = bq.unixfd

\* A client has marked what it has modified before its last unpin.
Marked(p, ps, us) ==
  \A bq \in Reqs :
    /\ ps[bq] = 0 => us[bq] = "idle"
    /\ \A f \in Frame : Holds(p, f, bq) /\ us[bq] = "touched" => p.page[f].dirty

\* A page that is not marked is the same in its file, but for stores that a
\* client is yet to mark.
CleanSame(p, d, us) ==
  \A bq \in Reqs : \A f \in Frame :
    Holds(p, f, bq) /\ ~p.page[f].dirty /\ us[bq] # "stored" =>
      p.page[f].fpage = Read(d, bq)

\* No page is missing in the middle of a file, as read and on the disk: so a
\* write past the end of a file changes nothing that can be read.
InOrder(p, d) ==
  \A a, b \in Reqs : a.fd = b.fd /\ a.pagenum < b.pagenum /\ View(p, d, b) # Absent
                       => View(p, d, a) # Absent
FilesWhole(d) ==
  \A a, b \in Reqs : a.fd = b.fd /\ a.pagenum < b.pagenum /\ Read(d, b) # Absent
                       => Read(d, a) # Absent

Safe(p, d, ps, pt, us) ==
  /\ PoolOK(p) /\ d \in Disks /\ Agree(p, ps, pt)
  /\ Named(p) /\ Marked(p, ps, us) /\ CleanSame(p, d, us)
  /\ InOrder(p, d) /\ FilesWhole(d)

\* What a client reads is what it has read before.
SameView(p, d, q, e) == \A bq \in Reqs : View(q, e, bq) = View(p, d, bq)

\* At most one page that nobody has pinned was copied to its file.
WroteBack(p, d, e, ps) ==
  \/ \A b \in Reqs : Read(e, b) = Read(d, b)
  \/ \E k \in Reqs :
       /\ ps[k] = 0 /\ View(p, d, k) # Absent
       /\ \A b \in Reqs : Read(e, b) =
            IF b = k THEN View(p, d, k)
            ELSE IF b.fd = k.fd /\ b.pagenum < k.pagenum /\ Read(d, b) = Absent
            THEN Zero ELSE Read(d, b)

-----------------------------------------------------------------------------
(* Reading pages. *)

LEMMA ViewHeld ==
  ASSUME NEW p, PoolOK(p), NEW d, NEW bq, NEW f, Holds(p, f, bq)
  PROVE  View(p, d, bq) = p.page[f].fpage /\ p.page[f].fpage \in Data
<1>1. View(p, d, bq) = p.page[f].fpage
  BY HoldsFound DEF View
<1> QED BY <1>1 DEF PoolOK, Pools, BFpage, Holds

LEMMA ViewFile ==
  ASSUME NEW p, PoolOK(p), NEW d, NEW bq, \A f : ~Holds(p, f, bq)
  PROVE  View(p, d, bq) = Read(d, bq)
BY FoundHolds DEF View, Read

LEMMA ReadIs ==
  ASSUME NEW d \in Disks, NEW bq \in Reqs
  PROVE  /\ Read(d, bq) = d.data[<<OpenFiles[bq.unixfd], bq.pagenum>>]
         /\ Read(d, bq) \in Data \cup {Absent}
<1>1. d.open = OpenFiles /\ OpenFiles[bq.unixfd] # Closed
  BY ClientAssumption DEF Disks
<1>2. <<OpenFiles[bq.unixfd], bq.pagenum>> \in DiskPage
  BY DEF DiskPage
<1>3. d.data[<<OpenFiles[bq.unixfd], bq.pagenum>>] \in Data \cup {Absent}
  BY <1>2 DEF Disks
<1> QED BY <1>1, <1>3 DEF Read, PRead

\* Writing a page out changes that page in its file, and fills the hole below.
LEMMA FlushedReads ==
  ASSUME NEW d \in Disks, NEW k \in Reqs, NEW page \in BFpage, page.dirty,
         page.unix_fd = k.unixfd, page.page_num = k.pagenum, NEW b \in Reqs
  PROVE  Read(Flushed(d, page), b) =
           IF b = k THEN page.fpage
           ELSE IF b.fd = k.fd /\ b.pagenum < k.pagenum /\ Read(d, b) = Absent
           THEN Zero ELSE Read(d, b)
<1> DEFINE file == OpenFiles[k.unixfd]
           at == <<OpenFiles[b.unixfd], b.pagenum>>
           data == [l \in DOMAIN d.data |->
                      IF l = <<d.open[k.unixfd], k.pagenum>> THEN page.fpage
                      ELSE IF l[1] = d.open[k.unixfd] /\ l[2] < k.pagenum
                              /\ d.data[l] = Absent
                      THEN Zero ELSE d.data[l]]
<1>1. d.open = OpenFiles /\ DOMAIN d.data = DiskPage /\ file # Closed
  BY ClientAssumption DEF Disks
<1>2. Flushed(d, page) = [d EXCEPT !.data = data]
  BY <1>1 DEF Flushed, CannotFlush, PWrite
<1>3. Flushed(d, page) \in Disks
  BY FlushedOK
<1>4. Flushed(d, page).data = data
  BY <1>2 DEF Disks
<1>5. at \in DiskPage
  BY DEF DiskPage
<1>6. Read(Flushed(d, page), b) = data[at]
  BY <1>3, <1>4, ReadIs
<1>7. data[at] = IF at = <<file, k.pagenum>> THEN page.fpage
                 ELSE IF at[1] = file /\ at[2] < k.pagenum /\ d.data[at] = Absent
                 THEN Zero ELSE d.data[at]
  BY <1>1, <1>5
<1>8. d.data[at] = Read(d, b)
  BY ReadIs
<1>9. at[1] = OpenFiles[b.unixfd] /\ at[2] = b.pagenum
  OBVIOUS
<1>10. OpenFiles[b.unixfd] = file <=> b.fd = k.fd
  BY ClientAssumption
<1>11. at = <<file, k.pagenum>> <=> b = k
  <2>1. at = <<file, k.pagenum>> <=> OpenFiles[b.unixfd] = file /\ b.pagenum = k.pagenum
    OBVIOUS
  <2>2. b.fd = k.fd /\ b.pagenum = k.pagenum <=> b = k
    BY OneReq
  <2> QED BY <1>10, <2>1, <2>2
<1> HIDE DEF at, data, file
<1> QED BY <1>6, <1>7, <1>8, <1>9, <1>10, <1>11

-----------------------------------------------------------------------------
(* A page leaves the pool. *)

LEMMA DropSafe ==
  ASSUME NEW p, NEW d, NEW ps, NEW pt, NEW us, Safe(p, d, ps, pt, us),
         NEW q, PoolOK(q), NEW v, Dropped(p, q, v),
         NEW e, e = Flushed(d, p.page[v])
  PROVE  /\ Safe(q, e, ps, pt, us)
         /\ SameView(p, d, q, e) /\ WroteBack(p, d, e, ps)
<1>1. /\ PoolOK(p) /\ d \in Disks /\ Agree(p, ps, pt)
      /\ Named(p) /\ Marked(p, ps, us) /\ CleanSame(p, d, us)
      /\ InOrder(p, d) /\ FilesWhole(d)
  BY DEF Safe
<1>2. PICK k \in Reqs : Holds(p, v, k) /\ p.page[v].unix_fd = k.unixfd
  BY <1>1 DEF Named, Dropped
<1>3. /\ p.page[v] \in BFpage /\ p.page[v].fpage \in Data
      /\ p.page[v].page_num = k.pagenum /\ View(p, d, k) = p.page[v].fpage
      /\ View(p, d, k) # Absent
  <2>1. p.page[v] \in BFpage /\ p.page[v].page_num = k.pagenum
    BY <1>1, <1>2 DEF Holds, PoolOK, Pools
  <2>2. View(p, d, k) = p.page[v].fpage /\ p.page[v].fpage \in Data
    BY <1>1, <1>2, ViewHeld
  <2> QED BY <2>1, <2>2, PoolAssumption
<1>4. ps[k] = 0 /\ us[k] = "idle"
  BY <1>1, <1>2 DEF Dropped, Holds, Agree, Marked
<1>5. e \in Disks
  BY <1>1, <1>3, FlushedOK
<1>6. /\ p.page[v].dirty => \A b \in Reqs : Read(e, b) =
            IF b = k THEN View(p, d, k)
            ELSE IF b.fd = k.fd /\ b.pagenum < k.pagenum /\ Read(d, b) = Absent
            THEN Zero ELSE Read(d, b)
      /\ ~p.page[v].dirty => e = d
  BY <1>1, <1>2, <1>3, FlushedReads DEF Flushed
<1>7. WroteBack(p, d, e, ps)
  BY <1>3, <1>4, <1>6 DEF WroteBack
<1>8. Read(e, k) = View(p, d, k)
  <2>1. CASE p.page[v].dirty
    BY <1>6, <2>1
  <2>2. CASE ~p.page[v].dirty
    BY <1>1, <1>2, <1>3, <1>4, <1>6, <2>2 DEF CleanSame, Holds
  <2> QED BY <2>1, <2>2
\* Pages that are there read the same in the file.
<1>9. \A b \in Reqs : b # k /\ Read(d, b) # Absent => Read(e, b) = Read(d, b)
  BY <1>6
<1>10. \A b \in Reqs : b # k /\ View(p, d, b) = Read(d, b) => Read(e, b) = Read(d, b)
  <2> SUFFICES ASSUME NEW b \in Reqs, b # k, View(p, d, b) = Read(d, b)
               PROVE  Read(e, b) = Read(d, b)
    OBVIOUS
  <2>1. b.fd = k.fd /\ b.pagenum < k.pagenum => Read(d, b) # Absent
    BY <1>1, <1>3 DEF InOrder
  <2> QED BY <1>6, <2>1
<1>11. ASSUME NEW b \in Reqs, b # k
       PROVE  \A f : Holds(q, f, b) <=> Holds(p, f, b)
  <2>1. ~Holds(p, v, b)
    BY <1>2, <1>11, OneReq DEF Holds
  <2> QED BY <2>1 DEF Holds, Dropped
<1>12. \A f : ~Holds(q, f, k)
  <2>1. ASSUME NEW f, Holds(q, f, k) PROVE FALSE
    <3>1. Holds(p, f, k) /\ f # v
      BY <2>1 DEF Holds, Dropped
    <3> QED BY <1>1, <1>2, <3>1, OneHolds
  <2> QED BY <2>1
<1>13. \A b \in Reqs : \A f : Holds(q, f, b) => Holds(p, f, b) /\ b # k /\ q.page[f] = p.page[f]
  BY <1>11, <1>12 DEF Holds, Dropped
<1>14. SameView(p, d, q, e)
  <2> SUFFICES ASSUME NEW b \in Reqs PROVE View(q, e, b) = View(p, d, b)
    BY DEF SameView
  <2>1. CASE b = k
    BY <1>8, <1>12, <2>1, ViewFile
  <2>2. CASE b # k /\ \E f : Holds(p, f, b)
    <3>1. PICK f : Holds(p, f, b)
      BY <2>2
    <3>2. Holds(q, f, b) /\ q.page[f] = p.page[f]
      BY <1>11, <1>13, <2>2, <3>1
    <3> QED BY <1>1, <3>1, <3>2, ViewHeld
  <2>3. CASE b # k /\ \A f : ~Holds(p, f, b)
    <3>1. View(p, d, b) = Read(d, b)
      BY <1>1, <2>3, ViewFile
    <3>2. View(q, e, b) = Read(e, b)
      BY <1>11, <2>3, ViewFile
    <3> QED BY <1>10, <2>3, <3>1, <3>2
  <2> QED BY <2>1, <2>2, <2>3
<1>15. InOrder(q, e)
  BY <1>1, <1>14 DEF InOrder, SameView
<1>16. FilesWhole(e)
  <2> SUFFICES ASSUME NEW a \in Reqs, NEW b \in Reqs, a.fd = b.fd, a.pagenum < b.pagenum,
                      Read(e, b) # Absent
               PROVE  Read(e, a) # Absent
    BY DEF FilesWhole
  <2>1. a.pagenum \in Nat /\ b.pagenum \in Nat /\ k.pagenum \in Nat
    BY ReqIs, PoolAssumption DEF BFreq
  <2>2. Zero # Absent
    BY PoolAssumption
  <2>3. CASE ~p.page[v].dirty
    BY <1>1, <1>6, <2>3 DEF FilesWhole
  <2>4. CASE p.page[v].dirty
    <3>1. CASE a.fd = k.fd /\ a.pagenum < k.pagenum
      BY <1>3, <1>6, <2>2, <2>4, <3>1
    <3>2. CASE a = k
      BY <1>3, <1>8, <3>2
    <3>3. CASE a # k /\ ~(a.fd = k.fd /\ a.pagenum < k.pagenum)
      <4>1. Read(e, a) = Read(d, a)
        BY <1>6, <2>4, <3>3
      <4>2. b # k /\ ~(b.fd = k.fd /\ b.pagenum < k.pagenum)
        BY <2>1, <3>3
      <4>3. Read(e, b) = Read(d, b)
        BY <1>6, <2>4, <4>2
      <4> QED BY <1>1, <4>1, <4>3 DEF FilesWhole
    <3> QED BY <3>1, <3>2, <3>3
  <2> QED BY <2>3, <2>4
<1>17. Agree(q, ps, pt)
  BY <1>1, AgreeDropped
<1>18. Named(q)
  <2> SUFFICES ASSUME NEW f \in Frame, On(q, f)
               PROVE  \E b \in Reqs : Holds(q, f, b) /\ q.page[f].unix_fd = b.unixfd
    BY DEF Named
  <2>1. On(p, f) /\ f # v /\ q.page[f] = p.page[f]
    BY DEF Dropped
  <2> QED BY <1>1, <2>1 DEF Named, Holds
<1>19. Marked(q, ps, us)
  BY <1>1, <1>13 DEF Marked
<1>20. CleanSame(q, e, us)
  <2> SUFFICES ASSUME NEW b \in Reqs, NEW f \in Frame, Holds(q, f, b), ~q.page[f].dirty,
                      us[b] # "stored"
               PROVE  q.page[f].fpage = Read(e, b)
    BY DEF CleanSame
  <2>1. Holds(p, f, b) /\ b # k /\ q.page[f] = p.page[f]
    BY <1>13
  <2>2. p.page[f].fpage = Read(d, b) /\ Read(d, b) # Absent
    BY <1>1, <2>1, ViewHeld, PoolAssumption DEF CleanSame
  <2> QED BY <1>9, <2>1, <2>2
<1> QED BY <1>5, <1>7, <1>14, <1>15, <1>16, <1>17, <1>18, <1>19, <1>20 DEF Safe

\* Making room for a page.
LEMMA RoomSafe ==
  ASSUME NEW p, NEW d, NEW ps, NEW pt, NEW us, Safe(p, d, ps, pt, us), HasRoom(p, d),
         NEW q, q = MakeRoom(p), NEW e, e = RoomDisk(p, d)
  PROVE  /\ Safe(q, e, ps, pt, us)
         /\ SameView(p, d, q, e) /\ WroteBack(p, d, e, ps)
<1>1. PoolOK(p) /\ PoolOK(q)
  BY MakeRoomOK DEF Safe
<1>2. CASE q = p /\ p.free # <<>>
  <2>1. e = d
    BY <1>2 DEF RoomDisk
  <2> QED BY <1>2, <2>1 DEF SameView, WroteBack
<1>3. CASE p.free = <<>> /\ Dropped(p, q, Victim(p))
  <2>1. e = Flushed(d, p.page[Victim(p)])
    BY <1>3 DEF RoomDisk
  <2> QED BY <1>1, <1>3, <2>1, DropSafe
<1> QED BY <1>1, <1>2, <1>3, MakeRoomDoes

-----------------------------------------------------------------------------
(* The other changes. *)

\* Only bq's pins and use change.
Only(bq, ps, us, ps2, us2) ==
  \A b \in Reqs : b # bq => ps2[b] = ps[b] /\ us2[b] = us[b]

LEMMA SameLinkedSafe ==
  ASSUME NEW p, NEW d, NEW ps, NEW pt, NEW us, Safe(p, d, ps, pt, us),
         NEW q, PoolOK(q), SameLinked(p, q)
  PROVE  Safe(q, d, ps, pt, us) /\ SameView(p, d, q, d)
<1>1. /\ PoolOK(p) /\ d \in Disks /\ Agree(p, ps, pt)
      /\ Named(p) /\ Marked(p, ps, us) /\ CleanSame(p, d, us)
      /\ InOrder(p, d) /\ FilesWhole(d)
  BY DEF Safe
<1>2. \A b : \A f : /\ Holds(q, f, b) <=> Holds(p, f, b)
                    /\ Holds(p, f, b) => q.page[f] = p.page[f]
  BY DEF Holds, SameLinked
<1>3. ASSUME NEW b \in Reqs PROVE View(q, d, b) = View(p, d, b)
  <2>1. CASE \E f : Holds(p, f, b)
    <3>1. PICK f : Holds(p, f, b)
      BY <2>1
    <3> QED BY <1>1, <1>2, <3>1, ViewHeld
  <2>2. CASE \A f : ~Holds(p, f, b)
    BY <1>1, <1>2, <2>2, ViewFile
  <2> QED BY <2>1, <2>2
<1>4. SameView(p, d, q, d) /\ InOrder(q, d)
  BY <1>1, <1>3 DEF SameView, InOrder
<1>5. Agree(q, ps, pt)
  BY <1>1, AgreeSame
<1>6. Named(q)
  BY <1>1, <1>2 DEF Named, SameLinked
<1>7. Marked(q, ps, us) /\ CleanSame(q, d, us)
  BY <1>1, <1>2 DEF Marked, CleanSame
<1> QED BY <1>1, <1>4, <1>5, <1>6, <1>7 DEF Safe

\* A page that is there is pinned, unpinned, marked or stored into.
LEMMA ChangedSafe ==
  ASSUME NEW p, NEW d, NEW ps, NEW pt, NEW us, Safe(p, d, ps, pt, us),
         NEW q, PoolOK(q), NEW bq \in Reqs, NEW f, Holds(p, f, bq),
         NEW page, Changed(p, q, f, page),
         page.fd = p.page[f].fd, page.page_num = p.page[f].page_num,
         page.unix_fd = p.page[f].unix_fd, page.fpage \in Data,
         NEW ps2, NEW pt2, NEW us2, Agree(q, ps2, pt2),
         Only(bq, ps, us, ps2, us2),
         ps2[bq] = 0 => us2[bq] = "idle",
         us2[bq] = "touched" => page.dirty,
         ~page.dirty /\ us2[bq] # "stored" => page.fpage = Read(d, bq)
  PROVE  /\ Safe(q, d, ps2, pt2, us2)
         /\ \A b \in Reqs : View(q, d, b) = IF b = bq THEN page.fpage ELSE View(p, d, b)
<1>1. /\ PoolOK(p) /\ d \in Disks
      /\ Named(p) /\ Marked(p, ps, us) /\ CleanSame(p, d, us)
      /\ InOrder(p, d) /\ FilesWhole(d)
  BY DEF Safe
<1>2. \A b : \A g : Holds(q, g, b) <=> Holds(p, g, b)
  BY DEF Holds, Changed
<1>3. q.page[f] = page
  BY DEF Changed, Holds
<1>4. \A b \in Reqs : \A g : Holds(p, g, b) /\ b # bq => g # f /\ q.page[g] = p.page[g]
  <2>1. \A b \in Reqs : Holds(p, f, b) => b = bq
    BY OneReq DEF Holds
  <2> QED BY <2>1 DEF Changed, Holds
<1>5. \A g : Holds(p, g, bq) => g = f
  BY <1>1, OneHolds
<1>6. ASSUME NEW b \in Reqs
      PROVE  View(q, d, b) = IF b = bq THEN page.fpage ELSE View(p, d, b)
  <2>1. CASE b = bq
    BY <1>2, <1>3, <2>1, ViewHeld
  <2>2. CASE b # bq /\ \E g : Holds(p, g, b)
    <3>1. PICK g : Holds(p, g, b)
      BY <2>2
    <3> QED BY <1>1, <1>2, <1>4, <2>2, <3>1, ViewHeld
  <2>3. CASE b # bq /\ \A g : ~Holds(p, g, b)
    BY <1>1, <1>2, <2>3, ViewFile
  <2> QED BY <2>1, <2>2, <2>3
<1>7. \A b \in Reqs : View(q, d, b) # Absent <=> View(p, d, b) # Absent
  BY <1>1, <1>6, ViewHeld, PoolAssumption
<1>8. InOrder(q, d)
  BY <1>1, <1>7 DEF InOrder
<1>9. Named(q)
  <2> SUFFICES ASSUME NEW g \in Frame, On(q, g)
               PROVE  \E b \in Reqs : Holds(q, g, b) /\ q.page[g].unix_fd = b.unixfd
    BY DEF Named
  <2>1. PICK b \in Reqs : Holds(p, g, b) /\ p.page[g].unix_fd = b.unixfd
    BY <1>1 DEF Named, Changed
  <2> QED BY <1>2, <2>1 DEF Changed
<1>10. Marked(q, ps2, us2)
  <2> SUFFICES ASSUME NEW b \in Reqs
               PROVE  /\ ps2[b] = 0 => us2[b] = "idle"
                      /\ \A g \in Frame : Holds(q, g, b) /\ us2[b] = "touched" => q.page[g].dirty
    BY DEF Marked
  <2>1. CASE b = bq
    BY <1>2, <1>3, <1>5, <2>1
  <2>2. CASE b # bq
    BY <1>1, <1>2, <1>4, <2>2 DEF Marked, Only
  <2> QED BY <2>1, <2>2
<1>11. CleanSame(q, d, us2)
  <2> SUFFICES ASSUME NEW b \in Reqs, NEW g \in Frame, Holds(q, g, b), ~q.page[g].dirty,
                      us2[b] # "stored"
               PROVE  q.page[g].fpage = Read(d, b)
    BY DEF CleanSame
  <2>1. CASE b = bq
    BY <1>2, <1>3, <1>5, <2>1
  <2>2. CASE b # bq
    BY <1>1, <1>2, <1>4, <2>2 DEF CleanSame, Only
  <2> QED BY <2>1, <2>2
<1> QED BY <1>1, <1>6, <1>8, <1>9, <1>10, <1>11 DEF Safe

\* The pages before bq are there.
Below(p, d, bq) ==
  \A a \in Reqs : a.fd = bq.fd /\ a.pagenum < bq.pagenum => View(p, d, a) # Absent

\* A page that was not there is read or made.
LEMMA LinkedSafe ==
  ASSUME NEW p, NEW d, NEW ps, NEW pt, NEW us, Safe(p, d, ps, pt, us),
         NEW q, PoolOK(q), NEW bq \in Reqs, ~InBuf(p, bq.fd, bq.pagenum),
         NEW f, NEW c \in Data, Linked(p, q, f, NewPage(bq, c, 1)),
         NEW ps2, NEW pt2, NEW us2, Agree(q, ps2, pt2),
         Only(bq, ps, us, ps2, us2),
         ps2[bq] = 1, us2[bq] = "stored" \/ (us2[bq] = "idle" /\ c = Read(d, bq)),
         Below(p, d, bq)
  PROVE  /\ Safe(q, d, ps2, pt2, us2)
         /\ \A b \in Reqs : View(q, d, b) = IF b = bq THEN c ELSE View(p, d, b)
<1>1. /\ PoolOK(p) /\ d \in Disks
      /\ Named(p) /\ Marked(p, ps, us) /\ CleanSame(p, d, us)
      /\ InOrder(p, d) /\ FilesWhole(d)
  BY DEF Safe
<1> DEFINE page == NewPage(bq, c, 1)
<1>2. /\ page.fd = bq.fd /\ page.page_num = bq.pagenum /\ page.unix_fd = bq.unixfd
      /\ page.fpage = c
  BY DEF NewPage
<1>3. Linked(p, q, f, page)
  OBVIOUS
<1> HIDE DEF page
<1>4. Holds(q, f, bq) /\ q.page[f] = page
  BY <1>2, <1>3 DEF Holds, Linked
<1>5. \A g : ~Holds(p, g, bq)
  BY <1>1, HoldsFound
<1>6. \A g : Holds(q, g, bq) => g = f
  BY <1>4, OneHolds
<1>7. \A b \in Reqs : \A g : b # bq => /\ Holds(q, g, b) <=> Holds(p, g, b)
                                       /\ Holds(p, g, b) => q.page[g] = p.page[g]
  <2>1. \A b \in Reqs : Holds(q, f, b) => b = bq
    BY <1>4, OneReq DEF Holds
  <2> QED BY <1>3, <2>1 DEF Linked, Holds
<1>8. ASSUME NEW b \in Reqs
      PROVE  View(q, d, b) = IF b = bq THEN c ELSE View(p, d, b)
  <2>1. CASE b = bq
    BY <1>2, <1>4, <2>1, ViewHeld
  <2>2. CASE b # bq /\ \E g : Holds(p, g, b)
    <3>1. PICK g : Holds(p, g, b)
      BY <2>2
    <3> QED BY <1>1, <1>7, <2>2, <3>1, ViewHeld
  <2>3. CASE b # bq /\ \A g : ~Holds(p, g, b)
    BY <1>1, <1>7, <2>3, ViewFile
  <2> QED BY <2>1, <2>2, <2>3
<1>9. InOrder(q, d)
  <2> SUFFICES ASSUME NEW a \in Reqs, NEW b \in Reqs, a.fd = b.fd, a.pagenum < b.pagenum,
                      View(q, d, b) # Absent
               PROVE  View(q, d, a) # Absent
    BY DEF InOrder
  <2>1. CASE a = bq
    BY <1>8, <2>1, PoolAssumption
  <2>2. CASE a # bq /\ b = bq
    BY <1>8, <2>2 DEF Below
  <2>3. CASE a # bq /\ b # bq
    BY <1>1, <1>8, <2>3 DEF InOrder
  <2> QED BY <2>1, <2>2, <2>3
<1>10. Named(q)
  <2> SUFFICES ASSUME NEW g \in Frame, On(q, g)
               PROVE  \E b \in Reqs : Holds(q, g, b) /\ q.page[g].unix_fd = b.unixfd
    BY DEF Named
  <2>1. CASE g = f
    BY <1>2, <1>4, <2>1
  <2>2. CASE g # f
    <3>1. PICK b \in Reqs : Holds(p, g, b) /\ p.page[g].unix_fd = b.unixfd
      BY <1>1, <1>3, <2>2 DEF Named, Linked
    <3> QED BY <1>5, <1>7, <3>1
  <2> QED BY <2>1, <2>2
<1>11. Marked(q, ps2, us2)
  <2> SUFFICES ASSUME NEW b \in Reqs
               PROVE  /\ ps2[b] = 0 => us2[b] = "idle"
                      /\ \A g \in Frame : Holds(q, g, b) /\ us2[b] = "touched" => q.page[g].dirty
    BY DEF Marked
  <2>1. CASE b = bq
    BY <2>1
  <2>2. CASE b # bq
    BY <1>1, <1>7, <2>2 DEF Marked, Only
  <2> QED BY <2>1, <2>2
<1>12. CleanSame(q, d, us2)
  <2> SUFFICES ASSUME NEW b \in Reqs, NEW g \in Frame, Holds(q, g, b), ~q.page[g].dirty,
                      us2[b] # "stored"
               PROVE  q.page[g].fpage = Read(d, b)
    BY DEF CleanSame
  <2>1. CASE b = bq
    BY <1>2, <1>4, <1>6, <2>1
  <2>2. CASE b # bq
    BY <1>1, <1>7, <2>2 DEF CleanSame, Only
  <2> QED BY <2>1, <2>2
<1> QED BY <1>1, <1>8, <1>9, <1>10, <1>11, <1>12 DEF Safe

-----------------------------------------------------------------------------
(* Pages of the store and requests. *)

Key(bq) == <<bq.fd, bq.pagenum>>

LEMMA KeyOfReq ==
  ASSUME NEW bq \in Reqs
  PROVE  Key(bq) \in PageKey /\ ReqOf(Key(bq)) = bq
<1>1. Key(bq) \in PageKey
  BY DEF Key, PageKey
<1>2. \A b \in Reqs : <<b.fd, b.pagenum>> = Key(bq) <=> b = bq
  BY OneReq DEF Key
<1> QED BY <1>1, <1>2 DEF ReqOf

LEMMA ReqOfKey ==
  ASSUME NEW k \in PageKey
  PROVE  /\ ReqOf(k) \in Reqs /\ Key(ReqOf(k)) = k
         /\ k[1] = ReqOf(k).fd /\ k[2] = ReqOf(k).pagenum
<1>1. PICK b \in Reqs : k = <<b.fd, b.pagenum>>
  BY DEF PageKey
<1>2. ReqOf(k) = b
  BY <1>1, KeyOfReq DEF Key
<1> QED BY <1>1, <1>2 DEF Key

\* The variables of the store, page by page.
LEMMA Mapped ==
  ASSUME NEW bq \in Reqs
  PROVE  /\ [k \in PageKey |-> View(pool, disk, ReqOf(k))][Key(bq)] = View(pool, disk, bq)
         /\ [k \in PageKey |-> pins[ReqOf(k)]][Key(bq)] = pins[bq]
BY KeyOfReq

LEMMA SameContent ==
  ASSUME SameView(pool, disk, pool', disk')
  PROVE  [k \in PageKey |-> View(pool', disk', ReqOf(k))]
           = [k \in PageKey |-> View(pool, disk, ReqOf(k))]
BY ReqOfKey DEF SameView

LEMMA SameDurable ==
  ASSUME \A b \in Reqs : Read(disk', b) = Read(disk, b)
  PROVE  [k \in PageKey |-> PRead(disk', ReqOf(k).unixfd, k[2])]
           = [k \in PageKey |-> PRead(disk, ReqOf(k).unixfd, k[2])]
<1>1. \A k \in PageKey : PRead(disk', ReqOf(k).unixfd, k[2]) = PRead(disk, ReqOf(k).unixfd, k[2])
  BY ReqOfKey DEF Read
<1> QED BY <1>1

LEMMA PinsChange ==
  ASSUME NEW bq \in Reqs, NEW n, PinsTyped, pins' = [pins EXCEPT ![bq] = n]
  PROVE  [k \in PageKey |-> pins'[ReqOf(k)]]
           = [[k \in PageKey |-> pins[ReqOf(k)]] EXCEPT ![Key(bq)] = n]
<1>1. \A k \in PageKey : pins'[ReqOf(k)] = IF k = Key(bq) THEN n ELSE pins[ReqOf(k)]
  BY ReqOfKey, KeyOfReq DEF PinsTyped
<1> QED BY <1>1, KeyOfReq

LEMMA ContentChange ==
  ASSUME NEW bq \in Reqs, NEW v,
         \A b \in Reqs : View(pool', disk', b) = IF b = bq THEN v ELSE View(pool, disk, b)
  PROVE  [k \in PageKey |-> View(pool', disk', ReqOf(k))]
           = [[k \in PageKey |-> View(pool, disk, ReqOf(k))] EXCEPT ![Key(bq)] = v]
<1>1. \A k \in PageKey : View(pool', disk', ReqOf(k)) =
        IF k = Key(bq) THEN v ELSE View(pool, disk, ReqOf(k))
  BY ReqOfKey, KeyOfReq
<1> QED BY <1>1, KeyOfReq

LEMMA WroteBackIs ==
  ASSUME WroteBack(pool, disk, disk', pins)
  PROVE  Store!WriteBack
<1> DEFINE content == [k \in PageKey |-> View(pool, disk, ReqOf(k))]
           durable == [k \in PageKey |-> PRead(disk, ReqOf(k).unixfd, k[2])]
           after == [k \in PageKey |-> PRead(disk', ReqOf(k).unixfd, k[2])]
<1>1. CASE \A b \in Reqs : Read(disk', b) = Read(disk, b)
  <2>1. after = durable
    BY <1>1, SameDurable
  <2> QED BY <2>1 DEF Store!WriteBack
<1>2. ASSUME NEW b \in Reqs,
             pins[b] = 0, View(pool, disk, b) # Absent,
             \A a \in Reqs : Read(disk', a) =
               IF a = b THEN View(pool, disk, b)
               ELSE IF a.fd = b.fd /\ a.pagenum < b.pagenum /\ Read(disk, a) = Absent
               THEN Zero ELSE Read(disk, a)
      PROVE  Store!WriteBack
  <2> DEFINE k == Key(b)
             written == [l \in PageKey |->
                  IF l = k THEN content[k]
                  ELSE IF l[1] = k[1] /\ l[2] < k[2] /\ durable[l] = Absent
                       THEN Zero ELSE durable[l]]
  <2>1. /\ k \in PageKey /\ content[k] = View(pool, disk, b)
        /\ [l \in PageKey |-> pins[ReqOf(l)]][k] = 0
        /\ k[1] = b.fd /\ k[2] = b.pagenum
    BY <1>2, KeyOfReq, Mapped DEF Key
  <2>2. ASSUME NEW l \in PageKey PROVE after[l] = written[l]
    <3>1. /\ ReqOf(l) \in Reqs /\ l[1] = ReqOf(l).fd /\ l[2] = ReqOf(l).pagenum
          /\ Key(ReqOf(l)) = l /\ (l = k <=> ReqOf(l) = b)
      BY <2>2, ReqOfKey, KeyOfReq
    <3>2. after[l] = Read(disk', ReqOf(l)) /\ durable[l] = Read(disk, ReqOf(l))
      BY <2>2, <3>1 DEF Read
    <3> HIDE DEF after, durable, content, k
    <3>3. written[l] = IF l = k THEN content[k]
                       ELSE IF l[1] = k[1] /\ l[2] < k[2] /\ durable[l] = Absent
                       THEN Zero ELSE durable[l]
      BY <2>2
    <3> HIDE DEF written
    <3> QED BY <1>2, <2>1, <3>1, <3>2, <3>3
  <2>3. after = written
    BY <2>2
  <2>4. Store!Written(k) = written
    BY DEF Store!Written
  <2> HIDE DEF k, written
  <2> QED BY <1>2, <2>1, <2>3, <2>4 DEF Store!WriteBack
<1> QED BY <1>1, <1>2 DEF WroteBack

\* A step that only moves pages.
LEMMA StoreClean ==
  ASSUME SameView(pool, disk, pool', disk'), WroteBack(pool, disk, disk', pins),
         pins' = pins
  PROVE  Store!Next
<1>1. Store!Clean
  BY SameContent, WroteBackIs DEF Store!Clean
<1> QED BY <1>1 DEF Store!Next

-----------------------------------------------------------------------------
(* The steps. *)

SInv == CInv /\ use \in [Reqs -> Uses] /\ Safe(pool, disk, pins, ptr, use)

SafeNext == use' \in [Reqs -> Uses] /\ Safe(pool', disk', pins', ptr', use')

LEMMA Parts ==
  ASSUME SInv
  PROVE  /\ CInv /\ PinsTyped /\ use \in [Reqs -> Uses] /\ Safe(pool, disk, pins, ptr, use)
         /\ PoolOK(pool) /\ disk \in Disks /\ Marked(pool, pins, use)
         /\ CleanSame(pool, disk, use) /\ InOrder(pool, disk)
BY DEF SInv, CInv, IInv, Safe

LEMMA SGet ==
  ASSUME SInv, CInv', NEW bq \in Reqs, CGet(bq)
  PROVE  SafeNext /\ Store!Next
<1>1. /\ PoolOK(pool) /\ disk \in Disks /\ PoolOK(pool') /\ Agree(pool', pins', ptr')
      /\ PinsTyped /\ Safe(pool, disk, pins, ptr, use) /\ use' = use
      /\ View(pool, disk, bq) # Absent
      /\ pins' = [pins EXCEPT ![bq] = pins[bq] + 1]
  BY Parts DEF CInv, IInv, CGet, Exists
<1>2. /\ pins[bq] \in Nat /\ pins'[bq] = pins[bq] + 1
      /\ \A b \in Reqs : b # bq => pins'[b] = pins[b]
  BY <1>1, ClientAssumption, PoolAssumption DEF PinsTyped
<1>3. /\ Safe(pool', disk', pins', ptr', use)
      /\ SameView(pool, disk, pool', disk') /\ WroteBack(pool, disk, disk', pins)
  <2>1. CASE GetBufHit(bq)
    <3> DEFINE f == FrameOf(pool, bq.fd, bq.pagenum)
               page == [pool.page[f] EXCEPT !.count = ShortInc(@)]
    <3>1. Holds(pool, f, bq) /\ pool' = GetHit(pool, bq) /\ disk' = disk
      BY <1>1, <2>1, FoundHolds DEF GetBufHit, Buffered
    <3> HIDE DEF f
    <3>2. Changed(pool, pool', f, page)
      BY <1>1, <3>1, ReqIs, HitDoes
    <3>3. pool.page[f] \in BFpage
      BY <1>1, <3>1 DEF Holds, PoolOK, Pools
    <3>4. /\ page.fd = pool.page[f].fd /\ page.page_num = pool.page[f].page_num
          /\ page.unix_fd = pool.page[f].unix_fd /\ page.fpage = pool.page[f].fpage
          /\ page.dirty = pool.page[f].dirty /\ page.fpage \in Data
      BY <3>3 DEF BFpage
    <3> HIDE DEF page
    <3>5. /\ use[bq] = "touched" => page.dirty
          /\ ~page.dirty /\ use[bq] # "stored" => page.fpage = Read(disk, bq)
      BY <3>1, <3>4, Parts DEF Marked, CleanSame, Holds
    <3>6. pins'[bq] # 0 /\ Only(bq, pins, use, pins', use)
      BY <1>2 DEF Only
    <3>7. /\ Safe(pool', disk, pins', ptr', use)
          /\ \A b \in Reqs : View(pool', disk, b) =
               IF b = bq THEN page.fpage ELSE View(pool, disk, b)
      <4>1. /\ Safe(pool, disk, pins, ptr, use) /\ PoolOK(pool')
            /\ Holds(pool, f, bq) /\ Changed(pool, pool', f, page)
            /\ page.fd = pool.page[f].fd /\ page.page_num = pool.page[f].page_num
            /\ page.unix_fd = pool.page[f].unix_fd /\ page.fpage \in Data
            /\ Agree(pool', pins', ptr') /\ Only(bq, pins, use, pins', use)
            /\ pins'[bq] = 0 => use[bq] = "idle"
            /\ use[bq] = "touched" => page.dirty
            /\ ~page.dirty /\ use[bq] # "stored" => page.fpage = Read(disk, bq)
        BY <1>1, <3>1, <3>2, <3>4, <3>5, <3>6
      <4> QED BY <4>1, ChangedSafe
    <3>8. View(pool, disk, bq) = page.fpage
      BY <1>1, <3>1, <3>4, ViewHeld
    <3> QED BY <3>1, <3>7, <3>8 DEF SameView, WroteBack
  <2>2. CASE GetBufMiss(bq)
    <3> DEFINE q == MakeRoom(pool)
               f == Head(q.free)
               c == Readable(pool, disk, bq)
    <3>1. /\ ~InBuf(pool, bq.fd, bq.pagenum) /\ HasRoom(pool, disk) /\ c \in Data
          /\ pool' = GetMiss(pool, disk, bq) /\ disk' = RoomDisk(pool, disk)
      BY <1>1, <2>2, ReadableOK DEF GetBufMiss, Buffered
    <3>2. Linked(q, pool', f, NewPage(bq, c, 1))
      BY <1>1, <3>1, ReqIs, MissDoes
    <3>3. /\ Safe(q, disk', pins, ptr, use)
          /\ SameView(pool, disk, q, disk') /\ WroteBack(pool, disk, disk', pins)
      BY <1>1, <3>1, RoomSafe
    <3>4. PoolOK(q) /\ ~InBuf(q, bq.fd, bq.pagenum)
      BY <1>1, <3>1, MakeRoomOK, StillAbsent
    <3>5. c = Read(disk', bq)
      BY <3>1 DEF Readable, Read
    <3> HIDE DEF q, f, c
    <3>6. pins[bq] = 0 /\ use[bq] = "idle"
      BY <3>1, Parts, PinnedPage DEF Marked
    <3>7. Below(q, disk', bq)
      BY <1>1, <3>3, Parts DEF InOrder, SameView, Below
    <3>8. /\ pins'[bq] = 1 /\ use[bq] = "idle" /\ c \in Data
          /\ Only(bq, pins, use, pins', use)
      BY <1>2, <3>1, <3>6 DEF Only
    <3>9. /\ Safe(pool', disk', pins', ptr', use)
          /\ \A b \in Reqs : View(pool', disk', b) = IF b = bq THEN c ELSE View(q, disk', b)
      <4>1. /\ Safe(q, disk', pins, ptr, use) /\ PoolOK(pool')
            /\ ~InBuf(q, bq.fd, bq.pagenum) /\ c \in Data
            /\ Linked(q, pool', f, NewPage(bq, c, 1))
            /\ Agree(pool', pins', ptr') /\ Only(bq, pins, use, pins', use)
            /\ pins'[bq] = 1 /\ use[bq] = "idle" /\ c = Read(disk', bq)
        BY <1>1, <3>2, <3>3, <3>4, <3>5, <3>8
      <4> QED BY <3>7, <4>1, LinkedSafe
    <3>10. View(q, disk', bq) = c
      BY <3>4, <3>5, HoldsFound, ViewFile
    <3> QED BY <3>3, <3>9, <3>10 DEF SameView
  <2> QED BY <2>1, <2>2 DEF CGet
<1>4. Store!Pin(Key(bq))
  <2>1. [k \in PageKey |-> View(pool, disk, ReqOf(k))][Key(bq)] # Absent
    BY <1>1, Mapped
  <2>2. [k \in PageKey |-> pins'[ReqOf(k)]]
          = [[k \in PageKey |-> pins[ReqOf(k)]] EXCEPT
               ![Key(bq)] = [k \in PageKey |-> pins[ReqOf(k)]][Key(bq)] + 1]
    BY <1>1, PinsChange, Mapped
  <2> QED BY <1>3, <2>1, <2>2, SameContent, WroteBackIs DEF Store!Pin
<1>5. Store!Next
  BY <1>4, KeyOfReq DEF Store!Next
<1> QED BY <1>1, <1>3, <1>5, Parts DEF SafeNext

LEMMA SAlloc ==
  ASSUME SInv, CInv', NEW bq \in Reqs, CAlloc(bq)
  PROVE  SafeNext /\ Store!Next
<1> DEFINE q == MakeRoom(pool)
           f == Head(q.free)
<1>1. /\ PoolOK(pool) /\ PoolOK(pool') /\ Agree(pool', pins', ptr')
      /\ PinsTyped /\ Safe(pool, disk, pins, ptr, use)
      /\ use \in [Reqs -> Uses] /\ use' = [use EXCEPT ![bq] = "stored"]
      /\ View(pool, disk, bq) = Absent /\ IsNext(bq)
      /\ pins' = [pins EXCEPT ![bq] = 1]
      /\ ~InBuf(pool, bq.fd, bq.pagenum) /\ HasRoom(pool, disk)
      /\ pool' = Alloc(pool, bq) /\ disk' = RoomDisk(pool, disk)
  BY Parts DEF CInv, IInv, CAlloc, AllocBuf, Buffered, Exists
<1>2. Linked(q, pool', f, NewPage(bq, Zero, 1)) /\ Zero \in Data
  BY <1>1, ReqIs, AllocDoes, PoolAssumption
<1>3. /\ Safe(q, disk', pins, ptr, use)
      /\ SameView(pool, disk, q, disk') /\ WroteBack(pool, disk, disk', pins)
  BY <1>1, RoomSafe
<1>4. ~InBuf(q, bq.fd, bq.pagenum)
  BY <1>1, MakeRoomOK, StillAbsent
<1> HIDE DEF q, f
<1>5. pins[bq] = 0
  BY <1>1, Parts, PinnedPage
<1>6. Below(q, disk', bq)
  BY <1>1, <1>3 DEF IsNext, Exists, SameView, Below
<1>7. /\ pins'[bq] = 1 /\ use'[bq] = "stored"
      /\ Only(bq, pins, use, pins', use')
      /\ use' \in [Reqs -> Uses]
  BY <1>1 DEF PinsTyped, Uses, Only
<1>8. /\ Safe(pool', disk', pins', ptr', use')
      /\ \A b \in Reqs : View(pool', disk', b) = IF b = bq THEN Zero ELSE View(q, disk', b)
  <2>1. /\ Safe(q, disk', pins, ptr, use) /\ PoolOK(pool')
        /\ ~InBuf(q, bq.fd, bq.pagenum) /\ Zero \in Data
        /\ Linked(q, pool', f, NewPage(bq, Zero, 1))
        /\ Agree(pool', pins', ptr') /\ Only(bq, pins, use, pins', use')
        /\ pins'[bq] = 1 /\ use'[bq] = "stored"
    BY <1>1, <1>2, <1>3, <1>4, <1>7
  <2> QED BY <1>6, <2>1, LinkedSafe
<1>9. \A b \in Reqs : View(pool', disk', b) = IF b = bq THEN Zero ELSE View(pool, disk, b)
  BY <1>3, <1>8 DEF SameView
<1>10. Store!Create(Key(bq))
  <2>1. [k \in PageKey |-> View(pool, disk, ReqOf(k))][Key(bq)] = Absent
    BY <1>1, Mapped
  <2> DEFINE held == [k \in PageKey |-> pins[ReqOf(k)]][Key(bq)]
  <2>2. held + 1 = 1
    <3>1. held = 0
      BY <1>5, Mapped
    <3> HIDE DEF held
    <3> QED BY <3>1
  <2>3. [k \in PageKey |-> pins'[ReqOf(k)]]
          = [[k \in PageKey |-> pins[ReqOf(k)]] EXCEPT
               ![Key(bq)] = [k \in PageKey |-> pins[ReqOf(k)]][Key(bq)] + 1]
    BY <1>1, <2>2, PinsChange
  <2> QED BY <1>3, <1>9, <2>1, <2>3, ContentChange, WroteBackIs DEF Store!Create
<1>11. Store!Next
  BY <1>10, KeyOfReq DEF Store!Next
<1> QED BY <1>7, <1>8, <1>11 DEF SafeNext

LEMMA SFail ==
  ASSUME SInv, CInv', NEW bq \in Reqs, CGetFails(bq) \/ CAllocFails(bq)
  PROVE  SafeNext /\ Store!Next
<1>1. /\ PoolOK(pool) /\ PoolOK(pool')
      /\ Safe(pool, disk, pins, ptr, use) /\ use \in [Reqs -> Uses]
      /\ use' = use /\ pins' = pins /\ ptr' = ptr
  BY Parts DEF CGetFails, CAllocFails, CInv, IInv
<1>2. /\ Safe(pool', disk', pins, ptr, use)
      /\ SameView(pool, disk, pool', disk') /\ WroteBack(pool, disk, disk', pins)
  <2>1. CASE GetBufUnread(bq)
    <3> DEFINE q == MakeRoom(pool)
    <3>1. /\ HasRoom(pool, disk) /\ pool' = GetUnread(pool, bq)
          /\ disk' = RoomDisk(pool, disk)
      BY <2>1 DEF GetBufUnread
    <3>2. /\ Safe(q, disk', pins, ptr, use)
          /\ SameView(pool, disk, q, disk') /\ WroteBack(pool, disk, disk', pins)
      BY <1>1, <3>1, RoomSafe
    <3>3. SameLinked(q, pool')
      BY <1>1, <3>1, ReqIs, UnreadDoes
    <3> HIDE DEF q
    <3>4. Safe(pool', disk', pins, ptr, use) /\ SameView(q, disk', pool', disk')
      BY <1>1, <3>2, <3>3, SameLinkedSafe
    <3> QED BY <3>2, <3>4 DEF SameView
  <2>2. CASE GetBufNoMem(bq) \/ AllocBufNoMem(bq)
    BY <1>1, <2>2 DEF GetBufNoMem, AllocBufNoMem, SameView, WroteBack
  <2> QED BY <2>1, <2>2 DEF CGetFails, CAllocFails
<1> QED BY <1>1, <1>2, StoreClean DEF SafeNext

LEMMA STouch ==
  ASSUME SInv, CInv', NEW bq \in Reqs, CTouch(bq)
  PROVE  SafeNext /\ Store!Next
<1> DEFINE f == ptr[bq]
           page == [pool.page[f] EXCEPT !.dirty = TRUE]
<1>1. /\ PoolOK(pool) /\ PoolOK(pool') /\ Agree(pool', pins', ptr')
      /\ Safe(pool, disk, pins, ptr, use) /\ pins[bq] > 0
      /\ use \in [Reqs -> Uses] /\ use' = [use EXCEPT ![bq] = "touched"]
      /\ pool' = Touch(pool, bq.fd, bq.pagenum) /\ disk' = disk
      /\ pins' = pins /\ ptr' = ptr
  BY Parts DEF CTouch, TouchBuf, CInv, IInv
<1>2. Holds(pool, f, bq)
  BY <1>1, Parts, PinnedPage
<1> HIDE DEF f
<1>3. Changed(pool, pool', f, page)
  BY <1>1, <1>2, ReqIs, TouchDoes
<1>4. pool.page[f] \in BFpage
  BY <1>1, <1>2 DEF Holds, PoolOK, Pools
<1>5. /\ page.fd = pool.page[f].fd /\ page.page_num = pool.page[f].page_num
      /\ page.unix_fd = pool.page[f].unix_fd /\ page.fpage = pool.page[f].fpage
      /\ page.dirty /\ page.fpage \in Data
  BY <1>4 DEF BFpage
<1> HIDE DEF page
<1>6. /\ use' \in [Reqs -> Uses] /\ use'[bq] = "touched"
      /\ Only(bq, pins, use, pins', use') /\ pins'[bq] # 0
  <2>1. pins[bq] # 0
    BY <1>1
  <2> QED BY <1>1, <2>1 DEF Uses, Only
<1>7. /\ Safe(pool', disk, pins', ptr', use')
      /\ \A b \in Reqs : View(pool', disk, b) =
           IF b = bq THEN page.fpage ELSE View(pool, disk, b)
  <2>1. /\ Safe(pool, disk, pins, ptr, use) /\ PoolOK(pool')
        /\ Holds(pool, f, bq) /\ Changed(pool, pool', f, page)
        /\ page.fd = pool.page[f].fd /\ page.page_num = pool.page[f].page_num
        /\ page.unix_fd = pool.page[f].unix_fd /\ page.fpage \in Data
        /\ Agree(pool', pins', ptr') /\ Only(bq, pins, use, pins', use')
        /\ pins'[bq] = 0 => use'[bq] = "idle"
        /\ use'[bq] = "touched" => page.dirty
        /\ ~page.dirty /\ use'[bq] # "stored" => page.fpage = Read(disk, bq)
    BY <1>1, <1>2, <1>3, <1>5, <1>6
  <2> QED BY <2>1, ChangedSafe
<1>8. SameView(pool, disk, pool', disk')
  <2>1. View(pool, disk, bq) = page.fpage
    BY <1>1, <1>2, <1>5, ViewHeld
  <2> QED BY <1>1, <1>7, <2>1 DEF SameView
<1>9. WroteBack(pool, disk, disk', pins)
  BY <1>1 DEF WroteBack
<1> QED BY <1>1, <1>6, <1>7, <1>8, <1>9, StoreClean DEF SafeNext

LEMMA SStore ==
  ASSUME SInv, CInv', NEW bq \in Reqs, NEW v \in Data, CStore(bq, v)
  PROVE  SafeNext /\ Store!Next
<1> DEFINE f == ptr[bq]
           page == [pool.page[f] EXCEPT !.fpage = v]
           u == IF use[bq] = "touched" THEN "touched" ELSE "stored"
<1>1. /\ PoolOK(pool) /\ PoolOK(pool') /\ Agree(pool', pins', ptr')
      /\ Safe(pool, disk, pins, ptr, use) /\ pins[bq] > 0
      /\ use \in [Reqs -> Uses] /\ use' = [use EXCEPT ![bq] = u]
      /\ pool' = [pool EXCEPT !.page[f].fpage = v] /\ disk' = disk
      /\ pins' = pins /\ ptr' = ptr
  BY Parts DEF CStore, CInv, IInv
<1>2. Holds(pool, f, bq)
  BY <1>1, Parts, PinnedPage
<1> HIDE DEF f
<1>3. Changed(pool, pool', f, page)
  BY <1>1, <1>2, StoreDoes DEF Holds
<1>4. pool.page[f] \in BFpage
  BY <1>1, <1>2 DEF Holds, PoolOK, Pools
<1>5. /\ page.fd = pool.page[f].fd /\ page.page_num = pool.page[f].page_num
      /\ page.unix_fd = pool.page[f].unix_fd /\ page.fpage = v
      /\ page.dirty = pool.page[f].dirty
  BY <1>4 DEF BFpage
<1> HIDE DEF page
<1>6. /\ use' \in [Reqs -> Uses] /\ use'[bq] = u
      /\ Only(bq, pins, use, pins', use') /\ pins'[bq] # 0
  <2>1. pins[bq] # 0 /\ u \in Uses
    BY <1>1 DEF Uses
  <2> HIDE DEF u
  <2> QED BY <1>1, <2>1 DEF Only
<1>7. use'[bq] = "touched" => page.dirty
  BY <1>2, <1>5, <1>6, Parts DEF Marked, Holds
<1>8. ~page.dirty => use'[bq] = "stored"
  BY <1>6, <1>7
<1> HIDE DEF u
<1>9. /\ Safe(pool', disk, pins', ptr', use')
      /\ \A b \in Reqs : View(pool', disk, b) = IF b = bq THEN v ELSE View(pool, disk, b)
  <2>1. /\ Safe(pool, disk, pins, ptr, use) /\ PoolOK(pool')
        /\ Holds(pool, f, bq) /\ Changed(pool, pool', f, page)
        /\ page.fd = pool.page[f].fd /\ page.page_num = pool.page[f].page_num
        /\ page.unix_fd = pool.page[f].unix_fd /\ page.fpage \in Data
        /\ Agree(pool', pins', ptr') /\ Only(bq, pins, use, pins', use')
        /\ pins'[bq] = 0 => use'[bq] = "idle"
        /\ use'[bq] = "touched" => page.dirty
        /\ ~page.dirty /\ use'[bq] # "stored" => page.fpage = Read(disk, bq)
    BY <1>1, <1>2, <1>3, <1>5, <1>6, <1>7, <1>8
  <2>2. /\ Safe(pool', disk, pins', ptr', use')
        /\ \A b \in Reqs : View(pool', disk, b) =
             IF b = bq THEN page.fpage ELSE View(pool, disk, b)
    BY <2>1, ChangedSafe
  <2> QED BY <1>5, <2>2
<1>10. Store!Store(Key(bq), v)
  <2>1. [k \in PageKey |-> pins[ReqOf(k)]][Key(bq)] > 0
    BY <1>1, Mapped
  <2>2. [k \in PageKey |-> View(pool', disk', ReqOf(k))]
          = [[k \in PageKey |-> View(pool, disk, ReqOf(k))] EXCEPT ![Key(bq)] = v]
    BY <1>1, <1>9, ContentChange
  <2> QED BY <1>1, <2>1, <2>2 DEF Store!Store
<1>11. Store!Next
  BY <1>10, KeyOfReq DEF Store!Next
<1> QED BY <1>1, <1>6, <1>9, <1>11 DEF SafeNext

LEMMA SUnpin ==
  ASSUME SInv, CInv', NEW bq \in Reqs, CUnpin(bq)
  PROVE  SafeNext /\ Store!Next
<1> DEFINE f == ptr[bq]
           page == [pool.page[f] EXCEPT !.count = ShortDec(@)]
           u == IF pins[bq] = 1 THEN "idle" ELSE use[bq]
<1>1. /\ PoolOK(pool) /\ PoolOK(pool') /\ Agree(pool', pins', ptr')
      /\ Safe(pool, disk, pins, ptr, use) /\ pins[bq] > 0 /\ pins[bq] \in 0..MaxPins
      /\ PinsTyped /\ use \in [Reqs -> Uses]
      /\ pins[bq] = 1 => use[bq] # "stored"
      /\ use' = [use EXCEPT ![bq] = u]
      /\ pool' = Unpin(pool, bq.fd, bq.pagenum) /\ disk' = disk
      /\ pins' = [pins EXCEPT ![bq] = pins[bq] - 1]
  BY Parts, PinnedPage DEF CUnpin, UnpinBuf, CInv, IInv
<1>2. Holds(pool, f, bq) /\ pool.page[f].count # 0
  <2>1. Holds(pool, f, bq) /\ pool.page[f].count = pins[bq]
    BY <1>1, Parts, PinnedPage
  <2> QED BY <1>1, <2>1
<1> HIDE DEF f
<1>3. Changed(pool, pool', f, page)
  BY <1>1, <1>2, ReqIs, UnpinDoes
<1>4. pool.page[f] \in BFpage
  BY <1>1, <1>2 DEF Holds, PoolOK, Pools
<1>5. /\ page.fd = pool.page[f].fd /\ page.page_num = pool.page[f].page_num
      /\ page.unix_fd = pool.page[f].unix_fd /\ page.fpage = pool.page[f].fpage
      /\ page.dirty = pool.page[f].dirty /\ page.fpage \in Data
  BY <1>4 DEF BFpage
<1> HIDE DEF page
<1>6. /\ use' \in [Reqs -> Uses] /\ use'[bq] = u
      /\ pins'[bq] = pins[bq] - 1
      /\ Only(bq, pins, use, pins', use')
  <2>1. u \in Uses
    BY <1>1 DEF Uses
  <2> HIDE DEF u
  <2> QED BY <1>1, <2>1 DEF Only, PinsTyped
<1>7. pins'[bq] = 0 => use'[bq] = "idle"
  <2>1. pins[bq] - 1 = 0 => pins[bq] = 1
    BY <1>1, ClientAssumption, PoolAssumption
  <2> QED BY <1>6, <2>1
<1>8. use'[bq] = "touched" => page.dirty
  BY <1>2, <1>5, <1>6, Parts DEF Marked, Holds
<1>9. ~page.dirty /\ use'[bq] # "stored" => page.fpage = Read(disk, bq)
  BY <1>1, <1>2, <1>5, <1>6, Parts DEF CleanSame, Holds
<1> HIDE DEF u
<1>10. /\ Safe(pool', disk, pins', ptr', use')
       /\ \A b \in Reqs : View(pool', disk, b) =
            IF b = bq THEN page.fpage ELSE View(pool, disk, b)
  <2>1. /\ Safe(pool, disk, pins, ptr, use) /\ PoolOK(pool')
        /\ Holds(pool, f, bq) /\ Changed(pool, pool', f, page)
        /\ page.fd = pool.page[f].fd /\ page.page_num = pool.page[f].page_num
        /\ page.unix_fd = pool.page[f].unix_fd /\ page.fpage \in Data
        /\ Agree(pool', pins', ptr') /\ Only(bq, pins, use, pins', use')
        /\ pins'[bq] = 0 => use'[bq] = "idle"
        /\ use'[bq] = "touched" => page.dirty
        /\ ~page.dirty /\ use'[bq] # "stored" => page.fpage = Read(disk, bq)
    BY <1>1, <1>2, <1>3, <1>5, <1>6, <1>7, <1>8, <1>9
  <2> QED BY <2>1, ChangedSafe
<1>11. SameView(pool, disk, pool', disk')
  <2>1. View(pool, disk, bq) = page.fpage
    BY <1>1, <1>2, <1>5, ViewHeld
  <2> QED BY <1>1, <1>10, <2>1 DEF SameView
<1>12. Store!Unpin(Key(bq))
  <2>1. [k \in PageKey |-> pins[ReqOf(k)]][Key(bq)] = pins[bq]
    BY Mapped
  <2>2. [k \in PageKey |-> pins'[ReqOf(k)]]
          = [[k \in PageKey |-> pins[ReqOf(k)]] EXCEPT
               ![Key(bq)] = [k \in PageKey |-> pins[ReqOf(k)]][Key(bq)] - 1]
    BY <1>1, <2>1, PinsChange
  <2>3. [k \in PageKey |-> pins[ReqOf(k)]][Key(bq)] > 0
    BY <1>1, <2>1
  <2> QED BY <1>1, <1>11, <2>2, <2>3, SameContent DEF Store!Unpin
<1>13. Store!Next
  BY <1>12, KeyOfReq DEF Store!Next
<1> QED BY <1>1, <1>6, <1>10, <1>13 DEF SafeNext

LEMMA SFlush ==
  ASSUME SInv, CInv', CFlush, ~WRITE_FAILS
  PROVE  SafeNext /\ Store!Next
<1>1. /\ PoolOK(pool) /\ PoolOK(pool') /\ FlushUnpinned
      /\ Safe(pool, disk, pins, ptr, use) /\ use \in [Reqs -> Uses]
      /\ use' = use /\ pins' = pins /\ ptr' = ptr
  BY Parts DEF CFlush, CInv, IInv
<1>2. /\ Safe(pool', disk', pins, ptr, use)
      /\ SameView(pool, disk, pool', disk') /\ WroteBack(pool, disk, disk', pins)
  <2>1. CASE FlushBufPage
    <3> DEFINE f == NextOf(pool, flushing)
    <3>1. /\ PagesOf(pool, flushing) # {} /\ ~Fixed(pool, flushing)
          /\ pool' = Discard(pool, f) /\ disk' = Flushed(disk, pool.page[f])
      BY <1>1, <2>1 DEF FlushBufPage, FlushUnpinned
    <3>2. f \in Frame /\ On(pool, f) /\ pool.page[f].count = 0
      BY <1>1, <3>1, NextOfOK DEF PoolOK
    <3>3. Dropped(pool, pool', f)
      BY <1>1, <3>1, <3>2, DiscardDoes
    <3> HIDE DEF f
    <3> QED BY <1>1, <3>1, <3>3, DropSafe
  <2>2. CASE pool' = pool /\ disk' = disk
    BY <1>1, <2>2 DEF SameView, WroteBack
  <2> QED BY <2>1, <2>2 DEF CFlush, FlushBufFixed, FlushBufBegin, FlushBufEnd
<1> QED BY <1>1, <1>2, StoreClean DEF SafeNext

\* An empty pool shows the files.
LEMMA EmptySafe ==
  ASSUME NEW d \in Disks, FilesWhole(d)
  PROVE  /\ Safe(EmptyPool, d, [b \in Reqs |-> 0], [b \in Reqs |-> 0],
                 [b \in Reqs |-> "idle"])
         /\ \A b \in Reqs : View(EmptyPool, d, b) = Read(d, b)
<1>1. \A f : ~On(EmptyPool, f)
  BY DEF On, EmptyPool
<1>2. \A b \in Reqs : View(EmptyPool, d, b) = Read(d, b)
  BY <1>1, EmptyPoolOK, ViewFile DEF Holds
<1>3. InOrder(EmptyPool, d)
  BY <1>2 DEF InOrder, FilesWhole
<1>4. Agree(EmptyPool, [b \in Reqs |-> 0], [b \in Reqs |-> 0])
  BY <1>1 DEF Agree, Holds
<1>5. /\ Named(EmptyPool)
      /\ Marked(EmptyPool, [b \in Reqs |-> 0], [b \in Reqs |-> "idle"])
      /\ CleanSame(EmptyPool, d, [b \in Reqs |-> "idle"])
  BY <1>1 DEF Named, Marked, CleanSame, Holds
<1> QED BY <1>2, <1>3, <1>4, <1>5, EmptyPoolOK DEF Safe

LEMMA SCrash ==
  ASSUME SInv, CCrash
  PROVE  SafeNext /\ Store!Next
<1>1. /\ pool' = EmptyPool /\ disk' = disk /\ disk \in Disks /\ FilesWhole(disk)
      /\ pins' = [b \in Reqs |-> 0] /\ ptr' = [b \in Reqs |-> 0]
      /\ use' = [b \in Reqs |-> "idle"]
  BY Parts DEF CCrash, Crash, Safe
<1>2. /\ Safe(pool', disk', pins', ptr', use')
      /\ \A b \in Reqs : View(pool', disk', b) = Read(disk, b)
  BY <1>1, EmptySafe
<1>3. use' \in [Reqs -> Uses]
  BY <1>1 DEF Uses
<1>4. Store!Crash
  <2>1. \A k \in PageKey : View(pool', disk', ReqOf(k)) = PRead(disk, ReqOf(k).unixfd, k[2])
    BY <1>2, ReqOfKey DEF Read
  <2>2. \A k \in PageKey : pins'[ReqOf(k)] = 0
    BY <1>1, ReqOfKey
  <2> QED BY <1>1, <2>1, <2>2 DEF Store!Crash
<1> QED BY <1>2, <1>3, <1>4 DEF SafeNext, Store!Next

LEMMA InitSInv == CInit => SInv /\ Store!Init
<1> SUFFICES ASSUME CInit PROVE SInv /\ Store!Init
  OBVIOUS
<1>1. /\ CInv /\ pool = EmptyPool /\ disk \in Disks
      /\ disk \in [open : {OpenFiles}, data : [DiskPage -> {Zero, Absent}]]
      /\ WholeFiles(disk.data)
      /\ pins = [b \in Reqs |-> 0] /\ ptr = [b \in Reqs |-> 0]
      /\ use = [b \in Reqs |-> "idle"]
  BY InitCInv DEF CInit, Init, CInv, IInv, TypeOK
<1>2. \A b \in Reqs : Read(disk, b) = disk.data[<<OpenFiles[b.unixfd], b.pagenum>>]
                      /\ <<OpenFiles[b.unixfd], b.pagenum>> \in DiskPage
  BY <1>1, ReadIs DEF DiskPage
<1>3. FilesWhole(disk)
  <2> SUFFICES ASSUME NEW a \in Reqs, NEW b \in Reqs, a.fd = b.fd, a.pagenum < b.pagenum,
                      Read(disk, b) # Absent
               PROVE  Read(disk, a) # Absent
    BY DEF FilesWhole
  <2> DEFINE k == <<OpenFiles[a.unixfd], a.pagenum>>
             l == <<OpenFiles[b.unixfd], b.pagenum>>
  <2>1. k[1] = l[1] /\ k[2] < l[2]
    BY ClientAssumption
  <2>2. k \in DiskPage /\ l \in DiskPage /\ disk.data[l] # Absent
        /\ Read(disk, a) = disk.data[k]
    BY <1>2
  <2> HIDE DEF k, l
  <2> QED BY <1>1, <2>1, <2>2 DEF WholeFiles
<1>4. /\ Safe(pool, disk, pins, ptr, use)
      /\ \A b \in Reqs : View(pool, disk, b) = Read(disk, b)
  BY <1>1, <1>3, EmptySafe
<1>5. use \in [Reqs -> Uses]
  BY <1>1 DEF Uses
<1>6. Store!Init
  <2>1. \A k \in PageKey : View(pool, disk, ReqOf(k)) = PRead(disk, ReqOf(k).unixfd, k[2])
    BY <1>4, ReqOfKey DEF Read
  <2>2. \A b \in Reqs : Read(disk, b) \in {Zero, Absent}
    BY <1>1, <1>2
  <2>3. \A k \in PageKey : PRead(disk, ReqOf(k).unixfd, k[2]) \in {Zero, Absent}
    BY <2>2, ReqOfKey DEF Read
  <2>4. \A k \in PageKey : pins[ReqOf(k)] = 0
    BY <1>1, ReqOfKey
  <2> QED BY <2>1, <2>3, <2>4 DEF Store!Init
<1> QED BY <1>1, <1>4, <1>5, <1>6 DEF SInv

LEMMA NextSInv ==
  ASSUME SInv, [CNext]_cvars, ~WRITE_FAILS
  PROVE  SInv' /\ [Store!Next]_(Store!vars)
<1>1. CInv'
  BY NextCInv, Parts
<1>2. ASSUME SafeNext /\ Store!Next
      PROVE  SInv' /\ [Store!Next]_(Store!vars)
  BY <1>1, <1>2 DEF SafeNext, SInv
<1>3. ASSUME NEW bq \in Reqs, CGet(bq) PROVE SafeNext /\ Store!Next
  BY <1>1, <1>3, SGet
<1>4. ASSUME NEW bq \in Reqs, CAlloc(bq) PROVE SafeNext /\ Store!Next
  BY <1>1, <1>4, SAlloc
<1>5. ASSUME NEW bq \in Reqs, CGetFails(bq) \/ CAllocFails(bq) PROVE SafeNext /\ Store!Next
  BY <1>1, <1>5, SFail
<1>6. ASSUME NEW bq \in Reqs, CTouch(bq) PROVE SafeNext /\ Store!Next
  BY <1>1, <1>6, STouch
<1>7. ASSUME NEW bq \in Reqs, CUnpin(bq) PROVE SafeNext /\ Store!Next
  BY <1>1, <1>7, SUnpin
<1>8. ASSUME NEW bq \in Reqs, NEW v \in Data, CStore(bq, v) PROVE SafeNext /\ Store!Next
  BY <1>1, <1>8, SStore
<1>9. ASSUME CFlush PROVE SafeNext /\ Store!Next
  BY <1>1, <1>9, SFlush
<1>10. ASSUME CCrash PROVE SafeNext /\ Store!Next
  BY <1>10, SCrash
<1>11. CASE UNCHANGED cvars
  <2>1. SInv'
    BY <1>1, <1>11 DEF cvars, SInv
  <2>2. UNCHANGED Store!vars
    BY <1>11 DEF cvars, Store!vars
  <2> QED BY <2>1, <2>2
<1> QED BY <1>2, <1>3, <1>4, <1>5, <1>6, <1>7, <1>8, <1>9, <1>10, <1>11 DEF CNext

-----------------------------------------------------------------------------
(* While writes do not fail, a page that nobody has pinned and that is not  *)
(* marked dirty is the same in its file, so that evict_policy may drop it   *)
(* without writing (bf.c:234, 397).                                         *)
THEOREM CleanPagesAreOnDisk ==
  ASSUME ~WRITE_FAILS
  PROVE  CSpec => []CleanIsOnDisk
<1>1. SInv /\ [CNext]_cvars => SInv'
  BY NextSInv
<1>2. SInv => CleanIsOnDisk
  <2> SUFFICES ASSUME SInv, NEW bq \in Reqs, InBuf(pool, bq.fd, bq.pagenum), pins[bq] = 0,
                      ~pool.page[FrameOf(pool, bq.fd, bq.pagenum)].dirty
               PROVE  pool.page[FrameOf(pool, bq.fd, bq.pagenum)].fpage
                        = PRead(disk, bq.unixfd, bq.pagenum)
    BY DEF CleanIsOnDisk
  <2>1. Holds(pool, FrameOf(pool, bq.fd, bq.pagenum), bq) /\ use[bq] = "idle"
    BY Parts, FoundHolds DEF Marked
  <2> QED BY <2>1, Parts DEF CleanSame, Holds, Read
<1> QED BY InitSInv, <1>1, <1>2, PTL DEF CSpec

(* While writes do not fail, the buffer pool is a paged store: whatever is  *)
(* evicted, flushed, read again or lost in a crash, only a store of the     *)
(* caller changes what a page reads as, only pages that nobody has pinned   *)
(* are written, and after a crash every page is its durable copy.           *)
THEOREM PoolIsPagedStore ==
  ASSUME ~WRITE_FAILS
  PROVE  CSpec => ImplementsPagedStore
<1>1. SInv /\ [CNext]_cvars => SInv' /\ [Store!Next]_(Store!vars)
  BY NextSInv
<1>2. CInit => SInv /\ Store!Init
  BY InitSInv
<1> QED BY <1>1, <1>2, PTL DEF CSpec, ImplementsPagedStore, Store!Spec

-----------------------------------------------------------------------------
(* No frame is lost. *)

FInv == CInv /\ FramesKept(pool)

\* What can be read of a file can be read after a page was written out.
LEMMA StillReadable ==
  ASSUME CInv, NEW bq \in Reqs, Exists(bq), ~Buffered(bq), HasRoom(pool, disk)
  PROVE  Readable(pool, disk, bq) # Absent
<1> DEFINE page == pool.page[Victim(pool)]
<1>1. PoolOK(pool) /\ pool \in Pools /\ disk \in Disks
  BY DEF CInv, IInv, TypeOK
<1>2. Read(disk, bq) # Absent
  BY DEF Exists, View, Buffered, Read
<1>3. CASE pool.free # <<>>
  BY <1>2, <1>3 DEF Readable, RoomDisk, Read
<1>4. CASE pool.free = <<>> /\ Flushed(disk, page) = disk
  BY <1>2, <1>4 DEF Readable, RoomDisk, Read
<1>5. CASE pool.free = <<>> /\ Flushed(disk, page) # disk
  <2> DEFINE at == <<OpenFiles[bq.unixfd], bq.pagenum>>
             to == <<disk.open[page.unix_fd], page.page_num>>
             data == [k \in DOMAIN disk.data |->
                        IF k = to THEN page.fpage
                        ELSE IF k[1] = disk.open[page.unix_fd] /\ k[2] < page.page_num
                                /\ disk.data[k] = Absent
                        THEN Zero ELSE disk.data[k]]
  <2>1. page \in BFpage
    BY <1>1, <1>5, VictimOK DEF HasRoom, Pools
  <2>2. page.fpage # Absent /\ Zero # Absent
    BY <2>1, PoolAssumption DEF BFpage
  <2> HIDE DEF page
  <2>3. Flushed(disk, page) = [disk EXCEPT !.data = data]
    BY <1>1, <1>5 DEF Flushed, PWrite, Disks
  <2>4. Flushed(disk, page) \in Disks
    BY <1>1, <2>1, FlushedOK
  <2>5. Read(Flushed(disk, page), bq) = Flushed(disk, page).data[at]
    BY <2>4, ReadIs
  <2>6. at \in DOMAIN disk.data /\ disk.data[at] = Read(disk, bq)
    BY <1>1, ReadIs DEF Disks, DiskPage
  <2>7. Flushed(disk, page).data = data
    BY <1>1, <2>3 DEF Disks
  <2>8. data[at] # Absent
    BY <1>2, <2>2, <2>6
  <2> HIDE DEF data, at
  <2>9. Read(Flushed(disk, page), bq) # Absent
    BY <2>5, <2>7, <2>8
  <2> QED BY <1>5, <2>9 DEF Readable, RoomDisk, Read, page
<1> QED BY <1>3, <1>4, <1>5

LEMMA NextKeeps ==
  ASSUME FInv, [CNext]_cvars, ~READ_FAILS
  PROVE  FInv'
<1>1. CInv'
  BY NextCInv DEF FInv
<1>2. CInv /\ PoolOK(pool) /\ FramesKept(pool)
  BY DEF FInv, CInv, IInv
<1> SUFFICES FramesKept(pool')
  BY <1>1 DEF FInv, FramesKept, Free, On
<1>3. ASSUME NEW bq \in Reqs, GetBufHit(bq) \/ TouchBuf(bq) PROVE FramesKept(pool')
  <2> DEFINE f == FrameOf(pool, bq.fd, bq.pagenum)
  <2>1. Holds(pool, f, bq)
    BY <1>2, <1>3, FoundHolds DEF GetBufHit, TouchBuf, Buffered
  <2> HIDE DEF f
  <2>2. \A g \in Frame : On(pool', g) <=> On(pool, g)
    <3>1. bq \in BFreq
      BY ReqIs
    <3>2. CASE GetBufHit(bq)
      BY <1>2, <2>1, <3>1, <3>2, HitDoes DEF GetBufHit, Changed
    <3>3. CASE TouchBuf(bq)
      BY <1>2, <2>1, <3>1, <3>3, TouchDoes DEF TouchBuf, Changed
    <3> QED BY <1>3, <3>2, <3>3
  <2>3. pool'.free = pool.free
    BY <1>2, <1>3, <2>1, HitOrder, TouchBufOrder DEF GetBufHit, TouchBuf
  <2> QED BY <1>2, <2>2, <2>3, ChangedKeeps
<1>4. ASSUME NEW bq \in Reqs, GetBufMiss(bq) \/ AllocBuf(bq) PROVE FramesKept(pool')
  <2> DEFINE q == MakeRoom(pool)
  <2>1. HasRoom(pool, disk) /\ ~InBuf(pool, bq.fd, bq.pagenum)
    BY <1>4 DEF GetBufMiss, AllocBuf, Buffered
  <2>2. PoolOK(q) /\ q.free # <<>> /\ FramesKept(q)
    BY <1>2, <2>1, MakeRoomOK, RoomKeeps
  <2>3. PICK page : Linked(q, pool', Head(q.free), page) /\ pool'.free = Tail(q.free)
    <3>1. CASE GetBufMiss(bq)
      <4>1. pool' = GetMiss(pool, disk, bq) /\ Readable(pool, disk, bq) \in Data
        BY <1>2, <3>1, ReadableOK DEF GetBufMiss, CInv, IInv, TypeOK
      <4> QED BY <1>2, <2>1, <4>1, ReqIs, MissDoes, MissOrder
    <3>2. CASE AllocBuf(bq)
      BY <1>2, <2>1, <3>2, ReqIs, AllocDoes, AllocOrder DEF AllocBuf
    <3> QED BY <1>4, <3>1, <3>2
  <2> HIDE DEF q
  <2> QED BY <2>2, <2>3, LinkedKeeps
<1>5. ASSUME NEW bq \in Reqs, CGetFails(bq) \/ CAllocFails(bq) PROVE FramesKept(pool')
  BY <1>2, <1>5, StillReadable
     DEF CGetFails, CAllocFails, GetBufUnread, GetBufNoMem, AllocBufNoMem
<1>6. ASSUME NEW bq \in Reqs, NEW v \in Data, CStore(bq, v) PROVE FramesKept(pool')
  BY <1>2, <1>6 DEF CStore, FramesKept, Free, On, PoolOK, Pools
<1>7. ASSUME NEW bq \in Reqs, UnpinBuf(bq) PROVE FramesKept(pool')
  BY <1>2, <1>7 DEF UnpinBuf, Unpin, FramesKept, Free, On, PoolOK, Pools
<1>8. ASSUME CFlush PROVE FramesKept(pool')
  <2>1. CASE FlushBufPage
    <3> DEFINE f == NextOf(pool, flushing)
    <3>1. f \in Frame /\ On(pool, f) /\ pool' = Discard(pool, f)
      BY <1>2, <2>1, NextOfOK DEF FlushBufPage, CInv, IInv, FlushUnpinned, PoolOK
    <3> HIDE DEF f
    <3> QED BY <1>2, <3>1, DiscardKeeps
  <2>2. CASE pool' = pool
    BY <1>2, <2>2
  <2> QED BY <1>8, <2>1, <2>2 DEF CFlush, FlushBufFixed, FlushBufBegin, FlushBufEnd
<1>9. ASSUME CCrash PROVE FramesKept(pool')
  BY <1>9, EmptyKeeps DEF CCrash, Crash
<1>10. CASE UNCHANGED cvars
  BY <1>2, <1>10 DEF cvars
<1> QED BY <1>3, <1>4, <1>5, <1>6, <1>7, <1>8, <1>9, <1>10
        DEF CNext, CGet, CAlloc, CTouch, CUnpin

(* While the files can be read, no frame is lost between the lists: every   *)
(* frame can be found by the next request (bf.c:46-109).                    *)
THEOREM NoFrameIsLost ==
  ASSUME ~READ_FAILS
  PROVE  CSpec => []NoFrameLost
<1>1. CInit => FInv
  BY InitCInv, EmptyKeeps DEF FInv, CInit, Init
<1>2. FInv /\ [CNext]_cvars => FInv'
  BY NextKeeps
<1>3. FInv => NoFrameLost
  BY DEF FInv, FramesKept, Free, On, NoFrameLost
<1> QED BY <1>1, <1>2, <1>3, PTL DEF CSpec

(* "All pages are busy", bf.c:312: while reads and writes do not fail, a    *)
(* page request is refused for want of memory only when every frame holds a *)
(* page that somebody has pinned.                                           *)
THEOREM RefusedOnlyWhenBusy ==
  ASSUME ~READ_FAILS, ~WRITE_FAILS
  PROVE  CSpec => NoMemOnlyWhenBusy
<1>1. CInit => SInv /\ FInv
  BY InitSInv, EmptyKeeps DEF SInv, FInv, CInit, Init
<1>2. SInv /\ FInv /\ [CNext]_cvars => SInv' /\ FInv'
  BY NextSInv, NextKeeps
<1>3. ASSUME SInv, FInv, NEW bq \in Reqs, CGetFails(bq) \/ CAllocFails(bq), rc' = BFE_NOMEM,
             NEW f \in Frame
      PROVE  \E b \in Reqs : pins[b] > 0 /\ ptr[b] = f
  <2>1. ~HasRoom(pool, disk)
    BY <1>3 DEF CGetFails, CAllocFails, GetBufUnread, GetBufNoMem, AllocBufNoMem,
                NoFrame, Returns, BFE_NOMEM, BFE_UNIX
  <2>2. PoolOK(pool) /\ FramesKept(pool) /\ Named(pool) /\ Agree(pool, pins, ptr) /\ disk.open = OpenFiles
        /\ PinsTyped
    BY <1>3, Parts DEF FInv, Safe, Disks
  <2>3. /\ \A g \in Frame : On(pool, g)
        /\ \/ \A g \in Frame : pool.page[g].count # 0
           \/ \E g \in Frame : On(pool, g) /\ CannotFlush(disk, pool.page[g])
    BY <2>1, <2>2, NoRoom
  <2>4. \A g \in Frame : ~CannotFlush(disk, pool.page[g])
    BY <2>2, <2>3, ClientAssumption DEF Named, CannotFlush
  <2>5. pool.page[f].count # 0
    BY <2>3, <2>4
  <2>6. PICK b \in Reqs : Holds(pool, f, b)
    BY <2>2, <2>3 DEF Named
  <2>7. pins[b] = pool.page[f].count /\ (pins[b] > 0 => ptr[b] = f)
    BY <2>2, <2>6 DEF Agree
  <2>8. pins[b] \in Nat
    BY <2>2, ClientAssumption, PoolAssumption DEF PinsTyped
  <2> QED BY <2>5, <2>7, <2>8
<1>4. SInv /\ FInv /\ [CNext]_cvars =>
        [ rc' = BFE_NOMEM /\ (\E bq \in Reqs : CGetFails(bq) \/ CAllocFails(bq)) =>
            \A f \in Frame : \E bq \in Reqs : pins[bq] > 0 /\ ptr[bq] = f ]_cvars
  BY <1>3
<1> QED BY <1>1, <1>2, <1>4, PTL DEF CSpec, NoMemOnlyWhenBusy

-----------------------------------------------------------------------------
(* The order of use. *)

\* The history r has the pages of p in the order of its LRU list.
Ordered(p, r) ==
  \A a, b \in Reqs : \A f, g \in Frame :
    Holds(p, f, a) /\ Holds(p, g, b) => (<<a, b>> \in r <=> Before(p, f, g))

\* The history is about pages in the pool.
Current(p, r) ==
  \A ab \in r : InBuf(p, ab[1].fd, ab[1].pagenum) /\ InBuf(p, ab[2].fd, ab[2].pagenum)

LInv == CInv /\ Ordered(pool, older) /\ Current(pool, older)

LEMMA OrderedSame ==
  ASSUME NEW p, NEW r, Ordered(p, r), NEW q,
         \A a \in Reqs : \A f \in Frame : Holds(q, f, a) <=> Holds(p, f, a),
         \A f, g : Before(q, f, g) <=> Before(p, f, g)
  PROVE  Ordered(q, r)
BY DEF Ordered

LEMMA OrderedDropped ==
  ASSUME NEW p, NEW r, Ordered(p, r), NEW q, NEW v, Dropped(p, q, v), Gone(p, q, v)
  PROVE  Ordered(q, r)
<1>1. \A a \in Reqs : \A f \in Frame : Holds(q, f, a) => Holds(p, f, a) /\ f # v
  BY DEF Holds, Dropped
<1> QED BY <1>1 DEF Ordered, Gone

LEMMA RoomOrdered ==
  ASSUME NEW p, PoolOK(p), NEW d, HasRoom(p, d), NEW r, Ordered(p, r)
  PROVE  Ordered(MakeRoom(p), r)
<1>1. CASE p.free # <<>>
  BY <1>1 DEF MakeRoom
<1>2. CASE p.free = <<>>
  <2>1. Victim(p) \in Frame /\ On(p, Victim(p)) /\ p.page[Victim(p)].count = 0
    BY <1>2, VictimOK DEF HasRoom, PoolOK
  <2>2. Dropped(p, MakeRoom(p), Victim(p)) /\ Gone(p, MakeRoom(p), Victim(p))
    BY <1>2, <2>1, DiscardDoes, DiscardOrder DEF MakeRoom
  <2> QED BY <2>2, OrderedDropped
<1> QED BY <1>1, <1>2

\* The history after page bq was used and pool p left.
UsedIn(p, r, bq) ==
  {ab \in StillIn(p, r) : ab[1] # bq /\ ab[2] # bq} \cup (Others(p, bq) \X {bq})

\* A page is used: it is linked or changes where it is, and goes to the end.
LEMMA OrderedUsed ==
  ASSUME NEW p, PoolOK(p), NEW r, Ordered(p, r), NEW q, PoolOK(q),
         NEW bq \in Reqs, NEW f, Holds(q, f, bq), Latest(p, q, f),
         \A g \in Frame : g # f => (On(q, g) <=> On(p, g)) /\ q.page[g] = p.page[g]
  PROVE  Ordered(q, UsedIn(q, r, bq))
<1> SUFFICES ASSUME NEW a \in Reqs, NEW b \in Reqs, NEW g \in Frame, NEW h \in Frame,
                    Holds(q, g, a), Holds(q, h, b)
             PROVE  <<a, b>> \in UsedIn(q, r, bq) <=> Before(q, g, h)
  BY DEF Ordered
<1>1. f \in Frame /\ InBuf(q, a.fd, a.pagenum) /\ InBuf(q, b.fd, b.pagenum)
  BY HoldsFound DEF Holds
<1>2. (a = bq <=> g = f) /\ (b = bq <=> h = f)
  <2>1. \A c \in Reqs : \A k : Holds(q, k, c) => (c = bq <=> k = f)
    BY OneHolds, OneReq DEF Holds
  <2> QED BY <2>1
<1>3. CASE b = bq
  <2>1. <<a, b>> \in UsedIn(q, r, bq) <=> a # bq
    BY <1>1, <1>3 DEF UsedIn, Others
  <2>2. Before(q, g, h) <=> On(p, g) /\ g # f
    BY <1>1, <1>2, <1>3 DEF Latest
  <2>3. g # f => On(p, g)
    BY DEF Holds
  <2> QED BY <1>2, <2>1, <2>2, <2>3
<1>4. CASE b # bq /\ a = bq
  <2>1. <<a, b>> \notin UsedIn(q, r, bq)
    BY <1>4 DEF UsedIn, Others
  <2>2. ~Before(q, g, h)
    BY <1>1, <1>2, <1>4 DEF Latest
  <2> QED BY <2>1, <2>2
<1>5. CASE b # bq /\ a # bq
  <2>1. <<a, b>> \in UsedIn(q, r, bq) <=> <<a, b>> \in r
    BY <1>1, <1>5 DEF UsedIn, Others, StillIn
  <2>2. Before(q, g, h) <=> Before(p, g, h)
    BY <1>1, <1>2, <1>5 DEF Latest
  <2>3. Holds(p, g, a) /\ Holds(p, h, b)
    BY <1>2, <1>5 DEF Holds
  <2> QED BY <2>1, <2>2, <2>3 DEF Ordered
<1> QED BY <1>3, <1>4, <1>5

LEMMA OrderedStill ==
  ASSUME NEW p, PoolOK(p), NEW r, Ordered(p, r)
  PROVE  Ordered(p, StillIn(p, r)) /\ Current(p, StillIn(p, r))
<1>1. \A a \in Reqs : \A f \in Frame : Holds(p, f, a) => InBuf(p, a.fd, a.pagenum)
  BY HoldsFound
<1> QED BY <1>1 DEF Ordered, Current, StillIn

LEMMA CurrentUsed ==
  ASSUME NEW p, NEW r, NEW bq \in Reqs, InBuf(p, bq.fd, bq.pagenum)
  PROVE  Current(p, UsedIn(p, r, bq))
BY DEF Current, UsedIn, StillIn, Others

LEMMA CurrentSame ==
  ASSUME NEW p, NEW r, Current(p, r), NEW q, q.hash = p.hash
  PROVE  Current(q, r)
BY DEF Current, InBuf, Hashed

\* What a step that uses page bq does to the history.
LEMMA UseStep ==
  ASSUME LInv, CInv', NEW bq \in Reqs, Used(bq),
         GetBufHit(bq) \/ TouchBuf(bq) \/ GetBufMiss(bq) \/ AllocBuf(bq)
  PROVE  Ordered(pool', older') /\ Current(pool', older')
<1>1. PoolOK(pool) /\ PoolOK(pool') /\ Ordered(pool, older)
  BY DEF LInv, CInv, IInv
<1>2. older' = UsedIn(pool', older, bq)
  BY DEF Used, UsedIn
<1>3. PICK p, f : /\ PoolOK(p) /\ Ordered(p, older)
                  /\ Holds(pool', f, bq) /\ Latest(p, pool', f)
                  /\ \A g \in Frame : g # f => (On(pool', g) <=> On(p, g))
                                               /\ pool'.page[g] = p.page[g]
  <2>1. CASE GetBufHit(bq) \/ TouchBuf(bq)
    <3> DEFINE f == FrameOf(pool, bq.fd, bq.pagenum)
    <3>1. Holds(pool, f, bq)
      BY <1>1, <2>1, FoundHolds DEF GetBufHit, TouchBuf, Buffered
    <3> HIDE DEF f
    <3>2. Latest(pool, pool', f)
      BY <1>1, <2>1, <3>1, HitOrder, TouchBufOrder DEF GetBufHit, TouchBuf
    <3>3. PICK page : Changed(pool, pool', f, page)
                      /\ page.fd = bq.fd /\ page.page_num = bq.pagenum
      <4>1. bq \in BFreq /\ pool.page[f] \in BFpage
        BY <1>1, <3>1, ReqIs DEF Holds, PoolOK, Pools
      <4>2. CASE GetBufHit(bq)
        <5>1. Changed(pool, pool', f, [pool.page[f] EXCEPT !.count = ShortInc(@)])
          BY <1>1, <3>1, <4>1, <4>2, HitDoes DEF GetBufHit
        <5> QED BY <3>1, <4>1, <5>1 DEF Holds, BFpage
      <4>3. CASE TouchBuf(bq)
        <5>1. Changed(pool, pool', f, [pool.page[f] EXCEPT !.dirty = TRUE])
          BY <1>1, <3>1, <4>1, <4>3, TouchDoes DEF TouchBuf
        <5> QED BY <3>1, <4>1, <5>1 DEF Holds, BFpage
      <4> QED BY <2>1, <4>2, <4>3
    <3>4. Holds(pool', f, bq)
      BY <3>1, <3>3 DEF Changed, Holds
    <3>5. \A g \in Frame : g # f => (On(pool', g) <=> On(pool, g))
                                    /\ pool'.page[g] = pool.page[g]
      BY <3>3 DEF Changed
    <3> QED BY <1>1, <3>2, <3>4, <3>5
  <2>2. CASE GetBufMiss(bq) \/ AllocBuf(bq)
    <3> DEFINE q == MakeRoom(pool)
               f == Head(q.free)
    <3>1. HasRoom(pool, disk) /\ ~InBuf(pool, bq.fd, bq.pagenum) /\ bq \in BFreq
      BY <2>2, ReqIs DEF GetBufMiss, AllocBuf, Buffered
    <3>2. PoolOK(q) /\ Ordered(q, older)
      BY <1>1, <3>1, MakeRoomOK, RoomOrdered
    <3>3. PICK c : Linked(q, pool', f, NewPage(bq, c, 1)) /\ Latest(q, pool', f)
      <4>1. CASE GetBufMiss(bq)
        <5>1. pool' = GetMiss(pool, disk, bq) /\ Readable(pool, disk, bq) \in Data
          BY <1>1, <3>1, <4>1, ReadableOK DEF GetBufMiss, LInv, CInv, IInv, TypeOK
        <5> QED BY <1>1, <3>1, <5>1, MissDoes, MissOrder
      <4>2. CASE AllocBuf(bq)
        BY <1>1, <3>1, <4>2, AllocDoes, AllocOrder DEF AllocBuf
      <4> QED BY <2>2, <4>1, <4>2
    <3> HIDE DEF q, f
    <3>4. NewPage(bq, c, 1).fd = bq.fd /\ NewPage(bq, c, 1).page_num = bq.pagenum
      BY DEF NewPage
    <3>5. Holds(pool', f, bq)
      BY <3>3, <3>4 DEF Linked, Holds
    <3>6. \A g \in Frame : g # f => (On(pool', g) <=> On(q, g))
                                    /\ pool'.page[g] = q.page[g]
      BY <3>3 DEF Linked
    <3> QED BY <3>2, <3>3, <3>5, <3>6
  <2> QED BY <2>1, <2>2
<1>4. Ordered(pool', UsedIn(pool', older, bq))
  BY <1>1, <1>3, OrderedUsed
<1>5. Current(pool', UsedIn(pool', older, bq))
  BY <1>1, <1>3, HoldsFound, CurrentUsed
<1> QED BY <1>2, <1>4, <1>5

\* What the other steps leave of the pages of p.
SameHeld(p, q) ==
  /\ \A a \in Reqs : \A f \in Frame : Holds(q, f, a) <=> Holds(p, f, a)
  /\ \A f, g : Before(q, f, g) <=> Before(p, f, g)

LEMMA UnreadHeld ==
  ASSUME NEW p, PoolOK(p), NEW d, HasRoom(p, d), NEW bq \in BFreq
  PROVE  SameHeld(MakeRoom(p), GetUnread(p, bq))
<1> DEFINE q == MakeRoom(p)
           u == GetUnread(p, bq)
<1>1. SameLinked(q, u) /\ PoolOK(q)
  BY UnreadDoes, MakeRoomOK
<1>2. u.lru = q.lru
  BY <1>1 DEF GetUnread, Assign, PoolOK, Pools
<1> HIDE DEF q, u
<1>3. \A a \in Reqs : \A f \in Frame : Holds(u, f, a) <=> Holds(q, f, a)
  BY <1>1 DEF SameLinked, Holds
<1> QED BY <1>2, <1>3, SameOrder DEF SameHeld, q, u

LEMMA RestHeld ==
  ASSUME CInv, NEW bq \in Reqs, UnpinBuf(bq) \/ \E v \in Data : CStore(bq, v)
  PROVE  SameHeld(pool, pool') /\ pool'.hash = pool.hash
<1>1. pool \in Pools
  BY DEF CInv, IInv, PoolOK
<1>2. /\ pool'.lru = pool.lru /\ pool'.hash = pool.hash
      /\ \A f \in Frame : /\ pool'.page[f].fd = pool.page[f].fd
                          /\ pool'.page[f].page_num = pool.page[f].page_num
  <2>1. CASE UnpinBuf(bq)
    BY <1>1, <2>1 DEF UnpinBuf, Unpin, Pools, BFpage
  <2>2. CASE \E v \in Data : CStore(bq, v)
    BY <1>1, <2>2 DEF CStore, Pools, BFpage
  <2> QED BY <2>1, <2>2
<1> QED BY <1>2, SameOrder DEF SameHeld, Holds

LEMMA FlushedOrdered ==
  ASSUME CInv, Ordered(pool, older), CFlush
  PROVE  Ordered(pool', older)
<1>1. CASE FlushBufPage
  <2> DEFINE f == NextOf(pool, flushing)
  <2>1. /\ PoolOK(pool) /\ f \in Frame /\ On(pool, f) /\ pool.page[f].count = 0
        /\ pool' = Discard(pool, f)
    BY <1>1, NextOfOK DEF FlushBufPage, CInv, IInv, FlushUnpinned, PoolOK
  <2> HIDE DEF f
  <2> QED BY <2>1, DiscardDoes, DiscardOrder, OrderedDropped
<1>2. CASE pool' = pool
  BY <1>2
<1> QED BY <1>1, <1>2 DEF CFlush, FlushBufFixed, FlushBufBegin, FlushBufEnd

LEMMA FailedOrdered ==
  ASSUME CInv, Ordered(pool, older), NEW bq \in Reqs, CGetFails(bq) \/ CAllocFails(bq)
  PROVE  Ordered(pool', older)
<1>1. CASE GetBufUnread(bq)
  <2>1. /\ PoolOK(pool) /\ HasRoom(pool, disk) /\ bq \in BFreq
        /\ pool' = GetUnread(pool, bq)
    BY <1>1, ReqIs DEF GetBufUnread, CInv, IInv
  <2>2. Ordered(MakeRoom(pool), older)
    BY <2>1, RoomOrdered
  <2>3. SameHeld(MakeRoom(pool), pool')
    BY <2>1, UnreadHeld
  <2> QED BY <2>2, <2>3, OrderedSame DEF SameHeld
<1>2. CASE pool' = pool
  BY <1>2
<1> QED BY <1>1, <1>2 DEF CGetFails, CAllocFails, GetBufNoMem, AllocBufNoMem

LEMMA NextLInv ==
  ASSUME LInv, [CNext]_cvars
  PROVE  LInv'
<1>1. CInv'
  BY NextCInv DEF LInv
<1>2. /\ CInv /\ PoolOK(pool) /\ PoolOK(pool')
      /\ Ordered(pool, older) /\ Current(pool, older)
  BY <1>1 DEF LInv, CInv, IInv
<1> SUFFICES Ordered(pool', older') /\ Current(pool', older')
  BY <1>1 DEF LInv
<1>3. ASSUME NEW bq \in Reqs, CGet(bq) \/ CAlloc(bq) \/ CTouch(bq)
      PROVE  Ordered(pool', older') /\ Current(pool', older')
  BY <1>1, <1>3, UseStep DEF CGet, CAlloc, CTouch
<1>4. ASSUME Ordered(pool', older), NotUsed
      PROVE  Ordered(pool', older') /\ Current(pool', older')
  BY <1>2, <1>4, OrderedStill DEF NotUsed
<1>5. ASSUME NEW bq \in Reqs, CGetFails(bq) \/ CAllocFails(bq)
      PROVE  Ordered(pool', older') /\ Current(pool', older')
  BY <1>2, <1>4, <1>5, FailedOrdered DEF CGetFails, CAllocFails
<1>6. ASSUME CFlush PROVE Ordered(pool', older') /\ Current(pool', older')
  BY <1>2, <1>4, <1>6, FlushedOrdered DEF CFlush
<1>7. ASSUME NEW bq \in Reqs, CUnpin(bq) \/ \E v \in Data : CStore(bq, v)
      PROVE  Ordered(pool', older') /\ Current(pool', older')
  <2>1. SameHeld(pool, pool') /\ pool'.hash = pool.hash /\ older' = older
    BY <1>2, <1>7, RestHeld DEF CUnpin, CStore
  <2> QED BY <1>2, <2>1, OrderedSame, CurrentSame DEF SameHeld
<1>8. ASSUME CCrash PROVE Ordered(pool', older') /\ Current(pool', older')
  <2>1. older' = {} /\ \A f : ~On(pool', f)
    BY <1>8 DEF CCrash, Crash, On, EmptyPool
  <2> QED BY <2>1 DEF Ordered, Current, Holds
<1>9. CASE UNCHANGED cvars
  BY <1>2, <1>9 DEF cvars
<1> QED BY <1>3, <1>5, <1>6, <1>7, <1>8, <1>9 DEF CNext

LEMMA InitLInv == CInit => LInv
<1> SUFFICES ASSUME CInit PROVE LInv
  OBVIOUS
<1>1. CInv /\ older = {} /\ \A f : ~On(pool, f)
  BY InitCInv DEF CInit, Init, On, EmptyPool
<1> QED BY <1>1 DEF LInv, Ordered, Current, Holds

(* The LRU list is the order in which the pages in the pool were last asked *)
(* for or touched, whatever was evicted, flushed or unpinned in between     *)
(* (bf.c:46-109).                                                           *)
THEOREM LruIsOrderOfUse == CSpec => []LruIsRecency
<1>1. LInv /\ [CNext]_cvars => LInv'
  BY NextLInv
<1>2. ASSUME LInv PROVE LruIsRecency
  <2> SUFFICES ASSUME NEW a \in Reqs, NEW b \in Reqs, Buffered(a), Buffered(b)
               PROVE  <<a, b>> \in older <=>
                        Before(pool, FrameOf(pool, a.fd, a.pagenum),
                                     FrameOf(pool, b.fd, b.pagenum))
    BY DEF LruIsRecency, Before
  <2>1. /\ Holds(pool, FrameOf(pool, a.fd, a.pagenum), a)
        /\ Holds(pool, FrameOf(pool, b.fd, b.pagenum), b)
    BY <1>2, FoundHolds DEF LInv, CInv, IInv, Buffered
  <2> QED BY <1>2, <2>1 DEF LInv, Ordered, Holds
<1>3. LInv => LruIsRecency
  BY <1>2
<1> QED BY InitLInv, <1>1, <1>3, PTL DEF CSpec

\* Only making room takes a page from the pool while no flush runs.
LEMMA Leaves ==
  ASSUME CInv, CInv', [CNext]_cvars, flushing = NoFd, ~CCrash,
         NEW b \in Reqs, Buffered(b), ~InBuf(pool', b.fd, b.pagenum)
  PROVE  /\ HasRoom(pool, disk) /\ pool.free = <<>>
         /\ Holds(pool, Victim(pool), b)
<1>1. PoolOK(pool) /\ PoolOK(pool') /\ disk \in Disks
  BY DEF CInv, IInv, TypeOK
<1>2. PICK g : Holds(pool, g, b)
  BY <1>1, FoundHolds DEF Buffered
<1>3. \A h : ~Holds(pool', h, b)
  BY <1>1, HoldsFound
<1>4. ~SameHeld(pool, pool') /\ pool' # pool
  BY <1>2, <1>3 DEF SameHeld, Holds
<1>5. ~(\E bq \in Reqs : CUnpin(bq) \/ \E v \in Data : CStore(bq, v))
  BY <1>4, RestHeld DEF CUnpin
<1>6. ~CFlush
  BY <1>4 DEF CFlush, FlushBufFixed, FlushBufBegin, FlushBufPage, FlushBufEnd
<1>7. PICK bq \in Reqs : \/ GetBufHit(bq) \/ TouchBuf(bq)
                         \/ GetBufMiss(bq) \/ AllocBuf(bq) \/ GetBufUnread(bq)
  BY <1>4, <1>5, <1>6
     DEF CNext, CGet, CGetFails, CAlloc, CAllocFails, CTouch, cvars,
         GetBufNoMem, AllocBufNoMem
<1>8. bq \in BFreq
  BY ReqIs
<1>9. CASE GetBufHit(bq) \/ TouchBuf(bq)
  <2> DEFINE f == FrameOf(pool, bq.fd, bq.pagenum)
  <2>1. Holds(pool, f, bq)
    BY <1>1, <1>9, FoundHolds DEF GetBufHit, TouchBuf, Buffered
  <2> HIDE DEF f
  <2>2. PICK page : Changed(pool, pool', f, page)
                    /\ page.fd = bq.fd /\ page.page_num = bq.pagenum
    <3>1. pool.page[f] \in BFpage
      BY <1>1, <2>1 DEF Holds, PoolOK, Pools
    <3>2. CASE GetBufHit(bq)
      <4>1. Changed(pool, pool', f, [pool.page[f] EXCEPT !.count = ShortInc(@)])
        BY <1>1, <1>8, <2>1, <3>2, HitDoes DEF GetBufHit
      <4> QED BY <2>1, <3>1, <4>1 DEF Holds, BFpage
    <3>3. CASE TouchBuf(bq)
      <4>1. Changed(pool, pool', f, [pool.page[f] EXCEPT !.dirty = TRUE])
        BY <1>1, <1>8, <2>1, <3>3, TouchDoes DEF TouchBuf
      <4> QED BY <2>1, <3>1, <4>1 DEF Holds, BFpage
    <3> QED BY <1>9, <3>2, <3>3
  <2> QED BY <1>2, <1>3, <2>1, <2>2 DEF Changed, Holds
<1>10. CASE GetBufMiss(bq) \/ AllocBuf(bq) \/ GetBufUnread(bq)
  <2> DEFINE q == MakeRoom(pool)
  <2>1. HasRoom(pool, disk)
    BY <1>10 DEF GetBufMiss, AllocBuf, GetBufUnread
  <2>2. \A h \in Frame : ~Holds(q, h, b)
    <3>1. CASE GetBufUnread(bq)
      BY <1>1, <1>3, <1>8, <2>1, <3>1, UnreadHeld DEF GetBufUnread, SameHeld
    <3>2. CASE GetBufMiss(bq) \/ AllocBuf(bq)
      <4>1. ~InBuf(pool, bq.fd, bq.pagenum)
        BY <3>2 DEF GetBufMiss, AllocBuf, Buffered
      <4>2. PICK f, page : Linked(q, pool', f, page)
        <5>1. CASE GetBufMiss(bq)
          <6>1. pool' = GetMiss(pool, disk, bq) /\ Readable(pool, disk, bq) \in Data
            BY <1>1, <2>1, <5>1, ReadableOK DEF GetBufMiss, CInv, IInv, TypeOK
          <6> QED BY <1>1, <1>8, <2>1, <4>1, <6>1, MissDoes
        <5>2. CASE AllocBuf(bq)
          BY <1>1, <1>8, <2>1, <4>1, <5>2, AllocDoes DEF AllocBuf
        <5> QED BY <3>2, <5>1, <5>2
      <4> HIDE DEF q
      <4> QED BY <1>3, <4>2 DEF Linked, Holds
    <3> QED BY <1>10, <3>1, <3>2
  <2>3. CASE pool.free # <<>>
    BY <1>2, <2>2, <2>3 DEF MakeRoom, Holds
  <2>4. CASE pool.free = <<>>
    <3>1. Dropped(pool, q, Victim(pool))
      BY <1>1, <2>1, <2>4, MakeRoomDoes
    <3> HIDE DEF q
    <3>2. g = Victim(pool)
      BY <1>2, <2>2, <3>1 DEF Dropped, Holds
    <3> QED BY <1>2, <2>1, <2>4, <3>2
  <2> QED BY <2>3, <2>4
<1> QED BY <1>7, <1>9, <1>10

(* When a call evicts a page, every page in the pool that was used less     *)
(* recently is pinned (bf.c:218-227).                                       *)
THEOREM EvictionIsLru == CSpec => EvictsLeastRecent
<1>1. LInv /\ [CNext]_cvars => LInv'
  BY NextLInv
<1>2. ASSUME LInv, LInv', [CNext]_cvars, flushing = NoFd, ~CCrash,
             NEW a \in Reqs, NEW b \in Reqs, <<a, b>> \in older,
             Buffered(b), ~InBuf(pool', b.fd, b.pagenum)
      PROVE  pins[a] > 0
  <2>1. /\ CInv /\ CInv' /\ PoolOK(pool) /\ Agree(pool, pins, ptr) /\ PinsTyped
        /\ Ordered(pool, older) /\ InBuf(pool, a.fd, a.pagenum)
    BY <1>2 DEF LInv, CInv, IInv, Current
  <2>2. /\ HasRoom(pool, disk) /\ pool.free = <<>>
        /\ Holds(pool, Victim(pool), b)
    BY <1>2, <2>1, Leaves
  <2>3. PICK f : Holds(pool, f, a) /\ f \in Frame
    BY <2>1, FoundHolds DEF Holds
  <2>4. Before(pool, f, Victim(pool))
    BY <1>2, <2>1, <2>2, <2>3 DEF Ordered, Holds
  <2>5. pool.page[f].count # 0
    BY <2>1, <2>2, <2>3, <2>4, VictimIsFirst
  <2>6. pins[a] = pool.page[f].count /\ pins[a] \in Nat
    BY <2>1, <2>3, ClientAssumption, PoolAssumption DEF Agree, PinsTyped
  <2> QED BY <2>5, <2>6
<1>3. LInv /\ LInv' /\ [CNext]_cvars =>
        [ \A a, b \in Reqs :
            flushing = NoFd /\ ~CCrash /\ <<a, b>> \in older
              /\ Buffered(b) /\ ~InBuf(pool', b.fd, b.pagenum) => pins[a] > 0 ]_cvars
  BY <1>2
<1> QED BY InitLInv, <1>1, <1>3, PTL DEF CSpec, EvictsLeastRecent
=============================================================================
