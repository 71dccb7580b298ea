------------------------------ MODULE BFClient ------------------------------
(***************************************************************************)
(* BF under the discipline its callers owe it (document/monorel_bf.pdf,    *)
(* section 2): pin a page before using it, mark it dirty before the last   *)
(* unpin if it was modified, add pages at the end of a file, and unpin as  *)
(* often as pinned.  The descriptor of a file is tied to one Unix          *)
(* descriptor, as it is between PF_OpenFile and PF_CloseFile.              *)
(***************************************************************************)
EXTENDS BF

CONSTANT MaxPins   \* bound: pins a caller holds on one page

ASSUME ClientAssumption ==
  /\ MaxPins \in 1..SHORT_MAX
  /\ \A a, b \in Reqs : a.fd = b.fd <=> OpenFiles[a.unixfd] = OpenFiles[b.unixfd]
  /\ \A a, b \in Reqs : a.fd = b.fd => a.unixfd = b.unixfd
  /\ \A bq \in Reqs : OpenFiles[bq.unixfd] # Closed

VARIABLES pins,    \* pins held on each page
          ptr,     \* the frame the last pin of a page returned, 0 for none
          use,     \* what the caller did since it pinned the page
          older    \* pairs of buffered pages: the first was used before
                   \* the second was

cvars == <<pool, disk, flushing, rc, pins, ptr, use, older>>

\* "idle": not modified, "stored": modified, "touched": marked dirty.
Uses == {"idle", "stored", "touched"}

CInit ==
  /\ Init
  /\ pins = [bq \in Reqs |-> 0]
  /\ ptr = [bq \in Reqs |-> 0]
  /\ use = [bq \in Reqs |-> "idle"]
  /\ older = {}

\* What page bq reads as: its buffered copy, or the one in the file.
View(p, d, bq) ==
  IF InBuf(p, bq.fd, bq.pagenum) THEN p.page[FrameOf(p, bq.fd, bq.pagenum)].fpage
  ELSE PRead(d, bq.unixfd, bq.pagenum)

Exists(bq) == View(pool, disk, bq) # Absent

\* The pages of the file before bq are there: bq is the end of the file.
IsNext(bq) == \A b \in Reqs : b.fd = bq.fd /\ b.pagenum < bq.pagenum => Exists(b)

\* The history after a step: pages that are still buffered keep their order,
\* and a page that was used is the latest.
StillIn(p, r) == {ab \in r : InBuf(p, ab[1].fd, ab[1].pagenum)
                             /\ InBuf(p, ab[2].fd, ab[2].pagenum)}
Others(p, bq) == {b \in Reqs \ {bq} : InBuf(p, b.fd, b.pagenum)}
Used(bq) == older' = {ab \in StillIn(pool', older) : ab[1] # bq /\ ab[2] # bq}
                     \cup (Others(pool', bq) \X {bq})
NotUsed == older' = StillIn(pool', older)

CGet(bq) ==
  /\ Exists(bq) /\ pins[bq] < MaxPins
  /\ GetBufHit(bq) \/ GetBufMiss(bq)
  /\ pins' = [pins EXCEPT ![bq] = @ + 1]
  /\ ptr' = [ptr EXCEPT ![bq] = FrameOf(pool', bq.fd, bq.pagenum)]
  /\ Used(bq) /\ UNCHANGED use

CGetFails(bq) ==
  /\ Exists(bq) /\ pins[bq] < MaxPins
  /\ GetBufUnread(bq) \/ GetBufNoMem(bq)
  /\ NotUsed /\ UNCHANGED <<pins, ptr, use>>

CAlloc(bq) ==
  /\ ~Exists(bq) /\ IsNext(bq)
  /\ AllocBuf(bq)
  /\ pins' = [pins EXCEPT ![bq] = 1]
  /\ ptr' = [ptr EXCEPT ![bq] = FrameOf(pool', bq.fd, bq.pagenum)]
  /\ use' = [use EXCEPT ![bq] = "stored"]
  /\ Used(bq)

CAllocFails(bq) ==
  /\ ~Exists(bq) /\ IsNext(bq)
  /\ AllocBufNoMem(bq)
  /\ NotUsed /\ UNCHANGED <<pins, ptr, use>>

CTouch(bq) ==
  /\ pins[bq] > 0
  /\ TouchBuf(bq)
  /\ use' = [use EXCEPT ![bq] = "touched"]
  /\ Used(bq) /\ UNCHANGED <<pins, ptr>>

\* The store goes through the pointer, wherever that points by now.
CStore(bq, v) ==
  /\ flushing = NoFd /\ pins[bq] > 0
  /\ pool' = [pool EXCEPT !.page[ptr[bq]].fpage = v]
  /\ use' = [use EXCEPT ![bq] = IF @ = "touched" THEN @ ELSE "stored"]
  /\ UNCHANGED <<disk, flushing, rc, pins, ptr, older>>

CUnpin(bq) ==
  /\ pins[bq] > 0
  /\ pins[bq] = 1 => use[bq] # "stored"
  /\ UnpinBuf(bq)
  /\ pins' = [pins EXCEPT ![bq] = @ - 1]
  /\ use' = [use EXCEPT ![bq] = IF pins[bq] = 1 THEN "idle" ELSE @]
  /\ ptr' = [ptr EXCEPT ![bq] = IF pins[bq] = 1 THEN 0 ELSE @]
  /\ UNCHANGED older

CFlush ==
  /\ \/ \E fd \in Fd : FlushBufFixed(fd) \/ FlushBufBegin(fd)
     \/ FlushBufPage \/ FlushBufEnd
  /\ NotUsed /\ UNCHANGED <<pins, ptr, use>>

CCrash ==
  /\ Crash
  /\ pins' = [bq \in Reqs |-> 0]
  /\ use' = [bq \in Reqs |-> "idle"]
  /\ ptr' = [bq \in Reqs |-> 0]
  /\ older' = {}

CNext ==
  \/ \E bq \in Reqs : \/ CGet(bq) \/ CGetFails(bq) \/ CAlloc(bq) \/ CAllocFails(bq)
                      \/ CTouch(bq) \/ CUnpin(bq)
                      \/ \E v \in Data : CStore(bq, v)
  \/ CFlush
  \/ CCrash

CSpec == CInit /\ [][CNext]_cvars
-----------------------------------------------------------------------------
(* The pin a caller holds is worth something: the page is buffered, its pin *)
(* count is the number of pins held, and every pointer handed out for it    *)
(* still leads to it (bf.c:333-334, 365-366, 383).                          *)
PointersValid ==
  \A bq \in Reqs :
    IF InBuf(pool, bq.fd, bq.pagenum)
    THEN /\ pool.page[FrameOf(pool, bq.fd, bq.pagenum)].count = pins[bq]
         /\ pins[bq] > 0 => ptr[bq] = FrameOf(pool, bq.fd, bq.pagenum)
    ELSE pins[bq] = 0

(* A page that may be dropped without writing is the same in its file: the  *)
(* dirty flag of an unpinned page tells the truth (bf.c:234, 397).          *)
CleanIsOnDisk ==
  \A bq \in Reqs :
    InBuf(pool, bq.fd, bq.pagenum) /\ pins[bq] = 0 =>
      LET page == pool.page[FrameOf(pool, bq.fd, bq.pagenum)] IN
        page.dirty \/ page.fpage = PRead(disk, bq.unixfd, bq.pagenum)

(* The LRU list is the order in which the pages were last asked for or      *)
(* touched, and evict_policy takes the first unpinned one from its head.    *)
LruIsRecency ==
  \A a, b \in Reqs : Buffered(a) /\ Buffered(b) =>
    (<<a, b>> \in older <=>
       \E i, j \in DOMAIN pool.lru :
         /\ i < j
         /\ pool.lru[i] = FrameOf(pool, a.fd, a.pagenum)
         /\ pool.lru[j] = FrameOf(pool, b.fd, b.pagenum))

(* When a call evicts page b, every buffered page that was used less        *)
(* recently than b is pinned (bf.c:218-227).                                *)
EvictsLeastRecent ==
  [][ \A a, b \in Reqs :
        flushing = NoFd /\ ~CCrash /\ <<a, b>> \in older
          /\ Buffered(b) /\ ~InBuf(pool', b.fd, b.pagenum) => pins[a] > 0 ]_cvars

(* While the files can be read no frame is lost: every frame is on the free *)
(* list or on the LRU list, for the next request to find (bf.c:46-109).     *)
NoFrameLost ==
  \A f \in Frame : \/ \E i \in DOMAIN pool.free : pool.free[i] = f
                   \/ \E i \in DOMAIN pool.lru : pool.lru[i] = f

(* A page request is refused for want of memory only when every frame holds *)
(* a page that somebody has pinned: "All pages are busy", bf.c:312.         *)
NoMemOnlyWhenBusy ==
  [][ rc' = BFE_NOMEM /\ (\E bq \in Reqs : CGetFails(bq) \/ CAllocFails(bq)) =>
        \A f \in Frame : \E bq \in Reqs : pins[bq] > 0 /\ ptr[bq] = f ]_cvars

(* The pool is an implementation of the paged store.                        *)
PageKey == {<<bq.fd, bq.pagenum>> : bq \in Reqs}
ReqOf(k) == CHOOSE bq \in Reqs : <<bq.fd, bq.pagenum>> = k

Store == INSTANCE PagedStore WITH
  Page <- PageKey,
  content <- [k \in PageKey |-> View(pool, disk, ReqOf(k))],
  durable <- [k \in PageKey |-> PRead(disk, ReqOf(k).unixfd, k[2])],
  pins <- [k \in PageKey |-> pins[ReqOf(k)]]

ImplementsPagedStore == Store!Spec
=============================================================================
