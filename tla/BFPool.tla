------------------------------- MODULE BFPool -------------------------------
(***************************************************************************)
(* The buffer pool of bf/bf.c as operators on a pool value, so that the    *)
(* modules that issue one buffer call per step (BF, BFClient) and the one  *)
(* whose handlers make several (PF) share one translation of the code.     *)
(*                                                                         *)
(* A pool p is a record                                                    *)
(*   p.free  the free list, first frame to be handed out first;            *)
(*   p.lru   the LRU list from lru_head (least recent) to lru_tail;        *)
(*   p.hash  the entries of the hash table.  A chain is only ever searched *)
(*           by (fd, page_num), so the buckets are flattened to a set;     *)
(*   p.page  the BFpage structure of every frame.                          *)
(* A disk d is what the kernel knows of the Unix files:                    *)
(*   d.open  the file behind each Unix descriptor, Closed for none;        *)
(*   d.data  the contents of <<file, page>>, Absent past the end.          *)
(*                                                                         *)
(* Definitions named Bug... are faulty variants of the definition that     *)
(* follows them; nothing uses them, and PROJECT.json says which property   *)
(* each would break.                                                       *)
(***************************************************************************)
EXTENDS Integers, Sequences, SequencesExt

CONSTANTS BF_MAX_BUFS, SHORT_MAX, Data, Zero, Absent, Closed,
          Fd, UnixFd, PageNum   \* the numbers that PF descriptors, Unix
                                \* descriptors and pages of Unix files have

ASSUME PoolAssumption ==
  /\ BF_MAX_BUFS \in Nat \ {0}
  /\ SHORT_MAX \in Nat \ {0}
  /\ Zero \in Data
  /\ Absent \notin Data
  /\ Fd \subseteq Nat /\ UnixFd \subseteq Nat /\ PageNum \subseteq Nat

Frame == 1..BF_MAX_BUFS

\* What pins can do to the C short that counts them.
Short == (-SHORT_MAX - 1)..SHORT_MAX
BugShortIncWide(c) == c + 1   \* an int instead of a short

ShortInc(c) == IF c = SHORT_MAX THEN -SHORT_MAX - 1 ELSE c + 1
ShortDec(c) == IF c = -SHORT_MAX - 1 THEN SHORT_MAX ELSE c - 1

\* What a call is asked for.
BFreq == [fd : Fd, unixfd : UnixFd, pagenum : PageNum]

BFpage == [fpage : Data, dirty : BOOLEAN, count : Short,
           page_num : PageNum \cup {-1}, fd : Fd \cup {-1},
           unix_fd : UnixFd \cup {-1}]

HashEntries == [fd : Fd, page_num : PageNum, bpage : Frame]

Pools == [free : Seq(Frame), lru : Seq(Frame), hash : SUBSET HashEntries,
          page : [Frame -> BFpage]]
-----------------------------------------------------------------------------
(* The Unix files. *)

\* pread of one page: Absent stands for a short or failed read.
PRead(d, u, n) == IF d.open[u] = Closed THEN Absent ELSE d.data[<<d.open[u], n>>]

\* pwrite of one page: writing past the end leaves a hole that reads as zeros.
PWrite(d, u, n, v) ==
  [d EXCEPT !.data =
     [k \in DOMAIN @ |->
        IF k = <<d.open[u], n>> THEN v
        ELSE IF k[1] = d.open[u] /\ k[2] < n /\ @[k] = Absent THEN Zero ELSE @[k]]]

\* flush_page has something to write and cannot, or writes it.
CannotFlush(d, page) == page.dirty /\ d.open[page.unix_fd] = Closed

Flushed(d, page) ==
  IF page.dirty /\ ~CannotFlush(d, page)
  THEN PWrite(d, page.unix_fd, page.page_num, page.fpage) ELSE d

-----------------------------------------------------------------------------
(* The free list, the LRU list and the hash table. *)

BlankPage == [fpage |-> Zero, dirty |-> FALSE, count |-> 0,
              page_num |-> -1, fd |-> -1, unix_fd |-> -1]

\* BF_Init returns the frames to the free list one by one: the last is first.
EmptyPool ==
  [free |-> [i \in Frame |-> BF_MAX_BUFS + 1 - i],
   lru  |-> <<>>,
   hash |-> {},
   page |-> [f \in Frame |-> BlankPage]]

FreePagesReturn(p, f) ==
  [p EXCEPT !.free = <<f>> \o @, !.page[f] = BlankPage]

LruInsert(p, f) == [p EXCEPT !.lru = Append(@, f)]

LruIndex(p, f) == CHOOSE i \in DOMAIN p.lru : p.lru[i] = f

LruDelete(p, f) == [p EXCEPT !.lru = RemoveAt(@, LruIndex(p, f))]

BugLruTouchForgotten(p, f) == p

LruTouch(p, f) == LruInsert(LruDelete(p, f), f)

Hashed(p, fd, n) == {e \in p.hash : e.fd = fd /\ e.page_num = n}

InBuf(p, fd, n) == Hashed(p, fd, n) # {}

HashEntry(p, fd, n) == CHOOSE e \in Hashed(p, fd, n) : TRUE

FrameOf(p, fd, n) == HashEntry(p, fd, n).bpage

\* hash_insert copies the key of the page into the entry.
HashInsert(p, f) ==
  [p EXCEPT !.hash = @ \cup {[fd |-> p.page[f].fd,
                              page_num |-> p.page[f].page_num,
                              bpage |-> f]}]

BugHashDeleteForgotten(p, f) == p

\* hash_delete finds the entry again by the page's key.
HashDelete(p, f) ==
  [p EXCEPT !.hash = @ \ {HashEntry(p, p.page[f].fd, p.page[f].page_num)}]

-----------------------------------------------------------------------------
(* Eviction. *)

BugUnpinnedAny(p) == DOMAIN p.lru   \* the pin count is not looked at

Unpinned(p) == {i \in DOMAIN p.lru : p.page[p.lru[i]].count = 0}

\* the search starts from lru_tail
BugVictimFromTail(p) ==
  p.lru[CHOOSE i \in Unpinned(p) : \A j \in Unpinned(p) : i >= j]

\* evict_policy: the first page from lru_head that nobody has pinned.
Victim(p) ==
  p.lru[CHOOSE i \in Unpinned(p) : \A j \in Unpinned(p) : i <= j]

\* The page leaves the hash table and the LRU list and its frame is free again.
Discard(p, f) == FreePagesReturn(LruDelete(HashDelete(p, f), f), f)

BugHasRoomFreeOnly(p, d) == p.free # <<>>   \* nothing is evicted

\* A frame can be had: one is free, or the victim can be written if it must.
HasRoom(p, d) ==
  \/ p.free # <<>>
  \/ Unpinned(p) # {} /\ ~CannotFlush(d, p.page[Victim(p)])

\* Having a frame means writing out a dirty page first.
MustWrite(p) == p.free = <<>> /\ Unpinned(p) # {} /\ p.page[Victim(p)].dirty

\* Pool and disk once a frame is at the head of the free list.
MakeRoom(p) == IF p.free # <<>> THEN p ELSE Discard(p, Victim(p))
BugRoomDiskUnwritten(p, d) == d   \* a dirty victim is dropped
RoomDisk(p, d) == IF p.free # <<>> THEN d ELSE Flushed(d, p.page[Victim(p)])

\* free_pages_get, and the frame given the identity of the request bq.
Assign(p, bq, contents) ==
  [p EXCEPT !.free = Tail(@),
            !.page[Head(p.free)] = [@ EXCEPT !.fd = bq.fd,
                                             !.unix_fd = bq.unixfd,
                                             !.page_num = bq.pagenum,
                                             !.fpage = contents]]

Pin(p, f) == [p EXCEPT !.page[f].count = ShortInc(@)]

-----------------------------------------------------------------------------
(* The operations of bf.h.  Each operator is the pool (or disk) a call that *)
(* takes the named path leaves behind.                                      *)

\* a second pin of a page is not counted
BugGetHitUnpinned(p, bq) == LruTouch(p, FrameOf(p, bq.fd, bq.pagenum))

\* BF_GetBuf, page in the buffer.
GetHit(p, bq) ==
  LET f == FrameOf(p, bq.fd, bq.pagenum) IN Pin(LruTouch(p, f), f)

\* What the pread of BF_GetBuf finds, after the eviction has written.
Readable(p, d, bq) == PRead(RoomDisk(p, d), bq.unixfd, bq.pagenum)

\* BF_GetBuf, page read from the file into a frame.
GetMiss(p, d, bq) ==
  LET q == MakeRoom(p)
      f == Head(q.free)
      r == HashInsert(LruInsert(Assign(q, bq, Readable(p, d, bq)), f), f)
  IN Pin(LruTouch(r, f), f)

\* BF_GetBuf, the pread fails: the frame has left the free list for good.
GetUnread(p, bq) == Assign(MakeRoom(p), bq, Zero)

\* BF_AllocBuf: the new page is pinned, zero and not yet dirty.
Alloc(p, bq) ==
  LET q == MakeRoom(p)
      f == Head(q.free)
  IN HashInsert(LruInsert(Pin(Assign(q, bq, q.page[f].fpage), f), f), f)

\* BF_UnpinBuf: an unknown page and a page at count 0 are left alone.
Unpin(p, fd, n) ==
  IF InBuf(p, fd, n) /\ p.page[FrameOf(p, fd, n)].count # 0
  THEN [p EXCEPT !.page[FrameOf(p, fd, n)].count = ShortDec(@)]
  ELSE p

\* only the LRU position is updated
BugTouchClean(p, fd, n) == LruTouch(p, FrameOf(p, fd, n))

\* BF_TouchBuf, page in the buffer.
Touch(p, fd, n) ==
  LET f == FrameOf(p, fd, n)
  IN LruTouch([p EXCEPT !.page[f].dirty = TRUE], f)

\* BF_FlushBuf: the pages of fd in the buffer, and its test for pins.
PagesOf(p, fd) == {i \in DOMAIN p.lru : p.page[p.lru[i]].fd = fd}
Fixed(p, fd) == \E i \in PagesOf(p, fd) : p.page[p.lru[i]].count # 0

\* The next page its second loop writes and discards.
NextOf(p, fd) ==
  p.lru[CHOOSE i \in PagesOf(p, fd) : \A j \in PagesOf(p, fd) : i <= j]
-----------------------------------------------------------------------------
(* What keeps a pool in order. *)

(* The free list and the LRU list, which share their link fields in the     *)
(* code, never hold a frame twice nor share one: bf.c:46-109.               *)
ListsDisjoint(p) ==
  /\ \A i, j \in DOMAIN p.free : p.free[i] = p.free[j] => i = j
  /\ \A i, j \in DOMAIN p.lru : p.lru[i] = p.lru[j] => i = j
  /\ \A i \in DOMAIN p.free, j \in DOMAIN p.lru : p.free[i] # p.lru[j]

(* Every page on the LRU list is in the hash table under its own key, and   *)
(* every entry of the hash table leads to a page on the LRU list that still *)
(* has the entry's key: bf.c:127-205.                                       *)
HashMatchesLru(p) ==
  /\ \A i \in DOMAIN p.lru :
       [fd |-> p.page[p.lru[i]].fd, page_num |-> p.page[p.lru[i]].page_num,
        bpage |-> p.lru[i]] \in p.hash
  /\ \A e \in p.hash :
       /\ \E i \in DOMAIN p.lru : p.lru[i] = e.bpage
       /\ e.fd = p.page[e.bpage].fd /\ e.page_num = p.page[e.bpage].page_num

(* No page of a file is in two frames, where one could go stale while the   *)
(* other is modified: BF_GetBuf and BF_AllocBuf both look before they link. *)
OneFramePerPage(p) ==
  \A e1, e2 \in p.hash :
    e1.fd = e2.fd /\ e1.page_num = e2.page_num => e1 = e2

(* A frame on the free list is as free_pages_return left it.  BF_AllocBuf   *)
(* relies on it: it neither clears the page nor resets count and dirty.     *)
FreeFramesBlank(p) == \A i \in DOMAIN p.free : p.page[p.free[i]] = BlankPage
=============================================================================
