--------------------------------- MODULE BF ---------------------------------
(***************************************************************************)
(* The buffer manager of bf/bf.c under an arbitrary caller: any request in *)
(* Reqs, in any order, pinned or not.  One action per path of a call; rc   *)
(* is the value the last call returned.  BF_FlushBuf is the only call that *)
(* loops over I/O: its second loop is one step per page, so that a crash   *)
(* or a failed write can fall between two pages; no other call runs before *)
(* it returns, for the library is single threaded.  Bug...: see BFPool.     *)
(***************************************************************************)
EXTENDS BFPool

CONSTANTS File, OpenFiles,  \* Unix files, and which one is behind each
                            \* Unix descriptor
          Reqs,             \* the requests a caller may make
          NoFd,             \* no BF_FlushBuf is running
          READ_FAILS,       \* pread may fail inside a file
          WRITE_FAILS       \* pwrite may fail

ASSUME BFAssumption ==
  /\ Reqs \subseteq BFreq
  /\ NoFd \notin Fd /\ Closed \notin File
  /\ OpenFiles \in [UnixFd -> File \cup {Closed}]
  /\ READ_FAILS \in BOOLEAN /\ WRITE_FAILS \in BOOLEAN

VARIABLES pool,      \* the buffer pool
          disk,      \* the Unix files
          flushing,  \* the fd whose BF_FlushBuf is in its second loop
          rc         \* what the last call returned

vars == <<pool, disk, flushing, rc>>

BFE_OK == 0
BFE_NOMEM == -1
BFE_PAGEFIXED == -3
BFE_PAGENOTINBUF == -51
BFE_INCOMPLETEWRITE == -98
BFE_UNIX == -100

\* The pages of the Unix files that a request can name.
DiskPage == {<<OpenFiles[bq.unixfd], bq.pagenum>> : bq \in Reqs}

\* Files of any length, without pages missing in the middle.
WholeFiles(data) == \A k, l \in DiskPage :
  k[1] = l[1] /\ k[2] < l[2] /\ data[l] # Absent => data[k] # Absent

\* BF_Init.
Init ==
  /\ pool = EmptyPool
  /\ disk \in [open : {OpenFiles}, data : [DiskPage -> {Zero, Absent}]]
  /\ WholeFiles(disk.data)
  /\ flushing = NoFd
  /\ rc = BFE_OK

Returns(code) == flushing = NoFd /\ flushing' = NoFd /\ rc' = code

Buffered(bq) == InBuf(pool, bq.fd, bq.pagenum)
-----------------------------------------------------------------------------
(* BF_GetBuf *)

GetBufHit(bq) ==
  /\ Buffered(bq)
  /\ pool' = GetHit(pool, bq)
  /\ Returns(BFE_OK) /\ UNCHANGED disk

GetBufMiss(bq) ==
  /\ ~Buffered(bq) /\ HasRoom(pool, disk)
  /\ Readable(pool, disk, bq) # Absent
  /\ pool' = GetMiss(pool, disk, bq)
  /\ disk' = RoomDisk(pool, disk)
  /\ Returns(BFE_OK)

GetBufUnread(bq) ==
  /\ ~Buffered(bq) /\ HasRoom(pool, disk)
  /\ READ_FAILS \/ Readable(pool, disk, bq) = Absent
  /\ pool' = GetUnread(pool, bq)
  /\ disk' = RoomDisk(pool, disk)
  /\ Returns(BFE_UNIX)

\* No frame to be had: every page is pinned, or the victim cannot be written.
NoFrame == ~HasRoom(pool, disk) \/ (WRITE_FAILS /\ MustWrite(pool))

GetBufNoMem(bq) ==
  /\ ~Buffered(bq) /\ NoFrame
  /\ Returns(BFE_NOMEM) /\ UNCHANGED <<pool, disk>>

(* BF_AllocBuf *)

AllocBuf(bq) ==
  /\ ~Buffered(bq) /\ HasRoom(pool, disk)
  /\ pool' = Alloc(pool, bq)
  /\ disk' = RoomDisk(pool, disk)
  /\ Returns(BFE_OK)

AllocBufExists(bq) ==
  /\ Buffered(bq)
  /\ Returns(BFE_INCOMPLETEWRITE) /\ UNCHANGED <<pool, disk>>

AllocBufNoMem(bq) ==
  /\ ~Buffered(bq) /\ NoFrame
  /\ Returns(BFE_NOMEM) /\ UNCHANGED <<pool, disk>>

(* BF_UnpinBuf returns BFE_OK whatever it finds. *)
UnpinBuf(bq) ==
  /\ pool' = Unpin(pool, bq.fd, bq.pagenum)
  /\ Returns(BFE_OK) /\ UNCHANGED disk

(* BF_TouchBuf *)

TouchBuf(bq) ==
  /\ Buffered(bq)
  /\ pool' = Touch(pool, bq.fd, bq.pagenum)
  /\ Returns(BFE_OK) /\ UNCHANGED disk

TouchBufMissing(bq) ==
  /\ ~Buffered(bq)
  /\ Returns(BFE_PAGENOTINBUF) /\ UNCHANGED <<pool, disk>>

(* BF_FlushBuf *)

FlushBufFixed(fd) ==
  /\ Fixed(pool, fd)
  /\ Returns(BFE_PAGEFIXED) /\ UNCHANGED <<pool, disk>>

FlushBufBegin(fd) ==
  /\ flushing = NoFd /\ ~Fixed(pool, fd)
  /\ flushing' = fd
  /\ UNCHANGED <<pool, disk, rc>>

\* the frame is unlinked but not given back
BugFlushPageLeaks ==
  /\ flushing # NoFd /\ PagesOf(pool, flushing) # {}
  /\ LET f == NextOf(pool, flushing) IN
       /\ pool' = LruDelete(HashDelete(pool, f), f)
       /\ disk' = Flushed(disk, pool.page[f])
  /\ UNCHANGED <<flushing, rc>>

\* flush_page's result is ignored: the page is discarded even if not written.
FlushBufPage ==
  /\ flushing # NoFd /\ PagesOf(pool, flushing) # {}
  /\ LET f == NextOf(pool, flushing) IN
       /\ pool' = Discard(pool, f)
       /\ \/ disk' = Flushed(disk, pool.page[f])
          \/ WRITE_FAILS /\ disk' = disk
  /\ UNCHANGED <<flushing, rc>>

FlushBufEnd ==
  /\ flushing # NoFd /\ PagesOf(pool, flushing) = {}
  /\ flushing' = NoFd /\ rc' = BFE_OK
  /\ UNCHANGED <<pool, disk>>

-----------------------------------------------------------------------------
(* The caller stores through the fpage pointer of a page it has pinned. *)
StorePage(bq, v) ==
  /\ flushing = NoFd /\ Buffered(bq)
  /\ LET f == FrameOf(pool, bq.fd, bq.pagenum) IN
       /\ pool.page[f].count # 0
       /\ pool' = [pool EXCEPT !.page[f].fpage = v]
  /\ UNCHANGED <<disk, flushing, rc>>

(* The process dies and a new one calls BF_Init. *)
Crash ==
  /\ pool' = EmptyPool
  /\ flushing' = NoFd /\ rc' = BFE_OK
  /\ UNCHANGED disk

Call(bq) ==
  \/ GetBufHit(bq) \/ GetBufMiss(bq) \/ GetBufUnread(bq) \/ GetBufNoMem(bq)
  \/ AllocBuf(bq) \/ AllocBufExists(bq) \/ AllocBufNoMem(bq)
  \/ UnpinBuf(bq) \/ TouchBuf(bq) \/ TouchBufMissing(bq)

Next ==
  \/ \E bq \in Reqs : Call(bq) \/ \E v \in Data : StorePage(bq, v)
  \/ \E fd \in Fd : FlushBufFixed(fd) \/ FlushBufBegin(fd)
  \/ FlushBufPage \/ FlushBufEnd
  \/ Crash

Spec == Init /\ [][Next]_vars
-----------------------------------------------------------------------------
(* Type invariant. *)

Disks == [open : {OpenFiles}, data : [DiskPage -> Data \cup {Absent}]]

(* The pool, the files and the flush in progress have the shapes the code   *)
(* gives them; the pin count stays in the range of a C short.               *)
TypeOK ==
  /\ pool \in Pools
  /\ disk \in Disks
  /\ flushing \in Fd \cup {NoFd}
  /\ rc \in {BFE_OK, BFE_NOMEM, BFE_PAGEFIXED, BFE_PAGENOTINBUF,
             BFE_INCOMPLETEWRITE, BFE_UNIX}

-----------------------------------------------------------------------------
(* Safety. *)

(* The invariant of the pool, whoever calls. *)
PoolInv ==
  /\ ListsDisjoint(pool)
  /\ HashMatchesLru(pool)
  /\ OneFramePerPage(pool)
  /\ FreeFramesBlank(pool)

(* A page leaves the pool, or its frame changes hands, only when its pin    *)
(* count is zero, whatever calls are made (bf.c:223, 416); a crash takes    *)
(* the whole pool.                                                          *)
PinnedPagesStay ==
  [][ \A i \in DOMAIN pool.lru :
        LET f == pool.lru[i] IN
          pool.page[f].count # 0 /\ ~Crash =>
            /\ \E j \in DOMAIN pool'.lru : pool'.lru[j] = f
            /\ pool'.page[f].fd = pool.page[f].fd
            /\ pool'.page[f].page_num = pool.page[f].page_num ]_vars
=============================================================================
