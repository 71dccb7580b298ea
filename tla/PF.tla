--------------------------------- MODULE PF ---------------------------------
(***************************************************************************)
(* The paged file layer of pf/pf.c over the buffer pool, the Unix files    *)
(* and the process's Unix descriptors, under an arbitrary caller.  One     *)
(* action per path of a call; rc is what the last call returned.           *)
(* PF_CloseFile is the one call that runs a loop of writes (BF_FlushBuf):  *)
(* `closing` holds its descriptor while it runs, one page per step, so     *)
(* that the process can die between two of its writes.                     *)
(*                                                                         *)
(* Page n of a PF file is page n + 1 of the Unix file; page 0 starts with  *)
(* the file header, kept here as header[file], -1 while the Unix file is   *)
(* too short to hold one.  Definitions named Bug... are faulty variants,   *)
(* as in BFPool.                                                           *)
(***************************************************************************)
EXTENDS BFPool

CONSTANTS PF_FTAB_SIZE,    \* entries of the file table
          Name, NoName,    \* file names
          Prefix,          \* pairs <<a, b>>: name a is a prefix of name b
          Inode, NoInode,  \* Unix files
          MaxUnixFd,       \* bound: Unix descriptors a process may have
          MaxPages,        \* bound: data pages of a file
          NoFd             \* no PF_CloseFile is running

ASSUME PFAssumption ==
  /\ PF_FTAB_SIZE \in Nat \ {0} /\ MaxUnixFd \in Nat /\ MaxPages \in Nat
  /\ Fd = 0..(PF_FTAB_SIZE - 1) /\ UnixFd = 0..MaxUnixFd /\ PageNum = 0..MaxPages
  /\ NoName \notin Name /\ NoInode \notin Inode /\ Closed \notin Inode
  /\ Prefix \subseteq Name \X Name
  /\ \A n \in Name : <<n, n>> \in Prefix
  /\ NoFd \notin Fd

VARIABLES pool, disk,   \* see BFPool
          dir,          \* the Unix directory: name to file
          header,       \* the header in each Unix file: its number of pages
          pf_table,     \* the file table
          closing,      \* the descriptor whose PF_CloseFile is flushing
          rc

vars == <<pool, disk, dir, header, pf_table, closing, rc>>
unix == <<disk, dir, header>>

PFE_OK == 0
PFE_INVALIDPAGE == -1
PFE_FTABFULL == -3
PFE_EOF == -5
PFE_FILEOPEN == -6
PFE_FILENOTEXIST == -9
PFE_FILEIO == -11
PFE_CLOSE == -12
PFE_ALLOC == -13
PFE_GETTHIS == -14
PFE_GETNEXT == -15
PFE_GETDIRTY == -17
PFE_UNPINPAGE == -18

\* calloc: an entry that was never used claims to be descriptor 0.
NewEntry == [valid |-> FALSE, inode |-> 0, fname |-> NoName, unixfd |-> 0,
             numpages |-> 0, offset |-> 0, hdrchanged |-> FALSE]

NoneOpen == [u \in UnixFd |-> Closed]

\* PF_Init in a new process, on whatever files there are.
PF_Init ==
  /\ pool = EmptyPool
  /\ pf_table = [fd \in Fd |-> NewEntry]
  /\ closing = NoFd
  /\ rc = PFE_OK

Init ==
  /\ PF_Init
  /\ disk = [open |-> NoneOpen, data |-> [k \in Inode \X PageNum |-> Absent]]
  /\ dir = [n \in Name |-> NoInode]
  /\ header = [i \in Inode |-> -1]

Returns(code) == closing = NoFd /\ closing' = NoFd /\ rc' = code

\* A call that returns an error and has done nothing.
Refuses(code) == Returns(code) /\ UNCHANGED <<pool, unix, pf_table>>
-----------------------------------------------------------------------------
(* The Unix side: descriptors 0 to 2 are the standard streams. *)

FreeUnixFd == {u \in UnixFd : u >= 3 /\ disk.open[u] = Closed}
NewUnixFd == CHOOSE u \in FreeUnixFd : \A v \in FreeUnixFd : u <= v

FreeInode == {i \in Inode : /\ \A n \in Name : dir[n] # i
                            /\ \A u \in UnixFd : disk.open[u] # i}
NewInode == CHOOSE i \in FreeInode : TRUE

\* open succeeds when the file exists and a descriptor is left.
PF_SearchFile(name) == dir[name] # NoInode /\ FreeUnixFd # {}

Opened(d, u, i) == [d EXCEPT !.open[u] = i]

(* The file table. *)

FreeEntries == {i \in Fd : ~pf_table[i].valid}
FirstFree == CHOOSE i \in FreeEntries : \A j \in FreeEntries : i <= j

BugSearchTableNever(name) == FALSE   \* no check for a second open

\* strncmp over the length of the new name: any open name it is a prefix of.
PF_SearchTable(name) ==
  \E i \in Fd : /\ pf_table[i].unixfd # 0 /\ pf_table[i].valid
                /\ <<name, pf_table[i].fname>> \in Prefix

IsOpen(fd) == pf_table[fd].valid /\ pf_table[fd].inode = fd

\* The request for data page n of descriptor fd.
Bq(fd, n) == [fd |-> pf_table[fd].inode, unixfd |-> pf_table[fd].unixfd,
              pagenum |-> n + 1]
-----------------------------------------------------------------------------
(* PF_CreateFile *)

CreateExists(name) ==
  /\ PF_SearchFile(name) \/ FreeUnixFd = {}
  /\ Refuses(PFE_FILEOPEN)

\* creat makes an empty file before the table is searched for room.
NewFile(name) ==
  /\ dir[name] = NoInode /\ FreeUnixFd # {} /\ FreeInode # {}
  /\ dir' = [dir EXCEPT ![name] = NewInode]

EmptyData == [k \in Inode \X PageNum |-> IF k[1] = NewInode THEN Absent ELSE disk.data[k]]

CreateTableFull(name) ==
  /\ NewFile(name) /\ FreeEntries = {}
  /\ disk' = Opened([disk EXCEPT !.data = EmptyData], NewUnixFd, NewInode)
  /\ header' = [header EXCEPT ![NewInode] = -1]
  /\ Returns(PFE_FILEOPEN) /\ UNCHANGED <<pool, pf_table>>

\* The entry is filled in but stays free; the descriptor is closed again.
PF_CreateFile(name) ==
  /\ NewFile(name) /\ FreeEntries # {}
  /\ disk' = [disk EXCEPT !.data = EmptyData]
  /\ header' = [header EXCEPT ![NewInode] = 0]
  /\ pf_table' = [pf_table EXCEPT ![FirstFree] =
                    [@ EXCEPT !.inode = FirstFree, !.fname = name,
                              !.unixfd = NewUnixFd, !.numpages = 0, !.offset = 0]]
  /\ Returns(PFE_OK) /\ UNCHANGED pool

(* PF_DestroyFile does not look at the file table. *)

PF_DestroyFile(name) ==
  /\ dir[name] # NoInode
  /\ dir' = [dir EXCEPT ![name] = NoInode]
  /\ Returns(PFE_OK) /\ UNCHANGED <<pool, disk, header, pf_table>>

DestroyMissing(name) == dir[name] = NoInode /\ Refuses(PFE_FILENOTEXIST)

(* PF_OpenFile *)

OpenMissing(name) == ~PF_SearchFile(name) /\ Refuses(PFE_FILENOTEXIST)

\* The second open of the function is left open by each of its error returns.
OpenFails(name, code) ==
  /\ disk' = Opened(disk, NewUnixFd, dir[name])
  /\ Returns(code) /\ UNCHANGED <<pool, dir, header, pf_table>>

OpenRefused(name) ==
  /\ PF_SearchFile(name)
  /\ PF_SearchTable(name) \/ FreeEntries = {}
  /\ OpenFails(name, PFE_FTABFULL)

OpenNoHeader(name) ==
  /\ PF_SearchFile(name)
  /\ ~PF_SearchTable(name) /\ FreeEntries # {}
  /\ header[dir[name]] = -1
  /\ OpenFails(name, PFE_FILEIO)

PF_OpenFile(name) ==
  /\ PF_SearchFile(name)
  /\ ~PF_SearchTable(name) /\ FreeEntries # {}
  /\ header[dir[name]] # -1
  /\ disk' = Opened(disk, NewUnixFd, dir[name])
  /\ pf_table' = [pf_table EXCEPT ![FirstFree] =
                    [valid |-> TRUE, inode |-> FirstFree, fname |-> name,
                     unixfd |-> NewUnixFd, numpages |-> header[dir[name]],
                     offset |-> 0, hdrchanged |-> FALSE]]
  /\ Returns(FirstFree) /\ UNCHANGED <<pool, dir, header>>

(* PF_CloseFile *)

CloseRefused(fd) ==
  /\ ~IsOpen(fd) \/ Fixed(pool, fd)
  /\ Refuses(PFE_CLOSE)

CloseBegin(fd) ==
  /\ closing = NoFd /\ IsOpen(fd) /\ ~Fixed(pool, fd)
  /\ closing' = fd
  /\ UNCHANGED <<pool, unix, pf_table, rc>>

CloseFlush ==
  /\ closing # NoFd /\ PagesOf(pool, closing) # {}
  /\ LET f == NextOf(pool, closing) IN
       /\ pool' = Discard(pool, f)
       /\ disk' = Flushed(disk, pool.page[f])
  /\ UNCHANGED <<dir, header, pf_table, closing, rc>>

\* the header goes out first
BugCloseHeaderEarly ==
  /\ closing # NoFd /\ pf_table[closing].hdrchanged
  /\ header' = [header EXCEPT ![disk.open[pf_table[closing].unixfd]] =
                  pf_table[closing].numpages]
  /\ pf_table' = [pf_table EXCEPT ![closing].hdrchanged = FALSE]
  /\ UNCHANGED <<pool, disk, dir, closing, rc>>

\* hdrchanged is reset, the header is not written
BugCloseHeaderLost ==
  /\ closing # NoFd /\ PagesOf(pool, closing) = {}
  /\ pf_table[closing].hdrchanged
  /\ pf_table' = [pf_table EXCEPT ![closing].hdrchanged = FALSE]
  /\ UNCHANGED <<pool, disk, dir, header, closing, rc>>

\* The header goes out after every page it counts, then the file is closed.
CloseHeader ==
  /\ closing # NoFd /\ PagesOf(pool, closing) = {}
  /\ pf_table[closing].hdrchanged
  /\ header' = [header EXCEPT ![disk.open[pf_table[closing].unixfd]] =
                  pf_table[closing].numpages]
  /\ pf_table' = [pf_table EXCEPT ![closing].hdrchanged = FALSE]
  /\ UNCHANGED <<pool, disk, dir, closing, rc>>

\* the entry is freed while pages of the file are buffered
BugCloseEndUnflushed ==
  /\ closing # NoFd /\ ~pf_table[closing].hdrchanged
  /\ disk' = Opened(disk, pf_table[closing].unixfd, Closed)
  /\ pf_table' = [pf_table EXCEPT ![closing].valid = FALSE]
  /\ closing' = NoFd /\ rc' = PFE_OK
  /\ UNCHANGED <<pool, dir, header>>

CloseEnd ==
  /\ closing # NoFd /\ PagesOf(pool, closing) = {}
  /\ ~pf_table[closing].hdrchanged
  /\ disk' = Opened(disk, pf_table[closing].unixfd, Closed)
  /\ pf_table' = [pf_table EXCEPT ![closing].valid = FALSE]
  /\ closing' = NoFd /\ rc' = PFE_OK
  /\ UNCHANGED <<pool, dir, header>>
-----------------------------------------------------------------------------
(* PF_AllocPage: no test that the descriptor is open. *)

AllocRefused(fd) ==
  /\ LET bq == Bq(fd, pf_table[fd].numpages) IN
       InBuf(pool, bq.fd, bq.pagenum) \/ ~HasRoom(pool, disk)
  /\ Refuses(PFE_ALLOC)

PF_AllocPage(fd) ==
  LET bq == Bq(fd, pf_table[fd].numpages) IN
  /\ pf_table[fd].numpages < MaxPages
  /\ ~InBuf(pool, bq.fd, bq.pagenum) /\ HasRoom(pool, disk)
  /\ pool' = Touch(Alloc(pool, bq), bq.fd, bq.pagenum)
  /\ disk' = RoomDisk(pool, disk)
  /\ pf_table' = [pf_table EXCEPT ![fd].numpages = @ + 1, ![fd].hdrchanged = TRUE]
  /\ Returns(PFE_OK) /\ UNCHANGED <<dir, header>>

(* BF_GetBuf of data page n: the page is found, or read, or cannot be had;  *)
(* a failed read costs the pool a frame.                                    *)
Got(bq) ==
  \/ /\ InBuf(pool, bq.fd, bq.pagenum)
     /\ pool' = GetHit(pool, bq) /\ disk' = disk
  \/ /\ ~InBuf(pool, bq.fd, bq.pagenum) /\ HasRoom(pool, disk)
     /\ Readable(pool, disk, bq) # Absent
     /\ pool' = GetMiss(pool, disk, bq) /\ disk' = RoomDisk(pool, disk)

NotGot(bq) ==
  /\ ~InBuf(pool, bq.fd, bq.pagenum)
  /\ \/ /\ HasRoom(pool, disk) /\ Readable(pool, disk, bq) = Absent
        /\ pool' = GetUnread(pool, bq) /\ disk' = RoomDisk(pool, disk)
     \/ ~HasRoom(pool, disk) /\ UNCHANGED <<pool, disk>>

\* one page too far
BugCursorAhead(fd, n) == pf_table' = [pf_table EXCEPT ![fd].offset = n + 1]

\* The cursor of the file after a call that leaves it at n.
Cursor(fd, n) == pf_table' = [pf_table EXCEPT ![fd].offset = n]

(* PF_GetThisPage *)

GetThisInvalid(fd, n) ==
  \/ ~IsOpen(fd) /\ Refuses(PFE_GETTHIS)
  \/ IsOpen(fd) /\ n >= pf_table[fd].numpages /\ Refuses(PFE_INVALIDPAGE)

PF_GetThisPage(fd, n) ==
  /\ IsOpen(fd) /\ n < pf_table[fd].numpages
  /\ \/ Got(Bq(fd, n)) /\ Returns(PFE_OK)
     \/ NotGot(Bq(fd, n)) /\ Returns(PFE_GETTHIS)
  /\ UNCHANGED <<dir, header, pf_table>>

(* PF_GetFirstPage, also PF_GetNextPage with *pagenum = -1 *)

GetFirstNone(fd) ==
  \/ ~IsOpen(fd) /\ Refuses(PFE_GETNEXT)
  \/ IsOpen(fd) /\ pf_table[fd].numpages = 0 /\ Refuses(PFE_EOF)

PF_GetFirstPage(fd) ==
  /\ IsOpen(fd) /\ pf_table[fd].numpages > 0
  /\ \/ Got(Bq(fd, 0)) /\ Cursor(fd, 1) /\ Returns(PFE_OK)
     \/ NotGot(Bq(fd, 0)) /\ Cursor(fd, 0) /\ Returns(PFE_GETNEXT)
  /\ UNCHANGED <<dir, header>>

(* PF_GetNextPage goes by the cursor of the file, whatever *pagenum says. *)

\* the last page counts as past the end
BugGetNextEarlyEnd(fd) ==
  \/ ~IsOpen(fd) /\ Refuses(PFE_GETNEXT)
  \/ IsOpen(fd) /\ pf_table[fd].offset + 1 >= pf_table[fd].numpages /\ Refuses(PFE_EOF)

GetNextNone(fd) ==
  \/ ~IsOpen(fd) /\ Refuses(PFE_GETNEXT)
  \/ IsOpen(fd) /\ pf_table[fd].offset >= pf_table[fd].numpages /\ Refuses(PFE_EOF)

PF_GetNextPage(fd) ==
  LET n == pf_table[fd].offset IN
  /\ IsOpen(fd) /\ n < pf_table[fd].numpages
  /\ \/ Got(Bq(fd, n)) /\ Cursor(fd, n + 1) /\ Returns(PFE_OK)
     \/ NotGot(Bq(fd, n)) /\ Cursor(fd, n) /\ Returns(PFE_GETNEXT)
  /\ UNCHANGED <<dir, header>>

(* PF_GetHeaderPage pins page 0, for which PF_UnpinPage has no number. *)
PF_GetHeaderPage(fd) ==
  /\ IsOpen(fd)
  /\ LET bq == Bq(fd, -1) IN
       (Got(bq) /\ Returns(PFE_OK)) \/ (NotGot(bq) /\ Returns(PFE_GETTHIS))
  /\ UNCHANGED <<dir, header, pf_table>>

(* PF_DirtyPage and PF_UnpinPage *)

Knows(fd, n) == IsOpen(fd) /\ n < pf_table[fd].numpages
InPool(fd, n) == InBuf(pool, fd, n + 1)

DirtyRefused(fd, n) ==
  /\ ~Knows(fd, n) \/ ~InPool(fd, n)
  /\ Refuses(PFE_GETDIRTY)

PF_DirtyPage(fd, n) ==
  /\ Knows(fd, n) /\ InPool(fd, n)
  /\ pool' = Touch(pool, fd, n + 1)
  /\ Returns(PFE_OK) /\ UNCHANGED <<unix, pf_table>>

UnpinRefused(fd, n, dirty) ==
  /\ ~Knows(fd, n) \/ (dirty /\ ~InPool(fd, n))
  /\ Refuses(PFE_UNPINPAGE)

\* a dirty page is marked and keeps its pin
BugUnpinDirtyKeeps(fd, n, dirty) ==
  /\ Knows(fd, n) /\ (dirty => InPool(fd, n))
  /\ pool' = IF dirty THEN Touch(pool, fd, n + 1) ELSE Unpin(pool, fd, n + 1)
  /\ Returns(PFE_OK) /\ UNCHANGED <<unix, pf_table>>

PF_UnpinPage(fd, n, dirty) ==
  /\ Knows(fd, n) /\ (dirty => InPool(fd, n))
  /\ pool' = Unpin(IF dirty THEN Touch(pool, fd, n + 1) ELSE pool, fd, n + 1)
  /\ Returns(PFE_OK) /\ UNCHANGED <<unix, pf_table>>
-----------------------------------------------------------------------------
(* The caller writes through the page pointer it was given. *)
StorePage(fd, n, v) ==
  /\ closing = NoFd /\ InPool(fd, n)
  /\ LET f == FrameOf(pool, fd, n + 1) IN
       /\ pool.page[f].count # 0
       /\ pool' = [pool EXCEPT !.page[f].fpage = v]
  /\ UNCHANGED <<unix, pf_table, closing, rc>>

(* The process dies; what a new one finds is the Unix files. *)
Crash ==
  /\ pool' = EmptyPool
  /\ pf_table' = [fd \in Fd |-> NewEntry]
  /\ closing' = NoFd /\ rc' = PFE_OK
  /\ disk' = [disk EXCEPT !.open = NoneOpen]
  /\ UNCHANGED <<dir, header>>

FileCall(name) ==
  \/ CreateExists(name) \/ CreateTableFull(name) \/ PF_CreateFile(name)
  \/ PF_DestroyFile(name) \/ DestroyMissing(name)
  \/ OpenMissing(name) \/ OpenRefused(name) \/ OpenNoHeader(name) \/ PF_OpenFile(name)

CloseCall == (\E fd \in Fd : CloseRefused(fd) \/ CloseBegin(fd))
             \/ CloseFlush \/ CloseHeader \/ CloseEnd

PageCall(fd, n) ==
  \/ GetThisInvalid(fd, n) \/ PF_GetThisPage(fd, n)
  \/ DirtyRefused(fd, n) \/ PF_DirtyPage(fd, n)
  \/ \E dirty \in BOOLEAN : UnpinRefused(fd, n, dirty) \/ PF_UnpinPage(fd, n, dirty)

DataPage == 0..(MaxPages - 1)

Next ==
  \/ \E name \in Name : FileCall(name)
  \/ CloseCall
  \/ \E fd \in Fd : \/ AllocRefused(fd) \/ PF_AllocPage(fd)
                    \/ GetFirstNone(fd) \/ PF_GetFirstPage(fd)
                    \/ GetNextNone(fd) \/ PF_GetNextPage(fd)
                    \/ PF_GetHeaderPage(fd)
  \/ \E fd \in Fd, n \in DataPage : PageCall(fd, n) \/ \E v \in Data : StorePage(fd, n, v)
  \/ Crash

Spec == Init /\ [][Next]_vars
-----------------------------------------------------------------------------
PFftab_ele == [valid : BOOLEAN, inode : Fd, fname : Name \cup {NoName},
               unixfd : UnixFd, numpages : 0..MaxPages, offset : 0..MaxPages,
               hdrchanged : BOOLEAN]

(* The pool, the Unix files and the file table have the shapes the code     *)
(* gives them.                                                              *)
TypeOK ==
  /\ pool \in Pools
  /\ disk \in [open : [UnixFd -> Inode \cup {Closed}],
               data : [Inode \X PageNum -> Data \cup {Absent}]]
  /\ dir \in [Name -> Inode \cup {NoInode}]
  /\ header \in [Inode -> -1..MaxPages]
  /\ pf_table \in [Fd -> PFftab_ele]
  /\ closing \in Fd \cup {NoFd}

OpenFds == {fd \in Fd : pf_table[fd].valid}
FileOf(fd) == disk.open[pf_table[fd].unixfd]

(* Whatever is called, an open entry names itself and has a Unix descriptor *)
(* of its own that is open, and no Unix file is behind two open entries,    *)
(* whose headers and buffered pages would drift apart (pf.c:22-35, 140).    *)
EntriesApart ==
  /\ \A fd \in OpenFds : IsOpen(fd) /\ FileOf(fd) # Closed
  /\ \A f1, f2 \in OpenFds : FileOf(f1) = FileOf(f2) => f1 = f2
=============================================================================
