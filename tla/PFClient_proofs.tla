--------------------------- MODULE PFClient_proofs ---------------------------
(***************************************************************************)
(* Proofs about PF.  First for any caller: for every size of the file      *)
(* table and of the pool, all names and files, and any sequence of calls   *)
(* (destroying open files and using closed descriptors included) with      *)
(* crashes between any two steps, the state keeps its types, and open      *)
(* entries have files and Unix descriptors of their own.  Then for callers *)
(* that keep the rules, also for any number of pages and pins.             *)
(***************************************************************************)
EXTENDS PFClient, BFPool_proofs

\* The file table, the Unix descriptors and the directory as arrays.
Tables ==
  /\ DOMAIN pf_table = Fd
  /\ \A fd \in Fd : DOMAIN pf_table[fd] =
       {"valid", "inode", "fname", "unixfd", "numpages", "offset", "hdrchanged"}
  /\ DOMAIN disk = {"open", "data"}
  /\ disk.open \in [UnixFd -> Inode \cup {Closed}]
  /\ dir \in [Name -> Inode \cup {NoInode}]

\* Descriptor 0 would hide an entry from PF_SearchTable.
EntriesNamed ==
  \A fd \in OpenFds :
    /\ IsOpen(fd) /\ pf_table[fd].fname \in Name
    /\ pf_table[fd].unixfd \in UnixFd /\ pf_table[fd].unixfd >= 3
    /\ FileOf(fd) \in Inode

FilesApart == \A f1, f2 \in OpenFds : FileOf(f1) = FileOf(f2) => f1 = f2

\* No file has two names, and an open file that still has its name has the one
\* it was opened by: this is what looking names up in the table relies on.
NamesApart == \A m, n \in Name : dir[m] = dir[n] /\ dir[m] # NoInode => m = n
NamesKept ==
  \A fd \in OpenFds : \A n \in Name : dir[n] = FileOf(fd) => pf_table[fd].fname = n

ClosesOpen == closing # NoFd => closing \in OpenFds

PInv ==
  /\ Tables /\ EntriesNamed /\ FilesApart
  /\ NamesApart /\ NamesKept /\ ClosesOpen

-----------------------------------------------------------------------------
(* What the searches find. *)

LEMMA FreeUnixFdFound ==
  ASSUME FreeUnixFd # {}
  PROVE  NewUnixFd \in UnixFd /\ NewUnixFd >= 3 /\ disk.open[NewUnixFd] = Closed
<1>1. FreeUnixFd \in SUBSET Nat
  BY PFAssumption DEF FreeUnixFd
<1>2. NewUnixFd \in FreeUnixFd
  BY <1>1, LeastOf DEF NewUnixFd
<1> QED BY <1>2 DEF FreeUnixFd

LEMMA FreeEntryFound ==
  ASSUME FreeEntries # {}
  PROVE  FirstFree \in Fd /\ ~pf_table[FirstFree].valid
<1>1. FreeEntries \in SUBSET Nat
  BY PFAssumption DEF FreeEntries
<1>2. FirstFree \in FreeEntries
  BY <1>1, LeastOf DEF FirstFree
<1> QED BY <1>2 DEF FreeEntries

LEMMA FreeInodeFound ==
  ASSUME FreeInode # {}
  PROVE  /\ NewInode \in Inode
         /\ \A n \in Name : dir[n] # NewInode
         /\ \A u \in UnixFd : disk.open[u] # NewInode
<1>1. NewInode \in FreeInode
  BY DEF NewInode
<1> QED BY <1>1 DEF FreeInode

\* Writing pages opens and closes nothing.
LEMMA WritesKeepOpen ==
  ASSUME NEW p, NEW page, Tables
  PROVE  /\ Flushed(disk, page).open = disk.open
         /\ DOMAIN Flushed(disk, page) = DOMAIN disk
         /\ RoomDisk(p, disk).open = disk.open
         /\ DOMAIN RoomDisk(p, disk) = DOMAIN disk
<1>1. ASSUME NEW g
      PROVE  Flushed(disk, g).open = disk.open /\ DOMAIN Flushed(disk, g) = DOMAIN disk
  <2>1. ASSUME NEW data
        PROVE  /\ [disk EXCEPT !.data = data].open = disk.open
               /\ DOMAIN [disk EXCEPT !.data = data] = DOMAIN disk
    BY DEF Tables
  <2>2. \E data : PWrite(disk, g.unix_fd, g.page_num, g.fpage)
                    = [disk EXCEPT !.data = data]
    BY Zenon DEF PWrite
  <2> QED BY <2>1, <2>2 DEF Flushed
<1>2. RoomDisk(p, disk) = disk \/ RoomDisk(p, disk) = Flushed(disk, p.page[Victim(p)])
  BY DEF RoomDisk
<1> QED BY <1>1, <1>2

-----------------------------------------------------------------------------
(* What the steps do to the tables. *)

\* Which entries are open, and what they are found by, stays as it is.
EntriesKept ==
  /\ DOMAIN pf_table' = Fd
  /\ \A fd \in Fd : DOMAIN pf_table'[fd] = DOMAIN pf_table[fd]
  /\ \A fd \in Fd : pf_table'[fd].valid = pf_table[fd].valid
  /\ \A fd \in OpenFds : /\ pf_table'[fd].inode = pf_table[fd].inode
                         /\ pf_table'[fd].fname = pf_table[fd].fname
                         /\ pf_table'[fd].unixfd = pf_table[fd].unixfd

\* Descriptors and names that are in use stay with their files; a name that
\* appears has a file that is neither named nor open.
UnixKept ==
  /\ DOMAIN disk' = {"open", "data"}
  /\ disk'.open \in [UnixFd -> Inode \cup {Closed}]
  /\ \A u \in UnixFd : disk.open[u] # Closed => disk'.open[u] = disk.open[u]
  /\ dir' \in [Name -> Inode \cup {NoInode}]
  /\ \A n \in Name : \/ dir'[n] \in {dir[n], NoInode}
                     \/ /\ \A u \in UnixFd : disk.open[u] # dir'[n]
                        /\ \A m \in Name : dir[m] # dir'[n] /\ (dir'[m] = dir'[n] => m = n)

LEMMA KeepsPInv ==
  ASSUME PInv, EntriesKept, UnixKept, closing' \in {NoFd, closing} \cup OpenFds
  PROVE  PInv'
<1>1. OpenFds' = OpenFds /\ OpenFds \subseteq Fd
  BY DEF EntriesKept, OpenFds
<1>2. Tables'
  BY DEF PInv, Tables, EntriesKept, UnixKept
<1>3. \A fd \in OpenFds :
        /\ pf_table[fd].unixfd \in UnixFd
        /\ FileOf(fd) \in Inode /\ FileOf(fd)' = FileOf(fd)
  BY PFAssumption DEF PInv, EntriesNamed, EntriesKept, UnixKept, FileOf
<1>4. EntriesNamed'
  BY <1>1, <1>3 DEF PInv, EntriesNamed, EntriesKept, IsOpen
<1>5. FilesApart'
  BY <1>1, <1>3 DEF PInv, FilesApart
<1>6. NamesApart'
  BY DEF PInv, NamesApart, UnixKept
<1>7. NamesKept'
  <2> SUFFICES ASSUME NEW fd \in OpenFds, NEW n \in Name, dir'[n] = FileOf(fd)
               PROVE  pf_table'[fd].fname = n
    BY <1>1, <1>3 DEF NamesKept
  <2>1. dir'[n] = dir[n]
    BY <1>3, PFAssumption DEF UnixKept, FileOf
  <2> QED BY <2>1 DEF PInv, NamesKept, EntriesKept
<1>8. ClosesOpen'
  BY <1>1 DEF PInv, ClosesOpen
<1> QED BY <1>2, <1>4, <1>5, <1>6, <1>7, <1>8 DEF PInv

\* Page calls change page counts, cursors and marks.
PageStep ==
  /\ EntriesKept
  /\ DOMAIN disk' = DOMAIN disk /\ disk'.open = disk.open /\ dir' = dir

LEMMA KeepsUnix ==
  ASSUME PInv, PageStep, closing' \in {NoFd, closing} \cup OpenFds
  PROVE  PInv'
<1>1. UnixKept
  BY DEF PInv, Tables, PageStep, UnixKept
<1> QED BY <1>1, KeepsPInv DEF PageStep

LEMMA SameTables ==
  ASSUME PInv, UNCHANGED <<disk, dir, pf_table>>,
         closing' \in {NoFd, closing} \cup OpenFds
  PROVE  PInv'
<1>1. PageStep
  BY DEF PageStep, EntriesKept, PInv, Tables
<1> QED BY <1>1, KeepsUnix

-----------------------------------------------------------------------------
(* Files. *)

LEMMA CreateStep ==
  ASSUME PInv, NEW name \in Name, PF_CreateFile(name) \/ CreateTableFull(name)
  PROVE  PInv'
<1> DEFINE i == NewInode
           u == NewUnixFd
           e == FirstFree
           data == EmptyData
<1>1. /\ dir[name] = NoInode /\ FreeUnixFd # {} /\ FreeInode # {}
      /\ dir' = [dir EXCEPT ![name] = i]
  BY DEF PF_CreateFile, CreateTableFull, NewFile
<1>2. /\ i \in Inode
      /\ \A n \in Name : dir[n] # i
      /\ \A v \in UnixFd : disk.open[v] # i
  BY <1>1, FreeInodeFound
<1>3. u \in UnixFd /\ disk.open[u] = Closed
  BY <1>1, FreeUnixFdFound
<1>4. /\ dir' \in [Name -> Inode \cup {NoInode}]
      /\ dir'[name] = i /\ \A n \in Name : n # name => dir'[n] = dir[n]
  BY <1>1, <1>2 DEF PInv, Tables
<1>5. closing' = NoFd
  BY DEF PF_CreateFile, CreateTableFull, Returns
<1>6. CASE PF_CreateFile(name)
  <2>1. /\ FreeEntries # {} /\ disk' = [disk EXCEPT !.data = data]
        /\ pf_table' = [pf_table EXCEPT ![e] =
                          [@ EXCEPT !.inode = e, !.fname = name, !.unixfd = u,
                                    !.numpages = 0, !.offset = 0]]
    BY <1>6 DEF PF_CreateFile
  <2>2. e \in Fd /\ ~pf_table[e].valid
    BY <2>1, FreeEntryFound
  <2> HIDE DEF i, u, e, data
  <2>3. EntriesKept
    BY <2>1, <2>2 DEF PInv, Tables, EntriesKept, OpenFds
  <2>4. DOMAIN disk' = {"open", "data"} /\ disk'.open = disk.open
    BY <2>1 DEF PInv, Tables
  <2>5. UnixKept
    BY <1>2, <1>4, <2>4 DEF PInv, Tables, UnixKept
  <2> QED BY <1>5, <2>3, <2>5, KeepsPInv
<1>7. CASE CreateTableFull(name)
  <2>1. /\ disk' = [[disk EXCEPT !.data = data] EXCEPT !.open[u] = i]
        /\ pf_table' = pf_table
    BY <1>7 DEF CreateTableFull, Opened
  <2> HIDE DEF i, u, e, data
  <2>2. EntriesKept
    BY <2>1 DEF PInv, Tables, EntriesKept
  <2>3. DOMAIN disk' = {"open", "data"} /\ disk'.open = [disk.open EXCEPT ![u] = i]
    BY <2>1 DEF PInv, Tables
  <2>4. UnixKept
    BY <1>2, <1>3, <1>4, <2>3 DEF PInv, Tables, UnixKept
  <2> QED BY <1>5, <2>2, <2>4, KeepsPInv
<1> QED BY <1>6, <1>7

LEMMA DestroyStep ==
  ASSUME PInv, NEW name \in Name, PF_DestroyFile(name)
  PROVE  PInv'
<1>1. /\ dir' = [dir EXCEPT ![name] = NoInode]
      /\ UNCHANGED <<disk, pf_table>> /\ closing' = NoFd
  BY DEF PF_DestroyFile, Returns
<1>2. EntriesKept /\ UnixKept
  BY <1>1 DEF PInv, Tables, EntriesKept, UnixKept
<1> QED BY <1>1, <1>2, KeepsPInv

\* A refused open leaves a descriptor behind that was not in use.
LEMMA OpenFailsStep ==
  ASSUME PInv, NEW name \in Name, OpenRefused(name) \/ OpenNoHeader(name)
  PROVE  PInv'
<1> DEFINE u == NewUnixFd
<1>1. /\ PF_SearchFile(name) /\ disk' = [disk EXCEPT !.open[u] = dir[name]]
      /\ UNCHANGED <<dir, pf_table>> /\ closing' = NoFd
  BY DEF OpenRefused, OpenNoHeader, OpenFails, Opened, Returns
<1>2. u \in UnixFd /\ disk.open[u] = Closed /\ dir[name] \in Inode
  BY <1>1, FreeUnixFdFound DEF PF_SearchFile, PInv, Tables
<1> HIDE DEF u
<1>3. DOMAIN disk' = {"open", "data"} /\ disk'.open = [disk.open EXCEPT ![u] = dir[name]]
  BY <1>1 DEF PInv, Tables
<1>4. EntriesKept /\ UnixKept
  BY <1>1, <1>2, <1>3 DEF PInv, Tables, EntriesKept, UnixKept
<1> QED BY <1>1, <1>4, KeepsPInv

\* PF_SearchTable has found no open entry of that name, so the file of that
\* name is not open.
LEMMA OpenStep ==
  ASSUME PInv, NEW name \in Name, PF_OpenFile(name)
  PROVE  PInv'
<1> PICK e : e = FirstFree
  OBVIOUS
<1> DEFINE u == NewUnixFd
           i == dir[name]
           new == [valid |-> TRUE, inode |-> e, fname |-> name, unixfd |-> u,
                   numpages |-> header[i], offset |-> 0, hdrchanged |-> FALSE]
<1>1. /\ PF_SearchFile(name) /\ ~PF_SearchTable(name) /\ FreeEntries # {}
      /\ disk' = [disk EXCEPT !.open[u] = i]
      /\ pf_table' = [pf_table EXCEPT ![e] = new]
      /\ dir' = dir /\ closing' = NoFd
  BY DEF PF_OpenFile, Opened, Returns
<1>2. u \in UnixFd /\ u >= 3 /\ disk.open[u] = Closed /\ i \in Inode
  BY <1>1, FreeUnixFdFound DEF PF_SearchFile, PInv, Tables
<1>3. e \in Fd /\ e \notin OpenFds
  BY <1>1, FreeEntryFound DEF OpenFds
<1> HIDE DEF u
<1>4. /\ DOMAIN new =
           {"valid", "inode", "fname", "unixfd", "numpages", "offset", "hdrchanged"}
      /\ new.valid = TRUE /\ new.inode = e /\ new.fname = name /\ new.unixfd = u
  OBVIOUS
<1> HIDE DEF new
<1>5. /\ DOMAIN disk' = {"open", "data"}
      /\ disk'.open \in [UnixFd -> Inode \cup {Closed}]
      /\ disk'.open[u] = i
      /\ \A v \in UnixFd : v # u => disk'.open[v] = disk.open[v]
  BY <1>1, <1>2 DEF PInv, Tables
<1>6. /\ DOMAIN pf_table' = Fd
      /\ pf_table'[e] = new
      /\ \A fd \in Fd : fd # e => pf_table'[fd] = pf_table[fd]
  BY <1>1, <1>3 DEF PInv, Tables
<1>7. Tables'
  BY <1>1, <1>4, <1>5, <1>6 DEF PInv, Tables
<1>8. OpenFds' = OpenFds \cup {e}
  BY <1>3, <1>4, <1>6 DEF OpenFds
<1>9. \A fd \in OpenFds : pf_table[fd].fname # name
  <2>1. <<name, name>> \in Prefix
    BY PFAssumption
  <2>2. \A fd \in OpenFds : fd \in Fd /\ pf_table[fd].valid /\ pf_table[fd].unixfd # 0
    BY PFAssumption DEF OpenFds, PInv, EntriesNamed
  <2> QED BY <1>1, <2>1, <2>2 DEF PF_SearchTable
<1>10. \A fd \in OpenFds :
         /\ fd \in Fd /\ fd # e /\ pf_table'[fd] = pf_table[fd]
         /\ FileOf(fd)' = FileOf(fd) /\ FileOf(fd) # i
  <2> SUFFICES ASSUME NEW fd \in OpenFds
               PROVE  /\ fd \in Fd /\ fd # e /\ pf_table'[fd] = pf_table[fd]
                      /\ FileOf(fd)' = FileOf(fd) /\ FileOf(fd) # i
    OBVIOUS
  <2>1. fd \in Fd /\ fd # e /\ pf_table'[fd] = pf_table[fd]
    BY <1>3, <1>6 DEF OpenFds
  <2>2. /\ pf_table[fd].unixfd \in UnixFd
        /\ disk.open[pf_table[fd].unixfd] \in Inode
    BY DEF PInv, EntriesNamed, FileOf
  <2>3. pf_table[fd].unixfd # u
    BY <1>2, <2>2, PFAssumption
  <2>4. FileOf(fd)' = FileOf(fd)
    BY <1>5, <2>1, <2>2, <2>3 DEF FileOf
  <2> QED BY <1>9, <2>1, <2>4 DEF PInv, NamesKept
<1>11. FileOf(e)' = i
  BY <1>4, <1>5, <1>6 DEF FileOf
<1>12. EntriesNamed'
  <2>1. IsOpen(e)'
    BY <1>4, <1>6 DEF IsOpen
  <2>2. \A fd \in OpenFds : IsOpen(fd)'
    BY <1>10 DEF PInv, EntriesNamed, IsOpen
  <2> QED BY <1>2, <1>4, <1>6, <1>8, <1>10, <1>11, <2>1, <2>2 DEF PInv, EntriesNamed
<1>13. FilesApart'
  BY <1>8, <1>10, <1>11 DEF PInv, FilesApart
<1>14. NamesApart'
  BY <1>1 DEF PInv, NamesApart
<1>15. NamesKept'
  <2>1. \A n \in Name : dir[n] = i => n = name
    BY <1>2, PFAssumption DEF PInv, NamesApart
  <2> QED BY <1>1, <1>4, <1>6, <1>8, <1>10, <1>11, <2>1 DEF PInv, NamesKept
<1>16. ClosesOpen'
  BY <1>1 DEF ClosesOpen
<1> QED BY <1>7, <1>12, <1>13, <1>14, <1>15, <1>16 DEF PInv

LEMMA FileStep ==
  ASSUME PInv, NEW name \in Name, FileCall(name)
  PROVE  PInv'
<1>1. CASE CreateExists(name) \/ DestroyMissing(name) \/ OpenMissing(name)
  BY <1>1, SameTables DEF CreateExists, DestroyMissing, OpenMissing, Refuses, Returns, unix
<1> QED BY <1>1, CreateStep, DestroyStep, OpenFailsStep, OpenStep DEF FileCall

-----------------------------------------------------------------------------
(* PF_CloseFile. *)

\* The descriptor that is closed is that of the entry that is freed.
LEMMA CloseEndStep ==
  ASSUME PInv, CloseEnd
  PROVE  PInv'
<1> DEFINE c == closing
           u == pf_table[c].unixfd
<1>1. /\ c \in OpenFds /\ closing' = NoFd /\ dir' = dir
      /\ disk' = [disk EXCEPT !.open[u] = Closed]
      /\ pf_table' = [pf_table EXCEPT ![c].valid = FALSE]
  BY DEF CloseEnd, Opened, PInv, ClosesOpen
<1>2. u \in UnixFd /\ c \in Fd
  BY <1>1 DEF PInv, EntriesNamed, OpenFds
<1> HIDE DEF u
<1>3. /\ DOMAIN disk' = {"open", "data"}
      /\ disk'.open \in [UnixFd -> Inode \cup {Closed}]
      /\ \A v \in UnixFd : v # u => disk'.open[v] = disk.open[v]
  BY <1>1, <1>2 DEF PInv, Tables
<1>4. /\ DOMAIN pf_table' = Fd /\ pf_table'[c].valid = FALSE
      /\ \A fd \in Fd : /\ DOMAIN pf_table'[fd] = DOMAIN pf_table[fd]
                        /\ fd # c => pf_table'[fd] = pf_table[fd]
  BY <1>1, <1>2 DEF PInv, Tables
<1>5. Tables'
  BY <1>1, <1>3, <1>4 DEF PInv, Tables
<1>6. OpenFds' = OpenFds \ {c}
  BY <1>2, <1>4 DEF OpenFds
<1>7. \A fd \in OpenFds' : /\ fd \in OpenFds /\ pf_table'[fd] = pf_table[fd]
                           /\ FileOf(fd)' = FileOf(fd)
  <2> SUFFICES ASSUME NEW fd \in OpenFds'
               PROVE  /\ fd \in OpenFds /\ pf_table'[fd] = pf_table[fd]
                      /\ FileOf(fd)' = FileOf(fd)
    OBVIOUS
  <2>1. fd \in OpenFds /\ fd # c /\ pf_table'[fd] = pf_table[fd]
    BY <1>4, <1>6 DEF OpenFds
  <2>2. pf_table[fd].unixfd # u
    BY <1>1, <2>1 DEF PInv, FilesApart, FileOf, u
  <2>3. pf_table[fd].unixfd \in UnixFd
    BY <2>1 DEF PInv, EntriesNamed
  <2> QED BY <1>3, <2>1, <2>2, <2>3 DEF FileOf
<1>8. EntriesNamed' /\ FilesApart'
  BY <1>7 DEF PInv, EntriesNamed, FilesApart, IsOpen
<1>9. NamesApart' /\ NamesKept' /\ ClosesOpen'
  BY <1>1, <1>7 DEF PInv, NamesApart, NamesKept, ClosesOpen
<1> QED BY <1>5, <1>8, <1>9 DEF PInv

LEMMA CloseStep ==
  ASSUME PInv, CloseCall
  PROVE  PInv'
<1>1. ASSUME NEW fd \in Fd, CloseRefused(fd)
      PROVE  PInv'
  BY <1>1, SameTables DEF CloseRefused, Refuses, Returns, unix
<1>2. ASSUME NEW fd \in Fd, CloseBegin(fd)
      PROVE  PInv'
  <2>1. fd \in OpenFds
    BY <1>2 DEF CloseBegin, IsOpen, OpenFds
  <2> QED BY <1>2, <2>1, SameTables DEF CloseBegin, unix
<1>3. CASE CloseFlush
  <2>1. /\ disk' = Flushed(disk, pool.page[NextOf(pool, closing)])
        /\ UNCHANGED <<dir, pf_table, closing>>
    BY <1>3 DEF CloseFlush
  <2>2. PageStep
    BY <2>1, WritesKeepOpen DEF PageStep, EntriesKept, PInv, Tables
  <2> QED BY <2>1, <2>2, KeepsUnix
<1>4. CASE CloseHeader
  <2>1. /\ pf_table' = [pf_table EXCEPT ![closing].hdrchanged = FALSE]
        /\ UNCHANGED <<disk, dir, closing>>
    BY <1>4 DEF CloseHeader
  <2>2. PageStep
    BY <2>1 DEF PageStep, EntriesKept, PInv, Tables, OpenFds
  <2> QED BY <2>1, <2>2, KeepsUnix
<1>5. CASE CloseEnd
  BY <1>5, CloseEndStep
<1> QED BY <1>1, <1>2, <1>3, <1>4, <1>5 DEF CloseCall

-----------------------------------------------------------------------------
(* Pages. *)

\* Getting a page may write another one out.
LEMMA GotKeepsOpen ==
  ASSUME PInv, NEW bq, Got(bq) \/ NotGot(bq)
  PROVE  DOMAIN disk' = DOMAIN disk /\ disk'.open = disk.open
<1>1. disk' = disk \/ disk' = RoomDisk(pool, disk)
  BY DEF Got, NotGot
<1> QED BY <1>1, WritesKeepOpen DEF PInv

LEMMA CursorKeeps ==
  ASSUME PInv, NEW fd, NEW n, Cursor(fd, n)
  PROVE  EntriesKept
BY DEF Cursor, EntriesKept, PInv, Tables, OpenFds

LEMMA AllocStep ==
  ASSUME PInv, NEW fd \in Fd, PF_AllocPage(fd)
  PROVE  PInv'
<1> DEFINE k == pf_table[fd].numpages + 1
<1>1. /\ pf_table' = [pf_table EXCEPT ![fd].numpages = k, ![fd].hdrchanged = TRUE]
      /\ disk' = RoomDisk(pool, disk) /\ dir' = dir /\ closing' = NoFd
  BY DEF PF_AllocPage, Returns
<1> HIDE DEF k
<1>2. PageStep
  BY <1>1, WritesKeepOpen DEF PageStep, EntriesKept, PInv, Tables, OpenFds
<1> QED BY <1>1, <1>2, KeepsUnix

LEMMA ScanStep ==
  ASSUME PInv, NEW fd \in Fd,
         \/ PF_GetFirstPage(fd) \/ PF_GetNextPage(fd) \/ PF_GetHeaderPage(fd)
         \/ \E n \in DataPage : PF_GetThisPage(fd, n)
  PROVE  PInv'
<1>1. \E bq : Got(bq) \/ NotGot(bq)
  BY Zenon DEF PF_GetFirstPage, PF_GetNextPage, PF_GetHeaderPage, PF_GetThisPage
<1>2. DOMAIN disk' = DOMAIN disk /\ disk'.open = disk.open
  BY <1>1, GotKeepsOpen
<1>3. dir' = dir /\ closing' = NoFd
  BY DEF PF_GetFirstPage, PF_GetNextPage, PF_GetHeaderPage, PF_GetThisPage, Returns
<1>4. pf_table' = pf_table \/ \E n : Cursor(fd, n)
  BY Zenon DEF PF_GetFirstPage, PF_GetNextPage, PF_GetHeaderPage, PF_GetThisPage
<1>5. EntriesKept
  BY <1>4, CursorKeeps DEF EntriesKept, PInv, Tables
<1>6. PageStep
  BY <1>2, <1>3, <1>5 DEF PageStep
<1> QED BY <1>3, <1>6, KeepsUnix

LEMMA PageCallStep ==
  ASSUME PInv, NEW fd \in Fd, NEW n \in DataPage,
         PageCall(fd, n) \/ \E v \in Data : StorePage(fd, n, v)
  PROVE  PInv'
<1>1. CASE PF_GetThisPage(fd, n)
  BY <1>1, ScanStep
<1>2. CASE GetThisInvalid(fd, n) \/ DirtyRefused(fd, n) \/ PF_DirtyPage(fd, n)
  BY <1>2, SameTables DEF GetThisInvalid, DirtyRefused, PF_DirtyPage, Refuses, Returns, unix
<1>3. ASSUME NEW dirty \in BOOLEAN, UnpinRefused(fd, n, dirty) \/ PF_UnpinPage(fd, n, dirty)
      PROVE  PInv'
  BY <1>3, SameTables DEF UnpinRefused, PF_UnpinPage, Refuses, Returns, unix
<1>4. ASSUME NEW v \in Data, StorePage(fd, n, v)
      PROVE  PInv'
  BY <1>4, SameTables DEF StorePage, unix
<1> QED BY <1>1, <1>2, <1>3, <1>4 DEF PageCall

-----------------------------------------------------------------------------
(* The process starts with an empty table and no descriptors. *)
LEMMA FreshPInv ==
  ASSUME pf_table = [fd \in Fd |-> NewEntry], disk.open = NoneOpen, closing = NoFd,
         DOMAIN disk = {"open", "data"}, dir \in [Name -> Inode \cup {NoInode}], NamesApart
  PROVE  PInv
<1>1. /\ DOMAIN NewEntry =
           {"valid", "inode", "fname", "unixfd", "numpages", "offset", "hdrchanged"}
      /\ NewEntry.valid = FALSE
  BY DEF NewEntry
<1>2. OpenFds = {}
  BY <1>1 DEF OpenFds
<1>3. Tables
  BY <1>1 DEF Tables, NoneOpen
<1> QED BY <1>2, <1>3 DEF PInv, EntriesNamed, FilesApart, NamesKept, ClosesOpen

LEMMA InitPInv == Init => PInv
<1> SUFFICES ASSUME Init PROVE PInv
  OBVIOUS
<1>1. /\ pf_table = [fd \in Fd |-> NewEntry] /\ disk.open = NoneOpen /\ closing = NoFd
      /\ DOMAIN disk = {"open", "data"} /\ dir = [n \in Name |-> NoInode]
  BY DEF Init, PF_Init
<1>2. NamesApart
  BY <1>1 DEF NamesApart
<1> QED BY <1>1, <1>2, FreshPInv

LEMMA CrashStep ==
  ASSUME PInv, Crash
  PROVE  PInv'
<1>1. /\ pf_table' = [fd \in Fd |-> NewEntry] /\ closing' = NoFd /\ dir' = dir
      /\ disk'.open = NoneOpen /\ DOMAIN disk' = {"open", "data"}
  BY DEF Crash, PInv, Tables
<1>2. OpenFds' = {}
  BY <1>1 DEF OpenFds, NewEntry
<1>3. Tables'
  BY <1>1 DEF PInv, Tables, NewEntry, NoneOpen
<1>4. NamesApart'
  BY <1>1 DEF PInv, NamesApart
<1> QED BY <1>1, <1>2, <1>3, <1>4 DEF PInv, EntriesNamed, FilesApart, NamesKept, ClosesOpen

LEMMA NextPInv ==
  ASSUME PInv, [Next]_vars
  PROVE  PInv'
<1>1. ASSUME NEW name \in Name, FileCall(name)
      PROVE  PInv'
  BY <1>1, FileStep
<1>2. CASE CloseCall
  BY <1>2, CloseStep
<1>3. ASSUME NEW fd \in Fd,
             AllocRefused(fd) \/ GetFirstNone(fd) \/ GetNextNone(fd)
      PROVE  PInv'
  BY <1>3, SameTables DEF AllocRefused, GetFirstNone, GetNextNone, Refuses, Returns, unix
<1>4. ASSUME NEW fd \in Fd, PF_AllocPage(fd)
      PROVE  PInv'
  BY <1>4, AllocStep
<1>5. ASSUME NEW fd \in Fd,
             PF_GetFirstPage(fd) \/ PF_GetNextPage(fd) \/ PF_GetHeaderPage(fd)
      PROVE  PInv'
  BY <1>5, ScanStep
<1>6. ASSUME NEW fd \in Fd, NEW n \in DataPage,
             PageCall(fd, n) \/ \E v \in Data : StorePage(fd, n, v)
      PROVE  PInv'
  BY <1>6, PageCallStep
<1>7. CASE Crash
  BY <1>7, CrashStep
<1>8. CASE UNCHANGED vars
  BY <1>8, SameTables DEF vars
<1> QED BY <1>1, <1>2, <1>3, <1>4, <1>5, <1>6, <1>7, <1>8 DEF Next

(* Whatever is called and whenever the process dies, an open entry of the   *)
(* file table names itself and has an open Unix descriptor, and no file is  *)
(* behind two open entries (pf.c:22-35, 122-176).                           *)
THEOREM FilesOfOpenEntries == Spec => []EntriesApart
<1>1. PInv /\ [Next]_vars => PInv'
  BY NextPInv
<1>2. PInv => EntriesApart
  BY PFAssumption DEF PInv, EntriesNamed, FilesApart, EntriesApart
<1> QED BY InitPInv, <1>1, <1>2, PTL DEF Spec

-----------------------------------------------------------------------------
(* The types of the pool, the Unix files and the file table. *)

PFDisks == DisksOver([UnixFd -> Inode \cup {Closed}], Inode \X PageNum)

TInv == PoolOK(pool) /\ TypeOK /\ PInv

LEMMA TypeParts ==
  ASSUME TInv
  PROVE  /\ PoolOK(pool) /\ disk \in PFDisks /\ PInv
         /\ dir \in [Name -> Inode \cup {NoInode}] /\ header \in [Inode -> -1..MaxPages]
         /\ pf_table \in [Fd -> PFftab_ele] /\ closing \in Fd \cup {NoFd}
BY DEF TInv, TypeOK, PFDisks, DisksOver

\* What the calls may leave behind.
LEMMA Retyped ==
  ASSUME TInv, PInv', PoolOK(pool'), disk' \in PFDisks,
         header' \in [Inode -> -1..MaxPages], pf_table' \in [Fd -> PFftab_ele]
  PROVE  TInv'
<1>1. dir' \in [Name -> Inode \cup {NoInode}]
  BY DEF PInv, Tables
<1>2. closing' \in Fd \cup {NoFd}
  BY DEF PInv, ClosesOpen, OpenFds
<1>3. pool' \in Pools
  BY DEF PoolOK
<1> QED BY <1>1, <1>2, <1>3 DEF TInv, TypeOK, PFDisks, DisksOver

LEMMA EntryTyped ==
  ASSUME NEW g \in PFftab_ele
  PROVE  /\ \A n \in 0..MaxPages : [g EXCEPT !.offset = n] \in PFftab_ele
         /\ \A b \in BOOLEAN : [g EXCEPT !.valid = b] \in PFftab_ele
         /\ \A b \in BOOLEAN : [g EXCEPT !.hdrchanged = b] \in PFftab_ele
         /\ \A n \in 0..MaxPages :
              [[g EXCEPT !.numpages = n] EXCEPT !.hdrchanged = TRUE] \in PFftab_ele
BY DEF PFftab_ele

LEMMA NewEntryTyped == NewEntry \in PFftab_ele
BY PFAssumption DEF NewEntry, PFftab_ele

\* Pages are asked for under numbers in range.
LEMMA BqIs ==
  ASSUME TInv, NEW fd \in Fd, NEW n \in -1..(MaxPages - 1)
  PROVE  Bq(fd, n) \in BFreq
<1>1. pf_table[fd].inode \in Fd /\ pf_table[fd].unixfd \in UnixFd
  BY TypeParts DEF PFftab_ele
<1>2. n + 1 \in PageNum
  BY PFAssumption
<1> QED BY <1>1, <1>2 DEF Bq, BFreq

LEMMA ReadTyped ==
  ASSUME NEW p, PoolOK(p), NEW d \in PFDisks, HasRoom(p, d), NEW bq \in BFreq,
         Readable(p, d, bq) # Absent
  PROVE  Readable(p, d, bq) \in Data
<1> PICK e : e = RoomDisk(p, d)
  OBVIOUS
<1>1. e \in PFDisks
  BY RoomDiskOver DEF PFDisks
<1>2. bq.unixfd \in UnixFd /\ bq.pagenum \in PageNum
  BY DEF BFreq
<1>3. e.open[bq.unixfd] \in Inode \cup {Closed}
  BY <1>1, <1>2 DEF PFDisks, DisksOver
<1>4. e.open[bq.unixfd] # Closed => e.data[<<e.open[bq.unixfd], bq.pagenum>>] \in Data \cup {Absent}
  BY <1>1, <1>2, <1>3 DEF PFDisks, DisksOver
<1> QED BY <1>4 DEF Readable, PRead

LEMMA GotTyped ==
  ASSUME TInv, NEW bq \in BFreq, Got(bq) \/ NotGot(bq)
  PROVE  PoolOK(pool') /\ disk' \in PFDisks
<1>1. PoolOK(pool) /\ disk \in PFDisks
  BY TypeParts
<1>2. HasRoom(pool, disk) => RoomDisk(pool, disk) \in PFDisks
  BY <1>1, RoomDiskOver DEF PFDisks
<1>3. CASE Got(bq)
  <2>1. CASE InBuf(pool, bq.fd, bq.pagenum) /\ pool' = GetHit(pool, bq) /\ disk' = disk
    BY <1>1, <2>1, GetHitOK
  <2>2. CASE /\ ~InBuf(pool, bq.fd, bq.pagenum) /\ HasRoom(pool, disk)
             /\ Readable(pool, disk, bq) # Absent
             /\ pool' = GetMiss(pool, disk, bq) /\ disk' = RoomDisk(pool, disk)
    <3>1. Readable(pool, disk, bq) \in Data
      BY <1>1, <2>2, ReadTyped
    <3> QED BY <1>1, <1>2, <2>2, <3>1, GetMissOK
  <2> QED BY <1>3, <2>1, <2>2 DEF Got
<1>4. CASE NotGot(bq)
  <2>1. CASE HasRoom(pool, disk) /\ pool' = GetUnread(pool, bq) /\ disk' = RoomDisk(pool, disk)
    BY <1>1, <1>2, <2>1, GetUnreadOK
  <2>2. CASE pool' = pool /\ disk' = disk
    BY <1>1, <2>2
  <2> QED BY <1>4, <2>1, <2>2 DEF NotGot
<1> QED BY <1>3, <1>4

\* The frame of a new page.
LEMMA AllocHolds ==
  ASSUME NEW p, PoolOK(p), NEW d, HasRoom(p, d),
         NEW bq \in BFreq, ~InBuf(p, bq.fd, bq.pagenum)
  PROVE  LET r == Alloc(p, bq) IN PoolOK(r) /\ Holds(r, Head(MakeRoom(p).free), bq)
<1> PICK r : r = Alloc(p, bq)
  OBVIOUS
<1> PICK f : f = Head(MakeRoom(p).free)
  OBVIOUS
<1>1. PoolOK(r)
  BY AllocOK
<1>2. Linked(MakeRoom(p), r, f, NewPage(bq, Zero, 1))
  BY AllocDoes
<1>3. Holds(r, f, bq)
  BY <1>2 DEF Linked, Holds, NewPage
<1> QED BY <1>1, <1>3

LEMMA AllocTyped ==
  ASSUME TInv, NEW fd \in Fd, PF_AllocPage(fd), PInv'
  PROVE  TInv'
<1> PICK bq : bq = Bq(fd, pf_table[fd].numpages)
  OBVIOUS
<1> PICK k : k = pf_table[fd].numpages + 1
  OBVIOUS
<1>1. /\ pf_table[fd].numpages < MaxPages
      /\ ~InBuf(pool, bq.fd, bq.pagenum) /\ HasRoom(pool, disk)
      /\ pool' = Touch(Alloc(pool, bq), bq.fd, bq.pagenum)
      /\ disk' = RoomDisk(pool, disk) /\ header' = header
      /\ pf_table' = [pf_table EXCEPT ![fd] =
                        [[@ EXCEPT !.numpages = k] EXCEPT !.hdrchanged = TRUE]]
  BY DEF PF_AllocPage
<1>2. PoolOK(pool) /\ disk \in PFDisks /\ pf_table \in [Fd -> PFftab_ele]
      /\ header \in [Inode -> -1..MaxPages]
  BY TypeParts
<1>3. pf_table[fd].numpages \in 0..(MaxPages - 1) /\ k \in 0..MaxPages
  BY <1>1, <1>2, PFAssumption DEF PFftab_ele
<1>4. bq \in BFreq
  BY <1>3, BqIs, PFAssumption
<1>5. PoolOK(Alloc(pool, bq)) /\ InBuf(Alloc(pool, bq), bq.fd, bq.pagenum)
  BY <1>1, <1>2, <1>4, AllocHolds, HoldsFound
<1>6. PoolOK(pool')
  BY <1>1, <1>5, TouchOK
<1>7. disk' \in PFDisks
  BY <1>1, <1>2, RoomDiskOver DEF PFDisks
<1>8. pf_table' \in [Fd -> PFftab_ele]
  BY <1>1, <1>2, <1>3, EntryTyped
<1> QED BY <1>1, <1>2, <1>6, <1>7, <1>8, Retyped

LEMMA CursorTyped ==
  ASSUME TInv, NEW fd \in Fd, NEW n \in 0..MaxPages, Cursor(fd, n)
  PROVE  pf_table' \in [Fd -> PFftab_ele]
BY TypeParts, EntryTyped DEF Cursor

LEMMA ScanTyped ==
  ASSUME TInv, NEW fd \in Fd, PInv',
         \/ PF_GetFirstPage(fd) \/ PF_GetNextPage(fd) \/ PF_GetHeaderPage(fd)
         \/ \E n \in DataPage : PF_GetThisPage(fd, n)
  PROVE  TInv'
<1>1. /\ pf_table \in [Fd -> PFftab_ele] /\ header \in [Inode -> -1..MaxPages]
      /\ pf_table[fd].numpages \in 0..MaxPages /\ pf_table[fd].offset \in 0..MaxPages
      /\ MaxPages \in Nat
  BY TypeParts, PFAssumption DEF PFftab_ele
<1> SUFFICES PoolOK(pool') /\ disk' \in PFDisks /\ pf_table' \in [Fd -> PFftab_ele]
  <2>1. header' = header
    BY DEF PF_GetFirstPage, PF_GetNextPage, PF_GetHeaderPage, PF_GetThisPage
  <2> QED BY <1>1, <2>1, Retyped
<1>2. CASE PF_GetFirstPage(fd)
  <2>1. Bq(fd, 0) \in BFreq /\ 0 \in 0..MaxPages /\ 1 \in 0..MaxPages
    BY <1>1, <1>2, BqIs DEF PF_GetFirstPage
  <2>2. Got(Bq(fd, 0)) \/ NotGot(Bq(fd, 0))
    BY <1>2 DEF PF_GetFirstPage
  <2>3. Cursor(fd, 0) \/ Cursor(fd, 1)
    BY <1>2 DEF PF_GetFirstPage
  <2> QED BY <2>1, <2>2, <2>3, GotTyped, CursorTyped
<1>3. CASE PF_GetNextPage(fd)
  <2> PICK n : n = pf_table[fd].offset
    OBVIOUS
  <2>1. Bq(fd, n) \in BFreq /\ n \in 0..MaxPages /\ n + 1 \in 0..MaxPages
    BY <1>1, <1>3, BqIs DEF PF_GetNextPage
  <2>2. Got(Bq(fd, n)) \/ NotGot(Bq(fd, n))
    BY <1>3 DEF PF_GetNextPage
  <2>3. Cursor(fd, n) \/ Cursor(fd, n + 1)
    BY <1>3 DEF PF_GetNextPage
  <2> QED BY <2>1, <2>2, <2>3, GotTyped, CursorTyped
<1>4. CASE PF_GetHeaderPage(fd)
  <2>1. Bq(fd, -1) \in BFreq
    BY <1>1, BqIs
  <2>2. (Got(Bq(fd, -1)) \/ NotGot(Bq(fd, -1))) /\ pf_table' = pf_table
    BY <1>4 DEF PF_GetHeaderPage
  <2> QED BY <1>1, <2>1, <2>2, GotTyped
<1>5. ASSUME NEW n \in DataPage, PF_GetThisPage(fd, n)
      PROVE  PoolOK(pool') /\ disk' \in PFDisks /\ pf_table' \in [Fd -> PFftab_ele]
  <2>1. Bq(fd, n) \in BFreq
    BY <1>1, BqIs DEF DataPage
  <2>2. (Got(Bq(fd, n)) \/ NotGot(Bq(fd, n))) /\ pf_table' = pf_table
    BY <1>5 DEF PF_GetThisPage
  <2> QED BY <1>1, <2>1, <2>2, GotTyped
<1> QED BY <1>2, <1>3, <1>4, <1>5

\* Calls that change nothing but the pool.
LEMMA PoolTyped ==
  ASSUME TInv, PInv', PoolOK(pool'), UNCHANGED <<disk, header, pf_table>>
  PROVE  TInv'
BY TypeParts, Retyped

LEMMA PageCallTyped ==
  ASSUME TInv, PInv', NEW fd \in Fd, NEW n \in DataPage,
         PageCall(fd, n) \/ \E v \in Data : StorePage(fd, n, v)
  PROVE  TInv'
<1>1. PoolOK(pool)
  BY TypeParts
<1>2. CASE PF_GetThisPage(fd, n)
  BY <1>2, ScanTyped
<1>3. CASE GetThisInvalid(fd, n) \/ DirtyRefused(fd, n)
  <2>1. UNCHANGED <<pool, disk, header, pf_table>>
    BY <1>3 DEF GetThisInvalid, DirtyRefused, Refuses, unix
  <2> QED BY <1>1, <2>1, PoolTyped
<1>4. CASE PF_DirtyPage(fd, n)
  <2>1. InBuf(pool, fd, n + 1) /\ pool' = Touch(pool, fd, n + 1)
        /\ UNCHANGED <<disk, header, pf_table>>
    BY <1>4 DEF PF_DirtyPage, InPool, unix
  <2> QED BY <1>1, <2>1, TouchOK, PoolTyped
<1>5. ASSUME NEW dirty \in BOOLEAN, UnpinRefused(fd, n, dirty) PROVE TInv'
  <2>1. UNCHANGED <<pool, disk, header, pf_table>>
    BY <1>5 DEF UnpinRefused, Refuses, unix
  <2> QED BY <1>1, <2>1, PoolTyped
<1>6. ASSUME NEW dirty \in BOOLEAN, PF_UnpinPage(fd, n, dirty) PROVE TInv'
  <2> PICK q : q = IF dirty THEN Touch(pool, fd, n + 1) ELSE pool
    OBVIOUS
  <2>1. /\ dirty => InBuf(pool, fd, n + 1)
        /\ pool' = Unpin(q, fd, n + 1) /\ UNCHANGED <<disk, header, pf_table>>
    BY <1>6 DEF PF_UnpinPage, InPool, unix
  <2>2. PoolOK(q)
    BY <1>1, <2>1, TouchOK
  <2> QED BY <2>1, <2>2, UnpinOK, PoolTyped
<1>7. ASSUME NEW v \in Data, StorePage(fd, n, v) PROVE TInv'
  <2> PICK f : f = FrameOf(pool, fd, n + 1)
    OBVIOUS
  <2>1. /\ InBuf(pool, fd, n + 1) /\ pool' = [pool EXCEPT !.page[f].fpage = v]
        /\ UNCHANGED <<disk, header, pf_table>>
    BY <1>7 DEF StorePage, InPool, unix
  <2>2. f \in Frame /\ On(pool, f)
    BY <1>1, <2>1, FoundFrame
  <2> QED BY <1>1, <2>1, <2>2, StoreOK, PoolTyped
<1> QED BY <1>2, <1>3, <1>4, <1>5, <1>6, <1>7 DEF PageCall

LEMMA FileTyped ==
  ASSUME TInv, PInv', NEW name \in Name, FileCall(name)
  PROVE  TInv'
<1>1. /\ PoolOK(pool) /\ disk \in PFDisks /\ PInv
      /\ dir \in [Name -> Inode \cup {NoInode}] /\ header \in [Inode -> -1..MaxPages]
      /\ pf_table \in [Fd -> PFftab_ele] /\ MaxPages \in Nat
  BY TypeParts, PFAssumption
<1>2. CASE CreateExists(name) \/ DestroyMissing(name) \/ OpenMissing(name)
           \/ PF_DestroyFile(name)
  <2>1. UNCHANGED <<pool, disk, header, pf_table>>
    BY <1>2 DEF CreateExists, DestroyMissing, OpenMissing, PF_DestroyFile, Refuses, unix
  <2> QED BY <1>1, <2>1, PoolTyped
<1>3. CASE CreateTableFull(name) \/ PF_CreateFile(name)
  <2> PICK i : i = NewInode
    OBVIOUS
  <2> PICK u : u = NewUnixFd
    OBVIOUS
  <2> PICK e : e = FirstFree
    OBVIOUS
  <2> PICK data : data = EmptyData
    OBVIOUS
  <2>1. FreeInode # {} /\ FreeUnixFd # {}
    BY <1>3 DEF CreateTableFull, PF_CreateFile, NewFile
  <2>2. i \in Inode /\ u \in UnixFd
    BY <2>1, FreeInodeFound, FreeUnixFdFound
  <2> PICK low : low = -1..MaxPages /\ 0 \in low /\ -1 \in low
    BY <1>1
  <2>3. data \in [Inode \X PageNum -> Data \cup {Absent}]
    BY <1>1 DEF EmptyData, PFDisks, DisksOver
  <2>4. CASE CreateTableFull(name)
    <3>1. /\ disk' = [[disk EXCEPT !.data = data] EXCEPT !.open[u] = i]
          /\ header' = [header EXCEPT ![i] = -1] /\ pf_table' = pf_table /\ pool' = pool
      BY <2>4 DEF CreateTableFull, Opened
    <3>2. disk' \in PFDisks
      BY <1>1, <2>2, <2>3, <3>1 DEF PFDisks, DisksOver
    <3>3. header' \in [Inode -> low]
      BY <1>1, <3>1
    <3> QED BY <1>1, <3>1, <3>2, <3>3, Retyped
  <2>5. CASE PF_CreateFile(name)
    <3> PICK g : g = [pf_table[e] EXCEPT !.inode = e, !.fname = name,
                                         !.unixfd = u, !.numpages = 0, !.offset = 0]
      OBVIOUS
    <3>1. /\ disk' = [disk EXCEPT !.data = data] /\ FreeEntries # {}
          /\ header' = [header EXCEPT ![i] = 0] /\ pool' = pool
          /\ pf_table' = [pf_table EXCEPT ![e] = g]
      BY <2>5 DEF PF_CreateFile
    <3>2. disk' \in PFDisks
      BY <1>1, <2>3, <3>1 DEF PFDisks, DisksOver
    <3>3. e \in Fd
      BY <3>1, FreeEntryFound
    <3>4. g \in PFftab_ele
      <4> PICK h : h = pf_table[e]
        OBVIOUS
      <4>1. h \in PFftab_ele /\ 0 \in 0..MaxPages
        BY <1>1, <3>3
      <4>2. g = [valid |-> h.valid, inode |-> e, fname |-> name, unixfd |-> u,
                 numpages |-> 0, offset |-> 0, hdrchanged |-> h.hdrchanged]
        BY <4>1 DEF PFftab_ele
      <4> QED BY <2>2, <3>3, <4>1, <4>2 DEF PFftab_ele
    <3>5. header' \in [Inode -> low]
      BY <1>1, <3>1
    <3>6. pf_table' \in [Fd -> PFftab_ele]
      BY <1>1, <3>1, <3>3, <3>4
    <3> QED BY <1>1, <3>1, <3>2, <3>5, <3>6, Retyped
  <2> QED BY <1>3, <2>4, <2>5
<1>4. CASE OpenRefused(name) \/ OpenNoHeader(name) \/ PF_OpenFile(name)
  <2> PICK u : u = NewUnixFd
    OBVIOUS
  <2>1. /\ PF_SearchFile(name) /\ disk' = [disk EXCEPT !.open[u] = dir[name]]
        /\ pool' = pool /\ header' = header
    BY <1>4 DEF OpenRefused, OpenNoHeader, PF_OpenFile, OpenFails, Opened
  <2>2. u \in UnixFd /\ dir[name] \in Inode
    BY <1>1, <2>1, FreeUnixFdFound DEF PF_SearchFile
  <2>3. disk' \in PFDisks
    BY <1>1, <2>1, <2>2 DEF PFDisks, DisksOver
  <2>4. CASE pf_table' = pf_table
    BY <1>1, <2>1, <2>3, <2>4, Retyped
  <2>5. CASE PF_OpenFile(name)
    <3> PICK e : e = FirstFree
      OBVIOUS
    <3> PICK k : k = header[dir[name]]
      OBVIOUS
    <3> PICK g : g = [valid |-> TRUE, inode |-> e, fname |-> name, unixfd |-> u,
                      numpages |-> k, offset |-> 0, hdrchanged |-> FALSE]
      OBVIOUS
    <3>1. FreeEntries # {} /\ k # -1 /\ pf_table' = [pf_table EXCEPT ![e] = g]
      BY <2>5 DEF PF_OpenFile
    <3>2. e \in Fd /\ k \in 0..MaxPages
      BY <1>1, <2>2, <3>1, FreeEntryFound
    <3>3. g \in PFftab_ele
      BY <1>1, <2>2, <3>2 DEF PFftab_ele
    <3>4. pf_table' \in [Fd -> PFftab_ele]
      BY <1>1, <3>1, <3>2, <3>3
    <3> QED BY <1>1, <2>1, <2>3, <3>4, Retyped
  <2> QED BY <1>4, <2>4, <2>5 DEF OpenRefused, OpenNoHeader, OpenFails
<1> QED BY <1>2, <1>3, <1>4 DEF FileCall

\* What BF_FlushBuf takes next is in the pool.
LEMMA NextIsOn ==
  ASSUME NEW p \in Pools, NEW fd, PagesOf(p, fd) # {}
  PROVE  NextOf(p, fd) \in Frame /\ On(p, NextOf(p, fd))
         /\ p.page[NextOf(p, fd)].fd = fd
<1>1. PagesOf(p, fd) \in SUBSET Nat /\ PagesOf(p, fd) \subseteq DOMAIN p.lru
  BY DEF PagesOf, Pools
<1> PICK k : k = CHOOSE i \in PagesOf(p, fd) : \A j \in PagesOf(p, fd) : i <= j
  OBVIOUS
<1>2. k \in PagesOf(p, fd)
  BY <1>1, LeastOf
<1>3. NextOf(p, fd) = p.lru[k]
  BY DEF NextOf
<1>4. k \in DOMAIN p.lru /\ p.page[p.lru[k]].fd = fd
  BY <1>2 DEF PagesOf
<1>5. p.lru[k] \in Frame
  BY <1>4 DEF Pools
<1> QED BY <1>3, <1>4, <1>5 DEF On

LEMMA CloseTyped ==
  ASSUME TInv, PInv', CloseCall
  PROVE  TInv'
<1>1. /\ PoolOK(pool) /\ disk \in PFDisks /\ PInv /\ header \in [Inode -> -1..MaxPages]
      /\ pf_table \in [Fd -> PFftab_ele] /\ closing \in Fd \cup {NoFd}
  BY TypeParts
<1>2. ASSUME NEW fd \in Fd, CloseRefused(fd) \/ CloseBegin(fd)
      PROVE  TInv'
  <2>1. UNCHANGED <<pool, disk, header, pf_table>>
    BY <1>2 DEF CloseRefused, CloseBegin, Refuses, unix
  <2> QED BY <1>1, <2>1, PoolTyped
<1>3. CASE CloseFlush
  <2> PICK f : f = NextOf(pool, closing)
    OBVIOUS
  <2>1. /\ PagesOf(pool, closing) # {} /\ pool' = Discard(pool, f)
        /\ disk' = Flushed(disk, pool.page[f]) /\ UNCHANGED <<header, pf_table>>
    BY <1>3 DEF CloseFlush
  <2>2. f \in Frame /\ On(pool, f) /\ pool.page[f] \in BFpage
    BY <1>1, <2>1, NextIsOn DEF PoolOK, Pools
  <2>3. disk' \in PFDisks
    BY <1>1, <2>1, <2>2, FlushedOver DEF PFDisks
  <2>4. PoolOK(pool')
    BY <1>1, <2>1, <2>2, DiscardOK
  <2> QED BY <1>1, <2>1, <2>3, <2>4, Retyped
<1>4. CASE CloseHeader
  <2> PICK k : k = pf_table[closing].numpages
    OBVIOUS
  <2> PICK i : i = disk.open[pf_table[closing].unixfd]
    OBVIOUS
  <2>1. /\ closing # NoFd /\ UNCHANGED <<pool, disk>>
        /\ header' = [header EXCEPT ![i] = k]
        /\ pf_table' = [pf_table EXCEPT ![closing] = [@ EXCEPT !.hdrchanged = FALSE]]
    BY <1>4 DEF CloseHeader
  <2>2. k \in -1..MaxPages
    BY <1>1, <2>1, PFAssumption DEF PFftab_ele
  <2>3. header' \in [Inode -> -1..MaxPages]
    BY <1>1, <2>1, <2>2
  <2>4. pf_table' \in [Fd -> PFftab_ele]
    BY <1>1, <2>1, EntryTyped
  <2> QED BY <1>1, <2>1, <2>3, <2>4, Retyped
<1>5. CASE CloseEnd
  <2> PICK u : u = pf_table[closing].unixfd
    OBVIOUS
  <2>1. /\ closing # NoFd /\ UNCHANGED <<pool, header>>
        /\ disk' = [disk EXCEPT !.open[u] = Closed]
        /\ pf_table' = [pf_table EXCEPT ![closing] = [@ EXCEPT !.valid = FALSE]]
    BY <1>5 DEF CloseEnd, Opened
  <2>2. disk' \in PFDisks
    BY <1>1, <2>1 DEF PFDisks, DisksOver
  <2>3. pf_table' \in [Fd -> PFftab_ele]
    BY <1>1, <2>1, EntryTyped
  <2> QED BY <1>1, <2>1, <2>2, <2>3, Retyped
<1> QED BY <1>2, <1>3, <1>4, <1>5 DEF CloseCall

LEMMA InitTInv == Init => TInv
<1> SUFFICES ASSUME Init PROVE TInv
  OBVIOUS
<1>1. PInv /\ PoolOK(pool) /\ pool \in Pools
  BY InitPInv, EmptyPoolOK DEF Init, PF_Init, PoolOK
<1>2. disk \in PFDisks
  BY PoolAssumption DEF Init, PFDisks, DisksOver, NoneOpen
<1>3. dir \in [Name -> Inode \cup {NoInode}] /\ header \in [Inode -> -1..MaxPages]
  BY PFAssumption DEF Init
<1>4. pf_table \in [Fd -> PFftab_ele] /\ closing \in Fd \cup {NoFd}
  BY NewEntryTyped DEF Init, PF_Init
<1> QED BY <1>1, <1>2, <1>3, <1>4 DEF TInv, TypeOK, PFDisks, DisksOver

LEMMA CrashTyped ==
  ASSUME TInv, PInv', Crash
  PROVE  TInv'
<1>1. /\ pool' = EmptyPool /\ disk' = [disk EXCEPT !.open = NoneOpen]
      /\ pf_table' = [fd \in Fd |-> NewEntry] /\ header' = header
  BY DEF Crash
<1>2. disk \in PFDisks /\ header \in [Inode -> -1..MaxPages]
  BY TypeParts
<1>3. disk' \in PFDisks
  BY <1>1, <1>2 DEF PFDisks, DisksOver, NoneOpen
<1>4. pf_table' \in [Fd -> PFftab_ele]
  BY <1>1, NewEntryTyped
<1> QED BY <1>1, <1>2, <1>3, <1>4, EmptyPoolOK, Retyped

LEMMA NextTInv ==
  ASSUME TInv, [Next]_vars
  PROVE  TInv'
<1>1. PInv' /\ PoolOK(pool)
  BY NextPInv, TypeParts
<1>2. ASSUME NEW name \in Name, FileCall(name)
      PROVE  TInv'
  BY <1>1, <1>2, FileTyped
<1>3. CASE CloseCall
  BY <1>1, <1>3, CloseTyped
<1>4. ASSUME NEW fd \in Fd, AllocRefused(fd) \/ GetFirstNone(fd) \/ GetNextNone(fd)
      PROVE  TInv'
  <2>1. UNCHANGED <<pool, disk, header, pf_table>>
    BY <1>4 DEF AllocRefused, GetFirstNone, GetNextNone, Refuses, unix
  <2> QED BY <1>1, <2>1, PoolTyped
<1>5. ASSUME NEW fd \in Fd, PF_AllocPage(fd)
      PROVE  TInv'
  BY <1>1, <1>5, AllocTyped
<1>6. ASSUME NEW fd \in Fd,
             PF_GetFirstPage(fd) \/ PF_GetNextPage(fd) \/ PF_GetHeaderPage(fd)
      PROVE  TInv'
  BY <1>1, <1>6, ScanTyped
<1>7. ASSUME NEW fd \in Fd, NEW n \in DataPage,
             PageCall(fd, n) \/ \E v \in Data : StorePage(fd, n, v)
      PROVE  TInv'
  BY <1>1, <1>7, PageCallTyped
<1>8. CASE Crash
  BY <1>1, <1>8, CrashTyped
<1>9. CASE UNCHANGED vars
  <2>1. UNCHANGED <<pool, disk, header, pf_table>>
    BY <1>9 DEF vars
  <2> QED BY <1>1, <2>1, PoolTyped
<1> QED BY <1>2, <1>3, <1>4, <1>5, <1>6, <1>7, <1>8, <1>9 DEF Next

(* Whatever is called: the pool, the Unix files and the file table keep     *)
(* their shapes.  No page count passes the bound of the file, no page is    *)
(* kept under a number that its file cannot have, and each pin count stays  *)
(* in the range of a C short (pf.c:210-236, 319-345).                       *)
THEOREM TypesKept == Spec => []TypeOK
<1>1. TInv /\ [Next]_vars => TInv'
  BY NextTInv
<1>2. TInv => TypeOK
  BY DEF TInv
<1> QED BY InitTInv, <1>1, <1>2, PTL DEF Spec
-----------------------------------------------------------------------------
(* Callers that keep the rules. *)

OpenIn(t) == {fd \in Fd : t[fd].valid}
FileIn(d, t, fd) == d.open[t[fd].unixfd]

\* Frame f holds page k of the Unix file behind descriptor fd.
Has(p, f, fd, k) ==
  f \in Frame /\ On(p, f) /\ p.page[f].fd = fd /\ p.page[f].page_num = k

\* What callers count a page under.
Key(g) == <<g.fd, g.page_num - 1>>

\* What that page reads as.
At(p, d, t, fd, k) ==
  IF InBuf(p, fd, k) THEN p.page[FrameOf(p, fd, k)].fpage
  ELSE PRead(d, t[fd].unixfd, k)

World(p, d, t) ==
  /\ PoolOK(p) /\ d \in PFDisks /\ t \in [Fd -> PFftab_ele]
  /\ \A fd \in OpenIn(t) : FileIn(d, t, fd) \in Inode
  /\ \A a, b \in OpenIn(t) : FileIn(d, t, a) = FileIn(d, t, b) => a = b

\* The pool holds pages of open files.
Owned(p, t) ==
  \A f \in Frame : On(p, f) =>
    /\ p.page[f].fd \in OpenIn(t)
    /\ p.page[f].unix_fd = t[p.page[f].fd].unixfd
    /\ p.page[f].page_num \in 1..t[p.page[f].fd].numpages

\* It counts the pins that callers hold.
Counted(p, ps) ==
  /\ \A f \in Frame : On(p, f) =>
       p.page[f].count = ps[Key(p.page[f])]
  /\ \A fd \in Fd, n \in DataPage : ps[<<fd, n>>] > 0 => \E f : Has(p, f, fd, n + 1)

\* Callers mark what they have modified before their last unpin.
Marked(p, ps, us) ==
  /\ \A fd \in Fd, n \in DataPage : ps[<<fd, n>>] = 0 => us[<<fd, n>>] = "idle"
  /\ \A f \in Frame :
       On(p, f) /\ us[Key(p.page[f])] = "touched" => p.page[f].dirty

\* A page that is not marked is in its file, the same but for stores that a
\* caller is yet to mark.
Clean(p, d, us) ==
  \A f \in Frame : On(p, f) /\ ~p.page[f].dirty =>
    LET v == d.data[<<d.open[p.page[f].unix_fd], p.page[f].page_num>>] IN
    /\ v # Absent
    /\ us[Key(p.page[f])] # "stored" => v = p.page[f].fpage

\* Every page that an open file counts is in the pool or in its Unix file.
There(p, d, t) ==
  \A fd \in OpenIn(t) : \A k \in 1..t[fd].numpages :
    (\E f : Has(p, f, fd, k)) \/ d.data[<<FileIn(d, t, fd), k>>] # Absent

Sound(p, d, t, ps, us) ==
  /\ World(p, d, t)
  /\ Owned(p, t) /\ Counted(p, ps) /\ Marked(p, ps, us)
  /\ Clean(p, d, us) /\ There(p, d, t)

\* The pages of open files read the same.
SameRead(p, d, t, q, e) ==
  \A fd \in OpenIn(t) : \A k \in 1..t[fd].numpages : At(q, e, t, fd, k) = At(p, d, t, fd, k)

\* No page of a Unix file gets lost, and files that are not open stay.
DataKept(d, e, t) ==
  /\ e.open = d.open
  /\ \A i \in Inode, k \in PageNum :
       /\ d.data[<<i, k>>] # Absent => e.data[<<i, k>>] # Absent
       /\ (\A fd \in OpenIn(t) : FileIn(d, t, fd) # i) => e.data[<<i, k>>] = d.data[<<i, k>>]

-----------------------------------------------------------------------------
(* Reading pages. *)

LEMMA HasFound ==
  ASSUME NEW p, PoolOK(p), NEW fd, NEW k, NEW f, Has(p, f, fd, k)
  PROVE  InBuf(p, fd, k) /\ FrameOf(p, fd, k) = f
<1> PICK bq : bq = [fd |-> fd, pagenum |-> k]
  OBVIOUS
<1>1. Holds(p, f, bq) /\ bq.fd = fd /\ bq.pagenum = k
  BY DEF Holds, Has
<1> QED BY <1>1, HoldsFound

LEMMA FoundHas ==
  ASSUME NEW p, PoolOK(p), NEW fd, NEW k, InBuf(p, fd, k)
  PROVE  Has(p, FrameOf(p, fd, k), fd, k)
BY FoundFrame DEF Has

LEMMA OneHas ==
  ASSUME NEW p, PoolOK(p), NEW fd, NEW k, NEW f, NEW g, Has(p, f, fd, k), Has(p, g, fd, k)
  PROVE  f = g
BY HasFound

LEMMA AtHas ==
  ASSUME NEW p, PoolOK(p), NEW d, NEW t, NEW fd, NEW k, NEW f, Has(p, f, fd, k)
  PROVE  At(p, d, t, fd, k) = p.page[f].fpage /\ p.page[f].fpage \in Data
<1>1. At(p, d, t, fd, k) = p.page[f].fpage
  BY HasFound DEF At
<1> QED BY <1>1 DEF PoolOK, Pools, BFpage, Has

LEMMA AtFile ==
  ASSUME NEW p, NEW d, NEW t, World(p, d, t), NEW fd \in OpenIn(t), NEW k,
         \A f : ~Has(p, f, fd, k)
  PROVE  At(p, d, t, fd, k) = d.data[<<FileIn(d, t, fd), k>>]
<1>1. ~InBuf(p, fd, k)
  BY FoundHas DEF World
<1>2. FileIn(d, t, fd) # Closed
  BY PFAssumption DEF World
<1> QED BY <1>1, <1>2 DEF At, PRead, FileIn

\* The page in a linked frame.
LEMMA OwnedPage ==
  ASSUME NEW p, NEW d, NEW t, NEW ps, NEW us, Sound(p, d, t, ps, us),
         NEW f \in Frame, On(p, f), NEW g, g = p.page[f]
  PROVE  /\ g \in BFpage /\ g.fpage \in Data
         /\ g.fd \in OpenIn(t) /\ g.fd \in Fd /\ g.unix_fd = t[g.fd].unixfd
         /\ g.page_num \in 1..t[g.fd].numpages /\ g.page_num \in PageNum
         /\ g.page_num - 1 \in DataPage
         /\ d.open[g.unix_fd] = FileIn(d, t, g.fd) /\ FileIn(d, t, g.fd) \in Inode
         /\ Has(p, f, g.fd, g.page_num)
<1>1. World(p, d, t) /\ Owned(p, t)
  BY DEF Sound
<1>2. g \in BFpage /\ g.fpage \in Data
  BY <1>1 DEF World, PoolOK, Pools, BFpage
<1>3. /\ g.fd \in OpenIn(t) /\ g.fd \in Fd /\ g.unix_fd = t[g.fd].unixfd
      /\ g.page_num \in 1..t[g.fd].numpages
  BY <1>1 DEF Owned, OpenIn
<1>4. t[g.fd].numpages \in 0..MaxPages
  BY <1>1, <1>3 DEF World, PFftab_ele
<1> PICK k : k = g.page_num
  OBVIOUS
<1> PICK n : n = t[g.fd].numpages
  OBVIOUS
<1>5. k \in PageNum /\ k - 1 \in DataPage
  <2>1. n \in 0..MaxPages /\ k \in 1..n /\ MaxPages \in Nat
    BY <1>3, <1>4, PFAssumption
  <2>2. k \in 0..MaxPages /\ k - 1 \in 0..(MaxPages - 1)
    BY <2>1
  <2> QED BY <2>2, PFAssumption DEF DataPage
<1>6. d.open[g.unix_fd] = FileIn(d, t, g.fd) /\ FileIn(d, t, g.fd) \in Inode
  BY <1>1, <1>3 DEF World, FileIn
<1> QED BY <1>2, <1>3, <1>5, <1>6 DEF Has

-----------------------------------------------------------------------------
(* Writing pages. *)

\* A page written out is in its file, and the hole below it filled.
LEMMA FlushedData ==
  ASSUME NEW d \in PFDisks, NEW page \in BFpage, page.dirty, page.page_num \in PageNum,
         NEW j \in Inode, j = d.open[page.unix_fd],
         NEW i \in Inode, NEW k \in PageNum
  PROVE  Flushed(d, page).data[<<i, k>>] =
           IF i = j /\ k = page.page_num THEN page.fpage
           ELSE IF i = j /\ k < page.page_num /\ d.data[<<i, k>>] = Absent THEN Zero
           ELSE d.data[<<i, k>>]
<1> DEFINE K == Inode \X PageNum
<1> PICK data : data = [l \in K |->
        IF l = <<j, page.page_num>> THEN page.fpage
        ELSE IF l[1] = j /\ l[2] < page.page_num /\ d.data[l] = Absent
        THEN Zero ELSE d.data[l]]
  OBVIOUS
<1>1. j # Closed
  BY PFAssumption
<1>2. DOMAIN d.data = K /\ DOMAIN d = {"open", "data"}
  BY DEF PFDisks, DisksOver
<1>3. Flushed(d, page) = [d EXCEPT !.data = data]
  BY <1>1, <1>2 DEF Flushed, CannotFlush, PWrite
<1>4. Flushed(d, page).data = data
  BY <1>2, <1>3
<1>5. <<i, k>> \in K /\ <<i, k>>[1] = i /\ <<i, k>>[2] = k
      /\ (<<i, k>> = <<j, page.page_num>> <=> i = j /\ k = page.page_num)
  OBVIOUS
<1> HIDE DEF K
<1>6. data[<<i, k>>] =
        IF i = j /\ k = page.page_num THEN page.fpage
        ELSE IF i = j /\ k < page.page_num /\ d.data[<<i, k>>] = Absent THEN Zero
        ELSE d.data[<<i, k>>]
  BY <1>5
<1> QED BY <1>4, <1>6

-----------------------------------------------------------------------------
(* A page leaves the pool. *)

LEMMA DropSound ==
  ASSUME NEW p, NEW d, NEW t, NEW ps, NEW us, Sound(p, d, t, ps, us),
         NEW q, PoolOK(q), NEW v, Dropped(p, q, v),
         NEW e, e = Flushed(d, p.page[v])
  PROVE  Sound(q, e, t, ps, us) /\ SameRead(p, d, t, q, e) /\ DataKept(d, e, t)
<1> PICK g : g = p.page[v]
  OBVIOUS
<1>1. /\ World(p, d, t) /\ Owned(p, t) /\ Counted(p, ps) /\ Marked(p, ps, us)
      /\ Clean(p, d, us) /\ There(p, d, t)
      /\ PoolOK(p) /\ d \in PFDisks /\ t \in [Fd -> PFftab_ele]
  BY DEF Sound, World
<1>2. v \in Frame /\ On(p, v) /\ g.count = 0
  BY DEF Dropped
<1>3. /\ g \in BFpage /\ g.fpage \in Data /\ g.fpage # Absent
      /\ g.fd \in OpenIn(t) /\ g.fd \in Fd /\ g.unix_fd = t[g.fd].unixfd
      /\ g.page_num \in 1..t[g.fd].numpages /\ g.page_num \in PageNum
      /\ g.page_num - 1 \in DataPage
      /\ d.open[g.unix_fd] = FileIn(d, t, g.fd) /\ FileIn(d, t, g.fd) \in Inode
      /\ Has(p, v, g.fd, g.page_num)
  <2>1. g.fpage \in Data => g.fpage # Absent
    BY PoolAssumption
  <2> QED BY <1>2, <2>1, OwnedPage
<1> PICK i : i = FileIn(d, t, g.fd)
  OBVIOUS
<1>4. us[Key(g)] = "idle"
  <2>1. ps[Key(g)] = 0
    BY <1>1, <1>2 DEF Counted
  <2> QED BY <1>1, <1>3, <2>1 DEF Marked, Key
<1>5. e \in PFDisks /\ e.open = d.open
  BY <1>1, <1>3, FlushedOver DEF PFDisks
<1>6. ASSUME NEW j \in Inode, NEW k \in PageNum
      PROVE  e.data[<<j, k>>] =
               IF j = i /\ k = g.page_num THEN g.fpage
               ELSE IF g.dirty /\ j = i /\ k < g.page_num /\ d.data[<<j, k>>] = Absent
               THEN Zero ELSE d.data[<<j, k>>]
  <2>1. CASE g.dirty
    BY <1>1, <1>3, <2>1, FlushedData
  <2>2. CASE ~g.dirty
    <3>1. d.data[<<i, g.page_num>>] = g.fpage
      BY <1>1, <1>2, <1>3, <1>4, <2>2 DEF Clean
    <3>2. e = d
      BY <2>2 DEF Flushed
    <3> QED BY <2>2, <3>1, <3>2
  <2> QED BY <2>1, <2>2
<1>7. \A j \in Inode, k \in PageNum : d.data[<<j, k>>] # Absent =>
        /\ e.data[<<j, k>>] # Absent
        /\ ~(j = i /\ k = g.page_num) => e.data[<<j, k>>] = d.data[<<j, k>>]
  BY <1>3, <1>6
<1>8. DataKept(d, e, t)
  <2>1. \A j \in Inode, k \in PageNum :
          (\A fd \in OpenIn(t) : FileIn(d, t, fd) # j) => e.data[<<j, k>>] = d.data[<<j, k>>]
    BY <1>3, <1>6
  <2> QED BY <1>5, <1>7, <2>1 DEF DataKept
<1>9. World(q, e, t)
  BY <1>1, <1>5 DEF World, FileIn
<1>10. \A f \in Frame : On(q, f) => On(p, f) /\ f # v /\ q.page[f] = p.page[f]
  BY DEF Dropped
<1>11. Owned(q, t)
  BY <1>1, <1>10 DEF Owned
<1>12. Counted(q, ps)
  <2>1. \A f \in Frame : On(q, f) =>
          q.page[f].count = ps[Key(q.page[f])]
    BY <1>1, <1>10 DEF Counted
  <2>2. ASSUME NEW fd \in Fd, NEW n \in DataPage, ps[<<fd, n>>] > 0
        PROVE  \E f : Has(q, f, fd, n + 1)
    <3>1. PICK f : Has(p, f, fd, n + 1)
      BY <1>1, <2>2 DEF Counted
    <3>2. f # v
      <4>1. ASSUME f = v PROVE FALSE
        <5>1. ps[<<fd, n>>] = 0
          <6>1. n \in Int /\ g.fd = fd /\ g.page_num = n + 1
            BY <3>1, <4>1, PFAssumption DEF Has, DataPage
          <6>2. g.page_num - 1 = n
            BY <6>1
          <6>3. Key(g) = <<fd, n>>
            BY <6>1, <6>2 DEF Key
          <6> QED BY <1>1, <1>2, <6>3 DEF Counted
        <5> QED BY <2>2, <5>1
      <4> QED BY <4>1
    <3> QED BY <3>1, <3>2 DEF Has, Dropped
  <2> QED BY <2>1, <2>2 DEF Counted
<1>13. Marked(q, ps, us)
  BY <1>1, <1>10 DEF Marked
<1>14. ASSUME NEW f \in Frame, On(q, f)
       PROVE  ~(p.page[f].fd = g.fd /\ p.page[f].page_num = g.page_num)
  BY <1>1, <1>2, <1>3, <1>10, <1>14, OneHas DEF Has
<1>15. Clean(q, e, us)
  <2> SUFFICES ASSUME NEW f \in Frame, On(q, f), ~q.page[f].dirty
               PROVE  LET x == e.data[<<e.open[q.page[f].unix_fd], q.page[f].page_num>>] IN
                      /\ x # Absent
                      /\ us[Key(q.page[f])] # "stored"
                           => x = q.page[f].fpage
    BY DEF Clean
  <2> PICK h : h = p.page[f]
    OBVIOUS
  <2>1. On(p, f) /\ q.page[f] = h
    BY <1>10
  <2> PICK j : j = d.open[h.unix_fd]
    OBVIOUS
  <2>2. /\ j \in Inode /\ h.page_num \in PageNum /\ h.fd \in OpenIn(t)
        /\ j = FileIn(d, t, h.fd)
    BY <2>1, OwnedPage
  <2>3. ~(j = i /\ h.page_num = g.page_num)
    BY <1>1, <1>3, <1>14, <2>2 DEF World
  <2>4. /\ d.data[<<j, h.page_num>>] # Absent
        /\ us[Key(h)] # "stored" => d.data[<<j, h.page_num>>] = h.fpage
    BY <1>1, <2>1 DEF Clean
  <2>5. e.data[<<j, h.page_num>>] = d.data[<<j, h.page_num>>]
    BY <1>7, <2>2, <2>3, <2>4
  <2> QED BY <1>5, <2>1, <2>4, <2>5
<1>16. ASSUME NEW fd \in OpenIn(t), NEW k \in 1..t[fd].numpages
       PROVE  /\ fd \in Fd /\ k \in PageNum /\ FileIn(d, t, fd) \in Inode
              /\ FileIn(e, t, fd) = FileIn(d, t, fd)
  <2> PICK n : n = t[fd].numpages
    OBVIOUS
  <2>1. fd \in Fd /\ n \in 0..MaxPages
    BY <1>1 DEF OpenIn, PFftab_ele
  <2>2. k \in PageNum
    BY <2>1, PFAssumption
  <2> QED BY <1>1, <1>5, <2>1, <2>2 DEF World, FileIn
<1>17. There(q, e, t) /\ SameRead(p, d, t, q, e)
  <2> SUFFICES ASSUME NEW fd \in OpenIn(t), NEW k \in 1..t[fd].numpages
               PROVE  /\ (\E f : Has(q, f, fd, k)) \/ e.data[<<FileIn(e, t, fd), k>>] # Absent
                      /\ At(q, e, t, fd, k) = At(p, d, t, fd, k)
    BY DEF There, SameRead
  <2> PICK j : j = FileIn(d, t, fd)
    OBVIOUS
  <2>1. /\ fd \in Fd /\ k \in PageNum /\ j \in Inode /\ FileIn(e, t, fd) = j
        /\ j = i <=> fd = g.fd
    BY <1>1, <1>3, <1>16 DEF World
  <2>2. CASE \E f : Has(p, f, fd, k) /\ f # v
    <3>1. PICK f : Has(p, f, fd, k) /\ f # v
      BY <2>2
    <3>2. Has(q, f, fd, k) /\ q.page[f] = p.page[f]
      BY <3>1 DEF Has, Dropped
    <3> QED BY <1>1, <3>1, <3>2, AtHas
  <2>3. CASE Has(p, v, fd, k)
    <3>1. fd = g.fd /\ k = g.page_num
      BY <2>3 DEF Has
    <3>2. \A f : ~Has(q, f, fd, k)
      BY <1>10, <1>14, <3>1 DEF Has
    <3>3. At(q, e, t, fd, k) = e.data[<<j, k>>]
      BY <1>9, <2>1, <3>2, AtFile
    <3>4. e.data[<<j, k>>] = g.fpage
      BY <1>6, <2>1, <3>1
    <3>5. At(p, d, t, fd, k) = g.fpage
      BY <1>1, <2>3, AtHas
    <3> QED BY <1>3, <2>1, <3>3, <3>4, <3>5
  <2>4. CASE \A f : ~Has(p, f, fd, k)
    <3>1. \A f : ~Has(q, f, fd, k)
      BY <1>10, <2>4 DEF Has
    <3>2. d.data[<<j, k>>] # Absent
      BY <1>1, <2>4 DEF There
    <3>3. ~(j = i /\ k = g.page_num)
      BY <1>3, <2>1, <2>4
    <3>4. e.data[<<j, k>>] = d.data[<<j, k>>]
      BY <1>7, <2>1, <3>2, <3>3
    <3>5. At(q, e, t, fd, k) = e.data[<<j, k>>] /\ At(p, d, t, fd, k) = d.data[<<j, k>>]
      BY <1>1, <1>9, <2>1, <2>4, <3>1, AtFile
    <3> QED BY <2>1, <3>2, <3>4, <3>5
  <2> QED BY <2>2, <2>3, <2>4
<1> QED BY <1>8, <1>9, <1>11, <1>12, <1>13, <1>15, <1>17 DEF Sound

\* Making room for a page.
LEMMA RoomSound ==
  ASSUME NEW p, NEW d, NEW t, NEW ps, NEW us, Sound(p, d, t, ps, us), HasRoom(p, d),
         NEW q, q = MakeRoom(p), NEW e, e = RoomDisk(p, d)
  PROVE  Sound(q, e, t, ps, us) /\ SameRead(p, d, t, q, e) /\ DataKept(d, e, t)
<1>1. PoolOK(p) /\ PoolOK(q)
  BY MakeRoomOK DEF Sound, World
<1>2. CASE q = p /\ p.free # <<>>
  <2>1. e = d
    BY <1>2 DEF RoomDisk
  <2> QED BY <1>2, <2>1 DEF SameRead, DataKept
<1>3. CASE p.free = <<>> /\ Dropped(p, q, Victim(p))
  <2>1. e = Flushed(d, p.page[Victim(p)])
    BY <1>3 DEF RoomDisk
  <2> QED BY <1>1, <1>3, <2>1, DropSound
<1> QED BY <1>1, <1>2, <1>3, MakeRoomDoes

-----------------------------------------------------------------------------
(* The other changes of the pool. *)

\* Only what is counted under key changes.
Only(key, ps, us, ps2, us2) ==
  \A l \in Fd \X DataPage : l # key => ps2[l] = ps[l] /\ us2[l] = us[l]

\* Pages of open files are kept apart by descriptor and number, and counted
\* apart.
LEMMA KeyOf ==
  ASSUME NEW fd \in Fd, NEW k \in PageNum, NEW n \in DataPage, NEW a \in Fd
  PROVE  /\ <<a, n>> = <<fd, k - 1>> <=> a = fd /\ n + 1 = k
         /\ n + 1 \in PageNum /\ n + 1 - 1 = n
<1>1. n \in 0..(MaxPages - 1) /\ MaxPages \in Nat /\ k \in Int
  BY PFAssumption DEF DataPage
<1>2. n \in Int /\ n + 1 \in 0..MaxPages
  BY <1>1
<1> QED BY <1>2, PFAssumption

LEMMA PageInRange ==
  ASSUME NEW t \in [Fd -> PFftab_ele], NEW fd \in Fd, NEW k \in 1..t[fd].numpages
  PROVE  k \in PageNum /\ k - 1 \in DataPage /\ k \in Nat /\ k - 1 + 1 = k
<1> PICK n : n = t[fd].numpages
  OBVIOUS
<1>1. n \in 0..MaxPages /\ MaxPages \in Nat
  BY PFAssumption DEF PFftab_ele
<1> QED BY <1>1, PFAssumption DEF DataPage

LEMMA SameLinkedSound ==
  ASSUME NEW p, NEW d, NEW t, NEW ps, NEW us, Sound(p, d, t, ps, us),
         NEW q, PoolOK(q), SameLinked(p, q)
  PROVE  Sound(q, d, t, ps, us) /\ SameRead(p, d, t, q, d)
<1>1. /\ World(p, d, t) /\ Owned(p, t) /\ Counted(p, ps) /\ Marked(p, ps, us)
      /\ Clean(p, d, us) /\ There(p, d, t) /\ PoolOK(p)
  BY DEF Sound, World
<1>2. \A f \in Frame : On(q, f) <=> On(p, f)
  BY DEF SameLinked
<1>3. \A f \in Frame : On(p, f) => q.page[f] = p.page[f]
  BY DEF SameLinked
<1>4. \A fd, k, f : Has(q, f, fd, k) <=> Has(p, f, fd, k)
  BY <1>2, <1>3 DEF Has
<1>5. World(q, d, t)
  BY <1>1 DEF World
<1>6. SameRead(p, d, t, q, d)
  <2> SUFFICES ASSUME NEW fd \in OpenIn(t), NEW k \in 1..t[fd].numpages
               PROVE  At(q, d, t, fd, k) = At(p, d, t, fd, k)
    BY DEF SameRead
  <2>1. CASE \E f : Has(p, f, fd, k)
    <3>1. PICK f : Has(p, f, fd, k)
      BY <2>1
    <3>2. q.page[f] = p.page[f]
      BY <1>3, <3>1 DEF Has
    <3> QED BY <1>1, <1>4, <3>1, <3>2, AtHas
  <2>2. CASE \A f : ~Has(p, f, fd, k)
    <3>1. \A f : ~Has(q, f, fd, k)
      BY <1>4, <2>2
    <3>2. At(q, d, t, fd, k) = d.data[<<FileIn(d, t, fd), k>>]
      BY <1>5, <3>1, AtFile
    <3>3. At(p, d, t, fd, k) = d.data[<<FileIn(d, t, fd), k>>]
      BY <1>1, <2>2, AtFile
    <3> QED BY <3>2, <3>3
  <2> QED BY <2>1, <2>2
<1>7. Owned(q, t)
  BY <1>1, <1>2, <1>3 DEF Owned
<1>8. Counted(q, ps)
  BY <1>1, <1>2, <1>3, <1>4 DEF Counted
<1>9. Marked(q, ps, us)
  BY <1>1, <1>2, <1>3 DEF Marked
<1>10. Clean(q, d, us)
  BY <1>1, <1>2, <1>3 DEF Clean
<1>11. There(q, d, t)
  BY <1>1, <1>4 DEF There
<1> QED BY <1>5, <1>6, <1>7, <1>8, <1>9, <1>10, <1>11 DEF Sound

\* A page that is there is pinned, unpinned, marked or stored into.
LEMMA ChangedSound ==
  ASSUME NEW p, NEW d, NEW t, NEW ps, NEW us, Sound(p, d, t, ps, us),
         NEW q, PoolOK(q), NEW fd, NEW k, NEW f, Has(p, f, fd, k),
         NEW page, Changed(p, q, f, page),
         page.fd = fd, page.page_num = k, page.unix_fd = p.page[f].unix_fd,
         page.fpage \in Data,
         NEW ps2, NEW us2, Only(<<fd, k - 1>>, ps, us, ps2, us2),
         ps2[<<fd, k - 1>>] = page.count,
         ps2[<<fd, k - 1>>] = 0 => us2[<<fd, k - 1>>] = "idle",
         us2[<<fd, k - 1>>] = "touched" => page.dirty,
         ~page.dirty => /\ ~p.page[f].dirty
                        /\ us2[<<fd, k - 1>>] # "stored" =>
                             us[<<fd, k - 1>>] # "stored" /\ page.fpage = p.page[f].fpage
  PROVE  /\ Sound(q, d, t, ps2, us2)
         /\ \A a \in OpenIn(t) : \A m \in 1..t[a].numpages :
              At(q, d, t, a, m) = IF a = fd /\ m = k THEN page.fpage ELSE At(p, d, t, a, m)
<1>1. /\ World(p, d, t) /\ Owned(p, t) /\ Counted(p, ps) /\ Marked(p, ps, us)
      /\ Clean(p, d, us) /\ There(p, d, t) /\ PoolOK(p) /\ t \in [Fd -> PFftab_ele]
  BY DEF Sound, World
<1>2. /\ f \in Frame /\ On(p, f) /\ p.page[f].fd = fd /\ p.page[f].page_num = k
      /\ fd \in OpenIn(t) /\ fd \in Fd /\ k \in PageNum /\ k - 1 \in DataPage
  BY OwnedPage DEF Has
<1>3. \A g \in Frame : On(q, g) <=> On(p, g)
  BY DEF Changed
<1>4. q.page[f] = page /\ \A g \in Frame : g # f => q.page[g] = p.page[g]
  BY <1>2 DEF Changed
<1>5. \A a, m, g : Has(q, g, a, m) <=> Has(p, g, a, m)
  BY <1>2, <1>3, <1>4 DEF Has
<1>6. ASSUME NEW g \in Frame, On(p, g), g # f
      PROVE  /\ Key(p.page[g]) \in Fd \X DataPage /\ Key(p.page[g]) # <<fd, k - 1>>
             /\ ~(p.page[g].fd = fd /\ p.page[g].page_num = k)
  <2> PICK h : h = p.page[g]
    OBVIOUS
  <2>1. h.fd \in Fd /\ h.page_num \in PageNum /\ h.page_num - 1 \in DataPage
        /\ Has(p, g, h.fd, h.page_num)
    BY <1>6, OwnedPage
  <2>2. ~(h.fd = fd /\ h.page_num = k)
    BY <1>1, <1>6, <2>1, OneHas
  <2>3. h.page_num \in Int /\ k \in Int
    BY <1>2, <2>1, PFAssumption
  <2>4. <<h.fd, h.page_num - 1>> # <<fd, k - 1>>
    BY <2>2, <2>3
  <2> QED BY <2>1, <2>2, <2>4 DEF Key
<1>7. Key(page) = <<fd, k - 1>> /\ Key(p.page[f]) = <<fd, k - 1>>
  BY <1>2 DEF Key
<1>8. World(q, d, t)
  BY <1>1 DEF World
<1>9. ASSUME NEW a \in OpenIn(t), NEW m \in 1..t[a].numpages
      PROVE  At(q, d, t, a, m) = IF a = fd /\ m = k THEN page.fpage ELSE At(p, d, t, a, m)
  <2>1. CASE a = fd /\ m = k
    <3>1. Has(q, f, a, m)
      BY <1>5, <2>1
    <3> QED BY <1>4, <2>1, <3>1, AtHas
  <2>2. CASE ~(a = fd /\ m = k) /\ \E g : Has(p, g, a, m)
    <3>1. PICK g : Has(p, g, a, m)
      BY <2>2
    <3>2. g # f
      BY <1>2, <2>2, <3>1 DEF Has
    <3>3. q.page[g] = p.page[g] /\ Has(q, g, a, m)
      BY <1>4, <1>5, <3>1, <3>2 DEF Has
    <3> QED BY <1>1, <2>2, <3>1, <3>3, AtHas
  <2>3. CASE ~(a = fd /\ m = k) /\ \A g : ~Has(p, g, a, m)
    <3>1. \A g : ~Has(q, g, a, m)
      BY <1>5, <2>3
    <3>2. At(q, d, t, a, m) = d.data[<<FileIn(d, t, a), m>>]
      BY <1>8, <3>1, AtFile
    <3>3. At(p, d, t, a, m) = d.data[<<FileIn(d, t, a), m>>]
      BY <1>1, <2>3, AtFile
    <3> QED BY <2>3, <3>2, <3>3
  <2> QED BY <2>1, <2>2, <2>3
<1>10. Owned(q, t)
  <2> SUFFICES ASSUME NEW g \in Frame, On(q, g)
               PROVE  /\ q.page[g].fd \in OpenIn(t)
                      /\ q.page[g].unix_fd = t[q.page[g].fd].unixfd
                      /\ q.page[g].page_num \in 1..t[q.page[g].fd].numpages
    BY DEF Owned
  <2>1. /\ q.page[g].fd = p.page[g].fd /\ q.page[g].page_num = p.page[g].page_num
        /\ q.page[g].unix_fd = p.page[g].unix_fd /\ On(p, g)
    BY <1>2, <1>3, <1>4
  <2> QED BY <1>1, <2>1 DEF Owned
<1>11. Counted(q, ps2)
  <2>1. ASSUME NEW g \in Frame, On(q, g)
        PROVE  q.page[g].count = ps2[Key(q.page[g])]
    <3>1. CASE g = f
      BY <1>4, <1>7, <3>1
    <3>2. CASE g # f
      BY <1>1, <1>3, <1>4, <1>6, <2>1, <3>2 DEF Counted, Only
    <3> QED BY <3>1, <3>2
  <2>2. ASSUME NEW a \in Fd, NEW n \in DataPage, ps2[<<a, n>>] > 0
        PROVE  \E g : Has(q, g, a, n + 1)
    <3>1. CASE <<a, n>> = <<fd, k - 1>>
      <4>1. a = fd /\ n + 1 = k
        BY <1>2, <3>1, KeyOf
      <4> QED BY <1>5, <4>1
    <3>2. CASE <<a, n>> # <<fd, k - 1>>
      <4>1. ps[<<a, n>>] > 0
        BY <2>2, <3>2 DEF Only
      <4> QED BY <1>1, <1>5, <4>1 DEF Counted
    <3> QED BY <3>1, <3>2
  <2> QED BY <2>1, <2>2 DEF Counted
<1>12. Marked(q, ps2, us2)
  <2>1. ASSUME NEW a \in Fd, NEW n \in DataPage, ps2[<<a, n>>] = 0
        PROVE  us2[<<a, n>>] = "idle"
    BY <1>1, <2>1 DEF Marked, Only
  <2>2. ASSUME NEW g \in Frame, On(q, g), us2[Key(q.page[g])] = "touched"
        PROVE  q.page[g].dirty
    <3>1. CASE g = f
      BY <1>4, <1>7, <2>2, <3>1
    <3>2. CASE g # f
      BY <1>1, <1>3, <1>4, <1>6, <2>2, <3>2 DEF Marked, Only
    <3> QED BY <3>1, <3>2
  <2> QED BY <2>1, <2>2 DEF Marked
<1>13. Clean(q, d, us2)
  <2> SUFFICES ASSUME NEW g \in Frame, On(q, g), ~q.page[g].dirty
               PROVE  LET x == d.data[<<d.open[q.page[g].unix_fd], q.page[g].page_num>>] IN
                      /\ x # Absent
                      /\ us2[Key(q.page[g])] # "stored" => x = q.page[g].fpage
    BY DEF Clean
  <2>1. CASE g = f
    BY <1>1, <1>2, <1>4, <1>7, <2>1 DEF Clean
  <2>2. CASE g # f
    <3>1. On(p, g) /\ q.page[g] = p.page[g] /\ us2[Key(p.page[g])] = us[Key(p.page[g])]
      BY <1>3, <1>4, <1>6, <2>2 DEF Only
    <3> QED BY <1>1, <3>1 DEF Clean
  <2> QED BY <2>1, <2>2
<1>14. There(q, d, t)
  BY <1>1, <1>5 DEF There
<1> QED BY <1>8, <1>9, <1>10, <1>11, <1>12, <1>13, <1>14 DEF Sound

\* A page that was not there is read, or made after the last one.
LEMMA LinkedSound ==
  ASSUME NEW p, NEW d, NEW t, NEW ps, NEW us, Sound(p, d, t, ps, us),
         NEW q, PoolOK(q), NEW s, World(q, d, s),
         NEW fd \in OpenIn(t), NEW k, ~InBuf(p, fd, k),
         OpenIn(s) = OpenIn(t), \A a \in Fd : s[a].unixfd = t[a].unixfd,
         \A a \in Fd : a # fd => s[a].numpages = t[a].numpages,
         \A m : m \in 1..s[fd].numpages <=> m \in 1..t[fd].numpages \/ m = k,
         NEW page, page.fd = fd, page.page_num = k, page.unix_fd = t[fd].unixfd,
         page.fpage \in Data,
         NEW f, Linked(p, q, f, page),
         NEW ps2, NEW us2, Only(<<fd, k - 1>>, ps, us, ps2, us2),
         ps2[<<fd, k - 1>>] = page.count, page.count # 0,
         us2[<<fd, k - 1>>] = "touched" => page.dirty,
         ~page.dirty => page.fpage = d.data[<<FileIn(d, t, fd), k>>]
  PROVE  /\ Sound(q, d, s, ps2, us2)
         /\ \A a \in OpenIn(s) : \A m \in 1..s[a].numpages :
              At(q, d, s, a, m) = IF a = fd /\ m = k THEN page.fpage ELSE At(p, d, t, a, m)
<1>1. /\ World(p, d, t) /\ Owned(p, t) /\ Counted(p, ps) /\ Marked(p, ps, us)
      /\ Clean(p, d, us) /\ There(p, d, t) /\ PoolOK(p) /\ t \in [Fd -> PFftab_ele]
      /\ s \in [Fd -> PFftab_ele]
  BY DEF Sound, World
<1>2. fd \in Fd /\ k \in PageNum /\ k - 1 \in DataPage
  <2>1. fd \in Fd /\ k \in 1..s[fd].numpages
    BY DEF OpenIn
  <2> QED BY <1>1, <2>1, PageInRange
<1>3. f \in Frame /\ ~On(p, f) /\ \A g \in Frame : On(q, g) <=> On(p, g) \/ g = f
  BY DEF Linked
<1>4. q.page[f] = page /\ \A g \in Frame : g # f => q.page[g] = p.page[g]
  BY <1>3 DEF Linked
<1>5. Has(q, f, fd, k) /\ \A g : ~Has(p, g, fd, k)
  BY <1>1, <1>3, <1>4, HasFound DEF Has
<1>6. \A a, m, g : Has(q, g, a, m) <=> Has(p, g, a, m) \/ (g = f /\ a = fd /\ m = k)
  BY <1>3, <1>4 DEF Has
<1>7. ASSUME NEW g \in Frame, On(p, g)
      PROVE  Key(p.page[g]) \in Fd \X DataPage /\ Key(p.page[g]) # <<fd, k - 1>>
  <2> PICK h : h = p.page[g]
    OBVIOUS
  <2>1. h.fd \in Fd /\ h.page_num \in PageNum /\ h.page_num - 1 \in DataPage
        /\ Has(p, g, h.fd, h.page_num)
    BY <1>7, OwnedPage
  <2>2. ~(h.fd = fd /\ h.page_num = k)
    BY <1>5, <2>1
  <2>3. h.page_num \in Int /\ k \in Int
    BY <1>2, <2>1, PFAssumption
  <2>4. <<h.fd, h.page_num - 1>> # <<fd, k - 1>>
    BY <2>2, <2>3
  <2> QED BY <2>1, <2>4 DEF Key
<1>8. Key(page) = <<fd, k - 1>>
  BY DEF Key
<1>9. ASSUME NEW a \in OpenIn(s)
      PROVE  /\ a \in OpenIn(t) /\ a \in Fd /\ FileIn(d, s, a) = FileIn(d, t, a)
             /\ \A m \in 1..s[a].numpages : m \in 1..t[a].numpages \/ (a = fd /\ m = k)
  BY DEF OpenIn, FileIn
<1>10. ASSUME NEW a \in OpenIn(s), NEW m \in 1..s[a].numpages
       PROVE  At(q, d, s, a, m) = IF a = fd /\ m = k THEN page.fpage ELSE At(p, d, t, a, m)
  <2>1. CASE a = fd /\ m = k
    BY <1>4, <1>5, <2>1, AtHas DEF World
  <2>2. CASE ~(a = fd /\ m = k) /\ \E g : Has(p, g, a, m)
    <3>1. PICK g : Has(p, g, a, m)
      BY <2>2
    <3>2. q.page[g] = p.page[g] /\ Has(q, g, a, m)
      BY <1>3, <1>4, <1>6, <3>1 DEF Has
    <3> QED BY <1>1, <2>2, <3>1, <3>2, AtHas
  <2>3. CASE ~(a = fd /\ m = k) /\ \A g : ~Has(p, g, a, m)
    <3>1. \A g : ~Has(q, g, a, m)
      BY <1>6, <2>3
    <3>2. At(q, d, s, a, m) = d.data[<<FileIn(d, s, a), m>>]
      BY <3>1, AtFile
    <3>3. At(p, d, t, a, m) = d.data[<<FileIn(d, t, a), m>>]
      BY <1>1, <1>9, <2>3, AtFile
    <3> QED BY <1>9, <2>3, <3>2, <3>3
  <2> QED BY <2>1, <2>2, <2>3
<1>11. Owned(q, s)
  <2> SUFFICES ASSUME NEW g \in Frame, On(q, g)
               PROVE  /\ q.page[g].fd \in OpenIn(s)
                      /\ q.page[g].unix_fd = s[q.page[g].fd].unixfd
                      /\ q.page[g].page_num \in 1..s[q.page[g].fd].numpages
    BY DEF Owned
  <2>1. CASE g = f
    BY <1>2, <1>4, <2>1
  <2>2. CASE g # f
    <3> PICK h : h = p.page[g]
      OBVIOUS
    <3>1. h.fd \in OpenIn(t) /\ h.unix_fd = t[h.fd].unixfd /\ h.page_num \in 1..t[h.fd].numpages
      BY <1>1, <1>3, <2>2 DEF Owned
    <3>2. h.fd \in Fd
      BY <3>1 DEF OpenIn
    <3>3. h.page_num \in 1..s[h.fd].numpages
      BY <3>1, <3>2
    <3> QED BY <1>4, <2>2, <3>1, <3>2, <3>3
  <2> QED BY <2>1, <2>2
<1>12. Counted(q, ps2)
  <2>1. ASSUME NEW g \in Frame, On(q, g)
        PROVE  q.page[g].count = ps2[Key(q.page[g])]
    <3>1. CASE g = f
      BY <1>4, <1>8, <3>1
    <3>2. CASE g # f
      BY <1>1, <1>3, <1>4, <1>7, <2>1, <3>2 DEF Counted, Only
    <3> QED BY <3>1, <3>2
  <2>2. ASSUME NEW a \in Fd, NEW n \in DataPage, ps2[<<a, n>>] > 0
        PROVE  \E g : Has(q, g, a, n + 1)
    <3>1. CASE <<a, n>> = <<fd, k - 1>>
      <4>1. a = fd /\ n + 1 = k
        BY <1>2, <3>1, KeyOf
      <4> QED BY <1>5, <4>1
    <3>2. CASE <<a, n>> # <<fd, k - 1>>
      <4>1. ps[<<a, n>>] > 0
        BY <2>2, <3>2 DEF Only
      <4> QED BY <1>1, <1>6, <4>1 DEF Counted
    <3> QED BY <3>1, <3>2
  <2> QED BY <2>1, <2>2 DEF Counted
<1>13. Marked(q, ps2, us2)
  <2>1. ASSUME NEW a \in Fd, NEW n \in DataPage, ps2[<<a, n>>] = 0
        PROVE  us2[<<a, n>>] = "idle"
    BY <1>1, <2>1 DEF Marked, Only
  <2>2. ASSUME NEW g \in Frame, On(q, g), us2[Key(q.page[g])] = "touched"
        PROVE  q.page[g].dirty
    <3>1. CASE g = f
      BY <1>4, <1>8, <2>2, <3>1
    <3>2. CASE g # f
      BY <1>1, <1>3, <1>4, <1>7, <2>2, <3>2 DEF Marked, Only
    <3> QED BY <3>1, <3>2
  <2> QED BY <2>1, <2>2 DEF Marked
<1>14. Clean(q, d, us2)
  <2> SUFFICES ASSUME NEW g \in Frame, On(q, g), ~q.page[g].dirty
               PROVE  LET x == d.data[<<d.open[q.page[g].unix_fd], q.page[g].page_num>>] IN
                      /\ x # Absent
                      /\ us2[Key(q.page[g])] # "stored" => x = q.page[g].fpage
    BY DEF Clean
  <2>1. CASE g = f
    <3>1. d.open[page.unix_fd] = FileIn(d, t, fd)
      BY DEF FileIn
    <3>2. page.fpage # Absent
      BY PoolAssumption
    <3> QED BY <1>4, <2>1, <3>1, <3>2
  <2>2. CASE g # f
    <3>1. On(p, g) /\ q.page[g] = p.page[g] /\ us2[Key(p.page[g])] = us[Key(p.page[g])]
      BY <1>3, <1>4, <1>7, <2>2 DEF Only
    <3> QED BY <1>1, <3>1 DEF Clean
  <2> QED BY <2>1, <2>2
<1>15. There(q, d, s)
  <2> SUFFICES ASSUME NEW a \in OpenIn(s), NEW m \in 1..s[a].numpages
               PROVE  (\E g : Has(q, g, a, m)) \/ d.data[<<FileIn(d, s, a), m>>] # Absent
    BY DEF There
  <2>1. CASE a = fd /\ m = k
    BY <1>5, <2>1
  <2>2. CASE ~(a = fd /\ m = k)
    <3>1. (\E g : Has(p, g, a, m)) \/ d.data[<<FileIn(d, t, a), m>>] # Absent
      BY <1>1, <1>9, <2>2 DEF There
    <3> QED BY <1>6, <1>9, <3>1
  <2> QED BY <2>1, <2>2
<1> QED BY <1>10, <1>11, <1>12, <1>13, <1>14, <1>15 DEF Sound

-----------------------------------------------------------------------------
(* Changes of the file table and the Unix files. *)

\* Entry fd stands for the same file, with the same pages on disk.
SameEntry(d, t, e, s, fd) ==
  /\ s[fd].unixfd = t[fd].unixfd /\ s[fd].numpages = t[fd].numpages
  /\ FileIn(e, s, fd) = FileIn(d, t, fd)
  /\ \A k \in PageNum : e.data[<<FileIn(d, t, fd), k>>] = d.data[<<FileIn(d, t, fd), k>>]

\* Entries with buffered pages stay; one that is opened finds its pages on disk.
LEMMA TableSound ==
  ASSUME NEW p, NEW d, NEW t, NEW ps, NEW us, Sound(p, d, t, ps, us),
         NEW e, NEW s, World(p, e, s),
         \A a \in OpenIn(t) :
           a \in OpenIn(s) \/ \A f \in Frame : On(p, f) => p.page[f].fd # a,
         \A a \in OpenIn(t) \cap OpenIn(s) : SameEntry(d, t, e, s, a),
         \A a \in OpenIn(s) \ OpenIn(t) : \A k \in 1..s[a].numpages :
           e.data[<<FileIn(e, s, a), k>>] # Absent
  PROVE  /\ Sound(p, e, s, ps, us)
         /\ \A a \in OpenIn(t) \cap OpenIn(s) : \A k \in 1..t[a].numpages :
              At(p, e, s, a, k) = At(p, d, t, a, k)
<1>1. /\ World(p, d, t) /\ Owned(p, t) /\ Counted(p, ps) /\ Marked(p, ps, us)
      /\ Clean(p, d, us) /\ There(p, d, t) /\ PoolOK(p) /\ t \in [Fd -> PFftab_ele]
  BY DEF Sound, World
<1>2. ASSUME NEW a \in OpenIn(t) \cap OpenIn(s), NEW k \in 1..t[a].numpages
      PROVE  /\ FileIn(e, s, a) = FileIn(d, t, a)
             /\ e.data[<<FileIn(d, t, a), k>>] = d.data[<<FileIn(d, t, a), k>>]
  <2>1. k \in PageNum
    BY <1>1, PageInRange DEF OpenIn
  <2> QED BY <2>1 DEF SameEntry
<1>3. ASSUME NEW f \in Frame, On(p, f), NEW g, g = p.page[f]
      PROVE  /\ g.fd \in OpenIn(t) \cap OpenIn(s) /\ g.page_num \in 1..t[g.fd].numpages
             /\ g.unix_fd = t[g.fd].unixfd /\ g.unix_fd = s[g.fd].unixfd
             /\ s[g.fd].numpages = t[g.fd].numpages
             /\ d.open[g.unix_fd] = FileIn(d, t, g.fd) /\ e.open[g.unix_fd] = FileIn(e, s, g.fd)
  <2>1. g.fd \in OpenIn(t) /\ g.page_num \in 1..t[g.fd].numpages /\ g.unix_fd = t[g.fd].unixfd
    BY <1>1, <1>3 DEF Owned
  <2>2. g.fd \in OpenIn(s)
    BY <1>3, <2>1
  <2>3. SameEntry(d, t, e, s, g.fd)
    BY <2>1, <2>2
  <2>4. g.unix_fd = s[g.fd].unixfd /\ s[g.fd].numpages = t[g.fd].numpages
    BY <2>1, <2>3 DEF SameEntry
  <2> QED BY <2>1, <2>2, <2>4 DEF FileIn
<1>4. Owned(p, s)
  BY <1>3 DEF Owned
<1>5. Clean(p, e, us)
  <2> SUFFICES ASSUME NEW f \in Frame, On(p, f), ~p.page[f].dirty
               PROVE  LET x == e.data[<<e.open[p.page[f].unix_fd], p.page[f].page_num>>] IN
                      /\ x # Absent
                      /\ us[Key(p.page[f])] # "stored" => x = p.page[f].fpage
    BY DEF Clean
  <2> PICK g : g = p.page[f]
    OBVIOUS
  <2>1. e.data[<<e.open[g.unix_fd], g.page_num>>] = d.data[<<d.open[g.unix_fd], g.page_num>>]
    BY <1>2, <1>3
  <2> QED BY <1>1, <2>1 DEF Clean
<1>6. There(p, e, s)
  <2> SUFFICES ASSUME NEW a \in OpenIn(s), NEW k \in 1..s[a].numpages
               PROVE  (\E f : Has(p, f, a, k)) \/ e.data[<<FileIn(e, s, a), k>>] # Absent
    BY DEF There
  <2>1. CASE a \in OpenIn(t)
    <3>1. k \in 1..t[a].numpages
      BY <2>1 DEF SameEntry
    <3> QED BY <1>1, <1>2, <2>1, <3>1 DEF There
  <2>2. CASE a \notin OpenIn(t)
    BY <2>2
  <2> QED BY <2>1, <2>2
<1>7. ASSUME NEW a \in OpenIn(t) \cap OpenIn(s), NEW k \in 1..t[a].numpages
      PROVE  At(p, e, s, a, k) = At(p, d, t, a, k)
  <2>1. CASE \E f : Has(p, f, a, k)
    BY <1>1, <2>1, AtHas
  <2>2. CASE \A f : ~Has(p, f, a, k)
    <3>1. At(p, e, s, a, k) = e.data[<<FileIn(e, s, a), k>>]
      BY <2>2, AtFile
    <3>2. At(p, d, t, a, k) = d.data[<<FileIn(d, t, a), k>>]
      BY <1>1, <2>2, AtFile
    <3> QED BY <1>2, <3>1, <3>2
  <2> QED BY <2>1, <2>2
<1> QED BY <1>1, <1>4, <1>5, <1>6, <1>7 DEF Sound

\* A new process holds nothing.
LEMMA EmptySound ==
  ASSUME NEW d \in PFDisks, NEW t \in [Fd -> PFftab_ele], OpenIn(t) = {},
         NEW ps, NEW us, \A l \in Fd \X DataPage : ps[l] = 0 /\ us[l] = "idle"
  PROVE  Sound(EmptyPool, d, t, ps, us)
<1>1. \A f : ~On(EmptyPool, f)
  BY DEF On, EmptyPool
<1>2. \A fd \in Fd, n \in DataPage : <<fd, n>> \in Fd \X DataPage
  OBVIOUS
<1>3. World(EmptyPool, d, t)
  BY EmptyPoolOK DEF World
<1>4. Counted(EmptyPool, ps) /\ Marked(EmptyPool, ps, us)
  BY <1>1, <1>2 DEF Counted, Marked
<1> QED BY <1>1, <1>3, <1>4 DEF Sound, Owned, Clean, There

-----------------------------------------------------------------------------
(* The invariant. *)

Pinned == [Fd \X DataPage -> 0..MaxPins]
Uses == [Fd \X DataPage -> {"idle", "stored", "touched"}]

\* A header counts pages that are on disk.
HeadersTrue(d, h) == \A i \in Inode : \A k \in 1..h[i] : d.data[<<i, k>>] # Absent

\* The header of an open file is behind its entry only while hdrchanged says so,
\* and the file keeps its name.
HeadersFit(d, t, h, names) ==
  \A fd \in OpenIn(t) :
    /\ h[FileIn(d, t, fd)] \in 0..t[fd].numpages
    /\ ~t[fd].hdrchanged => h[FileIn(d, t, fd)] = t[fd].numpages
    /\ names[t[fd].fname] = FileIn(d, t, fd)

ClosingUnpinned == closing # NoFd => \A n \in DataPage : pins[<<closing, n>>] = 0

KInv ==
  /\ TInv /\ pins \in Pinned /\ use \in Uses
  /\ Sound(pool, disk, pf_table, pins, use)
  /\ HeadersTrue(disk, header) /\ HeadersFit(disk, pf_table, header, dir)
  /\ ClosingUnpinned

\* The parts of it that a step has to restore when it has the types.
KRest ==
  /\ pins' \in Pinned /\ use' \in Uses
  /\ Sound(pool', disk', pf_table', pins', use')
  /\ HeadersTrue(disk', header') /\ HeadersFit(disk', pf_table', header', dir')
  /\ ClosingUnpinned'

LEMMA OpenWorld ==
  ASSUME TInv
  PROVE  /\ World(pool, disk, pf_table) /\ OpenFds = OpenIn(pf_table)
         /\ \A fd \in OpenFds : /\ fd \in Fd /\ IsOpen(fd) /\ pf_table[fd].fname \in Name
                                /\ FileOf(fd) = FileIn(disk, pf_table, fd)
                                /\ FileOf(fd) \in Inode
<1>1. OpenFds = OpenIn(pf_table) /\ \A fd : FileOf(fd) = FileIn(disk, pf_table, fd)
  BY DEF OpenFds, OpenIn, FileOf, FileIn
<1>2. World(pool, disk, pf_table)
  BY <1>1, TypeParts DEF World, PInv, EntriesNamed, FilesApart
<1> QED BY <1>1, <1>2, TypeParts DEF PInv, EntriesNamed, OpenIn

\* World in the next state.
LEMMA NextWorld ==
  ASSUME TInv'
  PROVE  /\ World(pool', disk', pf_table') /\ PoolOK(pool')
<1>1. OpenFds' = OpenIn(pf_table') /\ \A fd : FileOf(fd)' = FileIn(disk', pf_table', fd)
  BY DEF OpenFds, OpenIn, FileOf, FileIn
<1>2. PoolOK(pool') /\ disk' \in PFDisks /\ pf_table' \in [Fd -> PFftab_ele] /\ PInv'
  BY DEF TInv, TypeOK, PFDisks, DisksOver
<1> QED BY <1>1, <1>2 DEF World, PInv, EntriesNamed, FilesApart

-----------------------------------------------------------------------------
(* The page calls of a caller. *)

\* A page that is got: found in the pool, or read into a frame.
LEMMA GotSound ==
  ASSUME KInv, PoolOK(pool'), NEW fd \in OpenFds, NEW n \in DataPage,
         n < pf_table[fd].numpages, Got(Bq(fd, n)), pins[<<fd, n>>] < MaxPins, Pins(fd, n)
  PROVE  /\ Sound(pool', disk', pf_table, pins', use) /\ pins' \in Pinned
         /\ SameRead(pool, disk, pf_table, pool', disk')
         /\ DataKept(disk, disk', pf_table)
<1> PICK bq : bq = Bq(fd, n)
  OBVIOUS
<1> PICK k : k = n + 1
  OBVIOUS
<1> PICK key : key = <<fd, n>>
  OBVIOUS
<1>1. /\ Sound(pool, disk, pf_table, pins, use) /\ TInv
      /\ PoolOK(pool) /\ World(pool, disk, pf_table) /\ disk \in PFDisks
      /\ pins \in Pinned /\ use \in Uses
  BY TypeParts, OpenWorld DEF KInv
<1>2. /\ fd \in Fd /\ fd \in OpenIn(pf_table) /\ IsOpen(fd)
      /\ n \in Nat /\ n \in -1..(MaxPages - 1) /\ key \in Fd \X DataPage
      /\ MaxPins \in Nat /\ MaxPins <= SHORT_MAX
  BY <1>1, OpenWorld, PFAssumption, CallerAssumption, PoolAssumption DEF DataPage
<1>3. /\ bq \in BFreq /\ bq.fd = fd /\ bq.pagenum = k
      /\ bq.unixfd = pf_table[fd].unixfd
  BY <1>1, <1>2, BqIs DEF Bq, IsOpen
<1>4. k \in 1..pf_table[fd].numpages /\ k \in PageNum /\ k - 1 = n
  <2> PICK m : m = pf_table[fd].numpages
    OBVIOUS
  <2>1. m \in 0..MaxPages /\ n < m
    BY <1>2, TypeParts DEF KInv, PFftab_ele
  <2> QED BY <1>2, <1>3, <2>1 DEF BFreq
<1>5. /\ pins' \in Pinned /\ pins'[key] = pins[key] + 1
      /\ Only(key, pins, use, pins', use)
      /\ pins[key] \in 0..(MaxPins - 1)
  BY <1>1, <1>2 DEF Pinned, Pins, Only
<1>6. use[key] = "touched" => pins[key] # 0
  BY <1>1, <1>2 DEF Sound, Marked
<1>7. CASE InBuf(pool, fd, k) /\ pool' = GetHit(pool, bq) /\ disk' = disk
  <2> PICK f : f = FrameOf(pool, fd, k)
    OBVIOUS
  <2>1. Has(pool, f, fd, k)
    BY <1>1, <1>7, FoundHas
  <2>2. Holds(pool, f, bq) /\ On(pool, f) /\ f \in Frame
    BY <1>3, <2>1 DEF Has, Holds
  <2> PICK g : g = pool.page[f]
    OBVIOUS
  <2>3. g \in BFpage /\ g.fd = fd /\ g.page_num = k /\ g.fpage \in Data
    BY <1>1, <2>1, <2>2, OwnedPage DEF Has
  <2>4. g.count = pins[key]
    BY <1>1, <1>4, <2>2, <2>3 DEF Sound, Counted, Key
  <2>0. PICK page : page = [g EXCEPT !.count = ShortInc(@)]
    OBVIOUS
  <2>5. Changed(pool, pool', f, page)
    BY <1>1, <1>3, <1>7, <2>0, <2>2, HitDoes
  <2>6. /\ page.fd = fd /\ page.page_num = k /\ page.unix_fd = g.unix_fd
        /\ page.fpage = g.fpage /\ page.dirty = g.dirty /\ page.count = ShortInc(g.count)
    BY <2>0, <2>3 DEF BFpage
  <2>7. page.count = pins'[key] /\ pins'[key] # 0
    BY <1>2, <1>5, <2>4, <2>6, PoolAssumption DEF ShortInc
  <2>8. use[key] = "touched" => page.dirty
    BY <1>1, <1>4, <2>2, <2>3, <2>6 DEF Sound, Marked, Key
  <2>9. /\ Sound(pool', disk, pf_table, pins', use)
        /\ \A a \in OpenIn(pf_table) : \A m \in 1..pf_table[a].numpages :
             At(pool', disk, pf_table, a, m) =
               IF a = fd /\ m = k THEN page.fpage ELSE At(pool, disk, pf_table, a, m)
    <3>1. /\ Only(<<fd, k - 1>>, pins, use, pins', use)
          /\ pins'[<<fd, k - 1>>] = page.count /\ pins'[<<fd, k - 1>>] # 0
          /\ use[<<fd, k - 1>>] = "touched" => page.dirty
      BY <1>4, <1>5, <2>7, <2>8
    <3>2. page.unix_fd = pool.page[f].unix_fd /\ page.fpage \in Data
          /\ page.fpage = pool.page[f].fpage /\ page.dirty = pool.page[f].dirty
      BY <2>3, <2>6
    <3>3. page.fd = fd /\ page.page_num = k
      BY <2>6
    <3>4. ~page.dirty => /\ ~pool.page[f].dirty
                         /\ use[<<fd, k - 1>>] # "stored" =>
                              /\ use[<<fd, k - 1>>] # "stored"
                              /\ page.fpage = pool.page[f].fpage
      BY <3>2
    <3>5. /\ Sound(pool, disk, pf_table, pins, use) /\ Has(pool, f, fd, k)
          /\ Changed(pool, pool', f, page)
      BY <1>1, <2>1, <2>5
    <3>6. page.unix_fd = pool.page[f].unix_fd /\ page.fpage \in Data
      BY <3>2
    <3> QED BY <3>1, <3>3, <3>4, <3>5, <3>6, ChangedSound
  <2>10. At(pool, disk, pf_table, fd, k) = page.fpage
    BY <1>1, <2>1, <2>6, AtHas
  <2> QED BY <1>5, <1>7, <2>9, <2>10 DEF SameRead, DataKept
<1>8. CASE /\ ~InBuf(pool, fd, k) /\ HasRoom(pool, disk)
           /\ Readable(pool, disk, bq) # Absent
           /\ pool' = GetMiss(pool, disk, bq) /\ disk' = RoomDisk(pool, disk)
  <2> PICK q : q = MakeRoom(pool)
    OBVIOUS
  <2> PICK c : c = Readable(pool, disk, bq)
    OBVIOUS
  <2> PICK f : f = Head(q.free)
    OBVIOUS
  <2> PICK page : page = NewPage(bq, c, 1)
    OBVIOUS
  <2>1. c \in Data
    BY <1>1, <1>3, <1>8, ReadTyped
  <2>2. Linked(q, pool', f, page)
    BY <1>1, <1>3, <1>8, <2>1, MissDoes
  <2>3. /\ Sound(q, disk', pf_table, pins, use)
        /\ SameRead(pool, disk, pf_table, q, disk') /\ DataKept(disk, disk', pf_table)
    BY <1>1, <1>8, RoomSound
  <2>4. ~InBuf(q, fd, k)
    <3>1. q.hash \subseteq pool.hash
      BY <1>1, <1>8, MakeRoomOK
    <3> QED BY <1>8, <3>1 DEF InBuf, Hashed
  <2>5. World(q, disk', pf_table)
    BY <2>3 DEF Sound
  <2>6. \A g : ~Has(q, g, fd, k)
    BY <2>4, <2>5, HasFound DEF World
  <2>7. At(q, disk', pf_table, fd, k) = disk'.data[<<FileIn(disk', pf_table, fd), k>>]
    BY <1>2, <2>5, <2>6, AtFile
  <2>8. At(q, disk', pf_table, fd, k) = c
    BY <1>3, <1>8, <2>4 DEF At, Readable
  <2>9. /\ page.fd = fd /\ page.page_num = k /\ page.unix_fd = pf_table[fd].unixfd
        /\ page.fpage = c /\ ~page.dirty /\ page.count = 1
    BY <1>3 DEF NewPage
  <2>10. pins[key] = 0
    <3>1. \A g : ~Has(pool, g, fd, k)
      BY <1>1, <1>8, HasFound
    <3> QED BY <1>1, <1>2, <1>5, <3>1 DEF Sound, Counted
  <2>11. use[key] = "idle" /\ pins'[key] = 1
    BY <1>1, <1>2, <1>5, <2>10 DEF Sound, Marked
  <2>12. World(pool', disk', pf_table)
    BY <2>5 DEF World
  <2>13. /\ Sound(pool', disk', pf_table, pins', use)
         /\ \A a \in OpenIn(pf_table) : \A m \in 1..pf_table[a].numpages :
              At(pool', disk', pf_table, a, m) =
                IF a = fd /\ m = k THEN page.fpage ELSE At(q, disk', pf_table, a, m)
    <3>1. /\ Only(<<fd, k - 1>>, pins, use, pins', use)
          /\ pins'[<<fd, k - 1>>] = page.count /\ page.count # 0
          /\ use[<<fd, k - 1>>] # "touched"
      BY <1>4, <1>5, <2>9, <2>11
    <3>2. page.fpage = disk'.data[<<FileIn(disk', pf_table, fd), k>>] /\ page.fpage \in Data
      BY <2>1, <2>7, <2>8, <2>9
    <3>3. page.fd = fd /\ page.page_num = k /\ page.unix_fd = pf_table[fd].unixfd
      BY <2>9
    <3>4. \A m : m \in 1..pf_table[fd].numpages
                   <=> m \in 1..pf_table[fd].numpages \/ m = k
      BY <1>4
    <3>5. /\ Sound(q, disk', pf_table, pins, use) /\ World(pool', disk', pf_table)
          /\ ~InBuf(q, fd, k) /\ fd \in OpenIn(pf_table) /\ Linked(q, pool', f, page)
      BY <1>2, <2>2, <2>3, <2>4, <2>12
    <3> QED BY <3>1, <3>2, <3>3, <3>4, <3>5, LinkedSound
  <2>14. SameRead(pool, disk, pf_table, pool', disk')
    BY <2>3, <2>8, <2>9, <2>13 DEF SameRead
  <2> QED BY <1>5, <2>3, <2>13, <2>14
<1> QED BY <1>3, <1>7, <1>8 DEF Got

\* A page that cannot be had may still have cost another one its frame.
LEMMA NotGotSound ==
  ASSUME KInv, PoolOK(pool'), NEW bq \in BFreq, NotGot(bq)
  PROVE  /\ Sound(pool', disk', pf_table, pins, use)
         /\ SameRead(pool, disk, pf_table, pool', disk')
         /\ DataKept(disk, disk', pf_table)
<1>1. Sound(pool, disk, pf_table, pins, use) /\ PoolOK(pool)
  BY TypeParts DEF KInv
<1>2. CASE HasRoom(pool, disk) /\ pool' = GetUnread(pool, bq) /\ disk' = RoomDisk(pool, disk)
  <2> PICK q : q = MakeRoom(pool)
    OBVIOUS
  <2>1. /\ Sound(q, disk', pf_table, pins, use)
        /\ SameRead(pool, disk, pf_table, q, disk') /\ DataKept(disk, disk', pf_table)
    BY <1>1, <1>2, RoomSound
  <2>2. SameLinked(q, pool')
    BY <1>1, <1>2, UnreadDoes
  <2>3. Sound(pool', disk', pf_table, pins, use)
        /\ SameRead(q, disk', pf_table, pool', disk')
    BY <2>1, <2>2, SameLinkedSound
  <2> QED BY <2>1, <2>3 DEF SameRead
<1>3. CASE pool' = pool /\ disk' = disk
  BY <1>1, <1>3 DEF SameRead, DataKept
<1> QED BY <1>2, <1>3 DEF NotGot

\* What a caller writes down of the pins it gives back and of the pages it uses.
Returned(fd, n) == pins' = [pins EXCEPT ![<<fd, n>>] = @ - 1]
Used(fd, n, v) == use' = [use EXCEPT ![<<fd, n>>] = v]

\* A new page, after the last one of its file.
LEMMA AllocSound ==
  ASSUME KInv, TInv', NEW fd \in OpenFds, PF_AllocPage(fd),
         NEW n, n = pf_table[fd].numpages, Pins(fd, n), MayPin(fd, n),
         Used(fd, n, "touched")
  PROVE  /\ Sound(pool', disk', pf_table', pins', use')
         /\ pins' \in Pinned /\ use' \in Uses
         /\ \A a \in OpenIn(pf_table') : \A m \in 1..pf_table'[a].numpages :
              At(pool', disk', pf_table', a, m) =
                IF a = fd /\ m = n + 1 THEN Zero ELSE At(pool, disk, pf_table, a, m)
         /\ DataKept(disk, disk', pf_table)
<1> PICK bq : bq = Bq(fd, n)
  OBVIOUS
<1> PICK k : k = n + 1
  OBVIOUS
<1> PICK key : key = <<fd, n>>
  OBVIOUS
<1>1. /\ Sound(pool, disk, pf_table, pins, use) /\ TInv
      /\ PoolOK(pool) /\ World(pool, disk, pf_table) /\ disk \in PFDisks
      /\ pins \in Pinned /\ use \in Uses /\ pf_table \in [Fd -> PFftab_ele]
  BY TypeParts, OpenWorld DEF KInv
<1>2. /\ n < MaxPages /\ ~InBuf(pool, bq.fd, bq.pagenum) /\ HasRoom(pool, disk)
      /\ pool' = Touch(Alloc(pool, bq), bq.fd, bq.pagenum)
      /\ disk' = RoomDisk(pool, disk)
      /\ pf_table' = [pf_table EXCEPT ![fd] =
                        [[@ EXCEPT !.numpages = k] EXCEPT !.hdrchanged = TRUE]]
  BY DEF PF_AllocPage
<1>3. /\ fd \in Fd /\ fd \in OpenIn(pf_table) /\ IsOpen(fd) /\ n \in 0..MaxPages
  BY <1>1, OpenWorld DEF PFftab_ele
<1>4. /\ n \in Nat /\ n \in DataPage /\ n \in -1..(MaxPages - 1) /\ key \in Fd \X DataPage
      /\ k \in PageNum /\ k - 1 = n /\ k \in Nat \ {0}
  <2>1. n \in Nat /\ MaxPages \in Nat /\ n < MaxPages
    BY <1>2, <1>3, PFAssumption
  <2>2. n \in -1..(MaxPages - 1) /\ k \in 0..MaxPages /\ k - 1 = n /\ k \in Nat \ {0}
    BY <2>1
  <2>3. n \in DataPage /\ k \in PageNum
    BY <2>1, <2>2, PFAssumption DEF DataPage
  <2> QED BY <1>3, <2>1, <2>2, <2>3
<1>5. /\ bq \in BFreq /\ bq.fd = fd /\ bq.pagenum = k
      /\ bq.unixfd = pf_table[fd].unixfd
  BY <1>1, <1>3, <1>4, BqIs DEF Bq, IsOpen
<1>6. /\ DOMAIN pf_table' = Fd
      /\ \A a \in Fd : /\ pf_table'[a].unixfd = pf_table[a].unixfd
                       /\ pf_table'[a].valid = pf_table[a].valid
                       /\ a # fd => pf_table'[a] = pf_table[a]
      /\ pf_table'[fd].numpages = k
  BY <1>1, <1>2, <1>3 DEF PFftab_ele
<1>7. OpenIn(pf_table') = OpenIn(pf_table)
  BY <1>6 DEF OpenIn
<1> PICK q : q = MakeRoom(pool)
  OBVIOUS
<1> PICK f : f = Head(q.free)
  OBVIOUS
<1> PICK r : r = Alloc(pool, bq)
  OBVIOUS
<1>8. Linked(q, r, f, NewPage(bq, Zero, 1)) /\ PoolOK(r) /\ Holds(r, f, bq)
  BY <1>1, <1>2, <1>5, AllocDoes, AllocHolds
<1>9. r.page[f] = NewPage(bq, Zero, 1)
  BY <1>8 DEF Linked
<1>10. PICK page : page = [r.page[f] EXCEPT !.dirty = TRUE]
  OBVIOUS
<1>11. /\ page.fd = fd /\ page.page_num = k /\ page.unix_fd = pf_table[fd].unixfd
       /\ page.fpage = Zero /\ page.dirty /\ page.count = 1
  BY <1>5, <1>9, <1>10 DEF NewPage
<1>12. Linked(q, pool', f, page)
  <2>1. Changed(r, pool', f, page)
    BY <1>2, <1>5, <1>8, <1>10, TouchDoes
  <2> QED BY <1>8, <2>1 DEF Linked, Changed
<1>13. /\ Sound(q, disk', pf_table, pins, use)
       /\ SameRead(pool, disk, pf_table, q, disk') /\ DataKept(disk, disk', pf_table)
  BY <1>1, <1>2, RoomSound
<1>14. ~InBuf(q, fd, k)
  <2>1. q.hash \subseteq pool.hash
    BY <1>1, <1>2, MakeRoomOK
  <2> QED BY <1>2, <1>5, <2>1 DEF InBuf, Hashed
<1>15. pins[key] = 0
  <2>1. \A g : ~Has(pool, g, fd, k)
    BY <1>1, <1>2, <1>5, HasFound
  <2> QED BY <1>1, <1>3, <1>4, <2>1, CallerAssumption DEF Sound, Counted, Pinned
<1>16. /\ pins' \in Pinned /\ use' \in Uses /\ pins'[key] = 1 /\ use'[key] = "touched"
       /\ Only(key, pins, use, pins', use')
  BY <1>1, <1>4, <1>15, CallerAssumption DEF Pinned, Uses, Pins, Used, Only
<1>17. World(pool', disk', pf_table') /\ PoolOK(pool')
  BY NextWorld
<1>18. \A m : m \in 1..pf_table'[fd].numpages <=> m \in 1..pf_table[fd].numpages \/ m = k
  <2>1. \A m : m \in 1..k <=> m \in 1..n \/ m = k
    BY <1>4
  <2> QED BY <1>6, <2>1
<1>19. /\ Sound(pool', disk', pf_table', pins', use')
       /\ \A a \in OpenIn(pf_table') : \A m \in 1..pf_table'[a].numpages :
            At(pool', disk', pf_table', a, m) =
              IF a = fd /\ m = k THEN page.fpage ELSE At(q, disk', pf_table, a, m)
  <2>1. /\ Only(<<fd, k - 1>>, pins, use, pins', use')
        /\ pins'[<<fd, k - 1>>] = page.count /\ page.count # 0
    BY <1>4, <1>11, <1>16
  <2>2. /\ page.fpage \in Data
        /\ use'[<<fd, k - 1>>] = "touched" => page.dirty
        /\ ~page.dirty => page.fpage = disk'.data[<<FileIn(disk', pf_table, fd), k>>]
    BY <1>11, PoolAssumption
  <2>3. page.fd = fd /\ page.page_num = k /\ page.unix_fd = pf_table[fd].unixfd
    BY <1>11
  <2>4. /\ \A a \in Fd : pf_table'[a].unixfd = pf_table[a].unixfd
        /\ \A a \in Fd : a # fd => pf_table'[a].numpages = pf_table[a].numpages
    BY <1>6
  <2>5. fd \in OpenIn(pf_table) /\ Sound(q, disk', pf_table, pins, use)
    BY <1>3, <1>13
  <2> QED BY <1>7, <1>12, <1>14, <1>17, <1>18, <2>1, <2>2, <2>3, <2>4, <2>5, LinkedSound
<1>20. ASSUME NEW a \in OpenIn(pf_table'), NEW m \in 1..pf_table'[a].numpages
       PROVE  At(pool', disk', pf_table', a, m) =
                IF a = fd /\ m = n + 1 THEN Zero ELSE At(pool, disk, pf_table, a, m)
  <2>1. CASE a = fd /\ m = k
    BY <1>11, <1>19, <2>1
  <2>2. CASE ~(a = fd /\ m = k)
    <3>1. a \in OpenIn(pf_table) /\ m \in 1..pf_table[a].numpages
      BY <1>6, <1>7, <1>18, <2>2 DEF OpenIn
    <3> QED BY <1>13, <1>19, <2>2, <3>1 DEF SameRead
  <2> QED BY <2>1, <2>2
<1> QED BY <1>13, <1>16, <1>19, <1>20

\* What the calls on a page that a caller has pinned work on.
LEMMA PinnedPage ==
  ASSUME KInv, NEW fd \in Fd, NEW n \in DataPage, pins[<<fd, n>>] > 0,
         NEW k, k = n + 1, NEW bq, bq = Bq(fd, n), NEW f, f = FrameOf(pool, fd, k)
  PROVE  /\ fd \in OpenFds
         /\ Has(pool, f, fd, k) /\ Holds(pool, f, bq) /\ f \in Frame
         /\ bq \in BFreq /\ bq.fd = fd /\ bq.pagenum = k
         /\ pool.page[f] \in BFpage /\ pool.page[f].count = pins[<<fd, n>>]
         /\ use[<<fd, n>>] = "touched" => pool.page[f].dirty
         /\ k \in 1..pf_table[fd].numpages /\ k - 1 = n
<1> PICK g : g = pool.page[f]
  OBVIOUS
<1>0. Sound(pool, disk, pf_table, pins, use) /\ TInv /\ PoolOK(pool)
  BY TypeParts DEF KInv
<1>1. fd \in OpenFds /\ IsOpen(fd)
  <2>1. PICK h : Has(pool, h, fd, k)
    BY <1>0 DEF Sound, Counted
  <2>2. fd \in OpenIn(pf_table)
    BY <1>0, <2>1 DEF Sound, Owned, Has
  <2> QED BY <1>0, <2>2, OpenWorld
<1>2. n \in -1..(MaxPages - 1) /\ k - 1 = n /\ n \in Nat
  BY PFAssumption DEF DataPage
<1>3. bq \in BFreq /\ bq.fd = fd /\ bq.pagenum = k
  BY <1>0, <1>1, <1>2, BqIs DEF Bq, IsOpen
<1>4. Has(pool, f, fd, k)
  BY <1>0, HasFound DEF Sound, Counted
<1>5. Holds(pool, f, bq) /\ f \in Frame /\ On(pool, f)
      /\ g.fd = fd /\ g.page_num = k
  BY <1>3, <1>4 DEF Has, Holds
<1>6. g \in BFpage /\ g.page_num \in 1..pf_table[g.fd].numpages
  BY <1>0, <1>5, OwnedPage
<1>7. Key(g) = <<fd, n>>
  BY <1>2, <1>5 DEF Key
<1>8. g.count = pins[<<fd, n>>] /\ (use[<<fd, n>>] = "touched" => g.dirty)
  BY <1>0, <1>5, <1>7 DEF Sound, Counted, Marked
<1> QED BY <1>1, <1>2, <1>3, <1>4, <1>5, <1>6, <1>8

\* A pinned page is marked, stored into or unpinned.
LEMMA DirtySound ==
  ASSUME KInv, TInv', NEW fd \in Fd, NEW n \in DataPage, pins[<<fd, n>>] > 0,
         PF_DirtyPage(fd, n), Used(fd, n, "touched"), UNCHANGED pins
  PROVE  /\ Sound(pool', disk', pf_table', pins', use') /\ use' \in Uses
         /\ SameRead(pool, disk, pf_table, pool', disk')
<1> PICK k : k = n + 1
  OBVIOUS
<1> PICK bq : bq = Bq(fd, n)
  OBVIOUS
<1> PICK f : f = FrameOf(pool, fd, k)
  OBVIOUS
<1>1. /\ Has(pool, f, fd, k) /\ Holds(pool, f, bq) /\ bq \in BFreq
      /\ bq.fd = fd /\ bq.pagenum = k
      /\ pool.page[f] \in BFpage /\ pool.page[f].count = pins[<<fd, n>>]
      /\ <<fd, k - 1>> = <<fd, n>> /\ <<fd, n>> \in Fd \X DataPage
  BY PinnedPage
<1>2. /\ pool' = Touch(pool, fd, k) /\ UNCHANGED <<disk, pf_table>>
      /\ Sound(pool, disk, pf_table, pins, use) /\ use \in Uses
      /\ PoolOK(pool) /\ PoolOK(pool')
  BY TypeParts, NextWorld DEF KInv, PF_DirtyPage, unix
<1>3. PICK page : page = [pool.page[f] EXCEPT !.dirty = TRUE]
  OBVIOUS
<1>4. Changed(pool, pool', f, page)
  BY <1>1, <1>2, <1>3, TouchDoes
<1>5. /\ page.fd = fd /\ page.page_num = k /\ page.unix_fd = pool.page[f].unix_fd
      /\ page.fpage \in Data /\ page.fpage = pool.page[f].fpage
      /\ page.dirty /\ page.count = pins[<<fd, k - 1>>]
  BY <1>1, <1>3 DEF BFpage, Has
<1>6. /\ use' \in Uses /\ use'[<<fd, k - 1>>] = "touched" /\ pins[<<fd, k - 1>>] # 0
      /\ Only(<<fd, k - 1>>, pins, use, pins', use') /\ pins'[<<fd, k - 1>>] = pins[<<fd, k - 1>>]
  BY <1>1, <1>2 DEF Uses, Used, Only
<1>7. /\ Sound(pool', disk, pf_table, pins', use')
      /\ \A a \in OpenIn(pf_table) : \A m \in 1..pf_table[a].numpages :
           At(pool', disk, pf_table, a, m) =
             IF a = fd /\ m = k THEN page.fpage ELSE At(pool, disk, pf_table, a, m)
  <2>1. /\ Sound(pool, disk, pf_table, pins, use) /\ PoolOK(pool') /\ Has(pool, f, fd, k)
        /\ page.dirty
    BY <1>1, <1>2, <1>5
  <2>2. /\ use'[<<fd, k - 1>>] = "touched" => page.dirty
        /\ pins'[<<fd, k - 1>>] = 0 => use'[<<fd, k - 1>>] = "idle"
        /\ pins'[<<fd, k - 1>>] = page.count
        /\ Only(<<fd, k - 1>>, pins, use, pins', use')
    BY <1>5, <1>6
  <2>3. /\ page.fd = fd /\ page.page_num = k /\ page.unix_fd = pool.page[f].unix_fd
        /\ page.fpage \in Data
    BY <1>5
  <2> QED BY <1>4, <2>1, <2>2, <2>3, ChangedSound
<1>8. At(pool, disk, pf_table, fd, k) = page.fpage
  BY <1>1, <1>2, <1>5, AtHas
<1> QED BY <1>2, <1>6, <1>7, <1>8 DEF SameRead

LEMMA StoreSound ==
  ASSUME KInv, TInv', NEW fd \in Fd, NEW n \in DataPage, pins[<<fd, n>>] > 0,
         NEW v \in Data, StorePage(fd, n, v),
         Used(fd, n, IF use[<<fd, n>>] = "touched" THEN "touched" ELSE "stored"),
         UNCHANGED pins
  PROVE  /\ Sound(pool', disk', pf_table', pins', use') /\ use' \in Uses
         /\ \A a \in OpenIn(pf_table) : \A m \in 1..pf_table[a].numpages :
              At(pool', disk', pf_table', a, m) =
                IF a = fd /\ m = n + 1 THEN v ELSE At(pool, disk, pf_table, a, m)
<1> PICK k : k = n + 1
  OBVIOUS
<1> PICK f : f = FrameOf(pool, fd, k)
  OBVIOUS
<1>1. /\ Has(pool, f, fd, k) /\ f \in Frame
      /\ pool.page[f] \in BFpage /\ pool.page[f].count = pins[<<fd, n>>]
      /\ use[<<fd, n>>] = "touched" => pool.page[f].dirty
      /\ <<fd, k - 1>> = <<fd, n>> /\ <<fd, n>> \in Fd \X DataPage
  BY PinnedPage DEF Has
<1>2. /\ pool' = [pool EXCEPT !.page[f].fpage = v] /\ UNCHANGED <<disk, pf_table>>
      /\ Sound(pool, disk, pf_table, pins, use) /\ use \in Uses
      /\ PoolOK(pool) /\ PoolOK(pool')
  BY TypeParts, NextWorld DEF KInv, StorePage, unix
<1>3. PICK page : page = [pool.page[f] EXCEPT !.fpage = v]
  OBVIOUS
<1>4. Changed(pool, pool', f, page)
  BY <1>1, <1>2, <1>3, StoreDoes
<1>5. /\ page.fd = fd /\ page.page_num = k /\ page.unix_fd = pool.page[f].unix_fd
      /\ page.fpage = v /\ page.dirty = pool.page[f].dirty
      /\ page.count = pins[<<fd, k - 1>>]
  BY <1>1, <1>3 DEF BFpage, Has
<1>6. /\ use' \in Uses /\ pins[<<fd, k - 1>>] # 0
      /\ use'[<<fd, k - 1>>] = IF use[<<fd, k - 1>>] = "touched" THEN "touched" ELSE "stored"
      /\ Only(<<fd, k - 1>>, pins, use, pins', use') /\ pins'[<<fd, k - 1>>] = pins[<<fd, k - 1>>]
  BY <1>1, <1>2 DEF Uses, Used, Only
<1>7. /\ Sound(pool', disk, pf_table, pins', use')
      /\ \A a \in OpenIn(pf_table) : \A m \in 1..pf_table[a].numpages :
           At(pool', disk, pf_table, a, m) =
             IF a = fd /\ m = k THEN page.fpage ELSE At(pool, disk, pf_table, a, m)
  <2>1. /\ Sound(pool, disk, pf_table, pins, use) /\ PoolOK(pool') /\ Has(pool, f, fd, k)
    BY <1>1, <1>2
  <2>2. /\ use'[<<fd, k - 1>>] = "touched" => page.dirty
        /\ ~page.dirty => ~pool.page[f].dirty /\ use'[<<fd, k - 1>>] = "stored"
    BY <1>1, <1>5, <1>6
  <2>3. /\ pins'[<<fd, k - 1>>] = 0 => use'[<<fd, k - 1>>] = "idle"
        /\ pins'[<<fd, k - 1>>] = page.count
        /\ Only(<<fd, k - 1>>, pins, use, pins', use')
    BY <1>5, <1>6
  <2>4. /\ page.fd = fd /\ page.page_num = k /\ page.unix_fd = pool.page[f].unix_fd
        /\ page.fpage \in Data
    BY <1>5
  <2> QED BY <1>4, <2>1, <2>2, <2>3, <2>4, ChangedSound
<1> QED BY <1>2, <1>5, <1>6, <1>7

LEMMA UnpinSound ==
  ASSUME KInv, TInv', NEW fd \in Fd, NEW n \in DataPage, pins[<<fd, n>>] > 0,
         NEW dirty \in BOOLEAN, PF_UnpinPage(fd, n, dirty),
         pins[<<fd, n>>] = 1 /\ use[<<fd, n>>] = "stored" => dirty,
         Returned(fd, n),
         Used(fd, n, IF pins[<<fd, n>>] = 1 THEN "idle"
                     ELSE IF dirty THEN "touched" ELSE use[<<fd, n>>])
  PROVE  /\ Sound(pool', disk', pf_table', pins', use') /\ use' \in Uses /\ pins' \in Pinned
         /\ SameRead(pool, disk, pf_table, pool', disk')
<1> PICK k : k = n + 1
  OBVIOUS
<1> PICK bq : bq = Bq(fd, n)
  OBVIOUS
<1> PICK f : f = FrameOf(pool, fd, k)
  OBVIOUS
<1> PICK c : c = pins[<<fd, n>>]
  OBVIOUS
<1>1. /\ Has(pool, f, fd, k) /\ Holds(pool, f, bq) /\ bq \in BFreq
      /\ bq.fd = fd /\ bq.pagenum = k
      /\ pool.page[f] \in BFpage /\ pool.page[f].count = c /\ c > 0
      /\ use[<<fd, n>>] = "touched" => pool.page[f].dirty
      /\ <<fd, k - 1>> = <<fd, n>> /\ <<fd, n>> \in Fd \X DataPage
  BY PinnedPage
<1> PICK q : q = IF dirty THEN Touch(pool, fd, k) ELSE pool
  OBVIOUS
<1>2. /\ pool' = Unpin(q, fd, k) /\ UNCHANGED <<disk, pf_table>>
      /\ Sound(pool, disk, pf_table, pins, use) /\ use \in Uses /\ pins \in Pinned
      /\ PoolOK(pool) /\ PoolOK(pool')
  BY TypeParts, NextWorld DEF KInv, PF_UnpinPage, unix
<1>3. c \in 1..MaxPins /\ c - 1 = ShortDec(c) /\ c - 1 \in 0..MaxPins /\ (c - 1 = 0 <=> c = 1)
  <2>1. c \in 0..MaxPins /\ SHORT_MAX \in Nat
    BY <1>1, <1>2, PoolAssumption DEF Pinned
  <2> QED BY <1>1, <2>1, CallerAssumption DEF ShortDec
<1>4. PICK page : page = [pool.page[f] EXCEPT !.count = c - 1,
                                              !.dirty = IF dirty THEN TRUE ELSE @]
  OBVIOUS
<1>5. /\ page.fd = fd /\ page.page_num = k /\ page.unix_fd = pool.page[f].unix_fd
      /\ page.fpage = pool.page[f].fpage /\ page.fpage \in Data /\ page.count = c - 1
      /\ page.dirty <=> pool.page[f].dirty \/ dirty
  BY <1>1, <1>4 DEF BFpage, Has
<1>6. Changed(pool, pool', f, page)
  <2>1. CASE dirty
    <3>1. /\ Changed(pool, q, f, [pool.page[f] EXCEPT !.dirty = TRUE]) /\ PoolOK(q)
      BY <1>1, <1>2, <2>1, TouchDoes, TouchOK, HasFound
    <3>2. q.page[f] = [pool.page[f] EXCEPT !.dirty = TRUE] /\ q.page[f].count = c
      BY <1>1, <3>1 DEF Changed, Has, BFpage
    <3>3. Holds(q, f, bq)
      BY <1>1, <3>1, <3>2 DEF Changed, Holds, BFpage
    <3>4. Changed(q, pool', f, [q.page[f] EXCEPT !.count = ShortDec(@)])
      BY <1>1, <1>2, <3>1, <3>2, <3>3, UnpinDoes
    <3>5. [q.page[f] EXCEPT !.count = ShortDec(@)] = page
      BY <1>1, <1>3, <1>4, <2>1, <3>2 DEF BFpage
    <3> QED BY <3>1, <3>4, <3>5 DEF Changed
  <2>2. CASE ~dirty
    <3>1. Changed(pool, pool', f, [pool.page[f] EXCEPT !.count = ShortDec(@)])
      BY <1>1, <1>2, <2>2, UnpinDoes
    <3>2. [pool.page[f] EXCEPT !.count = ShortDec(@)] = page
      BY <1>1, <1>3, <1>4, <2>2 DEF BFpage
    <3> QED BY <3>1, <3>2
  <2> QED BY <2>1, <2>2
<1>7. /\ use' \in Uses /\ pins' \in Pinned /\ pins'[<<fd, k - 1>>] = c - 1
      /\ use'[<<fd, k - 1>>] = IF c = 1 THEN "idle"
                               ELSE IF dirty THEN "touched" ELSE use[<<fd, k - 1>>]
      /\ Only(<<fd, k - 1>>, pins, use, pins', use')
  BY <1>1, <1>2, <1>3 DEF Uses, Pinned, Used, Returned, Only
<1>8. /\ Sound(pool', disk, pf_table, pins', use')
      /\ \A a \in OpenIn(pf_table) : \A m \in 1..pf_table[a].numpages :
           At(pool', disk, pf_table, a, m) =
             IF a = fd /\ m = k THEN page.fpage ELSE At(pool, disk, pf_table, a, m)
  <2>1. /\ Sound(pool, disk, pf_table, pins, use) /\ PoolOK(pool') /\ Has(pool, f, fd, k)
    BY <1>1, <1>2
  <2>2. /\ use'[<<fd, k - 1>>] = "touched" => page.dirty
        /\ ~page.dirty => /\ ~pool.page[f].dirty
                          /\ use'[<<fd, k - 1>>] # "stored" =>
                               /\ use[<<fd, k - 1>>] # "stored"
                               /\ page.fpage = pool.page[f].fpage
    BY <1>1, <1>5, <1>7
  <2>3. /\ pins'[<<fd, k - 1>>] = 0 => use'[<<fd, k - 1>>] = "idle"
        /\ pins'[<<fd, k - 1>>] = page.count
        /\ Only(<<fd, k - 1>>, pins, use, pins', use')
    BY <1>3, <1>5, <1>7
  <2>4. /\ page.fd = fd /\ page.page_num = k /\ page.unix_fd = pool.page[f].unix_fd
        /\ page.fpage \in Data
    BY <1>5
  <2> QED BY <1>6, <2>1, <2>2, <2>3, <2>4, ChangedSound
<1>9. At(pool, disk, pf_table, fd, k) = page.fpage
  BY <1>1, <1>2, <1>5, AtHas
<1> QED BY <1>2, <1>7, <1>8, <1>9 DEF SameRead

-----------------------------------------------------------------------------
(* The steps. *)

\* The same entries are open, with the same files, at least as many pages, and
\* at least as much to write into their headers.
EntriesGrow ==
  /\ OpenIn(pf_table') = OpenIn(pf_table)
  /\ \A a \in OpenIn(pf_table) :
       /\ pf_table'[a].unixfd = pf_table[a].unixfd /\ pf_table'[a].fname = pf_table[a].fname
       /\ pf_table'[a].numpages >= pf_table[a].numpages
       /\ ~pf_table'[a].hdrchanged =>
            ~pf_table[a].hdrchanged /\ pf_table'[a].numpages = pf_table[a].numpages

\* Nothing changes of what the files contain, and of which are open.
SameFiles ==
  /\ dir' = dir /\ OpenIn(pf_table') = OpenIn(pf_table)
  /\ \A a \in OpenIn(pf_table) :
       /\ FileIn(disk', pf_table', a) = FileIn(disk, pf_table, a)
       /\ pf_table'[a].fname = pf_table[a].fname
       /\ pf_table'[a].numpages = pf_table[a].numpages
       /\ \A k \in 1..pf_table[a].numpages :
            At(pool', disk', pf_table', a, k) = At(pool, disk, pf_table, a, k)
  /\ \A i \in Inode : (\A a \in OpenIn(pf_table) : FileIn(disk, pf_table, a) # i) =>
       /\ header'[i] = header[i]
       /\ \A k \in PageNum : disk'.data[<<i, k>>] = disk.data[<<i, k>>]

LEMMA HeadersStay ==
  ASSUME KInv, TInv', EntriesGrow, DataKept(disk, disk', pf_table),
         header' = header, dir' = dir
  PROVE  HeadersTrue(disk', header') /\ HeadersFit(disk', pf_table', header', dir')
<1>1. /\ HeadersTrue(disk, header) /\ HeadersFit(disk, pf_table, header, dir)
      /\ header \in [Inode -> -1..MaxPages] /\ pf_table \in [Fd -> PFftab_ele]
      /\ pf_table' \in [Fd -> PFftab_ele]
  BY TypeParts, NextWorld DEF KInv, World
<1>2. HeadersTrue(disk', header)
  <2> SUFFICES ASSUME NEW i \in Inode, NEW k \in 1..header[i]
               PROVE  disk'.data[<<i, k>>] # Absent
    BY DEF HeadersTrue
  <2>1. k \in PageNum
    <3> PICK h : h = header[i]
      OBVIOUS
    <3>1. h \in -1..MaxPages /\ k \in 1..h
      BY <1>1
    <3> QED BY <3>1, PFAssumption
  <2> QED BY <1>1, <2>1 DEF HeadersTrue, DataKept
<1>3. HeadersFit(disk', pf_table', header, dir)
  <2> SUFFICES ASSUME NEW a \in OpenIn(pf_table')
               PROVE  /\ header[FileIn(disk', pf_table', a)] \in 0..pf_table'[a].numpages
                      /\ ~pf_table'[a].hdrchanged =>
                           header[FileIn(disk', pf_table', a)] = pf_table'[a].numpages
                      /\ dir[pf_table'[a].fname] = FileIn(disk', pf_table', a)
    BY DEF HeadersFit
  <2>1. a \in OpenIn(pf_table) /\ a \in Fd
    BY DEF EntriesGrow, OpenIn
  <2>2. FileIn(disk', pf_table', a) = FileIn(disk, pf_table, a)
    BY <2>1 DEF EntriesGrow, DataKept, FileIn
  <2> PICK m : m = pf_table[a].numpages
    OBVIOUS
  <2> PICK n : n = pf_table'[a].numpages
    OBVIOUS
  <2> PICK h : h = header[FileIn(disk, pf_table, a)]
    OBVIOUS
  <2>3. m \in 0..MaxPages /\ n \in 0..MaxPages /\ m <= n
    BY <1>1, <2>1 DEF PFftab_ele, EntriesGrow
  <2>4. h \in 0..m /\ (~pf_table[a].hdrchanged => h = m)
    BY <1>1, <2>1 DEF HeadersFit
  <2>5. h \in 0..n /\ (~pf_table'[a].hdrchanged => h = n)
    BY <2>1, <2>3, <2>4, PFAssumption DEF EntriesGrow
  <2> QED BY <1>1, <2>1, <2>2, <2>5 DEF HeadersFit, EntriesGrow
<1> QED BY <1>2, <1>3

\* A call that changes nothing but what it returns.
LEMMA RefusedRest ==
  ASSUME KInv, UNCHANGED <<pool, disk, dir, header, pf_table, pins, use>>, closing' = NoFd
  PROVE  KRest /\ SameFiles
<1>1. KRest
  BY DEF KInv, KRest, ClosingUnpinned
<1>2. SameFiles
  BY DEF SameFiles, FileIn
<1> QED BY <1>1, <1>2

LEMMA CursorSame ==
  ASSUME pf_table \in [Fd -> PFftab_ele], NEW fd \in Fd,
         pf_table' = pf_table \/ \E m : Cursor(fd, m)
  PROVE  /\ OpenIn(pf_table') = OpenIn(pf_table)
         /\ \A a \in Fd : /\ pf_table'[a].unixfd = pf_table[a].unixfd
                          /\ pf_table'[a].fname = pf_table[a].fname
                          /\ pf_table'[a].numpages = pf_table[a].numpages
                          /\ pf_table'[a].hdrchanged = pf_table[a].hdrchanged
<1>1. CASE pf_table' = pf_table
  BY <1>1
<1>2. ASSUME NEW m, Cursor(fd, m)
      PROVE  /\ OpenIn(pf_table') = OpenIn(pf_table)
             /\ \A a \in Fd : /\ pf_table'[a].unixfd = pf_table[a].unixfd
                              /\ pf_table'[a].fname = pf_table[a].fname
                              /\ pf_table'[a].numpages = pf_table[a].numpages
                              /\ pf_table'[a].hdrchanged = pf_table[a].hdrchanged
  <2>1. pf_table' = [pf_table EXCEPT ![fd].offset = m]
    BY <1>2 DEF Cursor
  <2>2. \A a \in Fd : /\ pf_table'[a].unixfd = pf_table[a].unixfd
                      /\ pf_table'[a].fname = pf_table[a].fname
                      /\ pf_table'[a].numpages = pf_table[a].numpages
                      /\ pf_table'[a].hdrchanged = pf_table[a].hdrchanged
                      /\ pf_table'[a].valid = pf_table[a].valid
    BY <2>1 DEF PFftab_ele
  <2> QED BY <2>2 DEF OpenIn
<1> QED BY <1>1, <1>2

\* A page is got, or not, for a file whose cursor may move.
LEMMA GetRest ==
  ASSUME KInv, TInv', NEW fd \in OpenFds, NEW n \in DataPage, n < pf_table[fd].numpages,
         \/ Got(Bq(fd, n)) /\ pins[<<fd, n>>] < MaxPins /\ Pins(fd, n)
         \/ NotGot(Bq(fd, n)) /\ UNCHANGED pins,
         UNCHANGED <<header, dir, use>>, closing' = NoFd,
         pf_table' = pf_table \/ \E m : Cursor(fd, m)
  PROVE  KRest /\ SameFiles
<1>1. /\ TInv /\ pf_table \in [Fd -> PFftab_ele] /\ pins \in Pinned /\ use \in Uses
      /\ fd \in Fd /\ n \in -1..(MaxPages - 1)
  BY TypeParts, OpenWorld, PFAssumption DEF KInv, DataPage
<1>2. Bq(fd, n) \in BFreq
  BY <1>1, BqIs
<1>3. World(pool', disk', pf_table') /\ PoolOK(pool')
  BY NextWorld
<1>4. /\ Sound(pool', disk', pf_table, pins', use) /\ pins' \in Pinned
      /\ SameRead(pool, disk, pf_table, pool', disk') /\ DataKept(disk, disk', pf_table)
  BY <1>1, <1>2, <1>3, GotSound, NotGotSound
<1>5. /\ OpenIn(pf_table') = OpenIn(pf_table)
      /\ \A a \in Fd : /\ pf_table'[a].unixfd = pf_table[a].unixfd
                       /\ pf_table'[a].fname = pf_table[a].fname
                       /\ pf_table'[a].numpages = pf_table[a].numpages
                       /\ pf_table'[a].hdrchanged = pf_table[a].hdrchanged
  BY <1>1, CursorSame
<1>6. \A a \in OpenIn(pf_table) : a \in Fd
  BY DEF OpenIn
<1>7. \A a \in OpenIn(pf_table) : SameEntry(disk', pf_table, disk', pf_table', a)
  BY <1>5, <1>6 DEF SameEntry, FileIn
<1>8. /\ Sound(pool', disk', pf_table', pins', use)
      /\ \A a \in OpenIn(pf_table) : \A k \in 1..pf_table[a].numpages :
           At(pool', disk', pf_table', a, k) = At(pool', disk', pf_table, a, k)
  BY <1>3, <1>4, <1>5, <1>7, TableSound
<1>9. SameFiles
  BY <1>4, <1>5, <1>6, <1>8 DEF SameFiles, SameRead, DataKept, FileIn
<1>10. EntriesGrow
  <2>1. \A a \in Fd : pf_table[a].numpages \in Int
    BY <1>1 DEF PFftab_ele
  <2>2. \A a \in Fd : pf_table'[a].numpages >= pf_table[a].numpages
    BY <1>5, <2>1
  <2> QED BY <1>5, <1>6, <2>2 DEF EntriesGrow
<1>11. HeadersTrue(disk', header') /\ HeadersFit(disk', pf_table', header', dir')
  BY <1>4, <1>10, HeadersStay
<1> QED BY <1>1, <1>4, <1>8, <1>9, <1>11 DEF KRest, ClosingUnpinned

LEMMA ScanFirstRest ==
  ASSUME KInv, TInv', NEW fd \in Fd, ScanFirst(fd)
  PROVE  KRest /\ SameFiles
<1> PICK m : m = pf_table[fd].numpages
  OBVIOUS
<1>1. /\ IsOpen(fd) /\ m > 0 /\ UNCHANGED <<dir, header>> /\ closing' = NoFd
      /\ \/ Got(Bq(fd, 0)) /\ Cursor(fd, 1) /\ rc' = PFE_OK
         \/ NotGot(Bq(fd, 0)) /\ Cursor(fd, 0) /\ rc' = PFE_GETNEXT
      /\ KGot(fd, 0)
  BY DEF ScanFirst, PF_GetFirstPage, Returns
<1>2. fd \in OpenFds /\ m \in 0..MaxPages
  BY <1>1, TypeParts DEF IsOpen, OpenFds, KInv, PFftab_ele
<1>3. 0 \in DataPage
  BY <1>1, <1>2, PFAssumption DEF DataPage
<1>4. /\ UNCHANGED use
      /\ \/ Got(Bq(fd, 0)) /\ pins[<<fd, 0>>] < MaxPins /\ Pins(fd, 0)
         \/ NotGot(Bq(fd, 0)) /\ UNCHANGED pins
  BY <1>1, <1>3 DEF KGot, MayPin, Kept, PFE_OK, PFE_GETNEXT
<1>5. 0 < pf_table[fd].numpages
  BY <1>1, <1>2
<1> QED BY <1>1, <1>2, <1>3, <1>4, <1>5, GetRest

LEMMA ScanNextRest ==
  ASSUME KInv, TInv', NEW fd \in Fd, ScanNext(fd)
  PROVE  KRest /\ SameFiles
<1> PICK m : m = pf_table[fd].numpages
  OBVIOUS
<1> PICK n : n = pf_table[fd].offset
  OBVIOUS
<1>1. /\ IsOpen(fd) /\ n < m /\ UNCHANGED <<dir, header>> /\ closing' = NoFd
      /\ \/ Got(Bq(fd, n)) /\ Cursor(fd, n + 1) /\ rc' = PFE_OK
         \/ NotGot(Bq(fd, n)) /\ Cursor(fd, n) /\ rc' = PFE_GETNEXT
      /\ KGot(fd, n)
  BY DEF ScanNext, PF_GetNextPage, Returns
<1>2. fd \in OpenFds /\ m \in 0..MaxPages /\ n \in 0..MaxPages
  BY <1>1, TypeParts DEF IsOpen, OpenFds, KInv, PFftab_ele
<1>3. n \in DataPage
  BY <1>1, <1>2, PFAssumption DEF DataPage
<1>4. /\ UNCHANGED use
      /\ \/ Got(Bq(fd, n)) /\ pins[<<fd, n>>] < MaxPins /\ Pins(fd, n)
         \/ NotGot(Bq(fd, n)) /\ UNCHANGED pins
  BY <1>1, <1>3 DEF KGot, MayPin, Kept, PFE_OK, PFE_GETNEXT
<1>5. n < pf_table[fd].numpages
  BY <1>1
<1> QED BY <1>1, <1>2, <1>3, <1>4, <1>5, GetRest

LEMMA ReadRest ==
  ASSUME KInv, TInv', NEW fd \in Fd, NEW n \in DataPage, ReadPage(fd, n)
  PROVE  KRest /\ SameFiles
<1>1. CASE GetThisInvalid(fd, n) /\ Kept
  <2>1. UNCHANGED <<pool, disk, dir, header, pf_table, pins, use>> /\ closing' = NoFd
    BY <1>1 DEF GetThisInvalid, Refuses, Returns, unix, Kept
  <2> QED BY <2>1, RefusedRest
<1>2. CASE PF_GetThisPage(fd, n) /\ KGot(fd, n)
  <2>1. /\ IsOpen(fd) /\ n < pf_table[fd].numpages
        /\ UNCHANGED <<dir, header, pf_table>> /\ closing' = NoFd
        /\ \/ Got(Bq(fd, n)) /\ rc' = PFE_OK
           \/ NotGot(Bq(fd, n)) /\ rc' = PFE_GETTHIS
    BY <1>2 DEF PF_GetThisPage, Returns
  <2>2. fd \in OpenFds
    BY <2>1 DEF IsOpen, OpenFds
  <2>3. /\ UNCHANGED use
        /\ \/ Got(Bq(fd, n)) /\ pins[<<fd, n>>] < MaxPins /\ Pins(fd, n)
           \/ NotGot(Bq(fd, n)) /\ UNCHANGED pins
    BY <1>2, <2>1 DEF KGot, MayPin, Kept, PFE_OK, PFE_GETTHIS
  <2> QED BY <2>1, <2>2, <2>3, GetRest
<1> QED BY <1>1, <1>2 DEF ReadPage

\* The calls on a pinned page leave the Unix files and the table alone.
LEMMA PoolRest ==
  ASSUME KInv, TInv', UNCHANGED <<disk, dir, header, pf_table>>, closing' = NoFd,
         Sound(pool', disk', pf_table', pins', use'), pins' \in Pinned, use' \in Uses
  PROVE  KRest /\ (SameRead(pool, disk, pf_table, pool', disk') => SameFiles)
<1>1. KRest
  BY DEF KInv, KRest, ClosingUnpinned
<1>2. SameRead(pool, disk, pf_table, pool', disk') => SameFiles
  BY DEF SameRead, SameFiles, FileIn
<1> QED BY <1>1, <1>2

LEMMA DirtyRest ==
  ASSUME KInv, TInv', NEW fd \in Fd, NEW n \in DataPage, KDirty(fd, n)
  PROVE  KRest /\ SameFiles
<1>1. /\ pins[<<fd, n>>] > 0 /\ PF_DirtyPage(fd, n) /\ UNCHANGED pins
      /\ Used(fd, n, "touched") /\ UNCHANGED <<disk, dir, header, pf_table>> /\ closing' = NoFd
  BY DEF KDirty, PF_DirtyPage, Returns, unix, Used
<1>2. /\ Sound(pool', disk', pf_table', pins', use') /\ use' \in Uses
      /\ SameRead(pool, disk, pf_table, pool', disk')
  BY <1>1, DirtySound
<1>3. pins' \in Pinned
  BY <1>1 DEF KInv
<1> QED BY <1>1, <1>2, <1>3, PoolRest

LEMMA UnpinRest ==
  ASSUME KInv, TInv', NEW fd \in Fd, NEW n \in DataPage, NEW dirty \in BOOLEAN,
         KUnpin(fd, n, dirty)
  PROVE  KRest /\ SameFiles
<1>1. /\ pins[<<fd, n>>] > 0 /\ PF_UnpinPage(fd, n, dirty) /\ Returned(fd, n)
      /\ pins[<<fd, n>>] = 1 /\ use[<<fd, n>>] = "stored" => dirty
      /\ UNCHANGED <<disk, dir, header, pf_table>> /\ closing' = NoFd
  BY DEF KUnpin, PF_UnpinPage, Returns, unix, Returned
<1>2. Used(fd, n, IF pins[<<fd, n>>] = 1 THEN "idle"
                  ELSE IF dirty THEN "touched" ELSE use[<<fd, n>>])
  BY DEF KUnpin, Used
<1>3. /\ Sound(pool', disk', pf_table', pins', use') /\ use' \in Uses /\ pins' \in Pinned
      /\ SameRead(pool, disk, pf_table, pool', disk')
  BY <1>1, <1>2, UnpinSound
<1> QED BY <1>1, <1>3, PoolRest

LEMMA StoreRest ==
  ASSUME KInv, TInv', NEW fd \in Fd, NEW n \in DataPage, NEW v \in Data, KStore(fd, n, v)
  PROVE  /\ KRest /\ UNCHANGED <<disk, dir, header, pf_table>>
         /\ \A a \in OpenIn(pf_table) : \A m \in 1..pf_table[a].numpages :
              At(pool', disk', pf_table', a, m) =
                IF a = fd /\ m = n + 1 THEN v ELSE At(pool, disk, pf_table, a, m)
<1>1. /\ pins[<<fd, n>>] > 0 /\ StorePage(fd, n, v) /\ UNCHANGED pins
      /\ UNCHANGED <<disk, dir, header, pf_table>> /\ closing' = NoFd
  BY DEF KStore, StorePage, unix
<1>2. Used(fd, n, IF use[<<fd, n>>] = "touched" THEN "touched" ELSE "stored")
  <2>1. use' = [use EXCEPT ![<<fd, n>>] = IF use[<<fd, n>>] = "touched"
                                          THEN use[<<fd, n>>] ELSE "stored"]
    BY DEF KStore
  <2>2. (IF use[<<fd, n>>] = "touched" THEN use[<<fd, n>>] ELSE "stored")
          = IF use[<<fd, n>>] = "touched" THEN "touched" ELSE "stored"
    OBVIOUS
  <2> QED BY <2>1, <2>2 DEF Used
<1>3. /\ Sound(pool', disk', pf_table', pins', use') /\ use' \in Uses
      /\ \A a \in OpenIn(pf_table) : \A m \in 1..pf_table[a].numpages :
           At(pool', disk', pf_table', a, m) =
             IF a = fd /\ m = n + 1 THEN v ELSE At(pool, disk, pf_table, a, m)
  BY <1>1, <1>2, StoreSound
<1>4. pins' \in Pinned
  BY <1>1 DEF KInv
<1> QED BY <1>1, <1>3, <1>4, PoolRest

LEMMA AllocRest ==
  ASSUME KInv, TInv', NEW fd \in Fd, IsOpen(fd), NEW n, n = pf_table[fd].numpages,
         n < bound.pages, bound \in Bounds,
         PF_AllocPage(fd), Pins(fd, n), Used(fd, n, "touched")
  PROVE  /\ KRest /\ UNCHANGED <<header, dir>> /\ OpenIn(pf_table') = OpenIn(pf_table)
         /\ \A a \in OpenIn(pf_table) :
              /\ pf_table'[a].unixfd = pf_table[a].unixfd
              /\ pf_table'[a].fname = pf_table[a].fname
              /\ pf_table'[a].numpages = IF a = fd THEN n + 1 ELSE pf_table[a].numpages
         /\ \A a \in OpenIn(pf_table') : \A m \in 1..pf_table'[a].numpages :
              At(pool', disk', pf_table', a, m) =
                IF a = fd /\ m = n + 1 THEN Zero ELSE At(pool, disk, pf_table, a, m)
         /\ DataKept(disk, disk', pf_table)
<1>1. /\ pf_table \in [Fd -> PFftab_ele] /\ fd \in OpenFds /\ pins \in Pinned /\ use \in Uses
      /\ Sound(pool, disk, pf_table, pins, use) /\ n \in 0..MaxPages
  BY TypeParts DEF KInv, IsOpen, OpenFds, PFftab_ele
<1>2. /\ pf_table' = [pf_table EXCEPT ![fd] =
                        [[@ EXCEPT !.numpages = n + 1] EXCEPT !.hdrchanged = TRUE]]
      /\ UNCHANGED <<dir, header>> /\ closing' = NoFd /\ n < MaxPages
      /\ ~InBuf(pool, Bq(fd, n).fd, Bq(fd, n).pagenum)
  BY DEF PF_AllocPage, Returns
<1>3. n \in DataPage
  BY <1>1, <1>2, PFAssumption DEF DataPage
<1>4. pins[<<fd, n>>] < MaxPins
  <2>1. Bq(fd, n).fd = fd /\ Bq(fd, n).pagenum = n + 1
    BY DEF Bq, IsOpen
  <2>2. \A g : ~Has(pool, g, fd, n + 1)
    BY <1>1, <1>2, <2>1, HasFound DEF Sound, World
  <2>3. ~(pins[<<fd, n>>] > 0)
    BY <1>1, <1>3, <2>2 DEF Sound, Counted
  <2>4. <<fd, n>> \in Fd \X DataPage
    BY <1>3
  <2>5. pins[<<fd, n>>] \in 0..MaxPins
    BY <1>1, <2>4 DEF Pinned
  <2> QED BY <2>3, <2>5, CallerAssumption, PoolAssumption
<1>5. /\ Sound(pool', disk', pf_table', pins', use')
      /\ pins' \in Pinned /\ use' \in Uses
      /\ \A a \in OpenIn(pf_table') : \A m \in 1..pf_table'[a].numpages :
           At(pool', disk', pf_table', a, m) =
             IF a = fd /\ m = n + 1 THEN Zero ELSE At(pool, disk, pf_table, a, m)
      /\ DataKept(disk, disk', pf_table)
  BY <1>1, <1>4, AllocSound DEF MayPin
<1>6. \A a \in Fd : /\ pf_table'[a].unixfd = pf_table[a].unixfd
                    /\ pf_table'[a].fname = pf_table[a].fname
                    /\ pf_table'[a].valid = pf_table[a].valid
                    /\ pf_table'[a].numpages = IF a = fd THEN n + 1 ELSE pf_table[a].numpages
                    /\ pf_table'[a].hdrchanged = IF a = fd THEN TRUE
                                                 ELSE pf_table[a].hdrchanged
  BY <1>1, <1>2 DEF PFftab_ele
<1>7. OpenIn(pf_table') = OpenIn(pf_table) /\ OpenIn(pf_table) \subseteq Fd
  BY <1>6 DEF OpenIn
<1>8. EntriesGrow
  <2>1. \A a \in Fd : pf_table[a].numpages \in Int
    BY <1>1 DEF PFftab_ele
  <2>2. ASSUME NEW a \in Fd PROVE pf_table'[a].numpages >= pf_table[a].numpages
    <3>1. pf_table'[a].numpages = pf_table[a].numpages \/
          pf_table'[a].numpages = pf_table[a].numpages + 1
      BY <1>6
    <3> QED BY <2>1, <3>1
  <2> QED BY <1>6, <1>7, <2>2 DEF EntriesGrow
<1>9. HeadersTrue(disk', header') /\ HeadersFit(disk', pf_table', header', dir')
  BY <1>2, <1>5, <1>8, HeadersStay
<1> QED BY <1>2, <1>5, <1>6, <1>7, <1>9 DEF KRest, ClosingUnpinned

-----------------------------------------------------------------------------
(* Files. *)

\* The Unix files and the table change, the pool does not.
LEMMA FilesRest ==
  ASSUME KInv, TInv', UNCHANGED <<pool, pins, use>>, closing' = NoFd,
         \A a \in OpenIn(pf_table) :
           a \in OpenIn(pf_table') \/ \A f \in Frame : On(pool, f) => pool.page[f].fd # a,
         \A a \in OpenIn(pf_table) \cap OpenIn(pf_table') :
           SameEntry(disk, pf_table, disk', pf_table', a),
         \A a \in OpenIn(pf_table') \ OpenIn(pf_table) : \A k \in 1..pf_table'[a].numpages :
           disk'.data[<<FileIn(disk', pf_table', a), k>>] # Absent,
         HeadersTrue(disk', header'), HeadersFit(disk', pf_table', header', dir')
  PROVE  /\ KRest
         /\ \A a \in OpenIn(pf_table) \cap OpenIn(pf_table') : \A k \in 1..pf_table[a].numpages :
              At(pool', disk', pf_table', a, k) = At(pool, disk, pf_table, a, k)
<1>1. World(pool, disk', pf_table') /\ Sound(pool, disk, pf_table, pins, use)
      /\ pins \in Pinned /\ use \in Uses
  BY NextWorld DEF KInv
<1>2. /\ Sound(pool, disk', pf_table', pins, use)
      /\ \A a \in OpenIn(pf_table) \cap OpenIn(pf_table') : \A k \in 1..pf_table[a].numpages :
           At(pool, disk', pf_table', a, k) = At(pool, disk, pf_table, a, k)
  BY <1>1, TableSound
<1> QED BY <1>1, <1>2 DEF KRest, ClosingUnpinned

\* Creating a file touches no file that has a name or is open.
LEMMA CreateRest ==
  ASSUME KInv, TInv', NEW name \in Name, PF_CreateFile(name) \/ CreateTableFull(name),
         UNCHANGED <<pins, use>>
  PROVE  /\ KRest /\ OpenIn(pf_table') = OpenIn(pf_table)
         /\ \A a \in OpenIn(pf_table) :
              /\ SameEntry(disk, pf_table, disk', pf_table', a)
              /\ pf_table'[a].fname = pf_table[a].fname /\ pf_table[a].fname # name
              /\ \A k \in 1..pf_table[a].numpages :
                   At(pool', disk', pf_table', a, k) = At(pool, disk, pf_table, a, k)
         /\ dir[name] = NoInode /\ dir' = [dir EXCEPT ![name] = NewInode]
         /\ NewInode \in Inode /\ header'[NewInode] = IF PF_CreateFile(name) THEN 0 ELSE -1
         /\ \A i \in Inode : i # NewInode => /\ header'[i] = header[i]
                                             /\ \A k \in PageNum :
                                                  disk'.data[<<i, k>>] = disk.data[<<i, k>>]
         /\ \A n \in Name : dir[n] # NewInode
<1> PICK i : i = NewInode
  OBVIOUS
<1> PICK u : u = NewUnixFd
  OBVIOUS
<1> PICK e : e = FirstFree
  OBVIOUS
<1>1. /\ disk \in PFDisks /\ header \in [Inode -> -1..MaxPages] /\ pf_table \in [Fd -> PFftab_ele]
      /\ dir \in [Name -> Inode \cup {NoInode}]
      /\ HeadersTrue(disk, header) /\ HeadersFit(disk, pf_table, header, dir)
  BY TypeParts DEF KInv
<1>2. /\ dir[name] = NoInode /\ FreeUnixFd # {} /\ FreeInode # {}
      /\ dir' = [dir EXCEPT ![name] = i] /\ pool' = pool /\ closing' = NoFd
  BY DEF PF_CreateFile, CreateTableFull, NewFile, Returns
<1>3. /\ i \in Inode /\ \A n \in Name : dir[n] # i
      /\ \A v \in UnixFd : disk.open[v] # i
  BY <1>2, FreeInodeFound
<1>4. u \in UnixFd /\ disk.open[u] = Closed
  BY <1>2, FreeUnixFdFound
<1>5. /\ \A j \in Inode, k \in PageNum :
           EmptyData[<<j, k>>] = IF j = i THEN Absent ELSE disk.data[<<j, k>>]
  <2> PICK K : K = Inode \X PageNum
    OBVIOUS
  <2>1. \A l \in K : EmptyData[l] = IF l[1] = i THEN Absent ELSE disk.data[l]
    BY DEF EmptyData
  <2> QED BY <2>1
<1>6. /\ disk'.data = EmptyData
      /\ \A v \in UnixFd : disk.open[v] # Closed => disk'.open[v] = disk.open[v]
  <2>1. CASE PF_CreateFile(name)
    BY <1>1, <2>1 DEF PF_CreateFile, PFDisks, DisksOver
  <2>2. CASE CreateTableFull(name)
    BY <1>1, <1>4, <2>2 DEF CreateTableFull, Opened, PFDisks, DisksOver
  <2> QED BY <2>1, <2>2
<1>7. /\ \A j \in Inode : j # i => header'[j] = header[j]
      /\ header'[i] = IF PF_CreateFile(name) THEN 0 ELSE -1
  <2>1. CASE PF_CreateFile(name)
    BY <1>1, <1>3, <2>1 DEF PF_CreateFile
  <2>2. CASE CreateTableFull(name)
    <3>1. ~PF_CreateFile(name)
      BY <2>2 DEF PF_CreateFile, CreateTableFull
    <3> QED BY <1>1, <1>3, <2>2, <3>1 DEF CreateTableFull
  <2> QED BY <2>1, <2>2
<1>8. \A a \in Fd : /\ pf_table'[a].valid = pf_table[a].valid
                    /\ pf_table[a].valid => pf_table'[a] = pf_table[a]
  <2>1. CASE PF_CreateFile(name)
    <3> PICK g : g = [pf_table[e] EXCEPT !.inode = e, !.fname = name,
                                         !.unixfd = u, !.numpages = 0, !.offset = 0]
      OBVIOUS
    <3>1. FreeEntries # {} /\ pf_table' = [pf_table EXCEPT ![e] = g]
      BY <2>1 DEF PF_CreateFile
    <3>2. e \in Fd /\ ~pf_table[e].valid
      BY <3>1, FreeEntryFound
    <3>3. g.valid = pf_table[e].valid
      BY <1>1, <3>2 DEF PFftab_ele
    <3> QED BY <1>1, <3>1, <3>2, <3>3
  <2>2. CASE CreateTableFull(name)
    BY <2>2 DEF CreateTableFull
  <2> QED BY <2>1, <2>2
<1>9. OpenIn(pf_table') = OpenIn(pf_table)
  BY <1>8 DEF OpenIn
<1>10. ASSUME NEW a \in OpenIn(pf_table)
       PROVE  /\ a \in Fd /\ pf_table'[a] = pf_table[a]
              /\ FileIn(disk', pf_table', a) = FileIn(disk, pf_table, a)
              /\ FileIn(disk, pf_table, a) \in Inode /\ FileIn(disk, pf_table, a) # i
              /\ pf_table[a].fname # name /\ pf_table[a].fname \in Name
              /\ dir'[pf_table[a].fname] = dir[pf_table[a].fname]
  <2>1. a \in Fd /\ pf_table'[a] = pf_table[a] /\ pf_table[a].unixfd \in UnixFd
    BY <1>1, <1>8 DEF OpenIn, PFftab_ele
  <2>2. FileIn(disk, pf_table, a) \in Inode /\ pf_table[a].fname \in Name
    BY OpenWorld DEF KInv
  <2>3. FileIn(disk, pf_table, a) # i /\ FileIn(disk', pf_table', a) = FileIn(disk, pf_table, a)
    BY <1>3, <1>6, <2>1, <2>2, PFAssumption DEF FileIn
  <2>4. pf_table[a].fname # name
    BY <1>1, <1>2, <2>2, PFAssumption DEF HeadersFit
  <2> QED BY <1>1, <1>2, <2>1, <2>2, <2>3, <2>4
<1>11. \A a \in OpenIn(pf_table) : SameEntry(disk, pf_table, disk', pf_table', a)
  BY <1>5, <1>6, <1>10 DEF SameEntry
<1>12. HeadersTrue(disk', header')
  <2> SUFFICES ASSUME NEW j \in Inode, NEW k \in 1..header'[j]
               PROVE  disk'.data[<<j, k>>] # Absent
    BY DEF HeadersTrue
  <2>1. j # i
    <3>1. \A m : m \notin 1..0 /\ m \notin 1..(-1)
      OBVIOUS
    <3> QED BY <1>7, <3>1
  <2>2. k \in 1..header[j] /\ header[j] \in -1..MaxPages
    BY <1>1, <1>7, <2>1
  <2>3. k \in PageNum
    BY <2>2, PFAssumption
  <2> QED BY <1>1, <1>5, <1>6, <2>1, <2>2, <2>3 DEF HeadersTrue
<1>13. HeadersFit(disk', pf_table', header', dir')
  BY <1>1, <1>7, <1>9, <1>10 DEF HeadersFit
<1>14. /\ KRest
       /\ \A a \in OpenIn(pf_table) : \A k \in 1..pf_table[a].numpages :
            At(pool', disk', pf_table', a, k) = At(pool, disk, pf_table, a, k)
  BY <1>2, <1>9, <1>11, <1>12, <1>13, FilesRest
<1> QED BY <1>2, <1>3, <1>5, <1>6, <1>7, <1>9, <1>10, <1>11, <1>14

\* An open file is not destroyed.
LEMMA DestroyRest ==
  ASSUME KInv, TInv', NEW name \in Name, PF_DestroyFile(name), UNCHANGED <<pins, use>>,
         \A a \in OpenIn(pf_table) : pf_table[a].fname # name
  PROVE  KRest
<1>1. /\ dir' = [dir EXCEPT ![name] = NoInode] /\ dir \in [Name -> Inode \cup {NoInode}]
      /\ UNCHANGED <<pool, disk, header, pf_table>> /\ closing' = NoFd
  BY TypeParts DEF PF_DestroyFile, Returns, KInv
<1>2. \A a \in OpenIn(pf_table) : dir'[pf_table[a].fname] = dir[pf_table[a].fname]
  BY <1>1, OpenWorld DEF KInv
<1>3. HeadersFit(disk, pf_table, header, dir')
  BY <1>2 DEF KInv, HeadersFit
<1> QED BY <1>1, <1>3 DEF KInv, KRest, ClosingUnpinned

\* A refused open leaves a Unix descriptor behind that was not in use.
LEMMA OpenFailsRest ==
  ASSUME KInv, TInv', NEW name \in Name, OpenRefused(name) \/ OpenNoHeader(name),
         UNCHANGED <<pins, use>>
  PROVE  KRest /\ SameFiles
<1> PICK u : u = NewUnixFd
  OBVIOUS
<1>1. /\ disk \in PFDisks /\ HeadersTrue(disk, header)
      /\ HeadersFit(disk, pf_table, header, dir) /\ pf_table \in [Fd -> PFftab_ele]
  BY TypeParts DEF KInv
<1>2. /\ PF_SearchFile(name) /\ disk' = [disk EXCEPT !.open[u] = dir[name]]
      /\ UNCHANGED <<pool, dir, header, pf_table>> /\ closing' = NoFd
  BY DEF OpenRefused, OpenNoHeader, OpenFails, Opened, Returns
<1>3. u \in UnixFd /\ disk.open[u] = Closed
  BY <1>2, FreeUnixFdFound DEF PF_SearchFile
<1>4. /\ disk'.data = disk.data
      /\ \A v \in UnixFd : disk.open[v] # Closed => disk'.open[v] = disk.open[v]
  BY <1>1, <1>2, <1>3 DEF PFDisks, DisksOver
<1>5. \A a \in OpenIn(pf_table) : FileIn(disk', pf_table, a) = FileIn(disk, pf_table, a)
  <2> SUFFICES ASSUME NEW a \in OpenIn(pf_table)
               PROVE  FileIn(disk', pf_table, a) = FileIn(disk, pf_table, a)
    OBVIOUS
  <2>1. pf_table[a].unixfd \in UnixFd
    BY <1>1 DEF OpenIn, PFftab_ele
  <2>2. FileIn(disk, pf_table, a) \in Inode
    BY OpenWorld DEF KInv
  <2> QED BY <1>4, <2>1, <2>2, PFAssumption DEF FileIn
<1>6. \A a \in OpenIn(pf_table) : SameEntry(disk, pf_table, disk', pf_table', a)
  BY <1>2, <1>4, <1>5 DEF SameEntry
<1>7. HeadersTrue(disk', header') /\ HeadersFit(disk', pf_table', header', dir')
  BY <1>1, <1>2, <1>4, <1>5 DEF HeadersTrue, HeadersFit
<1>8. OpenIn(pf_table') = OpenIn(pf_table)
  BY <1>2
<1>9. /\ KRest
      /\ \A a \in OpenIn(pf_table) : \A k \in 1..pf_table[a].numpages :
           At(pool', disk', pf_table', a, k) = At(pool, disk, pf_table, a, k)
  BY <1>2, <1>6, <1>7, <1>8, FilesRest
<1>10. SameFiles
  BY <1>2, <1>4, <1>5, <1>9 DEF SameFiles
<1> QED BY <1>9, <1>10

\* A file that is opened has the pages that its header counts.
LEMMA OpenRest ==
  ASSUME KInv, TInv', NEW name \in Name, PF_OpenFile(name), UNCHANGED <<pins, use>>
  PROVE  /\ KRest /\ UNCHANGED <<pool, dir, header>> /\ disk'.data = disk.data
         /\ FirstFree \in Fd /\ FirstFree \notin OpenIn(pf_table)
         /\ OpenIn(pf_table') = OpenIn(pf_table) \cup {FirstFree}
         /\ pf_table'[FirstFree].fname = name
         /\ pf_table'[FirstFree].numpages = header[dir[name]]
         /\ FileIn(disk', pf_table', FirstFree) = dir[name]
         /\ dir[name] \in Inode /\ header[dir[name]] # -1
         /\ \A a \in OpenIn(pf_table) :
              /\ SameEntry(disk, pf_table, disk', pf_table', a)
              /\ pf_table'[a].fname = pf_table[a].fname /\ pf_table[a].fname # name
              /\ \A k \in 1..pf_table[a].numpages :
                   At(pool', disk', pf_table', a, k) = At(pool, disk, pf_table, a, k)
<1> PICK u : u = NewUnixFd
  OBVIOUS
<1> PICK e : e = FirstFree
  OBVIOUS
<1> PICK i : i = dir[name]
  OBVIOUS
<1> PICK h : h = header[i]
  OBVIOUS
<1>0. PICK new : new = [valid |-> TRUE, inode |-> e, fname |-> name, unixfd |-> u,
                        numpages |-> h, offset |-> 0, hdrchanged |-> FALSE]
  OBVIOUS
<1>1. /\ disk \in PFDisks /\ HeadersTrue(disk, header)
      /\ header \in [Inode -> -1..MaxPages] /\ dir \in [Name -> Inode \cup {NoInode}]
      /\ HeadersFit(disk, pf_table, header, dir) /\ pf_table \in [Fd -> PFftab_ele] /\ PInv
  BY TypeParts DEF KInv
<1>2. /\ PF_SearchFile(name) /\ ~PF_SearchTable(name) /\ FreeEntries # {} /\ h # -1
      /\ disk' = [disk EXCEPT !.open[u] = i]
      /\ pf_table' = [pf_table EXCEPT ![e] = new]
      /\ UNCHANGED <<pool, dir, header>> /\ closing' = NoFd
  BY <1>0 DEF PF_OpenFile, Opened, Returns
<1>3. /\ u \in UnixFd /\ disk.open[u] = Closed /\ i \in Inode
      /\ e \in Fd /\ ~pf_table[e].valid /\ h \in 0..MaxPages
  BY <1>1, <1>2, FreeUnixFdFound, FreeEntryFound DEF PF_SearchFile
<1>4. /\ disk'.data = disk.data /\ disk'.open[u] = i
      /\ \A v \in UnixFd : disk.open[v] # Closed => disk'.open[v] = disk.open[v]
  BY <1>1, <1>2, <1>3 DEF PFDisks, DisksOver
<1>5. /\ pf_table'[e] = new /\ new.valid /\ new.fname = name /\ new.unixfd = u
      /\ new.numpages = h
      /\ \A a \in Fd : a # e => pf_table'[a] = pf_table[a]
  BY <1>0, <1>1, <1>2, <1>3
<1>6. OpenIn(pf_table') = OpenIn(pf_table) \cup {e} /\ e \notin OpenIn(pf_table)
  BY <1>3, <1>5 DEF OpenIn
<1>7. FileIn(disk', pf_table', e) = i
  BY <1>4, <1>5 DEF FileIn
<1>8. ASSUME NEW a \in OpenIn(pf_table)
      PROVE  /\ a \in Fd /\ a # e /\ pf_table'[a] = pf_table[a]
             /\ FileIn(disk', pf_table', a) = FileIn(disk, pf_table, a)
             /\ FileIn(disk, pf_table, a) \in Inode /\ pf_table[a].fname \in Name
             /\ pf_table[a].fname # name
  <2>1. a \in Fd /\ a # e /\ pf_table'[a] = pf_table[a] /\ pf_table[a].unixfd \in UnixFd
    BY <1>1, <1>5, <1>6 DEF OpenIn, PFftab_ele
  <2>2. FileIn(disk, pf_table, a) \in Inode /\ pf_table[a].fname \in Name
    BY OpenWorld DEF KInv
  <2>3. FileIn(disk', pf_table', a) = FileIn(disk, pf_table, a)
    BY <1>4, <2>1, <2>2, PFAssumption DEF FileIn
  <2>4. pf_table[a].fname # name
    <3>1. pf_table[a].valid /\ pf_table[a].unixfd # 0
      BY <1>1, PFAssumption DEF OpenIn, OpenFds, PInv, EntriesNamed
    <3> QED BY <1>2, <2>1, <3>1, PFAssumption DEF PF_SearchTable
  <2> QED BY <2>1, <2>2, <2>3, <2>4
<1>9. \A a \in OpenIn(pf_table) : SameEntry(disk, pf_table, disk', pf_table', a)
  BY <1>4, <1>8 DEF SameEntry
<1>10. HeadersTrue(disk', header')
  BY <1>1, <1>2, <1>4 DEF HeadersTrue
<1>11. HeadersFit(disk', pf_table', header', dir')
  <2> SUFFICES ASSUME NEW a \in OpenIn(pf_table')
               PROVE  /\ header[FileIn(disk', pf_table', a)] \in 0..pf_table'[a].numpages
                      /\ ~pf_table'[a].hdrchanged =>
                           header[FileIn(disk', pf_table', a)] = pf_table'[a].numpages
                      /\ dir[pf_table'[a].fname] = FileIn(disk', pf_table', a)
    BY <1>2 DEF HeadersFit
  <2>1. CASE a = e
    <3>1. h \in 0..h
      BY <1>3, PFAssumption
    <3>2. /\ FileIn(disk', pf_table', a) = i /\ pf_table'[a].numpages = h
          /\ pf_table'[a].fname = name
      BY <1>5, <1>7, <2>1
    <3> QED BY <3>1, <3>2
  <2>2. CASE a # e
    <3>1. a \in OpenIn(pf_table)
      BY <1>6, <2>2
    <3>2. pf_table'[a] = pf_table[a] /\ FileIn(disk', pf_table', a) = FileIn(disk, pf_table, a)
      BY <1>8, <3>1
    <3> QED BY <1>1, <3>1, <3>2 DEF HeadersFit
  <2> QED BY <2>1, <2>2
<1>12. \A a \in OpenIn(pf_table') \ OpenIn(pf_table) : \A k \in 1..pf_table'[a].numpages :
         disk'.data[<<FileIn(disk', pf_table', a), k>>] # Absent
  <2>1. \A k \in 1..h : disk'.data[<<i, k>>] # Absent
    BY <1>1, <1>3, <1>4 DEF HeadersTrue
  <2>2. \A a \in OpenIn(pf_table') \ OpenIn(pf_table) : a = e
    BY <1>6
  <2>3. pf_table'[e].numpages = h
    BY <1>5
  <2> QED BY <1>7, <2>1, <2>2, <2>3
<1>13. /\ KRest
       /\ \A a \in OpenIn(pf_table) : \A k \in 1..pf_table[a].numpages :
            At(pool', disk', pf_table', a, k) = At(pool, disk, pf_table, a, k)
  BY <1>2, <1>6, <1>9, <1>10, <1>11, <1>12, FilesRest
<1>14. pf_table'[e].fname = name /\ pf_table'[e].numpages = h
  BY <1>5
<1>15. \A a \in OpenIn(pf_table) :
         pf_table'[a].fname = pf_table[a].fname /\ pf_table[a].fname # name
  BY <1>8
<1> QED BY <1>2, <1>3, <1>4, <1>6, <1>7, <1>9, <1>13, <1>14, <1>15

-----------------------------------------------------------------------------
(* PF_CloseFile. *)

LEMMA ClosingIs ==
  ASSUME KInv, closing # NoFd
  PROVE  closing \in OpenIn(pf_table) /\ closing \in Fd
BY TypeParts, OpenWorld DEF KInv, PInv, ClosesOpen

\* What is not in the pool is read from the file.
LEMMA ClosingFlushed ==
  ASSUME KInv, closing # NoFd, PagesOf(pool, closing) = {},
         NEW k \in 1..pf_table[closing].numpages
  PROVE  /\ disk.data[<<FileIn(disk, pf_table, closing), k>>] # Absent
         /\ At(pool, disk, pf_table, closing, k)
              = disk.data[<<FileIn(disk, pf_table, closing), k>>]
<1>1. \A f : ~Has(pool, f, closing, k)
  BY DEF Has, On, PagesOf
<1>2. closing \in OpenIn(pf_table) /\ World(pool, disk, pf_table) /\ There(pool, disk, pf_table)
  BY ClosingIs DEF KInv, Sound
<1>3. disk.data[<<FileIn(disk, pf_table, closing), k>>] # Absent
  BY <1>1, <1>2 DEF There
<1> QED BY <1>1, <1>2, <1>3, AtFile

LEMMA CloseBeginRest ==
  ASSUME KInv, NEW fd \in Fd, CloseBegin(fd), UNCHANGED <<pins, use>>
  PROVE  KRest /\ SameFiles
<1>1. /\ closing' = fd /\ UNCHANGED <<pool, disk, dir, header, pf_table>>
      /\ ~Fixed(pool, fd) /\ Counted(pool, pins) /\ pins \in Pinned
  BY DEF CloseBegin, unix, KInv, Sound
<1>2. \A n \in DataPage : pins[<<fd, n>>] = 0
  <2> SUFFICES ASSUME NEW n \in DataPage, pins[<<fd, n>>] # 0 PROVE FALSE
    OBVIOUS
  <2>1. pins[<<fd, n>>] \in 0..MaxPins /\ MaxPins \in Nat
    BY <1>1, CallerAssumption, PoolAssumption DEF Pinned
  <2>2. pins[<<fd, n>>] > 0
    BY <2>1
  <2>3. PICK f : Has(pool, f, fd, n + 1)
    BY <1>1, <2>2 DEF Counted
  <2> PICK g : g = pool.page[f]
    OBVIOUS
  <2>4. Key(g) = <<fd, n>>
    BY <2>3, PFAssumption DEF Key, Has, DataPage
  <2>5. g.count # 0
    BY <1>1, <2>2, <2>3, <2>4 DEF Counted, Has
  <2> QED BY <1>1, <2>3, <2>5 DEF Fixed, PagesOf, Has, On
<1>3. KRest
  BY <1>1, <1>2 DEF KInv, KRest, ClosingUnpinned
<1>4. SameFiles
  BY <1>1 DEF SameFiles
<1> QED BY <1>3, <1>4

LEMMA CloseFlushRest ==
  ASSUME KInv, TInv', CloseFlush, UNCHANGED <<pins, use>>
  PROVE  KRest /\ SameFiles
<1> PICK f : f = NextOf(pool, closing)
  OBVIOUS
<1> PICK g : g = pool.page[f]
  OBVIOUS
<1>1. /\ closing # NoFd /\ PagesOf(pool, closing) # {} /\ pool' = Discard(pool, f)
      /\ disk' = Flushed(disk, pool.page[f])
      /\ UNCHANGED <<dir, header, pf_table, closing>>
  BY DEF CloseFlush
<1>2. /\ Sound(pool, disk, pf_table, pins, use) /\ PoolOK(pool) /\ pool \in Pools
      /\ PoolOK(pool')
  BY TypeParts, NextWorld DEF KInv, PoolOK
<1>3. f \in Frame /\ On(pool, f) /\ g.fd = closing
  BY <1>1, <1>2, NextIsOn
<1>4. g.page_num - 1 \in DataPage
  BY <1>2, <1>3, OwnedPage
<1>5. g.count = 0
  <2>1. g.count = pins[Key(g)]
    BY <1>2, <1>3 DEF Sound, Counted
  <2> QED BY <1>1, <1>3, <1>4, <2>1 DEF KInv, ClosingUnpinned, Key
<1>6. Dropped(pool, pool', f)
  BY <1>1, <1>2, <1>3, <1>5, DiscardDoes
<1>7. /\ Sound(pool', disk', pf_table, pins, use)
      /\ SameRead(pool, disk, pf_table, pool', disk') /\ DataKept(disk, disk', pf_table)
  BY <1>1, <1>2, <1>6, DropSound
<1>8. EntriesGrow
  <2>1. \A a \in OpenIn(pf_table) : pf_table[a].numpages \in Int
    BY TypeParts DEF KInv, OpenIn, PFftab_ele
  <2> QED BY <1>1, <2>1 DEF EntriesGrow
<1>9. HeadersTrue(disk', header') /\ HeadersFit(disk', pf_table', header', dir')
  BY <1>1, <1>7, <1>8, HeadersStay
<1>10. KRest
  BY <1>1, <1>7, <1>9 DEF KInv, KRest, ClosingUnpinned
<1>11. SameFiles
  BY <1>1, <1>7 DEF SameFiles, SameRead, DataKept, FileIn
<1> QED BY <1>10, <1>11

\* The header comes to count pages that are all on disk.
LEMMA CloseHeaderRest ==
  ASSUME KInv, TInv', CloseHeader, UNCHANGED <<pins, use>>
  PROVE  KRest /\ SameFiles
<1> PICK i : i = FileIn(disk, pf_table, closing)
  OBVIOUS
<1> PICK m : m = pf_table[closing].numpages
  OBVIOUS
<1>1. /\ closing # NoFd /\ PagesOf(pool, closing) = {}
      /\ UNCHANGED <<pool, disk, dir, closing>>
      /\ header' = [header EXCEPT ![i] = m]
      /\ pf_table' = [pf_table EXCEPT ![closing] = [@ EXCEPT !.hdrchanged = FALSE]]
  BY DEF CloseHeader, FileIn
<1>2. /\ Sound(pool, disk, pf_table, pins, use) /\ World(pool, disk, pf_table)
      /\ HeadersTrue(disk, header) /\ HeadersFit(disk, pf_table, header, dir)
      /\ header \in [Inode -> -1..MaxPages] /\ pf_table \in [Fd -> PFftab_ele]
      /\ pins \in Pinned /\ use \in Uses
  BY TypeParts DEF KInv, Sound
<1>3. closing \in OpenIn(pf_table) /\ closing \in Fd /\ i \in Inode /\ m \in 0..MaxPages
  BY <1>1, <1>2, ClosingIs DEF World, PFftab_ele
<1>4. \A a \in Fd : /\ pf_table'[a].unixfd = pf_table[a].unixfd
                    /\ pf_table'[a].fname = pf_table[a].fname
                    /\ pf_table'[a].valid = pf_table[a].valid
                    /\ pf_table'[a].numpages = pf_table[a].numpages
                    /\ a # closing => pf_table'[a].hdrchanged = pf_table[a].hdrchanged
  <2>1. ASSUME NEW g \in PFftab_ele
        PROVE  LET h == [g EXCEPT !.hdrchanged = FALSE] IN
               /\ h.unixfd = g.unixfd /\ h.fname = g.fname /\ h.valid = g.valid
               /\ h.numpages = g.numpages
    BY DEF PFftab_ele
  <2>2. \A a \in Fd : IF a = closing
                     THEN pf_table'[a] = [pf_table[a] EXCEPT !.hdrchanged = FALSE]
                     ELSE pf_table'[a] = pf_table[a]
    BY <1>1, <1>2, <1>3
  <2>3. \A a \in Fd : pf_table[a] \in PFftab_ele
    BY <1>2
  <2> QED BY <2>1, <2>2, <2>3
<1>5. OpenIn(pf_table') = OpenIn(pf_table) /\ OpenIn(pf_table) \subseteq Fd
  BY <1>4 DEF OpenIn
<1>6. \A a \in OpenIn(pf_table) :
        /\ FileIn(disk', pf_table', a) = FileIn(disk, pf_table, a)
        /\ SameEntry(disk, pf_table, disk', pf_table', a)
        /\ FileIn(disk, pf_table, a) \in Inode
        /\ FileIn(disk, pf_table, a) = i => a = closing
  BY <1>1, <1>2, <1>3, <1>4, <1>5 DEF FileIn, SameEntry, World
<1>7. header'[i] = m /\ \A j \in Inode : j # i => header'[j] = header[j]
  BY <1>1, <1>2, <1>3
<1>8. HeadersTrue(disk', header')
  <2> SUFFICES ASSUME NEW j \in Inode, NEW k \in 1..header'[j]
               PROVE  disk.data[<<j, k>>] # Absent
    BY <1>1 DEF HeadersTrue
  <2>1. CASE j = i
    <3>1. k \in 1..pf_table[closing].numpages
      BY <1>7, <2>1
    <3> QED BY <1>1, <2>1, <3>1, ClosingFlushed
  <2>2. CASE j # i
    BY <1>2, <1>7, <2>2 DEF HeadersTrue
  <2> QED BY <2>1, <2>2
<1>9. HeadersFit(disk', pf_table', header', dir')
  <2> SUFFICES ASSUME NEW a \in OpenIn(pf_table)
               PROVE  /\ header'[FileIn(disk', pf_table', a)] \in 0..pf_table'[a].numpages
                      /\ ~pf_table'[a].hdrchanged =>
                           header'[FileIn(disk', pf_table', a)] = pf_table'[a].numpages
                      /\ dir'[pf_table'[a].fname] = FileIn(disk', pf_table', a)
    BY <1>5 DEF HeadersFit
  <2>1. /\ a \in Fd /\ dir'[pf_table'[a].fname] = FileIn(disk', pf_table', a)
    BY <1>1, <1>2, <1>4, <1>5, <1>6 DEF HeadersFit
  <2>2. CASE a = closing
    <3>1. m \in 0..m
      BY <1>3, PFAssumption
    <3>2. FileIn(disk', pf_table', a) = i /\ pf_table'[a].numpages = m
      BY <1>4, <1>6, <2>1, <2>2
    <3> QED BY <1>7, <2>1, <3>1, <3>2
  <2>3. CASE a # closing
    <3>1. /\ FileIn(disk', pf_table', a) = FileIn(disk, pf_table, a)
          /\ header'[FileIn(disk, pf_table, a)] = header[FileIn(disk, pf_table, a)]
          /\ pf_table'[a].numpages = pf_table[a].numpages
          /\ pf_table'[a].hdrchanged = pf_table[a].hdrchanged
      BY <1>4, <1>6, <1>7, <2>1, <2>3
    <3> QED BY <1>2, <2>1, <3>1 DEF HeadersFit
  <2> QED BY <2>2, <2>3
<1>10. /\ Sound(pool', disk', pf_table', pins, use)
       /\ \A a \in OpenIn(pf_table) : \A k \in 1..pf_table[a].numpages :
            At(pool', disk', pf_table', a, k) = At(pool, disk, pf_table, a, k)
  <2>1. World(pool, disk', pf_table') /\ pool' = pool
    BY <1>1, NextWorld
  <2>2. /\ Sound(pool, disk, pf_table, pins, use)
        /\ \A a \in OpenIn(pf_table) : a \in OpenIn(pf_table')
        /\ \A a \in OpenIn(pf_table) \cap OpenIn(pf_table') :
             SameEntry(disk, pf_table, disk', pf_table', a)
        /\ OpenIn(pf_table') \ OpenIn(pf_table) = {}
        /\ OpenIn(pf_table) \cap OpenIn(pf_table') = OpenIn(pf_table)
    BY <1>2, <1>5, <1>6
  <2>3. /\ Sound(pool, disk', pf_table', pins, use)
        /\ \A a \in OpenIn(pf_table) : \A k \in 1..pf_table[a].numpages :
             At(pool, disk', pf_table', a, k) = At(pool, disk, pf_table, a, k)
    BY <2>1, <2>2, TableSound
  <2> QED BY <2>1, <2>3
<1>11. KRest
  BY <1>1, <1>2, <1>8, <1>9, <1>10 DEF KRest, KInv, ClosingUnpinned
<1>12. SameFiles
  BY <1>1, <1>3, <1>4, <1>5, <1>6, <1>7, <1>10 DEF SameFiles
<1> QED BY <1>11, <1>12

\* The entry is freed when the file has no page in the pool, and its header
\* counts them all.
LEMMA CloseEndRest ==
  ASSUME KInv, TInv', CloseEnd, UNCHANGED <<pins, use>>
  PROVE  /\ KRest /\ UNCHANGED <<dir, header>> /\ disk'.data = disk.data
         /\ closing \in OpenIn(pf_table)
         /\ OpenIn(pf_table') = OpenIn(pf_table) \ {closing}
         /\ header[FileIn(disk, pf_table, closing)] = pf_table[closing].numpages
         /\ \A k \in 1..pf_table[closing].numpages :
              At(pool, disk, pf_table, closing, k)
                = disk.data[<<FileIn(disk, pf_table, closing), k>>]
         /\ \A a \in OpenIn(pf_table') :
              /\ SameEntry(disk, pf_table, disk', pf_table', a)
              /\ pf_table'[a].fname = pf_table[a].fname
              /\ \A k \in 1..pf_table[a].numpages :
                   At(pool', disk', pf_table', a, k) = At(pool, disk, pf_table, a, k)
<1> PICK c : c = closing
  OBVIOUS
<1> PICK u : u = pf_table[c].unixfd
  OBVIOUS
<1>1. /\ c # NoFd /\ PagesOf(pool, c) = {} /\ UNCHANGED <<pool, dir, header>>
      /\ ~pf_table[c].hdrchanged /\ closing' = NoFd
      /\ disk' = [disk EXCEPT !.open[u] = Closed]
      /\ pf_table' = [pf_table EXCEPT ![c] = [@ EXCEPT !.valid = FALSE]]
  BY DEF CloseEnd, Opened
<1>2. /\ World(pool, disk, pf_table) /\ disk \in PFDisks
      /\ HeadersTrue(disk, header) /\ HeadersFit(disk, pf_table, header, dir)
      /\ pf_table \in [Fd -> PFftab_ele]
  BY TypeParts DEF KInv, Sound
<1>3. c \in OpenIn(pf_table) /\ c \in Fd /\ u \in UnixFd
  BY <1>1, <1>2, ClosingIs DEF PFftab_ele
<1>4. disk'.data = disk.data /\ \A v \in UnixFd : v # u => disk'.open[v] = disk.open[v]
  BY <1>1, <1>2, <1>3 DEF PFDisks, DisksOver
<1>5. ~pf_table'[c].valid /\ \A a \in Fd : a # c => pf_table'[a] = pf_table[a]
  BY <1>1, <1>2, <1>3 DEF PFftab_ele
<1>6. OpenIn(pf_table') = OpenIn(pf_table) \ {c}
  BY <1>3, <1>5 DEF OpenIn
<1>7. ASSUME NEW a \in OpenIn(pf_table')
      PROVE  /\ a \in OpenIn(pf_table) /\ pf_table'[a] = pf_table[a]
             /\ FileIn(disk', pf_table', a) = FileIn(disk, pf_table, a)
  <2>1. a \in OpenIn(pf_table) /\ a # c /\ a \in Fd /\ pf_table'[a] = pf_table[a]
        /\ pf_table[a].unixfd \in UnixFd
    BY <1>2, <1>5, <1>6 DEF OpenIn, PFftab_ele
  <2>2. pf_table[a].unixfd # u
    BY <1>2, <1>3, <2>1 DEF World, FileIn
  <2> QED BY <1>4, <2>1, <2>2 DEF FileIn
<1>8. \A a \in OpenIn(pf_table') : SameEntry(disk, pf_table, disk', pf_table', a)
  BY <1>4, <1>7 DEF SameEntry
<1>9. HeadersTrue(disk', header') /\ HeadersFit(disk', pf_table', header', dir')
  <2>1. HeadersTrue(disk', header')
    BY <1>1, <1>2, <1>4 DEF HeadersTrue
  <2>2. \A a \in OpenIn(pf_table') :
          /\ header[FileIn(disk', pf_table', a)] \in 0..pf_table'[a].numpages
          /\ ~pf_table'[a].hdrchanged =>
               header[FileIn(disk', pf_table', a)] = pf_table'[a].numpages
          /\ dir[pf_table'[a].fname] = FileIn(disk', pf_table', a)
    BY <1>2, <1>7 DEF HeadersFit
  <2>3. HeadersFit(disk', pf_table', header, dir)
    BY <2>2 DEF HeadersFit
  <2> QED BY <1>1, <2>1, <2>3
<1>10. \A f \in Frame : On(pool, f) => pool.page[f].fd # c
  BY <1>1 DEF On, PagesOf
<1>11. /\ KRest
       /\ \A a \in OpenIn(pf_table') : \A k \in 1..pf_table[a].numpages :
            At(pool', disk', pf_table', a, k) = At(pool, disk, pf_table, a, k)
  <2>1. UNCHANGED <<pool, pins, use>> /\ closing' = NoFd
    BY <1>1
  <2>2. /\ \A a \in OpenIn(pf_table) :
             a \in OpenIn(pf_table') \/ \A f \in Frame : On(pool, f) => pool.page[f].fd # a
        /\ \A a \in OpenIn(pf_table) \cap OpenIn(pf_table') :
             SameEntry(disk, pf_table, disk', pf_table', a)
        /\ OpenIn(pf_table') \ OpenIn(pf_table) = {}
        /\ OpenIn(pf_table) \cap OpenIn(pf_table') = OpenIn(pf_table')
    BY <1>6, <1>8, <1>10
  <2> QED BY <1>9, <2>1, <2>2, FilesRest
<1>12. header[FileIn(disk, pf_table, c)] = pf_table[c].numpages
  BY <1>1, <1>2, <1>3 DEF HeadersFit
<1>13. \A k \in 1..pf_table[c].numpages :
         At(pool, disk, pf_table, c, k) = disk.data[<<FileIn(disk, pf_table, c), k>>]
  BY <1>1, ClosingFlushed
<1>14. \A a \in OpenIn(pf_table') : pf_table'[a].fname = pf_table[a].fname
  BY <1>7
<1> QED BY <1>1, <1>3, <1>4, <1>6, <1>8, <1>11, <1>12, <1>13, <1>14

-----------------------------------------------------------------------------
(* The process dies. *)

LEMMA CrashRest ==
  ASSUME KInv, TInv', KCrash
  PROVE  /\ KRest /\ UNCHANGED <<dir, header>> /\ disk'.data = disk.data
         /\ OpenIn(pf_table') = {}
<1>1. /\ pool' = EmptyPool /\ pf_table' = [fd \in Fd |-> NewEntry] /\ closing' = NoFd
      /\ disk' = [disk EXCEPT !.open = NoneOpen] /\ UNCHANGED <<dir, header>>
      /\ pins' = NoPins /\ use' = NoUse
  BY DEF KCrash, Crash
<1>2. /\ disk \in PFDisks /\ HeadersTrue(disk, header)
      /\ disk' \in PFDisks /\ pf_table' \in [Fd -> PFftab_ele]
  BY TypeParts, NextWorld DEF KInv, World
<1>3. OpenIn(pf_table') = {} /\ disk'.data = disk.data
  BY <1>1, <1>2 DEF OpenIn, NewEntry, PFDisks, DisksOver
<1>4. pins' \in Pinned /\ use' \in Uses /\ \A l \in Fd \X DataPage : pins'[l] = 0 /\ use'[l] = "idle"
  BY <1>1, CallerAssumption, PoolAssumption DEF NoPins, NoUse, Pinned, Uses
<1>5. Sound(pool', disk', pf_table', pins', use')
  BY <1>1, <1>2, <1>3, <1>4, EmptySound
<1>6. HeadersTrue(disk', header') /\ HeadersFit(disk', pf_table', header', dir')
  BY <1>1, <1>2, <1>3 DEF HeadersTrue, HeadersFit
<1>7. ClosingUnpinned'
  BY <1>1 DEF ClosingUnpinned
<1> QED BY <1>1, <1>3, <1>4, <1>5, <1>6, <1>7 DEF KRest

-----------------------------------------------------------------------------
(* All steps. *)

\* Callers that keep the rules are callers of PF.
LEMMA ClientIsCaller ==
  ASSUME bound \in Bounds, [KNext]_kvars
  PROVE  [Next]_vars
<1>1. bound.data \subseteq Data
  BY CallerAssumption
<1>2. ASSUME NEW fd \in Fd, ScanFirst(fd) \/ ScanNext(fd) \/ ScanEnd(fd)
      PROVE  Next
  <2>1. PF_GetFirstPage(fd) \/ PF_GetNextPage(fd) \/ GetFirstNone(fd) \/ GetNextNone(fd)
    BY <1>2 DEF ScanFirst, ScanNext, ScanEnd
  <2> QED BY <2>1 DEF Next
<1>3. ASSUME NEW fd \in Fd, NEW n \in DataPage, ReadPage(fd, n)
      PROVE  Next
  <2>1. PageCall(fd, n)
    BY <1>3 DEF ReadPage, PageCall
  <2> QED BY <2>1 DEF Next
<1>4. CASE KClose
  BY <1>4 DEF KClose, Next
<1>5. CASE KCrash
  BY <1>5 DEF KCrash, Next
<1>6. ASSUME NEW name \in Name, KFile(name)
      PROVE  Next
  BY <1>6 DEF KFile, Next
<1>7. ASSUME NEW fd \in Fd, KAlloc(fd)
      PROVE  Next
  BY <1>7 DEF KAlloc, Next
<1>8. ASSUME NEW fd \in Fd, NEW n \in DataPage,
             \/ KDirty(fd, n)
             \/ \E dirty \in BOOLEAN : KUnpin(fd, n, dirty)
      PROVE  Next
  <2>1. PageCall(fd, n)
    BY <1>8 DEF KDirty, KUnpin, PageCall
  <2> QED BY <2>1 DEF Next
<1>9. ASSUME NEW fd \in Fd, NEW n \in DataPage, NEW v \in bound.data, KStore(fd, n, v)
      PROVE  Next
  <2>1. StorePage(fd, n, v) /\ v \in Data
    BY <1>1, <1>9 DEF KStore
  <2> QED BY <2>1 DEF Next
<1>10. CASE UNCHANGED kvars
  BY <1>10 DEF kvars, vars
<1> QED BY <1>2, <1>3, <1>4, <1>5, <1>6, <1>7, <1>8, <1>9, <1>10 DEF KNext

LEMMA InitKInv == KInit => KInv /\ bound \in Bounds
<1> SUFFICES ASSUME KInit PROVE KInv /\ bound \in Bounds
  OBVIOUS
<1>1. /\ TInv /\ pool = EmptyPool /\ closing = NoFd /\ pf_table = [fd \in Fd |-> NewEntry]
      /\ header = [i \in Inode |-> -1] /\ pins = NoPins /\ use = NoUse /\ bound \in Bounds
  BY InitTInv DEF KInit, Init, PF_Init
<1>2. disk \in PFDisks /\ pf_table \in [Fd -> PFftab_ele]
  BY <1>1, TypeParts
<1>3. OpenIn(pf_table) = {}
  BY <1>1 DEF OpenIn, NewEntry
<1>4. pins \in Pinned /\ use \in Uses /\ \A l \in Fd \X DataPage : pins[l] = 0 /\ use[l] = "idle"
  BY <1>1, CallerAssumption, PoolAssumption DEF NoPins, NoUse, Pinned, Uses
<1>5. Sound(pool, disk, pf_table, pins, use)
  BY <1>1, <1>2, <1>3, <1>4, EmptySound
<1>6. HeadersTrue(disk, header) /\ HeadersFit(disk, pf_table, header, dir)
  BY <1>1, <1>3 DEF HeadersTrue, HeadersFit
<1> QED BY <1>1, <1>4, <1>5, <1>6 DEF KInv, ClosingUnpinned

\* A call on files.
LEMMA FileRest ==
  ASSUME KInv, TInv', NEW name \in Name, KFile(name)
  PROVE  KRest
<1>1. UNCHANGED <<pins, use>>
  BY DEF KFile, Kept
<1>2. CASE CreateExists(name) \/ DestroyMissing(name) \/ OpenMissing(name)
  <2>1. UNCHANGED <<pool, disk, dir, header, pf_table, pins, use>> /\ closing' = NoFd
    BY <1>1, <1>2 DEF CreateExists, DestroyMissing, OpenMissing, Refuses, Returns, unix
  <2> QED BY <2>1, RefusedRest
<1>3. CASE CreateTableFull(name) \/ PF_CreateFile(name)
  BY <1>1, <1>3, CreateRest
<1>4. CASE PF_DestroyFile(name)
  <2>1. \A a \in OpenIn(pf_table) : pf_table[a].fname # name
    BY <1>4 DEF KFile, OpenIn
  <2> QED BY <1>1, <1>4, <2>1, DestroyRest
<1>5. CASE OpenRefused(name) \/ OpenNoHeader(name)
  BY <1>1, <1>5, OpenFailsRest
<1>6. CASE PF_OpenFile(name)
  BY <1>1, <1>6, OpenRest
<1> QED BY <1>2, <1>3, <1>4, <1>5, <1>6 DEF KFile, FileCall

LEMMA CloseRest ==
  ASSUME KInv, TInv', KClose
  PROVE  KRest
<1>1. UNCHANGED <<pins, use>>
  BY DEF KClose, Kept
<1>2. ASSUME NEW fd \in Fd, CloseRefused(fd)
      PROVE  KRest
  <2>1. UNCHANGED <<pool, disk, dir, header, pf_table, pins, use>> /\ closing' = NoFd
    BY <1>1, <1>2 DEF CloseRefused, Refuses, Returns, unix
  <2> QED BY <2>1, RefusedRest
<1>3. ASSUME NEW fd \in Fd, CloseBegin(fd)
      PROVE  KRest
  BY <1>1, <1>3, CloseBeginRest
<1>4. CASE CloseFlush
  BY <1>1, <1>4, CloseFlushRest
<1>5. CASE CloseHeader
  BY <1>1, <1>5, CloseHeaderRest
<1>6. CASE CloseEnd
  BY <1>1, <1>6, CloseEndRest
<1> QED BY <1>2, <1>3, <1>4, <1>5, <1>6 DEF KClose, CloseCall

LEMMA NextKInv ==
  ASSUME KInv, bound \in Bounds, [KNext]_kvars
  PROVE  KInv' /\ bound' \in Bounds
<1>1. TInv'
  BY ClientIsCaller, NextTInv DEF KInv
<1>2. ASSUME NEW fd \in Fd, ScanFirst(fd) \/ ScanNext(fd)
      PROVE  KRest
  BY <1>1, <1>2, ScanFirstRest, ScanNextRest
<1>3. ASSUME NEW fd \in Fd, ScanEnd(fd)
      PROVE  KRest
  <2>1. UNCHANGED <<pool, disk, dir, header, pf_table, pins, use>> /\ closing' = NoFd
    BY <1>3 DEF ScanEnd, GetFirstNone, GetNextNone, Refuses, Returns, unix, Kept
  <2> QED BY <2>1, RefusedRest
<1>4. ASSUME NEW fd \in Fd, NEW n \in DataPage, ReadPage(fd, n)
      PROVE  KRest
  BY <1>1, <1>4, ReadRest
<1>5. ASSUME KClose
      PROVE  KRest
  BY <1>1, <1>5, CloseRest
<1>6. ASSUME KCrash
      PROVE  KRest
  BY <1>1, <1>6, CrashRest
<1>7. ASSUME NEW name \in Name, KFile(name)
      PROVE  KRest
  BY <1>1, <1>7, FileRest
<1>8. ASSUME NEW fd \in Fd, KAlloc(fd)
      PROVE  KRest
  <2>1. CASE AllocRefused(fd) /\ Kept
    <3>1. UNCHANGED <<pool, disk, dir, header, pf_table, pins, use>> /\ closing' = NoFd
      BY <2>1 DEF AllocRefused, Refuses, Returns, unix, Kept
    <3> QED BY <3>1, RefusedRest
  <2>2. CASE ~(AllocRefused(fd) /\ Kept)
    <3>0. PICK n : n = pf_table[fd].numpages
      OBVIOUS
    <3>1. /\ IsOpen(fd) /\ n < bound.pages
          /\ PF_AllocPage(fd) /\ Pins(fd, n) /\ Used(fd, n, "touched")
      BY <1>8, <2>2, <3>0 DEF KAlloc, Used
    <3> QED BY <1>1, <3>0, <3>1, AllocRest
  <2> QED BY <2>1, <2>2
<1>9. ASSUME NEW fd \in Fd, NEW n \in DataPage, KDirty(fd, n)
      PROVE  KRest
  BY <1>1, <1>9, DirtyRest
<1>10. ASSUME NEW fd \in Fd, NEW n \in DataPage, NEW dirty \in BOOLEAN, KUnpin(fd, n, dirty)
       PROVE  KRest
  BY <1>1, <1>10, UnpinRest
<1>11. ASSUME NEW fd \in Fd, NEW n \in DataPage, NEW v \in bound.data, KStore(fd, n, v)
       PROVE  KRest
  <2>1. v \in Data
    BY CallerAssumption
  <2> QED BY <1>1, <1>11, <2>1, StoreRest
<1>12. ASSUME UNCHANGED kvars
       PROVE  KRest
  BY <1>12 DEF kvars, KInv, KRest, ClosingUnpinned
<1>13. KRest
  BY <1>2, <1>3, <1>4, <1>5, <1>6, <1>7, <1>8, <1>9, <1>10, <1>11, <1>12 DEF KNext
<1>14. bound' = bound
  BY DEF KNext, kvars
<1> QED BY <1>1, <1>13, <1>14 DEF KInv, KRest

-----------------------------------------------------------------------------
(* What callers rely on. *)

LEMMA PageThere ==
  ASSUME KInv, NEW fd \in OpenIn(pf_table), NEW k \in 1..pf_table[fd].numpages
  PROVE  At(pool, disk, pf_table, fd, k) # Absent
<1>1. /\ World(pool, disk, pf_table) /\ PoolOK(pool) /\ There(pool, disk, pf_table)
  BY DEF KInv, Sound, World
<1>2. CASE \E f : Has(pool, f, fd, k)
  <2>1. PICK f : Has(pool, f, fd, k)
    BY <1>2
  <2>2. At(pool, disk, pf_table, fd, k) \in Data
    BY <1>1, <2>1, AtHas
  <2> QED BY <2>2, PoolAssumption
<1>3. CASE ~\E f : Has(pool, f, fd, k)
  <2>1. disk.data[<<FileIn(disk, pf_table, fd), k>>] # Absent
    BY <1>1, <1>3 DEF There
  <2> QED BY <1>1, <1>3, <2>1, AtFile
<1> QED BY <1>2, <1>3

LEMMA KInvReads ==
  ASSUME KInv
  PROVE  PagesReadable
<1>1. pf_table \in [Fd -> PFftab_ele] /\ dir \in [Name -> Inode \cup {NoInode}]
      /\ HeadersTrue(disk, header)
  BY TypeParts DEF KInv
<1>2. ASSUME NEW fd \in OpenFds, NEW n \in 0..(pf_table[fd].numpages - 1)
      PROVE  View(fd, n) # Absent
  <2>1. fd \in OpenIn(pf_table) /\ pf_table[fd].numpages \in 0..MaxPages
    BY <1>1 DEF OpenFds, OpenIn, PFftab_ele
  <2>2. n + 1 \in 1..pf_table[fd].numpages
    BY <2>1, PFAssumption
  <2>3. View(fd, n) = At(pool, disk, pf_table, fd, n + 1)
    BY DEF View, InPool, At
  <2> QED BY <2>1, <2>2, <2>3, PageThere
<1>3. \A name \in Name : dir[name] # NoInode =>
        \A n \in 1..header[dir[name]] : disk.data[<<dir[name], n>>] # Absent
  BY <1>1 DEF HeadersTrue
<1> QED BY <1>2, <1>3 DEF PagesReadable

LEMMA KInvPins ==
  ASSUME KInv
  PROVE  PinsAgree
<1>1. PoolOK(pool) /\ Counted(pool, pins) /\ pins \in Pinned
  BY DEF KInv, Sound, World
<1> SUFFICES ASSUME NEW fd \in Fd, NEW n \in DataPage
             PROVE  IF InPool(fd, n)
                    THEN pool.page[FrameOf(pool, fd, n + 1)].count = pins[<<fd, n>>]
                    ELSE pins[<<fd, n>>] = 0
  BY DEF PinsAgree
<1>2. CASE InPool(fd, n)
  <2>0. PICK f : f = FrameOf(pool, fd, n + 1)
    OBVIOUS
  <2>1. Has(pool, f, fd, n + 1)
    BY <1>1, <1>2, <2>0, FoundHas DEF InPool
  <2>2. f \in Frame /\ On(pool, f) /\ Key(pool.page[f]) = <<fd, n>>
    BY <2>1, PFAssumption DEF Has, Key, DataPage
  <2> QED BY <1>1, <1>2, <2>0, <2>2 DEF Counted
<1>3. CASE ~InPool(fd, n)
  <2>1. \A f : ~Has(pool, f, fd, n + 1)
    BY <1>1, <1>3, HasFound DEF InPool
  <2>2. ~(pins[<<fd, n>>] > 0)
    BY <1>1, <2>1 DEF Counted
  <2>3. pins[<<fd, n>>] \in 0..MaxPins
    BY <1>1 DEF Pinned
  <2> QED BY <1>3, <2>2, <2>3, CallerAssumption, PoolAssumption
<1> QED BY <1>2, <1>3

LEMMA KInvOwned ==
  ASSUME KInv
  PROVE  NoStalePages
<1>0. \A n \in Int : \A k \in 1..n : k <= n
  OBVIOUS
<1>1. Owned(pool, pf_table) /\ OpenFds = OpenIn(pf_table) /\ pool \in Pools
      /\ pf_table \in [Fd -> PFftab_ele]
  BY OpenWorld DEF KInv, Sound, World, PoolOK
<1> SUFFICES ASSUME NEW i \in DOMAIN pool.lru, NEW page, page = pool.page[pool.lru[i]]
             PROVE  page.fd \in OpenFds /\ page.page_num <= pf_table[page.fd].numpages
  BY DEF NoStalePages
<1>2. pool.lru[i] \in Frame /\ On(pool, pool.lru[i])
  BY <1>1 DEF Pools, On
<1>3. page.fd \in OpenIn(pf_table) /\ page.page_num \in 1..pf_table[page.fd].numpages
  BY <1>1, <1>2 DEF Owned
<1>4. pf_table[page.fd].numpages \in Int
  <2>1. pf_table[page.fd] \in PFftab_ele
    BY <1>1, <1>3 DEF OpenIn
  <2> QED BY <2>1, PFAssumption DEF PFftab_ele
<1> QED BY <1>0, <1>1, <1>3, <1>4

(* For every size of the pool and of the file table, any number of pages    *)
(* and pins, and whatever is opened, evicted or lost in crashes: a page     *)
(* below the page count of a file can be read.  It is in the pool or in the *)
(* Unix file, and a header never counts a page that has not been written    *)
(* (pf.c:189-200, bf.c:236).                                                *)
THEOREM CountedPagesCanBeRead == KSpec => []PagesReadable
<1>1. (KInv /\ bound \in Bounds) /\ [KNext]_kvars => (KInv /\ bound \in Bounds)'
  BY NextKInv
<1> QED BY InitKInv, KInvReads, <1>1, PTL DEF KSpec

(* The pool counts the pins that the callers hold, through eviction, reuse  *)
(* of table entries, Unix descriptors and frames, failed reads, and the     *)
(* flush of PF_CloseFile: a file is refused or closed as its callers left   *)
(* it (pf.c:189, bf.c:310-345).                                             *)
THEOREM PoolCountsPins == KSpec => []PinsAgree
<1>1. (KInv /\ bound \in Bounds) /\ [KNext]_kvars => (KInv /\ bound \in Bounds)'
  BY NextKInv
<1> QED BY InitKInv, KInvPins, <1>1, PTL DEF KSpec

(* PF_CloseFile leaves nothing of the file in the pool, so that the next    *)
(* file under the same descriptor cannot find a page of the last one        *)
(* (bf.c:424-439, pf.c:189-204).                                            *)
THEOREM ClosedFilesLeaveThePool == KSpec => []NoStalePages
<1>1. (KInv /\ bound \in Bounds) /\ [KNext]_kvars => (KInv /\ bound \in Bounds)'
  BY NextKInv
<1> QED BY InitKInv, KInvOwned, <1>1, PTL DEF KSpec

-----------------------------------------------------------------------------
(* Scans. *)

\* The cursor in the file table is right after the page the scan got last, or
\* back at the first page.
Due(fd) == IF fd \in again THEN 0 ELSE at[fd] + 1

Cursors ==
  /\ at \in [Fd -> -1..MaxPages]
  /\ \A fd \in Fd : at[fd] # -1 =>
       /\ IsOpen(fd) /\ pf_table[fd].offset = Due(fd)
       /\ at[fd] < pf_table[fd].numpages

\* Entries that stay open keep their cursors, and lose no pages.
CursorsStay ==
  \A fd \in Fd : IsOpen(fd) /\ pf_table'[fd].valid =>
    /\ pf_table'[fd].inode = fd /\ pf_table'[fd].offset = pf_table[fd].offset
    /\ pf_table'[fd].numpages >= pf_table[fd].numpages

LEMMA RestartCursors ==
  ASSUME KInv, Cursors, TInv', CursorsStay, Restarts
  PROVE  Cursors'
<1>1. at' \in [Fd -> -1..MaxPages]
  BY PFAssumption DEF Cursors, Restarts
<1>2. ASSUME NEW fd \in Fd, at'[fd] # -1
      PROVE  /\ IsOpen(fd)' /\ pf_table'[fd].offset = Due(fd)'
             /\ at'[fd] < pf_table'[fd].numpages
  <2>1. IsOpen(fd) /\ pf_table'[fd].valid /\ at'[fd] = at[fd] /\ (fd \in again' <=> fd \in again)
    BY <1>2 DEF Restarts
  <2>2. /\ pf_table'[fd].inode = fd /\ pf_table'[fd].offset = pf_table[fd].offset
        /\ pf_table'[fd].numpages >= pf_table[fd].numpages
    BY <2>1 DEF CursorsStay
  <2>3. pf_table[fd].numpages \in 0..MaxPages /\ pf_table'[fd].numpages \in 0..MaxPages
    BY TypeParts, NextWorld DEF KInv, World, PFftab_ele
  <2>7. at[fd] \in -1..MaxPages
    BY DEF Cursors
  <2>4. pf_table[fd].offset = Due(fd) /\ at[fd] < pf_table[fd].numpages
    BY <1>2, <2>1 DEF Cursors
  <2>5. at'[fd] < pf_table'[fd].numpages
    BY <2>1, <2>2, <2>3, <2>4, <2>7, PFAssumption
  <2>6. Due(fd)' = Due(fd)
    BY <2>1 DEF Due
  <2> QED BY <2>1, <2>2, <2>4, <2>5, <2>6 DEF IsOpen
<1> QED BY <1>1, <1>2 DEF Cursors

LEMMA SameTableStays ==
  ASSUME KInv, UNCHANGED pf_table
  PROVE  CursorsStay
<1>1. \A fd \in Fd : pf_table[fd].numpages \in Int
  BY TypeParts DEF KInv, PFftab_ele
<1> QED BY <1>1 DEF CursorsStay, IsOpen

\* An entry that was not open is written, or an open one without its cursor.
LEMMA OtherEntryStays ==
  ASSUME KInv, NEW c \in Fd, NEW g,
         pf_table' = [pf_table EXCEPT ![c] = g],
         IsOpen(c) /\ g.valid =>
           /\ g.inode = c /\ g.offset = pf_table[c].offset
           /\ g.numpages >= pf_table[c].numpages
  PROVE  CursorsStay
<1>1. pf_table \in [Fd -> PFftab_ele]
  BY TypeParts DEF KInv
<1>2. pf_table'[c] = g /\ \A fd \in Fd : fd # c => pf_table'[fd] = pf_table[fd]
  BY <1>1
<1>3. \A fd \in Fd : pf_table[fd].numpages \in Int
  BY <1>1 DEF PFftab_ele
<1> QED BY <1>2, <1>3 DEF CursorsStay, IsOpen

LEMMA FileCursors ==
  ASSUME KInv, NEW name \in Name, KFile(name)
  PROVE  CursorsStay
<1>1. CASE PF_CreateFile(name)
  <2>1. FreeEntries # {} /\ pf_table' = [pf_table EXCEPT ![FirstFree] =
                    [@ EXCEPT !.inode = FirstFree, !.fname = name,
                              !.unixfd = NewUnixFd, !.numpages = 0, !.offset = 0]]
    BY <1>1 DEF PF_CreateFile
  <2>2. FirstFree \in Fd /\ ~IsOpen(FirstFree)
    BY <2>1, FreeEntryFound DEF IsOpen
  <2> QED BY <2>1, <2>2, OtherEntryStays
<1>2. CASE PF_OpenFile(name)
  <2>1. FreeEntries # {} /\ pf_table' = [pf_table EXCEPT ![FirstFree] =
                    [valid |-> TRUE, inode |-> FirstFree, fname |-> name,
                     unixfd |-> NewUnixFd, numpages |-> header[dir[name]],
                     offset |-> 0, hdrchanged |-> FALSE]]
    BY <1>2 DEF PF_OpenFile
  <2>2. FirstFree \in Fd /\ ~IsOpen(FirstFree)
    BY <2>1, FreeEntryFound DEF IsOpen
  <2> QED BY <2>1, <2>2, OtherEntryStays
<1>3. CASE UNCHANGED pf_table
  BY <1>3, SameTableStays
<1> QED BY <1>1, <1>2, <1>3
  DEF KFile, FileCall, CreateExists, CreateTableFull, PF_DestroyFile, DestroyMissing,
      OpenMissing, OpenRefused, OpenNoHeader, OpenFails, Refuses

LEMMA EntryParts ==
  ASSUME KInv, NEW fd \in Fd
  PROVE  LET g == pf_table[fd] IN
         /\ g \in PFftab_ele /\ g.numpages \in Int
         /\ [g EXCEPT !.hdrchanged = FALSE].inode = g.inode
         /\ [g EXCEPT !.hdrchanged = FALSE].offset = g.offset
         /\ [g EXCEPT !.hdrchanged = FALSE].numpages = g.numpages
         /\ [g EXCEPT !.valid = FALSE].valid = FALSE
         /\ \A n : /\ [[g EXCEPT !.numpages = n] EXCEPT !.hdrchanged = TRUE].inode = g.inode
                   /\ [[g EXCEPT !.numpages = n] EXCEPT !.hdrchanged = TRUE].offset = g.offset
                   /\ [[g EXCEPT !.numpages = n] EXCEPT !.hdrchanged = TRUE].numpages = n
<1> PICK g : g = pf_table[fd]
  OBVIOUS
<1>1. g \in PFftab_ele
  BY TypeParts DEF KInv
<1> QED BY <1>1 DEF PFftab_ele

LEMMA CloseCursors ==
  ASSUME KInv, KClose
  PROVE  CursorsStay
<1>1. CASE CloseHeader
  <2>1. closing \in Fd /\ pf_table' =
          [pf_table EXCEPT ![closing] = [pf_table[closing] EXCEPT !.hdrchanged = FALSE]]
    BY <1>1, ClosingIs DEF CloseHeader
  <2>0. PICK g : g = [pf_table[closing] EXCEPT !.hdrchanged = FALSE]
    OBVIOUS
  <2>2. /\ pf_table' = [pf_table EXCEPT ![closing] = g] /\ pf_table[closing].numpages \in Int
        /\ g.inode = pf_table[closing].inode /\ g.offset = pf_table[closing].offset
        /\ g.numpages = pf_table[closing].numpages
    BY <2>0, <2>1, EntryParts
  <2>3. IsOpen(closing) => /\ g.inode = closing /\ g.offset = pf_table[closing].offset
                           /\ g.numpages >= pf_table[closing].numpages
    BY <2>2 DEF IsOpen
  <2> QED BY <2>1, <2>2, <2>3, OtherEntryStays
<1>2. CASE CloseEnd
  <2>1. closing \in Fd /\ pf_table' =
          [pf_table EXCEPT ![closing] = [pf_table[closing] EXCEPT !.valid = FALSE]]
    BY <1>2, ClosingIs DEF CloseEnd
  <2> QED BY <2>1, EntryParts, OtherEntryStays
<1>3. CASE UNCHANGED pf_table
  BY <1>3, SameTableStays
<1> QED BY <1>1, <1>2, <1>3 DEF KClose, CloseCall, CloseRefused, CloseBegin, CloseFlush, Refuses

LEMMA AllocCursors ==
  ASSUME KInv, NEW fd \in Fd, KAlloc(fd)
  PROVE  CursorsStay
<1>1. CASE PF_AllocPage(fd)
  <2> PICK n : n = pf_table[fd].numpages
    OBVIOUS
  <2>1. pf_table' = [pf_table EXCEPT ![fd] =
                      [[pf_table[fd] EXCEPT !.numpages = n + 1] EXCEPT !.hdrchanged = TRUE]]
    BY <1>1 DEF PF_AllocPage
  <2>2. n \in Int /\ n + 1 >= n
    BY EntryParts
  <2>0. PICK g : g = [[pf_table[fd] EXCEPT !.numpages = n + 1] EXCEPT !.hdrchanged = TRUE]
    OBVIOUS
  <2>3. /\ pf_table' = [pf_table EXCEPT ![fd] = g]
        /\ g.inode = pf_table[fd].inode /\ g.offset = pf_table[fd].offset
        /\ g.numpages = n + 1
    BY <2>0, <2>1, EntryParts
  <2>4. IsOpen(fd) => /\ g.inode = fd /\ g.offset = pf_table[fd].offset
                      /\ g.numpages >= pf_table[fd].numpages
    BY <2>2, <2>3 DEF IsOpen
  <2> QED BY <2>3, <2>4, OtherEntryStays
<1>2. CASE UNCHANGED pf_table
  BY <1>2, SameTableStays
<1> QED BY <1>1, <1>2 DEF KAlloc, AllocRefused, Refuses

\* A call that is passed the cursor of one file.
LEMMA ScanCursors ==
  ASSUME KInv, Cursors, NEW fd \in Fd, NEW n, NEW last, IsOpen(fd), Cursor(fd, n),
         at' = [at EXCEPT ![fd] = last], last \in -1..MaxPages,
         \A a \in Fd : a # fd => (a \in again' <=> a \in again),
         last # -1 => /\ n = IF fd \in again' THEN 0 ELSE last + 1
                      /\ last < pf_table[fd].numpages
  PROVE  Cursors'
<1>1. pf_table \in [Fd -> PFftab_ele] /\ at \in [Fd -> -1..MaxPages]
  BY TypeParts DEF KInv, Cursors
<1>2. \A a \in Fd : a # fd => pf_table'[a] = pf_table[a] /\ at'[a] = at[a]
  BY <1>1 DEF Cursor
<1>3. /\ pf_table'[fd].valid = pf_table[fd].valid /\ pf_table'[fd].inode = pf_table[fd].inode
      /\ pf_table'[fd].numpages = pf_table[fd].numpages /\ pf_table'[fd].offset = n
      /\ at'[fd] = last
  BY <1>1 DEF Cursor, PFftab_ele
<1>4. at' \in [Fd -> -1..MaxPages]
  BY <1>1
<1>5. ASSUME NEW a \in Fd, at'[a] # -1
      PROVE  /\ IsOpen(a)' /\ pf_table'[a].offset = Due(a)'
             /\ at'[a] < pf_table'[a].numpages
  <2>1. CASE a = fd
    BY <1>3, <1>5, <2>1 DEF IsOpen, Due
  <2>2. CASE a # fd
    BY <1>2, <1>5, <2>2 DEF Cursors, IsOpen, Due
  <2> QED BY <2>1, <2>2
<1> QED BY <1>4, <1>5 DEF Cursors

LEMMA ScanFirstCursors ==
  ASSUME KInv, Cursors, NEW fd \in Fd, ScanFirst(fd)
  PROVE  Cursors'
<1>1. /\ pf_table[fd].numpages \in 0..MaxPages /\ MaxPages \in Nat
      /\ at \in [Fd -> -1..MaxPages]
  BY TypeParts, PFAssumption DEF KInv, PFftab_ele, Cursors
<1>2. /\ IsOpen(fd) /\ pf_table[fd].numpages > 0
      /\ \A a \in Fd : a # fd => (a \in again' <=> a \in again)
  BY DEF ScanFirst, PF_GetFirstPage
<1>3. CASE Cursor(fd, 1) /\ rc' = PFE_OK
  <2>1. at' = [at EXCEPT ![fd] = 0] /\ fd \notin again'
    BY <1>3 DEF ScanFirst, Moves
  <2>2. 0 \in -1..MaxPages /\ 1 = 0 + 1 /\ 0 < pf_table[fd].numpages
    BY <1>1, <1>2
  <2> QED BY <1>2, <1>3, <2>1, <2>2, ScanCursors
<1>4. CASE Cursor(fd, 0) /\ rc' = PFE_GETNEXT
  <2>1. at' = [at EXCEPT ![fd] = at[fd]] /\ fd \in again'
    BY <1>4 DEF ScanFirst, Moves, PFE_OK, PFE_GETNEXT
  <2>2. at[fd] \in -1..MaxPages /\ (at[fd] # -1 => at[fd] < pf_table[fd].numpages)
    BY <1>1 DEF Cursors
  <2> QED BY <1>2, <1>4, <2>1, <2>2, ScanCursors
<1> QED BY <1>3, <1>4 DEF ScanFirst, PF_GetFirstPage, Returns

LEMMA ScanNextCursors ==
  ASSUME KInv, Cursors, NEW fd \in Fd, ScanNext(fd)
  PROVE  Cursors' /\ (rc' = PFE_OK => at'[fd] = Due(fd))
<1> PICK n : n = pf_table[fd].offset
  OBVIOUS
<1>1. /\ pf_table[fd].numpages \in 0..MaxPages /\ MaxPages \in Nat /\ n \in 0..MaxPages
      /\ at \in [Fd -> -1..MaxPages]
  BY TypeParts, PFAssumption DEF KInv, PFftab_ele, Cursors
<1>2. /\ IsOpen(fd) /\ n < pf_table[fd].numpages /\ at[fd] # -1 /\ n = Due(fd)
      /\ \A a \in Fd : a # fd => (a \in again' <=> a \in again)
  BY DEF ScanNext, PF_GetNextPage, Cursors
<1>3. CASE Cursor(fd, n + 1) /\ rc' = PFE_OK
  <2>1. at' = [at EXCEPT ![fd] = n] /\ fd \notin again'
    BY <1>3 DEF ScanNext, Moves
  <2>2. n \in -1..MaxPages /\ n < pf_table[fd].numpages
    BY <1>1, <1>2
  <2>3. Cursors'
    BY <1>2, <1>3, <2>1, <2>2, ScanCursors
  <2>4. at'[fd] = n
    BY <1>1, <2>1
  <2> QED BY <1>2, <2>3, <2>4
<1>4. CASE Cursor(fd, n) /\ rc' = PFE_GETNEXT
  <2>1. at' = [at EXCEPT ![fd] = at[fd]] /\ (fd \in again' <=> fd \in again)
    BY <1>4 DEF ScanNext, Moves, PFE_OK, PFE_GETNEXT
  <2>2. /\ at[fd] \in -1..MaxPages /\ at[fd] < pf_table[fd].numpages
        /\ n = IF fd \in again' THEN 0 ELSE at[fd] + 1
    BY <1>1, <1>2, <2>1 DEF Due, Cursors
  <2>3. Cursors'
    BY <1>2, <1>4, <2>1, <2>2, ScanCursors
  <2> QED BY <1>4, <2>3 DEF PFE_OK, PFE_GETNEXT
<1> QED BY <1>3, <1>4 DEF ScanNext, PF_GetNextPage, Returns

LEMMA NextCursors ==
  ASSUME KInv, bound \in Bounds, Cursors, [KNext]_kvars
  PROVE  Cursors'
<1>1. TInv'
  BY ClientIsCaller, NextTInv DEF KInv
<1>2. ASSUME NEW fd \in Fd, ScanFirst(fd) \/ ScanNext(fd)
      PROVE  Cursors'
  BY <1>2, ScanFirstCursors, ScanNextCursors
<1>3. ASSUME UNCHANGED <<pf_table, at, again>>
      PROVE  Cursors'
  BY <1>3 DEF Cursors, Due, IsOpen
<1>4. ASSUME NEW fd \in Fd, ScanEnd(fd) \/ \E n \in DataPage : ReadPage(fd, n)
      PROVE  Cursors'
  <2>1. UNCHANGED <<pf_table, at, again>>
    BY <1>4 DEF ScanEnd, ReadPage, GetFirstNone, GetNextNone, GetThisInvalid,
                PF_GetThisPage, Refuses
  <2> QED BY <1>3, <2>1
<1>5. ASSUME CursorsStay, Restarts
      PROVE  Cursors'
  BY <1>1, <1>5, RestartCursors
<1>6. ASSUME KClose
      PROVE  CursorsStay
  BY <1>6, CloseCursors
<1>7. ASSUME KCrash
      PROVE  CursorsStay
  BY <1>7 DEF KCrash, Crash, NewEntry, CursorsStay
<1>8. ASSUME NEW name \in Name, KFile(name)
      PROVE  CursorsStay
  BY <1>8, FileCursors
<1>9. ASSUME NEW fd \in Fd, KAlloc(fd)
      PROVE  CursorsStay
  BY <1>9, AllocCursors
<1>10. ASSUME NEW fd \in Fd, NEW n \in DataPage,
              \/ KDirty(fd, n)
              \/ \E dirty \in BOOLEAN : KUnpin(fd, n, dirty)
              \/ \E v \in bound.data : KStore(fd, n, v)
       PROVE  CursorsStay
  <2>1. UNCHANGED pf_table
    BY <1>10 DEF KDirty, KUnpin, KStore, PF_DirtyPage, PF_UnpinPage, StorePage
  <2> QED BY <2>1, SameTableStays
<1>11. ASSUME UNCHANGED kvars
       PROVE  Cursors'
  BY <1>3, <1>11 DEF kvars
<1> QED BY <1>2, <1>4, <1>5, <1>6, <1>7, <1>8, <1>9, <1>10, <1>11 DEF KNext

ScanInv == KInv /\ bound \in Bounds /\ Cursors

LEMMA ScanInvariant == KSpec => []ScanInv
<1>1. KInit => ScanInv
  BY InitKInv, PFAssumption DEF ScanInv, Cursors, KInit
<1>2. ScanInv /\ [KNext]_kvars => ScanInv'
  BY NextKInv, NextCursors DEF ScanInv
<1> QED BY <1>1, <1>2, PTL DEF KSpec

(* The cursor that PF keeps for the file is right after the page that the  *)
(* scan got last, whatever other calls run on the file and whether or not   *)
(* PF_GetNextPage failed in between, or it is back at page 0 because a      *)
(* PF_GetFirstPage failed; nothing else moves it (pf.c:309-343).            *)
THEOREM ScansAreInOrder == KSpec => NextIsRightAfter
<1>1. ScanInv => \A fd \in Fd : ScanNext(fd) /\ rc' = PFE_OK =>
                   at'[fd] = IF fd \in again THEN 0 ELSE at[fd] + 1
  BY ScanNextCursors DEF ScanInv, Due
<1> QED BY <1>1, ScanInvariant, PTL DEF NextIsRightAfter

(* And it ends only when it has got the last page (pf.c:334).               *)
THEOREM ScansAreComplete == KSpec => EndsAtLastPage
<1>1. ASSUME ScanInv, NEW fd \in Fd, ScanEnd(fd), IsOpen(fd), rc' = PFE_EOF
      PROVE  at[fd] = pf_table[fd].numpages - 1
  <2>1. /\ pf_table[fd].numpages \in 0..MaxPages /\ MaxPages \in Nat
        /\ at[fd] \in -1..MaxPages /\ pf_table[fd].offset \in 0..MaxPages
    BY <1>1, TypeParts, PFAssumption DEF ScanInv, KInv, PFftab_ele, Cursors
  <2>2. CASE at[fd] = -1
    <3>1. pf_table[fd].numpages = 0
      BY <1>1, <2>2 DEF ScanEnd, GetFirstNone
    <3> QED BY <2>2, <3>1
  <2>3. CASE at[fd] # -1
    <3>1. pf_table[fd].offset >= pf_table[fd].numpages
      BY <1>1, <2>3 DEF ScanEnd, GetNextNone
    <3>2. pf_table[fd].offset = Due(fd) /\ at[fd] < pf_table[fd].numpages
      BY <1>1, <2>3 DEF ScanInv, Cursors
    <3>3. fd \notin again
      BY <2>1, <2>3, <3>1, <3>2 DEF Due
    <3> QED BY <2>1, <3>1, <3>2, <3>3 DEF Due
  <2> QED BY <2>2, <2>3
<1>2. ScanInv => \A fd \in Fd : ScanEnd(fd) /\ IsOpen(fd) /\ rc' = PFE_EOF =>
                   at[fd] = pf_table[fd].numpages - 1
  BY <1>1
<1> QED BY <1>2, ScanInvariant, PTL DEF EndsAtLastPage

-----------------------------------------------------------------------------
(* PF is a file store. *)

\* The pages of the file that a name leads to.
FileNow(p, d, t, h, names, n) ==
  LET fds == {fd \in OpenIn(t) : FileIn(d, t, fd) = names[n]} IN
  IF names[n] = NoInode THEN Missing
  ELSE IF h[names[n]] = -1 THEN Missing
  ELSE IF fds = {} THEN [i \in 1..h[names[n]] |-> d.data[<<names[n], i>>]]
  ELSE LET fd == CHOOSE fd \in fds : TRUE
       IN [i \in 1..t[fd].numpages |-> At(p, d, t, fd, i)]

\* What the file store sees.
FilesNow(p, d, t, h, names) == [n \in Name |-> FileNow(p, d, t, h, names, n)]
NamesOpen(t) == {t[fd].fname : fd \in OpenIn(t)}

\* A file is open under the name it was opened by.
NamesFit(d, t, h, names) ==
  /\ HeadersFit(d, t, h, names) /\ h \in [Inode -> -1..MaxPages]
  /\ names \in [Name -> Inode \cup {NoInode}]
  /\ \A fd \in OpenIn(t) : t[fd].fname \in Name

LEMMA ViewIsAt ==
  ASSUME NEW fd, NEW i \in Int
  PROVE  /\ View(fd, i - 1) = At(pool, disk, pf_table, fd, i)
         /\ View(fd, i - 1)' = At(pool', disk', pf_table', fd, i)
<1>1. (i - 1) + 1 = i
  OBVIOUS
<1> QED BY <1>1 DEF View, InPool, At

LEMMA PagesAre ==
  ASSUME TInv
  PROVE  /\ [n \in Name |-> Pages(n)] = FilesNow(pool, disk, pf_table, header, dir)
         /\ {pf_table[fd].fname : fd \in OpenFds} = NamesOpen(pf_table)
<1>1. OpenFds = OpenIn(pf_table) /\ \A fd : FileOf(fd) = FileIn(disk, pf_table, fd)
  BY DEF OpenFds, OpenIn, FileOf, FileIn
<1>2. ASSUME NEW fd
      PROVE  [i \in 1..pf_table[fd].numpages |-> View(fd, i - 1)]
               = [i \in 1..pf_table[fd].numpages |-> At(pool, disk, pf_table, fd, i)]
  BY ViewIsAt
<1>3. \A n \in Name : Pages(n) = FileNow(pool, disk, pf_table, header, dir, n)
  BY <1>1, <1>2, ZenonT(40) DEF Pages, FileNow
<1>4. [n \in Name |-> Pages(n)] = FilesNow(pool, disk, pf_table, header, dir)
  BY <1>3, Zenon DEF FilesNow
<1>5. {pf_table[fd].fname : fd \in OpenFds} = NamesOpen(pf_table)
  BY <1>1, Zenon DEF NamesOpen
<1> QED BY <1>4, <1>5

LEMMA PagesWillBe ==
  ASSUME TInv'
  PROVE  /\ [n \in Name |-> Pages(n)]' = FilesNow(pool', disk', pf_table', header', dir')
         /\ {pf_table[fd].fname : fd \in OpenFds}' = NamesOpen(pf_table')
<1>1. OpenFds' = OpenIn(pf_table') /\ \A fd : FileOf(fd)' = FileIn(disk', pf_table', fd)
  BY DEF OpenFds, OpenIn, FileOf, FileIn
<1>2. ASSUME NEW fd
      PROVE  [i \in 1..pf_table'[fd].numpages |-> View(fd, i - 1)']
               = [i \in 1..pf_table'[fd].numpages |-> At(pool', disk', pf_table', fd, i)]
  BY ViewIsAt
<1>3. \A n \in Name : Pages(n)' = FileNow(pool', disk', pf_table', header', dir', n)
  BY <1>1, <1>2, ZenonT(40) DEF Pages, FileNow
<1>4. [n \in Name |-> Pages(n)]' = FilesNow(pool', disk', pf_table', header', dir')
  BY <1>3, Zenon DEF FilesNow
<1>5. {pf_table[fd].fname : fd \in OpenFds}' = NamesOpen(pf_table')
  BY <1>1, Zenon DEF NamesOpen
<1> QED BY <1>4, <1>5

LEMMA OpenFileIs ==
  ASSUME NEW p, NEW d, NEW t, NEW h, NEW names, World(p, d, t), NamesFit(d, t, h, names),
         NEW fd \in OpenIn(t), NEW n, names[n] = FileIn(d, t, fd)
  PROVE  FileNow(p, d, t, h, names, n) = [i \in 1..t[fd].numpages |-> At(p, d, t, fd, i)]
<1>1. /\ names[n] \in Inode /\ names[n] # NoInode
      /\ h[names[n]] \in 0..t[fd].numpages
  BY PFAssumption DEF World, NamesFit, HeadersFit
<1>2. h[names[n]] # -1
  <2>1. t[fd].numpages \in 0..MaxPages
    BY DEF World, OpenIn, PFftab_ele
  <2> QED BY <1>1, <2>1, PFAssumption
<1>3. {a \in OpenIn(t) : FileIn(d, t, a) = names[n]} = {fd}
  BY DEF World
<1>4. (CHOOSE a \in {fd} : TRUE) = fd
  OBVIOUS
<1> QED BY <1>1, <1>2, <1>3, <1>4 DEF FileNow

LEMMA ClosedFileIs ==
  ASSUME NEW p, NEW d, NEW t, NEW h, NEW names, NEW n,
         \A fd \in OpenIn(t) : FileIn(d, t, fd) # names[n]
  PROVE  FileNow(p, d, t, h, names, n)
           = IF names[n] = NoInode THEN Missing
             ELSE IF h[names[n]] = -1 THEN Missing
             ELSE [i \in 1..h[names[n]] |-> d.data[<<names[n], i>>]]
<1>1. {a \in OpenIn(t) : FileIn(d, t, a) = names[n]} = {}
  OBVIOUS
<1> QED BY <1>1 DEF FileNow

\* A name is that of an open file when it leads there.
LEMMA OpenNamed ==
  ASSUME NEW p, NEW d, NEW t, NEW h, NEW names, World(p, d, t), NamesFit(d, t, h, names),
         \A fd \in OpenIn(t) : \A n \in Name : names[n] = FileIn(d, t, fd) => t[fd].fname = n,
         NEW n \in Name
  PROVE  /\ n \in NamesOpen(t) <=> \E fd \in OpenIn(t) : names[n] = FileIn(d, t, fd)
         /\ \A fd \in OpenIn(t) : t[fd].fname = n <=> names[n] = FileIn(d, t, fd)
BY DEF NamesOpen, NamesFit, HeadersFit

LEMMA NamesFitNow ==
  ASSUME KInv
  PROVE  /\ World(pool, disk, pf_table) /\ NamesFit(disk, pf_table, header, dir)
         /\ \A fd \in OpenIn(pf_table) : \A n \in Name :
              dir[n] = FileIn(disk, pf_table, fd) => pf_table[fd].fname = n
<1>1. TInv /\ PInv /\ HeadersFit(disk, pf_table, header, dir)
  BY TypeParts DEF KInv
<1>2. NamesKept
  BY <1>1 DEF PInv
<1> QED BY <1>1, <1>2, TypeParts, OpenWorld DEF NamesFit, NamesKept

LEMMA NamesFitNext ==
  ASSUME TInv', KRest
  PROVE  /\ World(pool', disk', pf_table') /\ NamesFit(disk', pf_table', header', dir')
         /\ \A fd \in OpenIn(pf_table') : \A n \in Name :
              dir'[n] = FileIn(disk', pf_table', fd) => pf_table'[fd].fname = n
<1>1. OpenFds' = OpenIn(pf_table') /\ \A fd : FileOf(fd)' = FileIn(disk', pf_table', fd)
  BY DEF OpenFds, OpenIn, FileOf, FileIn
<1>2. PInv' /\ header' \in [Inode -> -1..MaxPages] /\ dir' \in [Name -> Inode \cup {NoInode}]
  BY DEF TInv, TypeOK
<1>3. EntriesNamed' /\ NamesKept'
  BY <1>2 DEF PInv
<1> QED BY <1>1, <1>2, <1>3, NextWorld DEF KRest, NamesFit, EntriesNamed, NamesKept

\* The pages of a file are data.
LEMMA FileIsSeq ==
  ASSUME KInv, NEW n \in Name, dir[n] # NoInode, header[dir[n]] # -1
  PROVE  FileNow(pool, disk, pf_table, header, dir, n) \in Seq(Data)
<1>1. /\ World(pool, disk, pf_table) /\ NamesFit(disk, pf_table, header, dir)
      /\ disk \in PFDisks /\ HeadersTrue(disk, header) /\ dir[n] \in Inode
      /\ header[dir[n]] \in -1..MaxPages /\ MaxPages \in Nat
  BY NamesFitNow, TypeParts, PFAssumption DEF KInv
<1>2. ASSUME NEW fd \in OpenIn(pf_table), dir[n] = FileIn(disk, pf_table, fd)
      PROVE  FileNow(pool, disk, pf_table, header, dir, n) \in Seq(Data)
  <2>0. PICK m : m = pf_table[fd].numpages
    OBVIOUS
  <2>1. m \in 0..MaxPages
    BY <1>1, <2>0 DEF World, OpenIn, PFftab_ele
  <2>2. \A i \in 1..m : At(pool, disk, pf_table, fd, i) \in Data
    <3> SUFFICES ASSUME NEW i \in 1..m PROVE At(pool, disk, pf_table, fd, i) \in Data
      OBVIOUS
    <3>1. At(pool, disk, pf_table, fd, i) # Absent
      BY <2>0, PageThere
    <3>2. CASE \E f : Has(pool, f, fd, i)
      BY <1>1, <3>2, AtHas DEF World
    <3>3. CASE ~\E f : Has(pool, f, fd, i)
      <4>1. At(pool, disk, pf_table, fd, i) = disk.data[<<dir[n], i>>]
        BY <1>1, <1>2, <3>3, AtFile
      <4>2. i \in PageNum
        BY <2>1, PFAssumption
      <4> QED BY <1>1, <3>1, <4>1, <4>2 DEF PFDisks, DisksOver
    <3> QED BY <3>2, <3>3
  <2>3. [i \in 1..m |-> At(pool, disk, pf_table, fd, i)] \in Seq(Data)
    <3>1. PICK s : s = [i \in 1..m |-> At(pool, disk, pf_table, fd, i)]
      OBVIOUS
    <3>2. s \in [1..m -> Data] /\ m \in Nat
      BY <1>1, <2>1, <2>2, <3>1
    <3>3. s \in Seq(Data)
      BY <3>2
    <3> QED BY <3>1, <3>3
  <2>4. FileNow(pool, disk, pf_table, header, dir, n)
          = [i \in 1..m |-> At(pool, disk, pf_table, fd, i)]
    BY <1>1, <1>2, <2>0, OpenFileIs
  <2> QED BY <2>3, <2>4
<1>3. ASSUME \A fd \in OpenIn(pf_table) : FileIn(disk, pf_table, fd) # dir[n]
      PROVE  FileNow(pool, disk, pf_table, header, dir, n) \in Seq(Data)
  <2>0. PICK m : m = header[dir[n]]
    OBVIOUS
  <2>1. m \in 0..MaxPages
    BY <1>1, <2>0
  <2>2. ASSUME NEW i \in 1..m PROVE disk.data[<<dir[n], i>>] \in Data
    <3>1. i \in PageNum /\ disk.data[<<dir[n], i>>] # Absent
      BY <1>1, <2>0, <2>1, PFAssumption DEF HeadersTrue
    <3> QED BY <1>1, <3>1 DEF PFDisks, DisksOver
  <2>3. [i \in 1..m |-> disk.data[<<dir[n], i>>]] \in Seq(Data)
    <3>1. PICK s : s = [i \in 1..m |-> disk.data[<<dir[n], i>>]]
      OBVIOUS
    <3>2. s \in [1..m -> Data] /\ m \in Nat
      BY <1>1, <2>1, <2>2, <3>1
    <3>3. s \in Seq(Data)
      BY <3>2
    <3> QED BY <3>1, <3>3
  <2>4. FileNow(pool, disk, pf_table, header, dir, n)
          = [i \in 1..m |-> disk.data[<<dir[n], i>>]]
    BY <1>3, <2>0, ClosedFileIs
  <2> QED BY <2>3, <2>4
<1> QED BY <1>2, <1>3

LEMMA FileExists ==
  ASSUME KInv, NEW n \in Name
  PROVE  FileNow(pool, disk, pf_table, header, dir, n) # Missing
           <=> dir[n] # NoInode /\ header[dir[n]] # -1
<1>1. CASE dir[n] # NoInode /\ header[dir[n]] # -1
  BY <1>1, FileIsSeq, CallerAssumption
<1>2. CASE ~(dir[n] # NoInode /\ header[dir[n]] # -1)
  BY <1>2 DEF FileNow
<1> QED BY <1>1, <1>2

\* The file that a name leads to is the same, open or closed.
LEMMA FileStays ==
  ASSUME KInv, TInv', KRest, NEW n \in Name, dir'[n] = dir[n],
         \/ \E fd \in OpenIn(pf_table) \cap OpenIn(pf_table') :
              /\ FileIn(disk, pf_table, fd) = dir[n] /\ FileIn(disk', pf_table', fd) = dir[n]
              /\ pf_table'[fd].numpages = pf_table[fd].numpages
              /\ \A k \in 1..pf_table[fd].numpages :
                   At(pool', disk', pf_table', fd, k) = At(pool, disk, pf_table, fd, k)
         \/ /\ \A fd \in OpenIn(pf_table) : FileIn(disk, pf_table, fd) # dir[n]
            /\ \A fd \in OpenIn(pf_table') : FileIn(disk', pf_table', fd) # dir[n]
            /\ dir[n] # NoInode =>
                 /\ header'[dir[n]] = header[dir[n]]
                 /\ \A k \in PageNum : disk'.data[<<dir[n], k>>] = disk.data[<<dir[n], k>>]
  PROVE  FileNow(pool', disk', pf_table', header', dir', n)
           = FileNow(pool, disk, pf_table, header, dir, n)
<1>1. /\ World(pool, disk, pf_table) /\ NamesFit(disk, pf_table, header, dir)
      /\ World(pool', disk', pf_table') /\ NamesFit(disk', pf_table', header', dir')
  BY NamesFitNow, NamesFitNext
<1>2. ASSUME NEW fd \in OpenIn(pf_table) \cap OpenIn(pf_table'),
             FileIn(disk, pf_table, fd) = dir[n], FileIn(disk', pf_table', fd) = dir[n],
             pf_table'[fd].numpages = pf_table[fd].numpages,
             \A k \in 1..pf_table[fd].numpages :
               At(pool', disk', pf_table', fd, k) = At(pool, disk, pf_table, fd, k)
      PROVE  FileNow(pool', disk', pf_table', header', dir', n)
               = FileNow(pool, disk, pf_table, header, dir, n)
  <2>1. FileNow(pool, disk, pf_table, header, dir, n)
          = [i \in 1..pf_table[fd].numpages |-> At(pool, disk, pf_table, fd, i)]
    BY <1>1, <1>2, OpenFileIs
  <2>2. FileNow(pool', disk', pf_table', header', dir', n)
          = [i \in 1..pf_table'[fd].numpages |-> At(pool', disk', pf_table', fd, i)]
    BY <1>1, <1>2, OpenFileIs
  <2> QED BY <1>2, <2>1, <2>2
<1>3. ASSUME \A fd \in OpenIn(pf_table) : FileIn(disk, pf_table, fd) # dir[n],
             \A fd \in OpenIn(pf_table') : FileIn(disk', pf_table', fd) # dir[n],
             dir[n] # NoInode =>
               /\ header'[dir[n]] = header[dir[n]]
               /\ \A k \in PageNum : disk'.data[<<dir[n], k>>] = disk.data[<<dir[n], k>>]
      PROVE  FileNow(pool', disk', pf_table', header', dir', n)
               = FileNow(pool, disk, pf_table, header, dir, n)
  <2>1. FileNow(pool, disk, pf_table, header, dir, n)
          = IF dir[n] = NoInode THEN Missing
            ELSE IF header[dir[n]] = -1 THEN Missing
            ELSE [i \in 1..header[dir[n]] |-> disk.data[<<dir[n], i>>]]
    BY <1>3, ClosedFileIs
  <2>2. FileNow(pool', disk', pf_table', header', dir', n)
          = IF dir'[n] = NoInode THEN Missing
            ELSE IF header'[dir'[n]] = -1 THEN Missing
            ELSE [i \in 1..header'[dir'[n]] |-> disk'.data[<<dir'[n], i>>]]
    BY <1>3, ClosedFileIs
  <2>3. dir[n] # NoInode =>
          /\ header'[dir[n]] = header[dir[n]] /\ header[dir[n]] \in -1..MaxPages
          /\ \A k \in 1..header[dir[n]] : disk'.data[<<dir[n], k>>] = disk.data[<<dir[n], k>>]
    BY <1>1, <1>3, PFAssumption DEF NamesFit
  <2> QED BY <2>1, <2>2, <2>3
<1> QED BY <1>2, <1>3

\* The file store's actions, said of the pages now (F, O) and next (G, P).
LEMMA StoreActions ==
  ASSUME TInv, TInv',
         NEW F, F = FilesNow(pool, disk, pf_table, header, dir),
         NEW G, G = FilesNow(pool', disk', pf_table', header', dir'),
         NEW O, O = NamesOpen(pf_table), NEW P, P = NamesOpen(pf_table')
  PROVE  /\ G = F /\ P = O /\ boot' = boot => UNCHANGED Files!vars
         /\ \A n : /\ F[n] = Missing /\ G = [F EXCEPT ![n] = <<>>] /\ P = O /\ boot' = boot
                     => Files!Create(n)
                   /\ F[n] # Missing /\ n \notin O /\ G = [F EXCEPT ![n] = Missing]
                        /\ P = O /\ boot' = boot => Files!Destroy(n)
                   /\ F[n] # Missing /\ n \notin O /\ P = O \cup {n} /\ G = F /\ boot' = boot
                        => Files!Open(n)
                   /\ n \in O /\ P = O \ {n} /\ G = F /\ boot' = boot => Files!Close(n)
                   /\ n \in O /\ G = [F EXCEPT ![n] = Append(F[n], Zero)]
                        /\ P = O /\ boot' = boot => Files!AppendPage(n)
                   /\ \A v : n \in O /\ (\E i \in DOMAIN F[n] : G = [F EXCEPT ![n][i] = v])
                               /\ P = O /\ boot' = boot => Files!Store(n, v)
<1>1. /\ [n \in Name |-> Pages(n)] = F /\ {pf_table[fd].fname : fd \in OpenFds} = O
      /\ [n \in Name |-> Pages(n)]' = G /\ {pf_table[fd].fname : fd \in OpenFds}' = P
  BY PagesAre, PagesWillBe
<1>2. G = F /\ P = O /\ boot' = boot => UNCHANGED Files!vars
  BY <1>1 DEF Files!vars
<1>3. ASSUME NEW n
      PROVE  /\ F[n] = Missing /\ G = [F EXCEPT ![n] = <<>>] /\ P = O /\ boot' = boot
                  => Files!Create(n)
             /\ F[n] # Missing /\ n \notin O /\ G = [F EXCEPT ![n] = Missing]
                  /\ P = O /\ boot' = boot => Files!Destroy(n)
  BY <1>1 DEF Files!Create, Files!Destroy, Files!Exists
<1>4. ASSUME NEW n
      PROVE  /\ F[n] # Missing /\ n \notin O /\ P = O \cup {n} /\ G = F /\ boot' = boot
                  => Files!Open(n)
             /\ n \in O /\ P = O \ {n} /\ G = F /\ boot' = boot => Files!Close(n)
  BY <1>1 DEF Files!Open, Files!Close, Files!Exists
<1>5. ASSUME NEW n
      PROVE  n \in O /\ G = [F EXCEPT ![n] = Append(F[n], Zero)] /\ P = O /\ boot' = boot
                  => Files!AppendPage(n)
  BY <1>1 DEF Files!AppendPage
<1>6. ASSUME NEW n, NEW v
      PROVE  n \in O /\ (\E i \in DOMAIN F[n] : G = [F EXCEPT ![n][i] = v])
               /\ P = O /\ boot' = boot => Files!Store(n, v)
  <2> SUFFICES ASSUME n \in O, NEW i \in DOMAIN F[n], G = [F EXCEPT ![n][i] = v],
                      P = O, boot' = boot
               PROVE  Files!Store(n, v)
    OBVIOUS
  <2>1. F[n] = [m \in Name |-> Pages(m)][n]
    BY <1>1
  <2>2. i \in DOMAIN [m \in Name |-> Pages(m)][n]
    BY <2>1, Zenon
  <2>3. [m \in Name |-> Pages(m)]' = [[m \in Name |-> Pages(m)] EXCEPT ![n][i] = v]
    BY <1>1, Zenon
  <2>4. \E j \in DOMAIN [m \in Name |-> Pages(m)][n] :
          [m \in Name |-> Pages(m)]' = [[m \in Name |-> Pages(m)] EXCEPT ![n][j] = v]
    BY <2>2, <2>3, Zenon
  <2> QED BY <1>1, <2>4 DEF Files!Store
<1> QED BY <1>2, <1>3, <1>4, <1>5, <1>6

LEMMA StoreCrash ==
  ASSUME TInv, TInv',
         NEW F, F = FilesNow(pool, disk, pf_table, header, dir),
         NEW G, G = FilesNow(pool', disk', pf_table', header', dir'),
         boot' = 1 - boot, NamesOpen(pf_table') = {},
         \A n \in Name :
           IF n \in NamesOpen(pf_table)
           THEN Len(G[n]) <= Len(F[n]) /\ \A i \in DOMAIN G[n] : G[n][i] \in Data
           ELSE G[n] = F[n]
  PROVE  Files!Crash
<1>1. /\ [n \in Name |-> Pages(n)] = F
      /\ {pf_table[fd].fname : fd \in OpenFds} = NamesOpen(pf_table)
      /\ [n \in Name |-> Pages(n)]' = G /\ {pf_table[fd].fname : fd \in OpenFds}' = {}
  BY PagesAre, PagesWillBe
<1> QED BY <1>1 DEF Files!Crash

StoreStep == [Files!Next]_(Files!vars)

\* Calls that change no page of any file.
LEMMA SameFilesStep ==
  ASSUME KInv, TInv', KRest, SameFiles, boot' = boot
  PROVE  StoreStep
<1>1. ASSUME NEW n \in Name
      PROVE  FileNow(pool', disk', pf_table', header', dir', n)
               = FileNow(pool, disk, pf_table, header, dir, n)
  <2>1. CASE \E fd \in OpenIn(pf_table) : FileIn(disk, pf_table, fd) = dir[n]
    <3>1. \E fd \in OpenIn(pf_table) \cap OpenIn(pf_table') :
            /\ FileIn(disk, pf_table, fd) = dir[n] /\ FileIn(disk', pf_table', fd) = dir[n]
            /\ pf_table'[fd].numpages = pf_table[fd].numpages
            /\ \A k \in 1..pf_table[fd].numpages :
                 At(pool', disk', pf_table', fd, k) = At(pool, disk, pf_table, fd, k)
      BY <2>1 DEF SameFiles
    <3>2. dir'[n] = dir[n]
      BY DEF SameFiles
    <3> QED BY <3>1, <3>2, FileStays
  <2>2. CASE ~\E fd \in OpenIn(pf_table) : FileIn(disk, pf_table, fd) = dir[n]
    <3>1. dir[n] \in Inode \cup {NoInode}
      BY TypeParts DEF KInv
    <3>2. /\ \A fd \in OpenIn(pf_table) : FileIn(disk, pf_table, fd) # dir[n]
          /\ \A fd \in OpenIn(pf_table') : FileIn(disk', pf_table', fd) # dir[n]
          /\ dir[n] # NoInode =>
               /\ header'[dir[n]] = header[dir[n]]
               /\ \A k \in PageNum : disk'.data[<<dir[n], k>>] = disk.data[<<dir[n], k>>]
      BY <2>2, <3>1 DEF SameFiles
    <3>3. dir'[n] = dir[n]
      BY DEF SameFiles
    <3> QED BY <3>2, <3>3, FileStays
  <2> QED BY <2>1, <2>2
<1>2. FilesNow(pool', disk', pf_table', header', dir')
        = FilesNow(pool, disk, pf_table, header, dir)
  BY <1>1 DEF FilesNow
<1>3. NamesOpen(pf_table') = NamesOpen(pf_table)
  BY DEF SameFiles, NamesOpen
<1>4. TInv
  BY DEF KInv
<1> QED BY <1>2, <1>3, <1>4, StoreActions DEF StoreStep

\* A file that stays open, or closed, through a change of the file table.
LEMMA OtherFile ==
  ASSUME KInv, TInv', KRest, NEW n \in Name, dir'[n] = dir[n],
         NEW f, n # f,
         \A fd \in OpenIn(pf_table) : pf_table[fd].fname # f => fd \in OpenIn(pf_table'),
         \A fd \in OpenIn(pf_table') : fd \notin OpenIn(pf_table) => pf_table'[fd].fname = f,
         \A fd \in OpenIn(pf_table) \cap OpenIn(pf_table') :
           /\ FileIn(disk', pf_table', fd) = FileIn(disk, pf_table, fd)
           /\ pf_table'[fd].fname = pf_table[fd].fname
           /\ pf_table[fd].fname # f =>
                /\ pf_table'[fd].numpages = pf_table[fd].numpages
                /\ \A k \in 1..pf_table[fd].numpages :
                     At(pool', disk', pf_table', fd, k) = At(pool, disk, pf_table, fd, k),
         (\A fd \in OpenIn(pf_table) : FileIn(disk, pf_table, fd) # dir[n]) /\ dir[n] # NoInode =>
           /\ header'[dir[n]] = header[dir[n]]
           /\ \A k \in PageNum : disk'.data[<<dir[n], k>>] = disk.data[<<dir[n], k>>]
  PROVE  FileNow(pool', disk', pf_table', header', dir', n)
           = FileNow(pool, disk, pf_table, header, dir, n)
<1>1. /\ \A fd \in OpenIn(pf_table) : pf_table[fd].fname = n <=> dir[n] = FileIn(disk, pf_table, fd)
      /\ \A fd \in OpenIn(pf_table') :
           pf_table'[fd].fname = n <=> dir'[n] = FileIn(disk', pf_table', fd)
  BY NamesFitNow, NamesFitNext, OpenNamed
<1>2. CASE \E fd \in OpenIn(pf_table) : FileIn(disk, pf_table, fd) = dir[n]
  <2>1. PICK fd \in OpenIn(pf_table) : FileIn(disk, pf_table, fd) = dir[n]
    BY <1>2
  <2>2. pf_table[fd].fname # f /\ fd \in OpenIn(pf_table')
    BY <1>1, <2>1
  <2>3. \E a \in OpenIn(pf_table) \cap OpenIn(pf_table') :
          /\ FileIn(disk, pf_table, a) = dir[n] /\ FileIn(disk', pf_table', a) = dir[n]
          /\ pf_table'[a].numpages = pf_table[a].numpages
          /\ \A k \in 1..pf_table[a].numpages :
               At(pool', disk', pf_table', a, k) = At(pool, disk, pf_table, a, k)
    BY <2>1, <2>2
  <2> QED BY <2>3, FileStays
<1>3. CASE ~\E fd \in OpenIn(pf_table) : FileIn(disk, pf_table, fd) = dir[n]
  <2>1. /\ \A fd \in OpenIn(pf_table) : FileIn(disk, pf_table, fd) # dir[n]
        /\ \A fd \in OpenIn(pf_table') : FileIn(disk', pf_table', fd) # dir[n]
        /\ dir[n] # NoInode =>
             /\ header'[dir[n]] = header[dir[n]]
             /\ \A k \in PageNum : disk'.data[<<dir[n], k>>] = disk.data[<<dir[n], k>>]
    BY <1>1, <1>3
  <2> QED BY <2>1, FileStays
<1> QED BY <1>2, <1>3

\* One file changes.
LEMMA OnlyFile ==
  ASSUME NEW f, NEW v,
         NEW F, F = FilesNow(pool, disk, pf_table, header, dir),
         NEW G, G = FilesNow(pool', disk', pf_table', header', dir'),
         FileNow(pool', disk', pf_table', header', dir', f) = v,
         \A n \in Name : n # f => FileNow(pool', disk', pf_table', header', dir', n)
                                    = FileNow(pool, disk, pf_table, header, dir, n)
  PROVE  G = [F EXCEPT ![f] = v]
BY DEF FilesNow

LEMMA NoPages == \A S, s : s = [i \in 1..0 |-> S] => s = <<>>
<1> SUFFICES ASSUME NEW S, NEW s, s = [i \in 1..0 |-> S] PROVE s = <<>>
  OBVIOUS
<1>1. s \in [1..0 -> {S}]
  OBVIOUS
<1>2. s \in Seq({S}) /\ Len(s) = 0
  BY <1>1
<1> QED BY <1>2

LEMMA CreateIs ==
  ASSUME KInv, TInv', NEW name \in Name, PF_CreateFile(name) \/ CreateTableFull(name),
         UNCHANGED <<pins, use, boot>>
  PROVE  StoreStep
<1>0. PICK F, G : /\ F = FilesNow(pool, disk, pf_table, header, dir)
                  /\ G = FilesNow(pool', disk', pf_table', header', dir')
  OBVIOUS
<1>1. /\ KRest /\ OpenIn(pf_table') = OpenIn(pf_table)
      /\ \A a \in OpenIn(pf_table) :
           /\ SameEntry(disk, pf_table, disk', pf_table', a)
           /\ pf_table'[a].fname = pf_table[a].fname /\ pf_table[a].fname # name
           /\ \A k \in 1..pf_table[a].numpages :
                At(pool', disk', pf_table', a, k) = At(pool, disk, pf_table, a, k)
      /\ dir[name] = NoInode /\ dir' = [dir EXCEPT ![name] = NewInode]
      /\ NewInode \in Inode /\ header'[NewInode] = IF PF_CreateFile(name) THEN 0 ELSE -1
      /\ \A i \in Inode : i # NewInode => /\ header'[i] = header[i]
                                          /\ \A k \in PageNum :
                                               disk'.data[<<i, k>>] = disk.data[<<i, k>>]
      /\ \A n \in Name : dir[n] # NewInode
  BY CreateRest
<1>2. /\ dir \in [Name -> Inode \cup {NoInode}] /\ NamesFit(disk, pf_table, header, dir)
      /\ TInv
  BY NamesFitNow, TypeParts DEF KInv
<1>3. dir'[name] = NewInode /\ \A n \in Name : n # name => dir'[n] = dir[n]
  BY <1>1, <1>2
<1>4. \A n \in Name : n # name => FileNow(pool', disk', pf_table', header', dir', n)
                                    = FileNow(pool, disk, pf_table, header, dir, n)
  <2> SUFFICES ASSUME NEW n \in Name, n # name
               PROVE  FileNow(pool', disk', pf_table', header', dir', n)
                        = FileNow(pool, disk, pf_table, header, dir, n)
    OBVIOUS
  <2>1. /\ KRest /\ dir'[n] = dir[n] /\ n # name
        /\ \A fd \in OpenIn(pf_table) : pf_table[fd].fname # name => fd \in OpenIn(pf_table')
        /\ \A fd \in OpenIn(pf_table') : fd \notin OpenIn(pf_table) => pf_table'[fd].fname = name
        /\ \A fd \in OpenIn(pf_table) \cap OpenIn(pf_table') :
             /\ FileIn(disk', pf_table', fd) = FileIn(disk, pf_table, fd)
             /\ pf_table'[fd].fname = pf_table[fd].fname
             /\ pf_table[fd].fname # name =>
                  /\ pf_table'[fd].numpages = pf_table[fd].numpages
                  /\ \A k \in 1..pf_table[fd].numpages :
                       At(pool', disk', pf_table', fd, k) = At(pool, disk, pf_table, fd, k)
    BY <1>1, <1>3 DEF SameEntry
  <2>2. dir[n] # NoInode =>
          /\ header'[dir[n]] = header[dir[n]]
          /\ \A k \in PageNum : disk'.data[<<dir[n], k>>] = disk.data[<<dir[n], k>>]
    BY <1>1, <1>2
  <2> QED BY <2>1, <2>2, OtherFile
<1>5. F[name] = Missing
  BY <1>0, <1>1 DEF FilesNow, FileNow
<1>6. \A a \in OpenIn(pf_table') : FileIn(disk', pf_table', a) # dir'[name]
  BY <1>1, <1>2, <1>3 DEF SameEntry, NamesFit, HeadersFit
<1>7. NamesOpen(pf_table') = NamesOpen(pf_table)
  BY <1>1 DEF NamesOpen
<1>8. NewInode # NoInode
  BY <1>1, PFAssumption
<1>9. CASE PF_CreateFile(name)
  <2>1. FileNow(pool', disk', pf_table', header', dir', name) = <<>>
    <3>1. header'[dir'[name]] = 0
      BY <1>1, <1>3, <1>9
    <3>2. FileNow(pool', disk', pf_table', header', dir', name)
            = [i \in 1..0 |-> disk'.data[<<dir'[name], i>>]]
      BY <1>3, <1>6, <1>8, <3>1, ClosedFileIs
    <3>3. PICK s : s = [i \in 1..0 |-> disk'.data[<<dir'[name], i>>]]
      OBVIOUS
    <3>4. s = [i \in 1..0 |-> 0]
      BY <3>3
    <3> QED BY <3>2, <3>3, <3>4, NoPages
  <2>2. G = [F EXCEPT ![name] = <<>>]
    BY <1>0, <1>4, <2>1, OnlyFile
  <2>3. Files!Create(name)
    BY <1>0, <1>2, <1>5, <1>7, <2>2, StoreActions
  <2> QED BY <2>3 DEF StoreStep, Files!Next
<1>10. CASE ~PF_CreateFile(name)
  <2>0. header'[dir'[name]] = -1 /\ dir'[name] # NoInode
    BY <1>1, <1>3, <1>8, <1>10
  <2>1. FileNow(pool', disk', pf_table', header', dir', name) = Missing
    BY <2>0 DEF FileNow
  <2>2. G = F
    <3>1. FileNow(pool, disk, pf_table, header, dir, name) = Missing
      BY <1>1 DEF FileNow
    <3>2. \A n \in Name : FileNow(pool', disk', pf_table', header', dir', n)
                            = FileNow(pool, disk, pf_table, header, dir, n)
      BY <1>4, <2>1, <3>1
    <3> QED BY <1>0, <3>2 DEF FilesNow
  <2> QED BY <1>0, <1>2, <1>7, <2>2, StoreActions DEF StoreStep
<1> QED BY <1>9, <1>10

LEMMA DestroyIs ==
  ASSUME KInv, TInv', NEW name \in Name, PF_DestroyFile(name), UNCHANGED <<pins, use, boot>>,
         \A a \in OpenIn(pf_table) : pf_table[a].fname # name
  PROVE  StoreStep
<1>0. PICK F, G : /\ F = FilesNow(pool, disk, pf_table, header, dir)
                  /\ G = FilesNow(pool', disk', pf_table', header', dir')
  OBVIOUS
<1>1. /\ KRest /\ dir' = [dir EXCEPT ![name] = NoInode]
      /\ UNCHANGED <<pool, disk, header, pf_table>>
  BY DestroyRest DEF PF_DestroyFile
<1>2. dir \in [Name -> Inode \cup {NoInode}] /\ TInv
  BY TypeParts DEF KInv
<1>3. dir'[name] = NoInode /\ \A n \in Name : n # name => dir'[n] = dir[n]
  BY <1>1, <1>2
<1>4. \A n \in Name : n # name => FileNow(pool', disk', pf_table', header', dir', n)
                                    = FileNow(pool, disk, pf_table, header, dir, n)
  BY <1>1, <1>3 DEF FileNow, FileIn, At
<1>5. FileNow(pool', disk', pf_table', header', dir', name) = Missing
  BY <1>3 DEF FileNow
<1>6. NamesOpen(pf_table') = NamesOpen(pf_table) /\ name \notin NamesOpen(pf_table)
  BY <1>1 DEF NamesOpen
<1>7. F[name] = FileNow(pool, disk, pf_table, header, dir, name)
  BY <1>0 DEF FilesNow
<1>8. CASE F[name] = Missing
  <2>1. \A n \in Name : FileNow(pool', disk', pf_table', header', dir', n)
                          = FileNow(pool, disk, pf_table, header, dir, n)
    BY <1>4, <1>5, <1>7, <1>8
  <2>2. G = F
    BY <1>0, <2>1 DEF FilesNow
  <2> QED BY <1>0, <1>2, <1>6, <2>2, StoreActions DEF StoreStep
<1>9. CASE F[name] # Missing
  <2>1. G = [F EXCEPT ![name] = Missing]
    BY <1>0, <1>4, <1>5, OnlyFile
  <2>2. Files!Destroy(name)
    BY <1>0, <1>2, <1>6, <1>9, <2>1, StoreActions
  <2> QED BY <2>2 DEF StoreStep, Files!Next
<1> QED BY <1>8, <1>9

\* Opening finds the pages on disk.
LEMMA OpenIs ==
  ASSUME KInv, TInv', NEW name \in Name, PF_OpenFile(name), UNCHANGED <<pins, use, boot>>
  PROVE  StoreStep
<1>0. PICK F, G, c : /\ F = FilesNow(pool, disk, pf_table, header, dir)
                     /\ G = FilesNow(pool', disk', pf_table', header', dir')
                     /\ c = FirstFree
  OBVIOUS
<1>1. /\ KRest /\ UNCHANGED <<pool, dir, header>> /\ disk'.data = disk.data
      /\ c \in Fd /\ c \notin OpenIn(pf_table)
      /\ OpenIn(pf_table') = OpenIn(pf_table) \cup {c}
      /\ pf_table'[c].fname = name
      /\ pf_table'[c].numpages = header[dir[name]]
      /\ FileIn(disk', pf_table', c) = dir[name]
      /\ dir[name] \in Inode /\ header[dir[name]] # -1
      /\ \A a \in OpenIn(pf_table) :
           /\ SameEntry(disk, pf_table, disk', pf_table', a)
           /\ pf_table'[a].fname = pf_table[a].fname /\ pf_table[a].fname # name
           /\ \A k \in 1..pf_table[a].numpages :
                At(pool', disk', pf_table', a, k) = At(pool, disk, pf_table, a, k)
  BY <1>0, OpenRest
<1>2. /\ TInv /\ Sound(pool, disk, pf_table, pins, use)
      /\ World(pool, disk, pf_table) /\ NamesFit(disk, pf_table, header, dir)
      /\ World(pool', disk', pf_table') /\ NamesFit(disk', pf_table', header', dir')
  BY <1>1, NamesFitNow, NamesFitNext DEF KInv
<1>3. /\ \A fd \in OpenIn(pf_table) : FileIn(disk, pf_table, fd) # dir[name]
      /\ name \notin NamesOpen(pf_table)
  BY <1>1, NamesFitNow, OpenNamed DEF NamesOpen
<1>4. ASSUME NEW n \in Name, n # name
      PROVE  FileNow(pool', disk', pf_table', header', dir', n)
               = FileNow(pool, disk, pf_table, header, dir, n)
  <2>1. /\ KRest /\ dir'[n] = dir[n] /\ n # name
        /\ \A fd \in OpenIn(pf_table) : pf_table[fd].fname # name => fd \in OpenIn(pf_table')
        /\ \A fd \in OpenIn(pf_table') : fd \notin OpenIn(pf_table) => pf_table'[fd].fname = name
        /\ \A fd \in OpenIn(pf_table) \cap OpenIn(pf_table') :
             /\ FileIn(disk', pf_table', fd) = FileIn(disk, pf_table, fd)
             /\ pf_table'[fd].fname = pf_table[fd].fname
             /\ pf_table[fd].fname # name =>
                  /\ pf_table'[fd].numpages = pf_table[fd].numpages
                  /\ \A k \in 1..pf_table[fd].numpages :
                       At(pool', disk', pf_table', fd, k) = At(pool, disk, pf_table, fd, k)
    BY <1>1, <1>4 DEF SameEntry
  <2>2. /\ header'[dir[n]] = header[dir[n]]
        /\ \A k \in PageNum : disk'.data[<<dir[n], k>>] = disk.data[<<dir[n], k>>]
    BY <1>1
  <2> QED BY <2>1, <2>2, OtherFile
<1>5. FileNow(pool', disk', pf_table', header', dir', name)
        = FileNow(pool, disk, pf_table, header, dir, name)
  <2>1. FileNow(pool, disk, pf_table, header, dir, name)
          = [i \in 1..header[dir[name]] |-> disk.data[<<dir[name], i>>]]
    <3>1. dir[name] # NoInode
      BY <1>1, PFAssumption
    <3> QED BY <1>1, <1>3, <3>1, ClosedFileIs
  <2>2. FileNow(pool', disk', pf_table', header', dir', name)
          = [i \in 1..pf_table'[c].numpages |-> At(pool', disk', pf_table', c, i)]
    <3>1. c \in OpenIn(pf_table') /\ dir'[name] = FileIn(disk', pf_table', c)
      BY <1>1
    <3> QED BY <1>2, <3>1, OpenFileIs
  <2>3. \A i : At(pool', disk', pf_table', c, i) = disk.data[<<dir[name], i>>]
    <3>1. \A f, i : ~Has(pool, f, c, i)
      BY <1>1, <1>2 DEF Sound, Owned, Has
    <3>2. \A f, i : ~Has(pool', f, c, i)
      BY <1>1, <3>1
    <3>3. \A i : At(pool', disk', pf_table', c, i)
                   = disk'.data[<<FileIn(disk', pf_table', c), i>>]
      BY <1>1, <1>2, <3>2, AtFile
    <3> QED BY <1>1, <3>3
  <2> QED BY <1>1, <2>1, <2>2, <2>3
<1>6. G = F
  BY <1>0, <1>4, <1>5 DEF FilesNow
<1>7. F[name] # Missing
  <2>1. dir[name] # NoInode
    BY <1>1, PFAssumption
  <2> QED BY <1>0, <1>1, <2>1, FileExists DEF FilesNow
<1>8. NamesOpen(pf_table') = NamesOpen(pf_table) \cup {name}
  BY <1>1 DEF NamesOpen
<1>9. boot' = boot
  OBVIOUS
<1>10. Files!Open(name)
  BY <1>0, <1>2, <1>3, <1>6, <1>7, <1>8, <1>9, StoreActions
<1> QED BY <1>10 DEF StoreStep, Files!Next

\* When the entry is freed, the file is on disk as it was read, header included.
LEMMA CloseEndIs ==
  ASSUME KInv, TInv', CloseEnd, UNCHANGED <<pins, use, boot>>
  PROVE  StoreStep
<1>0. PICK F, G, c, name : /\ F = FilesNow(pool, disk, pf_table, header, dir)
                           /\ G = FilesNow(pool', disk', pf_table', header', dir')
                           /\ c = closing /\ name = pf_table[c].fname
  OBVIOUS
<1>1. /\ KRest /\ UNCHANGED <<dir, header>> /\ disk'.data = disk.data
      /\ c \in OpenIn(pf_table)
      /\ OpenIn(pf_table') = OpenIn(pf_table) \ {c}
      /\ header[FileIn(disk, pf_table, c)] = pf_table[c].numpages
      /\ \A k \in 1..pf_table[c].numpages :
           At(pool, disk, pf_table, c, k) = disk.data[<<FileIn(disk, pf_table, c), k>>]
      /\ \A a \in OpenIn(pf_table') :
           /\ SameEntry(disk, pf_table, disk', pf_table', a)
           /\ pf_table'[a].fname = pf_table[a].fname
           /\ \A k \in 1..pf_table[a].numpages :
                At(pool', disk', pf_table', a, k) = At(pool, disk, pf_table, a, k)
  BY <1>0, CloseEndRest
<1>2. /\ TInv /\ World(pool, disk, pf_table) /\ NamesFit(disk, pf_table, header, dir)
      /\ pf_table \in [Fd -> PFftab_ele]
  BY NamesFitNow DEF KInv, World
<1>3. /\ name \in Name /\ dir[name] = FileIn(disk, pf_table, c) /\ dir[name] \in Inode
      /\ pf_table[c].numpages \in 0..MaxPages
      /\ \A a \in OpenIn(pf_table) : pf_table[a].fname = name => a = c
  BY <1>0, <1>1, <1>2 DEF NamesFit, HeadersFit, World, OpenIn, PFftab_ele
<1>4. ASSUME NEW n \in Name, n # name
      PROVE  FileNow(pool', disk', pf_table', header', dir', n)
               = FileNow(pool, disk, pf_table, header, dir, n)
  <2>1. /\ KRest /\ dir'[n] = dir[n] /\ n # name
        /\ \A fd \in OpenIn(pf_table) : pf_table[fd].fname # name => fd \in OpenIn(pf_table')
        /\ \A fd \in OpenIn(pf_table') : fd \notin OpenIn(pf_table) => pf_table'[fd].fname = name
        /\ \A fd \in OpenIn(pf_table) \cap OpenIn(pf_table') :
             /\ FileIn(disk', pf_table', fd) = FileIn(disk, pf_table, fd)
             /\ pf_table'[fd].fname = pf_table[fd].fname
             /\ pf_table[fd].fname # name =>
                  /\ pf_table'[fd].numpages = pf_table[fd].numpages
                  /\ \A k \in 1..pf_table[fd].numpages :
                       At(pool', disk', pf_table', fd, k) = At(pool, disk, pf_table, fd, k)
    BY <1>0, <1>1, <1>4 DEF SameEntry
  <2>2. /\ header'[dir[n]] = header[dir[n]]
        /\ \A k \in PageNum : disk'.data[<<dir[n], k>>] = disk.data[<<dir[n], k>>]
    BY <1>1
  <2> QED BY <2>1, <2>2, OtherFile
<1>5. FileNow(pool', disk', pf_table', header', dir', name)
        = FileNow(pool, disk, pf_table, header, dir, name)
  <2>1. FileNow(pool, disk, pf_table, header, dir, name)
          = [i \in 1..pf_table[c].numpages |-> At(pool, disk, pf_table, c, i)]
    BY <1>1, <1>2, <1>3, OpenFileIs
  <2>2. FileNow(pool', disk', pf_table', header', dir', name)
          = [i \in 1..pf_table[c].numpages |-> disk.data[<<dir[name], i>>]]
    <3>1. \A a \in OpenIn(pf_table') : FileIn(disk', pf_table', a) # dir'[name]
      BY <1>1, <1>2, <1>3 DEF SameEntry, World
    <3>2. /\ dir'[name] = dir[name] /\ dir[name] # NoInode
          /\ header'[dir[name]] = pf_table[c].numpages /\ pf_table[c].numpages # -1
      BY <1>1, <1>3, PFAssumption
    <3>3. FileNow(pool', disk', pf_table', header', dir', name)
            = [i \in 1..header'[dir'[name]] |-> disk'.data[<<dir'[name], i>>]]
      BY <3>1, <3>2, ClosedFileIs
    <3> QED BY <1>1, <3>2, <3>3
  <2> QED BY <1>1, <1>3, <2>1, <2>2
<1>6. G = F
  BY <1>0, <1>4, <1>5 DEF FilesNow
<1>7. name \in NamesOpen(pf_table)
  BY <1>0, <1>1 DEF NamesOpen
<1>8. NamesOpen(pf_table') = NamesOpen(pf_table) \ {name}
  BY <1>0, <1>1, <1>3 DEF NamesOpen
<1>9. boot' = boot
  OBVIOUS
<1>10. Files!Close(name)
  BY <1>0, <1>2, <1>6, <1>7, <1>8, <1>9, StoreActions
<1> QED BY <1>3, <1>10 DEF StoreStep, Files!Next

LEMMA SameFunction ==
  ASSUME NEW S, NEW T, NEW f \in [S -> T], NEW g \in [S -> T], \A x \in S : f[x] = g[x]
  PROVE  f = g
OBVIOUS

LEMMA Longer ==
  ASSUME NEW m \in Nat, NEW s \in Seq(Data), Len(s) = m, NEW v \in Data
  PROVE  [i \in 1..(m + 1) |-> IF i = m + 1 THEN v ELSE s[i]] = Append(s, v)
<1>0. PICK t, u : /\ t = [i \in 1..(m + 1) |-> IF i = m + 1 THEN v ELSE s[i]]
                  /\ u = Append(s, v)
  OBVIOUS
<1>1. u \in Seq(Data) /\ Len(u) = m + 1 /\ u[m + 1] = v /\ \A i \in 1..m : u[i] = s[i]
  BY <1>0
<1>2. t \in [1..(m + 1) -> Data] /\ u \in [1..(m + 1) -> Data]
  <2>1. \A i \in 1..(m + 1) : i # m + 1 => s[i] \in Data
    OBVIOUS
  <2>2. t \in [1..(m + 1) -> Data]
    BY <1>0, <2>1
  <2>3. u \in [1..(m + 1) -> Data]
    BY <1>1
  <2> QED BY <2>2, <2>3
<1>3. \A i \in 1..(m + 1) : t[i] = u[i]
  BY <1>0, <1>1
<1>4. t = u
  BY <1>2, <1>3, SameFunction
<1> QED BY <1>0, <1>4

LEMMA AllocIs ==
  ASSUME KInv, TInv', bound \in Bounds, NEW fd \in Fd, IsOpen(fd),
         NEW m, m = pf_table[fd].numpages, m < bound.pages,
         PF_AllocPage(fd), Pins(fd, m), Used(fd, m, "touched"), boot' = boot
  PROVE  StoreStep
<1>0. PICK F, G, name : /\ F = FilesNow(pool, disk, pf_table, header, dir)
                        /\ G = FilesNow(pool', disk', pf_table', header', dir')
                        /\ name = pf_table[fd].fname
  OBVIOUS
<1>1. /\ KRest /\ UNCHANGED <<header, dir>> /\ OpenIn(pf_table') = OpenIn(pf_table)
      /\ \A a \in OpenIn(pf_table) :
           /\ pf_table'[a].unixfd = pf_table[a].unixfd
           /\ pf_table'[a].fname = pf_table[a].fname
           /\ pf_table'[a].numpages = IF a = fd THEN m + 1 ELSE pf_table[a].numpages
      /\ \A a \in OpenIn(pf_table') : \A k \in 1..pf_table'[a].numpages :
           At(pool', disk', pf_table', a, k) =
             IF a = fd /\ k = m + 1 THEN Zero ELSE At(pool, disk, pf_table, a, k)
      /\ DataKept(disk, disk', pf_table)
  BY AllocRest
<1>2. /\ TInv /\ World(pool, disk, pf_table) /\ NamesFit(disk, pf_table, header, dir)
      /\ World(pool', disk', pf_table') /\ NamesFit(disk', pf_table', header', dir')
      /\ pf_table \in [Fd -> PFftab_ele]
  BY <1>1, NamesFitNow, NamesFitNext DEF KInv, World
<1>3. /\ fd \in OpenIn(pf_table) /\ m \in 0..MaxPages /\ MaxPages \in Nat
      /\ name \in Name /\ dir[name] = FileIn(disk, pf_table, fd)
      /\ FileIn(disk', pf_table', fd) = FileIn(disk, pf_table, fd)
  <2>1. fd \in OpenIn(pf_table) /\ m \in 0..MaxPages
    BY <1>2 DEF IsOpen, OpenIn, PFftab_ele
  <2> QED BY <1>0, <1>1, <1>2, <2>1, PFAssumption
       DEF NamesFit, HeadersFit, DataKept, FileIn
<1>4. \A a \in OpenIn(pf_table) : pf_table[a].fname = name => a = fd
  BY <1>0, <1>2, <1>3 DEF NamesFit, HeadersFit, World
<1>5. ASSUME NEW n \in Name, n # name
      PROVE  FileNow(pool', disk', pf_table', header', dir', n)
               = FileNow(pool, disk, pf_table, header, dir, n)
  <2>1. /\ KRest /\ dir'[n] = dir[n] /\ n # name
        /\ \A a \in OpenIn(pf_table) : pf_table[a].fname # name => a \in OpenIn(pf_table')
        /\ \A a \in OpenIn(pf_table') : a \notin OpenIn(pf_table) => pf_table'[a].fname = name
    BY <1>1, <1>5
  <2>2. ASSUME NEW a \in OpenIn(pf_table) \cap OpenIn(pf_table')
        PROVE  /\ FileIn(disk', pf_table', a) = FileIn(disk, pf_table, a)
               /\ pf_table'[a].fname = pf_table[a].fname
               /\ pf_table[a].fname # name =>
                    /\ pf_table'[a].numpages = pf_table[a].numpages
                    /\ \A k \in 1..pf_table[a].numpages :
                         At(pool', disk', pf_table', a, k) = At(pool, disk, pf_table, a, k)
    BY <1>0, <1>1 DEF DataKept, FileIn
  <2>3. (\A a \in OpenIn(pf_table) : FileIn(disk, pf_table, a) # dir[n]) /\ dir[n] # NoInode =>
          /\ header'[dir[n]] = header[dir[n]]
          /\ \A k \in PageNum : disk'.data[<<dir[n], k>>] = disk.data[<<dir[n], k>>]
    BY <1>1, <1>2 DEF DataKept, NamesFit
  <2> QED BY <2>1, <2>2, <2>3, OtherFile
<1>6. PICK s : s = FileNow(pool, disk, pf_table, header, dir, name)
  OBVIOUS
<1>7. s = [i \in 1..m |-> At(pool, disk, pf_table, fd, i)]
  BY <1>2, <1>3, <1>6, OpenFileIs
<1>8. s \in Seq(Data) /\ Len(s) = m
  <2>1. dir[name] # NoInode /\ header[dir[name]] # -1
    BY <1>2, <1>3, PFAssumption DEF NamesFit, HeadersFit, World
  <2>2. s \in Seq(Data)
    BY <1>3, <1>6, <2>1, FileIsSeq
  <2> QED BY <1>3, <1>7, <2>2
<1>9. FileNow(pool', disk', pf_table', header', dir', name) = Append(s, Zero)
  <2>1. FileNow(pool', disk', pf_table', header', dir', name)
          = [i \in 1..(m + 1) |-> At(pool', disk', pf_table', fd, i)]
    <3>1. fd \in OpenIn(pf_table') /\ dir'[name] = FileIn(disk', pf_table', fd)
          /\ pf_table'[fd].numpages = m + 1
      BY <1>1, <1>3
    <3> QED BY <1>2, <3>1, OpenFileIs
  <2>2. \A i \in 1..(m + 1) : At(pool', disk', pf_table', fd, i)
                                = IF i = m + 1 THEN Zero ELSE s[i]
    <3> SUFFICES ASSUME NEW i \in 1..(m + 1)
                 PROVE  At(pool', disk', pf_table', fd, i) = IF i = m + 1 THEN Zero ELSE s[i]
      OBVIOUS
    <3>1. At(pool', disk', pf_table', fd, i)
            = IF i = m + 1 THEN Zero ELSE At(pool, disk, pf_table, fd, i)
      BY <1>1, <1>3
    <3>2. i # m + 1 => i \in 1..m
      BY <1>3
    <3> QED BY <1>7, <3>1, <3>2
  <2>3. [i \in 1..(m + 1) |-> At(pool', disk', pf_table', fd, i)]
          = [i \in 1..(m + 1) |-> IF i = m + 1 THEN Zero ELSE s[i]]
    BY <2>2
  <2>4. m \in Nat /\ Zero \in Data
    BY <1>3, PoolAssumption
  <2> QED BY <1>8, <2>1, <2>3, <2>4, Longer
<1>10. G = [F EXCEPT ![name] = Append(F[name], Zero)]
  <2>1. G = [F EXCEPT ![name] = Append(s, Zero)]
    BY <1>0, <1>5, <1>9, OnlyFile
  <2>2. F[name] = s
    BY <1>0, <1>3, <1>6 DEF FilesNow
  <2> QED BY <2>1, <2>2
<1>11. NamesOpen(pf_table') = NamesOpen(pf_table) /\ name \in NamesOpen(pf_table)
  BY <1>0, <1>1, <1>3 DEF NamesOpen
<1>12. Files!AppendPage(name)
  BY <1>0, <1>2, <1>10, <1>11, StoreActions
<1> QED BY <1>3, <1>12 DEF StoreStep, Files!Next

LEMMA StoreIs ==
  ASSUME KInv, TInv', NEW fd \in Fd, NEW n \in DataPage, NEW v \in Data, KStore(fd, n, v)
  PROVE  StoreStep
<1>0. PICK F, G, name, k : /\ F = FilesNow(pool, disk, pf_table, header, dir)
                           /\ G = FilesNow(pool', disk', pf_table', header', dir')
                           /\ name = pf_table[fd].fname /\ k = n + 1
  OBVIOUS
<1>1. /\ KRest /\ UNCHANGED <<disk, dir, header, pf_table>>
      /\ \A a \in OpenIn(pf_table) : \A m \in 1..pf_table[a].numpages :
           At(pool', disk', pf_table', a, m) =
             IF a = fd /\ m = k THEN v ELSE At(pool, disk, pf_table, a, m)
  BY <1>0, StoreRest
<1>2. /\ TInv /\ World(pool, disk, pf_table) /\ NamesFit(disk, pf_table, header, dir)
      /\ World(pool', disk', pf_table') /\ NamesFit(disk', pf_table', header', dir')
  BY <1>1, NamesFitNow, NamesFitNext DEF KInv
<1>3. /\ fd \in OpenIn(pf_table) /\ k \in 1..pf_table[fd].numpages
      /\ name \in Name /\ dir[name] = FileIn(disk, pf_table, fd)
  <2>1. pins[<<fd, n>>] > 0
    BY DEF KStore
  <2>2. fd \in OpenFds /\ k \in 1..pf_table[fd].numpages
    BY <1>0, <2>1, PinnedPage
  <2>3. fd \in OpenIn(pf_table)
    BY <2>2 DEF OpenFds, OpenIn
  <2> QED BY <1>0, <1>2, <2>2, <2>3 DEF NamesFit, HeadersFit
<1>4. \A a \in OpenIn(pf_table) : pf_table[a].fname = name => a = fd
  BY <1>0, <1>2, <1>3 DEF NamesFit, HeadersFit, World
<1>5. ASSUME NEW l \in Name, l # name
      PROVE  FileNow(pool', disk', pf_table', header', dir', l)
               = FileNow(pool, disk, pf_table, header, dir, l)
  <2>1. /\ KRest /\ dir'[l] = dir[l] /\ l # name
        /\ \A a \in OpenIn(pf_table) : pf_table[a].fname # name => a \in OpenIn(pf_table')
        /\ \A a \in OpenIn(pf_table') : a \notin OpenIn(pf_table) => pf_table'[a].fname = name
        /\ header'[dir[l]] = header[dir[l]]
        /\ \A i \in PageNum : disk'.data[<<dir[l], i>>] = disk.data[<<dir[l], i>>]
    BY <1>1, <1>5
  <2>2. ASSUME NEW a \in OpenIn(pf_table) \cap OpenIn(pf_table')
        PROVE  /\ FileIn(disk', pf_table', a) = FileIn(disk, pf_table, a)
               /\ pf_table'[a].fname = pf_table[a].fname
               /\ pf_table[a].fname # name =>
                    /\ pf_table'[a].numpages = pf_table[a].numpages
                    /\ \A i \in 1..pf_table[a].numpages :
                         At(pool', disk', pf_table', a, i) = At(pool, disk, pf_table, a, i)
    BY <1>0, <1>1 DEF FileIn
  <2> QED BY <2>1, <2>2, OtherFile
<1>6. PICK s : s = FileNow(pool, disk, pf_table, header, dir, name)
  OBVIOUS
<1>7. s = [i \in 1..pf_table[fd].numpages |-> At(pool, disk, pf_table, fd, i)]
  BY <1>2, <1>3, <1>6, OpenFileIs
<1>8. FileNow(pool', disk', pf_table', header', dir', name) = [s EXCEPT ![k] = v]
  <2>1. FileNow(pool', disk', pf_table', header', dir', name)
          = [i \in 1..pf_table[fd].numpages |-> At(pool', disk', pf_table', fd, i)]
    BY <1>1, <1>2, <1>3, OpenFileIs
  <2>2. \A i \in 1..pf_table[fd].numpages :
          At(pool', disk', pf_table', fd, i)
            = IF i = k THEN v ELSE At(pool, disk, pf_table, fd, i)
    BY <1>1, <1>3
  <2>3. [i \in 1..pf_table[fd].numpages |-> At(pool', disk', pf_table', fd, i)]
          = [i \in 1..pf_table[fd].numpages |->
               IF i = k THEN v ELSE At(pool, disk, pf_table, fd, i)]
    BY <2>2
  <2>4. [s EXCEPT ![k] = v]
          = [i \in 1..pf_table[fd].numpages |->
               IF i = k THEN v ELSE At(pool, disk, pf_table, fd, i)]
    BY <1>3, <1>7
  <2> QED BY <2>1, <2>3, <2>4
<1>9. F[name] = s /\ k \in DOMAIN s
  BY <1>0, <1>3, <1>6, <1>7 DEF FilesNow
<1>10. G = [F EXCEPT ![name][k] = v]
  <2>1. G = [F EXCEPT ![name] = [s EXCEPT ![k] = v]]
    BY <1>0, <1>5, <1>8, OnlyFile
  <2> QED BY <1>9, <2>1
<1>11. \E i \in DOMAIN F[name] : G = [F EXCEPT ![name][i] = v]
  BY <1>9, <1>10
<1>12. NamesOpen(pf_table') = NamesOpen(pf_table) /\ name \in NamesOpen(pf_table)
  BY <1>0, <1>1, <1>3 DEF NamesOpen
<1>13. boot' = boot
  BY DEF KStore
<1>14. Files!Store(name, v)
  BY <1>0, <1>2, <1>11, <1>12, <1>13, StoreActions
<1> QED BY <1>3, <1>14 DEF StoreStep, Files!Next

\* What a new process finds of a file is what its header counts.
LEMMA CrashIs ==
  ASSUME KInv, TInv', KCrash
  PROVE  StoreStep
<1>0. PICK F, G : /\ F = FilesNow(pool, disk, pf_table, header, dir)
                  /\ G = FilesNow(pool', disk', pf_table', header', dir')
  OBVIOUS
<1>1. /\ KRest /\ UNCHANGED <<dir, header>> /\ disk'.data = disk.data
      /\ OpenIn(pf_table') = {} /\ boot' = 1 - boot
  BY CrashRest DEF KCrash
<1>2. /\ TInv /\ World(pool, disk, pf_table) /\ NamesFit(disk, pf_table, header, dir)
      /\ HeadersTrue(disk, header) /\ disk \in PFDisks
  BY NamesFitNow, TypeParts DEF KInv
<1>3. ASSUME NEW n \in Name, n \notin NamesOpen(pf_table)
      PROVE  G[n] = F[n]
  <2>1. \A fd \in OpenIn(pf_table) : FileIn(disk, pf_table, fd) # dir[n]
    BY <1>3, NamesFitNow, OpenNamed
  <2>2. FileNow(pool', disk', pf_table', header', dir', n)
          = FileNow(pool, disk, pf_table, header, dir, n)
    BY <1>1, <2>1, FileStays
  <2> QED BY <1>0, <2>2 DEF FilesNow
<1>4. ASSUME NEW n \in Name, n \in NamesOpen(pf_table)
      PROVE  Len(G[n]) <= Len(F[n]) /\ \A i \in DOMAIN G[n] : G[n][i] \in Data
  <2>1. PICK fd \in OpenIn(pf_table) : dir[n] = FileIn(disk, pf_table, fd)
    BY <1>4, NamesFitNow, OpenNamed
  <2>2. PICK m, h : m = pf_table[fd].numpages /\ h = header[dir[n]]
    OBVIOUS
  <2>3. /\ m \in 0..MaxPages /\ MaxPages \in Nat /\ h \in 0..m
        /\ dir[n] \in Inode /\ dir[n] # NoInode
    <3>1. m \in 0..MaxPages /\ MaxPages \in Nat
      BY <1>2, <2>2, PFAssumption DEF World, OpenIn, PFftab_ele
    <3>2. header[FileIn(disk, pf_table, fd)] \in 0..pf_table[fd].numpages
      BY <1>2 DEF NamesFit, HeadersFit
    <3>3. h \in 0..m
      BY <2>1, <2>2, <3>2
    <3> QED BY <1>2, <2>1, <3>1, <3>3, PFAssumption DEF World
  <2>4. F[n] = [i \in 1..m |-> At(pool, disk, pf_table, fd, i)]
    BY <1>0, <1>2, <2>1, <2>2, OpenFileIs DEF FilesNow
  <2>5. G[n] = [i \in 1..h |-> disk.data[<<dir[n], i>>]]
    <3>1. \A a \in OpenIn(pf_table') : FileIn(disk', pf_table', a) # dir'[n]
      BY <1>1
    <3>2. dir'[n] # NoInode /\ header'[dir'[n]] # -1 /\ header'[dir'[n]] = h
      BY <1>1, <2>2, <2>3
    <3>3. G[n] = FileNow(pool', disk', pf_table', header', dir', n)
      BY <1>0 DEF FilesNow
    <3>4. G[n] = [i \in 1..header'[dir'[n]] |-> disk'.data[<<dir'[n], i>>]]
      BY <3>1, <3>2, <3>3, ClosedFileIs
    <3> QED BY <1>1, <3>2, <3>4
  <2>6. F[n] \in Seq(Data) /\ Len(F[n]) = m
    <3>1. header[dir[n]] # -1
      BY <2>2, <2>3
    <3>2. F[n] \in Seq(Data)
      BY <1>0, <2>3, <3>1, FileIsSeq DEF FilesNow
    <3> QED BY <2>3, <2>4, <3>2
  <2>7. G[n] \in Seq(Data) /\ Len(G[n]) = h
    <3>1. ASSUME NEW i \in 1..h PROVE disk.data[<<dir[n], i>>] \in Data
      <4>1. disk.data[<<dir[n], i>>] # Absent
        BY <1>2, <2>2, <2>3 DEF HeadersTrue
      <4>2. i \in PageNum
        BY <2>3, PFAssumption
      <4> QED BY <1>2, <2>3, <4>1, <4>2 DEF PFDisks, DisksOver
    <3>2. G[n] \in [1..h -> Data] /\ h \in Nat
      BY <2>3, <2>5, <3>1
    <3> QED BY <3>2
  <2> QED BY <2>3, <2>6, <2>7
<1>5. NamesOpen(pf_table') = {}
  BY <1>1 DEF NamesOpen
<1>6. \A n \in Name :
        IF n \in NamesOpen(pf_table)
        THEN Len(G[n]) <= Len(F[n]) /\ \A i \in DOMAIN G[n] : G[n][i] \in Data
        ELSE G[n] = F[n]
  BY <1>3, <1>4
<1>7. boot' = 1 - boot /\ TInv
  BY <1>1, <1>2
<1>8. Files!Crash
  BY <1>0, <1>5, <1>6, <1>7, StoreCrash
<1> QED BY <1>8 DEF StoreStep, Files!Next

LEMMA InitFiles == KInit => Files!Init
<1> SUFFICES ASSUME KInit PROVE Files!Init
  OBVIOUS
<1>1. /\ TInv /\ dir = [n \in Name |-> NoInode] /\ pf_table = [fd \in Fd |-> NewEntry]
      /\ boot = 0
  BY InitTInv DEF KInit, Init, PF_Init
<1>2. \A n \in Name : Pages(n) = Missing
  BY <1>1 DEF Pages
<1>3. [n \in Name |-> Pages(n)] = [n \in Name |-> Missing]
  BY <1>2
<1>4. {pf_table[fd].fname : fd \in OpenFds} = {}
  BY <1>1 DEF OpenFds, NewEntry
<1> QED BY <1>1, <1>3, <1>4 DEF Files!Init

LEMMA RefusedIs ==
  ASSUME KInv, TInv', UNCHANGED <<pool, disk, dir, header, pf_table, pins, use, boot>>,
         closing' = NoFd
  PROVE  StoreStep
BY RefusedRest, SameFilesStep

LEMMA FileIs ==
  ASSUME KInv, TInv', NEW name \in Name, KFile(name)
  PROVE  StoreStep
<1>1. UNCHANGED <<pins, use, boot>>
  BY DEF KFile, Kept
<1>2. CASE CreateExists(name) \/ DestroyMissing(name) \/ OpenMissing(name)
  <2>1. UNCHANGED <<pool, disk, dir, header, pf_table, pins, use, boot>> /\ closing' = NoFd
    BY <1>1, <1>2 DEF CreateExists, DestroyMissing, OpenMissing, Refuses, Returns, unix
  <2> QED BY <2>1, RefusedIs
<1>3. CASE CreateTableFull(name) \/ PF_CreateFile(name)
  BY <1>1, <1>3, CreateIs
<1>4. CASE PF_DestroyFile(name)
  <2>1. \A a \in OpenIn(pf_table) : pf_table[a].fname # name
    BY <1>4 DEF KFile, OpenIn
  <2> QED BY <1>1, <1>4, <2>1, DestroyIs
<1>5. CASE OpenRefused(name) \/ OpenNoHeader(name)
  BY <1>1, <1>5, OpenFailsRest, SameFilesStep
<1>6. CASE PF_OpenFile(name)
  BY <1>1, <1>6, OpenIs
<1> QED BY <1>2, <1>3, <1>4, <1>5, <1>6 DEF KFile, FileCall

LEMMA CloseIs ==
  ASSUME KInv, TInv', KClose
  PROVE  StoreStep
<1>1. UNCHANGED <<pins, use, boot>>
  BY DEF KClose, Kept
<1>2. ASSUME NEW fd \in Fd, CloseRefused(fd)
      PROVE  StoreStep
  <2>1. UNCHANGED <<pool, disk, dir, header, pf_table, pins, use, boot>> /\ closing' = NoFd
    BY <1>1, <1>2 DEF CloseRefused, Refuses, Returns, unix
  <2> QED BY <2>1, RefusedIs
<1>3. ASSUME NEW fd \in Fd, CloseBegin(fd)
      PROVE  StoreStep
  BY <1>1, <1>3, CloseBeginRest, SameFilesStep
<1>4. CASE CloseFlush
  BY <1>1, <1>4, CloseFlushRest, SameFilesStep
<1>5. CASE CloseHeader
  BY <1>1, <1>5, CloseHeaderRest, SameFilesStep
<1>6. CASE CloseEnd
  BY <1>1, <1>6, CloseEndIs
<1> QED BY <1>2, <1>3, <1>4, <1>5, <1>6 DEF KClose, CloseCall

LEMMA NextIsFileStep ==
  ASSUME KInv, bound \in Bounds, [KNext]_kvars
  PROVE  StoreStep
<1>1. TInv'
  BY ClientIsCaller, NextTInv DEF KInv
<1>2. ASSUME NEW fd \in Fd, ScanFirst(fd) \/ ScanNext(fd)
      PROVE  StoreStep
  <2>1. KRest /\ SameFiles
    BY <1>1, <1>2, ScanFirstRest, ScanNextRest
  <2>2. boot' = boot
    BY <1>2 DEF ScanFirst, ScanNext, KGot, Kept
  <2> QED BY <1>1, <2>1, <2>2, SameFilesStep
<1>3. ASSUME NEW fd \in Fd, ScanEnd(fd)
      PROVE  StoreStep
  <2>1. UNCHANGED <<pool, disk, dir, header, pf_table, pins, use, boot>> /\ closing' = NoFd
    BY <1>3 DEF ScanEnd, GetFirstNone, GetNextNone, Refuses, Returns, unix, Kept
  <2> QED BY <1>1, <2>1, RefusedIs
<1>4. ASSUME NEW fd \in Fd, NEW n \in DataPage, ReadPage(fd, n)
      PROVE  StoreStep
  <2>1. boot' = boot
    BY <1>4 DEF ReadPage, KGot, Kept
  <2> QED BY <1>1, <1>4, <2>1, ReadRest, SameFilesStep
<1>5. ASSUME KClose
      PROVE  StoreStep
  BY <1>1, <1>5, CloseIs
<1>6. ASSUME KCrash
      PROVE  StoreStep
  BY <1>1, <1>6, CrashIs
<1>7. ASSUME NEW name \in Name, KFile(name)
      PROVE  StoreStep
  BY <1>1, <1>7, FileIs
<1>8. ASSUME NEW fd \in Fd, KAlloc(fd)
      PROVE  StoreStep
  <2>1. CASE AllocRefused(fd) /\ Kept
    <3>1. UNCHANGED <<pool, disk, dir, header, pf_table, pins, use, boot>> /\ closing' = NoFd
      BY <2>1 DEF AllocRefused, Refuses, Returns, unix, Kept
    <3> QED BY <1>1, <3>1, RefusedIs
  <2>2. CASE ~(AllocRefused(fd) /\ Kept)
    <3>0. PICK n : n = pf_table[fd].numpages
      OBVIOUS
    <3>1. /\ IsOpen(fd) /\ n < bound.pages /\ boot' = boot
          /\ PF_AllocPage(fd) /\ Pins(fd, n) /\ Used(fd, n, "touched")
      BY <1>8, <2>2, <3>0 DEF KAlloc, Used
    <3> QED BY <1>1, <3>0, <3>1, AllocIs
  <2> QED BY <2>1, <2>2
<1>9. ASSUME NEW fd \in Fd, NEW n \in DataPage, KDirty(fd, n)
      PROVE  StoreStep
  <2>1. boot' = boot
    BY <1>9 DEF KDirty
  <2> QED BY <1>1, <1>9, <2>1, DirtyRest, SameFilesStep
<1>10. ASSUME NEW fd \in Fd, NEW n \in DataPage, NEW dirty \in BOOLEAN, KUnpin(fd, n, dirty)
       PROVE  StoreStep
  <2>1. boot' = boot
    BY <1>10 DEF KUnpin
  <2> QED BY <1>1, <1>10, <2>1, UnpinRest, SameFilesStep
<1>11. ASSUME NEW fd \in Fd, NEW n \in DataPage, NEW v \in bound.data, KStore(fd, n, v)
       PROVE  StoreStep
  <2>1. v \in Data
    BY CallerAssumption
  <2> QED BY <1>1, <1>11, <2>1, StoreIs
<1>12. ASSUME UNCHANGED kvars
       PROVE  StoreStep
  <2>1. UNCHANGED Files!vars
    BY <1>12 DEF kvars, Files!vars, Pages, View, InPool, OpenFds, FileOf
  <2> QED BY <2>1 DEF StoreStep
<1> QED BY <1>2, <1>3, <1>4, <1>5, <1>6, <1>7, <1>8, <1>9, <1>10, <1>11, <1>12 DEF KNext

(* PF implements the file store.  Named files are sequences of pages; only  *)
(* a caller's stores and allocations change them, while they are open.      *)
(* Opening, closing step by step, reading, and everything the pool does to  *)
(* make room leave them as they are.  A crash at any point leaves an open   *)
(* file no longer than it was, with pages that can be read, and a closed    *)
(* one as it is (pf.c, bf.c:225-240).                                       *)
THEOREM PFIsFileStore == KSpec => ImplementsFileStore
<1>1. (KInv /\ bound \in Bounds) /\ [KNext]_kvars =>
        (KInv /\ bound \in Bounds)' /\ [Files!Next]_(Files!vars)
  BY NextKInv, NextIsFileStep DEF StoreStep
<1>2. KInit => (KInv /\ bound \in Bounds) /\ Files!Init
  BY InitKInv, InitFiles
<1> QED BY <1>1, <1>2, PTL DEF KSpec, ImplementsFileStore, Files!Spec
=============================================================================
