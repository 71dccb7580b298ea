--------------------------------- MODULE HF ---------------------------------
(***************************************************************************)
(* The heap file layer of hf/hf.c over the PF layer: files of records of   *)
(* one size, a table of open files, a table of scans.  One action per path *)
(* of a call; res is what the last call returned.                          *)
(*                                                                         *)
(* PF is here what it promises (FileStore): file[n] is the content of file *)
(* n, its header page and its data pages, and pf_table[d] the name of the  *)
(* file open behind PF descriptor d.  Every HF call gives back the pages   *)
(* it pins before it returns, so pins are left out.  Names are compared    *)
(* whole; what strncmp does to prefixes is modelled in PF.                 *)
(***************************************************************************)
EXTENDS HFPages, FiniteSets

CONSTANTS MAXOPENFILES,      \* entries of the file table and the scan table
          Name, NoName,
          Missing, Headless, \* no such file; a file with no header at all
          Value,             \* attribute values: a record is its attribute
          INT_MAX,           \* the largest C int
          Conds,             \* the conditions scans are opened with
          NoId,              \* no record id
          MaxPages           \* bound: data pages of a file

RecId == (0..(MaxPages - 1)) \X Slot

PageNum == 0..MaxPages
DataPage == 1..MaxPages

HFHeader == [nr_pages : PageNum, free_page_list : PageNum, full_page_list : PageNum]

page_format == [next : DataPage, prev : DataPage, nr_rec : 0..NrRec,
                rec : [Slot -> Value \cup {NoRec}]]

HeapFile == [header : HFHeader, pages : Seq(page_format)]

ASSUME HFAssumption ==
  /\ MAXOPENFILES \in Nat \ {0} /\ MaxPages \in Nat \ {0} /\ INT_MAX \in Nat \ {0}
  /\ NoName \notin Name /\ NoRec \notin Value /\ NoId \notin RecId
  /\ Value \subseteq (-INT_MAX - 1)..INT_MAX
  /\ Conds \subseteq [op : 1..7, value : Value]
  /\ Missing \notin HeapFile /\ Headless \notin HeapFile

VARIABLES file,           \* the files
          pf_table,       \* PF's open files
          hf_table,       \* HF's open files, with the header in memory
          hf_scan_table,
          res             \* what the last call returned: code, id, record

vars == <<file, pf_table, hf_table, hf_scan_table, res>>
tables == <<pf_table, hf_table, hf_scan_table>>

Fd == 0..(MAXOPENFILES - 1)

HFE_OK == 0
HFE_FTABFULL == -2
HFE_FD == -4
HFE_INVALIDRECORD == -6
HFE_EOF == -7
HFE_SCANOPEN == -10
HFE_SCANNOTOPEN == -12
HFE_FILE_DESTROY == -21
HFE_PF_CREATE == -25
HFE_PF_OPEN == -26
HFE_REOPEN == -27
HFE_ALLOC_PAGE == -28
HFE_PF_CLOSE == -30
HFE_FAILED == -1   \* the unnamed -1 of several functions

EQ_OP == 1
LT_OP == 2
GT_OP == 3
LE_OP == 4
GE_OP == 5
NE_OP == 6
ALL_OP == 7

NewHeader == [nr_pages |-> 0, free_page_list |-> HF_HEADER_PAGE_NUM,
              full_page_list |-> HF_HEADER_PAGE_NUM]

\* calloc, and the memset of HF_CloseFileScan.
NewEntry == [valid |-> FALSE, scan_active |-> FALSE, fname |-> NoName,
             pf_fd |-> 0, header |-> NewHeader]
NewScan == [valid |-> FALSE, hf_fd |-> 0, op |-> 0, value |-> 0, rec_id |-> <<0, 0>>]

\* HF_Init, before any file exists.
Init ==
  /\ file = [n \in Name |-> Missing]
  /\ pf_table = [d \in Fd |-> NoName]
  /\ hf_table = [fd \in Fd |-> NewEntry]
  /\ hf_scan_table = [sd \in Fd |-> NewScan]
  /\ res = [code |-> HFE_OK, id |-> NoId, rec |-> NoRec]

Returns(code) == res' = [code |-> code, id |-> NoId, rec |-> NoRec]
ReturnsRec(id, rec) == res' = [code |-> HFE_OK, id |-> id, rec |-> rec]
Refuses(code) == Returns(code) /\ UNCHANGED <<file, tables>>

Least(S) == CHOOSE i \in S : \A j \in S : i <= j
Greatest(S) == CHOOSE i \in S : \A j \in S : i >= j

OpenFds == {fd \in Fd : hf_table[fd].valid}
OpenScans == {sd \in Fd : hf_scan_table[sd].valid}
HF_SearchTable(n) == \E fd \in OpenFds : hf_table[fd].fname = n

FreePf == {d \in Fd : pf_table[d] = NoName}
PF_SearchTable(n) == \E d \in Fd : pf_table[d] = n

\* The file that calls on entry fd reach, if its PF file is open.
FileOf(fd) == pf_table[hf_table[fd].pf_fd]
-----------------------------------------------------------------------------
(* HF_CreateFile.  PF_CreateFile finds a full table only after creat: the   *)
(* file is left without a header.  Creating a file whose removed namesake   *)
(* is still open in PF is not modelled.                                     *)

CreateRefused(n) == file[n] # Missing /\ Refuses(HFE_PF_CREATE)

CreateTableFull(n) ==
  /\ file[n] = Missing /\ FreePf = {}
  /\ file' = [file EXCEPT ![n] = Headless]
  /\ Returns(HFE_PF_CREATE) /\ UNCHANGED tables

HF_CreateFile(n) ==
  /\ file[n] = Missing /\ FreePf # {} /\ ~PF_SearchTable(n)
  /\ file' = [file EXCEPT ![n] = [header |-> NewHeader, pages |-> <<>>]]
  /\ Returns(HFE_OK) /\ UNCHANGED tables

(* HF_DestroyFile *)

DestroyRefused(n) ==
  /\ HF_SearchTable(n) \/ file[n] = Missing
  /\ Refuses(HFE_FILE_DESTROY)

HF_DestroyFile(n) ==
  /\ ~HF_SearchTable(n) /\ file[n] # Missing
  /\ file' = [file EXCEPT ![n] = Missing]
  /\ Returns(HFE_OK) /\ UNCHANGED tables

(* HF_OpenFile opens the PF file before it looks at its own table.          *)

PF_OpenFile(n) ==
  /\ file[n] \notin {Missing, Headless} /\ ~PF_SearchTable(n) /\ FreePf # {}
  /\ pf_table' = [pf_table EXCEPT ![Least(FreePf)] = n]

OpenRefused(n) ==
  /\ file[n] \in {Missing, Headless} \/ PF_SearchTable(n) \/ FreePf = {}
  /\ Refuses(HFE_PF_OPEN)

\* The PF file stays open.
OpenLeaves(n) ==
  /\ PF_OpenFile(n)
  /\ \/ HF_SearchTable(n) /\ Returns(HFE_REOPEN)
     \/ ~HF_SearchTable(n) /\ OpenFds = Fd /\ Returns(HFE_FTABFULL)
  /\ UNCHANGED <<file, hf_table, hf_scan_table>>

\* The search keeps the last free entry; the header is read from its page.
HF_OpenFile(n) ==
  /\ PF_OpenFile(n)
  /\ ~HF_SearchTable(n) /\ OpenFds # Fd
  /\ hf_table' = [hf_table EXCEPT ![Greatest(Fd \ OpenFds)] =
                    [valid |-> TRUE, scan_active |-> FALSE, fname |-> n,
                     pf_fd |-> Least(FreePf), header |-> file[n].header]]
  /\ Returns(Greatest(Fd \ OpenFds)) /\ UNCHANGED <<file, hf_scan_table>>

(* HF_CloseFile closes the PF file before it looks for a scan.              *)

CloseRefused(fd) ==
  \/ fd \notin OpenFds /\ Refuses(HFE_FD)
  \/ fd \in OpenFds /\ FileOf(fd) = NoName /\ Refuses(HFE_PF_CLOSE)

PF_CloseFile(fd) ==
  /\ FileOf(fd) # NoName
  /\ pf_table' = [pf_table EXCEPT ![hf_table[fd].pf_fd] = NoName]

CloseScanOpen(fd) ==
  /\ fd \in OpenFds /\ hf_table[fd].scan_active
  /\ PF_CloseFile(fd)
  /\ Returns(HFE_SCANOPEN) /\ UNCHANGED <<file, hf_table, hf_scan_table>>

\* the entry is not freed
BugCloseStaysValid(fd) ==
  /\ fd \in OpenFds /\ ~hf_table[fd].scan_active
  /\ PF_CloseFile(fd)
  /\ Returns(HFE_OK) /\ UNCHANGED <<file, hf_table, hf_scan_table>>

HF_CloseFile(fd) ==
  /\ fd \in OpenFds /\ ~hf_table[fd].scan_active
  /\ PF_CloseFile(fd)
  /\ hf_table' = [hf_table EXCEPT ![fd].valid = FALSE]
  /\ Returns(HFE_OK) /\ UNCHANGED <<file, hf_scan_table>>
-----------------------------------------------------------------------------
(* Record calls.  On an entry whose PF file was closed under it, or leads   *)
(* to a file with fewer pages, most of them use a page pointer they never   *)
(* got; such calls are left out.                                            *)

Usable(fd) ==
  /\ fd \in OpenFds /\ FileOf(fd) # NoName
  /\ LET h == hf_table[fd].header IN
       {h.nr_pages, h.free_page_list, h.full_page_list} \subseteq 0..Len(file[FileOf(fd)].pages)

InvalidFd(fd) == fd \notin OpenFds /\ Refuses(HFE_FD)

Header(fd) == hf_table[fd].header
Pages(fd) == file[FileOf(fd)].pages

\* The header in memory and the pages after a call, and the header page.
Writes(fd, header, page_header, pages) ==
  /\ hf_table' = [hf_table EXCEPT ![fd].header = header]
  /\ file' = [file EXCEPT ![FileOf(fd)] = [header |-> page_header, pages |-> pages]]
  /\ UNCHANGED <<pf_table, hf_scan_table>>

(* HF_InsertRec *)

\* The new page becomes the free list.
Grown(fd) ==
  [Header(fd) EXCEPT !.nr_pages = @ + 1, !.free_page_list = Len(Pages(fd)) + 1]

BugWrittenBack(fd) == file[FileOf(fd)].header   \* no HF_HeaderWrite

\* HF_HeaderWrite is called when a page is added, and at no other time.
WrittenBack(fd) ==
  IF Header(fd).free_page_list = HF_HEADER_PAGE_NUM THEN Grown(fd)
  ELSE file[FileOf(fd)].header

\* Page p, which has just become full, changes lists.
Filled(header, pages, p) ==
  LET out == HF_DeletePageList(header.free_page_list, pages, p)
      into == HF_InsertPageList(header.full_page_list, out.pages, p)
  IN [header |-> [header EXCEPT !.free_page_list = out.head, !.full_page_list = into.head],
      pages |-> into.pages]

\* PF_AllocPage fails.
InsertNoPage(fd) ==
  /\ Usable(fd) /\ Header(fd).free_page_list = HF_HEADER_PAGE_NUM
  /\ Refuses(HFE_ALLOC_PAGE)

\* "Inconsistency in free page list and nr_rec"
InsertInconsistent(fd) ==
  LET p == Header(fd).free_page_list IN
  /\ Usable(fd) /\ p # HF_HEADER_PAGE_NUM /\ Pages(fd)[p].nr_rec = NrRec
  /\ Refuses(HFE_FAILED)

HF_InsertRec(fd, v) ==
  LET alloc == Header(fd).free_page_list = HF_HEADER_PAGE_NUM
      header == IF alloc THEN Grown(fd) ELSE Header(fd)
      old == IF alloc THEN Append(Pages(fd), NewPage(Len(Pages(fd)) + 1)) ELSE Pages(fd)
      p == header.free_page_list
      j == FreeSlot(old[p])
      pages == [old EXCEPT ![p] = Put(@, j, v)]
      after == IF pages[p].nr_rec = NrRec THEN Filled(header, pages, p)
               ELSE [header |-> header, pages |-> pages]
  IN
  /\ Usable(fd) /\ (alloc => Len(Pages(fd)) < MaxPages)
  /\ old[p].nr_rec # NrRec
  /\ Writes(fd, after.header, WrittenBack(fd), after.pages)
  /\ ReturnsRec(<<p - 1, j>>, v)

(* HF_DeleteRec *)

HasPage(fd, id) == id[1] + 1 \in DOMAIN Pages(fd)
RecordAt(fd, id) == Pages(fd)[id[1] + 1].rec[id[2]]

DeleteEmpty(fd, id) ==
  /\ Usable(fd) /\ HasPage(fd, id) /\ RecordAt(fd, id) = NoRec
  /\ Refuses(HFE_FAILED)

\* Page p, which was full, changes lists.
Emptied(header, pages, p) ==
  LET out == HF_DeletePageList(header.full_page_list, pages, p)
      into == HF_InsertPageList(header.free_page_list, out.pages, p)
  IN [header |-> [header EXCEPT !.free_page_list = into.head, !.full_page_list = out.head],
      pages |-> into.pages]

\* the bit is not looked at
BugDeleteUnchecked(fd, id) ==
  /\ Usable(fd) /\ HasPage(fd, id)
  /\ Writes(fd, Header(fd), file[FileOf(fd)].header,
            [Pages(fd) EXCEPT ![id[1] + 1] = Clear(@, id[2])])
  /\ Returns(HFE_OK)

HF_DeleteRec(fd, id) ==
  LET p == id[1] + 1
      pages == [Pages(fd) EXCEPT ![p] = Clear(@, id[2])]
      after == IF pages[p].nr_rec + 1 = NrRec THEN Emptied(Header(fd), pages, p)
               ELSE [header |-> Header(fd), pages |-> pages]
  IN
  /\ Usable(fd) /\ HasPage(fd, id) /\ RecordAt(fd, id) # NoRec
  /\ Writes(fd, after.header, file[FileOf(fd)].header, after.pages)
  /\ Returns(HFE_OK)

(* HF_GetThisRec, HF_GetFirstRec, HF_GetNextRec *)

HF_GetThisRec(fd, id) ==
  /\ Usable(fd)
  /\ IF ~HasPage(fd, id) THEN Returns(HFE_INVALIDRECORD)
     ELSE IF RecordAt(fd, id) = NoRec THEN Returns(HFE_INVALIDRECORD)
     ELSE ReturnsRec(id, RecordAt(fd, id))
  /\ UNCHANGED <<file, tables>>

\* The records of the file, and those behind id.
Records(fd) == Stored(Pages(fd), Header(fd).nr_pages)
RecordsAfter(fd, id) == {k \in Records(fd) : Before(id, k)}

ReturnsEarliest(fd, ids) ==
  IF ids = {} THEN Returns(HFE_EOF)
  ELSE ReturnsRec(Earliest(ids), RecordAt(fd, Earliest(ids)))

HF_GetFirstRec(fd) ==
  /\ Usable(fd)
  /\ ReturnsEarliest(fd, Records(fd)) /\ UNCHANGED <<file, tables>>

HF_GetNextRec(fd, id) ==
  /\ Usable(fd) /\ HasPage(fd, id)
  /\ ReturnsEarliest(fd, RecordsAfter(fd, id)) /\ UNCHANGED <<file, tables>>
-----------------------------------------------------------------------------
(* Scans. *)

\* What an int subtraction leaves of x in a build without optimisation.
Wrap(x) == ((x + INT_MAX + 1) % (2 * INT_MAX + 2)) - INT_MAX - 1

\* An attribute of INT_TYPE.
HF_CheckCondition(op, attribute, value) ==
  LET result == Wrap(attribute - value) IN
  CASE op = EQ_OP -> result = 0  [] op = LT_OP -> result < 0  [] op = GT_OP -> result > 0
    [] op = LE_OP -> result <= 0 [] op = GE_OP -> result >= 0 [] op = NE_OP -> result # 0

FreeScans == Fd \ OpenScans

ScanTableFull(fd) ==
  /\ fd \in OpenFds /\ FreeScans = {}
  /\ Refuses(HFE_FAILED)

HF_OpenFileScan(fd, cond) ==
  /\ fd \in OpenFds /\ FreeScans # {}
  /\ hf_scan_table' = [hf_scan_table EXCEPT ![Least(FreeScans)] =
                         [valid |-> TRUE, hf_fd |-> fd, op |-> cond.op,
                          value |-> cond.value, rec_id |-> <<-1, -1>>]]
  /\ hf_table' = [hf_table EXCEPT ![fd].scan_active = TRUE]
  /\ Returns(Least(FreeScans)) /\ UNCHANGED <<file, pf_table>>

FindNotOpen(sd) == sd \notin OpenScans /\ Refuses(HFE_SCANNOTOPEN)

\* The loop of HF_FindNextRec skips the records that fail the condition.
Matching(fd, scan) ==
  {k \in RecordsAfter(fd, scan.rec_id) :
     scan.op = ALL_OP \/ HF_CheckCondition(scan.op, RecordAt(fd, k), scan.value)}

\* At the end of the file the cursor stays where it is.
HF_FindNextRec(sd) ==
  LET scan == hf_scan_table[sd]
      ids == Matching(scan.hf_fd, scan)
  IN
  /\ sd \in OpenScans /\ Usable(scan.hf_fd)
  /\ ReturnsEarliest(scan.hf_fd, ids)
  /\ hf_scan_table' = IF ids = {} THEN hf_scan_table
                      ELSE [hf_scan_table EXCEPT ![sd].rec_id = Earliest(ids)]
  /\ UNCHANGED <<file, pf_table, hf_table>>

CloseScanInvalid(sd) == sd \notin OpenScans /\ Refuses(HFE_PF_CLOSE)

\* Whether another scan of the file is open is not looked at.
HF_CloseFileScan(sd) ==
  /\ sd \in OpenScans
  /\ hf_table' = [hf_table EXCEPT ![hf_scan_table[sd].hf_fd].scan_active = FALSE]
  /\ hf_scan_table' = [hf_scan_table EXCEPT ![sd] = NewScan]
  /\ Returns(HFE_OK) /\ UNCHANGED <<file, pf_table>>
-----------------------------------------------------------------------------
FileCall(n) ==
  \/ CreateRefused(n) \/ HF_CreateFile(n)
  \/ DestroyRefused(n) \/ HF_DestroyFile(n)
  \/ OpenRefused(n) \/ HF_OpenFile(n)

RecordCall(fd) ==
  \/ InvalidFd(fd) \/ InsertNoPage(fd) \/ InsertInconsistent(fd)
  \/ \E v \in Value : HF_InsertRec(fd, v)
  \/ HF_GetFirstRec(fd)
  \/ \E id \in RecId : \/ DeleteEmpty(fd, id) \/ HF_DeleteRec(fd, id)
                       \/ HF_GetThisRec(fd, id) \/ HF_GetNextRec(fd, id)

ScanCall(sd) ==
  \/ FindNotOpen(sd) \/ HF_FindNextRec(sd)
  \/ CloseScanInvalid(sd) \/ HF_CloseFileScan(sd)

Next ==
  \/ \E n \in Name : FileCall(n) \/ CreateTableFull(n) \/ OpenLeaves(n)
  \/ \E fd \in Fd : \/ CloseRefused(fd) \/ CloseScanOpen(fd) \/ HF_CloseFile(fd)
                    \/ RecordCall(fd) \/ ScanTableFull(fd)
                    \/ \E cond \in Conds : HF_OpenFileScan(fd, cond)
  \/ \E sd \in Fd : ScanCall(sd)

Spec == Init /\ [][Next]_vars
-----------------------------------------------------------------------------
(* The files and the tables have the shapes the code gives them; no list    *)
(* leads to the header page and no record count leaves its page's capacity. *)
TypeOK ==
  /\ \A n \in Name : file[n] \notin {Missing, Headless} => file[n] \in HeapFile
  /\ pf_table \in [Fd -> Name \cup {NoName}]
  /\ hf_table \in [Fd -> [valid : BOOLEAN, scan_active : BOOLEAN, fname : Name \cup {NoName},
                          pf_fd : Fd, header : HFHeader]]
  /\ \A sd \in Fd : /\ hf_scan_table[sd].hf_fd \in Fd
                    /\ hf_scan_table[sd].rec_id \in RecId \cup {<<-1, -1>>}

HasData(n) == file[n] \notin {Missing, Headless}

(* An entry of the file table that is in use leads to the file it was       *)
(* opened for: its PF file is open, and is that file (hf.c:193-211).        *)
EntryOwnsFile == \A fd \in OpenFds : FileOf(fd) = hf_table[fd].fname

(* Whatever was inserted, deleted, closed and opened: the record count of a *)
(* page is the number of records in it, and the page count in the header    *)
(* page and in memory is the number of data pages, so that no scan misses a *)
(* page and no insertion writes over a record (hf.c:245-248, 294-296, 340). *)
CountsAgree ==
  /\ \A n \in Name : HasData(n) =>
       /\ file[n].header.nr_pages = Len(file[n].pages)
       /\ \A p \in DOMAIN file[n].pages :
            file[n].pages[p].nr_rec = NrRec - Cardinality(FreeSlots(file[n].pages[p]))
  /\ \A fd \in OpenFds : Usable(fd) => Header(fd).nr_pages = Len(Pages(fd))

(* HF_InsertRec is never turned away by the page it takes from the free     *)
(* list: that page has a free slot (hf.c:265).                              *)
FreePageHasRoom ==
  \A fd \in OpenFds : LET p == Header(fd).free_page_list IN
    Usable(fd) /\ p # HF_HEADER_PAGE_NUM => Pages(fd)[p].nr_rec < NrRec
=============================================================================
