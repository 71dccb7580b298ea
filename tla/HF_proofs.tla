------------------------------ MODULE HF_proofs -----------------------------
(***************************************************************************)
(* Proofs about HF under its callers, for every number of table entries,   *)
(* files, pages and records, and whatever is created, opened, changed,     *)
(* scanned, closed and destroyed: an open entry of the file table leads to *)
(* the file it was opened for, the counts of pages and records are right,  *)
(* a scan is exact, and the whole is a record store.                       *)
(*                                                                         *)
(* HInv is about the tables, RInv adds the files: the lists of a file stay *)
(* within its pages, its header counts them and each page counts its       *)
(* records.  ScanInv adds what an open scan has returned and owes.         *)
(***************************************************************************)
EXTENDS HFClient, FiniteSetTheorems, SequenceTheorems, WellFoundedInduction, TLAPS

\* The tables as arrays of C structures.
Tables ==
  /\ pf_table \in [Fd -> Name \cup {NoName}]
  /\ DOMAIN hf_table = Fd
  /\ \A fd \in Fd :
       DOMAIN hf_table[fd] = {"valid", "scan_active", "fname", "pf_fd", "header"}

\* No file is open twice: HF_OpenFile has looked for its name.
NamesApart ==
  \A f1, f2 \in OpenFds : hf_table[f1].fname = hf_table[f2].fname => f1 = f2

OpenNamed == \A fd \in OpenFds : hf_table[fd].fname \in Name /\ hf_table[fd].pf_fd \in Fd

HInv == Tables /\ OpenNamed /\ NamesApart /\ EntryOwnsFile

-----------------------------------------------------------------------------
(* What the searches of the tables find. *)

\* A nonempty set of positions has a first one.
LEMMA LeastOf ==
  ASSUME NEW T \in SUBSET Nat, T # {}
  PROVE  \E i \in T : \A j \in T : i <= j
<1>1. PICK i \in T : \A j \in T : ~(<<j, i>> \in OpToRel(<, Nat))
  BY NatLessThanWellFounded, WFMin, Zenon
<1>2. \A j \in T : ~(j < i)
  BY <1>1 DEF OpToRel
<1>3. \A j \in T : i <= j
  BY <1>2
<1> QED BY <1>3

\* A nonempty set of positions in a table has a last one.
LEMMA GreatestOf ==
  ASSUME NEW n \in Int, NEW T \in SUBSET (0..n), T # {}
  PROVE  \E i \in T : \A j \in T : i >= j
<1> DEFINE S == {n - i : i \in T}
<1>1. S \in SUBSET Nat /\ S # {}
  <2>1. \A i \in T : n - i \in Nat
    OBVIOUS
  <2>2. \A k \in S : k \in Nat
    BY <2>1
  <2>3. PICK i \in T : TRUE
    OBVIOUS
  <2>4. n - i \in S
    BY <2>3
  <2> QED BY <2>2, <2>4
<1>2. PICK k \in S : \A l \in S : k <= l
  BY <1>1, LeastOf
<1>3. PICK i \in T : k = n - i
  BY <1>2
<1>4. \A j \in T : n - i <= n - j
  BY <1>2, <1>3
<1>5. \A j \in T : i >= j
  BY <1>4
<1> QED BY <1>5

LEMMA LeastFree ==
  ASSUME NEW S \in SUBSET Fd, S # {}
  PROVE  Least(S) \in S
<1>1. S \in SUBSET Nat
  BY DEF Fd
<1> QED BY <1>1, LeastOf DEF Least

LEMMA GreatestFree ==
  ASSUME NEW S \in SUBSET Fd, S # {}
  PROVE  Greatest(S) \in S
<1>1. MAXOPENFILES - 1 \in Int /\ S \in SUBSET (0..(MAXOPENFILES - 1))
  BY HFAssumption DEF Fd
<1> QED BY <1>1, GreatestOf DEF Greatest

-----------------------------------------------------------------------------
(* What the steps do to the tables. *)

\* A step that leaves the keys of the entries alone keeps the invariant.
LEMMA SameKeys ==
  ASSUME HInv, pf_table' = pf_table,
         DOMAIN hf_table' = Fd,
         \A fd \in Fd : /\ DOMAIN hf_table'[fd] = DOMAIN hf_table[fd]
                        /\ hf_table'[fd].valid = hf_table[fd].valid
                        /\ hf_table'[fd].fname = hf_table[fd].fname
                        /\ hf_table'[fd].pf_fd = hf_table[fd].pf_fd
  PROVE  HInv'
<1>1. OpenFds' = OpenFds /\ OpenFds \subseteq Fd
  BY DEF OpenFds
<1>2. Tables'
  BY DEF HInv, Tables
<1>3. OpenNamed'
  BY <1>1 DEF HInv, OpenNamed
<1>4. NamesApart'
  BY <1>1 DEF HInv, NamesApart
<1>5. EntryOwnsFile'
  BY <1>1 DEF HInv, EntryOwnsFile, FileOf
<1> QED BY <1>2, <1>3, <1>4, <1>5 DEF HInv

\* Insertions and deletions change the header of one entry.
LEMMA HeaderStep ==
  ASSUME HInv, NEW fd \in Fd, NEW header, pf_table' = pf_table,
         hf_table' = [hf_table EXCEPT ![fd].header = header]
  PROVE  HInv'
<1>1. \A g \in Fd : /\ DOMAIN hf_table'[g] = DOMAIN hf_table[g]
                    /\ hf_table'[g].valid = hf_table[g].valid
                    /\ hf_table'[g].fname = hf_table[g].fname
                    /\ hf_table'[g].pf_fd = hf_table[g].pf_fd
  BY DEF HInv, Tables
<1> QED BY <1>1, SameKeys DEF HInv, Tables

\* Opening and closing a scan marks the entry.
LEMMA MarkStep ==
  ASSUME HInv, NEW fd, NEW mark, pf_table' = pf_table,
         hf_table' = [hf_table EXCEPT ![fd].scan_active = mark]
  PROVE  HInv'
<1>1. \A g \in Fd : /\ DOMAIN hf_table'[g] = DOMAIN hf_table[g]
                    /\ hf_table'[g].valid = hf_table[g].valid
                    /\ hf_table'[g].fname = hf_table[g].fname
                    /\ hf_table'[g].pf_fd = hf_table[g].pf_fd
  BY DEF HInv, Tables
<1> QED BY <1>1, SameKeys DEF HInv, Tables

\* The new entry gets a PF descriptor that no open entry has, and a name that
\* none has.
LEMMA OpenStep ==
  ASSUME HInv, NEW n \in Name, HF_OpenFile(n)
  PROVE  HInv'
<1> DEFINE d == Least(FreePf)
           g == Greatest(Fd \ OpenFds)
           new == [valid |-> TRUE, scan_active |-> FALSE, fname |-> n,
                   pf_fd |-> d, header |-> file[n].header]
<1>1. d \in Fd /\ pf_table[d] = NoName
  <2>1. FreePf \in SUBSET Fd /\ FreePf # {}
    BY DEF FreePf, HF_OpenFile, PF_OpenFile
  <2> QED BY <2>1, LeastFree DEF FreePf
<1>2. g \in Fd /\ g \notin OpenFds
  <2>1. Fd \ OpenFds \in SUBSET Fd /\ Fd \ OpenFds # {}
    BY DEF OpenFds, HF_OpenFile
  <2> QED BY <2>1, GreatestFree
<1>3. /\ pf_table' = [pf_table EXCEPT ![d] = n]
      /\ hf_table' = [hf_table EXCEPT ![g] = new]
      /\ \A fd \in OpenFds : hf_table[fd].fname # n
  BY DEF HF_OpenFile, PF_OpenFile, HF_SearchTable
<1> HIDE DEF d, g
<1>4. /\ DOMAIN new = {"valid", "scan_active", "fname", "pf_fd", "header"}
      /\ new.valid = TRUE /\ new.fname = n /\ new.pf_fd = d
  OBVIOUS
<1> HIDE DEF new
<1>5. /\ hf_table'[g] = new
      /\ \A fd \in Fd : fd # g => hf_table'[fd] = hf_table[fd]
      /\ pf_table'[d] = n
      /\ \A i \in Fd : i # d => pf_table'[i] = pf_table[i]
  BY <1>1, <1>2, <1>3 DEF HInv, Tables
<1>6. Tables'
  BY <1>1, <1>2, <1>3, <1>4, <1>5 DEF HInv, Tables
<1>7. OpenFds' = OpenFds \cup {g}
  BY <1>2, <1>4, <1>5 DEF OpenFds
<1>8. \A fd \in OpenFds : /\ hf_table'[fd] = hf_table[fd]
                          /\ hf_table[fd].pf_fd # d
  BY <1>1, <1>2, <1>5, HFAssumption
     DEF HInv, EntryOwnsFile, OpenNamed, FileOf, OpenFds
<1>9. OpenNamed'
  BY <1>1, <1>4, <1>5, <1>7, <1>8 DEF HInv, OpenNamed
<1>10. NamesApart'
  BY <1>3, <1>4, <1>5, <1>7, <1>8 DEF HInv, NamesApart
<1>11. EntryOwnsFile'
  BY <1>4, <1>5, <1>7, <1>8 DEF HInv, OpenNamed, EntryOwnsFile, FileOf
<1> QED BY <1>6, <1>9, <1>10, <1>11 DEF HInv

\* The PF file that is closed is that of the entry that is freed.
LEMMA CloseStep ==
  ASSUME HInv, NEW fd \in Fd, HF_CloseFile(fd)
  PROVE  HInv'
<1> DEFINE d == hf_table[fd].pf_fd
<1>1. /\ fd \in OpenFds
      /\ pf_table' = [pf_table EXCEPT ![d] = NoName]
      /\ hf_table' = [hf_table EXCEPT ![fd].valid = FALSE]
  BY DEF HF_CloseFile, PF_CloseFile
<1>2. /\ hf_table'[fd].valid = FALSE
      /\ \A g \in Fd : g # fd => hf_table'[g] = hf_table[g]
      /\ \A i \in Fd : i # d => pf_table'[i] = pf_table[i]
  BY <1>1 DEF HInv, Tables
<1>3. Tables'
  BY <1>1 DEF HInv, Tables
<1>4. OpenFds' = OpenFds \ {fd}
  BY <1>2 DEF OpenFds
<1>5. \A g \in OpenFds' : /\ g \in OpenFds /\ hf_table'[g] = hf_table[g]
                          /\ hf_table[g].pf_fd # d
  BY <1>1, <1>2, <1>4 DEF HInv, EntryOwnsFile, NamesApart, FileOf, OpenFds
<1> HIDE DEF d
<1>6. OpenNamed' /\ NamesApart'
  BY <1>5 DEF HInv, OpenNamed, NamesApart
<1>7. EntryOwnsFile'
  BY <1>2, <1>5 DEF HInv, OpenNamed, EntryOwnsFile, FileOf
<1> QED BY <1>3, <1>6, <1>7 DEF HInv

-----------------------------------------------------------------------------
LEMMA InitHInv == HInit => HInv
<1> SUFFICES ASSUME HInit PROVE HInv
  OBVIOUS
<1>1. /\ pf_table = [d \in Fd |-> NoName]
      /\ hf_table = [fd \in Fd |-> NewEntry]
  BY DEF HInit, Init
<1>2. /\ DOMAIN NewEntry = {"valid", "scan_active", "fname", "pf_fd", "header"}
      /\ NewEntry.valid = FALSE
  BY DEF NewEntry
<1>3. OpenFds = {}
  BY <1>1, <1>2 DEF OpenFds
<1> QED BY <1>1, <1>2, <1>3 DEF HInv, Tables, OpenNamed, NamesApart, EntryOwnsFile

\* A step after which the tables of open files are as before.
LEMMA StillStep ==
  ASSUME HInv, pf_table' = pf_table, hf_table' = hf_table
  PROVE  HInv'
BY SameKeys DEF HInv, Tables

LEMMA FileStep ==
  ASSUME HInv, NEW n \in Name, FileCall(n)
  PROVE  HInv'
<1>1. CASE HF_OpenFile(n)
  BY <1>1, OpenStep
<1>2. CASE CreateRefused(n) \/ HF_CreateFile(n) \/ DestroyRefused(n)
             \/ HF_DestroyFile(n) \/ OpenRefused(n)
  BY <1>2, StillStep DEF CreateRefused, HF_CreateFile, DestroyRefused, HF_DestroyFile,
     OpenRefused, Refuses, tables
<1> QED BY <1>1, <1>2 DEF FileCall

LEMMA RecordStep ==
  ASSUME HInv, NEW fd \in Fd, HRecord(fd)
  PROVE  HInv'
<1>1. ASSUME NEW v \in Value, HInsert(fd, v)
      PROVE  HInv'
  <2>1. pf_table' = pf_table
    BY <1>1 DEF HInsert, HF_InsertRec, Writes
  <2>2. \E header : hf_table' = [hf_table EXCEPT ![fd].header = header]
    BY <1>1, Zenon DEF HInsert, HF_InsertRec, Writes
  <2> QED BY <2>1, <2>2, HeaderStep
<1>2. ASSUME NEW id \in RecId, HDelete(fd, id)
      PROVE  HInv'
  <2>1. pf_table' = pf_table
    BY <1>2 DEF HDelete, HF_DeleteRec, Writes
  <2>2. \E header : hf_table' = [hf_table EXCEPT ![fd].header = header]
    BY <1>2, Zenon DEF HDelete, HF_DeleteRec, Writes
  <2> QED BY <2>1, <2>2, HeaderStep
<1>3. ASSUME NEW id \in RecId,
             DeleteEmpty(fd, id) \/ HF_GetThisRec(fd, id) \/ HF_GetNextRec(fd, id)
      PROVE  HInv'
  BY <1>3, StillStep DEF DeleteEmpty, HF_GetThisRec, HF_GetNextRec, Refuses, tables
<1>4. ASSUME InvalidFd(fd) \/ InsertNoPage(fd) \/ InsertInconsistent(fd)
             \/ HF_GetFirstRec(fd)
      PROVE  HInv'
  BY <1>4, StillStep DEF InvalidFd, InsertNoPage, InsertInconsistent, HF_GetFirstRec,
     Refuses, tables
<1> QED BY <1>1, <1>2, <1>3, <1>4 DEF HRecord

LEMMA ScanStep ==
  ASSUME HInv, NEW sd \in Fd,
         HFind(sd) \/ HCloseScan(sd) \/ FindNotOpen(sd) \/ CloseScanInvalid(sd)
  PROVE  HInv'
<1>1. CASE HCloseScan(sd)
  BY <1>1, MarkStep DEF HCloseScan, HF_CloseFileScan
<1>2. CASE HFind(sd)
  BY <1>2, StillStep DEF HFind, HF_FindNextRec
<1>3. CASE FindNotOpen(sd) \/ CloseScanInvalid(sd)
  BY <1>3, StillStep DEF FindNotOpen, CloseScanInvalid, Refuses, tables
<1> QED BY <1>1, <1>2, <1>3

LEMMA NextHInv ==
  ASSUME HInv, [HNext]_hvars, bound \in Bounds
  PROVE  HInv'
<1>1. ASSUME NEW n \in bound.names, FileCall(n)
      PROVE  HInv'
  <2>1. n \in Name
    BY BoundsAssumption
  <2> QED BY <1>1, <2>1, FileStep
<1>2. ASSUME NEW fd \in Fd, HClose(fd)
      PROVE  HInv'
  <2>1. CASE HF_CloseFile(fd)
    BY <2>1, CloseStep
  <2>2. CASE CloseRefused(fd)
    BY <2>2, StillStep DEF CloseRefused, Refuses, tables
  <2> QED BY <1>2, <2>1, <2>2 DEF HClose
<1>3. ASSUME NEW fd \in Fd, HRecord(fd)
      PROVE  HInv'
  BY <1>3, RecordStep
<1>4. ASSUME NEW fd \in Fd, NEW cond \in Conds, HOpenScan(fd, cond)
      PROVE  HInv'
  BY <1>4, MarkStep DEF HOpenScan, HF_OpenFileScan
<1>5. ASSUME NEW sd \in Fd,
             HFind(sd) \/ HCloseScan(sd) \/ FindNotOpen(sd) \/ CloseScanInvalid(sd)
      PROVE  HInv'
  BY <1>5, ScanStep
<1>6. ASSUME UNCHANGED hvars
      PROVE  HInv'
  BY <1>6, StillStep DEF hvars
<1> QED BY <1>1, <1>2, <1>3, <1>4, <1>5, <1>6 DEF HNext

(* An entry of the file table that is in use leads to the file it was       *)
(* opened for (hf.c:143-211): the PF descriptor it holds is never that of   *)
(* another file, nor one that was closed under it.                          *)
THEOREM OwnsFile == HSpec => []EntryOwnsFile
<1> DEFINE Inv == HInv /\ bound \in Bounds
<1>1. HInit => Inv
  BY InitHInv DEF HInit
<1>2. Inv /\ [HNext]_hvars => Inv'
  <2>1. [HNext]_hvars => bound' = bound
    BY DEF HNext, hvars
  <2> QED BY <2>1, NextHInv
<1>3. Inv => EntryOwnsFile
  BY DEF HInv
<1> QED BY <1>1, <1>2, <1>3, PTL DEF HSpec
-----------------------------------------------------------------------------
(* Pages: what the list operations leave alone, and what counts say.        *)

PageIn(n) == [next : 1..n, prev : 1..n, nr_rec : 0..NrRec, rec : [Slot -> Value \cup {NoRec}]]

\* Page b is page a with other links.
Relinked(n, a, b) == b \in PageIn(n) /\ b.rec = a.rec /\ b.nr_rec = a.nr_rec

AllRelinked(n, a, b) ==
  /\ b \in [1..n -> PageIn(n)]
  /\ \A p \in 1..n : Relinked(n, a[p], b[p])

LEMMA RelinkOK ==
  ASSUME NEW n \in Nat, NEW a, NEW page, Relinked(n, a, page), NEW i \in 1..n, NEW j \in 1..n
  PROVE  /\ Relinked(n, a, [page EXCEPT !.next = i])
         /\ Relinked(n, a, [page EXCEPT !.prev = i])
         /\ Relinked(n, a, [page EXCEPT !.next = i, !.prev = j])
BY DEF PageIn, Relinked

LEMMA SameRelinked ==
  ASSUME NEW n \in Nat, NEW pages \in [1..n -> PageIn(n)]
  PROVE  AllRelinked(n, pages, pages)
BY DEF Relinked, AllRelinked

\* A page that is written back with other links.
LEMMA WriteBackOK ==
  ASSUME NEW n \in Nat, NEW pages, NEW q, AllRelinked(n, pages, q),
         NEW p \in 1..n, NEW page, Relinked(n, pages[p], page)
  PROVE  AllRelinked(n, pages, [q EXCEPT ![p] = page])
<1>1. page \in PageIn(n)
  BY DEF Relinked
<1> QED BY <1>1 DEF AllRelinked

LEMMA InitListOK ==
  ASSUME NEW n \in Nat, NEW pages \in [1..n -> PageIn(n)], NEW p \in 1..n
  PROVE  /\ AllRelinked(n, pages, HF_InitList(pages, p))
         /\ Relinked(n, pages[p], HF_InitList(pages, p)[p])
<1> DEFINE page == [pages[p] EXCEPT !.next = p, !.prev = p]
           q == [pages EXCEPT ![p] = page]
<1>1. HF_InitList(pages, p) = q
  BY DEF HF_InitList, PageIn
<1>2. AllRelinked(n, pages, pages)
  BY SameRelinked
<1>3. Relinked(n, pages[p], page)
  BY <1>2, RelinkOK DEF AllRelinked
<1>4. AllRelinked(n, pages, q)
  <2> HIDE DEF page
  <2> QED BY <1>2, <1>3, WriteBackOK
<1> HIDE DEF page, q
<1> QED BY <1>1, <1>4 DEF AllRelinked

LEMMA DeletePageListOK ==
  ASSUME NEW n \in Nat, NEW pages \in [1..n -> PageIn(n)], NEW p \in 1..n, NEW head \in 0..n
  PROVE  LET out == HF_DeletePageList(head, pages, p) IN
         out.head \in 0..n /\ AllRelinked(n, pages, out.pages)
<1> DEFINE prev == pages[p].prev
           next == pages[p].next
           prev_format == IF next = p THEN HF_InitList(pages, prev)[prev]
                          ELSE IF prev = p THEN pages[prev]
                          ELSE [pages[prev] EXCEPT !.next = next]
           next_format == IF next = p THEN pages[next]
                          ELSE IF prev = p THEN HF_InitList(pages, next)[next]
                          ELSE [pages[next] EXCEPT !.prev = prev]
           format == HF_InitList(pages, p)[p]
           q == [pages EXCEPT ![prev] = prev_format]
           r == [q EXCEPT ![next] = next_format]
           s == [r EXCEPT ![p] = format]
           out == HF_DeletePageList(head, pages, p)
<1>1. prev \in 1..n /\ next \in 1..n
  BY DEF PageIn
<1>2. AllRelinked(n, pages, pages)
  BY SameRelinked
<1>6. out = IF prev = p /\ next = p THEN [head |-> HF_HEADER_PAGE_NUM, pages |-> pages]
            ELSE [head |-> IF head # p THEN head ELSE IF next # p THEN next ELSE prev,
                  pages |-> s]
  BY DEF HF_DeletePageList
<1> HIDE DEF prev, next
<1>3. Relinked(n, pages[prev], prev_format)
  <2>1. Relinked(n, pages[prev], pages[prev])
    BY <1>1, <1>2 DEF AllRelinked
  <2>2. Relinked(n, pages[prev], HF_InitList(pages, prev)[prev])
    BY <1>1, InitListOK
  <2>3. Relinked(n, pages[prev], [pages[prev] EXCEPT !.next = next])
    BY <1>1, <2>1, RelinkOK
  <2> QED BY <2>1, <2>2, <2>3
<1>4. Relinked(n, pages[next], next_format)
  <2>1. Relinked(n, pages[next], pages[next])
    BY <1>1, <1>2 DEF AllRelinked
  <2>2. Relinked(n, pages[next], HF_InitList(pages, next)[next])
    BY <1>1, InitListOK
  <2>3. Relinked(n, pages[next], [pages[next] EXCEPT !.prev = prev])
    BY <1>1, <2>1, RelinkOK
  <2> QED BY <2>1, <2>2, <2>3
<1>5. Relinked(n, pages[p], format)
  BY InitListOK
<1> HIDE DEF prev_format, next_format, format, out
<1>7. AllRelinked(n, pages, q)
  BY <1>1, <1>2, <1>3, WriteBackOK
<1>8. AllRelinked(n, pages, r)
  <2> HIDE DEF q
  <2> QED BY <1>1, <1>4, <1>7, WriteBackOK
<1>9. AllRelinked(n, pages, s)
  <2> HIDE DEF r
  <2> QED BY <1>5, <1>8, WriteBackOK
<1> HIDE DEF s
<1>10. out.head \in 0..n /\ AllRelinked(n, pages, out.pages)
  BY <1>1, <1>2, <1>6, <1>9 DEF HF_HEADER_PAGE_NUM
<1> QED BY <1>10 DEF out

LEMMA InsertPageListOK ==
  ASSUME NEW n \in Nat, NEW pages \in [1..n -> PageIn(n)], NEW p \in 1..n, NEW head \in 0..n
  PROVE  LET into == HF_InsertPageList(head, pages, p) IN
         into.head \in 1..n /\ AllRelinked(n, pages, into.pages)
<1> DEFINE into == HF_InsertPageList(head, pages, p)
<1>1. CASE head = HF_HEADER_PAGE_NUM
  <2>1. into = [head |-> p, pages |-> HF_InitList(pages, p)]
    BY <1>1 DEF HF_InsertPageList
  <2> HIDE DEF into
  <2>2. into.head \in 1..n /\ AllRelinked(n, pages, into.pages)
    BY <2>1, InitListOK
  <2> QED BY <2>2 DEF into
<1>2. CASE head # HF_HEADER_PAGE_NUM
  <2> DEFINE next == pages[head].next
             format == [pages[p] EXCEPT !.next = next, !.prev = head]
             prev_format == [pages[head] EXCEPT !.next = p]
             next_format == [pages[next] EXCEPT !.prev = p]
             q == [pages EXCEPT ![p] = format]
             r == [q EXCEPT ![head] = prev_format]
             s == [r EXCEPT ![next] = next_format]
  <2>1. head \in 1..n /\ next \in 1..n
    BY <1>2 DEF PageIn, HF_HEADER_PAGE_NUM
  <2>6. into = [head |-> head, pages |-> s]
    BY <1>2 DEF HF_InsertPageList
  <2> HIDE DEF next
  <2>2. AllRelinked(n, pages, pages)
    BY SameRelinked
  <2>3. Relinked(n, pages[p], format) /\ Relinked(n, pages[head], prev_format)
        /\ Relinked(n, pages[next], next_format)
    BY <2>1, <2>2, RelinkOK DEF AllRelinked
  <2> HIDE DEF format, prev_format, next_format, into
  <2>7. AllRelinked(n, pages, q)
    BY <2>2, <2>3, WriteBackOK
  <2>8. AllRelinked(n, pages, r)
    <3> HIDE DEF q
    <3> QED BY <2>1, <2>3, <2>7, WriteBackOK
  <2>9. AllRelinked(n, pages, s)
    <3> HIDE DEF r
    <3> QED BY <2>1, <2>3, <2>8, WriteBackOK
  <2> HIDE DEF s
  <2>10. into.head \in 1..n /\ AllRelinked(n, pages, into.pages)
    BY <2>1, <2>6, <2>9
  <2> QED BY <2>10 DEF into
<1> QED BY <1>1, <1>2

Counted(page) == page.nr_rec = NrRec - Cardinality(FreeSlots(page))

LEMMA SlotsFinite ==
  ASSUME NEW page
  PROVE  /\ IsFiniteSet(Slot) /\ Cardinality(Slot) = NrRec
         /\ IsFiniteSet(FreeSlots(page)) /\ Cardinality(FreeSlots(page)) \in 0..NrRec
         /\ FreeSlots(page) \in SUBSET Slot
<1>1. NrRec \in Nat \ {0}
  BY PagesAssumption
<1>2. IsFiniteSet(Slot) /\ Cardinality(Slot) = NrRec
  BY <1>1, FS_Interval DEF Slot
<1>3. FreeSlots(page) \in SUBSET Slot
  BY DEF FreeSlots
<1>4. IsFiniteSet(FreeSlots(page)) /\ Cardinality(FreeSlots(page)) <= NrRec
  BY <1>2, <1>3, FS_Subset
<1>5. Cardinality(FreeSlots(page)) \in Nat
  BY <1>4, FS_CardinalityType
<1> QED BY <1>1, <1>2, <1>3, <1>4, <1>5

\* A page that is not counted as full has a first free slot.
LEMMA FreeSlotFound ==
  ASSUME NEW page, Counted(page), page.nr_rec # NrRec
  PROVE  FreeSlot(page) \in Slot /\ page.rec[FreeSlot(page)] = NoRec
<1>1. FreeSlots(page) # {}
  <2>1. SUFFICES ASSUME FreeSlots(page) = {} PROVE FALSE
    OBVIOUS
  <2> QED BY <2>1, FS_EmptySet, PagesAssumption DEF Counted
<1>2. FreeSlots(page) \in SUBSET Nat
  BY DEF FreeSlots, Slot
<1>3. FreeSlot(page) \in FreeSlots(page)
  BY <1>1, <1>2, LeastOf DEF FreeSlot
<1> QED BY <1>3 DEF FreeSlots

LEMMA PutOK ==
  ASSUME NEW n \in Nat, NEW page \in PageIn(n), Counted(page), NEW v \in Value,
         NEW j \in Slot, page.rec[j] = NoRec
  PROVE  /\ Put(page, j, v) \in PageIn(n) /\ Counted(Put(page, j, v))
         /\ Put(page, j, v).rec = [page.rec EXCEPT ![j] = v]
<1> DEFINE q == Put(page, j, v)
<1>1. /\ q.rec = [page.rec EXCEPT ![j] = v] /\ q.nr_rec = page.nr_rec + 1
      /\ q = [page EXCEPT !.rec = q.rec, !.nr_rec = q.nr_rec]
      /\ page.rec \in [Slot -> Value \cup {NoRec}]
  BY DEF Put, PageIn
<1> HIDE DEF q
<1>2. FreeSlots(q) = FreeSlots(page) \ {j} /\ j \in FreeSlots(page)
  BY <1>1, HFAssumption DEF FreeSlots
<1>3. Cardinality(FreeSlots(q)) = Cardinality(FreeSlots(page)) - 1
  BY <1>2, SlotsFinite, FS_RemoveElement
<1>4. Counted(q) /\ q.nr_rec \in 0..NrRec
  BY <1>1, <1>3, SlotsFinite, PagesAssumption DEF Counted
<1>5. q \in PageIn(n)
  BY <1>1, <1>4 DEF PageIn
<1> QED BY <1>1, <1>4, <1>5 DEF q

LEMMA ClearOK ==
  ASSUME NEW n \in Nat, NEW page \in PageIn(n), Counted(page),
         NEW j \in Slot, page.rec[j] # NoRec
  PROVE  /\ Clear(page, j) \in PageIn(n) /\ Counted(Clear(page, j))
         /\ Clear(page, j).rec = [page.rec EXCEPT ![j] = NoRec]
<1> DEFINE q == Clear(page, j)
<1>1. /\ q.rec = [page.rec EXCEPT ![j] = NoRec] /\ q.nr_rec = page.nr_rec - 1
      /\ q = [page EXCEPT !.rec = q.rec, !.nr_rec = q.nr_rec]
      /\ page.rec \in [Slot -> Value \cup {NoRec}]
  BY DEF Clear, PageIn
<1> HIDE DEF q
<1>2. FreeSlots(q) = FreeSlots(page) \cup {j} /\ j \notin FreeSlots(page)
  BY <1>1 DEF FreeSlots
<1>3. Cardinality(FreeSlots(q)) = Cardinality(FreeSlots(page)) + 1
  BY <1>2, SlotsFinite, FS_AddElement
<1>4. Counted(q) /\ q.nr_rec \in 0..NrRec
  BY <1>1, <1>3, SlotsFinite, PagesAssumption DEF Counted
<1>5. q \in PageIn(n)
  BY <1>1, <1>4 DEF PageIn
<1> QED BY <1>1, <1>4, <1>5 DEF q
-----------------------------------------------------------------------------
(* The files.  A file of n data pages: its lists stay within its pages, its *)
(* header counts them, and every page counts its records.                   *)

Headers(n) == [nr_pages : {n}, free_page_list : 0..n, full_page_list : 0..n]

PagesOK(n, pages) ==
  /\ pages \in [1..n -> PageIn(n)]
  /\ \A p \in 1..n : Counted(pages[p])

HeapOK(f) ==
  /\ f = [header |-> f.header, pages |-> f.pages]
  /\ \E n \in 0..MaxPages : f.header \in Headers(n) /\ PagesOK(n, f.pages)

LEMMA LengthOf ==
  ASSUME NEW n \in Nat, NEW S, NEW q \in [1..n -> S]
  PROVE  q \in Seq(S) /\ Len(q) = n /\ DOMAIN q = 1..n
<1>1. q \in Seq(S)
  BY SeqDef
<1>2. Len(q) \in Nat /\ DOMAIN q = 1..Len(q) /\ DOMAIN q = 1..n
  BY <1>1, LenProperties
<1>3. Len(q) = n
  BY <1>2
<1> QED BY <1>1, <1>2, <1>3

LEMMA HeapFacts ==
  ASSUME NEW f, HeapOK(f)
  PROVE  /\ f \in HeapFile /\ f \notin {Missing, Headless}
         /\ Len(f.pages) \in 0..MaxPages /\ DOMAIN f.pages = 1..Len(f.pages)
         /\ f.header \in Headers(Len(f.pages)) /\ PagesOK(Len(f.pages), f.pages)
<1>1. PICK n \in 0..MaxPages : f.header \in Headers(n) /\ PagesOK(n, f.pages)
  BY DEF HeapOK
<1>2. n \in Nat /\ MaxPages \in Nat
  BY HFAssumption
<1>3. Len(f.pages) = n /\ DOMAIN f.pages = 1..n /\ f.pages \in Seq(PageIn(n))
  BY <1>1, <1>2, LengthOf DEF PagesOK
<1>4. PageIn(n) \subseteq page_format
  BY <1>2 DEF PageIn, page_format, DataPage
<1>5. f.pages \in Seq(page_format)
  BY <1>3, <1>4, SeqMonotonic
<1>6. f.header \in HFHeader
  BY <1>1, <1>2 DEF Headers, HFHeader, PageNum
<1>7. f \in HeapFile
  BY <1>5, <1>6 DEF HeapFile, HeapOK
<1> QED BY <1>1, <1>3, <1>7, HFAssumption

LEMMA HeapIntro ==
  ASSUME NEW n \in 0..MaxPages, NEW header \in Headers(n), NEW pages, PagesOK(n, pages)
  PROVE  HeapOK([header |-> header, pages |-> pages])
BY DEF HeapOK

\* A new page behind the others.
LEMMA AppendOK ==
  ASSUME NEW n \in Nat, NEW pages, PagesOK(n, pages)
  PROVE  LET q == Append(pages, NewPage(n + 1)) IN
         /\ PagesOK(n + 1, q)
         /\ q[n + 1] = NewPage(n + 1)
         /\ \A p \in 1..n : q[p] = pages[p]
<1> DEFINE page == NewPage(n + 1)
           q == Append(pages, page)
<1>1. /\ page \in PageIn(n + 1) /\ page.nr_rec = 0
      /\ \A j \in Slot : page.rec[j] = NoRec
  BY PagesAssumption DEF NewPage, PageIn
<1>2. Counted(page)
  <2>1. FreeSlots(page) = Slot
    BY <1>1 DEF FreeSlots
  <2> QED BY <1>1, <2>1, SlotsFinite, PagesAssumption DEF Counted
<1> HIDE DEF page
<1>3. PageIn(n) \subseteq PageIn(n + 1)
  BY DEF PageIn
<1>4. pages \in Seq(PageIn(n + 1)) /\ Len(pages) = n
  <2>1. pages \in [1..n -> PageIn(n + 1)]
    BY <1>3 DEF PagesOK
  <2> QED BY <2>1, LengthOf
<1>5. /\ q \in Seq(PageIn(n + 1)) /\ Len(q) = n + 1 /\ q[n + 1] = page
      /\ \A p \in 1..n : q[p] = pages[p]
  BY <1>1, <1>4, AppendProperties
<1>6. q \in [1..(n + 1) -> PageIn(n + 1)]
  BY <1>5, LenProperties
<1>7. \A p \in 1..(n + 1) : Counted(q[p])
  <2>1. ASSUME NEW p \in 1..(n + 1) PROVE p = n + 1 \/ p \in 1..n
    OBVIOUS
  <2> QED BY <1>2, <1>5, <2>1 DEF PagesOK
<1> QED BY <1>5, <1>6, <1>7 DEF PagesOK, page

\* Pages that are only linked otherwise.
LEMMA RelinkedPagesOK ==
  ASSUME NEW n \in Nat, NEW pages, PagesOK(n, pages), NEW q, AllRelinked(n, pages, q)
  PROVE  PagesOK(n, q) /\ \A p \in 1..n : q[p].rec = pages[p].rec
BY DEF PagesOK, AllRelinked, Relinked, Counted, FreeSlots

\* Page p leaves the list of h1 for that of h2.
Moved(h1, h2, pages, p) ==
  LET out == HF_DeletePageList(h1, pages, p)
      into == HF_InsertPageList(h2, out.pages, p)
  IN [out |-> out.head, into |-> into.head, pages |-> into.pages]

LEMMA MoveOK ==
  ASSUME NEW n \in Nat, NEW pages, PagesOK(n, pages), NEW p \in 1..n,
         NEW h1 \in 0..n, NEW h2 \in 0..n
  PROVE  /\ Moved(h1, h2, pages, p).out \in 0..n /\ Moved(h1, h2, pages, p).into \in 0..n
         /\ PagesOK(n, Moved(h1, h2, pages, p).pages)
         /\ \A i \in 1..n : Moved(h1, h2, pages, p).pages[i].rec = pages[i].rec
<1> DEFINE out == HF_DeletePageList(h1, pages, p)
           into == HF_InsertPageList(h2, out.pages, p)
<1>1. out.head \in 0..n /\ AllRelinked(n, pages, out.pages)
  BY DeletePageListOK DEF PagesOK
<1>2. Moved(h1, h2, pages, p) = [out |-> out.head, into |-> into.head, pages |-> into.pages]
  BY DEF Moved
<1> HIDE DEF out
<1>3. /\ PagesOK(n, out.pages) /\ out.pages \in [1..n -> PageIn(n)]
      /\ \A i \in 1..n : out.pages[i].rec = pages[i].rec
  BY <1>1, RelinkedPagesOK DEF PagesOK
<1>4. into.head \in 1..n /\ AllRelinked(n, out.pages, into.pages)
  BY <1>3, InsertPageListOK
<1> HIDE DEF into
<1>5. /\ out.head \in 0..n /\ into.head \in 0..n /\ PagesOK(n, into.pages)
      /\ \A i \in 1..n : into.pages[i].rec = pages[i].rec
  BY <1>1, <1>3, <1>4, RelinkedPagesOK
<1> QED BY <1>2, <1>5

LEMMA MovedOK ==
  ASSUME NEW n \in Nat, NEW pages, PagesOK(n, pages), NEW p \in 1..n,
         NEW header \in Headers(n),
         NEW after \in {Filled(header, pages, p), Emptied(header, pages, p)}
  PROVE  /\ after = [header |-> after.header, pages |-> after.pages]
         /\ after.header \in Headers(n)
         /\ PagesOK(n, after.pages)
         /\ \A i \in 1..n : after.pages[i].rec = pages[i].rec
<1>1. header.free_page_list \in 0..n /\ header.full_page_list \in 0..n
  BY DEF Headers
<1>2. \A i, j \in 0..n :
        [header EXCEPT !.free_page_list = i, !.full_page_list = j] \in Headers(n)
  BY DEF Headers
<1>3. CASE after = Filled(header, pages, p)
  <2> DEFINE m == Moved(header.free_page_list, header.full_page_list, pages, p)
             h == [header EXCEPT !.free_page_list = m.out, !.full_page_list = m.into]
  <2>1. after = [header |-> h, pages |-> m.pages]
    BY <1>3 DEF Filled, Moved
  <2>2. /\ m.out \in 0..n /\ m.into \in 0..n /\ PagesOK(n, m.pages)
        /\ \A i \in 1..n : m.pages[i].rec = pages[i].rec
    BY <1>1, MoveOK
  <2> HIDE DEF m
  <2>3. h \in Headers(n)
    BY <1>2, <2>2
  <2> HIDE DEF h
  <2> QED BY <2>1, <2>2, <2>3
<1>4. CASE after = Emptied(header, pages, p)
  <2> DEFINE m == Moved(header.full_page_list, header.free_page_list, pages, p)
             h == [header EXCEPT !.free_page_list = m.into, !.full_page_list = m.out]
  <2>1. after = [header |-> h, pages |-> m.pages]
    BY <1>4 DEF Emptied, Moved
  <2>2. /\ m.out \in 0..n /\ m.into \in 0..n /\ PagesOK(n, m.pages)
        /\ \A i \in 1..n : m.pages[i].rec = pages[i].rec
    BY <1>1, MoveOK
  <2> HIDE DEF m
  <2>3. h \in Headers(n)
    BY <1>2, <2>2
  <2> HIDE DEF h
  <2> QED BY <2>1, <2>2, <2>3
<1> QED BY <1>3, <1>4
-----------------------------------------------------------------------------
(* Records by their ids. *)

Ids(pages) == Stored(pages, Len(pages))
RecAt(pages, id) == pages[id[1] + 1].rec[id[2]]

LEMMA IdsAre ==
  ASSUME NEW n \in Nat, NEW pages, PagesOK(n, pages)
  PROVE  /\ Len(pages) = n
         /\ Ids(pages) = {id \in (0..(n - 1)) \X Slot : RecAt(pages, id) # NoRec}
<1>1. Len(pages) = n
  BY LengthOf DEF PagesOK
<1> QED BY <1>1 DEF Ids, Stored, RecAt

\* Slot j of page p was free and holds v, the other records are as before; p may
\* be a new page behind the n old ones.
SlotFilled(old, n, pages, m, p, j, v) ==
  /\ \A i \in 1..n : i # p => pages[i].rec = old[i].rec
  /\ p \in 1..n => old[p].rec[j] = NoRec
  /\ pages[p].rec[j] = v
  /\ \A k \in Slot : k # j =>
       pages[p].rec[k] = IF p \in 1..n THEN old[p].rec[k] ELSE NoRec
  /\ \A i \in 1..m : i \notin 1..n => i = p

LEMMA OneMore ==
  ASSUME NEW n \in Nat, NEW old, PagesOK(n, old),
         NEW m \in Nat, n <= m, NEW pages, PagesOK(m, pages),
         NEW p \in 1..m, NEW j \in Slot, NEW v \in Value,
         SlotFilled(old, n, pages, m, p, j, v)
  PROVE  /\ <<p - 1, j>> \notin Ids(old)
         /\ Ids(pages) = Ids(old) \cup {<<p - 1, j>>}
         /\ \A k \in Ids(pages) :
              RecAt(pages, k) = IF k = <<p - 1, j>> THEN v ELSE RecAt(old, k)
<1> DEFINE id == <<p - 1, j>>
<1>1. /\ Ids(old) = {k \in (0..(n - 1)) \X Slot : RecAt(old, k) # NoRec}
      /\ Ids(pages) = {k \in (0..(m - 1)) \X Slot : RecAt(pages, k) # NoRec}
  BY IdsAre
<1>2. id \in (0..(m - 1)) \X Slot /\ RecAt(pages, id) = v /\ v # NoRec
      /\ id[1] + 1 = p /\ id[2] = j
  BY HFAssumption DEF RecAt, SlotFilled
<1>3. id \notin Ids(old)
  <2>1. CASE p \in 1..n
    BY <1>1, <1>2, <2>1 DEF RecAt, SlotFilled
  <2>2. CASE p \notin 1..n
    <3>1. p - 1 \notin 0..(n - 1)
      BY <2>2
    <3> QED BY <1>1, <3>1
  <2> QED BY <2>1, <2>2
<1>4. ASSUME NEW k \in (0..(n - 1)) \X Slot, k # id
      PROVE  k \in (0..(m - 1)) \X Slot /\ RecAt(pages, k) = RecAt(old, k)
  <2>1. k[1] + 1 \in 1..n /\ k[2] \in Slot /\ k = <<k[1], k[2]>>
    BY <1>4
  <2>2. k[1] + 1 # p \/ k[2] # j
    BY <1>4, <2>1
  <2>3. RecAt(pages, k) = RecAt(old, k)
    BY <2>1, <2>2 DEF RecAt, SlotFilled
  <2> QED BY <2>1, <2>3
<1>5. ASSUME NEW k \in (0..(m - 1)) \X Slot, k \notin (0..(n - 1)) \X Slot, k # id
      PROVE  RecAt(pages, k) = NoRec
  <2>1. k[1] + 1 \in 1..m /\ k[2] \in Slot /\ k = <<k[1], k[2]>>
    BY <1>5
  <2>2. k[1] + 1 \notin 1..n
    BY <1>5, <2>1
  <2>3. k[1] + 1 = p
    BY <2>1, <2>2 DEF SlotFilled
  <2>4. k[2] # j
    BY <1>5, <2>1, <2>3
  <2> QED BY <2>1, <2>2, <2>3, <2>4 DEF RecAt, SlotFilled
<1> HIDE DEF id
<1>6. Ids(pages) = Ids(old) \cup {id}
  BY <1>1, <1>2, <1>3, <1>4, <1>5
<1>7. \A k \in Ids(pages) : RecAt(pages, k) = IF k = id THEN v ELSE RecAt(old, k)
  BY <1>1, <1>2, <1>4, <1>6
<1> QED BY <1>3, <1>6, <1>7 DEF id

LEMMA OneLess ==
  ASSUME NEW n \in Nat, NEW old, PagesOK(n, old), NEW pages, PagesOK(n, pages),
         NEW p \in 1..n, NEW j \in Slot, old[p].rec[j] # NoRec,
         \A i \in 1..n : i # p => pages[i].rec = old[i].rec,
         pages[p].rec[j] = NoRec,
         \A k \in Slot : k # j => pages[p].rec[k] = old[p].rec[k]
  PROVE  /\ <<p - 1, j>> \in Ids(old)
         /\ Ids(pages) = Ids(old) \ {<<p - 1, j>>}
         /\ \A k \in Ids(pages) : RecAt(pages, k) = RecAt(old, k)
<1> DEFINE id == <<p - 1, j>>
<1>1. /\ Ids(old) = {k \in (0..(n - 1)) \X Slot : RecAt(old, k) # NoRec}
      /\ Ids(pages) = {k \in (0..(n - 1)) \X Slot : RecAt(pages, k) # NoRec}
  BY IdsAre
<1>2. id \in (0..(n - 1)) \X Slot /\ RecAt(pages, id) = NoRec /\ RecAt(old, id) # NoRec
  BY DEF RecAt
<1>3. ASSUME NEW k \in (0..(n - 1)) \X Slot, k # id
      PROVE  RecAt(pages, k) = RecAt(old, k)
  <2>1. k[1] + 1 \in 1..n /\ k[2] \in Slot /\ k = <<k[1], k[2]>>
    BY <1>3
  <2>2. k[1] + 1 # p \/ k[2] # j
    BY <1>3, <2>1
  <2> QED BY <2>1, <2>2 DEF RecAt
<1> HIDE DEF id
<1>4. /\ id \in Ids(old) /\ Ids(pages) = Ids(old) \ {id}
      /\ \A k \in Ids(pages) : RecAt(pages, k) = RecAt(old, k)
  BY <1>1, <1>2, <1>3
<1> QED BY <1>4 DEF id
-----------------------------------------------------------------------------
(* The invariant of files and tables. *)

Entry == [valid : BOOLEAN, scan_active : BOOLEAN, fname : Name \cup {NoName},
          pf_fd : Fd, header : HFHeader]

Scan == [valid : BOOLEAN, hf_fd : Fd, op : 0..7, value : Value \cup {0},
         rec_id : RecId \cup {<<-1, -1>>}]

Shapes == hf_table \in [Fd -> Entry] /\ hf_scan_table \in [Fd -> Scan]

\* An open file exists, and the header in memory fits its pages.
Fits(fd) ==
  LET f == file[hf_table[fd].fname] IN HeapOK(f) /\ Header(fd) \in Headers(Len(f.pages))

Files ==
  /\ DOMAIN file = Name
  /\ \A n \in Name : file[n] = Missing \/ HeapOK(file[n])
  /\ \A fd \in OpenFds : Fits(fd)

RInv == HInv /\ Shapes /\ Files

LEMMA OpenFacts ==
  ASSUME RInv, NEW fd \in OpenFds
  PROVE  /\ FileOf(fd) = hf_table[fd].fname /\ FileOf(fd) \in Name /\ fd \in Fd
         /\ HeapOK(file[FileOf(fd)]) /\ Usable(fd)
         /\ Len(Pages(fd)) \in 0..MaxPages /\ DOMAIN Pages(fd) = 1..Len(Pages(fd))
         /\ Header(fd) \in Headers(Len(Pages(fd)))
         /\ file[FileOf(fd)].header \in Headers(Len(Pages(fd)))
         /\ PagesOK(Len(Pages(fd)), Pages(fd))
         /\ Records(fd) = Ids(Pages(fd)) /\ Ids(Pages(fd)) \subseteq RecId
<1> DEFINE n == Len(Pages(fd))
<1>1. FileOf(fd) = hf_table[fd].fname /\ FileOf(fd) \in Name /\ fd \in Fd
  BY DEF RInv, HInv, EntryOwnsFile, OpenNamed, OpenFds
<1>2. HeapOK(file[FileOf(fd)]) /\ Header(fd) \in Headers(n)
  BY <1>1 DEF RInv, Files, Fits, Pages
<1>3. /\ n \in 0..MaxPages /\ DOMAIN Pages(fd) = 1..n
      /\ file[FileOf(fd)].header \in Headers(n) /\ PagesOK(n, Pages(fd))
  BY <1>2, HeapFacts DEF Pages
<1>4. n \in Nat
  BY <1>3, HFAssumption
<1> HIDE DEF n
<1>5. /\ Header(fd).nr_pages = n /\ Header(fd).free_page_list \in 0..n
      /\ Header(fd).full_page_list \in 0..n /\ n \in 0..n
  BY <1>2, <1>4 DEF Headers
<1>6. FileOf(fd) # NoName
  BY <1>1, HFAssumption
<1>7. Usable(fd)
  BY <1>5, <1>6 DEF Usable, Header, Pages, n
<1>8. Records(fd) = Ids(Pages(fd))
  BY <1>5 DEF Records, Ids, n
<1>9. Ids(Pages(fd)) \subseteq RecId
  BY <1>3, <1>4, IdsAre, HFAssumption DEF RecId
<1> QED BY <1>1, <1>2, <1>3, <1>7, <1>8, <1>9 DEF n

\* A call has changed the records of the file of fd: pages are its pages now.
Rewritten(fd, pages) ==
  \E n \in 0..MaxPages : \E header, page_header \in Headers(n) :
    PagesOK(n, pages) /\ Writes(fd, header, page_header, pages)

LEMMA RewrittenFile ==
  ASSUME RInv, NEW fd \in OpenFds, NEW pages, Rewritten(fd, pages)
  PROVE  /\ file'[FileOf(fd)].pages = pages /\ HeapOK(file'[FileOf(fd)])
         /\ \A n \in Name : n # FileOf(fd) => file'[n] = file[n]
         /\ DOMAIN file' = Name
         /\ hf_scan_table' = hf_scan_table /\ pf_table' = pf_table
         /\ OpenFds' = OpenFds
         /\ \A g \in Fd : /\ hf_table'[g].valid = hf_table[g].valid
                          /\ hf_table'[g].fname = hf_table[g].fname
                          /\ hf_table'[g].pf_fd = hf_table[g].pf_fd
         /\ RInv'
<1>0. PICK n \in 0..MaxPages : \E header, page_header \in Headers(n) :
        PagesOK(n, pages) /\ Writes(fd, header, page_header, pages)
  BY DEF Rewritten
<1>1. PICK header \in Headers(n), page_header \in Headers(n) :
        PagesOK(n, pages) /\ Writes(fd, header, page_header, pages)
  BY <1>0
<1> DEFINE f == [header |-> page_header, pages |-> pages]
           name == FileOf(fd)
<1>2. /\ hf_table' = [hf_table EXCEPT ![fd].header = header]
      /\ file' = [file EXCEPT ![name] = f]
      /\ pf_table' = pf_table /\ hf_scan_table' = hf_scan_table
  BY <1>1 DEF Writes
<1>3. name \in Name /\ fd \in Fd /\ name = hf_table[fd].fname
  BY OpenFacts
<1>4. HeapOK(f) /\ f.pages = pages /\ Len(pages) = n /\ n \in Nat
  BY <1>1, HeapIntro, IdsAre, HFAssumption
<1> HIDE DEF f, name
<1>5. /\ file'[name] = f /\ DOMAIN file' = Name
      /\ \A k \in Name : k # name => file'[k] = file[k]
  BY <1>2, <1>3 DEF RInv, Files
<1>6. header \in HFHeader
  BY <1>4, HFAssumption DEF Headers, HFHeader, PageNum
<1>7. /\ hf_table' \in [Fd -> Entry]
      /\ \A g \in Fd : /\ hf_table'[g].valid = hf_table[g].valid
                       /\ hf_table'[g].fname = hf_table[g].fname
                       /\ hf_table'[g].pf_fd = hf_table[g].pf_fd
                       /\ hf_table'[g].header = IF g = fd THEN header ELSE hf_table[g].header
  BY <1>2, <1>3, <1>6 DEF RInv, Shapes, Entry
<1>8. OpenFds' = OpenFds
  BY <1>7 DEF OpenFds
<1>9. HInv'
  BY <1>2, <1>3, HeaderStep DEF RInv
<1>10. Shapes'
  BY <1>2, <1>7 DEF RInv, Shapes
<1>11. ASSUME NEW g \in OpenFds
       PROVE  Fits(g)'
  <2>1. g \in Fd /\ hf_table[g].fname \in Name
    BY DEF RInv, HInv, OpenNamed, OpenFds
  <2>2. CASE g = fd
    BY <1>1, <1>3, <1>4, <1>5, <1>7, <2>2 DEF Fits, Header
  <2>3. CASE g # fd
    <3>1. hf_table[g].fname # name
      BY <1>3, <2>3 DEF RInv, HInv, NamesApart
    <3> QED BY <1>5, <1>7, <2>1, <2>3, <3>1 DEF RInv, Files, Fits, Header
  <2> QED BY <2>2, <2>3
<1>12. Files'
  BY <1>4, <1>5, <1>8, <1>11 DEF RInv, Files
<1>13. /\ file'[name].pages = pages /\ HeapOK(file'[name])
       /\ \A k \in Name : k # name => file'[k] = file[k]
  BY <1>4, <1>5
<1> QED BY <1>2, <1>5, <1>7, <1>8, <1>9, <1>10, <1>12, <1>13 DEF RInv, name
\* What an insertion and a deletion do to the records of a file.
Added(old, pages, id, v) ==
  /\ id \notin Ids(old) /\ Ids(pages) = Ids(old) \cup {id}
  /\ \A k \in Ids(pages) : RecAt(pages, k) = IF k = id THEN v ELSE RecAt(old, k)

Removed(old, pages, id) ==
  /\ id \in Ids(old) /\ Ids(pages) = Ids(old) \ {id}
  /\ \A k \in Ids(pages) : RecAt(pages, k) = RecAt(old, k)

LEMMA InsertEffect ==
  ASSUME RInv, NEW fd \in Fd, NEW v \in Value, HF_InsertRec(fd, v)
  PROVE  /\ fd \in OpenFds
         /\ \E id \in RecId : \E pages :
              Rewritten(fd, pages) /\ Added(Pages(fd), pages, id, v) /\ ReturnsRec(id, v)
<1> DEFINE alloc == Header(fd).free_page_list = HF_HEADER_PAGE_NUM
           n == Len(Pages(fd))
           m == IF alloc THEN n + 1 ELSE n
           header == IF alloc THEN Grown(fd) ELSE Header(fd)
           old == IF alloc THEN Append(Pages(fd), NewPage(n + 1)) ELSE Pages(fd)
           p == header.free_page_list
           was == old[p]
           j == FreeSlot(was)
           page == Put(was, j, v)
           pages == [old EXCEPT ![p] = page]
           after == IF pages[p].nr_rec = NrRec THEN Filled(header, pages, p)
                    ELSE [header |-> header, pages |-> pages]
<1>1. /\ Usable(fd) /\ (alloc => n < MaxPages) /\ old[p].nr_rec # NrRec
      /\ Writes(fd, after.header, WrittenBack(fd), after.pages)
      /\ ReturnsRec(<<p - 1, j>>, v)
  BY DEF HF_InsertRec
<1>2. fd \in OpenFds
  BY <1>1 DEF Usable
<1>3. /\ n \in 0..MaxPages /\ Header(fd) \in Headers(n) /\ PagesOK(n, Pages(fd))
      /\ file[FileOf(fd)].header \in Headers(n)
  BY <1>2, OpenFacts
<1>4. n \in Nat /\ m \in 0..MaxPages /\ m \in Nat /\ n <= m
  BY <1>1, <1>3, HFAssumption
<1>5. header \in Headers(m) /\ WrittenBack(fd) \in Headers(m) /\ p \in 1..m
  <2>1. CASE alloc
    <3>1. Grown(fd) = [Header(fd) EXCEPT !.nr_pages = @ + 1, !.free_page_list = n + 1]
      BY DEF Grown
    <3>2. Grown(fd) \in Headers(n + 1) /\ Grown(fd).free_page_list = n + 1
      <4> HIDE DEF n, m
      <4>1. n + 1 \in 0..(n + 1) /\ 0..n \subseteq 0..(n + 1)
        BY <1>4
      <4> QED BY <1>3, <3>1, <4>1 DEF Headers
    <3>3. m = n + 1 /\ header = Grown(fd) /\ p = n + 1 /\ WrittenBack(fd) = Grown(fd)
      BY <2>1, <3>2 DEF WrittenBack
    <3> HIDE DEF m, n, header, p
    <3> QED BY <1>4, <3>2, <3>3
  <2>2. CASE ~alloc
    BY <1>3, <1>4, <2>2 DEF WrittenBack, Headers, HF_HEADER_PAGE_NUM
  <2> QED BY <2>1, <2>2
<1>6. /\ PagesOK(m, old) /\ \A i \in 1..n : old[i] = Pages(fd)[i]
      /\ \A i \in 1..m : i \notin 1..n => i = p /\ old[i] = NewPage(i)
  <2>1. CASE alloc
    <3>1. /\ PagesOK(n + 1, old) /\ old[n + 1] = NewPage(n + 1)
          /\ \A i \in 1..n : old[i] = Pages(fd)[i]
      BY <1>3, <1>4, <2>1, AppendOK
    <3>2. p = n + 1
      BY <1>3, <2>1 DEF Grown, Headers
    <3>3. \A i \in 1..m : i \notin 1..n => i = n + 1
      BY <1>4, <2>1
    <3> HIDE DEF p, old
    <3> QED BY <2>1, <3>1, <3>2, <3>3
  <2>2. CASE ~alloc
    BY <1>3, <2>2
  <2> QED BY <2>1, <2>2
<1> HIDE DEF n, m, header, old, p
<1>7. old \in [1..m -> PageIn(m)] /\ was \in PageIn(m) /\ Counted(was)
  BY <1>5, <1>6 DEF PagesOK
<1> HIDE DEF was
<1>8. j \in Slot /\ was.rec[j] = NoRec
  BY <1>1, <1>7, FreeSlotFound DEF was
<1> HIDE DEF j
<1>9. page \in PageIn(m) /\ Counted(page) /\ page.rec = [was.rec EXCEPT ![j] = v]
  BY <1>4, <1>7, <1>8, PutOK
<1>10. was.rec \in [Slot -> Value \cup {NoRec}]
  BY <1>7 DEF PageIn
<1> HIDE DEF page
<1>11. /\ PagesOK(m, pages) /\ pages[p] = page
       /\ \A i \in 1..m : i # p => pages[i] = old[i]
  BY <1>5, <1>6, <1>7, <1>9 DEF PagesOK
<1> HIDE DEF pages
<1>12. /\ after.header \in Headers(m) /\ PagesOK(m, after.pages)
       /\ \A i \in 1..m : after.pages[i].rec = pages[i].rec
  <2>1. CASE pages[p].nr_rec = NrRec
    <3>1. after \in {Filled(header, pages, p), Emptied(header, pages, p)}
      BY <2>1
    <3> HIDE DEF after
    <3> QED BY <1>4, <1>5, <1>11, <3>1, MovedOK
  <2>2. CASE pages[p].nr_rec # NrRec
    BY <1>5, <1>11, <2>2
  <2> QED BY <2>1, <2>2
<1> HIDE DEF after
<1>13. Rewritten(fd, after.pages)
  BY <1>1, <1>4, <1>5, <1>12 DEF Rewritten
<1>14. <<p - 1, j>> \in RecId
  BY <1>4, <1>5, <1>8, HFAssumption DEF RecId
<1>15. Added(Pages(fd), after.pages, <<p - 1, j>>, v)
  <2>1. \A i \in 1..n : i # p => after.pages[i].rec = Pages(fd)[i].rec
    BY <1>4, <1>6, <1>11, <1>12
  <2>2. p \in 1..n => Pages(fd)[p].rec[j] = NoRec
    BY <1>6, <1>8 DEF was
  <2>3. after.pages[p].rec = [was.rec EXCEPT ![j] = v]
    BY <1>5, <1>9, <1>11, <1>12
  <2>4. after.pages[p].rec[j] = v
    BY <1>8, <1>10, <2>3
  <2>5. \A k \in Slot : k # j => after.pages[p].rec[k] = was.rec[k]
    BY <1>8, <1>10, <2>3
  <2>6. ASSUME p \notin 1..n PROVE \A k \in Slot : was.rec[k] = NoRec
    <3>1. was = NewPage(p)
      BY <1>5, <1>6, <2>6 DEF was
    <3> QED BY <3>1 DEF NewPage
  <2>7. \A k \in Slot : k # j => after.pages[p].rec[k] =
           IF p \in 1..n THEN Pages(fd)[p].rec[k] ELSE NoRec
    BY <1>6, <2>5, <2>6 DEF was
  <2>8. \A i \in 1..m : i \notin 1..n => i = p
    BY <1>6
  <2> DEFINE o == Pages(fd)
             q == after.pages
  <2> HIDE DEF o, q
  <2>9. PagesOK(n, o) /\ PagesOK(m, q)
    BY <1>3, <1>12 DEF o, q
  <2>10. SlotFilled(o, n, q, m, p, j, v)
    BY <2>1, <2>2, <2>4, <2>7, <2>8 DEF o, q, SlotFilled
  <2>11. Added(o, q, <<p - 1, j>>, v)
    BY <1>4, <1>5, <1>8, <2>9, <2>10, OneMore DEF Added
  <2> QED BY <2>11 DEF o, q
<1> QED BY <1>1, <1>2, <1>13, <1>14, <1>15

LEMMA DeleteEffect ==
  ASSUME RInv, NEW fd \in Fd, NEW id \in RecId, HF_DeleteRec(fd, id)
  PROVE  /\ fd \in OpenFds
         /\ \E pages : Rewritten(fd, pages) /\ Removed(Pages(fd), pages, id)
<1> DEFINE n == Len(Pages(fd))
           p == id[1] + 1
           j == id[2]
           old == Pages(fd)
           page == Clear(old[p], j)
           pages == [old EXCEPT ![p] = page]
           after == IF pages[p].nr_rec + 1 = NrRec THEN Emptied(Header(fd), pages, p)
                    ELSE [header |-> Header(fd), pages |-> pages]
<1>1. /\ Usable(fd) /\ HasPage(fd, id) /\ RecordAt(fd, id) # NoRec
      /\ Writes(fd, after.header, file[FileOf(fd)].header, after.pages)
  BY DEF HF_DeleteRec
<1>2. fd \in OpenFds
  BY <1>1 DEF Usable
<1>3. /\ n \in 0..MaxPages /\ Header(fd) \in Headers(n) /\ PagesOK(n, old)
      /\ file[FileOf(fd)].header \in Headers(n) /\ DOMAIN Pages(fd) = 1..n
  BY <1>2, OpenFacts
<1>4. n \in Nat
  BY <1>3, HFAssumption
<1>5. p \in 1..n /\ j \in Slot /\ old[p].rec[j] # NoRec /\ id = <<p - 1, j>>
  BY <1>1, <1>3 DEF HasPage, RecordAt, RecId
<1> HIDE DEF n, p, j, old
<1>7. old \in [1..n -> PageIn(n)] /\ old[p] \in PageIn(n) /\ Counted(old[p])
  BY <1>3, <1>5 DEF PagesOK
<1>9. page \in PageIn(n) /\ Counted(page) /\ page.rec = [old[p].rec EXCEPT ![j] = NoRec]
  BY <1>4, <1>5, <1>7, ClearOK
<1>10. old[p].rec \in [Slot -> Value \cup {NoRec}]
  BY <1>7 DEF PageIn
<1> HIDE DEF page
<1>11. /\ PagesOK(n, pages) /\ pages[p] = page
       /\ \A i \in 1..n : i # p => pages[i] = old[i]
  BY <1>3, <1>5, <1>7, <1>9 DEF PagesOK
<1> HIDE DEF pages
<1>12. /\ after.header \in Headers(n) /\ PagesOK(n, after.pages)
       /\ \A i \in 1..n : after.pages[i].rec = pages[i].rec
  <2>1. CASE pages[p].nr_rec + 1 = NrRec
    <3>1. after \in {Filled(Header(fd), pages, p), Emptied(Header(fd), pages, p)}
      BY <2>1
    <3> HIDE DEF after
    <3> QED BY <1>3, <1>4, <1>5, <1>11, <3>1, MovedOK
  <2>2. CASE pages[p].nr_rec + 1 # NrRec
    BY <1>3, <1>11, <2>2
  <2> QED BY <2>1, <2>2
<1> HIDE DEF after
<1>13. Rewritten(fd, after.pages)
  BY <1>1, <1>3, <1>12 DEF Rewritten
<1>15. Removed(old, after.pages, <<p - 1, j>>)
  <2>1. \A i \in 1..n : i # p => after.pages[i].rec = old[i].rec
    BY <1>11, <1>12
  <2>3. after.pages[p].rec = [old[p].rec EXCEPT ![j] = NoRec]
    BY <1>5, <1>9, <1>11, <1>12
  <2>4. /\ after.pages[p].rec[j] = NoRec
        /\ \A k \in Slot : k # j => after.pages[p].rec[k] = old[p].rec[k]
    BY <1>5, <1>10, <2>3
  <2> DEFINE q == after.pages
  <2> HIDE DEF q
  <2>5. /\ PagesOK(n, q) /\ q[p].rec[j] = NoRec
        /\ \A i \in 1..n : i # p => q[i].rec = old[i].rec
        /\ \A k \in Slot : k # j => q[p].rec[k] = old[p].rec[k]
    BY <1>12, <2>1, <2>4 DEF q
  <2>6. Removed(old, q, <<p - 1, j>>)
    BY <1>3, <1>4, <1>5, <2>5, OneLess DEF Removed
  <2> QED BY <2>6 DEF q
<1> QED BY <1>2, <1>5, <1>13, <1>15 DEF old
-----------------------------------------------------------------------------
(* The order of a scan. *)

LEMMA EarliestOf ==
  ASSUME NEW T \in SUBSET RecId, T # {}
  PROVE  /\ Earliest(T) \in T
         /\ \A k \in T : k = Earliest(T) \/ Before(Earliest(T), k)
<1> DEFINE Ps == {id[1] : id \in T}
<1>1. \A id \in T : id[1] \in Nat /\ id[2] \in Nat /\ id = <<id[1], id[2]>>
  BY DEF RecId, Slot
<1>2. Ps \in SUBSET Nat /\ Ps # {}
  BY <1>1
<1>3. PICK p \in Ps : \A q \in Ps : p <= q
  BY <1>2, LeastOf
<1> DEFINE Js == {id[2] : id \in {k \in T : k[1] = p}}
<1>4. Js \in SUBSET Nat /\ Js # {}
  BY <1>1, <1>3
<1>5. PICK j \in Js : \A k \in Js : j <= k
  BY <1>4, LeastOf
<1>6. PICK id \in T : id[1] = p /\ id[2] = j
  BY <1>5
<1>7. \A k \in T : p <= k[1]
  BY <1>3
<1>8. \A k \in T : k[1] = p => j <= k[2]
  BY <1>5
<1>9. ASSUME NEW k \in T
      PROVE  k = id \/ Before(id, k)
  <2>1. CASE k[1] = p
    <3>1. k[2] = j => k = id
      BY <1>1, <1>6, <2>1
    <3> QED BY <1>1, <1>6, <1>8, <2>1, <3>1 DEF Before
  <2>2. CASE k[1] # p
    <3>1. p < k[1]
      BY <1>1, <1>6, <1>7, <2>2
    <3> QED BY <1>6, <3>1 DEF Before
  <2> QED BY <2>1, <2>2
<1> QED BY <1>9 DEF Earliest

LEMMA MatchingIds ==
  ASSUME RInv, NEW sd \in Fd, Usable(hf_scan_table[sd].hf_fd)
  PROVE  Matching(hf_scan_table[sd].hf_fd, hf_scan_table[sd]) \in SUBSET RecId
<1>1. hf_scan_table[sd].hf_fd \in OpenFds
  BY DEF Usable
<1> QED BY <1>1, OpenFacts DEF Matching, RecordsAfter

-----------------------------------------------------------------------------
(* The steps keep the invariant. *)

LEMMA StillR ==
  ASSUME RInv, UNCHANGED <<file, pf_table, hf_table, hf_scan_table>>
  PROVE  RInv'
<1>1. HInv'
  BY StillStep DEF RInv
<1>2. OpenFds' = OpenFds
  BY DEF OpenFds
<1> QED BY <1>1, <1>2 DEF RInv, Shapes, Files, Fits, Header

LEMMA CreateR ==
  ASSUME RInv, NEW n \in Name, HF_CreateFile(n)
  PROVE  RInv'
<1> DEFINE f == [header |-> NewHeader, pages |-> <<>>]
<1>1. /\ file[n] = Missing /\ file' = [file EXCEPT ![n] = f]
      /\ UNCHANGED tables
  BY DEF HF_CreateFile
<1>2. HeapOK(f)
  <2>1. PagesOK(0, <<>>)
    BY DEF PagesOK
  <2>2. NewHeader \in Headers(0)
    BY DEF NewHeader, Headers, HF_HEADER_PAGE_NUM
  <2> QED BY <2>1, <2>2, HeapIntro, HFAssumption
<1> HIDE DEF f
<1>3. OpenFds' = OpenFds /\ hf_table' = hf_table /\ HInv' /\ Shapes'
  BY <1>1, StillStep DEF OpenFds, tables, RInv, Shapes
<1>4. ASSUME NEW fd \in OpenFds PROVE Fits(fd)'
  <2>1. Fits(fd)
    BY DEF RInv, Files
  <2>2. hf_table[fd].fname # n
    BY <1>1, <2>1, HeapFacts DEF Fits
  <2> QED BY <1>1, <1>3, <2>1, <2>2 DEF Fits, Header, RInv, Files
<1> QED BY <1>1, <1>2, <1>3, <1>4 DEF RInv, Files

LEMMA DestroyR ==
  ASSUME RInv, NEW n \in Name, HF_DestroyFile(n)
  PROVE  RInv'
<1>1. /\ \A fd \in OpenFds : hf_table[fd].fname # n
      /\ file' = [file EXCEPT ![n] = Missing]
      /\ UNCHANGED tables
  BY DEF HF_DestroyFile, HF_SearchTable
<1>3. OpenFds' = OpenFds /\ hf_table' = hf_table /\ HInv' /\ Shapes'
  BY <1>1, StillStep DEF OpenFds, tables, RInv, Shapes
<1>4. ASSUME NEW fd \in OpenFds PROVE Fits(fd)'
  <2>1. Fits(fd)
    BY DEF RInv, Files
  <2> QED BY <1>1, <1>3, <2>1 DEF Fits, Header, RInv, Files
<1> QED BY <1>1, <1>3, <1>4 DEF RInv, Files

LEMMA OpenR ==
  ASSUME RInv, NEW n \in Name, HF_OpenFile(n)
  PROVE  RInv'
<1>1. PICK d \in Fd : d = Least(FreePf)
  <2>1. FreePf \in SUBSET Fd /\ FreePf # {}
    BY DEF FreePf, HF_OpenFile, PF_OpenFile
  <2> QED BY <2>1, LeastFree
<1>2. PICK g \in Fd : g = Greatest(Fd \ OpenFds) /\ g \notin OpenFds
  <2>1. Fd \ OpenFds \in SUBSET Fd /\ Fd \ OpenFds # {}
    BY DEF OpenFds, HF_OpenFile
  <2> QED BY <2>1, GreatestFree
<1> DEFINE new == [valid |-> TRUE, scan_active |-> FALSE, fname |-> n,
                   pf_fd |-> d, header |-> file[n].header]
<1>3. /\ hf_table' = [hf_table EXCEPT ![g] = new]
      /\ file[n] # Missing /\ file' = file /\ hf_scan_table' = hf_scan_table
  BY <1>1, <1>2 DEF HF_OpenFile, PF_OpenFile
<1>4. HeapOK(file[n])
  BY <1>3 DEF RInv, Files
<1>5. file[n].header \in Headers(Len(file[n].pages)) /\ file[n].header \in HFHeader
  BY <1>4, HeapFacts DEF HeapFile
<1>6. /\ new \in Entry /\ new.valid = TRUE /\ new.fname = n /\ new.header = file[n].header
  BY <1>5 DEF Entry
<1> HIDE DEF new
<1>7. /\ hf_table' \in [Fd -> Entry]
      /\ hf_table'[g].valid = TRUE /\ hf_table'[g].fname = n
      /\ hf_table'[g].header = file[n].header
      /\ \A fd \in Fd : fd # g => hf_table'[fd] = hf_table[fd]
  BY <1>2, <1>3, <1>6 DEF RInv, Shapes
<1>8. OpenFds' = OpenFds \cup {g}
  BY <1>2, <1>7 DEF OpenFds
<1>9. Fits(g)'
  BY <1>3, <1>4, <1>5, <1>7 DEF Fits, Header
<1>10. ASSUME NEW fd \in OpenFds PROVE Fits(fd)'
  <2>1. fd \in Fd /\ fd # g
    BY <1>2 DEF OpenFds
  <2> QED BY <1>3, <1>7, <2>1 DEF Fits, Header, RInv, Files
<1>11. HInv'
  BY OpenStep DEF RInv
<1> QED BY <1>3, <1>7, <1>8, <1>9, <1>10, <1>11 DEF RInv, Shapes, Files

LEMMA CloseR ==
  ASSUME RInv, NEW fd \in Fd, HF_CloseFile(fd)
  PROVE  RInv'
<1>1. /\ hf_table' = [hf_table EXCEPT ![fd].valid = FALSE]
      /\ file' = file /\ hf_scan_table' = hf_scan_table
  BY DEF HF_CloseFile
<1>2. /\ hf_table' \in [Fd -> Entry]
      /\ hf_table'[fd].valid = FALSE
      /\ \A g \in Fd : g # fd => hf_table'[g] = hf_table[g]
  BY <1>1 DEF RInv, Shapes, Entry
<1>3. OpenFds' = OpenFds \ {fd}
  BY <1>2 DEF OpenFds
<1>4. ASSUME NEW g \in OpenFds' PROVE Fits(g)'
  <2>1. g \in OpenFds /\ g \in Fd /\ hf_table'[g] = hf_table[g]
    BY <1>2, <1>3 DEF OpenFds
  <2> QED BY <1>1, <2>1 DEF Fits, Header, RInv, Files
<1>5. HInv'
  BY CloseStep DEF RInv
<1> QED BY <1>1, <1>2, <1>4, <1>5 DEF RInv, Shapes, Files

\* A scan is opened or closed on fd.
LEMMA MarkR ==
  ASSUME RInv, NEW fd \in Fd, NEW mark \in BOOLEAN, NEW sd \in Fd, NEW scan \in Scan,
         hf_table' = [hf_table EXCEPT ![fd].scan_active = mark],
         hf_scan_table' = [hf_scan_table EXCEPT ![sd] = scan],
         UNCHANGED <<file, pf_table>>
  PROVE  RInv' /\ OpenFds' = OpenFds
<1>1. /\ hf_table' \in [Fd -> Entry]
      /\ \A g \in Fd : /\ hf_table'[g].valid = hf_table[g].valid
                       /\ hf_table'[g].fname = hf_table[g].fname
                       /\ hf_table'[g].header = hf_table[g].header
  BY DEF RInv, Shapes, Entry
<1>2. OpenFds' = OpenFds
  BY <1>1 DEF OpenFds
<1>3. HInv'
  BY MarkStep DEF RInv
<1>4. Shapes'
  BY <1>1 DEF RInv, Shapes
<1>5. ASSUME NEW g \in OpenFds PROVE Fits(g)'
  <2>1. g \in Fd
    BY DEF OpenFds
  <2> QED BY <1>1, <2>1 DEF Fits, Header, RInv, Files
<1> QED BY <1>2, <1>3, <1>4, <1>5 DEF RInv, Files

LEMMA OpenScanR ==
  ASSUME RInv, NEW fd \in Fd, NEW cond \in Conds, HF_OpenFileScan(fd, cond)
  PROVE  RInv' /\ OpenFds' = OpenFds /\ Least(FreeScans) \in FreeScans
<1> DEFINE sd == Least(FreeScans)
           scan == [valid |-> TRUE, hf_fd |-> fd, op |-> cond.op,
                    value |-> cond.value, rec_id |-> <<-1, -1>>]
<1>1. sd \in FreeScans /\ sd \in Fd
  BY LeastFree DEF FreeScans, HF_OpenFileScan
<1>2. scan \in Scan
  BY HFAssumption DEF Scan
<1>3. /\ hf_scan_table' = [hf_scan_table EXCEPT ![sd] = scan]
      /\ hf_table' = [hf_table EXCEPT ![fd].scan_active = TRUE]
      /\ UNCHANGED <<file, pf_table>>
  BY DEF HF_OpenFileScan
<1> HIDE DEF sd, scan
<1>4. RInv' /\ OpenFds' = OpenFds
  BY <1>1, <1>2, <1>3, MarkR
<1> QED BY <1>1, <1>4 DEF sd

LEMMA CloseScanR ==
  ASSUME RInv, NEW sd \in Fd, HF_CloseFileScan(sd)
  PROVE  RInv' /\ OpenFds' = OpenFds
<1>1. NewScan \in Scan
  <2>1. <<0, 0>> \in RecId
    BY HFAssumption, PagesAssumption DEF RecId, Slot
  <2>2. 0 \in Fd
    BY HFAssumption DEF Fd
  <2> QED BY <2>1, <2>2 DEF NewScan, Scan
<1>2. hf_scan_table[sd].hf_fd \in Fd
  BY DEF RInv, Shapes, Scan
<1> QED BY <1>1, <1>2, MarkR DEF HF_CloseFileScan

LEMMA FindR ==
  ASSUME RInv, NEW sd \in Fd, HF_FindNextRec(sd)
  PROVE  RInv'
<1> DEFINE scan == hf_scan_table[sd]
           ids == Matching(scan.hf_fd, scan)
<1>1. Usable(scan.hf_fd) /\ UNCHANGED <<file, pf_table, hf_table>>
  BY DEF HF_FindNextRec
<1>2. ids \in SUBSET RecId
  BY <1>1, MatchingIds
<1>3. CASE ids = {}
  BY <1>1, <1>3, StillR DEF HF_FindNextRec
<1>4. CASE ids # {}
  <2>1. hf_scan_table' = [hf_scan_table EXCEPT ![sd].rec_id = Earliest(ids)]
    BY <1>4 DEF HF_FindNextRec
  <2>2. Earliest(ids) \in RecId
    BY <1>2, <1>4, EarliestOf
  <2> HIDE DEF ids
  <2>3. hf_scan_table' \in [Fd -> Scan]
    BY <2>1, <2>2 DEF RInv, Shapes, Scan
  <2>4. OpenFds' = OpenFds /\ HInv'
    BY <1>1, StillStep DEF OpenFds, RInv
  <2> QED BY <1>1, <2>3, <2>4 DEF RInv, Shapes, Files, Fits, Header
<1> QED BY <1>3, <1>4
\* Calls that leave files and tables as they are.
Reads(fd) ==
  \/ InvalidFd(fd) \/ InsertNoPage(fd) \/ InsertInconsistent(fd) \/ HF_GetFirstRec(fd)
  \/ \E id \in RecId : DeleteEmpty(fd, id) \/ HF_GetThisRec(fd, id) \/ HF_GetNextRec(fd, id)

LEMMA ReadsStill ==
  ASSUME NEW fd, Reads(fd)
  PROVE  UNCHANGED <<file, pf_table, hf_table, hf_scan_table>>
BY DEF Reads, InvalidFd, InsertNoPage, InsertInconsistent, HF_GetFirstRec, DeleteEmpty,
       HF_GetThisRec, HF_GetNextRec, Refuses, tables

LEMMA FileR ==
  ASSUME RInv, NEW n \in Name, FileCall(n)
  PROVE  RInv'
<1>1. CASE CreateRefused(n) \/ DestroyRefused(n) \/ OpenRefused(n)
  BY <1>1, StillR DEF CreateRefused, DestroyRefused, OpenRefused, Refuses, tables
<1> QED BY <1>1, CreateR, DestroyR, OpenR DEF FileCall

LEMMA RecordR ==
  ASSUME RInv, NEW fd \in Fd, HRecord(fd)
  PROVE  RInv'
<1>1. ASSUME NEW id \in RecId, HDelete(fd, id) PROVE RInv'
  BY <1>1, DeleteEffect, RewrittenFile DEF HDelete
<1>2. ASSUME NEW v \in Value, HInsert(fd, v) PROVE RInv'
  BY <1>2, InsertEffect, RewrittenFile DEF HInsert
<1>3. CASE Reads(fd)
  BY <1>3, ReadsStill, StillR
<1> QED BY <1>1, <1>2, <1>3 DEF HRecord, Reads

LEMMA NextR ==
  ASSUME RInv, [HNext]_hvars, bound \in Bounds
  PROVE  RInv'
<1>1. ASSUME NEW n \in bound.names, FileCall(n)
      PROVE  RInv'
  <2>1. n \in Name
    BY BoundsAssumption
  <2> QED BY <1>1, <2>1, FileR
<1>2. ASSUME NEW fd \in Fd, HClose(fd)
      PROVE  RInv'
  <2>1. CASE HF_CloseFile(fd)
    BY <2>1, CloseR
  <2>2. CASE CloseRefused(fd)
    BY <2>2, StillR DEF CloseRefused, Refuses, tables
  <2> QED BY <1>2, <2>1, <2>2 DEF HClose
<1>3. ASSUME NEW fd \in Fd, HRecord(fd)
      PROVE  RInv'
  BY <1>3, RecordR
<1>4. ASSUME NEW fd \in Fd, NEW cond \in Conds, HOpenScan(fd, cond)
      PROVE  RInv'
  BY <1>4, OpenScanR DEF HOpenScan
<1>5. ASSUME NEW sd \in Fd,
             HFind(sd) \/ HCloseScan(sd) \/ FindNotOpen(sd) \/ CloseScanInvalid(sd)
      PROVE  RInv'
  <2>1. CASE FindNotOpen(sd) \/ CloseScanInvalid(sd)
    BY <2>1, StillR DEF FindNotOpen, CloseScanInvalid, Refuses, tables
  <2> QED BY <1>5, <2>1, FindR, CloseScanR DEF HFind, HCloseScan
<1>6. ASSUME UNCHANGED hvars
      PROVE  RInv'
  BY <1>6, StillR DEF hvars
<1> QED BY <1>1, <1>2, <1>3, <1>4, <1>5, <1>6 DEF HNext

LEMMA InitR == HInit => RInv
<1> SUFFICES ASSUME HInit PROVE RInv
  OBVIOUS
<1>1. /\ file = [n \in Name |-> Missing]
      /\ hf_table = [fd \in Fd |-> NewEntry]
      /\ hf_scan_table = [sd \in Fd |-> NewScan]
  BY DEF HInit, Init
<1>2. NewScan \in Scan /\ NewEntry \in Entry
  <2>1. <<0, 0>> \in RecId
    BY HFAssumption, PagesAssumption DEF RecId, Slot
  <2>2. 0 \in Fd
    BY HFAssumption DEF Fd
  <2>3. NewHeader \in HFHeader
    BY HFAssumption DEF NewHeader, HFHeader, PageNum, HF_HEADER_PAGE_NUM
  <2> QED BY <2>1, <2>2, <2>3 DEF NewScan, Scan, NewEntry, Entry
<1>3. OpenFds = {}
  BY <1>1 DEF OpenFds, NewEntry
<1>4. Shapes
  BY <1>1, <1>2 DEF Shapes
<1>5. Files
  BY <1>1, <1>3 DEF Files
<1> QED BY <1>4, <1>5, InitHInv DEF RInv

LEMMA HSpecR == HSpec => [](RInv /\ bound \in Bounds)
<1>1. HInit => RInv /\ bound \in Bounds
  BY InitR DEF HInit
<1>2. RInv /\ bound \in Bounds /\ [HNext]_hvars => (RInv /\ bound \in Bounds)'
  <2>1. [HNext]_hvars => bound' = bound
    BY DEF HNext, hvars
  <2> QED BY <2>1, NextR
<1> QED BY <1>1, <1>2, PTL DEF HSpec

(* The files and the tables have their shapes: no list leads to the header  *)
(* page or past the last one, and no record count leaves its page's         *)
(* capacity (hf.c:245-340).                                                 *)
THEOREM WellTyped == HSpec => []TypeOK
<1>1. RInv => TypeOK
  <2> SUFFICES ASSUME RInv PROVE TypeOK
    OBVIOUS
  <2>1. \A n \in Name : file[n] \notin {Missing, Headless} => file[n] \in HeapFile
    BY HeapFacts DEF RInv, Files
  <2>2. pf_table \in [Fd -> Name \cup {NoName}]
    BY DEF RInv, HInv, Tables
  <2>3. \A sd \in Fd : /\ hf_scan_table[sd].hf_fd \in Fd
                       /\ hf_scan_table[sd].rec_id \in RecId \cup {<<-1, -1>>}
    BY DEF RInv, Shapes, Scan
  <2>4. hf_table \in [Fd -> [valid : BOOLEAN, scan_active : BOOLEAN,
                             fname : Name \cup {NoName}, pf_fd : Fd, header : HFHeader]]
    BY DEF RInv, Shapes, Entry
  <2> QED BY <2>1, <2>2, <2>3, <2>4 DEF TypeOK
<1> QED BY <1>1, HSpecR, PTL

(* Whatever was inserted, deleted, closed and opened: a page counts its     *)
(* records and the headers, on the page and in memory, count the pages      *)
(* (hf.c:245-248, 294-296, 340).                                            *)
THEOREM Counts == HSpec => []CountsAgree
<1>1. RInv => CountsAgree
  <2> SUFFICES ASSUME RInv PROVE CountsAgree
    OBVIOUS
  <2>1. ASSUME NEW n \in Name, HasData(n)
        PROVE  /\ file[n].header.nr_pages = Len(file[n].pages)
               /\ \A p \in DOMAIN file[n].pages :
                    file[n].pages[p].nr_rec = NrRec - Cardinality(FreeSlots(file[n].pages[p]))
    <3>1. HeapOK(file[n])
      BY <2>1 DEF HasData, RInv, Files
    <3>2. /\ file[n].header \in Headers(Len(file[n].pages))
          /\ PagesOK(Len(file[n].pages), file[n].pages)
          /\ DOMAIN file[n].pages = 1..Len(file[n].pages)
      BY <3>1, HeapFacts
    <3> QED BY <3>2 DEF Headers, PagesOK, Counted
  <2>2. \A fd \in OpenFds : Header(fd).nr_pages = Len(Pages(fd))
    BY OpenFacts DEF Headers
  <2> QED BY <2>1, <2>2 DEF CountsAgree
<1> QED BY <1>1, HSpecR, PTL
-----------------------------------------------------------------------------
(* Scans.  The comparison of hf.c:660 is a subtraction: it is right when no *)
(* difference of two attributes overflows.                                  *)

DifferencesFit == \A a, b \in Value : a - b \in (-INT_MAX - 1)..INT_MAX

LEMMA SmallMod ==
  ASSUME NEW m \in Nat, NEW y \in 0..(m - 1)
  PROVE  y % m = y
<1>1. m > 0
  OBVIOUS
<1>2. y % m \in 0..(m - 1) /\ y \div m \in Int /\ y = m * (y \div m) + (y % m)
  BY <1>1
<1>3. y \div m = 0
  <2> DEFINE k == y \div m
  <2>1. k \in Int /\ m * k < m /\ m * k > -m
    BY <1>2
  <2> HIDE DEF k
  <2>2. ~(k >= 1)
    BY <1>1, <2>1
  <2>3. ~(k <= -1)
    BY <1>1, <2>1
  <2>4. k = 0
    BY <2>1, <2>2, <2>3
  <2> QED BY <2>4 DEF k
<1> QED BY <1>2, <1>3

LEMMA WrapFits ==
  ASSUME NEW x \in (-INT_MAX - 1)..INT_MAX
  PROVE  Wrap(x) = x
<1> DEFINE m == 2 * INT_MAX + 2
           y == x + INT_MAX + 1
<1>1. INT_MAX \in Nat /\ m \in Nat /\ y \in 0..(m - 1)
  BY HFAssumption
<1>2. y % m = y
  BY <1>1, SmallMod
<1>3. Wrap(x) = (y % m) - INT_MAX - 1
  BY DEF Wrap
<1> HIDE DEF m
<1> QED BY <1>1, <1>2, <1>3

LEMMA ConditionHolds ==
  ASSUME DifferencesFit, NEW op \in 1..7, NEW a \in Value, NEW b \in Value
  PROVE  (op = ALL_OP \/ HF_CheckCondition(op, a, b)) <=> Holds(op, a, b)
<1>1. a \in Int /\ b \in Int
  BY HFAssumption
<1>2. Wrap(a - b) = a - b
  BY WrapFits DEF DifferencesFit
<1>3. op = 1 \/ op = 2 \/ op = 3 \/ op = 4 \/ op = 5 \/ op = 6 \/ op = 7
  OBVIOUS
<1>4. CASE op = 1
  BY <1>1, <1>2, <1>4 DEF HF_CheckCondition, Holds, EQ_OP, LT_OP, GT_OP,
     LE_OP, GE_OP, NE_OP, ALL_OP
<1>5. CASE op = 2
  BY <1>1, <1>2, <1>5 DEF HF_CheckCondition, Holds, EQ_OP, LT_OP, GT_OP,
     LE_OP, GE_OP, NE_OP, ALL_OP
<1>6. CASE op = 3
  BY <1>1, <1>2, <1>6 DEF HF_CheckCondition, Holds, EQ_OP, LT_OP, GT_OP,
     LE_OP, GE_OP, NE_OP, ALL_OP
<1>7. CASE op = 4
  BY <1>1, <1>2, <1>7 DEF HF_CheckCondition, Holds, EQ_OP, LT_OP, GT_OP,
     LE_OP, GE_OP, NE_OP, ALL_OP
<1>8. CASE op = 5
  BY <1>1, <1>2, <1>8 DEF HF_CheckCondition, Holds, EQ_OP, LT_OP, GT_OP,
     LE_OP, GE_OP, NE_OP, ALL_OP
<1>9. CASE op = 6
  BY <1>1, <1>2, <1>9 DEF HF_CheckCondition, Holds, EQ_OP, LT_OP, GT_OP,
     LE_OP, GE_OP, NE_OP, ALL_OP
<1>10. CASE op = 7
  BY <1>1, <1>2, <1>10 DEF HF_CheckCondition, Holds, EQ_OP, LT_OP, GT_OP,
     LE_OP, GE_OP, NE_OP, ALL_OP
<1> QED BY <1>3, <1>4, <1>5, <1>6, <1>7, <1>8, <1>9, <1>10

\* What a scan has still to return is there and behind its cursor; what it has
\* returned is not behind it.
ScanOK(sd) ==
  LET scan == hf_scan_table[sd]
      pages == Pages(scan.hf_fd)
  IN
  /\ scan.hf_fd \in OpenFds /\ scan.op \in 1..7 /\ scan.value \in Value
  /\ \A id \in due[sd] : /\ id \in Ids(pages) /\ Holds(scan.op, RecAt(pages, id), scan.value)
                         /\ id \in seen[sd] \/ Before(scan.rec_id, id)
  /\ \A id \in seen[sd] : id \in RecId /\ ~Before(scan.rec_id, id)

ScanInv ==
  /\ DOMAIN due = Fd /\ DOMAIN seen = Fd
  /\ \A sd \in OpenScans : ScanOK(sd)

LEMMA BeforeTransitive ==
  ASSUME NEW a \in RecId \cup {<<-1, -1>>}, NEW b \in RecId, NEW c \in RecId,
         Before(a, b), Before(b, c)
  PROVE  Before(a, c)
<1>1. /\ a[1] \in Int /\ a[2] \in Int /\ b[1] \in Int /\ b[2] \in Int
      /\ c[1] \in Int /\ c[2] \in Int
  BY DEF RecId, Slot
<1> QED BY <1>1 DEF Before

\* The records a scan finds are those that satisfy its condition.
LEMMA MatchingIs ==
  ASSUME DifferencesFit, RInv, NEW sd \in OpenScans, ScanOK(sd)
  PROVE  LET scan == hf_scan_table[sd]
             pages == Pages(scan.hf_fd)
         IN Matching(scan.hf_fd, scan) =
              {k \in Ids(pages) : /\ Before(scan.rec_id, k)
                                  /\ Holds(scan.op, RecAt(pages, k), scan.value)}
<1> DEFINE scan == hf_scan_table[sd]
           fd == scan.hf_fd
           pages == Pages(fd)
           n == Len(pages)
<1>1. fd \in OpenFds /\ scan.op \in 1..7 /\ scan.value \in Value
  BY DEF ScanOK
<1>2. Records(fd) = Ids(pages) /\ n \in 0..MaxPages /\ PagesOK(n, pages)
  BY <1>1, OpenFacts
<1>3. n \in Nat
  BY <1>2, HFAssumption
<1>4. \A k \in Ids(pages) : RecAt(pages, k) \in Value /\ RecordAt(fd, k) = RecAt(pages, k)
  <2> TAKE k \in Ids(pages)
  <2>1. k \in (0..(n - 1)) \X Slot /\ RecAt(pages, k) # NoRec
    BY <1>2, <1>3, IdsAre
  <2>2. k[1] + 1 \in 1..n /\ k[2] \in Slot
    BY <1>3, <2>1
  <2>3. pages[k[1] + 1] \in PageIn(n)
    BY <1>2, <2>2 DEF PagesOK
  <2>4. RecAt(pages, k) \in Value \cup {NoRec}
    BY <2>2, <2>3 DEF PageIn, RecAt
  <2> QED BY <2>1, <2>4 DEF RecAt, RecordAt
<1> HIDE DEF n, pages
<1>5. \A k \in Ids(pages) :
        (scan.op = ALL_OP \/ HF_CheckCondition(scan.op, RecordAt(fd, k), scan.value))
          <=> Holds(scan.op, RecAt(pages, k), scan.value)
  BY <1>1, <1>4, ConditionHolds
<1>6. Matching(fd, scan) = {k \in Ids(pages) : /\ Before(scan.rec_id, k)
                                  /\ Holds(scan.op, RecAt(pages, k), scan.value)}
  BY <1>2, <1>5 DEF Matching, RecordsAfter
<1> QED BY <1>6 DEF pages

\* A scan that a step leaves alone, on a file that the step leaves alone.
LEMMA KeepScan ==
  ASSUME RInv, RInv', NEW sd \in Fd, ScanOK(sd), hf_scan_table'[sd] = hf_scan_table[sd],
         NEW fd, fd = hf_scan_table[sd].hf_fd,
         fd \in OpenFds', hf_table'[fd].fname = hf_table[fd].fname,
         file'[hf_table[fd].fname] = file[hf_table[fd].fname],
         due'[sd] = due[sd], seen'[sd] = seen[sd]
  PROVE  ScanOK(sd)'
<1>1. fd \in OpenFds
  BY DEF ScanOK
<1>2. FileOf(fd) = hf_table[fd].fname /\ FileOf(fd)' = hf_table'[fd].fname
  BY <1>1 DEF RInv, HInv, EntryOwnsFile
<1>3. Pages(fd)' = Pages(fd)
  BY <1>2 DEF Pages
<1> QED BY <1>1, <1>3 DEF ScanOK

LEMMA SameScans ==
  ASSUME RInv, RInv', ScanInv, hf_scan_table' = hf_scan_table, UNCHANGED <<due, seen>>,
         \A sd \in OpenScans : LET fd == hf_scan_table[sd].hf_fd IN
           /\ fd \in OpenFds' /\ hf_table'[fd].fname = hf_table[fd].fname
           /\ file'[hf_table[fd].fname] = file[hf_table[fd].fname]
  PROVE  ScanInv'
<1>1. OpenScans' = OpenScans
  BY DEF OpenScans
<1>2. ASSUME NEW sd \in OpenScans PROVE ScanOK(sd)'
  <2>1. sd \in Fd /\ ScanOK(sd)
    BY DEF OpenScans, ScanInv
  <2> QED BY <2>1, KeepScan
<1> QED BY <1>1, <1>2 DEF ScanInv
\* The file of an open scan.
LEMMA ScanFile ==
  ASSUME RInv, ScanInv, NEW sd \in OpenScans, NEW fd, fd = hf_scan_table[sd].hf_fd
  PROVE  /\ sd \in Fd /\ ScanOK(sd) /\ fd \in OpenFds /\ fd \in Fd
         /\ hf_table[fd].fname \in Name /\ FileOf(fd) = hf_table[fd].fname
         /\ HeapOK(file[hf_table[fd].fname])
<1>1. sd \in Fd /\ ScanOK(sd) /\ fd \in OpenFds
  BY DEF OpenScans, ScanInv, ScanOK
<1> QED BY <1>1, OpenFacts

LEMMA FileScans ==
  ASSUME RInv, RInv', ScanInv, NEW n \in Name, FileCall(n), Kept
  PROVE  ScanInv'
<1>1. hf_scan_table' = hf_scan_table /\ UNCHANGED <<due, seen>>
  BY DEF FileCall, CreateRefused, HF_CreateFile, DestroyRefused, HF_DestroyFile,
         OpenRefused, HF_OpenFile, Refuses, tables, Kept
<1>2. ASSUME NEW fd \in OpenFds
      PROVE  /\ fd \in OpenFds' /\ hf_table'[fd].fname = hf_table[fd].fname
             /\ file'[hf_table[fd].fname] = file[hf_table[fd].fname]
  <2>1. /\ fd \in Fd /\ hf_table[fd].fname \in Name /\ HeapOK(file[hf_table[fd].fname])
        /\ hf_table[fd].valid
    BY OpenFacts DEF OpenFds
  <2>2. CASE CreateRefused(n) \/ DestroyRefused(n) \/ OpenRefused(n)
    BY <2>1, <2>2 DEF CreateRefused, DestroyRefused, OpenRefused, Refuses, tables, OpenFds
  <2>3. CASE HF_CreateFile(n)
    <3>1. hf_table[fd].fname # n
      BY <2>1, <2>3, HeapFacts DEF HF_CreateFile
    <3> QED BY <2>1, <2>3, <3>1 DEF HF_CreateFile, tables, OpenFds, RInv, Files
  <2>4. CASE HF_DestroyFile(n)
    <3>1. hf_table[fd].fname # n
      BY <2>4 DEF HF_DestroyFile, HF_SearchTable
    <3> QED BY <2>1, <2>4, <3>1 DEF HF_DestroyFile, tables, OpenFds, RInv, Files
  <2>5. CASE HF_OpenFile(n)
    <3>1. Fd \ OpenFds \in SUBSET Fd /\ Fd \ OpenFds # {}
      BY <2>5 DEF OpenFds, HF_OpenFile
    <3>2. Greatest(Fd \ OpenFds) # fd
      BY <3>1, GreatestFree
    <3>3. hf_table'[fd] = hf_table[fd] /\ file' = file
      BY <2>1, <2>5, <3>2 DEF HF_OpenFile, RInv, Shapes
    <3> QED BY <2>1, <3>3 DEF OpenFds
  <2> QED BY <2>2, <2>3, <2>4, <2>5 DEF FileCall
<1> QED BY <1>1, <1>2, SameScans, ScanFile

LEMMA CloseScans ==
  ASSUME RInv, RInv', ScanInv, NEW fd \in Fd, HClose(fd)
  PROVE  ScanInv'
<1>1. CASE HF_CloseFile(fd)
  <2>1. /\ hf_table' = [hf_table EXCEPT ![fd].valid = FALSE]
        /\ file' = file /\ hf_scan_table' = hf_scan_table /\ UNCHANGED <<due, seen>>
    BY <1>1 DEF HF_CloseFile, HClose, Kept
  <2>2. ASSUME NEW sd \in OpenScans, NEW g, g = hf_scan_table[sd].hf_fd
        PROVE  /\ g \in OpenFds' /\ hf_table'[g].fname = hf_table[g].fname
               /\ file'[hf_table[g].fname] = file[hf_table[g].fname]
    <3>1. g # fd /\ g \in OpenFds /\ g \in Fd
      BY <2>2, ScanFile DEF HClose, ScansOf
    <3>2. hf_table'[g] = hf_table[g]
      BY <2>1, <3>1 DEF RInv, Shapes
    <3> QED BY <2>1, <3>1, <3>2 DEF OpenFds
  <2> QED BY <2>1, <2>2, SameScans
<1>2. CASE CloseRefused(fd)
  <2>1. UNCHANGED <<file, hf_table, hf_scan_table, due, seen>>
    BY <1>2 DEF CloseRefused, Refuses, tables, HClose, Kept
  <2> QED BY <2>1, SameScans, ScanFile DEF OpenFds
<1> QED BY <1>1, <1>2 DEF HClose

\* The records of a file have changed.
LEMMA RewrittenScans ==
  ASSUME RInv, RInv', ScanInv, NEW fd \in OpenFds, NEW pages, Rewritten(fd, pages),
         NEW sd \in OpenScans, seen'[sd] = seen[sd],
         due'[sd] \subseteq due[sd],
         hf_scan_table[sd].hf_fd # fd => due'[sd] = due[sd],
         hf_scan_table[sd].hf_fd = fd => \A k \in due'[sd] :
            k \in Ids(pages) /\ RecAt(pages, k) = RecAt(Pages(fd), k)
  PROVE  ScanOK(sd)'
<1>0. PICK g : g = hf_scan_table[sd].hf_fd
  OBVIOUS
<1>1. /\ sd \in Fd /\ ScanOK(sd) /\ g \in OpenFds /\ g \in Fd
      /\ hf_table[g].fname \in Name /\ FileOf(g) = hf_table[g].fname
  BY <1>0, ScanFile
<1>2. /\ hf_scan_table' = hf_scan_table /\ OpenFds' = OpenFds
      /\ hf_table'[g].fname = hf_table[g].fname
      /\ file'[FileOf(fd)].pages = pages
      /\ \A n \in Name : n # FileOf(fd) => file'[n] = file[n]
  BY <1>1, RewrittenFile
<1>3. FileOf(fd) = hf_table[fd].fname
  BY OpenFacts
<1>4. CASE g # fd
  <2>1. hf_table[g].fname # FileOf(fd)
    BY <1>1, <1>3, <1>4 DEF RInv, HInv, NamesApart
  <2>2. due'[sd] = due[sd]
    BY <1>0, <1>4
  <2> QED BY <1>0, <1>1, <1>2, <2>1, <2>2, KeepScan
<1>5. CASE g = fd
  <2>1. FileOf(fd)' = hf_table'[fd].fname
    BY <1>1, <1>2, <1>5 DEF RInv, HInv, EntryOwnsFile
  <2>2. Pages(fd)' = pages
    BY <1>2, <1>3, <1>5, <2>1 DEF Pages
  <2> QED BY <1>0, <1>1, <1>2, <1>5, <2>2 DEF ScanOK
<1> QED BY <1>4, <1>5

LEMMA RecordScans ==
  ASSUME RInv, RInv', ScanInv, NEW fd \in Fd, HRecord(fd)
  PROVE  ScanInv'
<1>1. ASSUME NEW id \in RecId, HDelete(fd, id) PROVE ScanInv'
  <2>1. PICK pages : /\ fd \in OpenFds /\ Rewritten(fd, pages)
                     /\ Removed(Pages(fd), pages, id)
    BY <1>1, DeleteEffect DEF HDelete
  <2>2. hf_scan_table' = hf_scan_table
    BY <2>1, RewrittenFile
  <2>3. OpenScans' = OpenScans
    BY <2>2 DEF OpenScans
  <2>4. /\ due' = [sd \in Fd |-> IF sd \in ScansOf(fd) THEN due[sd] \ {id} ELSE due[sd]]
        /\ seen' = seen
    BY <1>1 DEF HDelete
  <2>5. ASSUME NEW sd \in OpenScans PROVE ScanOK(sd)'
    <3>1. sd \in Fd /\ ScanOK(sd)
      BY DEF OpenScans, ScanInv
    <3>2. /\ seen'[sd] = seen[sd] /\ due'[sd] \subseteq due[sd]
          /\ hf_scan_table[sd].hf_fd # fd => due'[sd] = due[sd]
          /\ hf_scan_table[sd].hf_fd = fd => due'[sd] = due[sd] \ {id}
      BY <2>4, <3>1 DEF ScansOf
    <3>3. hf_scan_table[sd].hf_fd = fd => \A k \in due'[sd] :
            k \in Ids(pages) /\ RecAt(pages, k) = RecAt(Pages(fd), k)
      BY <2>1, <3>1, <3>2 DEF ScanOK, Removed
    <3> QED BY <2>1, <3>2, <3>3, RewrittenScans
  <2> QED BY <2>3, <2>4, <2>5 DEF ScanInv
<1>2. ASSUME NEW v \in Value, HInsert(fd, v), Kept PROVE ScanInv'
  <2>1. PICK id, pages : /\ fd \in OpenFds /\ Rewritten(fd, pages)
                         /\ Added(Pages(fd), pages, id, v)
    BY <1>2, InsertEffect DEF HInsert
  <2>2. hf_scan_table' = hf_scan_table /\ due' = due /\ seen' = seen
    BY <1>2, <2>1, RewrittenFile DEF Kept
  <2>3. OpenScans' = OpenScans
    BY <2>2 DEF OpenScans
  <2>5. ASSUME NEW sd \in OpenScans PROVE ScanOK(sd)'
    <3>1. sd \in Fd /\ ScanOK(sd)
      BY DEF OpenScans, ScanInv
    <3>3. hf_scan_table[sd].hf_fd = fd => \A k \in due'[sd] :
            k \in Ids(pages) /\ RecAt(pages, k) = RecAt(Pages(fd), k)
      BY <2>1, <2>2, <3>1 DEF ScanOK, Added
    <3> QED BY <2>1, <2>2, <3>3, RewrittenScans
  <2> QED BY <2>2, <2>3, <2>5 DEF ScanInv
<1>3. ASSUME Reads(fd), Kept PROVE ScanInv'
  <2>1. UNCHANGED <<file, pf_table, hf_table, hf_scan_table, due, seen>>
    BY <1>3, ReadsStill DEF Kept
  <2> QED BY <2>1, SameScans, ScanFile DEF OpenFds
<1> QED BY <1>1, <1>2, <1>3 DEF HRecord, Reads

LEMMA OpenScanScans ==
  ASSUME RInv, RInv', ScanInv, NEW fd \in Fd, NEW cond \in Conds, HOpenScan(fd, cond)
  PROVE  ScanInv'
<1>1. PICK new \in Fd : new = Least(FreeScans) /\ new \notin OpenScans
  BY OpenScanR DEF HOpenScan, FreeScans
<1>2. /\ hf_scan_table' = [hf_scan_table EXCEPT ![new] =
            [valid |-> TRUE, hf_fd |-> fd, op |-> cond.op, value |-> cond.value,
             rec_id |-> <<-1, -1>>]]
      /\ due' = [due EXCEPT ![new] =
            {id \in Records(fd) : Holds(cond.op, RecordAt(fd, id), cond.value)}]
      /\ seen' = [seen EXCEPT ![new] = {}]
      /\ file' = file /\ pf_table' = pf_table /\ fd \in OpenFds
      /\ hf_table' = [hf_table EXCEPT ![fd].scan_active = TRUE]
  BY <1>1 DEF HOpenScan, HF_OpenFileScan
<1>3. OpenFds' = OpenFds
  BY OpenScanR DEF HOpenScan
<1>4. \A g \in Fd : /\ hf_table'[g].fname = hf_table[g].fname
                    /\ hf_table'[g].pf_fd = hf_table[g].pf_fd
  BY <1>2 DEF RInv, Shapes, Entry
<1>5. /\ hf_scan_table'[new].valid = TRUE /\ hf_scan_table'[new].hf_fd = fd
      /\ hf_scan_table'[new].op = cond.op /\ hf_scan_table'[new].value = cond.value
      /\ hf_scan_table'[new].rec_id = <<-1, -1>>
      /\ due'[new] = {id \in Records(fd) : Holds(cond.op, RecordAt(fd, id), cond.value)}
      /\ seen'[new] = {}
      /\ \A sd \in Fd : sd # new => /\ hf_scan_table'[sd] = hf_scan_table[sd]
                                    /\ due'[sd] = due[sd] /\ seen'[sd] = seen[sd]
  BY <1>2 DEF RInv, Shapes, ScanInv
<1>6. ScanOK(new)'
  <2>1. Pages(fd)' = Pages(fd)
    BY <1>2, <1>4 DEF Pages, FileOf
  <2>2. Records(fd) = Ids(Pages(fd)) /\ Ids(Pages(fd)) \subseteq RecId
    BY <1>2, OpenFacts
  <2>3. cond.op \in 1..7 /\ cond.value \in Value
    BY HFAssumption
  <2>4. \A id \in RecId : Before(<<-1, -1>>, id)
    BY DEF Before, RecId
  <2>5. \A id : RecordAt(fd, id) = RecAt(Pages(fd), id)
    BY DEF RecordAt, RecAt
  <2> QED BY <1>2, <1>3, <1>5, <2>1, <2>2, <2>3, <2>4, <2>5 DEF ScanOK
<1>7. ASSUME NEW sd \in OpenScans PROVE ScanOK(sd)'
  <2>1. sd # new
    BY <1>1
  <2>2. PICK g : g = hf_scan_table[sd].hf_fd
    OBVIOUS
  <2>3. sd \in Fd /\ ScanOK(sd) /\ g \in OpenFds /\ g \in Fd
    BY <2>2, ScanFile
  <2> QED BY <1>2, <1>3, <1>4, <1>5, <2>1, <2>2, <2>3, KeepScan
<1>8. OpenScans' \subseteq OpenScans \cup {new}
  BY <1>5 DEF OpenScans
<1> QED BY <1>2, <1>6, <1>7, <1>8 DEF ScanInv

LEMMA CloseScanScans ==
  ASSUME RInv, RInv', ScanInv, NEW old \in Fd, HCloseScan(old)
  PROVE  ScanInv'
<1>1. /\ hf_scan_table' = [hf_scan_table EXCEPT ![old] = NewScan]
      /\ due' = [due EXCEPT ![old] = {}] /\ seen' = [seen EXCEPT ![old] = {}]
      /\ hf_table' = [hf_table EXCEPT ![hf_scan_table[old].hf_fd].scan_active = FALSE]
      /\ file' = file
  BY DEF HCloseScan, HF_CloseFileScan
<1>2. OpenFds' = OpenFds
  BY CloseScanR DEF HCloseScan
<1>3. \A g \in Fd : hf_table'[g].fname = hf_table[g].fname
  BY <1>1 DEF RInv, Shapes, Entry
<1>4. /\ hf_scan_table'[old].valid = FALSE
      /\ \A sd \in Fd : sd # old => /\ hf_scan_table'[sd] = hf_scan_table[sd]
                                    /\ due'[sd] = due[sd] /\ seen'[sd] = seen[sd]
  BY <1>1 DEF RInv, Shapes, ScanInv, NewScan
<1>5. ASSUME NEW sd \in OpenScans' PROVE ScanOK(sd)'
  <2>1. sd \in OpenScans /\ sd # old
    BY <1>4 DEF OpenScans
  <2>2. PICK g : g = hf_scan_table[sd].hf_fd
    OBVIOUS
  <2>3. sd \in Fd /\ ScanOK(sd) /\ g \in OpenFds /\ g \in Fd
    BY <2>1, <2>2, ScanFile
  <2> QED BY <1>1, <1>2, <1>3, <1>4, <2>1, <2>2, <2>3, KeepScan
<1> QED BY <1>1, <1>5 DEF ScanInv
\* One step of a scan.
Exact(sd) ==
  LET scan == hf_scan_table[sd] IN
    IF res'.id = NoId THEN due[sd] \subseteq seen[sd]
    ELSE res'.id \notin seen[sd] /\ Holds(scan.op, res'.rec, scan.value)

LEMMA FindScans ==
  ASSUME DifferencesFit, RInv, RInv', ScanInv, NEW at \in Fd, HFind(at)
  PROVE  ScanInv' /\ Exact(at)
<1> DEFINE scan == hf_scan_table[at]
           ids == Matching(scan.hf_fd, scan)
           pages == Pages(scan.hf_fd)
<1>1. /\ at \in OpenScans /\ ReturnsEarliest(scan.hf_fd, ids)
      /\ hf_scan_table' = IF ids = {} THEN hf_scan_table
                          ELSE [hf_scan_table EXCEPT ![at].rec_id = Earliest(ids)]
      /\ UNCHANGED <<file, pf_table, hf_table>> /\ due' = due
      /\ seen' = [seen EXCEPT ![at] = @ \cup ({res'.id} \ {NoId})]
      /\ Usable(scan.hf_fd)
  BY DEF HFind, HF_FindNextRec
<1>2. /\ ScanOK(at) /\ scan.hf_fd \in OpenFds /\ scan.rec_id \in RecId \cup {<<-1, -1>>}
  BY <1>1 DEF ScanInv, ScanOK, RInv, Shapes, Scan
<1>3. ids = {k \in Ids(pages) : /\ Before(scan.rec_id, k)
                                /\ Holds(scan.op, RecAt(pages, k), scan.value)}
  BY <1>1, <1>2, MatchingIs
<1>4. ids \in SUBSET RecId
  BY <1>1, MatchingIds
<1>5. OpenScans' = OpenScans /\ OpenFds' = OpenFds
  <2>1. \A sd \in Fd : hf_scan_table'[sd].valid = hf_scan_table[sd].valid
    BY <1>1 DEF RInv, Shapes, Scan
  <2> QED BY <1>1, <2>1 DEF OpenScans, OpenFds
<1>6. ASSUME NEW sd \in OpenScans, sd # at PROVE ScanOK(sd)'
  <2>1. PICK g : g = hf_scan_table[sd].hf_fd
    OBVIOUS
  <2>2. sd \in Fd /\ ScanOK(sd) /\ g \in OpenFds /\ g \in Fd
    BY <2>1, ScanFile
  <2>3. hf_scan_table'[sd] = hf_scan_table[sd] /\ seen'[sd] = seen[sd]
    BY <1>1, <1>6, <2>2 DEF ScanInv, RInv, Shapes
  <2> QED BY <1>1, <1>5, <2>1, <2>2, <2>3, KeepScan
<1>8. CASE ids = {}
  <2>1. res'.id = NoId /\ hf_scan_table' = hf_scan_table
    BY <1>1, <1>8 DEF ReturnsEarliest, Returns
  <2>2. seen'[at] = seen[at] /\ DOMAIN seen' = Fd
    BY <1>1, <2>1 DEF ScanInv
  <2>3. ScanOK(at)'
    BY <1>1, <1>2, <1>5, <2>1, <2>2, KeepScan
  <2>4. due[at] \subseteq seen[at]
    BY <1>2, <1>3, <1>8 DEF ScanOK
  <2> QED BY <1>1, <1>5, <1>6, <2>1, <2>2, <2>3, <2>4 DEF ScanInv, Exact
<1>9. CASE ids # {}
  <2>1. PICK id \in RecId : id = Earliest(ids) /\ id \in ids
    BY <1>4, <1>9, EarliestOf
  <2>2. \A k \in ids : k = id \/ Before(id, k)
    BY <1>4, <1>9, <2>1, EarliestOf
  <2>3. /\ res'.id = id /\ res'.rec = RecAt(pages, id) /\ id # NoId
    BY <1>1, <1>9, <2>1, HFAssumption
       DEF ReturnsEarliest, ReturnsRec, RecordAt, RecAt
  <2> HIDE DEF ids
  <2>4. /\ hf_scan_table'[at] = [hf_scan_table[at] EXCEPT !.rec_id = id]
        /\ seen'[at] = seen[at] \cup {id}
        /\ DOMAIN seen' = Fd /\ DOMAIN due' = Fd /\ due' = due
    BY <1>1, <1>9, <2>1, <2>3 DEF ScanInv, RInv, Shapes
  <2>5. /\ hf_scan_table'[at].hf_fd = scan.hf_fd /\ hf_scan_table'[at].op = scan.op
        /\ hf_scan_table'[at].value = scan.value /\ hf_scan_table'[at].rec_id = id
    BY <2>4 DEF RInv, Shapes, Scan
  <2>6. /\ Before(scan.rec_id, id) /\ Holds(scan.op, RecAt(pages, id), scan.value)
    BY <1>3, <2>1
  <2>7. id \notin seen[at]
    BY <1>2, <2>6 DEF ScanOK
  <2>8. \A k \in due[at] : k \in Ids(pages) /\ Holds(scan.op, RecAt(pages, k), scan.value)
                           /\ (k \in seen'[at] \/ Before(id, k))
    BY <1>2, <1>3, <2>2, <2>4 DEF ScanOK
  <2>9. \A k \in seen'[at] : k \in RecId /\ ~Before(id, k)
    <3>1. \A k \in seen[at] : k \in RecId /\ ~Before(scan.rec_id, k)
      BY <1>2 DEF ScanOK
    <3>2. \A k \in seen[at] : ~Before(id, k)
      BY <1>2, <2>6, <3>1, BeforeTransitive
    <3>3. ~Before(id, id)
      BY DEF Before, RecId, Slot
    <3> QED BY <2>4, <3>1, <3>2, <3>3
  <2>10. PICK g : g = scan.hf_fd
    OBVIOUS
  <2>11. Pages(g)' = Pages(g)
    BY <1>1 DEF Pages, FileOf
  <2>12. ScanOK(at)'
    BY <1>2, <1>5, <2>4, <2>5, <2>8, <2>9, <2>10, <2>11 DEF ScanOK
  <2>13. Exact(at)
    BY <2>3, <2>6, <2>7 DEF Exact
  <2> QED BY <1>1, <1>5, <1>6, <2>4, <2>12, <2>13 DEF ScanInv
<1> QED BY <1>8, <1>9

LEMMA NextScans ==
  ASSUME DifferencesFit, RInv, ScanInv, [HNext]_hvars, bound \in Bounds
  PROVE  ScanInv'
<1>0. RInv'
  BY NextR
<1>1. ASSUME NEW n \in bound.names, FileCall(n), Kept
      PROVE  ScanInv'
  <2>1. n \in Name
    BY BoundsAssumption
  <2> QED BY <1>0, <1>1, <2>1, FileScans
<1>2. ASSUME NEW fd \in Fd, HClose(fd)
      PROVE  ScanInv'
  BY <1>0, <1>2, CloseScans
<1>3. ASSUME NEW fd \in Fd, HRecord(fd)
      PROVE  ScanInv'
  BY <1>0, <1>3, RecordScans
<1>4. ASSUME NEW fd \in Fd, NEW cond \in Conds, HOpenScan(fd, cond)
      PROVE  ScanInv'
  BY <1>0, <1>4, OpenScanScans
<1>5. ASSUME NEW sd \in Fd,
             \/ HFind(sd) \/ HCloseScan(sd)
             \/ (FindNotOpen(sd) \/ CloseScanInvalid(sd)) /\ Kept
      PROVE  ScanInv'
  <2>1. CASE (FindNotOpen(sd) \/ CloseScanInvalid(sd)) /\ Kept
    <3>1. UNCHANGED <<file, pf_table, hf_table, hf_scan_table, due, seen>>
      BY <2>1 DEF FindNotOpen, CloseScanInvalid, Refuses, tables, Kept
    <3> QED BY <1>0, <3>1, SameScans, ScanFile DEF OpenFds
  <2> QED BY <1>0, <1>5, <2>1, FindScans, CloseScanScans
<1>6. ASSUME UNCHANGED hvars
      PROVE  ScanInv'
  <2>1. UNCHANGED <<file, pf_table, hf_table, hf_scan_table, due, seen>>
    BY <1>6 DEF hvars
  <2> QED BY <1>0, <2>1, SameScans, ScanFile DEF OpenFds
<1>7. CASE HNext
  <2>1. CASE \E n \in bound.names : FileCall(n) /\ Kept
    BY <1>1, <2>1
  <2>2. CASE \E fd \in Fd : \/ HClose(fd) \/ HRecord(fd)
                            \/ \E cond \in Conds : HOpenScan(fd, cond)
    BY <1>2, <1>3, <1>4, <2>2
  <2>3. CASE \E sd \in Fd : \/ HFind(sd) \/ HCloseScan(sd)
                            \/ (FindNotOpen(sd) \/ CloseScanInvalid(sd)) /\ Kept
    BY <1>5, <2>3
  <2> QED BY <1>7, <2>1, <2>2, <2>3 DEF HNext
<1> QED BY <1>6, <1>7

(* A scan returns the records that satisfy its condition, none twice, and   *)
(* ends only when it has returned each of them that was there all the time, *)
(* whatever is inserted and deleted meanwhile (hf.c:374-404, 437-480,       *)
(* 592-620); provided that no two attributes are so far apart that their    *)
(* difference overflows.                                                    *)
THEOREM Exactness ==
  ASSUME DifferencesFit
  PROVE  HSpec => ScansExact
<1> DEFINE Inv == RInv /\ bound \in Bounds /\ ScanInv
           Step == \A sd \in OpenScans : HFind(sd) =>
                     LET scan == hf_scan_table[sd] IN
                       IF res'.id = NoId THEN due[sd] \subseteq seen[sd]
                       ELSE res'.id \notin seen[sd] /\ Holds(scan.op, res'.rec, scan.value)
<1>1. HInit => Inv
  <2>1. HInit => ScanInv
    BY DEF HInit, Init, NewScan, OpenScans, ScanInv
  <2> QED BY <2>1, InitR DEF HInit
<1>2. Inv /\ [HNext]_hvars => Inv'
  <2>1. [HNext]_hvars => bound' = bound
    BY DEF HNext, hvars
  <2> QED BY <2>1, NextR, NextScans
<1>3. Inv /\ [HNext]_hvars => [Step]_hvars
  <2> SUFFICES ASSUME Inv, [HNext]_hvars PROVE Step
    OBVIOUS
  <2>1. RInv'
    BY NextR
  <2>2. ASSUME NEW sd \in OpenScans, HFind(sd) PROVE Exact(sd)
    BY <2>1, <2>2, FindScans DEF OpenScans
  <2> QED BY <2>2 DEF Exact
<1>4. HSpec => [][Step]_hvars
  BY <1>1, <1>2, <1>3, PTL DEF HSpec
<1> QED BY <1>4 DEF ScansExact
-----------------------------------------------------------------------------
(* The record store. *)

AllRecords == [n \in Name |-> RecordsOf(n)]
OpenNames == {hf_table[fd].fname : fd \in OpenFds}
Got == [id |-> res.id, rec |-> res.rec]

RecordsIn(f) == [id \in Ids(f.pages) |-> RecAt(f.pages, id)]

LEMMA RecordsInOK ==
  ASSUME NEW f, HeapOK(f)
  PROVE  RecordsIn(f) # Missing
<1> DEFINE q == f.pages
           m == Len(q)
<1>1. m \in 0..MaxPages /\ PagesOK(m, q)
  BY HeapFacts
<1>2. m \in Nat
  BY <1>1, HFAssumption
<1>3. RecordsIn(f) = [id \in Ids(q) |-> RecAt(q, id)]
  BY DEF RecordsIn
<1> HIDE DEF q, m
<1>4. Ids(q) = {id \in (0..(m - 1)) \X Slot : RecAt(q, id) # NoRec}
  BY <1>1, <1>2, IdsAre
<1>5. Ids(q) \in SUBSET RecId
  BY <1>1, <1>2, <1>4, HFAssumption DEF RecId
<1>6. ASSUME NEW id \in Ids(q) PROVE RecAt(q, id) \in Value
  <2>1. id[1] + 1 \in 1..m /\ id[2] \in Slot /\ RecAt(q, id) # NoRec
    BY <1>2, <1>4
  <2>2. q[id[1] + 1] \in PageIn(m)
    BY <1>1, <2>1 DEF PagesOK
  <2> QED BY <2>1, <2>2 DEF PageIn, RecAt
<1>7. RecordsIn(f) \in [Ids(q) -> Value]
  BY <1>3, <1>6
<1> QED BY <1>5, <1>7, BoundsAssumption

LEMMA RecordsAre ==
  ASSUME NEW n \in Name
  PROVE  /\ file[n] = Missing => RecordsOf(n) = Missing
         /\ HeapOK(file[n]) => RecordsOf(n) = RecordsIn(file[n]) /\ RecordsOf(n) # Missing
         /\ file'[n] = Missing => RecordsOf(n)' = Missing
         /\ HeapOK(file'[n]) => RecordsOf(n)' = RecordsIn(file'[n])
<1>1. HeapOK(file[n]) => file[n] \notin {Missing, Headless}
  BY HeapFacts
<1>2. HeapOK(file'[n]) => file'[n] \notin {Missing, Headless}
  BY HeapFacts
<1> QED BY <1>1, <1>2, RecordsInOK DEF RecordsOf, HasData, RecordsIn, Ids, RecAt

LEMMA SameRecords ==
  ASSUME NEW n \in Name, file'[n] = file[n]
  PROVE  RecordsOf(n)' = RecordsOf(n)
BY DEF RecordsOf, HasData

LEMMA SameAll ==
  ASSUME file' = file
  PROVE  AllRecords' = AllRecords
BY SameRecords DEF AllRecords

LEMMA OneChanged ==
  ASSUME NEW n \in Name, \A k \in Name : k # n => file'[k] = file[k]
  PROVE  AllRecords' = [AllRecords EXCEPT ![n] = RecordsOf(n)']
<1>1. \A k \in Name : k # n => RecordsOf(k)' = RecordsOf(k)
  BY SameRecords
<1> QED BY <1>1 DEF AllRecords

LEMMA SameNames ==
  ASSUME OpenFds' = OpenFds, \A fd \in Fd : hf_table'[fd].fname = hf_table[fd].fname
  PROVE  OpenNames' = OpenNames
BY DEF OpenNames, OpenFds

LEMMA GotNothing ==
  ASSUME NEW code, Returns(code)
  PROVE  Got' = [id |-> NoId, rec |-> NoRec]
BY DEF Returns, Got

LEMMA GotRec ==
  ASSUME NEW id, NEW rec, ReturnsRec(id, rec)
  PROVE  Got' = [id |-> id, rec |-> rec]
BY DEF ReturnsRec, Got

LEMMA StoreStill ==
  ASSUME AllRecords' = AllRecords, OpenNames' = OpenNames, NEW code, Returns(code)
  PROVE  Store!Next
<1>1. Got' = [id |-> NoId, rec |-> NoRec]
  BY GotNothing
<1>2. Store!GetNothing
  BY <1>1 DEF Store!GetNothing, Store!Nothing, AllRecords, OpenNames, Got
<1> QED BY <1>2 DEF Store!Next

LEMMA RefusesStore ==
  ASSUME NEW code, Refuses(code)
  PROVE  Store!Next
<1>1. AllRecords' = AllRecords
  BY SameAll DEF Refuses
<1>2. OpenNames' = OpenNames
  BY DEF Refuses, tables, OpenNames, OpenFds
<1> QED BY <1>1, <1>2, StoreStill DEF Refuses

LEMMA CreateStore ==
  ASSUME RInv, NEW n \in Name, HF_CreateFile(n)
  PROVE  Store!Next
<1>1. /\ file[n] = Missing
      /\ file' = [file EXCEPT ![n] = [header |-> NewHeader, pages |-> <<>>]]
      /\ UNCHANGED tables
  BY DEF HF_CreateFile
<1>2. HeapOK(file'[n]) /\ file'[n].pages = <<>>
  <2>1. file'[n] = [header |-> NewHeader, pages |-> <<>>]
    BY <1>1 DEF RInv, Files
  <2>2. NewHeader \in Headers(0) /\ PagesOK(0, <<>>)
    BY DEF NewHeader, Headers, HF_HEADER_PAGE_NUM, PagesOK
  <2> QED BY <2>1, <2>2, HeapIntro, HFAssumption
<1>3. RecordsOf(n)' = <<>>
  <2>1. RecordsOf(n)' = [id \in Ids(<<>>) |-> RecAt(<<>>, id)]
    BY <1>2, RecordsAre DEF RecordsIn
  <2>2. Ids(<<>>) = {}
    BY DEF Ids, Stored
  <2> QED BY <2>1, <2>2
<1>4. AllRecords' = [AllRecords EXCEPT ![n] = <<>>]
  BY <1>1, <1>3, OneChanged DEF RInv, Files
<1>5. OpenNames' = OpenNames
  BY <1>1 DEF tables, OpenNames, OpenFds
<1>6. Got' = [id |-> NoId, rec |-> NoRec]
  BY GotNothing DEF HF_CreateFile
<1>7. AllRecords[n] = Missing
  BY <1>1, RecordsAre DEF AllRecords
<1>8. Store!Create(n)
  BY <1>4, <1>5, <1>6, <1>7 DEF Store!Create, Store!Exists, Store!Nothing, AllRecords, OpenNames, Got
<1> QED BY <1>8 DEF Store!Next

LEMMA DestroyStore ==
  ASSUME RInv, NEW n \in Name, HF_DestroyFile(n)
  PROVE  Store!Next
<1>1. /\ file[n] # Missing /\ \A fd \in OpenFds : hf_table[fd].fname # n
      /\ file' = [file EXCEPT ![n] = Missing]
      /\ UNCHANGED tables
  BY DEF HF_DestroyFile, HF_SearchTable
<1>3. RecordsOf(n)' = Missing
  <2>1. file'[n] = Missing
    BY <1>1 DEF RInv, Files
  <2> QED BY <2>1, RecordsAre
<1>4. AllRecords' = [AllRecords EXCEPT ![n] = Missing]
  BY <1>1, <1>3, OneChanged DEF RInv, Files
<1>5. OpenNames' = OpenNames /\ n \notin OpenNames
  BY <1>1 DEF tables, OpenNames, OpenFds
<1>6. Got' = [id |-> NoId, rec |-> NoRec]
  BY GotNothing DEF HF_DestroyFile
<1>7. AllRecords[n] # Missing
  BY <1>1, RecordsAre DEF AllRecords, RInv, Files
<1>8. Store!Destroy(n)
  BY <1>4, <1>5, <1>6, <1>7 DEF Store!Destroy, Store!Exists, Store!Nothing, AllRecords, OpenNames, Got
<1> QED BY <1>8 DEF Store!Next

LEMMA OpenStore ==
  ASSUME RInv, NEW n \in Name, HF_OpenFile(n)
  PROVE  Store!Next
<1>1. PICK g \in Fd : g = Greatest(Fd \ OpenFds) /\ g \notin OpenFds
  <2>1. Fd \ OpenFds \in SUBSET Fd /\ Fd \ OpenFds # {}
    BY DEF OpenFds, HF_OpenFile
  <2> QED BY <2>1, GreatestFree
<1>2. /\ hf_table'[g].valid = TRUE /\ hf_table'[g].fname = n
      /\ \A fd \in Fd : fd # g => hf_table'[fd] = hf_table[fd]
      /\ file' = file /\ file[n] # Missing
      /\ \A fd \in OpenFds : hf_table[fd].fname # n
  BY <1>1 DEF HF_OpenFile, PF_OpenFile, HF_SearchTable, RInv, Shapes
<1>3. OpenFds' = OpenFds \cup {g} /\ OpenFds \subseteq Fd
  BY <1>1, <1>2 DEF OpenFds
<1>4. OpenNames' = OpenNames \cup {n} /\ n \notin OpenNames
  <2>1. \A fd \in OpenFds : hf_table'[fd] = hf_table[fd]
    BY <1>1, <1>2, <1>3
  <2> QED BY <1>2, <1>3, <2>1 DEF OpenNames
<1>5. AllRecords' = AllRecords
  BY <1>2, SameAll
<1>6. Got' = [id |-> NoId, rec |-> NoRec]
  BY GotNothing DEF HF_OpenFile
<1>7. AllRecords[n] # Missing
  BY <1>2, RecordsAre DEF AllRecords, RInv, Files
<1>8. Store!Open(n)
  BY <1>4, <1>5, <1>6, <1>7 DEF Store!Open, Store!Exists, Store!Nothing, AllRecords, OpenNames, Got
<1> QED BY <1>8 DEF Store!Next

LEMMA CloseStore ==
  ASSUME RInv, NEW fd \in Fd, HF_CloseFile(fd)
  PROVE  Store!Next
<1>1. /\ fd \in OpenFds /\ file' = file
      /\ hf_table' = [hf_table EXCEPT ![fd].valid = FALSE]
  BY DEF HF_CloseFile
<1>2. PICK n \in Name : n = hf_table[fd].fname
  BY <1>1, OpenFacts
<1>3. /\ hf_table'[fd].valid = FALSE
      /\ \A g \in Fd : g # fd => hf_table'[g] = hf_table[g]
  BY <1>1 DEF RInv, Shapes, Entry
<1>4. OpenFds' = OpenFds \ {fd} /\ OpenFds \subseteq Fd
  BY <1>3 DEF OpenFds
<1>5. OpenNames' = OpenNames \ {n} /\ n \in OpenNames
  <2>1. \A g \in OpenFds' : hf_table'[g] = hf_table[g] /\ hf_table[g].fname # n
    BY <1>1, <1>2, <1>3, <1>4 DEF RInv, HInv, NamesApart
  <2> QED BY <1>1, <1>2, <1>4, <2>1 DEF OpenNames
<1>6. AllRecords' = AllRecords
  BY <1>1, SameAll
<1>7. Got' = [id |-> NoId, rec |-> NoRec]
  BY GotNothing DEF HF_CloseFile
<1>8. Store!Close(n)
  BY <1>5, <1>6, <1>7 DEF Store!Close, Store!Nothing, AllRecords, OpenNames, Got
<1> QED BY <1>8 DEF Store!Next
\* The records of an open file before and after a call that changes them.
LEMMA RewrittenStore ==
  ASSUME RInv, NEW fd \in OpenFds, NEW pages, Rewritten(fd, pages)
  PROVE  \E n \in Name :
           /\ n \in OpenNames /\ OpenNames' = OpenNames
           /\ AllRecords[n] = [id \in Ids(Pages(fd)) |-> RecAt(Pages(fd), id)]
           /\ AllRecords' = [AllRecords EXCEPT ![n] = [id \in Ids(pages) |-> RecAt(pages, id)]]
<1>1. PICK n \in Name : n = FileOf(fd) /\ n = hf_table[fd].fname /\ HeapOK(file[n])
  BY OpenFacts
<1>2. /\ file'[n].pages = pages /\ HeapOK(file'[n])
      /\ \A k \in Name : k # n => file'[k] = file[k]
      /\ OpenFds' = OpenFds
      /\ \A g \in Fd : hf_table'[g].fname = hf_table[g].fname
  BY <1>1, RewrittenFile
<1>3. n \in OpenNames /\ OpenNames' = OpenNames
  BY <1>1, <1>2, SameNames DEF OpenNames
<1>4. AllRecords[n] = [id \in Ids(Pages(fd)) |-> RecAt(Pages(fd), id)]
  BY <1>1, RecordsAre DEF AllRecords, RecordsIn, Pages
<1>5. AllRecords' = [AllRecords EXCEPT ![n] = [id \in Ids(pages) |-> RecAt(pages, id)]]
  BY <1>2, RecordsAre, OneChanged DEF RecordsIn
<1> QED BY <1>3, <1>4, <1>5

LEMMA InsertStore ==
  ASSUME RInv, NEW fd \in Fd, NEW v \in Value, HF_InsertRec(fd, v)
  PROVE  Store!Next
<1>1. PICK id \in RecId : \E pages :
        /\ fd \in OpenFds /\ Rewritten(fd, pages) /\ Added(Pages(fd), pages, id, v)
        /\ ReturnsRec(id, v)
  BY InsertEffect
<1>2. PICK pages :
        /\ fd \in OpenFds /\ Rewritten(fd, pages) /\ Added(Pages(fd), pages, id, v)
        /\ ReturnsRec(id, v)
  BY <1>1
<1> DEFINE old == [k \in Ids(Pages(fd)) |-> RecAt(Pages(fd), k)]
           new == [k \in Ids(pages) |-> RecAt(pages, k)]
<1>3. PICK n \in Name :
        /\ n \in OpenNames /\ OpenNames' = OpenNames
        /\ AllRecords[n] = old /\ AllRecords' = [AllRecords EXCEPT ![n] = new]
  BY <1>2, RewrittenStore
<1>4. id \notin DOMAIN old /\ new = [k \in DOMAIN old \cup {id} |-> IF k = id THEN v ELSE old[k]]
  BY <1>2 DEF Added
<1>5. Got' = [id |-> id, rec |-> v]
  BY <1>2, GotRec
<1> HIDE DEF old, new
<1>6. /\ Got' = [id |-> id, rec |-> v]
      /\ n \in OpenNames /\ id \notin DOMAIN AllRecords[n]
      /\ AllRecords' = [AllRecords EXCEPT ![n] =
            [k \in DOMAIN AllRecords[n] \cup {id} |-> IF k = id THEN v ELSE AllRecords[n][k]]]
      /\ OpenNames' = OpenNames
  BY <1>3, <1>4, <1>5
<1>7. Store!Insert(n, id, v)
  BY <1>6 DEF Store!Insert, AllRecords, OpenNames, Got
<1> QED BY <1>7 DEF Store!Next

LEMMA DeleteStore ==
  ASSUME RInv, NEW fd \in Fd, NEW id \in RecId, HF_DeleteRec(fd, id)
  PROVE  Store!Next
<1>2. PICK pages :
        /\ fd \in OpenFds /\ Rewritten(fd, pages) /\ Removed(Pages(fd), pages, id)
  BY DeleteEffect
<1> DEFINE old == [k \in Ids(Pages(fd)) |-> RecAt(Pages(fd), k)]
           new == [k \in Ids(pages) |-> RecAt(pages, k)]
<1>3. PICK n \in Name :
        /\ n \in OpenNames /\ OpenNames' = OpenNames
        /\ AllRecords[n] = old /\ AllRecords' = [AllRecords EXCEPT ![n] = new]
  BY <1>2, RewrittenStore
<1>4. id \in DOMAIN old /\ new = [k \in DOMAIN old \ {id} |-> old[k]]
  BY <1>2 DEF Removed
<1>5. Got' = [id |-> NoId, rec |-> NoRec]
  BY GotNothing DEF HF_DeleteRec
<1> HIDE DEF old, new
<1>6. /\ Got' = [id |-> NoId, rec |-> NoRec]
      /\ n \in OpenNames /\ id \in DOMAIN AllRecords[n]
      /\ AllRecords' = [AllRecords EXCEPT ![n] =
            [k \in DOMAIN AllRecords[n] \ {id} |-> AllRecords[n][k]]]
      /\ OpenNames' = OpenNames
  BY <1>3, <1>4, <1>5
<1>7. Store!Delete(n, id)
  BY <1>6 DEF Store!Delete, Store!Nothing, AllRecords, OpenNames, Got
<1> QED BY <1>7 DEF Store!Next

\* A call that hands out a record that is there.
LEMMA GetStore ==
  ASSUME RInv, NEW fd \in OpenFds, NEW id \in Ids(Pages(fd)),
         ReturnsRec(id, RecordAt(fd, id)), file' = file, OpenNames' = OpenNames
  PROVE  Store!Next
<1>1. PICK n \in Name : n = FileOf(fd) /\ n = hf_table[fd].fname /\ HeapOK(file[n])
  BY OpenFacts
<1>2. AllRecords[n] = [k \in Ids(Pages(fd)) |-> RecAt(Pages(fd), k)] /\ id \in RecId
  BY <1>1, RecordsAre, OpenFacts DEF AllRecords, RecordsIn, Pages
<1>3. /\ Got' = [id |-> id, rec |-> AllRecords[n][id]]
      /\ n \in OpenNames /\ id \in DOMAIN AllRecords[n]
      /\ AllRecords' = AllRecords /\ OpenNames' = OpenNames
  BY <1>1, <1>2, GotRec, SameAll DEF OpenNames, RecordAt, RecAt
<1>4. Store!Get(n, id)
  BY <1>3 DEF Store!Get, AllRecords, OpenNames, Got
<1> QED BY <1>2, <1>4 DEF Store!Next

LEMMA EarliestStore ==
  ASSUME RInv, NEW fd \in OpenFds, NEW ids, ids \subseteq Ids(Pages(fd)),
         ReturnsEarliest(fd, ids), file' = file, OpenNames' = OpenNames
  PROVE  Store!Next
<1>1. CASE ids = {}
  BY <1>1, StoreStill, SameAll DEF ReturnsEarliest
<1>2. CASE ids # {}
  <2>1. ids \in SUBSET RecId
    BY OpenFacts
  <2>2. Earliest(ids) \in ids
    BY <1>2, <2>1, EarliestOf
  <2> QED BY <1>2, <2>2, GetStore DEF ReturnsEarliest
<1> QED BY <1>1, <1>2

LEMMA ReadsStore ==
  ASSUME RInv, NEW fd \in Fd, Reads(fd)
  PROVE  Store!Next
<1>1. file' = file /\ OpenNames' = OpenNames
  BY ReadsStill DEF OpenNames, OpenFds
<1>2. CASE InvalidFd(fd) \/ InsertNoPage(fd) \/ InsertInconsistent(fd)
  BY <1>2, RefusesStore DEF InvalidFd, InsertNoPage, InsertInconsistent
<1>3. CASE HF_GetFirstRec(fd)
  <2>1. fd \in OpenFds
    BY <1>3 DEF HF_GetFirstRec, Usable
  <2>2. Records(fd) \subseteq Ids(Pages(fd))
    BY <2>1, OpenFacts
  <2> QED BY <1>1, <1>3, <2>1, <2>2, EarliestStore DEF HF_GetFirstRec
<1>4. ASSUME NEW id \in RecId, DeleteEmpty(fd, id) PROVE Store!Next
  BY <1>4, RefusesStore DEF DeleteEmpty
<1>5. ASSUME NEW id \in RecId, HF_GetThisRec(fd, id) PROVE Store!Next
  <2>1. fd \in OpenFds
    BY <1>5 DEF HF_GetThisRec, Usable
  <2>2. CASE ~HasPage(fd, id) \/ RecordAt(fd, id) = NoRec
    BY <1>1, <1>5, <2>2, StoreStill, SameAll DEF HF_GetThisRec
  <2>3. CASE HasPage(fd, id) /\ RecordAt(fd, id) # NoRec
    <3> DEFINE n == Len(Pages(fd))
    <3>1. n \in 0..MaxPages /\ PagesOK(n, Pages(fd)) /\ DOMAIN Pages(fd) = 1..n
      BY <2>1, OpenFacts
    <3>2. n \in Nat
      BY <3>1, HFAssumption
    <3> HIDE DEF n
    <3>3. id[1] + 1 \in 1..n /\ id \in Nat \X Slot /\ id = <<id[1], id[2]>>
      BY <2>3, <3>1 DEF HasPage, RecId
    <3>4. id \in (0..(n - 1)) \X Slot
      BY <3>2, <3>3
    <3>5. id \in Ids(Pages(fd))
      BY <2>3, <3>1, <3>2, <3>4, IdsAre DEF RecordAt, RecAt
    <3> QED BY <1>1, <1>5, <2>1, <2>3, <3>5, GetStore DEF HF_GetThisRec
  <2> QED BY <2>2, <2>3
<1>6. ASSUME NEW id \in RecId, HF_GetNextRec(fd, id) PROVE Store!Next
  <2>1. fd \in OpenFds
    BY <1>6 DEF HF_GetNextRec, Usable
  <2>2. RecordsAfter(fd, id) \subseteq Ids(Pages(fd))
    BY <2>1, OpenFacts DEF RecordsAfter
  <2> QED BY <1>1, <1>6, <2>1, <2>2, EarliestStore DEF HF_GetNextRec
<1> QED BY <1>2, <1>3, <1>4, <1>5, <1>6 DEF Reads

LEMMA ScanStore ==
  ASSUME RInv, NEW sd \in Fd,
         HF_FindNextRec(sd) \/ HF_CloseFileScan(sd) \/ FindNotOpen(sd) \/ CloseScanInvalid(sd)
  PROVE  Store!Next
<1>1. CASE HF_FindNextRec(sd)
  <2> DEFINE fd == hf_scan_table[sd].hf_fd
             ids == Matching(fd, hf_scan_table[sd])
  <2>1. /\ Usable(fd) /\ ReturnsEarliest(fd, ids) /\ file' = file /\ hf_table' = hf_table
    BY <1>1 DEF HF_FindNextRec
  <2>2. fd \in OpenFds
    BY <2>1 DEF Usable
  <2>3. ids \subseteq Ids(Pages(fd))
    BY <2>2, OpenFacts DEF Matching, RecordsAfter
  <2>4. OpenNames' = OpenNames
    BY <2>1 DEF OpenNames, OpenFds
  <2> HIDE DEF ids
  <2> QED BY <2>1, <2>2, <2>3, <2>4, EarliestStore
<1>2. CASE HF_CloseFileScan(sd)
  <2>1. \A g \in Fd : hf_table'[g].fname = hf_table[g].fname
    BY <1>2 DEF HF_CloseFileScan, RInv, Shapes, Entry
  <2>2. AllRecords' = AllRecords /\ OpenNames' = OpenNames
    BY <1>2, <2>1, CloseScanR, SameNames, SameAll DEF HF_CloseFileScan
  <2> QED BY <1>2, <2>2, StoreStill DEF HF_CloseFileScan
<1>3. CASE FindNotOpen(sd) \/ CloseScanInvalid(sd)
  BY <1>3, RefusesStore DEF FindNotOpen, CloseScanInvalid
<1> QED BY <1>1, <1>2, <1>3

LEMMA OpenScanStore ==
  ASSUME RInv, NEW fd \in Fd, NEW cond \in Conds, HF_OpenFileScan(fd, cond)
  PROVE  Store!Next
<1>1. \A g \in Fd : hf_table'[g].fname = hf_table[g].fname
  BY DEF HF_OpenFileScan, RInv, Shapes, Entry
<1>2. AllRecords' = AllRecords /\ OpenNames' = OpenNames
  BY <1>1, OpenScanR, SameNames, SameAll DEF HF_OpenFileScan
<1> QED BY <1>2, StoreStill DEF HF_OpenFileScan

LEMMA NextStore ==
  ASSUME RInv, [HNext]_hvars, bound \in Bounds
  PROVE  [Store!Next]_Store!vars
<1>1. ASSUME NEW n \in bound.names, FileCall(n)
      PROVE  Store!Next
  <2>1. n \in Name
    BY BoundsAssumption
  <2>2. CASE CreateRefused(n) \/ DestroyRefused(n) \/ OpenRefused(n)
    BY <2>2, RefusesStore DEF CreateRefused, DestroyRefused, OpenRefused
  <2> QED BY <1>1, <2>1, <2>2, CreateStore, DestroyStore, OpenStore DEF FileCall
<1>2. ASSUME NEW fd \in Fd, HClose(fd)
      PROVE  Store!Next
  <2>1. CASE CloseRefused(fd)
    BY <2>1, RefusesStore DEF CloseRefused
  <2> QED BY <1>2, <2>1, CloseStore DEF HClose
<1>3. ASSUME NEW fd \in Fd, HRecord(fd)
      PROVE  Store!Next
  <2>1. ASSUME NEW id \in RecId, HDelete(fd, id) PROVE Store!Next
    BY <2>1, DeleteStore DEF HDelete
  <2>2. ASSUME NEW v \in Value, HInsert(fd, v) PROVE Store!Next
    BY <2>2, InsertStore DEF HInsert
  <2>3. CASE Reads(fd)
    BY <2>3, ReadsStore
  <2> QED BY <1>3, <2>1, <2>2, <2>3 DEF HRecord, Reads
<1>4. ASSUME NEW fd \in Fd, NEW cond \in Conds, HOpenScan(fd, cond)
      PROVE  Store!Next
  BY <1>4, OpenScanStore DEF HOpenScan
<1>5. ASSUME NEW sd \in Fd,
             HFind(sd) \/ HCloseScan(sd) \/ FindNotOpen(sd) \/ CloseScanInvalid(sd)
      PROVE  Store!Next
  BY <1>5, ScanStore DEF HFind, HCloseScan
<1>6. ASSUME UNCHANGED hvars
      PROVE  UNCHANGED Store!vars
  <2>1. AllRecords' = AllRecords
    BY <1>6, SameAll DEF hvars
  <2>2. OpenNames' = OpenNames /\ Got' = Got
    BY <1>6 DEF hvars, OpenNames, OpenFds, Got
  <2> QED BY <2>1, <2>2 DEF Store!vars, AllRecords, OpenNames, Got
<1> QED BY <1>1, <1>2, <1>3, <1>4, <1>5, <1>6 DEF HNext

(* HF implements the record store: an insertion takes an id that no record  *)
(* has, nothing else adds or changes a record, nothing but its deletion     *)
(* removes it, and what a call hands out is there.                          *)
THEOREM IsRecordStore == HSpec => ImplementsRecordStore
<1> DEFINE Inv == RInv /\ bound \in Bounds
<1>1. HInit => Store!Init
  <2> SUFFICES ASSUME HInit PROVE Store!Init
    OBVIOUS
  <2>1. /\ file = [n \in Name |-> Missing] /\ OpenFds = {}
        /\ res.id = NoId /\ res.rec = NoRec
    BY DEF HInit, Init, NewEntry, OpenFds
  <2>2. \A n \in Name : RecordsOf(n) = Missing
    BY <2>1, RecordsAre
  <2> QED BY <2>1, <2>2 DEF Store!Init, Store!Nothing
<1>2. HSpec => []Inv
  BY HSpecR
<1>3. Inv /\ [HNext]_hvars => [Store!Next]_Store!vars
  BY NextStore
<1>4. HSpec => Store!Spec
  BY <1>1, <1>2, <1>3, PTL DEF HSpec, Store!Spec
<1> QED BY <1>4 DEF ImplementsRecordStore
=============================================================================
