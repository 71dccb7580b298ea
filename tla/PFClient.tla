------------------------------ MODULE PFClient ------------------------------
(***************************************************************************)
(* PF under the rules its callers keep (document/monorel_pf.pdf, section   *)
(* 3): page calls go to open files, every page got is unpinned once, a     *)
(* modified page is marked dirty before or with its last unpin, an open    *)
(* file is not destroyed.  A file is scanned with PF_GetFirstPage and      *)
(* PF_GetNextPage, which are passed the same *pagenum variable each time,  *)
(* while pages are added, modified and fetched by PF_GetThisPage.          *)
(***************************************************************************)
EXTENDS PF

CONSTANTS MaxPins,   \* bound: pins a caller holds on one page
          Bounds,    \* bounds: pages of a file, and the data stored in them
          Missing    \* no such file

ASSUME CallerAssumption ==
  /\ MaxPins \in 1..SHORT_MAX
  /\ Bounds \subseteq [pages : 0..MaxPages, data : SUBSET Data]
  /\ Missing \notin Seq(Data)

VARIABLES bound,  \* the one of Bounds that a behaviour keeps to
          pins,   \* pins held, by descriptor and page
          use,    \* what was done to a page since it was pinned
          boot,   \* changes with each new process
          at,     \* *pagenum of each file: the page its scan got last, -1
                  \* before the first
          again   \* history: files of which PF_GetFirstPage failed since the
                  \* scan last got a page

kvars == <<pool, disk, dir, header, pf_table, closing, rc, bound, pins, use, boot, at,
           again>>

NoPins == [k \in Fd \X DataPage |-> 0]
NoUse == [k \in Fd \X DataPage |-> "idle"]

KInit ==
  /\ Init /\ bound \in Bounds /\ pins = NoPins /\ use = NoUse /\ boot = 0
  /\ at = [fd \in Fd |-> -1] /\ again = {}

Pins(fd, n) == pins' = [pins EXCEPT ![<<fd, n>>] = @ + 1]
MayPin(fd, n) == n \in DataPage => pins[<<fd, n>>] < MaxPins
Kept == UNCHANGED <<pins, use, boot>>

KFile(name) ==
  /\ FileCall(name)
  /\ (\E fd \in Fd : pf_table[fd].valid /\ pf_table[fd].fname = name)
       => ~PF_DestroyFile(name)
  /\ Kept

KClose == CloseCall /\ Kept

KAlloc(fd) ==
  /\ IsOpen(fd) /\ pf_table[fd].numpages < bound.pages
  /\ \/ AllocRefused(fd) /\ Kept
     \/ /\ PF_AllocPage(fd)
        /\ Pins(fd, pf_table[fd].numpages)
        /\ use' = [use EXCEPT ![<<fd, pf_table[fd].numpages>>] = "touched"]
        /\ UNCHANGED boot

\* A call that gets page n counts as a pin when it returns PFE_OK.
KGot(fd, n) ==
  /\ MayPin(fd, n)
  /\ IF rc' = PFE_OK THEN Pins(fd, n) /\ UNCHANGED <<use, boot>> ELSE Kept

\* A call that fails writes nothing to *pagenum.
Moves(fd, n) == at' = [at EXCEPT ![fd] = IF rc' = PFE_OK THEN n ELSE @]

\* PF_GetNextPage with *pagenum = -1 is PF_GetFirstPage.
ScanFirst(fd) ==
  /\ PF_GetFirstPage(fd) /\ KGot(fd, 0) /\ Moves(fd, 0)
  /\ again' = IF rc' = PFE_OK THEN again \ {fd} ELSE again \cup {fd}

ScanNext(fd) ==
  /\ at[fd] # -1
  /\ PF_GetNextPage(fd) /\ KGot(fd, pf_table[fd].offset) /\ Moves(fd, pf_table[fd].offset)
  /\ again' = IF rc' = PFE_OK THEN again \ {fd} ELSE again

ScanEnd(fd) ==
  /\ IF at[fd] = -1 THEN GetFirstNone(fd) ELSE GetNextNone(fd)
  /\ Kept /\ UNCHANGED <<at, again>>

ReadPage(fd, n) ==
  /\ \/ GetThisInvalid(fd, n) /\ Kept
     \/ PF_GetThisPage(fd, n) /\ KGot(fd, n)
  /\ UNCHANGED <<at, again>>

KStore(fd, n, v) ==
  /\ pins[<<fd, n>>] > 0
  /\ StorePage(fd, n, v)
  /\ use' = [use EXCEPT ![<<fd, n>>] = IF @ = "touched" THEN @ ELSE "stored"]
  /\ UNCHANGED <<pins, boot>>

KDirty(fd, n) ==
  /\ pins[<<fd, n>>] > 0
  /\ PF_DirtyPage(fd, n)
  /\ use' = [use EXCEPT ![<<fd, n>>] = "touched"] /\ UNCHANGED <<pins, boot>>

KUnpin(fd, n, dirty) ==
  /\ pins[<<fd, n>>] > 0
  /\ pins[<<fd, n>>] = 1 /\ use[<<fd, n>>] = "stored" => dirty
  /\ PF_UnpinPage(fd, n, dirty)
  /\ pins' = [pins EXCEPT ![<<fd, n>>] = @ - 1]
  /\ use' = [use EXCEPT ![<<fd, n>>] = IF pins[<<fd, n>>] = 1 THEN "idle"
                                   ELSE IF dirty THEN "touched" ELSE @]
  /\ UNCHANGED boot

KCrash == Crash /\ pins' = NoPins /\ use' = NoUse /\ boot' = 1 - boot

\* Closing the file or dying ends the scan.
Restarts ==
  /\ at' = [fd \in Fd |-> IF IsOpen(fd) /\ pf_table'[fd].valid THEN at[fd] ELSE -1]
  /\ again' = {fd \in again : IsOpen(fd) /\ pf_table'[fd].valid}

KNext ==
  /\ \/ \E fd \in Fd : \/ ScanFirst(fd) \/ ScanNext(fd) \/ ScanEnd(fd)
                       \/ \E n \in DataPage : ReadPage(fd, n)
     \/ /\ \/ KClose \/ KCrash
           \/ \E name \in Name : KFile(name)
           \/ \E fd \in Fd : KAlloc(fd)
           \/ \E fd \in Fd, n \in DataPage :
                \/ KDirty(fd, n)
                \/ \E dirty \in BOOLEAN : KUnpin(fd, n, dirty)
                \/ \E v \in bound.data : KStore(fd, n, v)
        /\ Restarts
  /\ UNCHANGED bound

KSpec == KInit /\ [][KNext]_kvars
-----------------------------------------------------------------------------
\* What page n of an open file reads as.
View(fd, n) ==
  IF InPool(fd, n) THEN pool.page[FrameOf(pool, fd, n + 1)].fpage
  ELSE PRead(disk, pf_table[fd].unixfd, n + 1)

(* Every page below the page count of a file can be read, in an open file   *)
(* and in one that a later open will find, also after the process died at   *)
(* any point of PF_CloseFile: the header goes out after the pages           *)
(* (pf.c:189-200).                                                          *)
PagesReadable ==
  /\ \A fd \in OpenFds : \A n \in 0..(pf_table[fd].numpages - 1) :
       View(fd, n) # Absent
  /\ \A name \in Name : dir[name] # NoInode =>
       \A n \in 1..header[dir[name]] : disk.data[<<dir[name], n>>] # Absent

(* A pinned page is in the buffer with as many pins as the caller holds,    *)
(* and nothing else is pinned: a file can be closed exactly when all its    *)
(* pages have been given back (pf.c:189, pf/pftest.c:405-412).              *)
PinsAgree ==
  \A fd \in Fd, n \in DataPage :
    IF InPool(fd, n) THEN pool.page[FrameOf(pool, fd, n + 1)].count = pins[<<fd, n>>]
    ELSE pins[<<fd, n>>] = 0

(* The buffer holds pages of open files only: a closed file's pages were    *)
(* released, and a table entry given to another file inherits none of them  *)
(* (bf.c:424-439, pf.c:189-204).                                            *)
NoStalePages ==
  \A i \in DOMAIN pool.lru :
    LET page == pool.page[pool.lru[i]] IN
      page.fd \in OpenFds /\ page.page_num <= pf_table[page.fd].numpages

(* PF_GetNextPage "gets the page right after the one referred to by         *)
(* pageNum" (document/monorel_pf.pdf, section 3.2), also when pages are     *)
(* added and single pages are read between two calls, and after calls of it *)
(* that failed.  There is one exception, in which the code departs from     *)
(* that sentence: a PF_GetFirstPage that fails has set the cursor back and  *)
(* left *pagenum as it was, and the next page is page 0 again               *)
(* (pf.c:309-315, 330-343).                                                 *)
NextIsRightAfter ==
  [][ \A fd \in Fd : ScanNext(fd) /\ rc' = PFE_OK =>
        at'[fd] = IF fd \in again THEN 0 ELSE at[fd] + 1 ]_kvars

(* The scan ends only after the last page, also if a PF_GetFirstPage that   *)
(* failed has sent it back to the first (pf.c:309, 334).                    *)
EndsAtLastPage ==
  [][ \A fd \in Fd : ScanEnd(fd) /\ IsOpen(fd) /\ rc' = PFE_EOF =>
        at[fd] = pf_table[fd].numpages - 1 ]_kvars

(* PF implements the file store. *)
Pages(name) ==
  LET fds == {fd \in OpenFds : FileOf(fd) = dir[name]} IN
  IF dir[name] = NoInode THEN Missing
  ELSE IF header[dir[name]] = -1 THEN Missing
  ELSE IF fds = {} THEN [i \in 1..header[dir[name]] |-> disk.data[<<dir[name], i>>]]
  ELSE LET fd == CHOOSE fd \in fds : TRUE
       IN [i \in 1..pf_table[fd].numpages |-> View(fd, i - 1)]

Files == INSTANCE FileStore WITH
  files <- [n \in Name |-> Pages(n)],
  opened <- {pf_table[fd].fname : fd \in OpenFds}

ImplementsFileStore == Files!Spec
=============================================================================
