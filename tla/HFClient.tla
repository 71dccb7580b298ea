------------------------------ MODULE HFClient -----------------------------
(***************************************************************************)
(* HF under the rules of document/monorel_hf.pdf: record calls name pages  *)
(* of the file, a scan is closed before its file is, and a file has one    *)
(* scan at a time, during which records are inserted and deleted freely.   *)
(***************************************************************************)
EXTENDS HF

CONSTANT Bounds   \* bounds: the files that are used together, the pages and
                  \* the records of each, the scans open at a time

ASSUME BoundsAssumption ==
  /\ Bounds \subseteq [names : SUBSET Name, pages : 0..MaxPages, records : Nat, scans : Nat]
  /\ \A ids \in SUBSET RecId : Missing \notin [ids -> Value]

VARIABLES bound,   \* the one of Bounds that a behaviour keeps to
          due,     \* of each scan: the matching records that were there when
                   \* it was opened and have not been deleted since
          seen     \* of each scan: the ids it has returned

hvars == <<file, pf_table, hf_table, hf_scan_table, res, bound, due, seen>>

HInit ==
  /\ Init /\ bound \in Bounds
  /\ due = [sd \in Fd |-> {}] /\ seen = [sd \in Fd |-> {}]

Kept == UNCHANGED <<due, seen>>

ScansOf(fd) == {sd \in OpenScans : hf_scan_table[sd].hf_fd = fd}

\* What a condition of h/minirel.h means.
Holds(op, a, v) ==
  CASE op = EQ_OP -> a = v  [] op = LT_OP -> a < v  [] op = GT_OP -> a > v
    [] op = LE_OP -> a <= v [] op = GE_OP -> a >= v [] op = NE_OP -> a # v
    [] op = ALL_OP -> TRUE

HClose(fd) ==
  /\ ScansOf(fd) = {}
  /\ HF_CloseFile(fd) \/ (fd \notin OpenFds /\ CloseRefused(fd))
  /\ Kept

HDelete(fd, id) ==
  /\ HF_DeleteRec(fd, id)
  /\ due' = [sd \in Fd |-> IF sd \in ScansOf(fd) THEN due[sd] \ {id} ELSE due[sd]]
  /\ UNCHANGED seen

HInsert(fd, v) ==
  /\ HF_InsertRec(fd, v) /\ Len(file'[FileOf(fd)].pages) <= bound.pages
  /\ Cardinality(Records(fd)) < bound.records

HRecord(fd) ==
  \/ \E id \in RecId : HDelete(fd, id)
  \/ /\ \/ InvalidFd(fd) \/ InsertNoPage(fd) \/ InsertInconsistent(fd)
        \/ \E v \in Value : HInsert(fd, v)
        \/ HF_GetFirstRec(fd)
        \/ \E id \in RecId : \/ DeleteEmpty(fd, id)
                             \/ HF_GetThisRec(fd, id) \/ HF_GetNextRec(fd, id)
     /\ Kept

HOpenScan(fd, cond) ==
  /\ ScansOf(fd) = {} /\ Cardinality(OpenScans) < bound.scans
  /\ HF_OpenFileScan(fd, cond)
  /\ due' = [due EXCEPT ![Least(FreeScans)] =
               {id \in Records(fd) : Holds(cond.op, RecordAt(fd, id), cond.value)}]
  /\ seen' = [seen EXCEPT ![Least(FreeScans)] = {}]

HFind(sd) ==
  /\ HF_FindNextRec(sd)
  /\ seen' = [seen EXCEPT ![sd] = @ \cup ({res'.id} \ {NoId})]
  /\ UNCHANGED due

HCloseScan(sd) ==
  /\ HF_CloseFileScan(sd)
  /\ due' = [due EXCEPT ![sd] = {}] /\ seen' = [seen EXCEPT ![sd] = {}]

HNext ==
  /\ \/ \E n \in bound.names : FileCall(n) /\ Kept
     \/ \E fd \in Fd : \/ HClose(fd) \/ HRecord(fd)
                       \/ \E cond \in Conds : HOpenScan(fd, cond)
     \/ \E sd \in Fd : \/ HFind(sd) \/ HCloseScan(sd)
                       \/ (FindNotOpen(sd) \/ CloseScanInvalid(sd)) /\ Kept
  /\ UNCHANGED bound

HSpec == HInit /\ [][HNext]_hvars
-----------------------------------------------------------------------------
(* A scan returns records that satisfy its condition, none twice, and ends  *)
(* only when it has returned every such record that was there all the time, *)
(* whatever is inserted and deleted while it runs (hf.c:374-404, 437-480,   *)
(* 592-620).                                                                *)
ScansExact ==
  [][ \A sd \in OpenScans : HFind(sd) =>
        LET scan == hf_scan_table[sd] IN
          IF res'.id = NoId THEN due[sd] \subseteq seen[sd]
          ELSE res'.id \notin seen[sd] /\ Holds(scan.op, res'.rec, scan.value) ]_hvars

(* HF implements the record store. *)
RecordsOf(n) ==
  IF ~HasData(n) THEN Missing
  ELSE [id \in Stored(file[n].pages, Len(file[n].pages)) |->
          file[n].pages[id[1] + 1].rec[id[2]]]

Store == INSTANCE RecordStore WITH
  Id <- RecId,
  records <- [n \in Name |-> RecordsOf(n)],
  opened <- {hf_table[fd].fname : fd \in OpenFds},
  got <- [id |-> res.id, rec |-> res.rec]

ImplementsRecordStore == Store!Spec
=============================================================================
