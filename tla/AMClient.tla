------------------------------ MODULE AMClient -----------------------------
(***************************************************************************)
(* AM under the rules of document/monorel_am.pdf: an index is closed when  *)
(* no scan of it is open and destroyed when it is closed, a scan is closed *)
(* once, and entries are deleted but not inserted while a scan of the      *)
(* index runs.  Three rules are not in the document: an index never holds  *)
(* more than MaxCopies entries of one value, deleted ones included; a scan *)
(* with condition op is opened for a value of which the index holds no     *)
(* more than Limit[op]; and a scan that has ended is not asked again.      *)
(***************************************************************************)
EXTENDS AM

CONSTANTS MaxCopies, Limit,
          Bounds   \* bounds: indexes used together; the values an index is
                   \* filled with first, in order; the values and ids of later
                   \* calls; entries and deleted entries of an index; scans
                   \* open at a time and their conditions

ASSUME BoundsAssumption ==
  /\ MaxCopies \in Nat
  /\ Bounds \subseteq [names : SUBSET Name, load : Seq(Value), values : SUBSET Value,
                      ids : SUBSET RecId, entries : 0..MaxEntries, deleted : Nat,
                      scans : Nat, ops : SUBSET Op]

VARIABLES bound,   \* the one of Bounds that a behaviour keeps to
          todo,    \* what is left of the load
          due,     \* of each scan: the matching entries that were there when
                   \* it was opened and have not been deleted since
          seen     \* of each scan: the entries it has returned, and its end

avars == <<index, pf_table, am_index_table, am_scan_table, call, res, bound,
           todo, due, seen>>

AInit ==
  /\ Init /\ bound \in Bounds /\ todo = bound.load
  /\ due = [sd \in Fd |-> {}] /\ seen = [sd \in Fd |-> {}]

Loaded == todo = <<>>
Kept == UNCHANGED <<todo, due, seen>>

ScansOf(fd) == {sd \in OpenScans : am_scan_table[sd].fileDesc = fd}

\* The pairs that a tree holds.
Live(t) ==
  {<<t.page[e[1]].rec[e[2]].value, t.page[e[1]].rec[e[2]].recId>> :
     e \in {e \in Entries(t) : ~t.page[e[1]].rec[e[2]].deleted}}
Copies(t, v) == Cardinality({e \in Entries(t) : t.page[e[1]].rec[e[2]].value = v})
Deleted(t) == Cardinality({e \in Entries(t) : t.page[e[1]].rec[e[2]].deleted})

\* What a condition of h/minirel.h means.
Holds(op, a, v) ==
  CASE op = EQ_OP -> a = v  [] op = LT_OP -> a < v  [] op = GT_OP -> a > v
    [] op = LE_OP -> a <= v [] op = GE_OP -> a >= v [] op = NE_OP -> a # v

AFile(n) ==
  \/ AM_CreateIndex(n) \/ AM_OpenIndex(n)
  \/ Loaded /\ (CreateRefused(n) \/ DestroyRefused(n) \/ OpenRefused(n))
  \/ bound.load = <<>> /\ AM_DestroyIndex(n)

AClose(fd) ==
  /\ Loaded /\ ScansOf(fd) = {}
  /\ AM_CloseIndex(fd) \/ (fd \notin OpenFds /\ CloseRefused(fd))

AInsert(fd) ==
  /\ Usable(fd) /\ ScansOf(fd) = {}
  /\ \E v \in (IF Loaded THEN bound.values ELSE {Head(todo)}), id \in bound.ids :
       /\ Cardinality(Entries(Tree(fd))) < bound.entries
       /\ <<v, id>> \notin Live(Tree(fd)) /\ Copies(Tree(fd), v) < MaxCopies
       /\ AM_InsertEntry(fd, v, id) \/ InsertSplit(fd, v, id)
  /\ todo' = IF Loaded THEN todo ELSE Tail(todo)
  /\ UNCHANGED <<due, seen>>

ADelete(fd, v, id) ==
  /\ Usable(fd) /\ Loaded /\ Deleted(Tree(fd)) < bound.deleted
  /\ AM_DeleteEntry(fd, v, id)

\* A deletion that takes the pair out: no scan has to return it any more.
Forgets(fd, v, id) ==
  due' = [sd \in Fd |-> IF sd \in ScansOf(fd) THEN due[sd] \ {<<v, id>>} ELSE due[sd]]

ADeletes ==
  \E fd \in Fd, v \in bound.values, id \in bound.ids :
    /\ ADelete(fd, v, id)
    /\ IF index' = index THEN UNCHANGED due ELSE Forgets(fd, v, id)
    /\ UNCHANGED <<todo, seen>>

ADeleteNext ==
  /\ DeleteNext
  /\ IF index' = index THEN UNCHANGED due ELSE Forgets(call.fd, call.value, call.id)
  /\ UNCHANGED <<todo, seen>>

AOpenScan(fd, op, v) ==
  /\ Usable(fd) /\ Loaded /\ Cardinality(OpenScans) < bound.scans
  /\ Copies(Tree(fd), v) <= Limit[op]
  /\ AM_OpenIndexScan(fd, op, v)
  /\ due' = [due EXCEPT ![Max(FreeScans)] =
               {e \in Live(Tree(fd)) : Holds(op, e[1], v)}]
  /\ seen' = [seen EXCEPT ![Max(FreeScans)] = {}]
  /\ UNCHANGED todo

\* The pair that an activation for sd returns, NoId at the end.
Found(sd) ==
  IF res'.code = AME_EOF THEN NoId
  ELSE <<EntryAt(ScanTree(sd), am_scan_table'[sd].pos).value, res'.id>>

Sees(sd) ==
  /\ seen' = IF call' = None THEN [seen EXCEPT ![sd] = @ \cup {Found(sd)}] ELSE seen
  /\ UNCHANGED <<todo, due>>

AFind(sd) == NoId \notin seen[sd] /\ AM_FindNextEntry(sd) /\ Sees(sd)
AFindAgain(sd) == FindAgain /\ call.sd = sd /\ Sees(sd)

ACloseScan(sd) ==
  /\ sd \in OpenScans /\ AM_CloseIndexScan(sd)
  /\ due' = [due EXCEPT ![sd] = {}] /\ seen' = [seen EXCEPT ![sd] = {}]
  /\ UNCHANGED todo

AClimb == (ClimbNewRoot \/ ClimbPlace \/ ClimbSplit) /\ Kept

ARunning ==
  /\ AClimb \/ ADeleteNext \/ \E sd \in Fd : AFindAgain(sd)
  /\ UNCHANGED bound

ACall ==
  \/ ADeletes
  \/ \E n \in bound.names : AFile(n) /\ Kept
  \/ \E fd \in Fd : \/ AClose(fd) /\ Kept
                    \/ Loaded /\ InvalidFd(fd) /\ Kept
                    \/ AInsert(fd)
                    \/ \E op \in bound.ops, v \in bound.values : AOpenScan(fd, op, v)
  \/ \E sd \in Fd : AFind(sd) \/ ACloseScan(sd) \/ (Loaded /\ FindInvalid(sd) /\ Kept)

ANext == ARunning \/ (ACall /\ UNCHANGED bound)

ASpec == AInit /\ [][ANext]_avars

(* Callers that do not look whether tables are full or scans are open.      *)
AWild ==
  \/ \E n \in bound.names : CreateTableFull(n) \/ OpenLeaves(n)
  \/ \E fd \in Fd : \/ CloseScanOpen(fd) \/ CloseRefused(fd) \/ AM_CloseIndex(fd)
                    \/ ScanTableFull(fd)

AnySpec == AInit /\ [][ANext \/ (AWild /\ Kept /\ UNCHANGED bound)]_avars

(* The program is one thread: a call, once made, runs on until it returns.  *)
FairSpec == ASpec /\ WF_avars(ARunning)
-----------------------------------------------------------------------------
(* The trees and tables have the shapes the code gives them; no node has    *)
(* more children or entries than its page has slots for.                    *)
PosType == [leaf : {-1} \cup Nat, entry : 0..FANOUT]

LeafOK(node) == node \in LeafNode /\ Len(node.rec) <= FANOUT
InnerOK(node) ==
  node \in InnerNode /\ Len(node.child) \in 1..FANOUT /\ Len(node.keys) = Len(node.child) - 1

TypeOK ==
  /\ \A n \in Name : index[n] \notin {Missing, Headless} =>
       \A o \in DOMAIN index[n].page : LeafOK(index[n].page[o]) \/ InnerOK(index[n].page[o])
  /\ pf_table \in [Fd -> Name \cup {NoName}]
  /\ am_index_table \in [Fd -> [valid : BOOLEAN, scan_active : BOOLEAN,
                                fileName : Name \cup {NoName}, pf_fd : Fd]]
  /\ am_scan_table \in [Fd -> [valid : BOOLEAN, fileDesc : Fd, pf_fd : Fd, op : 0..NE_OP,
                               value : Int, org : PosType, pos : PosType,
                               direction : {LEFT, NOTDEFINED, RIGHT}]]

\* The trees that no insertion is in the middle of.
Trees ==
  {index[n] : n \in {n \in Name : /\ index[n] \notin {Missing, Headless}
                                  /\ call.at = "climb" => am_index_table[call.fd].fileName # n}}

(* A search ends in a leaf that holds an entry of every value the tree      *)
(* holds: no split loses a key, however nodes above it split                *)
(* (am.c:292-364, 447-500).                                                 *)
SearchFinds ==
  \A t \in Trees : \A e \in Entries(t) :
    LET v == t.page[e[1]].rec[e[2]].value
    IN  \E i \in DOMAIN t.page[AM_SearchLeaf(t, v)].rec :
          t.page[AM_SearchLeaf(t, v)].rec[i].value = v

(* The leaves form one list from the first leaf, linked both ways, with the *)
(* values in order along it (am.c:428-500): what every scan walks.          *)
LeavesLinked ==
  \A t \in Trees :
    LET next(o) == t.page[o].next IN
    /\ t.page[t.first].prev = NoNode
    /\ \A o \in Leaves(t) :
         /\ o # t.first => /\ t.page[o].prev \in Leaves(t)
                           /\ next(t.page[o].prev) = o
                           /\ t.page[o].rec # <<>>
         /\ next(o) # NoNode => next(o) \in Leaves(t) /\ t.page[next(o)].prev = o
         /\ \A i, j \in DOMAIN t.page[o].rec :
              i < j => t.page[o].rec[i].value <= t.page[o].rec[j].value
         /\ next(o) # NoNode /\ t.page[o].rec # <<>> =>
              Last(t.page[o].rec).value <= Head(t.page[next(o)].rec).value

(* Every node but the root is the child of one node, the one it names as    *)
(* its parent: the climb of a later split goes to the right place           *)
(* (am.c:277-290, 323-357).                                                 *)
ParentsAgree ==
  \A t \in Trees :
    LET Inner == DOMAIN t.page \ Leaves(t) IN
    \A o \in DOMAIN t.page :
      {p \in Inner : o \in ToSet(t.page[p].child)}
        = IF o = t.root THEN {} ELSE {t.page[o].parent}

(* A scan returns entries that satisfy its condition, none twice and none   *)
(* that is deleted, and ends only when it has returned every such entry     *)
(* that was there all the time, whatever is deleted while it runs           *)
(* (am.c:108-194, 1015-1089).                                               *)
ScansExact ==
  [][ \A sd \in OpenScans : (AFind(sd) \/ AFindAgain(sd)) /\ call' = None =>
        IF Found(sd) = NoId THEN due[sd] \subseteq seen[sd]
        ELSE Found(sd) \in due[sd] \ seen[sd] ]_avars

(* Whatever indexes and scans are opened and closed, an entry of the index  *)
(* table and a scan of it reach the file of that index (am.c:857-930,       *)
(* 969-1013): no call walks another index's pages.                          *)
EntryOwnsFile ==
  /\ \A fd \in OpenFds : Usable(fd)
  /\ \A sd \in OpenScans : Readable(sd)

(* Every call returns: no climb, deletion or search goes on for ever        *)
(* (am.c:63-106, 292-364, 1015-1089).                                       *)
CallsReturn == ~Idle ~> Idle

(* AM implements IndexStore: an insertion adds its pair to its index, a     *)
(* deletion takes out the one it names or says that there is none, a search *)
(* returns a pair that is there (am.c:932-967, 1015-1089).                  *)
Store == INSTANCE IndexStore WITH
  entries <- [n \in {n \in Name : index[n] # Missing} |-> Live(index[n])],
  opened <- {am_index_table[fd].fileName : fd \in OpenFds},
  got <- [code |-> IF res.code \in {AME_OK, AME_RECNOTFOUND} THEN res.code ELSE AME_OK,
          value |-> res.value, id |-> res.id]

ImplementsIndexStore == Store!Spec
=============================================================================
