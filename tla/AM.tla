--------------------------------- MODULE AM --------------------------------
(***************************************************************************)
(* The index layer of am/am.c over the PF layer: index files that hold a   *)
(* B+ tree, a table of open indexes, a table of scans.  A call that loops  *)
(* or recurses, the climb of a split, a deletion, a search for the next    *)
(* entry, is a running call, one action per turn of the loop; no other     *)
(* call starts before it returns.                                          *)
(*                                                                         *)
(* PF is what it promises: index[n] is the content of index file n, its    *)
(* tree, and pf_table[d] the name of the file open behind PF descriptor d. *)
(* Every AM call gives back the pages it pins, so pins are left out.  A    *)
(* name is fileName and indexNo together, compared whole.                  *)
(***************************************************************************)
EXTENDS AMTree

CONSTANTS MAXOPENFILES,      \* entries of the index table and the scan table
          Name, NoName,      \* index files
          Missing, Headless, \* no such file; a file with no header at all
          Value, RecId,      \* attribute values, record ids
          NoValue, NoId,
          BYTE,              \* the values of a byte
          Op,                \* the conditions scans are opened with
          MaxEntries         \* bound: entries of a tree, deleted ones included

\* Entries, nodes and trees as am.h declares them.
Rec == [value : Value, recId : RecId, deleted : BOOLEAN]
LeafNode == [parent : Nat, next : Nat, prev : Nat, rec : Seq(Rec)]
InnerNode == [parent : Nat, next : Nat, prev : Nat, keys : Seq(Value), child : Seq(Nat)]
TreeRec == [height : Nat \ {0}, root : Nat, first : Nat, page : Seq(LeafNode \cup InnerNode)]

\* INT_TYPE attributes, of two bytes here.
ASSUME AMAssumption ==
  /\ MAXOPENFILES \in Nat \ {0} /\ MaxEntries \in Nat
  /\ NoName \notin Name /\ NoValue \notin Value
  /\ NoId \notin RecId /\ NoId \notin Value \X RecId
  /\ Missing \notin TreeRec /\ Headless \notin TreeRec
  /\ BYTE \in Nat \ {0} /\ BYTE * BYTE = 2 * INT_MAX + 2
  /\ Value \subseteq (-INT_MAX - 1)..INT_MAX
  /\ Op \subseteq EQ_OP..NE_OP

VARIABLES index,           \* the index files
          pf_table,        \* PF's open files
          am_index_table,
          am_scan_table,
          call,            \* the running call
          res              \* what the last call returned

tables == <<pf_table, am_index_table, am_scan_table>>

Fd == 0..(MAXOPENFILES - 1)

AME_OK == 0
AME_EOF == -2
AME_FULLTABLE == -3
AME_FD == -5
AME_SCANTABLEFULL == -9
AME_RECNOTFOUND == -12
AME_SCANOPEN == -14
AME_PF_CREATE == -28
AME_PF_OPEN == -29
AME_REOPEN == -30
AME_PF_CLOSE == -33
AME_FILE_DESTROY == -38

None == [at |-> "idle"]
Nowhere == [leaf |-> -1, entry |-> Start]

\* calloc
NewEntry == [valid |-> FALSE, scan_active |-> FALSE, fileName |-> NoName, pf_fd |-> 0]
NewScan == [valid |-> FALSE, fileDesc |-> 0, pf_fd |-> 0, op |-> 0, value |-> 0,
            org |-> Nowhere, pos |-> Nowhere, direction |-> NOTDEFINED]

\* AM_Init, before any index exists.
Init ==
  /\ index = [n \in Name |-> Missing]
  /\ pf_table = [d \in Fd |-> NoName]
  /\ am_index_table = [fd \in Fd |-> NewEntry]
  /\ am_scan_table = [sd \in Fd |-> NewScan]
  /\ call = None
  /\ res = [code |-> AME_OK, value |-> NoValue, id |-> NoId]

Idle == call = None
Returns(code) == res' = [code |-> code, value |-> NoValue, id |-> NoId]
ReturnsId(id) == res' = [code |-> AME_OK, value |-> NoValue, id |-> id]
Refuses(code) == Idle /\ Returns(code) /\ UNCHANGED <<index, tables, call>>

OpenFds == {fd \in Fd : am_index_table[fd].valid}
OpenScans == {sd \in Fd : am_scan_table[sd].valid}
AM_SearchTable(n) == \E fd \in OpenFds : am_index_table[fd].fileName = n

FreePf == {d \in Fd : pf_table[d] = NoName}
PF_SearchTable(n) == \E d \in Fd : pf_table[d] = n
-----------------------------------------------------------------------------
(* AM_CreateIndex.  PF_CreateFile finds a full table only after creat.      *)

CreateRefused(n) == index[n] # Missing /\ Refuses(AME_PF_CREATE)

CreateTableFull(n) ==
  /\ Idle /\ index[n] = Missing /\ FreePf = {}
  /\ index' = [index EXCEPT ![n] = Headless]
  /\ Returns(AME_PF_CREATE) /\ UNCHANGED <<tables, call>>

AM_CreateIndex(n) ==
  /\ Idle /\ index[n] = Missing /\ FreePf # {}
  /\ index' = [index EXCEPT ![n] = EmptyTree]
  /\ Returns(AME_OK) /\ UNCHANGED <<tables, call>>

(* AM_DestroyIndex does not look whether the index is open; a caller who    *)
(* destroys an open one is not modelled.                                    *)

DestroyRefused(n) == index[n] = Missing /\ Refuses(AME_FILE_DESTROY)

AM_DestroyIndex(n) ==
  /\ Idle /\ index[n] # Missing /\ ~PF_SearchTable(n)
  /\ index' = [index EXCEPT ![n] = Missing]
  /\ Returns(AME_OK) /\ UNCHANGED <<tables, call>>

(* AM_OpenIndex opens the PF file before it looks at its own table.         *)

PF_OpenFile(n) ==
  /\ index[n] \notin {Missing, Headless} /\ ~PF_SearchTable(n) /\ FreePf # {}
  /\ pf_table' = [pf_table EXCEPT ![Min(FreePf)] = n]

OpenRefused(n) ==
  /\ index[n] \in {Missing, Headless} \/ PF_SearchTable(n) \/ FreePf = {}
  /\ Refuses(AME_PF_OPEN)

\* The PF file stays open.
OpenLeaves(n) ==
  /\ Idle /\ PF_OpenFile(n)
  /\ \/ AM_SearchTable(n) /\ Returns(AME_REOPEN)
     \/ ~AM_SearchTable(n) /\ OpenFds = Fd /\ Returns(AME_FULLTABLE)
  /\ UNCHANGED <<index, am_index_table, am_scan_table, call>>

\* The search keeps the last free entry.
AM_OpenIndex(n) ==
  /\ Idle /\ PF_OpenFile(n) /\ ~AM_SearchTable(n) /\ OpenFds # Fd
  /\ am_index_table' = [am_index_table EXCEPT ![Max(Fd \ OpenFds)] =
                          [valid |-> TRUE, scan_active |-> FALSE, fileName |-> n,
                           pf_fd |-> Min(FreePf)]]
  /\ Returns(Max(Fd \ OpenFds)) /\ UNCHANGED <<index, am_scan_table, call>>

(* AM_CloseIndex closes the PF file before it looks for a scan.             *)

PF_IsOpen(fd) == pf_table[am_index_table[fd].pf_fd] # NoName

CloseRefused(fd) ==
  \/ fd \notin OpenFds /\ Refuses(AME_FD)
  \/ fd \in OpenFds /\ ~PF_IsOpen(fd) /\ Refuses(AME_PF_CLOSE)

PF_CloseFile(fd) ==
  /\ Idle /\ fd \in OpenFds /\ PF_IsOpen(fd)
  /\ pf_table' = [pf_table EXCEPT ![am_index_table[fd].pf_fd] = NoName]

CloseScanOpen(fd) ==
  /\ PF_CloseFile(fd) /\ am_index_table[fd].scan_active
  /\ Returns(AME_SCANOPEN) /\ UNCHANGED <<index, am_index_table, am_scan_table, call>>

BugCloseStaysValid(fd) ==   \* the entry is not freed
  /\ PF_CloseFile(fd) /\ ~am_index_table[fd].scan_active
  /\ Returns(AME_OK) /\ UNCHANGED <<index, am_index_table, am_scan_table, call>>

AM_CloseIndex(fd) ==
  /\ PF_CloseFile(fd) /\ ~am_index_table[fd].scan_active
  /\ am_index_table' = [am_index_table EXCEPT ![fd].valid = FALSE]
  /\ Returns(AME_OK) /\ UNCHANGED <<index, am_scan_table, call>>
-----------------------------------------------------------------------------
(* Entries.  On a descriptor whose PF file is no longer that of its index   *)
(* AM_Map fails and the tree is read from an uninitialised header; such     *)
(* calls are left out.                                                      *)

Usable(fd) ==
  /\ fd \in OpenFds
  /\ pf_table[am_index_table[fd].pf_fd] = am_index_table[fd].fileName

InvalidFd(fd) == fd \notin OpenFds /\ Refuses(AME_FD)

Tree(fd) == index[am_index_table[fd].fileName]
Writes(fd, tree) == index' = [index EXCEPT ![am_index_table[fd].fileName] = tree]

Leaves(t) == {o \in DOMAIN t.page : "rec" \in DOMAIN t.page[o]}
Entries(t) == {e \in Leaves(t) \X (1..FANOUT) : e[2] <= Len(t.page[e[1]].rec)}

NewRec(v, id) == [value |-> v, recId |-> id, deleted |-> FALSE]

(* AM_InsertEntry returns AME_OK whatever happens below.                    *)

AM_InsertEntry(fd, v, id) ==
  LET t == Tree(fd)
      leaf == AM_SearchLeaf(t, v)
  IN
  /\ Idle /\ Usable(fd) /\ Cardinality(Entries(t)) < MaxEntries
  /\ Len(t.page[leaf].rec) < FANOUT
  /\ Writes(fd, PlaceInLeaf(t, leaf, NewRec(v, id)))
  /\ Returns(AME_OK) /\ UNCHANGED <<tables, call>>

\* The leaf is split; its new sibling is not in the tree yet.
InsertSplit(fd, v, id) ==
  LET t == Tree(fd)
      leaf == AM_SearchLeaf(t, v)
      split == SplitLeaf(t, leaf, NewRec(v, id))
  IN
  /\ Idle /\ Usable(fd) /\ Cardinality(Entries(t)) < MaxEntries
  /\ Len(t.page[leaf].rec) = FANOUT
  /\ Writes(fd, split.tree)
  /\ call' = [at |-> "climb", fd |-> fd, offset |-> AM_SearchIndex(t, v),
              key |-> split.key, old |-> leaf, after |-> Len(t.page) + 1]
  /\ Returns(AME_OK) /\ UNCHANGED tables

\* AM_InsertKeyToIndex(offset, key, old, after), one turn of the recursion.
ClimbNewRoot ==
  /\ call.at = "climb" /\ call.offset = NoNode
  /\ Writes(call.fd, NewRoot(Tree(call.fd), call.key, call.old, call.after))
  /\ call' = None /\ UNCHANGED <<tables, res>>

BugClimbPlace ==   \* a full node is not split
  /\ call.at = "climb" /\ call.offset # NoNode
  /\ LET t == Tree(call.fd) IN
       Writes(call.fd, [t EXCEPT !.page[call.offset] =
                          AM_InsertKeyToIndexNoSplit(@, call.key, call.after)])
  /\ call' = None /\ UNCHANGED <<tables, res>>

ClimbPlace ==
  /\ call.at = "climb" /\ call.offset # NoNode
  /\ LET t == Tree(call.fd) IN
       /\ Len(t.page[call.offset].child) < FANOUT
       /\ Writes(call.fd, [t EXCEPT !.page[call.offset] =
                             AM_InsertKeyToIndexNoSplit(@, call.key, call.after)])
  /\ call' = None /\ UNCHANGED <<tables, res>>

BugClimbSplit ==   \* the key that came up is passed on, not the middle one
  /\ call.at = "climb" /\ call.offset # NoNode
  /\ LET t == Tree(call.fd) IN
       /\ Len(t.page[call.offset].child) = FANOUT
       /\ Writes(call.fd, SplitInternal(t, call.offset, call.key, call.after).tree)
       /\ call' = [call EXCEPT !.offset = t.page[@].parent,
                               !.old = call.offset, !.after = Len(t.page) + 1]
  /\ UNCHANGED <<tables, res>>

ClimbSplit ==
  /\ call.at = "climb" /\ call.offset # NoNode
  /\ LET t == Tree(call.fd)
         split == SplitInternal(t, call.offset, call.key, call.after)
     IN /\ Len(t.page[call.offset].child) = FANOUT
        /\ Writes(call.fd, split.tree)
        /\ call' = [call EXCEPT !.offset = t.page[@].parent, !.key = split.key,
                                !.old = call.offset, !.after = Len(t.page) + 1]
  /\ UNCHANGED <<tables, res>>

(* AM_DeleteEntry: the first match, then to the left, then to the right     *)
(* from where that ended.                                                   *)

BugSought(t, pos, id) == EntryAt(t, pos).recId = id   \* deleted is not looked at

Sought(t, pos, id) == EntryAt(t, pos).recId = id /\ ~EntryAt(t, pos).deleted

Answers(code, v, id) == res' = [code |-> code, value |-> v, id |-> id]

Marks(fd, pos, v, id) ==
  /\ Writes(fd, AM_MarkDeleted(Tree(fd), pos))
  /\ Answers(AME_OK, v, id) /\ call' = None /\ UNCHANGED tables

NotFound(v, id) ==
  /\ Answers(AME_RECNOTFOUND, v, id) /\ call' = None /\ UNCHANGED <<index, tables>>

AM_DeleteEntry(fd, v, id) ==
  LET pos == AM_GetFirstEntry(Tree(fd), EQ_OP, v) IN
  /\ Idle /\ Usable(fd)
  /\ IF pos.entry = Start THEN NotFound(v, id)
     ELSE IF Sought(Tree(fd), pos, id) THEN Marks(fd, pos, v, id)
     ELSE /\ call' = [at |-> "delete", fd |-> fd, value |-> v, id |-> id,
                      pos |-> pos, direction |-> LEFT]
          /\ UNCHANGED <<index, tables, res>>

DeleteNext ==
  /\ call.at = "delete"
  /\ LET t == Tree(call.fd)
         pos == Neighbour(t, call.direction, call.pos)
         match == Matches(t, pos, EQ_OP, call.value)
     IN IF match /\ Sought(t, pos, call.id) THEN Marks(call.fd, pos, call.value, call.id)
        ELSE IF ~match /\ call.direction = RIGHT THEN NotFound(call.value, call.id)
        ELSE /\ call' = [call EXCEPT !.pos = pos,
                                     !.direction = IF match THEN @ ELSE RIGHT]
             /\ UNCHANGED <<index, tables, res>>
-----------------------------------------------------------------------------
(* Scans. *)

FreeScans == Fd \ OpenScans

\* memcpy of strlen(value) bytes over what an earlier scan left.
Copied(old, v) ==
  IF v % BYTE = 0 THEN old
  ELSE IF v \div BYTE = 0 THEN v + BYTE * (old \div BYTE)
  ELSE v

\* alloc_entry is never set: found null, or written through as it is.
ScanTableFull(fd) ==
  /\ Idle /\ fd \in OpenFds /\ FreeScans = {}
  /\ \/ Returns(AME_SCANTABLEFULL) /\ UNCHANGED am_index_table
     \/ /\ am_index_table' = [am_index_table EXCEPT ![fd].scan_active = TRUE]
        /\ Returns(-1)
  /\ UNCHANGED <<index, pf_table, am_scan_table, call>>

AM_OpenIndexScan(fd, op, v) ==
  /\ Idle /\ fd \in OpenFds /\ FreeScans # {}
  /\ am_scan_table' = [am_scan_table EXCEPT ![Max(FreeScans)] =
       [valid |-> TRUE, fileDesc |-> fd, pf_fd |-> am_index_table[fd].pf_fd, op |-> op,
        value |-> Copied(@.value, v), org |-> Nowhere, pos |-> Nowhere,
        direction |-> NOTDEFINED]]
  /\ am_index_table' = [am_index_table EXCEPT ![fd].scan_active = TRUE]
  /\ Returns(Max(FreeScans)) /\ UNCHANGED <<index, pf_table, call>>

FindInvalid(sd) == sd \notin OpenScans /\ Refuses(AME_FD)

(* One activation of AM_FindNextEntry: it returns, or calls itself.         *)

Readable(sd) ==
  /\ Usable(am_scan_table[sd].fileDesc)
  /\ am_scan_table[sd].pf_fd = am_index_table[am_scan_table[sd].fileDesc].pf_fd
ScanTree(sd) == Tree(am_scan_table[sd].fileDesc)

Moves(sd, scan) == am_scan_table' = [am_scan_table EXCEPT ![sd] = scan]
Again(sd) == call' = [at |-> "find", sd |-> sd] /\ UNCHANGED res

\* A deleted entry is passed over.
HandsOut(sd, entry) ==
  IF entry.deleted THEN Again(sd) ELSE ReturnsId(entry.recId) /\ call' = None

FindFirst(sd) ==
  LET scan == am_scan_table[sd]
      t == ScanTree(sd)
      pos == AM_GetFirstEntry(t, scan.op, scan.value)
  IN
  /\ scan.direction = NOTDEFINED
  /\ Moves(sd, [scan EXCEPT !.org = pos, !.pos = pos, !.direction = LEFT])
  /\ IF pos.entry = Start THEN Again(sd) ELSE HandsOut(sd, EntryAt(t, pos))

BugFindLeft(sd) ==   \* the way to the right starts where the way to the left ended
  LET scan == am_scan_table[sd]
      t == ScanTree(sd)
      pos == Neighbour(t, LEFT, scan.pos)
  IN
  /\ scan.direction = LEFT
  /\ IF Matches(t, pos, scan.op, scan.value)
     THEN Moves(sd, [scan EXCEPT !.pos = pos]) /\ HandsOut(sd, EntryAt(t, pos))
     ELSE Moves(sd, [scan EXCEPT !.pos = pos, !.direction = RIGHT]) /\ Again(sd)

FindLeft(sd) ==
  LET scan == am_scan_table[sd]
      t == ScanTree(sd)
      pos == Neighbour(t, LEFT, scan.pos)
  IN
  /\ scan.direction = LEFT
  /\ IF Matches(t, pos, scan.op, scan.value)
     THEN Moves(sd, [scan EXCEPT !.pos = pos]) /\ HandsOut(sd, EntryAt(t, pos))
     ELSE Moves(sd, [scan EXCEPT !.pos = scan.org, !.direction = RIGHT]) /\ Again(sd)

BugFindRight(sd) ==   \* a deleted entry is tried again and not passed
  LET scan == am_scan_table[sd]
      t == ScanTree(sd)
      pos == Neighbour(t, RIGHT, scan.pos)
  IN
  /\ scan.direction = RIGHT
  /\ IF ~Matches(t, pos, scan.op, scan.value)
     THEN Moves(sd, [scan EXCEPT !.pos = pos]) /\ Returns(AME_EOF) /\ call' = None
     ELSE IF EntryAt(t, pos).deleted THEN UNCHANGED am_scan_table /\ Again(sd)
     ELSE Moves(sd, [scan EXCEPT !.pos = pos]) /\ HandsOut(sd, EntryAt(t, pos))

FindRight(sd) ==
  LET scan == am_scan_table[sd]
      t == ScanTree(sd)
      pos == Neighbour(t, RIGHT, scan.pos)
  IN
  /\ scan.direction = RIGHT
  /\ Moves(sd, [scan EXCEPT !.pos = pos])
  /\ IF Matches(t, pos, scan.op, scan.value) THEN HandsOut(sd, EntryAt(t, pos))
     ELSE Returns(AME_EOF) /\ call' = None

Activation(sd) ==
  /\ FindFirst(sd) \/ FindLeft(sd) \/ FindRight(sd)
  /\ UNCHANGED <<index, pf_table, am_index_table>>

AM_FindNextEntry(sd) == Idle /\ sd \in OpenScans /\ Readable(sd) /\ Activation(sd)

FindAgain == call.at = "find" /\ Activation(call.sd)

\* Neither the scan's validity nor another scan of the index is looked at.
AM_CloseIndexScan(sd) ==
  /\ Idle
  /\ am_index_table' = [am_index_table EXCEPT ![am_scan_table[sd].fileDesc].scan_active = FALSE]
  /\ am_scan_table' = [am_scan_table EXCEPT ![sd].valid = FALSE]
  /\ Returns(AME_OK) /\ UNCHANGED <<index, pf_table, call>>
=============================================================================
