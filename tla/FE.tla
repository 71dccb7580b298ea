--------------------------------- MODULE FE --------------------------------
(***************************************************************************)
(* The front end (fe/fe.c).  A call is an action, and a way out of it that *)
(* reports an error is an action of its own when it is reached for its own *)
(* reasons; the work on the files is in FETables.                          *)
(*                                                                         *)
(* Left out are calls whose outcome the code leaves to chance: a relation  *)
(* that has no record in relcat (rel_desc is read uninitialised), an index *)
(* that cannot be opened, more indexed attributes than indexcnt (a heap    *)
(* overrun), and BuildIndex and Join of a relation that is open already (a *)
(* negative number is used as an index of hf_table).                       *)
(***************************************************************************)
EXTENDS FETables

CONSTANTS Table,                   \* names of relations other than the catalogs
          SEARCH_TMP_FILE_MARK, JOIN_TMP_FILE_MARK,
          NoTable, NoValue,        \* NULL for a result's name, for a value
          Same(_, _)               \* strncmp of two values in Join finds no difference

\* No user's relation has the name of a temporary one.
ASSUME NamesAssumption ==
  /\ {SEARCH_TMP_FILE_MARK, JOIN_TMP_FILE_MARK} \cap (Table \cup {NoTable}) = {}
  /\ SEARCH_TMP_FILE_MARK # JOIN_TMP_FILE_MARK /\ NoTable \notin Table

FEE_OK == 0
FEE_EXISTDATABASE == -73
FEE_FAILCD == -74
FEE_NONEXISTTABLE == -77
FEE_LOADFILEOPEN == -78
FEE_NONEXISTATTR == -79
FEE_INSERT_ATTR_NAME == -80
FEE_DELETE_ATTR_NAME == -81
FEE_SELECT_ATTR_NAME == -82
FEE_JOIN_ATTR_NAME == -83
FEE_WRONG_ATTR_TYPE == -85
FEE_HF == -101

VARIABLES db,     \* "none"; "closed" or "connected" (relcatFd and attrcatFd)
          d,      \* the files of the database
          did     \* the last call, what it returned and printed; turn tells
                  \* two calls from one

vars == <<db, d, did>>

Init ==
  /\ db = "none" /\ d = Empty
  /\ did = [call |-> [op |-> "FE_Init"], ret |-> FEE_OK, printed |-> <<>>, turn |-> 0]

Did(call, ret, printed) ==
  did' = [call |-> call, ret |-> ret, printed |-> printed, turn |-> 1 - did.turn]

Refuse(call, ret) == Did(call, ret, <<>>) /\ UNCHANGED <<db, d>>
LeaveOpen(call, ret, rels) ==
  /\ d' = [d EXCEPT !.opened = @ \cup rels]
  /\ Did(call, ret, <<>>) /\ UNCHANGED db
Become(call, e, printed) ==
  /\ d' = e
  /\ Did(call, FEE_OK, printed) /\ UNCHANGED db

Connected == db = "connected"
Exists(r) == r \in DOMAIN d.recs
List(r) == AttrList(d, r)
Has(r, a) == Named(List(r), a) # {}
IsOpen(r) == r \in d.opened

\* What the code takes for granted of a relation that it is given.
Described(r) ==
  /\ Connected /\ r \in DOMAIN d.relcat /\ Len(List(r)) = d.relcat[r].attrcnt
Sound(r) ==
  /\ Described(r) /\ Exists(r)
  /\ Indexes(d, r) \subseteq DOMAIN d.index
  /\ Cardinality(Indexes(d, r)) <= d.relcat[r].indexcnt
-----------------------------------------------------------------------------
(* Database utilities.                                                      *)
DBcreate ==
  /\ db = "none" /\ db' = "closed" /\ d' = Empty
  /\ Did([op |-> "DBcreate"], FEE_OK, <<>>)

DBconnect ==
  /\ db = "closed" /\ db' = "connected"
  /\ Did([op |-> "DBconnect"], FEE_OK, <<>>) /\ UNCHANGED d

DBclose ==
  /\ Connected /\ db' = "closed"
  /\ Did([op |-> "DBclose"], FEE_OK, <<>>) /\ UNCHANGED d

DBdestroy ==
  /\ db = "closed" /\ d.opened = {} /\ db' = "none" /\ d' = Empty
  /\ Did([op |-> "DBdestroy"], FEE_OK, <<>>)

\* A database that is there already, that is not there, that is in use (which
\* DBdestroy only prints).
DBrefused ==
  \/ db = "closed" /\ Refuse([op |-> "DBcreate"], FEE_EXISTDATABASE)
  \/ db = "none" /\ Refuse([op |-> "DBconnect"], FEE_FAILCD)
  \/ Connected /\ Refuse([op |-> "DBdestroy"], -1)

\* A new process, which has no file open.
FE_Init ==
  /\ ~Connected /\ d' = [d EXCEPT !.opened = {}]
  /\ Did([op |-> "FE_Init"], FEE_OK, <<>>) /\ UNCHANGED db
-----------------------------------------------------------------------------
(* Data definition.                                                         *)
CreateTable(r, names) ==
  LET call == [op |-> "CreateTable", rel |-> r, names |-> names] IN
  /\ Connected
  /\ IF Exists(r) THEN Refuse(call, FEE_HF)
     ELSE Cardinality(DOMAIN d.attrcat) + Len(names) <= Cardinality(Slot)
          /\ Become(call, Created(d, r, names), <<>>)

DestroyTable(r) ==
  /\ Described(r)
  /\ d' = Destroyed(d, r) /\ UNCHANGED db
  /\ Did([op |-> "DestroyTable", rel |-> r], IF IsOpen(r) THEN FEE_HF ELSE FEE_OK, <<>>)

\* Every record of the relation gets an entry, also if the index was there.
BuildIndex(r, a) ==
  LET i == Max(Named(List(r), a))
      k == <<r, List(r)[i].attrno>>
      old == IF k \in DOMAIN d.index THEN d.index[k] ELSE NewIndex
  IN
  /\ Described(r) /\ Exists(r) /\ ~IsOpen(r) /\ Has(r, a)
  /\ Become([op |-> "BuildIndex", rel |-> r, attr |-> a],
            [Reflagged(d, r, i, TRUE, 1) EXCEPT !.index = With(@, k, Grown(old, k, d.recs[r]))], <<>>)

DropIndex(r, a) ==
  LET i == Max(Named(List(r), a)) IN
  /\ Described(r) /\ Has(r, a)
  /\ Become([op |-> "DropIndex", rel |-> r, attr |-> a],
            [Reflagged(d, r, i, FALSE, -1) EXCEPT
               !.index = Without(@, {<<r, List(r)[i].attrno>>})], <<>>)

IndexRefused(r, a) ==
  /\ Described(r) /\ ~Has(r, a)
  /\ \E op \in {"BuildIndex", "DropIndex"} :
       /\ op = "BuildIndex" => Exists(r) /\ ~IsOpen(r)
       /\ Refuse([op |-> op, rel |-> r, attr |-> a], FEE_NONEXISTATTR)
-----------------------------------------------------------------------------
(* Loading and inserting.                                                   *)
HasRoom(r, n) == Cardinality(DOMAIN d.recs[r]) + n <= Cardinality(RecId)
LoadCall(r, rows) == [op |-> "LoadTable", rel |-> r, rows |-> rows]

LoadTable(r, rows) ==
  /\ Sound(r) /\ ~IsOpen(r) /\ HasRoom(r, Len(rows))
  /\ \A i \in DOMAIN rows : Len(rows[i]) = Len(List(r))
  /\ Become(LoadCall(r, rows), Stored(d, r, rows), <<>>)

\* There is no such relation (no data file comes to the same), or it is open
\* already.
LoadRefused(r) ==
  \/ Connected /\ ~Exists(r) /\ Refuse(LoadCall(r, <<>>), FEE_NONEXISTTABLE)
  \/ Sound(r) /\ IsOpen(r) /\ Refuse(LoadCall(r, <<>>), FEE_HF)

\* The data file can be read but not written.
LoadUnwritable(r) ==
  /\ Sound(r) /\ ~IsOpen(r)
  /\ LeaveOpen([op |-> "LoadTable", rel |-> r], FEE_LOADFILEOPEN, {r})

\* values is a sequence of pairs of a name and a value.
InsertCall(r, values) == [op |-> "Insert", rel |-> r, values |-> values]
Complete(r, values) ==
  Len(values) = d.relcat[r].attrcnt /\ \A i \in DOMAIN values : values[i][2] # NoValue
KnownNames(r, values) == \A i \in DOMAIN values : Has(r, values[i][1])

\* buff: zeros, then the values where their attributes are.
Buff(r, values) ==
  FoldLeft(LAMBDA row, v : [row EXCEPT ![Min(Named(List(r), v[1]))] = v[2]],
           [i \in DOMAIN List(r) |-> 0], values)

Insert(r, values) ==
  /\ Sound(r) /\ ~IsOpen(r) /\ Complete(r, values) /\ KnownNames(r, values)
  /\ HasRoom(r, 1)
  /\ Become(InsertCall(r, values), Stored(d, r, <<Buff(r, values)>>), <<>>)

\* HF_InsertRec fails, as it does when the file is opened with its page full:
\* the id it returns is no record's.
InsertLost(r, values) ==
  /\ Sound(r) /\ ~IsOpen(r) /\ Complete(r, values) /\ KnownNames(r, values)
  /\ ~HasRoom(r, 1)
  /\ Become(InsertCall(r, values),
            Entered(d, r, [id \in {Cardinality(RecId) + 1} |-> Buff(r, values)]), <<>>)

InsertRefused(r, values) ==
  LET call == InsertCall(r, values) IN
  \/ Connected /\ ~Exists(r) /\ Refuse(call, FEE_NONEXISTTABLE)
  \/ Sound(r) /\ ~Complete(r, values) /\ Refuse(call, FEE_WRONG_ATTR_TYPE)
  \/ Sound(r) /\ Complete(r, values) /\ IsOpen(r) /\ Refuse(call, FEE_HF)

InsertUnknown(r, values) ==
  /\ Sound(r) /\ Complete(r, values) /\ ~IsOpen(r) /\ ~KnownNames(r, values)
  /\ LeaveOpen(InsertCall(r, values), FEE_INSERT_ATTR_NAME, {r})
-----------------------------------------------------------------------------
(* Deleting and printing.                                                   *)
DeleteCall(r, sel) == [op |-> "Delete", rel |-> r, sel |-> sel]
Meets(r, sel) == sel = AllRows \/ Has(r, sel.attr)

\* What AM_DeleteEntry returns is not looked at.
Delete(r, sel) ==
  /\ Sound(r) /\ ~IsOpen(r) /\ Meets(r, sel)
  /\ \E missed \in Missable(d, r, Matching(d, r, sel)) :
       Become(DeleteCall(r, sel), Erased(d, r, Matching(d, r, sel), missed), <<>>)

DeleteRefused(r, sel) ==
  \/ Connected /\ ~Exists(r) /\ Refuse(DeleteCall(r, sel), FEE_NONEXISTTABLE)
  \/ Connected /\ Exists(r) /\ IsOpen(r) /\ Refuse(DeleteCall(r, sel), FEE_HF)

BugDeleteUnknown(r, sel) ==
  /\ Sound(r) /\ ~IsOpen(r) /\ ~Meets(r, sel)
  /\ d' = Erased(d, r, DOMAIN d.recs[r], [k \in Indexes(d, r) |-> {}]) /\ UNCHANGED db
  /\ Did(DeleteCall(r, sel), FEE_DELETE_ATTR_NAME, <<>>)
DeleteUnknown(r, sel) ==
  /\ Sound(r) /\ ~IsOpen(r) /\ ~Meets(r, sel)
  /\ LeaveOpen(DeleteCall(r, sel), FEE_DELETE_ATTR_NAME, {r})

BugPrintTable(r) ==
  LET call == [op |-> "PrintTable", rel |-> r] IN
  /\ Described(r) /\ Exists(r)
  /\ IF IsOpen(r) THEN Refuse(call, FEE_HF)
     ELSE Become(call, [d EXCEPT !.opened = @ \cup {r}], AllOf(d, r))
PrintTable(r) ==
  LET call == [op |-> "PrintTable", rel |-> r] IN
  /\ Described(r) /\ Exists(r)
  /\ IF IsOpen(r) THEN Refuse(call, FEE_HF) ELSE Become(call, d, AllOf(d, r))
-----------------------------------------------------------------------------
(* Queries.                                                                 *)
ResName(res) == IF res = NoTable THEN SEARCH_TMP_FILE_MARK ELSE res

\* A result relation that is there has to be as wide as the rows, or the code
\* reads past the end of out_buff.
Fits(e, r, names, n) ==
  /\ r \in DOMAIN e.recs =>
       /\ r \in DOMAIN e.relcat /\ e.relcat[r].attrcnt = Len(names)
       /\ Cardinality(DOMAIN e.recs[r]) + n <= Cardinality(RecId)
  /\ n <= Cardinality(RecId)
  /\ r \notin DOMAIN e.recs =>
       Cardinality(DOMAIN e.attrcat) + Len(names) <= Cardinality(Slot)

\* Select on the files e, by where it returns: what it leaves, returns, prints.
Outcome(e, ret, printed) == [d |-> e, ret |-> ret, printed |-> printed]
Opening(e, rels) == [e EXCEPT !.opened = @ \cup rels]

Selected(e, src, sel, names, res) ==
  LET list == AttrList(e, src)
      to == ResName(res)
      p == Prepared(e, to, names)
      full == Filled(p, to, Rows(e, src, sel, names))
  IN IF \E i \in DOMAIN names : Named(list, names[i]) = {}
       THEN Outcome(e, FEE_SELECT_ATTR_NAME, <<>>)
     ELSE IF to \in e.opened THEN Outcome(e, FEE_HF, <<>>)
     ELSE IF src \in e.opened \cup {to} THEN Outcome(Opening(p, {to}), FEE_HF, <<>>)
     ELSE IF sel # AllRows /\ Named(list, sel.attr) = {}
       THEN Outcome(Opening(p, {to, src}), FEE_SELECT_ATTR_NAME, <<>>)
     ELSE IF res = NoTable THEN Outcome(Destroyed(full, to), FEE_OK, AllOf(full, to))
     ELSE Outcome(full, FEE_OK, <<>>)

Select(src, sel, names, res) ==
  /\ Described(src) /\ Exists(src)
  /\ Exists(ResName(res)) => Sound(ResName(res))
  /\ Fits(d, ResName(res), names, Cardinality(DOMAIN d.recs[src]))
  /\ LET s == Selected(d, src, sel, names, res) IN
       /\ d' = s.d /\ UNCHANGED db
       /\ Did([op |-> "Select", src |-> src, sel |-> sel, names |-> names, res |-> res],
              s.ret, s.printed)

JoinCall(j1, op, j2, proj, res) ==
  [op |-> "Join", j1 |-> j1, cmp |-> op, j2 |-> j2, proj |-> proj, res |-> res]
Joinable(j1, j2) ==
  /\ \A j \in {j1, j2} : Described(j.rel) /\ Exists(j.rel) /\ ~IsOpen(j.rel)
  /\ j1.rel # j2.rel

BugJoinRows(j1, j2) ==
  LET at(j) == Max(Named(List(j.rel), j.attr))
      outer == AllOf(d, j1.rel)
      inner == AllOf(d, j2.rel)
      with == Scanned({k \in DOMAIN inner : Same(outer[1][at(j1)], inner[k][at(j2)])})
  IN  IF outer = <<>> THEN <<>> ELSE [i \in DOMAIN with |-> outer[1] \o inner[with[i]]]

\* j1 and j2 name a relation and an attribute, as each of proj does.  Every
\* pair of rows whose join attributes are the same goes into a relation of its
\* own, from which Select, by the attributes' names, makes the result.  The
\* k-th turn of the inner loop in the i-th of the outer has the number
\* (i - 1) * Len(inner) + k - 1.
JoinRows(j1, j2) ==
  LET at(j) == Max(Named(List(j.rel), j.attr))
      inner == AllOf(d, j2.rel)
      row1(n) == AllOf(d, j1.rel)[(n \div Len(inner)) + 1]
      row2(n) == inner[(n % Len(inner)) + 1]
      found == Scanned({n \in 0..(Len(AllOf(d, j1.rel)) * Len(inner) - 1) :
                          Same(row1(n)[at(j1)], row2(n)[at(j2)])})
  IN  [i \in DOMAIN found |-> row1(found[i]) \o row2(found[i])]

Join(j1, op, j2, proj, res) ==
  LET tmp == JOIN_TMP_FILE_MARK
      both == Names(List(j1.rel)) \o Names(List(j2.rel))
      names == [i \in DOMAIN proj |-> proj[i].attr]
      e == Filled(Prepared(d, tmp, both), tmp, JoinRows(j1, j2))
      s == Selected(e, tmp, AllRows, names, res)
  IN
  /\ Joinable(j1, j2) /\ Has(j1.rel, j1.attr) /\ Has(j2.rel, j2.attr)
  /\ Fits(d, tmp, both, Len(JoinRows(j1, j2)))
  /\ Exists(ResName(res)) => Sound(ResName(res))
  /\ Fits(e, ResName(res), names, Len(JoinRows(j1, j2)))
  /\ Become(JoinCall(j1, op, j2, proj, res), Destroyed(s.d, tmp), s.printed)

JoinUnknown(j1, op, j2, proj, res) ==
  /\ Joinable(j1, j2) /\ ~(Has(j1.rel, j1.attr) /\ Has(j2.rel, j2.attr))
  /\ LeaveOpen(JoinCall(j1, op, j2, proj, res), FEE_JOIN_ATTR_NAME, {j1.rel, j2.rel})
=============================================================================
