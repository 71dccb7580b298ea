------------------------------ MODULE FETables -----------------------------
(***************************************************************************)
(* The files of a database (fe/fe.c) and the relation files left open, as  *)
(* a value                                                                 *)
(*   d = [relcat, attrcat, recs, index, opened]                            *)
(* and what the functions of fe.c do to it.  The layers below are what     *)
(* RecordStore and IndexStore promise, the latter as far as it goes: a     *)
(* file is a function from record ids to records; an index has its         *)
(* entries, a bag of pairs of a value and an id, and the number of entries *)
(* it ever got of each value, for beyond MaxCopies AM loses entries that   *)
(* are there (AMClient).  Files are of one page, where HF_InsertRec takes  *)
(* the first free slot.                                                    *)
(*                                                                         *)
(* A record is the sequence of its attributes' values.  The catalogs' own  *)
(* records, which nothing changes after DBcreate, are left out, and so are *)
(* lengths, types and offsets: the order by offset is that by attrno.      *)
(***************************************************************************)
EXTENDS Integers, SequencesExt, FiniteSetsExt, Functions, Bags

CONSTANTS Slot,    \* the slots of the page of attrcat, from 1
          RecId,   \* the slots of the page of a relation, from 1
          MaxCopies   \* entries of one value among which AM finds each, deleted
                      \* ones included

ASSUME FilesAssumption ==
  /\ \A S \in {Slot, RecId} : S \subseteq Nat /\ IsFiniteSet(S)
  /\ MaxCopies \in Nat

Empty == [relcat |-> <<>>, attrcat |-> <<>>, recs |-> <<>>, index |-> <<>>, opened |-> {}]

\* The elements of S, those with the smaller rank first.
InOrder(S, rank) ==
  [i \in 1..Cardinality(S) |->
     CHOOSE x \in S : Cardinality({y \in S : rank[y] < rank[x]}) = i - 1]

\* The slots in S, as a scan of the file meets them.
Scanned(S) == InOrder(S, [s \in S |-> s])

With(f, key, value) == [x \in DOMAIN f \cup {key} |-> IF x = key THEN value ELSE f[x]]
Without(f, keys) == Restrict(f, DOMAIN f \ keys)

\* One insertion after the other, each into the first slot that is free.
HF_InsertRecs(f, ids, recs) ==
  LET free == Scanned(ids \ DOMAIN f)
      new == {free[i] : i \in DOMAIN recs}
  IN  [id \in DOMAIN f \cup new |->
         IF id \in new THEN recs[CHOOSE i \in DOMAIN recs : free[i] = id] ELSE f[id]]
HF_InsertRec(f, ids, rec) == HF_InsertRecs(f, ids, <<rec>>)

\* Search_AttrCatalog: the ids in the order of the file, the list by offset.
AttrSlots(d, r) == {s \in DOMAIN d.attrcat : d.attrcat[s].relname = r}
RecIds(d, r) == Scanned(AttrSlots(d, r))
AttrList(d, r) ==
  LET byno == InOrder(AttrSlots(d, r), [s \in AttrSlots(d, r) |-> d.attrcat[s].attrno])
  IN  [i \in DOMAIN byno |-> d.attrcat[byno[i]]]

Names(list) == [i \in DOMAIN list |-> list[i].attrname]
Named(list, name) == {i \in DOMAIN list : list[i].attrname = name}

\* The index files of the attributes that the catalog says are indexed.
Indexes(d, r) ==
  {<<r, a.attrno>> : a \in {a \in ToSet(AttrList(d, r)) : a.indexed}}
Pair(key, row, id) == <<row[key[2] + 1], id>>
Pairs(key, rows, ids) == {Pair(key, rows[id], id) : id \in ids}

\* The values that rows, a function from ids, have in the attribute of key.
ValuesOf(key, rows) ==
  LET value(id) == rows[id][key[2] + 1]
  IN  [v \in {value(id) : id \in DOMAIN rows} |->
         Cardinality({id \in DOMAIN rows : value(id) = v})]

NewIndex == [entries |-> EmptyBag, entered |-> EmptyBag]
Few(x) == \A v \in DOMAIN x.entered : x.entered[v] <= MaxCopies

\* AM_InsertEntry on the index x for each of rows.
Grown(x, key, rows) ==
  [entries |-> x.entries (+) SetToBag(Pairs(key, rows, DOMAIN rows)),
   entered |-> x.entered (+) ValuesOf(key, rows)]

\* AM_DeleteEntry finds each of pairs.
Shrunk(x, pairs) == [x EXCEPT !.entries = @ (-) SetToBag(pairs)]
-----------------------------------------------------------------------------
\* CreateTable for a name that no file has.
Created(d, r, names) ==
  [d EXCEPT !.recs = With(@, r, <<>>),
            !.relcat = With(@, r, [attrcnt |-> Len(names), indexcnt |-> 0]),
            !.attrcat = HF_InsertRecs(@, Slot, [i \in DOMAIN names |->
               [relname |-> r, attrname |-> names[i], indexed |-> FALSE, attrno |-> i - 1]])]

BugDestroyedKeepsFile(d, r) ==
  [d EXCEPT !.index = Without(@, Indexes(d, r)),
            !.relcat = Without(@, {r}),
            !.attrcat = Without(@, ToSet(RecIds(d, r)))]
BugDestroyedKeepsIndex(d, r) ==
  [d EXCEPT !.relcat = Without(@, {r}),
            !.attrcat = Without(@, ToSet(RecIds(d, r))),
            !.recs = IF r \in d.opened THEN @ ELSE Without(@, {r})]
\* DestroyTable: the file stays if it is open.
Destroyed(d, r) ==
  [d EXCEPT !.index = Without(@, Indexes(d, r)),
            !.relcat = Without(@, {r}),
            !.attrcat = Without(@, ToSet(RecIds(d, r))),
            !.recs = IF r \in d.opened THEN @ ELSE Without(@, {r})]

BugReflagged(d, r, i, flag, more) ==
  LET s == RecIds(d, r)[i] IN
  [d EXCEPT !.attrcat = HF_InsertRec(Without(@, {s}), Slot, [@[s] EXCEPT !.indexed = flag])]

\* BuildIndex and DropIndex change the record that recids names, at the place
\* in attr_list that the attribute has, and put it into the first free slot.
Reflagged(d, r, i, flag, more) ==
  LET s == RecIds(d, r)[i] IN
  [d EXCEPT !.relcat[r].indexcnt = @ + more,
            !.attrcat = HF_InsertRec(Without(@, {s}), Slot, [@[s] EXCEPT !.indexed = flag])]

\* HF_InsertRec on a relation for each row.
Filled(d, r, rows) == [d EXCEPT !.recs[r] = HF_InsertRecs(@, RecId, rows)]

\* The rows of new, a function from ids, in the indexes of their relation.
Entered(d, r, new) ==
  [d EXCEPT !.index = [k \in DOMAIN @ |->
     IF k \in Indexes(d, r) THEN Grown(@[k], k, new) ELSE @[k]]]

\* Each row is inserted and entered.
Stored(d, r, rows) ==
  LET e == Filled(d, r, rows)
  IN  Entered(e, r, Without(e.recs[r], DOMAIN d.recs[r]))

\* The rows whose entries AM_DeleteEntry may not find, which nobody is told.
Missable(d, r, ids) ==
  {missed \in [Indexes(d, r) -> SUBSET ids] :
     \A k \in Indexes(d, r) : Few(d.index[k]) => missed[k] = {}}

BugErased(d, r, ids, missed) == [d EXCEPT !.recs[r] = Without(@, ids)]

Erased(d, r, ids, missed) ==
  [d EXCEPT !.recs[r] = Without(@, ids),
            !.index = [k \in DOMAIN @ |->
               IF k \in Indexes(d, r) THEN Shrunk(@[k], Pairs(k, d.recs[r], ids \ missed[k]))
               ELSE @[k]]]
-----------------------------------------------------------------------------
\* A condition is the attribute it is about and the values that satisfy it;
\* AllRows stands for no condition.
AllRows == [attr |-> "", values |-> {}]

Matching(d, r, sel) ==
  {id \in DOMAIN d.recs[r] :
     sel = AllRows \/ d.recs[r][id][Min(Named(AttrList(d, r), sel.attr))] \in sel.values}

Projected(list, names, row) ==
  [i \in DOMAIN names |-> row[Min(Named(list, names[i]))]]

\* The rows of a relation that satisfy a condition, in the order of a scan.
Rows(d, r, sel, names) ==
  LET ids == Scanned(Matching(d, r, sel))
  IN  [i \in DOMAIN ids |-> Projected(AttrList(d, r), names, d.recs[r][ids[i]])]

AllOf(d, r) == Rows(d, r, AllRows, Names(AttrList(d, r)))

\* A result relation is created if its file is not there.
Prepared(d, r, names) == IF r \in DOMAIN d.recs THEN d ELSE Created(d, r, names)
=============================================================================
