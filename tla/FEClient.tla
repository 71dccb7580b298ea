------------------------------ MODULE FEClient -----------------------------
(***************************************************************************)
(* FE under the rules of document/monorel_fe.pdf: tables that are there    *)
(* are destroyed, indexed and queried, join and result relations are       *)
(* distinct.  Three rules are not in the document: an index is built for   *)
(* an attribute that has none and dropped for one that has one, while the  *)
(* attribute's record is where BuildIndex looks for it; a table that       *)
(* Select fills has no index; and no page of a file fills up.  The calls   *)
(* are made with the arguments that bound gives.                           *)
(***************************************************************************)
EXTENDS FE

CONSTANT Bounds   \* bounds: the tables; the sequences of attributes each may
                  \* have; the attributes to index; the rows of data files, and
                  \* the tables whose data file cannot be written; the arguments
                  \* of the other calls; the rows of a relation, the records
                  \* of attrcat and the entries an index ever gets

ASSUME BoundsAssumption ==
  \A b \in Bounds :
    /\ b.tables \subseteq Table /\ b.locked \subseteq Table
    /\ b.schemas \in [b.tables -> SUBSET Seq(STRING)]
    /\ b.files \subseteq Seq(Seq(Int))
    /\ b.selects \subseteq [src : Table, sel : [attr : STRING, values : SUBSET Int],
                           names : Seq(STRING), res : Table \cup {NoTable}]
    /\ \A q \in b.joins :
         /\ {q.j1, q.j2} \cup ToSet(q.proj) \subseteq [rel : Table, attr : STRING]
         /\ q.proj \in Seq([rel : Table, attr : STRING]) /\ q.res \in Table \cup {NoTable}
    /\ b.rows \in 0..Cardinality(RecId) /\ b.slots \in 0..Cardinality(Slot)
    /\ b.entries \in Nat

VARIABLE bound   \* the one of Bounds that a behaviour keeps to

cvars == <<db, d, did, bound>>

CInit == Init /\ bound \in Bounds

Within ==
  /\ Cardinality(DOMAIN d'.attrcat) <= bound.slots
  /\ \A r \in DOMAIN d'.recs : Cardinality(DOMAIN d'.recs[r]) <= bound.rows
  /\ \A k \in DOMAIN d'.index : BagCardinality(d'.index[k].entered) <= bound.entries
  /\ UNCHANGED bound

Unindexed(r) == Exists(r) => Indexes(d, r) = {}

\* The record that recids names is that of the attribute at this place.
InPlace(r, a) ==
  LET i == Max(Named(List(r), a)) IN d.attrcat[RecIds(d, r)[i]] = List(r)[i]
Flagged(r, a) == List(r)[Max(Named(List(r), a))].indexed

CUtility == DBcreate \/ DBconnect \/ DBclose \/ DBdestroy \/ DBrefused \/ FE_Init

CBuild(r, a) == BuildIndex(r, a) /\ InPlace(r, a) /\ ~Flagged(r, a)
CDrop(r, a) == DropIndex(r, a) /\ InPlace(r, a) /\ Flagged(r, a)

CDefine(r) ==
  \/ \E names \in bound.schemas[r] : CreateTable(r, names)
  \/ DestroyTable(r) \/ PrintTable(r) \/ LoadRefused(r)
  \/ \E a \in bound.attrs : CBuild(r, a) \/ CDrop(r, a) \/ IndexRefused(r, a)
  \/ \E rows \in bound.files : LoadTable(r, rows)
  \/ r \in bound.locked /\ LoadUnwritable(r)

CChange(r) ==
  \/ \E values \in bound.inserts : Insert(r, values) \/ InsertRefused(r, values)
                                   \/ InsertUnknown(r, values)
  \/ \E sel \in bound.sels :
       Delete(r, sel) \/ DeleteRefused(r, sel) \/ DeleteUnknown(r, sel)

CQuery ==
  \/ \E q \in bound.selects :
       Unindexed(ResName(q.res)) /\ Select(q.src, q.sel, q.names, q.res)
  \/ \E q \in bound.joins :
       /\ Unindexed(ResName(q.res))
       /\ \/ Join(q.j1, q.op, q.j2, q.proj, q.res)
          \/ JoinUnknown(q.j1, q.op, q.j2, q.proj, q.res)

CCall == CUtility \/ CQuery \/ \E r \in bound.tables : CDefine(r) \/ CChange(r)
CNext == CCall /\ Within
CSpec == CInit /\ [][CNext]_cvars

(* Callers that break the three rules.                                      *)
AnyCall ==
  \/ CCall
  \/ \E r \in bound.tables : \/ \E a \in bound.attrs : BuildIndex(r, a) \/ DropIndex(r, a)
                             \/ \E values \in bound.inserts : InsertLost(r, values)
  \/ \E q \in bound.selects : Select(q.src, q.sel, q.names, q.res)
AnySpec == CInit /\ [][AnyCall /\ Within]_cvars
-----------------------------------------------------------------------------
(* The catalogs describe every relation: it has its file, one record for    *)
(* each attribute, and as many indexed ones as relcat counts                *)
(* (fe.c:250-281, 334-346, 396-430, 492-526).                               *)
CountsIndexes ==
  \A r \in DOMAIN d.relcat :
    /\ Exists(r)
    /\ [i \in DOMAIN List(r) |-> List(r)[i].attrno] = [i \in 1..d.relcat[r].attrcnt |-> i - 1]
    /\ Cardinality(Indexes(d, r)) = d.relcat[r].indexcnt

(* An attribute is marked as indexed exactly if its index file is there,    *)
(* whatever tables come and go and wherever in the catalog its record moves *)
(* (fe.c:326-331, 415-435, 511-527).                                        *)
FlagsIndexes == DOMAIN d.index = UNION {Indexes(d, r) : r \in DOMAIN d.relcat}

(* Every row of a table has its entry in each index of the table, the       *)
(* row's value with its id.  As long as no value has been entered more than *)
(* MaxCopies times, it has one, and the index has no other entry; beyond    *)
(* that, entries stay whose rows are deleted, because what AM_DeleteEntry   *)
(* returns is not looked at (fe.c:440-444, 584-590, 688-693, 784-792).      *)
IndexesAgree ==
  \A k \in DOMAIN d.index :
    Exists(k[1]) =>
      LET rows == d.recs[k[1]]
          pairs == Pairs(k, rows, DOMAIN rows)
      IN  /\ pairs \subseteq DOMAIN d.index[k].entries
          /\ Few(d.index[k]) => d.index[k].entries = SetToBag(pairs)

(* A call that reports an error loses no row and no index entry of a table, *)
(* wherever it returned: nor does a call that leaves files open             *)
(* (fe.c:390-394, 569-573, 669-674, 751-755, 867-883, 889-909, 1016-1020).  *)
ErrorsKeepRows ==
  [][ did'.ret # FEE_OK /\ did'.call.op # "DestroyTable" =>
        \A r \in DOMAIN d.relcat :
          /\ r \in DOMAIN d'.relcat /\ d'.recs[r] = d.recs[r]
          /\ \A k \in Indexes(d, r) : d'.index[k] = d.index[k] ]_cvars

(* No call leaves a file behind and says nothing: one that returns FEE_OK   *)
(* leaves no temporary relation, and the file of a relation that has no     *)
(* record in relcat any more, which no call can destroy and whose name      *)
(* cannot be used again, is left by a DestroyTable that reports an error    *)
(* only (fe.c:334-355, 889-909, 950-953, 1084-1094).                        *)
Temporary(e) == DOMAIN e.recs \cap {SEARCH_TMP_FILE_MARK, JOIN_TMP_FILE_MARK}
Orphans(e) == DOMAIN e.recs \ DOMAIN e.relcat

LeftoversAreReported ==
  [][ /\ did'.ret = FEE_OK => Temporary(d') \subseteq Temporary(d)
      /\ did'.ret = FEE_OK \/ did'.call.op # "DestroyTable" =>
           Orphans(d') \subseteq Orphans(d) ]_cvars

(* A call that returns FEE_OK has closed the files it opened: what refuses  *)
(* later calls is only a call that reported an error                        *)
(* (fe.c:446-447, 598, 699, 804, 939-941, 1059-1064, 1277).                 *)
SuccessCloses == [][ did'.ret = FEE_OK => d'.opened \subseteq d.opened ]_cvars

(* FE implements the relations: each call does what it is asked for and     *)
(* says so, or changes nothing and says so (fe.c:287-1095).                 *)
Db == INSTANCE Relations WITH
  tables <- [r \in DOMAIN d.recs |->
               [attrs |-> Names(List(r)),
                indexed |-> {a.attrname : a \in {a \in ToSet(List(r)) : a.indexed}},
                rows |-> FoldSet(LAMBDA id, b : b (+) SetToBag({d.recs[r][id]}),
                                 EmptyBag, DOMAIN d.recs[r])]],
  call <- did.call, ret <- did.ret, turn <- did.turn,
  printed <- FoldLeft(LAMBDA b, row : b (+) SetToBag({row}), EmptyBag, did.printed)

ImplementsRelations == Db!Spec
=============================================================================
