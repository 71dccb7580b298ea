------------------------------ MODULE Relations ----------------------------
(***************************************************************************)
(* What the front end promises (document/monorel_fe.pdf): a database is a  *)
(* set of named tables, each with attributes, of which some are indexed,   *)
(* and a bag of rows.  A call that keeps the rules of the document does    *)
(* what it is asked for and returns FEE_OK; any other call changes nothing *)
(* and returns something else.  The call made is call', its outcome ret'   *)
(* and, for what is printed, the bag printed'.                             *)
(***************************************************************************)
EXTENDS Integers, SequencesExt, FiniteSetsExt, Functions, Bags, TLC

CONSTANTS NoTable, NoValue, AllRows, FEE_OK

VARIABLES db, tables, call, ret, printed, turn

vars == <<db, tables, call, ret, printed, turn>>

Init ==
  /\ db = "none" /\ tables = <<>>
  /\ call = [op |-> "FE_Init"] /\ ret = FEE_OK /\ printed = EmptyBag /\ turn = 0

\* The bag that a sequence of rows makes, and the sum of f over a bag's rows.
BagOf(rows) == FoldLeft(LAMBDA b, row : b (+) SetToBag({row}), EmptyBag, rows)
Image(f(_), bag) ==
  FoldSet(LAMBDA row, b : b (+) [x \in {f(row)} |-> bag[row]], EmptyBag, DOMAIN bag)

Is(op) == call'.op = op
Exists(r) == r \in DOMAIN tables
Has(r, a) == Exists(r) /\ a \in ToSet(tables[r].attrs)
At(r, a) == CHOOSE i \in DOMAIN tables[r].attrs : tables[r].attrs[i] = a
Satisfying(r, sel) ==
  {row \in DOMAIN tables[r].rows : sel = AllRows \/ row[At(r, sel.attr)] \in sel.values}
Cond(r, sel) == sel = AllRows \/ Has(r, sel.attr)

(* The database.                                                            *)
Utility ==
  /\ \/ Is("DBcreate") /\ IF db = "none" THEN db' = "closed" ELSE UNCHANGED db
     \/ Is("DBconnect") /\ IF db = "closed" THEN db' = "connected" ELSE UNCHANGED db
     \/ Is("DBclose") /\ IF db = "connected" THEN db' = "closed" ELSE UNCHANGED db
     \/ Is("FE_Init") /\ UNCHANGED db
  /\ printed' = EmptyBag /\ UNCHANGED tables

Destroyed ==
  /\ Is("DBdestroy") /\ printed' = EmptyBag
  /\ IF db = "closed" THEN db' = "none" /\ tables' = <<>> ELSE UNCHANGED <<db, tables>>

\* A call on the tables that may be made, and what it makes of them.
Does(ok, after, out) ==
  /\ UNCHANGED db
  /\ IF ok THEN ret' = FEE_OK /\ tables' = after /\ printed' = out
     ELSE ret' # FEE_OK /\ UNCHANGED tables /\ printed' = EmptyBag

New(names) == [attrs |-> names, indexed |-> {}, rows |-> EmptyBag]

\* tables with the bag rows added to r, which has names if it is new.
Adding(r, names, rows) ==
  LET t == IF Exists(r) THEN tables[r] ELSE New(names)
  IN  (r :> [t EXCEPT !.rows = @ (+) rows]) @@ tables

Create ==
  /\ Is("CreateTable")
  /\ Does(~Exists(call'.rel), (call'.rel :> New(call'.names)) @@ tables, EmptyBag)

Destroy ==
  /\ Is("DestroyTable")
  /\ Does(Exists(call'.rel), Restrict(tables, DOMAIN tables \ {call'.rel}), EmptyBag)

Build ==
  /\ Is("BuildIndex")
  /\ Does(Has(call'.rel, call'.attr),
          [tables EXCEPT ![call'.rel].indexed = @ \cup {call'.attr}], EmptyBag)

Drop ==
  /\ Is("DropIndex")
  /\ Does(Has(call'.rel, call'.attr),
          [tables EXCEPT ![call'.rel].indexed = @ \ {call'.attr}], EmptyBag)

Load ==
  /\ Is("LoadTable")
  /\ Does(Exists(call'.rel), Adding(call'.rel, <<>>, BagOf(call'.rows)), EmptyBag)

\* Insert gives every attribute one value, in any order.
Whole(r, values) ==
  /\ Exists(r) /\ Len(values) = Len(tables[r].attrs)
  /\ {values[i][1] : i \in DOMAIN values} = ToSet(tables[r].attrs)
  /\ \A i \in DOMAIN values : values[i][2] # NoValue
Row(r, values) ==
  [i \in DOMAIN tables[r].attrs |->
     values[CHOOSE k \in DOMAIN values : values[k][1] = tables[r].attrs[i]][2]]

Insert ==
  LET r == call'.rel
      v == call'.values
  IN
  /\ Is("Insert")
  /\ Does(Whole(r, v), Adding(r, <<>>, SetToBag({Row(r, v)})), EmptyBag)

Delete ==
  LET r == call'.rel
      gone == Satisfying(r, call'.sel)
  IN
  /\ Is("Delete")
  /\ Does(Exists(r) /\ Cond(r, call'.sel),
          [tables EXCEPT ![r].rows = Restrict(@, DOMAIN @ \ gone)], EmptyBag)

PrintTable ==
  /\ Is("PrintTable")
  /\ Does(Exists(call'.rel), tables, tables[call'.rel].rows)

\* The rows of a result go into a table or are printed.
Answer(ok, names, rows) ==
  LET res == call'.res IN
  IF res = NoTable THEN Does(ok, tables, rows)
  ELSE Does(ok /\ (Exists(res) => Len(tables[res].attrs) = Len(names)),
            Adding(res, names, rows), EmptyBag)

Select ==
  LET r == call'.src
      names == call'.names
      some == Restrict(tables[r].rows, Satisfying(r, call'.sel))
  IN
  /\ Is("Select")
  /\ Answer(/\ Exists(r) /\ call'.res # r /\ Cond(r, call'.sel)
            /\ \A i \in DOMAIN names : Has(r, names[i]),
            names, Image(LAMBDA row : [i \in DOMAIN names |-> row[At(r, names[i])]], some))

\* The pairs of rows whose join attributes compare as call'.cmp says.
Join ==
  LET j1 == call'.j1
      j2 == call'.j2
      proj == call'.proj
      pairs == {p \in (DOMAIN tables[j1.rel].rows) \X (DOMAIN tables[j2.rel].rows) :
                  <<p[1][At(j1.rel, j1.attr)], p[2][At(j2.rel, j2.attr)]>> \in call'.cmp}
      bag == [p \in pairs |-> tables[j1.rel].rows[p[1]] * tables[j2.rel].rows[p[2]]]
      from(p, rel) == IF rel = j1.rel THEN p[1] ELSE p[2]
  IN
  /\ Is("Join")
  /\ Answer(/\ Has(j1.rel, j1.attr) /\ Has(j2.rel, j2.attr) /\ j1.rel # j2.rel
            /\ call'.res \notin {j1.rel, j2.rel}
            /\ \A i \in DOMAIN proj : proj[i].rel \in {j1.rel, j2.rel}
                                      /\ Has(proj[i].rel, proj[i].attr),
            [i \in DOMAIN proj |-> proj[i].attr],
            Image(LAMBDA p : [i \in DOMAIN proj |->
                                from(p, proj[i].rel)[At(proj[i].rel, proj[i].attr)]], bag))

Next ==
  /\ turn' = 1 - turn
  /\ \/ Utility \/ Destroyed \/ Create \/ Destroy \/ Build \/ Drop \/ Load
     \/ Insert \/ Delete \/ PrintTable \/ Select \/ Join

Spec == Init /\ [][Next]_vars
=============================================================================
