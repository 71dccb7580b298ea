-------------------------------- MODULE MCFE -------------------------------
(***************************************************************************)
(* FEClient for TLC: tables s, p and t with attributes a, b and c.         *)
(***************************************************************************)
EXTENDS FEClient, TLC

CONSTANT BYTE   \* the values of a byte

\* No action reads the last call.
NoDid == <<db, d, bound>>

\* Two numbers of two bytes, the low byte first: strncmp stops at a zero.
SameBytes(v, w) ==
  /\ v % BYTE = w % BYTE
  /\ v % BYTE = 0 \/ v \div BYTE = w \div BYTE

Slots4 == 1..4
Slots10 == 1..10
Ids1 == 1..1
Ids4 == 1..4

EQ == {<<v, v>> : v \in 1..2}
OneAttr(v) == << <<"a", v>> >>
TwoAttrs(v, w) == << <<"b", w>>, <<"a", v>> >>
AIs(v) == [attr |-> "a", values |-> {v}]
ZIs(v) == [attr |-> "z", values |-> {v}]
A(r) == [rel |-> r, attr |-> "a"]
B(r) == [rel |-> r, attr |-> "b"]
Z(r) == [rel |-> r, attr |-> "z"]
SelectOf(src, sel, names, res) ==
  [src |-> src, sel |-> sel, names |-> names, res |-> res]
JoinOf(j1, j2, proj, res) ==
  [j1 |-> j1, op |-> EQ, j2 |-> j2, proj |-> proj, res |-> res]

AttrsOf == [s |-> {<<"a">>, <<"a", "b">>}, p |-> {<<"a", "b">>}]

\* Tables that come and go, are indexed, filled and emptied.
Tables ==
  [tables |-> {"s", "p"}, schemas |-> AttrsOf, attrs |-> {"a", "b"}, slots |-> 4,
   rows |-> 2, entries |-> 2, files |-> {<< <<1>>, <<2>> >>, << <<2, 1>> >>}, locked |-> {},
   inserts |-> {OneAttr(1), TwoAttrs(2, 1), TwoAttrs(1, NoValue)},
   sels |-> {AllRows, AIs(1)}, selects |-> {}, joins |-> {}]

\* An index of a table whose rows are deleted and come back, until a value has
\* been entered more often than AM bears.
Entries ==
  [Tables EXCEPT !.tables = {"s"}, !.schemas = [s |-> {<<"a">>, <<"a", "b">>}],
                 !.rows = 3, !.entries = 4, !.files = {},
                 !.inserts = {OneAttr(1), OneAttr(2), TwoAttrs(1, 1), TwoAttrs(2, 1)}]

\* Queries, into a table or printed.
Queries ==
  [tables |-> {"s", "p", "t"}, attrs |-> {}, slots |-> 10, rows |-> 4, locked |-> {},
   entries |-> 0,
   schemas |-> [s |-> {<<"b", "a">>}, p |-> {<<"c", "a">>}, t |-> {}],
   files |-> {<< <<1>>, <<2>> >>, << <<2, 1>>, <<1, 1>> >>},
   inserts |-> {}, sels |-> {AllRows},
   selects |-> {SelectOf("s", AllRows, <<"a">>, NoTable),
                SelectOf("s", AIs(1), <<"b", "a">>, NoTable),
                SelectOf("s", AIs(1), <<"b">>, "t"),
                SelectOf("t", AllRows, <<"z">>, NoTable)},
   joins |-> {JoinOf(A("s"), A("p"), <<B("s"), A("p")>>, NoTable),
              JoinOf(A("p"), B("s"), <<A("p")>>, "t")}]

\* Names that no attribute has, a data file that cannot be written.
Mistakes ==
  [tables |-> {"s", "p"}, schemas |-> AttrsOf, attrs |-> {"a"}, slots |-> 6,
   rows |-> 1, entries |-> 2, files |-> {}, locked |-> {"s"},
   inserts |-> {OneAttr(1), TwoAttrs(1, 2), << <<"z", 1>>, <<"a", 2>> >>},
   sels |-> {AIs(1), ZIs(1)},
   selects |-> {SelectOf("s", ZIs(1), <<"a">>, NoTable),
                SelectOf("s", AIs(1), <<"a">>, "p"),
                SelectOf("s", AllRows, <<"a">>, NoTable)},
   joins |-> {JoinOf(A("s"), Z("p"), <<A("s")>>, NoTable),
              JoinOf(A("s"), A("p"), <<A("s")>>, NoTable)}]

TablesQueries == {Tables, Entries, Queries}
OnlyMistakes == {Mistakes}

\* For the shortest way to a wrong mark.
IndexBounds ==
  {[Tables EXCEPT !.rows = 1, !.files = {}, !.inserts = {}, !.sels = {}]}
=============================================================================
