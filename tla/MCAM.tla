-------------------------------- MODULE MCAM -------------------------------
(***************************************************************************)
(* AMClient for TLC.                                                       *)
(***************************************************************************)
EXTENDS AMClient

CONSTANTS indexA, indexB, r1, r2

\* What a later call finds of a table entry that is not in use.
Entry(fd) == IF am_index_table[fd].valid THEN am_index_table[fd] ELSE NewEntry
Scan(sd) ==
  IF am_scan_table[sd].valid THEN am_scan_table[sd]
  ELSE {<<v, Copied(am_scan_table[sd].value, v)>> : v \in bound.values}

\* States that differ in res, or in what an entry out of use has left, behave
\* alike.
Essence ==
  <<index, pf_table, [fd \in Fd |-> Entry(fd)], [sd \in Fd |-> Scan(sd)], call,
    bound, todo, due, seen>>

Ids == Permutations({r1, r2})
AllOps == EQ_OP..NE_OP
MCLimit == [op \in AllOps |-> CASE op = LT_OP -> 1 [] op = NE_OP -> 0
                                [] OTHER -> MaxCopies]

Bound(names, load, values, ids, entries, deleted, scans, ops) ==
  [names |-> names, load |-> load, values |-> values, ids |-> ids,
   entries |-> entries, deleted |-> deleted, scans |-> scans, ops |-> ops]

\* Trees in every order of calls; scans with every condition; two indexes,
\* and two scans of them.
Small ==
  {Bound({indexA}, <<>>, 1..4, {r1, r2}, 7, 2, 0, {}),
   Bound({indexA}, <<>>, 1..3, {r1, r2}, 6, 1, 1, AllOps),
   Bound({indexA, indexB}, <<>>, {1}, {r1, r2}, 1, 1, 2, {EQ_OP})}

\* The values 1 to p - 1, p prime, in order a, 2a, 3a... modulo p: up for
\* a = 1, down for a = p - 1, and mixed.  Deep trees; scans of long lists.
Order(p, a) == [i \in 1..(p - 1) |-> (i * a) % p]
Large ==
  {Bound({indexA}, Order(61, a), {1, 20, 60}, {r1}, 60, 1, 0, {}) : a \in 1..60}
  \cup {Bound({indexA}, Order(41, 11), {1, 20, 40}, {r1}, 40, 1, 1, {LT_OP, GE_OP})}
  \cup {Bound({indexA}, Order(13, a), {1, 6, 7, 12}, {r1}, 12, 1, 1, AllOps) :
          a \in {1, 5, 12}}
Values60 == 1..60

Copied4 == {Bound({indexA}, <<>>, 0..2, {r1, r2}, 9, 4, 0, {})}
=============================================================================
