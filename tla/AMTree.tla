------------------------------- MODULE AMTree ------------------------------
(***************************************************************************)
(* The B+ tree of am/am.c as a value.  A tree is its header, [height, root,*)
(* first], and its pages: page[o] is the node at page offset o.  Page 0 is *)
(* the header page, so offset 0 stands for "no node".  An inner node has   *)
(* one key less than children; a leaf has entries [value, recId, deleted]. *)
(* Positions in a node count from 1, where the code counts from 0.         *)
(***************************************************************************)
EXTENDS Integers, SequencesExt

CONSTANTS FANOUT,     \* children of an inner node, entries of a leaf
          INT_MAX     \* the largest C int

\* With three the split of an inner node would compare with a slot no key is in.
ASSUME TreeAssumption == FANOUT \in Nat /\ FANOUT >= 4 /\ INT_MAX \in Nat \ {0}

NoNode == 0

\* AM_CreateIndex: a root with one child, an empty leaf.
EmptyTree ==
  [height |-> 1, root |-> 1, first |-> 2,
   page |-> << [parent |-> NoNode, next |-> NoNode, prev |-> NoNode,
                keys |-> <<>>, child |-> <<2>>],
               [parent |-> 1, next |-> NoNode, prev |-> NoNode, rec |-> <<>>] >>]
-----------------------------------------------------------------------------
\* What an int subtraction leaves of x in a build without optimisation.
Wrap(x) == ((x + INT_MAX + 1) % (2 * INT_MAX + 2)) - INT_MAX - 1

AM_CompAttVal(a, b) == Wrap(a - b)

\* The first of the positions up to last whose value is above v, or last.
AM_UpperBound(values, last, v) ==
  Min({i \in 1..(last - 1) : AM_CompAttVal(v, values[i]) < 0} \cup {last})

Values(rec) == [i \in DOMAIN rec |-> rec[i].value]

\* AM_SearchIndex and AM_SearchLeaf: the node at each level on the way to v.
Path(t, v) ==
  LET at[level \in 0..t.height] ==
        IF level = 0 THEN t.root
        ELSE LET node == t.page[at[level - 1]]
             IN node.child[AM_UpperBound(node.keys, Len(node.child), v)]
  IN at

AM_SearchIndex(t, v) == Path(t, v)[t.height - 1]
AM_SearchLeaf(t, v) == Path(t, v)[t.height]
-----------------------------------------------------------------------------
(* Insertion. *)

AM_InsertRecNoSplit(rec, entry) ==
  LET n == Len(rec)
      at == AM_UpperBound(Values(rec), n, entry.value)
  IN  IF n = 0 THEN <<entry>>
      ELSE IF at = n /\ AM_CompAttVal(entry.value, rec[n].value) > 0 THEN Append(rec, entry)
      ELSE InsertAt(rec, at, entry)

\* the new child goes before the one it split from
BugInsertKeyNoSplit(node, key, after) ==
  LET at == AM_UpperBound(node.keys, Len(node.child), key)
  IN  [node EXCEPT !.keys = InsertAt(@, at, key), !.child = InsertAt(@, at, after)]

\* Node after, whose smallest value is key, comes behind the child it split from.
AM_InsertKeyToIndexNoSplit(node, key, after) ==
  LET at == AM_UpperBound(node.keys, Len(node.child), key)
  IN  [node EXCEPT !.keys = InsertAt(@, at, key), !.child = InsertAt(@, at + 1, after)]

\* the old next node is not linked back.
BugCreateNode(t, offset, left, right) ==
  [t EXCEPT !.page = Append([@ EXCEPT ![offset] = [left EXCEPT !.next = Len(t.page) + 1]],
                            [right EXCEPT !.next = t.page[offset].next, !.prev = offset])]

\* AM_CreateLeafNode, AM_CreateInternalNode and the writes after them: left
\* stays at offset and right gets a new page, linked in behind it.  The code
\* writes the whole of left from a copy read before.
CreateNode(t, offset, left, right) ==
  LET new == Len(t.page) + 1
      next == t.page[offset].next
  IN  [t EXCEPT !.page = Append(
         [o \in DOMAIN @ |-> IF o = offset THEN [left EXCEPT !.next = new]
                             ELSE IF o = next THEN [@[o] EXCEPT !.prev = new]
                             ELSE @[o]],
         [right EXCEPT !.next = next, !.prev = offset])]

BugResetIndexChildParent(t, offset) ==   \* end is taken to be excluded
  [t EXCEPT !.page = [o \in DOMAIN @ |->
     IF o \in ToSet(Front(@[offset].child)) THEN [@[o] EXCEPT !.parent = offset] ELSE @[o]]]

AM_ResetIndexChildParent(t, offset) ==
  [t EXCEPT !.page = [o \in DOMAIN @ |->
     IF o \in ToSet(@[offset].child) THEN [@[o] EXCEPT !.parent = offset] ELSE @[o]]]

\* AM_Insert on a leaf with room.
PlaceInLeaf(t, offset, entry) ==
  [t EXCEPT !.page[offset].rec = AM_InsertRecNoSplit(@, entry)]

\* AM_Insert on a full leaf: the tree, and the key of the new leaf, which the
\* parent does not know yet.
SplitLeaf(t, offset, entry) ==
  LET leaf == t.page[offset]
      middle == FANOUT \div 2
      place_right == AM_CompAttVal(entry.value, leaf.rec[middle + 1].value) > 0
      point == IF place_right THEN middle + 1 ELSE middle
      stays == SubSeq(leaf.rec, 1, point)
      moves == SubSeq(leaf.rec, point + 1, FANOUT)
      left == IF place_right THEN stays ELSE AM_InsertRecNoSplit(stays, entry)
      right == IF place_right THEN AM_InsertRecNoSplit(moves, entry) ELSE moves
  IN  [tree |-> CreateNode(t, offset, [leaf EXCEPT !.rec = left], [leaf EXCEPT !.rec = right]),
       key |-> right[1].value]

\* AM_InsertKeyToIndex on a full node: the key between the two halves goes up.
SplitInternal(t, offset, key, after) ==
  LET node == t.page[offset]
      middle == (FANOUT - 1) \div 2 + 1
      place_right == AM_CompAttVal(key, node.keys[middle]) > 0
      point == IF place_right /\ ~(AM_CompAttVal(key, node.keys[middle + 1]) < 0)
               THEN middle + 1 ELSE middle
      stays == [node EXCEPT !.keys = SubSeq(@, 1, point - 1), !.child = SubSeq(@, 1, point)]
      moves == [node EXCEPT !.keys = SubSeq(@, point + 1, FANOUT - 1),
                            !.child = SubSeq(@, point + 1, FANOUT)]
      left == IF place_right THEN stays ELSE AM_InsertKeyToIndexNoSplit(stays, key, after)
      right == IF place_right THEN AM_InsertKeyToIndexNoSplit(moves, key, after) ELSE moves
  IN  [tree |-> AM_ResetIndexChildParent(CreateNode(t, offset, left, right), Len(t.page) + 1),
       key |-> node.keys[point]]

\* AM_InsertKeyToIndex above the root.
NewRoot(t, key, old, after) ==
  LET root == Len(t.page) + 1 IN
  AM_ResetIndexChildParent(
    [t EXCEPT !.height = @ + 1, !.root = root,
              !.page = Append(@, [parent |-> NoNode, next |-> NoNode, prev |-> NoNode,
                                  keys |-> <<key>>, child |-> <<old, after>>])], root)
-----------------------------------------------------------------------------
(* Walking the leaves. *)

EQ_OP == 1
LT_OP == 2
GT_OP == 3
LE_OP == 4
GE_OP == 5
NE_OP == 6

AM_CheckCondition(op, attribute, value) ==
  LET result == AM_CompAttVal(attribute, value) IN
  CASE op = EQ_OP -> result = 0  [] op = LT_OP -> result < 0  [] op = GT_OP -> result > 0
    [] op = LE_OP -> result <= 0 [] op = GE_OP -> result >= 0 [] op = NE_OP -> result # 0

LEFT == -1
RIGHT == 1
NOTDEFINED == 0

Start == 0    \* an entry_offset of -1

EntryAt(t, at) == t.page[at.leaf].rec[at.entry]

\* The last entry of the leaf of v that matches; Start if none does.
AM_GetFirstEntry(t, op, v) ==
  LET leaf == AM_SearchLeaf(t, v)
      rec == t.page[leaf].rec
  IN  [leaf |-> leaf,
       entry |-> Max({i \in DOMAIN rec : AM_CheckCondition(op, rec[i].value, v)} \cup {Start})]

\* An entry_offset of -1 is taken for the one before the first.
BugNeighbour(t, direction, at) ==
  IF at.leaf = NoNode THEN at
  ELSE LET leaf == t.page[at.leaf]
           next == IF direction = LEFT THEN leaf.prev ELSE leaf.next
           edge == IF direction = LEFT THEN 1 ELSE Len(leaf.rec)
       IN  IF at.entry # edge /\ at.entry + direction \in DOMAIN leaf.rec
           THEN [at EXCEPT !.entry = @ + direction]
           ELSE [leaf |-> next,
                 entry |-> IF next = NoNode THEN at.entry
                           ELSE IF direction = LEFT THEN Len(t.page[next].rec) ELSE 1]

\* An entry on from at in a direction; leaf NoNode behind the last leaf, where
\* the position in the leaf stays.  A walk that is already there would read the
\* header page as a leaf, whose bytes hold no entry that anyone looks for.
Neighbour(t, direction, at) ==
  IF at.leaf = NoNode THEN at
  ELSE LET leaf == t.page[at.leaf]
           next == IF direction = LEFT THEN leaf.prev ELSE leaf.next
           edge == IF direction = LEFT THEN 1 ELSE Len(leaf.rec)
       IN  IF at.entry \notin {edge, Start} THEN [at EXCEPT !.entry = @ + direction]
           ELSE [leaf |-> next,
                 entry |-> IF next = NoNode THEN at.entry
                           ELSE IF direction = LEFT THEN Len(t.page[next].rec) ELSE 1]

\* AM_GetNextEntry returns TRUE.
Matches(t, at, op, v) ==
  at.leaf # NoNode /\ AM_CheckCondition(op, EntryAt(t, at).value, v)

AM_MarkDeleted(t, at) == [t EXCEPT !.page[at.leaf].rec[at.entry].deleted = TRUE]
=============================================================================
