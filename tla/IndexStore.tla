----------------------------- MODULE IndexStore ----------------------------
(***************************************************************************)
(* What the AM layer promises: named indexes, each a set of pairs of an    *)
(* attribute value and a record id.  A deletion takes out the pair it is   *)
(* asked for if the index holds it, and says so if not; a scan hands out   *)
(* ids of pairs that the index holds; nothing else changes an index.       *)
(***************************************************************************)
CONSTANTS Name, Value, RecId, NoValue, NoId, AME_OK, AME_RECNOTFOUND

VARIABLES entries,   \* the pairs of each index there is
          opened,    \* the names of the open indexes
          got        \* what the last deletion or scan said

vars == <<entries, opened, got>>

Says(code, v, id) == got' = [code |-> code, value |-> v, id |-> id]
Nothing == Says(AME_OK, NoValue, NoId)

Init ==
  /\ entries = [n \in {} |-> {}]
  /\ opened = {}
  /\ got = [code |-> AME_OK, value |-> NoValue, id |-> NoId]

Create(n) ==
  /\ n \notin DOMAIN entries
  /\ entries' = [m \in DOMAIN entries \cup {n} |-> IF m = n THEN {} ELSE entries[m]]
  /\ Nothing /\ UNCHANGED opened

Destroy(n) ==
  /\ n \in DOMAIN entries \ opened
  /\ entries' = [m \in DOMAIN entries \ {n} |-> entries[m]]
  /\ Nothing /\ UNCHANGED opened

Open(n) ==
  /\ n \in DOMAIN entries \ opened
  /\ opened' = opened \cup {n}
  /\ Nothing /\ UNCHANGED entries

Close(n) ==
  /\ n \in opened /\ opened' = opened \ {n}
  /\ Nothing /\ UNCHANGED entries

Insert(n, v, id) ==
  /\ n \in opened /\ <<v, id>> \notin entries[n]
  /\ entries' = [entries EXCEPT ![n] = @ \cup {<<v, id>>}]
  /\ Nothing /\ UNCHANGED opened

Delete(n, v, id) ==
  /\ n \in opened
  /\ IF <<v, id>> \in entries[n]
     THEN entries' = [entries EXCEPT ![n] = @ \ {<<v, id>>}] /\ Says(AME_OK, v, id)
     ELSE UNCHANGED entries /\ Says(AME_RECNOTFOUND, v, id)
  /\ UNCHANGED opened

Find(n, v, id) ==
  /\ n \in opened /\ <<v, id>> \in entries[n]
  /\ Says(AME_OK, NoValue, id)
  /\ UNCHANGED <<entries, opened>>

NoAnswer == Nothing /\ UNCHANGED <<entries, opened>>

Next ==
  \/ NoAnswer
  \/ \E n \in Name :
       \/ Create(n) \/ Destroy(n) \/ Open(n) \/ Close(n)
       \/ \E v \in Value, id \in RecId : Insert(n, v, id) \/ Delete(n, v, id) \/ Find(n, v, id)

Spec == Init /\ [][Next]_vars
=============================================================================
