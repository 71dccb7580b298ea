---------------------------- MODULE RecordStore ----------------------------
(***************************************************************************)
(* What the HF layer promises: named files, each a set of records under    *)
(* ids that stay theirs until they are deleted.  An insertion picks an id  *)
(* that no record has; nothing but an insertion or a deletion on an open   *)
(* file changes its records; what a call hands out is a record that is     *)
(* there, under its id.  Opening, closing and scanning change no record.   *)
(***************************************************************************)
CONSTANTS Name, Id, Value, Missing, NoId, NoRec

VARIABLES records,   \* the records of each file, by id, Missing for none
          opened,    \* the names of the open files
          got        \* the record the last call returned

vars == <<records, opened, got>>

Nothing == [id |-> NoId, rec |-> NoRec]

Init ==
  /\ records = [n \in Name |-> Missing]
  /\ opened = {}
  /\ got = Nothing

Exists(n) == records[n] # Missing

Create(n) ==
  /\ ~Exists(n) /\ records' = [records EXCEPT ![n] = <<>>]
  /\ got' = Nothing /\ UNCHANGED opened

Destroy(n) ==
  /\ Exists(n) /\ n \notin opened
  /\ records' = [records EXCEPT ![n] = Missing]
  /\ got' = Nothing /\ UNCHANGED opened

Open(n) ==
  /\ Exists(n) /\ n \notin opened
  /\ opened' = opened \cup {n}
  /\ got' = Nothing /\ UNCHANGED records

Close(n) ==
  /\ n \in opened /\ opened' = opened \ {n}
  /\ got' = Nothing /\ UNCHANGED records

Insert(n, id, v) ==
  /\ got' = [id |-> id, rec |-> v]
  /\ n \in opened /\ id \notin DOMAIN records[n]
  /\ records' = [records EXCEPT ![n] =
                   [k \in DOMAIN @ \cup {id} |-> IF k = id THEN v ELSE @[k]]]
  /\ UNCHANGED opened

Delete(n, id) ==
  /\ got' = Nothing
  /\ n \in opened /\ id \in DOMAIN records[n]
  /\ records' = [records EXCEPT ![n] = [k \in DOMAIN @ \ {id} |-> @[k]]]
  /\ UNCHANGED opened

Get(n, id) ==
  /\ got'.id = id
  /\ n \in opened /\ id \in DOMAIN records[n]
  /\ got' = [id |-> id, rec |-> records[n][id]]
  /\ UNCHANGED <<records, opened>>

GetNothing == got' = Nothing /\ UNCHANGED <<records, opened>>

Next ==
  \/ GetNothing
  \/ \E n \in Name :
       \/ Create(n) \/ Destroy(n) \/ Open(n) \/ Close(n)
       \/ \E id \in Id : Delete(n, id) \/ Get(n, id) \/ \E v \in Value : Insert(n, id, v)

Spec == Init /\ [][Next]_vars
=============================================================================
