----------------------------- MODULE PagedStore -----------------------------
(***************************************************************************)
(* What the BF layer promises to a caller that pins the pages it uses:     *)
(* a set of pages with contents, a durable copy of them that lags behind,  *)
(* and no trace of frames, lists or evictions.                             *)
(*                                                                         *)
(*   - only a store of the caller changes what a page reads as: moving     *)
(*     pages in and out of memory is invisible;                            *)
(*   - only a page that nobody has pinned is copied to the durable side,   *)
(*     so a caller's half-made change never reaches the file;              *)
(*   - after a crash every page reads as its durable copy.                 *)
(***************************************************************************)
EXTENDS Integers

CONSTANTS Page,       \* the pages, <<file, number>>
          Data, Zero, Absent

VARIABLES content,    \* what the caller reads
          durable,    \* what the files hold
          pins        \* how often the caller has pinned each page

vars == <<content, durable, pins>>

Init ==
  /\ durable \in [Page -> {Zero, Absent}]
  /\ content = durable
  /\ pins = [k \in Page |-> 0]

\* Copying page k to its file; a hole below it becomes a page of zeros.
Written(k) ==
  [l \in Page |-> IF l = k THEN content[k]
                  ELSE IF l[1] = k[1] /\ l[2] < k[2] /\ durable[l] = Absent
                       THEN Zero ELSE durable[l]]

WriteBack ==
  \/ UNCHANGED durable
  \/ \E k \in Page : pins[k] = 0 /\ content[k] # Absent /\ durable' = Written(k)

Create(k) ==
  /\ content[k] = Absent
  /\ content' = [content EXCEPT ![k] = Zero]
  /\ pins' = [pins EXCEPT ![k] = @ + 1]
  /\ WriteBack

Pin(k) ==
  /\ content[k] # Absent
  /\ pins' = [pins EXCEPT ![k] = @ + 1]
  /\ WriteBack /\ UNCHANGED content

Unpin(k) ==
  /\ pins[k] > 0
  /\ pins' = [pins EXCEPT ![k] = @ - 1]
  /\ UNCHANGED <<content, durable>>

Store(k, v) ==
  /\ pins[k] > 0
  /\ content' = [content EXCEPT ![k] = v]
  /\ UNCHANGED <<durable, pins>>

Clean == WriteBack /\ UNCHANGED <<content, pins>>

Crash ==
  /\ content' = durable
  /\ pins' = [k \in Page |-> 0]
  /\ UNCHANGED durable

Next ==
  \/ \E k \in Page : Create(k) \/ Pin(k) \/ Unpin(k) \/ \E v \in Data : Store(k, v)
  \/ Clean
  \/ Crash

Spec == Init /\ [][Next]_vars
=============================================================================
