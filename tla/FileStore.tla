----------------------------- MODULE FileStore ------------------------------
(***************************************************************************)
(* What the PF layer promises to a caller that keeps its rules: named      *)
(* files, each a sequence of pages that only grows at its end and whose    *)
(* pages only the caller changes, while the file is open.  Opening,        *)
(* closing, reading and every movement of pages between memory and disk    *)
(* leave the pages as they are.  A crash may cost an open file the pages   *)
(* added and the stores made since it was opened, but leaves it with       *)
(* readable pages; a closed file survives as it is.                        *)
(***************************************************************************)
EXTENDS Naturals, Sequences

CONSTANTS Name, Data, Zero, Missing

VARIABLES files,    \* the pages of each file, Missing for none
          opened,   \* the names of the open files
          boot      \* changes when the process dies and is started again

vars == <<files, opened, boot>>

Init ==
  /\ files = [n \in Name |-> Missing]
  /\ opened = {}
  /\ boot = 0

Exists(n) == files[n] # Missing

Create(n) ==
  /\ ~Exists(n) /\ files' = [files EXCEPT ![n] = <<>>]
  /\ UNCHANGED <<opened, boot>>

Destroy(n) ==
  /\ Exists(n) /\ n \notin opened
  /\ files' = [files EXCEPT ![n] = Missing]
  /\ UNCHANGED <<opened, boot>>

Open(n) ==
  /\ Exists(n) /\ n \notin opened
  /\ opened' = opened \cup {n} /\ UNCHANGED <<files, boot>>

Close(n) ==
  /\ n \in opened
  /\ opened' = opened \ {n} /\ UNCHANGED <<files, boot>>

AppendPage(n) ==
  /\ n \in opened
  /\ files' = [files EXCEPT ![n] = Append(@, Zero)]
  /\ UNCHANGED <<opened, boot>>

Store(n, v) ==
  /\ n \in opened
  /\ \E i \in DOMAIN files[n] : files' = [files EXCEPT ![n][i] = v]
  /\ UNCHANGED <<opened, boot>>

Crash ==
  /\ boot' = 1 - boot /\ opened' = {}
  /\ \A n \in Name :
       IF n \in opened
       THEN /\ Len(files'[n]) <= Len(files[n])
            /\ \A i \in DOMAIN files'[n] : files'[n][i] \in Data
       ELSE files'[n] = files[n]

Next ==
  \/ \E n \in Name : \/ Create(n) \/ Destroy(n) \/ Open(n) \/ Close(n)
                     \/ AppendPage(n) \/ \E v \in Data : Store(n, v)
  \/ Crash

Spec == Init /\ [][Next]_vars
=============================================================================
