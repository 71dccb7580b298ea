----------------------------- MODULE MCBFClient -----------------------------
(***************************************************************************)
(* BFClient for TLC: three pages of two files share two frames; two values *)
(* tell a page's states apart.                                             *)
(***************************************************************************)
EXTENDS BFClient

CONSTANTS zero, one, fileA, fileB

MCOpenFiles == 3 :> fileA @@ 4 :> fileB

MCData == {zero, one}

\* No action and no property reads the rc of an earlier call.
NoRc == <<pool, disk, flushing, pins, ptr, use, older>>

MCReqs == {[fd |-> 0, unixfd |-> 3, pagenum |-> 1],
           [fd |-> 0, unixfd |-> 3, pagenum |-> 2],
           [fd |-> 1, unixfd |-> 4, pagenum |-> 1]}
=============================================================================
