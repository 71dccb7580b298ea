------------------------------- MODULE MCBF --------------------------------
(***************************************************************************)
(* BF for TLC: two frames, two descriptors, three pages that compete for   *)
(* the frames.                                                             *)
(***************************************************************************)
EXTENDS BF

CONSTANTS zero, one, fileA, fileB

MCOpenFiles == 3 :> fileA @@ 4 :> fileB

MCData == {zero, one}

MCReqs == {[fd |-> 0, unixfd |-> 3, pagenum |-> 1],
           [fd |-> 0, unixfd |-> 3, pagenum |-> 2],
           [fd |-> 1, unixfd |-> 4, pagenum |-> 1]}
=============================================================================
