-------------------------------- MODULE MCHF -------------------------------
(***************************************************************************)
(* HF for TLC, any caller: the shortest ways to a wrong state.             *)
(***************************************************************************)
EXTENDS HF

CONSTANTS fileA, fileB

MCConds == {[op |-> ALL_OP, value |-> 0]}
=============================================================================
