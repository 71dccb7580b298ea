----------------------------- MODULE MCHFClient ----------------------------
(***************************************************************************)
(* HFClient for TLC: one file of two pages with two records each, or two   *)
(* files of one page with two scans; scans for all records and for those   *)
(* below 1.                                                                *)
(***************************************************************************)
EXTENDS HFClient

CONSTANTS fileA, fileB

\* No action and no property reads the res of an earlier call.
NoRes == <<file, pf_table, hf_table, hf_scan_table, bound, due, seen>>

MCBounds == {[names |-> {fileA}, pages |-> 2, records |-> 4, scans |-> 1],
           [names |-> {fileA, fileB}, pages |-> 1, records |-> 1, scans |-> 2]}
MCConds == {[op |-> ALL_OP, value |-> 0], [op |-> LT_OP, value |-> 1]}
=============================================================================
