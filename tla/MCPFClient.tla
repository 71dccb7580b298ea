----------------------------- MODULE MCPFClient -----------------------------
(***************************************************************************)
(* PFClient for TLC: one table entry that two files take turns in, of two  *)
(* pages or three each, so that an entry, a Unix descriptor and the one    *)
(* frame are reused by the other file, every get evicts, and a page that   *)
(* is still pinned makes the next get fail.                                *)
(***************************************************************************)
EXTENDS PFClient

CONSTANTS short, long, file1, file2, zero, one

\* A file by what its name leads to.  Destroyed files are never open here.
ByName(n) ==
  IF dir[n] = NoInode THEN NoInode
  ELSE <<header[dir[n]], [k \in PageNum |-> disk.data[<<dir[n], k>>]],
         {u \in UnixFd : disk.open[u] = dir[n]}>>

\* States that differ in rc and boot, in which Unix file is which, or in what
\* an entry out of use and a destroyed file have left, behave alike.  TypeOK is
\* TRUE; it has TLC evaluate the functions that the view takes apart.
Essence == <<TypeOK, pool, closing, bound, pins, use, at, again, [n \in Name |-> ByName(n)],
             [fd \in OpenFds |-> pf_table[fd]]>>

MCBounds == {[pages |-> 2, data |-> {zero, one}], [pages |-> 3, data |-> {zero}]}
MCPrefix == {<<short, short>>, <<long, long>>, <<short, long>>}
=============================================================================
