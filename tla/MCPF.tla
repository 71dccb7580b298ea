-------------------------------- MODULE MCPF --------------------------------
(***************************************************************************)
(* PF for TLC, any caller.  The name `short` is a prefix of `long`.  With  *)
(* four Unix files one is always left for a new file.                      *)
(***************************************************************************)
EXTENDS PF

CONSTANTS short, long, file1, file2, file3, file4, zero

MCPrefix == {<<short, short>>, <<long, long>>, <<short, long>>}

\* What a call can still find of entry fd: PF_AllocPage looks at entries out
\* of use too, but a full file takes no page.
Entry(fd) ==
  IF pf_table[fd].valid THEN pf_table[fd]
  ELSE IF pf_table[fd].numpages = MaxPages THEN [NewEntry EXCEPT !.numpages = MaxPages]
  ELSE [pf_table[fd] EXCEPT !.fname = NoName, !.offset = 0, !.hdrchanged = FALSE]

PagesOn(i) == [n \in PageNum |-> disk.data[<<i, n>>]]

\* What can still be read of a file through its name, and through a descriptor
\* that an entry or a buffered page remembers.
ByName(n) == IF dir[n] = NoInode THEN NoInode ELSE <<header[dir[n]], PagesOn(dir[n])>>

Remembered ==
  ({Entry(fd).unixfd : fd \in Fd} \cup {pool.page[f].unix_fd : f \in Frame}) \cap UnixFd

\* What is behind a descriptor; one that nobody remembers is just open.
Behind(u) ==
  LET i == disk.open[u] IN
  IF i = Closed \/ u \notin Remembered THEN i = Closed
  ELSE IF \E n \in Name : dir[n] = i THEN CHOOSE n \in Name : dir[n] = i
  ELSE <<{v \in Remembered : disk.open[v] = i}, PagesOn(i)>>

\* States that differ in rc, in which Unix file is which, or in what an
\* entry out of use and a file out of reach have left, behave alike.
Essence == <<pool, closing, [n \in Name |-> ByName(n)],
             [u \in 3..MaxUnixFd |-> Behind(u)], [fd \in Fd |-> Entry(fd)]>>
=============================================================================
