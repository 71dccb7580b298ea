SPECIFICATION Spec
CONSTANTS
  BF_MAX_BUFS = 1
  SHORT_MAX = 1
  PF_FTAB_SIZE = 2
  Fd = {0, 1}
  UnixFd = {0, 1, 2, 3, 4, 5}
  PageNum = {0, 1}
  short = short
  long = long
  Name = {short, long}
  NoName = NoName
  Prefix <- MCPrefix
  file1 = file1
  file2 = file2
  file3 = file3
  file4 = file4
  Inode = {file1, file2, file3, file4}
  NoInode = NoInode
  MaxUnixFd = 5
  MaxPages = 1
  NoFd = NoFd
  zero = zero
  Data = {zero}
  Zero = zero
  Absent = Absent
  Closed = Closed
INVARIANTS TypeOK EntriesApart
VIEW Essence
