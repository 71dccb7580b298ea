SPECIFICATION KSpec
CONSTANTS
  BF_MAX_BUFS = 1
  SHORT_MAX = 2
  MaxPins = 1
  PF_FTAB_SIZE = 1
  Fd = {0}
  UnixFd = {0, 1, 2, 3}
  PageNum = {0, 1, 2, 3}
  short = short
  long = long
  Name = {short, long}
  NoName = NoName
  Prefix <- MCPrefix
  file1 = file1
  file2 = file2
  Inode = {file1, file2}
  NoInode = NoInode
  Missing = Missing
  MaxUnixFd = 3
  MaxPages = 3
  Bounds <- MCBounds
  NoFd = NoFd
  zero = zero
  one = one
  Data = {zero, one}
  Zero = zero
  Absent = Absent
  Closed = Closed
INVARIANTS PagesReadable PinsAgree NoStalePages
PROPERTIES NextIsRightAfter EndsAtLastPage ImplementsFileStore
VIEW Essence
