SPECIFICATION CSpec
CONSTANTS
  BF_MAX_BUFS = 2
  SHORT_MAX = 2
  MaxPins = 2
  zero = zero
  one = one
  Data <- MCData
  Zero = zero
  Absent = Absent
  Closed = Closed
  fileA = fileA
  fileB = fileB
  File = {fileA, fileB}
  OpenFiles <- MCOpenFiles
  Fd = {0, 1}
  UnixFd = {3, 4}
  PageNum = {1, 2}
  Reqs <- MCReqs
  NoFd = NoFd
  READ_FAILS = FALSE
  WRITE_FAILS = FALSE
INVARIANTS PointersValid CleanIsOnDisk LruIsRecency NoFrameLost
PROPERTIES EvictsLeastRecent NoMemOnlyWhenBusy ImplementsPagedStore
VIEW NoRc
