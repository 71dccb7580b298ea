SPECIFICATION Spec
CONSTANTS
  MAXOPENFILES = 2
  fileA = fileA
  fileB = fileB
  Name = {fileA}
  NoName = NoName
  Missing = Missing
  Headless = Headless
  NrRec = 1
  NoRec = NoRec
  Value = {0}
  INT_MAX = 1
  Conds <- MCConds
  NoId = NoId
  MaxPages = 2
INVARIANTS FreePageHasRoom
