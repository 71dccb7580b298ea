SPECIFICATION HSpec
CONSTANTS
  MAXOPENFILES = 2
  fileA = fileA
  fileB = fileB
  Name = {fileA, fileB}
  NoName = NoName
  Missing = Missing
  Headless = Headless
  NrRec = 2
  NoRec = NoRec
  Value = {0, 1}
  INT_MAX = 1
  Conds <- MCConds
  NoId = NoId
  MaxPages = 2
  Bounds <- MCBounds
INVARIANTS TypeOK CountsAgree EntryOwnsFile
PROPERTIES ScansExact ImplementsRecordStore
VIEW NoRes
