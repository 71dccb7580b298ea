SPECIFICATION ASpec
CONSTANTS
  FANOUT = 4
  INT_MAX = 511
  BYTE = 32
  MAXOPENFILES = 2
  indexA = indexA
  indexB = indexB
  r1 = r1
  r2 = r2
  Name = {indexA, indexB}
  NoName = NoName
  Missing = Missing
  Headless = Headless
  Value = {1, 2, 3, 4}
  RecId = {r1, r2}
  NoValue = NoValue
  NoId = NoId
  Op <- AllOps
  MaxEntries = 7
  MaxCopies = 2
  Limit <- MCLimit
  Bounds <- Small
INVARIANTS SearchFinds EntryOwnsFile
PROPERTIES ScansExact ImplementsIndexStore
VIEW Essence
SYMMETRY Ids
