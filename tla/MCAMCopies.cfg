SPECIFICATION AnySpec
CONSTANTS
  FANOUT = 4
  INT_MAX = 511
  BYTE = 32
  MAXOPENFILES = 2
  indexA = indexA
  indexB = indexB
  r1 = r1
  r2 = r2
  Name = {indexA, indexB}
  NoName = NoName
  Missing = Missing
  Headless = Headless
  Value = {0, 1, 2}
  RecId = {r1, r2}
  NoValue = NoValue
  NoId = NoId
  Op <- AllOps
  MaxEntries = 9
  MaxCopies = 4
  Limit <- MCLimit
  Bounds <- Copied4
INVARIANTS SearchFinds
VIEW Essence
