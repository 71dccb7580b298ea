SPECIFICATION FairSpec
CONSTANTS
  FANOUT = 4
  INT_MAX = 8191
  BYTE = 128
  MAXOPENFILES = 2
  indexA = indexA
  indexB = indexB
  r1 = r1
  r2 = r2
  Name = {indexA, indexB}
  NoName = NoName
  Missing = Missing
  Headless = Headless
  Value <- Values60
  RecId = {r1, r2}
  NoValue = NoValue
  NoId = NoId
  Op <- AllOps
  MaxEntries = 60
  MaxCopies = 2
  Limit <- MCLimit
  Bounds <- Large
INVARIANTS TypeOK SearchFinds LeavesLinked ParentsAgree
PROPERTIES ScansExact CallsReturn
