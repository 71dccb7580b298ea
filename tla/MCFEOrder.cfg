SPECIFICATION AnySpec
CONSTANTS
  Table = {"s", "p", "t"}
  SEARCH_TMP_FILE_MARK = "_s_tmp"
  JOIN_TMP_FILE_MARK = "_j_tmp"
  NoTable = NoTable
  NoValue = NoValue
  BYTE = 8
  Same <- SameBytes
  Slot <- Slots4
  MaxCopies = 2
  RecId <- Ids1
  Bounds <- IndexBounds
INVARIANTS FlagsIndexes
