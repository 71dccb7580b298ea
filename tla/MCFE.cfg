SPECIFICATION CSpec
CONSTANTS
  Table = {"s", "p", "t"}
  SEARCH_TMP_FILE_MARK = "_s_tmp"
  JOIN_TMP_FILE_MARK = "_j_tmp"
  NoTable = NoTable
  NoValue = NoValue
  BYTE = 8
  Same <- SameBytes
  Slot <- Slots10
  MaxCopies = 2
  RecId <- Ids4
  Bounds <- TablesQueries
INVARIANTS CountsIndexes FlagsIndexes IndexesAgree
PROPERTIES ImplementsRelations
VIEW NoDid
