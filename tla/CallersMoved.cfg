SPECIFICATION CSpec
CONSTANTS
  NoTable = NoTable
  tb1 = tb1
  tb2 = tb2
  Names <- TwoNames
  MaxBlocks = 8
  BlockSize = 425
  ColumnCounts <- OneThreeOrFour
  RecordSlots <- TwoOrThreeRows
  FileBound <- SmallFiles
  Calls <- AllCalls
PROPERTY InsertKeepsCatalog
CHECK_DEADLOCK FALSE
