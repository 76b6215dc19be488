SPECIFICATION CSpec
CONSTANTS
  NoTable = NoTable
  tb1 = tb1
  tb2 = tb2
  Names <- TwoNames
  MaxBlocks = 8
  BlockSize = 425
  ColumnCounts <- OneThreeOrFour
  RecordSlots <- TwoOrThreeRows
  FileBound <- SmallFiles
  Calls <- AllCalls
INVARIANT TypeOK
INVARIANT SchemaChain
INVARIANT FreeChain
INVARIANT BlocksAccounted
INVARIANT SavedHeader
 
INVARIANT CallersRowsCounted
INVARIANT CallersRecordsOwned
PROPERTY CallersKeepCatalog
CHECK_DEADLOCK FALSE
