SPECIFICATION Spec
CONSTANTS
  Values = {1, 2}
  Slots = 2
  MaxBlocks = 5
  MaxRows = 5
  Recycled = {TRUE, FALSE}
  OrderlyDeletes = TRUE
INVARIANT TypeOK
INVARIANT BlocksOnce
INVARIANT RowsCounted
INVARIANT SelectExact
PROPERTY RowsKept
PROPERTY Returns
CHECK_DEADLOCK FALSE
