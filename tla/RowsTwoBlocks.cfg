SPECIFICATION Spec
CONSTANTS
  Values = {1, 2}
  Slots = 2
  MaxBlocks = 5
  MaxRows = 5
  Recycled = {FALSE}
  OrderlyDeletes = FALSE
PROPERTY RowsKept
CHECK_DEADLOCK FALSE
