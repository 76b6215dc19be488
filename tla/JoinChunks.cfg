SPECIFICATION Spec
CONSTANTS
  Tables <- SomeTables
  Conds <- SomeConds
  Rooms = {1}
  BlockSize = 3
INVARIANT JoinExact
CHECK_DEADLOCK FALSE
