SPECIFICATION Spec
CONSTANTS
  Tables <- SomeTables
  Conds <- SomeConds
  Rooms = {1, 2, 9}
  BlockSize = 3
INVARIANT TypeOK
INVARIANT JoinSound
INVARIANT JoinExactInOneCall
PROPERTY Returns
CHECK_DEADLOCK FALSE
