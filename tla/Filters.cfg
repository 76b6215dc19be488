SPECIFICATION Spec
CONSTANTS
  Rows <- MCRows
  Lists <- MCLists
  Loops <- BothLoops
INVARIANT TypeOK
INVARIANT JoinMeaning
INVARIANT TableMeaning
CHECK_DEADLOCK FALSE
