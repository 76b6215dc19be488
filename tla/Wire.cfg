SPECIFICATION Spec
CONSTANTS
  MAX = 6
  PTR = 2
  Answers <- SomeAnswers
  MaxQueries = 3
INVARIANT TypeOK
INVARIANT StaysInStep
INVARIANT WholeAnswer
PROPERTY Returns
CHECK_DEADLOCK FALSE
