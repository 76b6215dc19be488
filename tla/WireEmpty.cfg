SPECIFICATION Spec
CONSTANTS
  MAX = 6
  PTR = 2
  Answers <- SomeAnswers
  MaxQueries = 2
INVARIANT WholeReadsStayInStep
CHECK_DEADLOCK FALSE
