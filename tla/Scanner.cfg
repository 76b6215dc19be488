SPECIFICATION Spec
CONSTANTS
  Bytes <- AllBytes
INVARIANT TypeOK
INVARIANT LongestMatch
CHECK_DEADLOCK FALSE
