SPECIFICATION Spec
CONSTANTS
  ChNum = 1
  MaxRequest = 2
  MaxJoin = 1
INVARIANT NoStaleReport
CHECK_DEADLOCK FALSE
