CONSTANTS
  NumTaps = 2
  AccLen = 2
  MaxBlocks = 5
SPECIFICATION Spec
INVARIANTS HeadIsOldest
CHECK_DEADLOCK FALSE
