CONSTANTS
  NumTaps = 2
  AccLen = 2
  MaxBlocks = 5
SPECIFICATION Spec
INVARIANTS OutputsExact ResultComplete
PROPERTIES DrainedWhenPublished
CHECK_DEADLOCK FALSE
