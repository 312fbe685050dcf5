CONSTANTS
  NumSlots = 2
  AccLen = 2
  NumWindows = 1
  CalModes = {FALSE}
  MaxTime = 7
SPECIFICATION Spec
PROPERTIES SenderReadsImmutable
CHECK_DEADLOCK FALSE
