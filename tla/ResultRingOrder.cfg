\* Two slots, so that the ring wraps and is overrun.
CONSTANTS
  NumSlots = 2
  AccLen = 2
  NumWindows = 2
  CalModes = {TRUE, FALSE}
  MaxTime = 7
SPECIFICATION FairSpec
INVARIANTS TypeOK RowsDescribeData SentInOrder
PROPERTIES OverrunOnlyWhenFull PublishedIsSent
CHECK_DEADLOCK FALSE
