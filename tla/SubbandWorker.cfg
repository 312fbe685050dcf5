CONSTANTS
  NumTaps = 2
  AccLen = 2
  QueueCapacity = 1
  BatchIds = {1, 2, 3, 4, 5, 6, 7, 8}
  StartIds = {1, 2, 3}
  Lossless = FALSE
  CalModes = {TRUE, FALSE}
  BlockTime = 1
  Period = 4
  OnTime = 2
  BlankTime = 0
SPECIFICATION FairSpec
INVARIANTS TypeOK AlignedForGood IntegrationExact NoGapInside NoOutputTwice
PROPERTIES PairsProcessed
CHECK_DEADLOCK FALSE
