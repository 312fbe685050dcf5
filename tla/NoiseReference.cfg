CONSTANTS
  NumTaps = 3
  AccLen = 2
  QueueCapacity = 1
  BatchIds = {1, 2, 3, 4, 5, 6, 7, 8, 9, 10, 11, 12, 13, 14, 15, 16, 17, 18, 19, 20,
              21, 22, 23, 24, 25, 26, 27, 28, 29, 30}
  StartIds = {1}
  Lossless = TRUE
  CalModes = {TRUE}
  BlockTime = 2
  Period = 20
  OnTime = 10
  BlankTime = 2
SPECIFICATION Spec
INVARIANTS ReferenceAtTransition
CHECK_DEADLOCK FALSE
