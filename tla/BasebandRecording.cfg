\* A capacity that is not a power of two; slot counters that wrap around; payloads of a vector and a tail;
\* two batches per part.
CONSTANTS
  Capacity = 3
  IndexRange = 4
  HeaderSize = 2
  LengthUnit = 2
  FramesPerSecond = 3
  VectorBytes = 6
  BatchSize = 2
  FramePayload = 8
  IovMax = 3
  MaxFileSize = 40
  BitDepths = {8, 4, 2}
  StreamThread = 5
  LostIds = {3}
  MaxBatches = 5
  Cuts = {1, 5}
  MaxFaults = 2
SPECIFICATION Spec
INVARIANTS TypeOK NothingShared WholeFrames VoltagesKept
PROPERTIES RecordedStays EveryBatchRecorded ImplementsBoundedQueue
CHECK_DEADLOCK FALSE
