\* Two windows, one of them with a Writer that can be reached; results before,
\* in and after the leap second of the older epoch; room for two rows.
CONSTANTS
  w1 = w1
  w2 = w2
  Windows = {w1, w2}
  Bands = {w1, w2}
  Reachable = {w1}
  WindowOrder <- MCOrder
  RowBytes = 4
  MaxQueueBytes = 8
  FlushRows = 2
  MaxFaults = 1
  SendHwm = 1
  MaxDisconnects = 1
  FramesPerSecond = 4
  EpochUnixSec <- MCEpochs
  LeapEffective <- MCLeaps
  NumTaps = 4
  FftSize = 6
  SamplingRate = 16
  ArmedEpoch <- MCArmed
  FirstPacket <- MCPackets
  MaxResults = 3
  MaxSessions = 2
SPECIFICATION Spec
INVARIANTS RowsInOrder RowTimesCorrect
PROPERTIES GapsCountLosses FlushedRowsStay QueueIsServed
CHECK_DEADLOCK FALSE
