\* Two physical subbands instead of four, with two queues per subband on each
\* of the two ports.
CONSTANTS
  Pairs = 2
  Servers = 2
  SamplingRate = 16
  SamplesPerPacket = 2
  MinNfft = 4
  MaxNfft = 32
  BasebandNfft <- MCBasebandNfft
  PacketBytes = 1
  MaxQueueMb = 2
  Cases <- MCCases
  QueuesPerPort = 4
  StartDestPort = 60000
  OtherDest = 9
  MaxLcore = 16
  MaxArrivals = 1
SPECIFICATION Spec
INVARIANT StreamRouting
INVARIANT ConsumerAnnounced
INVARIANT NothingClashes
PROPERTY StartupEnds
CHECK_DEADLOCK FALSE
