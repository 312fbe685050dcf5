\* Three frames per batch so that a middle frame can be lost; five batches
\* over a pool of three, so that storage is used again in both modes.  The
\* monitor file may fail, after which the worker has returned and the stream
\* is silent for good.
CONSTANTS
  BatchSize = 3
  QueueCapacity = 1
  MaxPacketId = 14
  Modes = {TRUE, FALSE}
  MonitorEnabled = TRUE
  MonitorPeriod = 6
SPECIFICATION FairSpec
INVARIANTS TypeOK BatchOwnership ConsecutiveBatches ValidMeansComplete FixedCadence
PROPERTIES PublishedFrozen ImplementsBatchStream BlockedProducerResumes EveryBatchDelivered
CHECK_DEADLOCK FALSE
