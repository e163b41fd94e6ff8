CONSTANTS
  Streams <- MCStreams
  QueueCapacity = 2
  QueueMemory = 2
  MaxBatch = 2
  MaxRebase = 1
  MaxChunks = 2
  MaxLines = 1
  MaxForeign = 1
  MaxFaults = 1
SPECIFICATION FairSpec
INVARIANTS
  Accounted
  CustomerOrdered
PROPERTIES
  FinishEnds
CHECK_DEADLOCK FALSE
