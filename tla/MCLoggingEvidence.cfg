CONSTANTS
  Streams <- MCOneStream
  QueueCapacity = 2
  QueueMemory = 2
  MaxBatch = 2
  MaxRebase = 1
  MaxChunks = 2
  MaxLines = 1
  MaxForeign = 0
  MaxFaults = 0
SPECIFICATION Spec
INVARIANT EvidenceKept
CHECK_DEADLOCK FALSE
