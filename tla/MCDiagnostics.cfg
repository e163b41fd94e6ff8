CONSTANTS
  Capacity = 2
  MaxTries = 2
  MaxChildren = 2
  MaxReports = 2
  MaxObserved = 2
  MaxFaults = 1
SPECIFICATION FairSpec
INVARIANTS
  OneSequence
  OfThisChild
PROPERTIES
  DirectoryForward
  DropEnds
CHECK_DEADLOCK FALSE
