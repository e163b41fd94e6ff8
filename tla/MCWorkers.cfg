SPECIFICATION WorkersSpec
CONSTANTS
  MaxRespawns = 3
  Conns = {1, 2}
  MaxJobs = 2
  Lifetime = 10
  Tolerance = 1
  Reserve = 8
  SampleMax = 6
  InboundMax = 2
  AttemptMax = 1
  MaxNow = 12
  Durations = {1, 3, 13}
  Packets = 2
  Nodes = {1, 2}
  Cpus = {0, 1, 2, 3}
  ListPlace <- MCListPlace
  MaxCaches = 2
  MaxRoutes = 2
  MaxHeaders = 2
  MaxDepth = 3
  MaxCandidates = 1
  MaxWrites = 1
  MaxFaults = 1
  Size = 2
  MaxAttempts = 3
  MaxElapsed = 4
  Validity = 2
  MaxWall = 5
  MaxBeats = 3
  MaxZones = 3
  MaxPids = 3
  MaxWire = 8
  Sentinel <- MCSentinel
  Hosts <- MCHosts
  Grants <- MCGrants
  Devices <- MCDevices
  Texts <- MCTexts
  Contexts <- MCContexts
INVARIANTS
  BudgetsKept
  GrantsSpentOnce
  SampleAdmitted
  ReadingsExact
  TextsExact
  SnapshotSafe
  PayloadSafe
PROPERTIES
  JobsEnd
CHECK_DEADLOCK FALSE
