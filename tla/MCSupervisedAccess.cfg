CONSTANTS
  term = term
  hup = hup
  k1 = k1
  Signals <- MCSignals
  Kids <- MCKids
  Kill = kill
  Codes = {c1}
  MaxRestarts = 1
  Horizon = 4
  FinalRunway = 1
  StabilityReset = 2
  SignalGrace = 1
  CleanupGrace = 1
  BackoffBase = 2
  BackoffCap = 4
  MaxExponent = 1
  MaxFaults = 1
  MaxRespawns = 1
SPECIFICATION MCSpec
INVARIANTS
  StartsSafe
  ExactExit
  ScheduleKept
  SessionSafe
PROPERTIES
  SignalStops
  EndHandled
  SingleSidecar
  Spec
  ConnectorEndNoticed
CHECK_DEADLOCK FALSE
