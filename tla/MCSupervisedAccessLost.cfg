CONSTANTS
  term = term
  hup = hup
  k1 = k1
  Signals <- MCSignal
  Kids = {}
  Kill = kill
  Codes = {c1}
  MaxRestarts = 1
  Horizon = 1
  FinalRunway = 0
  StabilityReset = 1
  SignalGrace = 1
  CleanupGrace = 1
  BackoffBase = 2
  BackoffCap = 2
  MaxExponent = 0
  MaxFaults = 0
  MaxRespawns = 1
SPECIFICATION FairAccessSpec
PROPERTY DeathNoticed
CHECK_DEADLOCK FALSE
