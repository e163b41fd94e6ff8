SPECIFICATION LifecycleSpec
CONSTANTS
  FetchAttempts = 2
  BringUpAttempts = 3
  MaxEvents = 2
  Jitters = {0, 250}
  Slots = {"web", "cmd"}
  Boots <- MCBoots
  ProbeOf <- MCProbeOf
INVARIANTS SetupSafe
PROPERTIES CallerAnswered CancelledConnectorEnds RefusalsBackOff ReportsAlternate
