CONSTANTS
  MaxAttempts = 3
  MaxElapsed = 6
  InitialDelay = 1
  Interval = 2
  IdentityTime = 3
  SignTime = 1
  HttpTime = 2
  BodyTtl = 6
  MaxPeers = 2
  MaxServices = 1
  MaxEndpoints = 1
  SecretIds <- MCSecretIds
  SignedEnvs <- MCSignedEnvs
  Keys <- MCKeys
  Lockboxes <- MCLockboxes
  Payloads <- MCPayloads
  Processors <- MCProcessors
  Snapshots <- MCSnapshots
  c1 = c1
  c2 = c2
  Files <- MCFiles
  Versions <- MCContents
  Absent = absent
  Partial = partial
  MaxBoots = 3
  MaxFaults = 2
SPECIFICATION MCSpec
INVARIANTS
  ProtectedStayOut
