SPECIFICATION LifecycleSpec
CONSTANTS
  Holders = {h1}
  None = None
  LeaseDuration = 1
  MaxSkew = 0
  MaxTime = 3
  MaxFaults = 1
  Informers = {i1}
  MaxTerms = 2
INVARIANTS
  SettledLeaderWatches
CHECK_DEADLOCK FALSE
