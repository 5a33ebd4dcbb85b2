SPECIFICATION TimelySpec
CONSTANTS
  Holders = {h1, h2, h3}
  None = None
  LeaseDuration = 2
  MaxSkew = 1
  MaxTime = 4
  MaxFaults = 1
SYMMETRY Symmetry
INVARIANTS
  AtMostOneLeader
CHECK_DEADLOCK FALSE
