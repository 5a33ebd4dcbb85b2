SPECIFICATION FairSpec
CONSTANTS
  Holders = {h1, h2}
  None = None
  LeaseDuration = 2
  MaxSkew = 1
  MaxTime = 5
  MaxFaults = 2
INVARIANTS
  LeaderKnowsItsLease
PROPERTIES
  LeaseIsFenced
  LeadershipRecovers
CHECK_DEADLOCK FALSE
