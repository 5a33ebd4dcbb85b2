SPECIFICATION FairLifecycleSpec
CONSTANTS
  Holders = {h1}
  None = None
  LeaseDuration = 1
  MaxSkew = 0
  MaxTime = 3
  MaxFaults = 1
  Informers = {i1, i2}
  MaxTerms = 2

  
PROPERTIES
  TermsTakeEffect
CHECK_DEADLOCK FALSE
