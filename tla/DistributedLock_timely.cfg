SPECIFICATION TimelyFairSpec
CONSTANTS
  c1 = c1
  c2 = c2
  c3 = c3
  p1 = p1
  p2 = p2
  Processes = {p1, p2}
  Owner <- OwnerOf
  Free = Free
  TTL = 2
  MaxSkew = 0
  MaxTime = 3
  MaxFaults = 1
  Calls = {c1, c2, c3}
PROPERTIES
  ImplementsMutex
  LiveLockIsSafe
  WaiterProceeds
CHECK_DEADLOCK FALSE
