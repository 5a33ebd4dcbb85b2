SPECIFICATION FairSpec
CONSTANTS
  m1 = m1
  m2 = m2
  b1 = b1
  b2 = b2
  r1 = r1
  r2 = r2
  Nobody = Nobody
  Mutations = {m1, m2}
  Bootstraps = {b1, b2}
  Replicas = {r1, r2}
  Replica <- ReplicaOf
  MaxVersions = 1
  MaxAttempts = 2
  MaxFaults = 1
INVARIANTS
  OneEntryPerMutation
PROPERTIES
  NumberingIsSafe
  RetentionHeals
  CallsEnd
CHECK_DEADLOCK FALSE
