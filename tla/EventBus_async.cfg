SPECIFICATION FairSpec
CONSTANTS
  s1 = s1
  s2 = s2
  s3 = s3
  p1 = p1
  k1 = k1
  k2 = k2
  NoKind = NoKind
  Senders = {p1}
  Subscribers = {s1, s2, s3}
  Kinds = {k1, k2}
  KindOf <- KindOfThread
  Emits <- EmittedBy
  AsyncEnabled = {s1, s2}
  BufferSize = 2
  MaxEvents = 3
PROPERTIES
  BusDelivers
  BusReturns
CHECK_DEADLOCK FALSE
