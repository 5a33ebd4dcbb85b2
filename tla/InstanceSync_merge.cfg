SPECIFICATION Spec
CONSTANTS
  k1 = k1
  k2 = k2
  p1 = p1
  p2 = p2
  None = None
  Keys = {k1, k2}
  Pods = {p1, p2}
  Ip <- Addresses
  PodIp <- PodAddresses
  PodKey <- Labels
  RpcData = {t, u}
  Timed = {t}
  RtData = {d}
  Metas = {provider}
  MaxNotices = 2
  MaxPodEvents = 2
  MaxMetas = 1
CHECK_DEADLOCK FALSE
INVARIANTS
  SourcesShown
  
