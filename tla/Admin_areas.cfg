CONSTANTS
  None = None
  Blank = Blank
  Actors = {a1, a2}
  Texts = {t1, t2}
SPECIFICATION Spec
SYMMETRY Symmetry
CHECK_DEADLOCK FALSE
INVARIANTS
  CountersFollowStore
  OrderIsFirstByName
  ProcessIsOrdered
  
  PodsAreShown
  CatalogIsComplete
  ArgumentsArriveExact
  CallsRepeatOnlyAfterLoss
  SearchesAreExact
  
  
  
  
  
  BackendsAgree
  EventsMeetSubscribers
  NodesAreMirrored
PROPERTIES
  SettingsAreKept
  
  
