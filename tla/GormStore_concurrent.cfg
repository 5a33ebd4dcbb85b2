SPECIFICATION Spec
CONSTANTS
  a = a
  b = b
  x = x
  y = y
  n = n
  None = None
  Writers = {w1, w2}
  Readers = {r1}
  Starters = {s1}
  Keys = {1, 2}
  Resources = {a, b}
  IndexValues = {x, y, n}
  IndexFuncs <- Indexers
  Requests <- SomeRequests
  Pages <- FirstAndSecond
CHECK_DEADLOCK FALSE
INVARIANTS
  IndexAgrees
  QueriesAreExact
