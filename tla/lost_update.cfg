SPECIFICATION Spec
CONSTANTS
  k1 = k1
  k2 = k2
  n1 = n1
  a = a
  b = b
  h1 = h1
  h2 = h2
  None = None
  Clusters = {k1}
  Names = {n1}
  ClientIds = {a, b}
  Handlers = {h1, h2}
  WithSessionPods = {}
  NamesCollide = FALSE
  MaxRequests = 2
  FaultKinds = {}
  MaxFaults = 0
INVARIANTS
  AskedFor
CHECK_DEADLOCK FALSE
