SPECIFICATION Spec
CONSTANTS
  k1 = k1
  k2 = k2
  n1 = n1
  a = a
  b = b
  h1 = h1
  h2 = h2
  None = None
  Clusters = {k1, k2}
  Names = {n1}
  ClientIds = {a, b}
  Handlers = {h1, h2}
  WithSessionPods = {n1}
  NamesCollide = FALSE
  MaxRequests = 3
  FaultKinds = {"error", "lost", "restart"}
  MaxFaults = 1
SYMMETRY ManagerSymmetry
INVARIANTS
  TypeOK
  ManagerInv
  PromisesInv
  LastWord
  CreatedEverywhere
  DeletedForGood
  FoundWhereItIs
  SeenWhole
CHECK_DEADLOCK FALSE
