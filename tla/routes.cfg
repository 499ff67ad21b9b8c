SPECIFICATION FairSpec
CONSTANTS
  p1 = p1
  p2 = p2
  PodNames = {p1, p2}
  MaxPods = 2
  MaxKeys = 2
  FaultKinds = {"error", "lost", "restart"}
  MaxFaults = 1
INVARIANTS TypeOK NetworkInv SettledServices SettledRoutes
PROPERTIES KeepsRoutes PodsServed
CHECK_DEADLOCK FALSE
