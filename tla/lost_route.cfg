SPECIFICATION Spec
CONSTANTS
  p1 = p1
  p2 = p2
  PodNames = {p1, p2}
  MaxPods = 2
  MaxKeys = 2
  FaultKinds = {}
  MaxFaults = 0
INVARIANTS EveryPodRouted
CHECK_DEADLOCK FALSE
