SPECIFICATION FairSpec
CONSTANTS
  p1 = p1
  p2 = p2
  reusing = reusing
  plain = plain
  NoPod = NoPod
  PodIds = {p1, p2}
  Sessions = {reusing, plain}
  SessionOf <- MCSessionOf
  TimeoutSeconds <- MCTimeoutSeconds
  ReutilizeTimeoutSeconds <- MCReutilizeTimeoutSeconds
  ChurnKinds = {"register", "unregister", "spawn", "lost", "session"}
  FaultKinds = {"error", "lost", "restart"}
  MaxChurn = 3
  MaxFaults = 1
INVARIANTS
  TypeOK
  GCInv
PROPERTIES
  Patient
  RegistrationsEnd
CHECK_DEADLOCK FALSE
