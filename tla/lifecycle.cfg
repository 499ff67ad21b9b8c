SPECIFICATION Spec
CONSTANTS
  c1 = c1
  c2 = c2
  c3 = c3
  t1 = t1
  t2 = t2
  s1 = s1
  s2 = s2
  NoHash = NoHash
  Clients = {c1, c2, c3}
  PodIds = {1, 2}
  SessionPods = {}
  Templates = {t1}
  TemplateOf <- MCTemplateOf
  MaxClients <- TwoPerPod
  TimeoutSeconds = 1
  UuidCollides = FALSE
  InitialIps <- WithIp
  EditKinds <- JoinsThenDrops
  ChurnKinds = {"pod"}
  FaultKinds = {"lost", "restart"}
  MaxEdits = 4
  MaxChurn = 1
  MaxFaults = 1
  MaxTime = 1
SYMMETRY ClientSymmetry
INVARIANTS
  Capacity
  SettledInv
  SettledStatus
PROPERTIES
  KeepsPods
CHECK_DEADLOCK FALSE
