SPECIFICATION BothSpec
CONSTANTS
  c1 = c1
  c2 = c2
  t1 = t1
  s1 = s1
  NoHash = NoHash
  NoPod = NoPod
  Clients = {c1, c2}
  PodIds = {1}
  SessionPods = {}
  Templates = {t1}
  TemplateOf <- MCTemplateOf
  MaxClients <- TwoPerPod
  TimeoutSeconds = 0
  ReutilizeTimeoutSeconds = 0
  UuidCollides = TRUE
  InitialIps <- WithIp
  EditKinds <- JoinsThenDrops
  ChurnKinds = {}
  FaultKinds = {}
  MaxEdits = 3
  MaxChurn = 0
  MaxFaults = 0
  MaxTime = 0
SYMMETRY ClientSymmetry
INVARIANTS
  CollectorInv
  SettledStatus
CHECK_DEADLOCK FALSE
