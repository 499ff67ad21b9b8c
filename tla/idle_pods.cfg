SPECIFICATION BothFair
CONSTANTS
  c1 = c1
  c2 = c2
  t1 = t1
  s1 = s1
  NoHash = NoHash
  NoPod = NoPod
  Clients = {c1}
  PodIds = {1, 2}
  SessionPods = {}
  Templates = {t1}
  TemplateOf <- MCTemplateOf
  MaxClients <- OnePerPod
  TimeoutSeconds = 0
  ReutilizeTimeoutSeconds = 0
  UuidCollides = FALSE
  InitialIps <- WithIp
  EditKinds <- JoinsThenLeaves
  ChurnKinds = {}
  FaultKinds = {}
  MaxEdits = 2
  MaxChurn = 0
  MaxFaults = 0
  MaxTime = 0
PROPERTIES
  IdlePodsEnd
CHECK_DEADLOCK FALSE
