SPECIFICATION Spec
CONSTANTS
  c1 = c1
  c2 = c2
  c3 = c3
  t1 = t1
  t2 = t2
  s1 = s1
  s2 = s2
  NoHash = NoHash
  Clients = {c1}
  PodIds = {1, 2}
  SessionPods = {}
  Templates = {t1}
  TemplateOf <- MCTemplateOf
  MaxClients <- OnePerPod
  TimeoutSeconds = 5
  UuidCollides = FALSE
  InitialIps <- WithIp
  EditKinds <- Flapping
  ChurnKinds = {}
  FaultKinds = {}
  MaxEdits = 4
  MaxChurn = 0
  MaxFaults = 0
  MaxTime = 1
INVARIANTS
  SettledStatus
CHECK_DEADLOCK FALSE
