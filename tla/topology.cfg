SPECIFICATION Spec
CONSTANTS
  c1 = c1
  c2 = c2
  c3 = c3
  t1 = t1
  t2 = t2
  s1 = s1
  s2 = s2
  NoHash = NoHash
  Clients = {c1}
  PodIds = {1, 2}
  SessionPods = {s1, s2}
  Templates = {t1, t2}
  TemplateOf <- MCTemplateOf
  MaxClients <- OnePerPod
  TimeoutSeconds = 1
  UuidCollides = FALSE
  InitialIps <- EitherIp
  EditKinds <- JoinsThenDrops
  ChurnKinds = {"pod", "registration", "condition", "ip"}
  FaultKinds = {"error", "restart"}
  MaxEdits = 2
  MaxChurn = 1
  MaxFaults = 1
  MaxTime = 0
INVARIANTS
  IInv
  RestoredInv
  SettledSessionPods
  SettledStatus
CHECK_DEADLOCK FALSE
