SPECIFICATION FairSpec
CONSTANTS
  c1 = c1
  c2 = c2
  c3 = c3
  t1 = t1
  t2 = t2
  s1 = s1
  s2 = s2
  NoHash = NoHash
  Clients = {c1, c2}
  PodIds = {1, 2}
  SessionPods = {s1}
  Templates = {t1}
  TemplateOf <- MCTemplateOf
  MaxClients <- TwoPerPod
  TimeoutSeconds = 1
  UuidCollides = FALSE
  InitialIps <- EitherIp
  EditKinds <- Joins
  ChurnKinds = {"pod", "session", "ip"}
  FaultKinds = {"error", "lost", "restart"}
  MaxEdits = 2
  MaxChurn = 1
  MaxFaults = 1
  MaxTime = 0
PROPERTIES
  JoinServed
  SessionPodsRestored
CHECK_DEADLOCK FALSE
