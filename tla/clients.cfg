SPECIFICATION Spec
CONSTANTS
  c1 = c1
  c2 = c2
  c3 = c3
  t1 = t1
  t2 = t2
  s1 = s1
  s2 = s2
  NoHash = NoHash
  Clients = {c1, c2}
  PodIds = {1, 2}
  SessionPods = {}
  Templates = {t1}
  TemplateOf <- MCTemplateOf
  MaxClients <- NonePerPod
  TimeoutSeconds = 1
  UuidCollides = FALSE
  InitialIps <- WithIp
  EditKinds <- AllEdits
  ChurnKinds = {"pod", "condition"}
  FaultKinds = {"error", "lost", "restart"}
  MaxEdits = 3
  MaxChurn = 1
  MaxFaults = 1
  MaxTime = 1
SYMMETRY ClientSymmetry
INVARIANTS
  TypeOK
  Capacity
  PodsRecorded
  IInv
  ComputedInv
PROPERTIES
  KeepsPods
  SpecUntouched
  AtomicReconcile
CHECK_DEADLOCK FALSE
