----------------------- MODULE SessionControllerProofs -----------------------
(***************************************************************************)
(* What SessionController computes and the types of its variables, for     *)
(* every value of its constants.                                           *)
(***************************************************************************)
EXTENDS SessionController, TLAPS

---------------------------------------------------------------------------
(* The operators of ClientPods: the type of a status, and who is allocated *)
(* which pods.                                                             *)

USE DEF defaultTime, Absent

StatusFields ==
  [seen : [Clients -> Int], alloc : [Clients -> SUBSET PodIds],
   external : [Clients -> SUBSET PodIds],
   ready : SUBSET PodIds, podsStatus : {"unset", "false", "true"},
   cond : {"unset", "True", "False", "Unknown"}, condAt : Int]

(* The fields of a status and the two conditions that tie them together.   *)
LEMMA StatusTypeIs ==
  \A status : status \in StatusType <=>
     /\ status \in StatusFields
     /\ \A c \in Clients : /\ status.external[c] \subseteq status.alloc[c]
                           /\ status.seen[c] = Absent => status.alloc[c] = {}
BY DEF StatusType, StatusFields

(* A session starts with a status without entries.                         *)
LEMMA NewStatusType == NewStatus \in StatusType /\ AllocatedPods(NewStatus) = {}
BY StatusTypeIs DEF NewStatus, StatusFields, AllocatedPods

(* Taking clients out of a status leaves a status that names fewer pods.   *)
LEMMA ForgetType ==
  ASSUME NEW status \in StatusType, NEW gone
  PROVE  /\ Forget(status, gone) \in StatusType
         /\ AllocatedPods(Forget(status, gone)) \subseteq AllocatedPods(status)
<1> DEFINE after == Forget(status, gone)
<1>1. status \in StatusFields
  BY StatusTypeIs
<1> DEFINE seen == [c \in Clients |-> IF c \in gone THEN Absent ELSE status.seen[c]]
           alloc == [c \in Clients |-> IF c \in gone THEN {} ELSE status.alloc[c]]
           external == [c \in Clients |-> IF c \in gone THEN {} ELSE status.external[c]]
<1>2. /\ seen \in [Clients -> Int] /\ alloc \in [Clients -> SUBSET PodIds]
      /\ external \in [Clients -> SUBSET PodIds]
  BY <1>1 DEF StatusFields
<1>3. after = [status EXCEPT !.seen = seen, !.alloc = alloc, !.external = external]
  BY DEF Forget
<1>4. after \in StatusFields
  <2> HIDE DEF seen, alloc, external, after
  <2> QED
    BY <1>1, <1>2, <1>3 DEF StatusFields
<1>5. \A c \in Clients :
         /\ after.seen[c] = IF c \in gone THEN Absent ELSE status.seen[c]
         /\ after.alloc[c] = IF c \in gone THEN {} ELSE status.alloc[c]
         /\ after.external[c] = IF c \in gone THEN {} ELSE status.external[c]
  BY <1>1 DEF Forget, StatusFields
<1>6. after \in StatusType
  BY <1>4, <1>5, StatusTypeIs
<1>7. AllocatedPods(after) \subseteq AllocatedPods(status)
  BY <1>5 DEF AllocatedPods
<1> QED
  BY <1>6, <1>7

(* Stamping lost connections and clearing the stamps of reconnected        *)
(* clients moves no pod.                                                   *)
LEMMA HandleClientChangesType ==
  ASSUME NEW status \in StatusType, NEW clients, NEW now \in Int, now # Absent
  PROVE  /\ handleClientChanges(now, clients, status) \in StatusType
         /\ handleClientChanges(now, clients, status).alloc = status.alloc
         /\ \A c \in Clients :
               handleClientChanges(now, clients, status).seen[c] = Absent
                  <=> status.seen[c] = Absent
<1> DEFINE after == handleClientChanges(now, clients, status)
<1>1. status \in StatusFields
  BY StatusTypeIs
<1>2. /\ after.alloc = status.alloc /\ after.external = status.external
      /\ \A c \in Clients :
            after.seen[c] =
               IF status.seen[c] = defaultTime /\ clients[c] = "down" THEN now
               ELSE IF status.seen[c] # Absent /\ clients[c] = "up" THEN defaultTime
               ELSE status.seen[c]
  BY <1>1 DEF handleClientChanges, StatusFields
<1>3. after \in StatusFields
  BY <1>1 DEF handleClientChanges, StatusFields
<1>4. \A c \in Clients : after.seen[c] = Absent <=> status.seen[c] = Absent
  BY <1>1, <1>2 DEF StatusFields
<1> QED
  BY <1>2, <1>3, <1>4, StatusTypeIs

(* A new client's entry names one pod of each template.                    *)
LEMMA AllocateClientType ==
  ASSUME NEW status \in StatusType, NEW c \in Clients,
         NEW choice \in [Templates -> PodIds]
  PROVE  /\ allocateClient(status, c, choice) \in StatusType
         /\ allocateClient(status, c, choice).alloc[c] = {choice[t] : t \in Templates}
         /\ \A d \in Clients \ {c} :
               /\ allocateClient(status, c, choice).alloc[d] = status.alloc[d]
               /\ allocateClient(status, c, choice).seen[d] = status.seen[d]
<1> DEFINE after == allocateClient(status, c, choice)
<1>1. status \in StatusFields
  BY StatusTypeIs
<1>2. {choice[t] : t \in Templates} \in SUBSET PodIds
  OBVIOUS
<1>3. after \in StatusFields
  <2> DEFINE P == {choice[t] : t \in Templates}
             v == defaultTime
             none == {}
  <2>1. /\ P \in SUBSET PodIds /\ v \in Int /\ none \in SUBSET PodIds
        /\ after = [status EXCEPT !.seen[c] = v, !.alloc[c] = P, !.external[c] = none]
    BY <1>2 DEF allocateClient
  <2> HIDE DEF P, v, none, after
  <2> QED
    BY <1>1, <2>1 DEF StatusFields
<1>4. /\ after.seen[c] = defaultTime
      /\ after.alloc[c] = {choice[t] : t \in Templates} /\ after.external[c] = {}
      /\ \A d \in Clients \ {c} : /\ after.alloc[d] = status.alloc[d]
                                  /\ after.seen[d] = status.seen[d]
                                  /\ after.external[d] = status.external[d]
  BY <1>1 DEF allocateClient, StatusFields
<1>5. after \in StatusType
  <2>1. \A d \in Clients : /\ after.external[d] \subseteq after.alloc[d]
                           /\ after.seen[d] = Absent => after.alloc[d] = {}
    BY <1>4, StatusTypeIs
  <2> QED
    BY <2>1, <1>3, StatusTypeIs
<1> QED
  BY <1>4, <1>5

(* Reporting readiness changes no allocation.                              *)
LEMMA SetReadinessType ==
  ASSUME NEW status \in StatusType, NEW readyPods, NEW hasIp
  PROVE  /\ setClientStatusReadiness(status, readyPods, hasIp) \in StatusType
         /\ setClientStatusReadiness(status, readyPods, hasIp).alloc = status.alloc
         /\ setClientStatusReadiness(status, readyPods, hasIp).seen = status.seen
<1> DEFINE after == setClientStatusReadiness(status, readyPods, hasIp)
<1>1. status \in StatusFields
  BY StatusTypeIs
<1>2. AllocatedPods(status) \subseteq PodIds
  BY <1>1 DEF AllocatedPods, StatusFields
<1> DEFINE ready == IF hasIp THEN AllocatedPods(status) \cap readyPods ELSE {}
           external == [c \in Clients |-> status.external[c] \cup (status.alloc[c] \cap ready)]
<1>3. ready \in SUBSET PodIds /\ external \in [Clients -> SUBSET PodIds]
  BY <1>1, <1>2 DEF StatusFields
<1>4. after = [status EXCEPT !.ready = ready, !.external = external]
  BY DEF setClientStatusReadiness
<1>5. /\ after \in StatusFields /\ after.alloc = status.alloc /\ after.seen = status.seen
      /\ after.external = external
  <2> HIDE DEF ready, external, after
  <2> QED
    BY <1>1, <1>3, <1>4 DEF StatusFields
<1>6. \A c \in Clients : after.external[c] \subseteq after.alloc[c]
  BY <1>5, StatusTypeIs
<1> QED
  BY <1>5, <1>6, StatusTypeIs

(* The pods a status names are client pods.                                *)
LEMMA AllocatedArePods ==
  ASSUME NEW status \in StatusType
  PROVE  AllocatedPods(status) \subseteq PodIds
BY StatusTypeIs DEF StatusFields, AllocatedPods

(* The pods that may be given to a new client are of the template asked for*)
(* (findFirstPodAvailable, reutilizePod, newPodName).                      *)
LEMMA CandidateTemplate ==
  ASSUME NEW status, NEW pool, NEW inUse, NEW t \in Templates,
         NEW p \in CandidatePods(status, pool, inUse, t)
  PROVE  TemplateOf[p] = t
<1>1. CASE AvailablePods(status, t) # {}
  BY <1>1 DEF CandidatePods, findFirstPodAvailable, AvailablePods
<1>2. CASE AvailablePods(status, t) = {} /\ reutilizePod(status, pool, t) # {}
  BY <1>2 DEF CandidatePods, reutilizePod
<1>3. CASE AvailablePods(status, t) = {} /\ reutilizePod(status, pool, t) = {}
  <2>1. p \in newPodName(inUse, t)
    BY <1>3 DEF CandidatePods
  <2> QED
    BY <2>1 DEF newPodName
<1> QED
  BY <1>1, <1>2, <1>3

---------------------------------------------------------------------------
(* Those of SessionController.                                             *)

(* An Update of one field of a Session leaves a Session.                   *)
LEMMA SessionUpdates ==
  ASSUME NEW s \in SessionType
  PROVE  /\ s.status \in StatusType /\ s.hash \in StatusType \cup {NoHash}
         /\ s.live \in BOOLEAN /\ s.clients \in [Clients -> ClientStates]
         /\ \A st \in StatusType :
               /\ [s EXCEPT !.status = st] \in SessionType
               /\ [s EXCEPT !.status = st].status = st
               /\ [s EXCEPT !.status = st].clients = s.clients
               /\ [s EXCEPT !.status = st].hash = s.hash
               /\ [s EXCEPT !.status = st].live = s.live
         /\ \A c \in Clients, v \in ClientStates :
               /\ [s EXCEPT !.clients[c] = v] \in SessionType
               /\ [s EXCEPT !.clients[c] = v].status = s.status
               /\ [s EXCEPT !.clients[c] = v].hash = s.hash
         /\ [s EXCEPT !.live = FALSE] \in SessionType
BY DEF SessionType

(* A Session starts as one, before its first reconciliation.               *)
LEMMA NewSessionType == NewSession \in SessionType
BY NewStatusType DEF NewSession, SessionType, ClientStates

(* No pod at all is a state of the pods.                                   *)
LEMMA NoPodsType == NoPods \in [AllPods -> PodStates]
BY DEF NoPods, PodStates

(* Setting the Ready condition leaves the clients' entries alone           *)
(* (conditions.go).                                                        *)
LEMMA SetReadyConditionType ==
  ASSUME NEW status \in StatusType, clock \in Int,
         NEW value \in {"unset", "True", "False", "Unknown"}
  PROVE  /\ SetReadyCondition(status, value) \in StatusType
         /\ SetReadyCondition(status, value).alloc = status.alloc
         /\ SetReadyCondition(status, value).seen = status.seen
<1>1. status \in StatusFields
  BY StatusTypeIs
<1>2. /\ SetReadyCondition(status, value) \in StatusFields
      /\ SetReadyCondition(status, value).external = status.external
      /\ SetReadyCondition(status, value).alloc = status.alloc
      /\ SetReadyCondition(status, value).seen = status.seen
  BY <1>1 DEF SetReadyCondition, StatusFields
<1> QED
  BY <1>2, StatusTypeIs

(* So does reporting the session pods (buildPodsStatus).                   *)
LEMMA SessionPodsStatusType ==
  ASSUME NEW status \in StatusType, clock \in Int, NEW podMap
  PROVE  /\ SessionPodsStatus(status, podMap) \in StatusType
         /\ SessionPodsStatus(status, podMap).alloc = status.alloc
         /\ SessionPodsStatus(status, podMap).seen = status.seen
<1> DEFINE false == [status EXCEPT !.podsStatus = "false"]
           true == [false EXCEPT !.podsStatus = "true"]
<1>1. status \in StatusFields
  BY StatusTypeIs
<1>2. /\ false \in StatusFields /\ true \in StatusFields
      /\ false.alloc = status.alloc /\ true.alloc = status.alloc
      /\ false.seen = status.seen /\ true.seen = status.seen
      /\ false.external = status.external /\ true.external = status.external
  BY <1>1 DEF StatusFields
<1>3. false \in StatusType /\ true \in StatusType
  <2> HIDE DEF false, true
  <2> QED BY <1>2, StatusTypeIs
<1>4. SessionPodsStatus(status, podMap) \in
         {false, SetReadyCondition(true, "True"), SetReadyCondition(false, "False")}
  BY DEF SessionPodsStatus
<1> HIDE DEF false, true
<1> QED
  BY <1>2, <1>3, <1>4, SetReadyConditionType

---------------------------------------------------------------------------
(* TypeOK in two parts: what is outside Reconcile, and what is inside.     *)

LagType == [session : {"none", "quiet", "event"}, pods : {"none", "quiet", "event"}]
CacheType == [session : SessionType, pods : [AllPods -> PodStates], regs : SUBSET AllPods]

WorldOK ==
  /\ session \in SessionType /\ pods \in [AllPods -> PodStates]
  /\ regs \subseteq AllPods /\ ip \in BOOLEAN /\ clock \in 0..MaxTime
  /\ cache \in CacheType /\ lag \in LagType
  /\ recorded \subseteq PodIds
  /\ edits \in 0..MaxEdits /\ churn \in 0..MaxChurn /\ faults \in 0..MaxFaults

LocalsOK ==
  /\ queued \in BOOLEAN /\ pc \in Steps
  /\ copy \in SessionType /\ current \in BOOLEAN
  /\ seenRegs \subseteq AllPods /\ seenIp \in BOOLEAN
  /\ listed \in [AllPods -> PodStates] /\ newClients \subseteq Clients
  /\ toCreate \subseteq AllPods /\ toDelete \subseteq AllPods /\ toSpawn \subseteq AllPods

(* TypeOK is a part about the world and a part about Reconcile's locals.   *)
LEMMA TypeOKParts == (TypeOK <=> WorldOK /\ LocalsOK) /\ (TypeOK' <=> WorldOK' /\ LocalsOK')
BY DEF TypeOK, WorldOK, LocalsOK, LagType, CacheType

(* The clock is a number and never the mark of an absent entry.            *)
LEMMA ClockIsInt == WorldOK => clock \in Int /\ clock >= 0 /\ clock # Absent
<1>1. MaxTime \in Nat
  BY BoundsAssumption
<1> QED
  BY <1>1 DEF WorldOK, Absent

(* What a fault, a write of the session and a Create of a pod leave.       *)
LEMMA FaultType ==
  ASSUME WorldOK, NEW kind, Fault(kind)
  PROVE  faults' \in 0..MaxFaults
BY BoundsAssumption DEF Fault, WorldOK

(* A write of a Session, refused, done or unanswered, stores a Session.    *)
LEMMA WriteSessionType ==
  ASSUME WorldOK, NEW s \in SessionType, NEW answered, WriteSession(s, answered)
  PROVE  /\ session' \in SessionType /\ lag' \in LagType /\ recorded' \subseteq PodIds
         /\ faults' \in 0..MaxFaults
<1>1. AllocatedPods(s.status) \subseteq PodIds
  BY SessionUpdates, AllocatedArePods
<1>2. faults' \in 0..MaxFaults
  BY FaultType DEF WriteSession, NoFault, WorldOK
<1>3. PutSession(s) \/ UNCHANGED <<session, lag, recorded>>
  BY DEF WriteSession
<1>4. CASE PutSession(s)
  BY <1>1, <1>2, <1>4 DEF PutSession, Behind, LagType, WorldOK
<1>5. CASE UNCHANGED <<session, lag, recorded>>
  BY <1>2, <1>5 DEF WorldOK
<1> QED
  BY <1>3, <1>4, <1>5

(* The Create of a pod leaves a state of the pods (SpawnPod).              *)
LEMMA SpawnPodType ==
  ASSUME WorldOK, NEW p \in AllPods, NEW answered, SpawnPod(p, answered)
  PROVE  pods' \in [AllPods -> PodStates] /\ lag' \in LagType /\ faults' \in 0..MaxFaults
<1>1. faults' \in 0..MaxFaults
  BY FaultType DEF SpawnPod, NoFault, WorldOK
<1>2. PutPod(p) \/ UNCHANGED <<pods, lag>>
  BY DEF SpawnPod
<1>3. CASE PutPod(p)
  BY <1>1, <1>3 DEF PutPod, Behind, LagType, WorldOK, PodStates
<1>4. CASE UNCHANGED <<pods, lag>>
  BY <1>1, <1>4 DEF WorldOK
<1> QED
  BY <1>2, <1>3, <1>4

(* The locals are reset to values of their types when Reconcile returns.   *)
LEMMA ReturnType ==
  ASSUME LocalsOK, NEW error \in BOOLEAN, Return(error)
  PROVE  LocalsOK'
BY NewSessionType, NoPodsType DEF LocalsOK, Return, Steps

(* Each action leaves both parts as they should be.                        *)
LEMMA ReconcileBeginType ==
  ASSUME WorldOK, LocalsOK, Begin \/ SessionNotFound \/ ReadFails
  PROVE  WorldOK' /\ LocalsOK'
<1> USE DEF store, informers, reading, calls, counters
<1>1. CASE Begin
  <2>1. faults' \in 0..MaxFaults /\ seenIp' \in BOOLEAN
    BY <1>1, FaultType DEF Begin, getIngressServiceExternalIp, NoFault, WorldOK
  <2>2. WorldOK'
    BY <1>1, <2>1 DEF Begin, WorldOK
  <2>3. LocalsOK'
    BY <1>1, <2>1 DEF Begin, WorldOK, CacheType, LagType, LocalsOK, Steps, AfterSessionPods
  <2> QED BY <2>2, <2>3
<1>2. CASE SessionNotFound
  BY <1>2 DEF SessionNotFound, WorldOK, LocalsOK
<1>3. CASE ReadFails
  <2>1. faults' \in 0..MaxFaults
    BY <1>3, FaultType DEF ReadFails
  <2> QED
    BY <1>3, <2>1 DEF ReadFails, WorldOK, LocalsOK
<1> QED
  BY <1>1, <1>2, <1>3

(* The session pods half of Reconcile keeps the types.                     *)
LEMMA SessionPodsType ==
  ASSUME WorldOK, LocalsOK,
         PanicOnMissingIp \/ GetPodsFails \/ ReconcileSessionPods \/ PodsRestored \/ ReportError
  PROVE  WorldOK' /\ LocalsOK'
<1> USE DEF store, informers, reading, calls, counters
<1>0. clock \in Int /\ copy.status \in StatusType
  BY ClockIsInt, SessionUpdates DEF LocalsOK
<1>1. CASE PanicOnMissingIp
  BY <1>1, ReturnType DEF PanicOnMissingIp, WorldOK
<1>2. CASE GetPodsFails
  <2>1. faults' \in 0..MaxFaults
    BY <1>2, FaultType DEF GetPodsFails
  <2>2. [copy EXCEPT !.status = SetReadyCondition(@, "Unknown")] \in SessionType
    BY <1>0, SetReadyConditionType, SessionUpdates DEF LocalsOK
  <2> QED
    BY <1>2, <2>1, <2>2 DEF GetPodsFails, WorldOK, LocalsOK, Steps
<1>3. CASE ReconcileSessionPods
  <2>1. [copy EXCEPT !.status = SessionPodsStatus(@, cache.pods)] \in SessionType
    BY <1>0, SessionPodsStatusType, SessionUpdates DEF LocalsOK
  <2>2. WorldOK'
    BY <1>3 DEF ReconcileSessionPods, WorldOK
  <2>3. toCreate' \subseteq AllPods /\ toDelete' \subseteq AllPods /\ toSpawn' \subseteq AllPods
    BY <1>3 DEF ReconcileSessionPods, LocalsOK, AllPods
  <2>4. LocalsOK'
    BY <1>3, <2>1, <2>3 DEF ReconcileSessionPods, LocalsOK, Steps, WorldOK, CacheType
  <2> QED
    BY <2>2, <2>4
<1>4. CASE PodsRestored
  <2>1. [copy EXCEPT !.status = SetReadyCondition(@, "Unknown")] \in SessionType
    BY <1>0, SetReadyConditionType, SessionUpdates DEF LocalsOK
  <2> QED
    BY <1>4, <2>1 DEF PodsRestored, WorldOK, LocalsOK, Steps, AfterSessionPods
<1>5. CASE ReportError
  <2>1. [session EXCEPT !.status = copy.status] \in SessionType
    BY <1>0, SessionUpdates DEF WorldOK
  <2>2. WorldOK'
    BY <1>5, <2>1, WriteSessionType DEF ReportError, WorldOK
  <2> QED
    BY <1>5, <2>2, ReturnType DEF ReportError
<1> QED
  BY <1>1, <1>2, <1>3, <1>4, <1>5

(* So do both loops over registrations.                                    *)
LEMMA RegistrationsType ==
  ASSUME WorldOK, LocalsOK,
         \/ RegistrationFails \/ RegistrationsDone
         \/ \E p \in AllPods : CreateGCRegistration(p) \/ DeleteGCRegistration(p)
  PROVE  WorldOK' /\ LocalsOK'
<1> USE DEF store, informers, reading, calls, counters
<1>1. CASE RegistrationFails
  <2>1. faults' \in 0..MaxFaults
    BY <1>1, FaultType DEF RegistrationFails
  <2> QED
    BY <1>1, <2>1 DEF RegistrationFails, WorldOK, LocalsOK
<1>2. CASE RegistrationsDone
  <2>1. pc' \in Steps
    BY <1>2 DEF RegistrationsDone, AfterSessionPods, Steps
  <2> QED
    BY <1>2, <2>1 DEF RegistrationsDone, WorldOK, LocalsOK
<1>3. ASSUME NEW p \in AllPods, CreateGCRegistration(p) \/ DeleteGCRegistration(p)
      PROVE  WorldOK' /\ LocalsOK'
  <2>1. WorldOK'
    BY <1>3 DEF CreateGCRegistration, DeleteGCRegistration, WorldOK
  <2>2. LocalsOK'
    BY <1>3 DEF CreateGCRegistration, DeleteGCRegistration, LocalsOK
  <2> QED BY <2>1, <2>2
<1> QED
  BY <1>1, <1>2, <1>3

(* So do the calls that restore and spawn pods.                            *)
LEMMA SpawnType ==
  ASSUME WorldOK, LocalsOK, NEW p \in AllPods,
         RestorePod(p) \/ RestoreFails(p) \/ SpawnClientPod(p) \/ SpawnFails(p)
  PROVE  WorldOK' /\ LocalsOK'
<1> USE DEF store, informers, reading, calls, counters
<1>1. CASE RestorePod(p) \/ SpawnClientPod(p)
  <2>1. pods' \in [AllPods -> PodStates] /\ lag' \in LagType /\ faults' \in 0..MaxFaults
    BY <1>1, SpawnPodType DEF RestorePod, SpawnClientPod
  <2> QED
    BY <1>1, <2>1 DEF RestorePod, SpawnClientPod, WorldOK, LocalsOK
<1>2. CASE RestoreFails(p)
  <2>1. pods' \in [AllPods -> PodStates] /\ lag' \in LagType /\ faults' \in 0..MaxFaults
    BY <1>2, SpawnPodType DEF RestoreFails
  <2>2. [copy EXCEPT !.status = SetReadyCondition(@, "False")] \in SessionType
    BY ClockIsInt, SetReadyConditionType, SessionUpdates DEF LocalsOK
  <2>3. WorldOK'
    BY <1>2, <2>1 DEF RestoreFails, WorldOK
  <2>4. LocalsOK'
    BY <1>2, <2>2 DEF RestoreFails, LocalsOK, Steps
  <2> QED BY <2>3, <2>4
<1>3. CASE SpawnFails(p)
  <2>1. pods' \in [AllPods -> PodStates] /\ lag' \in LagType /\ faults' \in 0..MaxFaults
    BY <1>3, SpawnPodType DEF SpawnFails
  <2> QED
    BY <1>3, <2>1, ReturnType DEF SpawnFails, WorldOK
<1> QED
  BY <1>1, <1>2, <1>3

(* The status ReconcileClientPods starts to allocate from.                 *)
LEMMA ReconciledStatus ==
  ASSUME NEW status \in StatusType, NEW now \in Int, now # Absent, NEW clients
  PROVE  LET kept == cleanExpiredClientsFromStatus(now, status)
             changed == handleClientChanges(now, clients, kept)
             left == removeLeftClients(clients, changed)
         IN /\ kept \in StatusType /\ changed \in StatusType /\ left \in StatusType
            /\ changed.alloc = kept.alloc
<1> DEFINE kept == cleanExpiredClientsFromStatus(now, status)
           changed == handleClientChanges(now, clients, kept)
<1>1. kept \in StatusType
  BY ForgetType DEF cleanExpiredClientsFromStatus
<1>2. changed \in StatusType /\ changed.alloc = kept.alloc
  BY <1>1, HandleClientChangesType
<1>3. removeLeftClients(clients, changed) \in StatusType
  BY <1>2, ForgetType DEF removeLeftClients
<1> QED
  BY <1>1, <1>2, <1>3

(* So does the client pods half, which computes a new status.              *)
LEMMA ClientPodsType ==
  ASSUME WorldOK, LocalsOK,
         \/ ReconcileClientPods \/ ListFails \/ ReconcilePods
         \/ \E c \in Clients : AllocateClient(c)
  PROVE  WorldOK' /\ LocalsOK'
<1> USE DEF store, informers, reading, calls, counters
<1>0. clock \in Int /\ clock # Absent /\ copy.status \in StatusType
  BY ClockIsInt, SessionUpdates DEF LocalsOK
<1>1. CASE ReconcileClientPods
  <2>1. WorldOK'
    BY <1>1 DEF ReconcileClientPods, WorldOK
  <2>2. copy' \in SessionType
    BY <1>0, <1>1, ReconciledStatus, SessionUpdates DEF ReconcileClientPods, LocalsOK
  <2>3. newClients' \subseteq Clients
    BY <1>1 DEF ReconcileClientPods, newClientsIn
  <2>4. LocalsOK'
    BY <1>1, <2>2, <2>3 DEF ReconcileClientPods, LocalsOK, Steps, WorldOK, CacheType
  <2> QED BY <2>1, <2>4
<1>2. CASE ListFails
  <2>1. faults' \in 0..MaxFaults
    BY <1>2, FaultType DEF ListFails
  <2> QED
    BY <1>2, <2>1, ReturnType DEF ListFails, WorldOK
<1>3. CASE ReconcilePods
  <2>1. copy' \in SessionType
    BY <1>0, <1>3, SetReadinessType, SessionUpdates DEF ReconcilePods, LocalsOK
  <2>2. toCreate' \subseteq AllPods /\ toDelete' \subseteq AllPods /\ toSpawn' \subseteq AllPods
    BY <1>0, <1>3, AllocatedArePods
       DEF ReconcilePods, registrationsToCreate, registrationsToDelete, podsToSpawn, found, AllPods
  <2>3. WorldOK'
    BY <1>3 DEF ReconcilePods, WorldOK
  <2>4. LocalsOK'
    BY <1>3, <2>1, <2>2 DEF ReconcilePods, LocalsOK, Steps
  <2> QED BY <2>3, <2>4
<1>4. ASSUME NEW c \in Clients, AllocateClient(c)
      PROVE  WorldOK' /\ LocalsOK'
  <2>0. PICK choice \in [Templates -> PodIds] :
           copy' = [copy EXCEPT !.status = allocateClient(copy.status, c, choice)]
    BY <1>4 DEF AllocateClient
  <2>1. copy' \in SessionType
    BY <1>0, <2>0, AllocateClientType, SessionUpdates DEF LocalsOK
  <2>2. WorldOK'
    BY <1>4 DEF AllocateClient, WorldOK
  <2>3. LocalsOK'
    BY <1>4, <2>1 DEF AllocateClient, LocalsOK
  <2> QED BY <2>2, <2>3
<1> QED
  BY <1>1, <1>2, <1>3, <1>4

(* So do the writes of the status and of the annotation.                   *)
LEMMA UpdateType ==
  ASSUME WorldOK, LocalsOK,
         \/ StatusUnchanged \/ UpdateStatus \/ UpdateStatusFails
         \/ UpdateAnnotation \/ UpdateAnnotationFails \/ Done
  PROVE  WorldOK' /\ LocalsOK'
<1> USE DEF store, informers, reading, calls, counters
<1>0. [session EXCEPT !.status = copy.status] \in SessionType /\ Annotated \in SessionType
  <2>1. Annotated \in SessionType
    BY SessionUpdates DEF Annotated, SessionType, WorldOK, LocalsOK
  <2> QED
    BY <2>1, SessionUpdates DEF WorldOK, LocalsOK
<1>1. CASE StatusUnchanged
  BY <1>1 DEF StatusUnchanged, WorldOK, LocalsOK, Steps
<1>2. CASE UpdateStatus \/ UpdateAnnotation
  <2>1. /\ session' \in SessionType /\ lag' \in LagType /\ recorded' \subseteq PodIds
        /\ faults' \in 0..MaxFaults
    BY <1>0, <1>2, WriteSessionType DEF UpdateStatus, UpdateAnnotation
  <2>2. WorldOK'
    BY <1>2, <2>1 DEF UpdateStatus, UpdateAnnotation, WorldOK
  <2>3. LocalsOK'
    BY <1>2 DEF UpdateStatus, UpdateAnnotation, LocalsOK, Steps
  <2> QED BY <2>2, <2>3
<1>3. CASE UpdateStatusFails \/ UpdateAnnotationFails
  <2>1. /\ session' \in SessionType /\ lag' \in LagType /\ recorded' \subseteq PodIds
        /\ faults' \in 0..MaxFaults
    BY <1>0, <1>3, WriteSessionType DEF UpdateStatusFails, UpdateAnnotationFails
  <2>2. WorldOK'
    BY <1>3, <2>1 DEF UpdateStatusFails, UpdateAnnotationFails, WorldOK
  <2>3. LocalsOK'
    BY <1>3, ReturnType DEF UpdateStatusFails, UpdateAnnotationFails
  <2> QED BY <2>2, <2>3
<1>4. CASE Done
  BY <1>4, ReturnType DEF Done, WorldOK
<1> QED
  BY <1>1, <1>2, <1>3, <1>4

(* So do the informers.                                                    *)
LEMMA SyncType ==
  ASSUME WorldOK, LocalsOK, Sync \/ Restart
  PROVE  WorldOK' /\ LocalsOK'
<1> USE DEF store, informers, reading, calls, counters
<1>1. CASE SyncSession \/ SyncPods
  <2>1. cache' \in CacheType /\ lag' \in LagType /\ queued' \in BOOLEAN
    BY <1>1 DEF SyncSession, SyncPods, WorldOK, LocalsOK, CacheType, LagType
  <2> QED
    BY <1>1, <2>1 DEF SyncSession, SyncPods, WorldOK, LocalsOK
<1>2. CASE SyncRegistrations
  <2>1. cache' \in CacheType
    BY <1>2 DEF SyncRegistrations, WorldOK, CacheType
  <2> QED
    BY <1>2, <2>1 DEF SyncRegistrations, WorldOK, LocalsOK
<1>3. CASE Restart
  <2>1. faults' \in 0..MaxFaults
    BY <1>3, FaultType DEF Restart
  <2>2. cache' \in CacheType /\ lag' \in LagType
    BY <1>3 DEF Restart, WorldOK, CacheType, LagType
  <2> QED
    BY <1>3, <2>1, <2>2, ReturnType DEF Restart, WorldOK
<1> QED
  BY <1>1, <1>2, <1>3 DEF Sync

(* So does everything outside the controller.                              *)
LEMMA EnvironmentType ==
  ASSUME WorldOK, LocalsOK,
         \/ DeleteSession \/ AssignIp \/ Tick
         \/ \E c \in Clients, v \in ClientStates : EditClient(c, v)
         \/ \E p \in AllPods :
               \/ PodRemoved(p) \/ RegistrationRemoved(p)
               \/ \E value \in {"True", "False"} : PodCondition(p, value)
  PROVE  WorldOK' /\ LocalsOK'
<1> USE DEF store, informers, reading, calls, counters
<1>0. MaxEdits \in Nat /\ MaxChurn \in Nat /\ MaxTime \in Nat
  BY BoundsAssumption
<1>1. CASE DeleteSession
  <2>1. session' \in SessionType /\ lag' \in LagType
    BY <1>1, SessionUpdates DEF DeleteSession, WorldOK, Behind, LagType
  <2>2. churn' \in 0..MaxChurn
    BY <1>0, <1>1 DEF DeleteSession, Churn, WorldOK
  <2> QED
    BY <1>1, <2>1, <2>2 DEF DeleteSession, Churn, WorldOK, LocalsOK
<1>2. CASE AssignIp
  <2>1. churn' \in 0..MaxChurn
    BY <1>0, <1>2 DEF AssignIp, Churn, WorldOK
  <2> QED
    BY <1>2, <2>1 DEF AssignIp, Churn, WorldOK, LocalsOK
<1>3. CASE Tick
  BY <1>0, <1>3 DEF Tick, WorldOK, LocalsOK
<1>4. ASSUME NEW c \in Clients, NEW v \in ClientStates, EditClient(c, v)
      PROVE  WorldOK' /\ LocalsOK'
  <2>1. session' \in SessionType /\ lag' \in LagType
    BY <1>4, SessionUpdates DEF EditClient, WorldOK, LagType
  <2>2. edits' \in 0..MaxEdits
    BY <1>0, <1>4 DEF EditClient, WorldOK
  <2> QED
    BY <1>4, <2>1, <2>2 DEF EditClient, WorldOK, LocalsOK
<1>5. ASSUME NEW p \in AllPods,
             \/ PodRemoved(p) \/ RegistrationRemoved(p)
             \/ \E value \in {"True", "False"} : PodCondition(p, value)
      PROVE  WorldOK' /\ LocalsOK'
  <2>1. churn' \in 0..MaxChurn
    BY <1>0, <1>5 DEF PodRemoved, RegistrationRemoved, PodCondition, Churn, WorldOK
  <2>2. pods' \in [AllPods -> PodStates] /\ lag' \in LagType /\ regs' \subseteq AllPods
    BY <1>5 DEF PodRemoved, RegistrationRemoved, PodCondition, WorldOK, PodStates, LagType
  <2>3. UNCHANGED <<session, ip, current, clock, cache, queued, pc, copy, seenRegs, seenIp,
                    listed, newClients, calls, recorded, edits, faults>>
    BY <1>5 DEF PodRemoved, RegistrationRemoved, PodCondition, Churn
  <2> QED
    BY <2>1, <2>2, <2>3 DEF WorldOK, LocalsOK
<1> QED
  BY <1>1, <1>2, <1>3, <1>4, <1>5

(* The types hold initially.                                               *)
LEMMA InitType == Init => TypeOK
<1> SUFFICES ASSUME Init PROVE WorldOK /\ LocalsOK
  BY TypeOKParts
<1>1. MaxEdits \in Nat /\ MaxChurn \in Nat /\ MaxFaults \in Nat /\ MaxTime \in Nat
  BY BoundsAssumption
<1>2. WorldOK
  BY <1>1, NewSessionType, NoPodsType, BoundsAssumption
     DEF Init, WorldOK, CacheType, LagType
<1>3. LocalsOK
  BY NewSessionType, NoPodsType DEF Init, LocalsOK, Steps
<1> QED
  BY <1>2, <1>3

(* Every step keeps the types.                                             *)
LEMMA NextType ==
  ASSUME TypeOK, [Next]_vars
  PROVE  TypeOK'
<1>0. WorldOK /\ LocalsOK
  BY TypeOKParts
<1>1. CASE Reconcile
  BY <1>0, <1>1, TypeOKParts, ReconcileBeginType, SessionPodsType, RegistrationsType,
     SpawnType, ClientPodsType, UpdateType DEF Reconcile
<1>2. CASE Sync
  BY <1>0, <1>2, TypeOKParts, SyncType
<1>3. CASE Environment
  BY <1>0, <1>3, TypeOKParts, SyncType, EnvironmentType DEF Environment
<1>4. CASE UNCHANGED vars
  BY <1>0, <1>4, TypeOKParts
     DEF vars, store, informers, reading, calls, counters, WorldOK, LocalsOK
<1> QED
  BY <1>1, <1>2, <1>3, <1>4 DEF Next

(* Every variable keeps its type, whatever the bounds.                     *)
THEOREM TypeCorrect == Spec => []TypeOK
<1>1. TypeOK /\ [Next]_vars => TypeOK'
  BY NextType
<1> QED
  BY InitType, <1>1, PTL DEF Spec
=============================================================================
