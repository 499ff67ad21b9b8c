------------------------- MODULE SessionController -------------------------
(***************************************************************************)
(* The session controller (controllers/session/internal/controller) on one *)
(* Session object, between the API server it reads through lagging caches  *)
(* and writes to directly, the clients that the session manager adds,      *)
(* disconnects and removes, and a cluster that changes and removes pods.   *)
(*                                                                         *)
(* One worker reconciles one object, so there is one call of Reconcile at  *)
(* a time; a step of it is the code up to and including its next write to  *)
(* the API server, and everything else may happen between two steps.       *)
(*                                                                         *)
(* Resource versions are modelled by what they decide: lag says whether a  *)
(* cache is behind the store, current whether the copy being reconciled is *)
(* still the stored version; a write of a copy that is not current is the  *)
(* API server's Conflict.  A hash is the status it was computed from.      *)
(***************************************************************************)
EXTENDS ClientPods

CONSTANTS
  InitialIps,  \* may the ingress start without / with an external IP
  EditKinds,   \* client edits that happen, pairs <<from, to>>
  ChurnKinds,  \* cluster events that happen
  FaultKinds,  \* faults of API calls and of the controller that happen
  \* bounds on how often they do
  MaxEdits, MaxChurn, MaxFaults, MaxTime

ClientStates == {"absent", "down", "up"}
PodStates == {"gone", "unset", "False", "True"}
AllPods == PodIds \cup SessionPods

ASSUME BoundsAssumption ==
  /\ InitialIps \subseteq BOOLEAN
  /\ EditKinds \subseteq ClientStates \X ClientStates
  /\ ChurnKinds \subseteq {"condition", "pod", "registration", "session", "ip"}
  /\ FaultKinds \subseteq {"error", "lost", "restart"}
  /\ {MaxEdits, MaxChurn, MaxFaults, MaxTime} \subseteq Nat

VARIABLES
  session,  \* the stored Session: live, clients, status, hash
  pods,     \* the stored pods: their Ready condition, "gone" if there is none
  regs,     \* the stored GCRegistrations, named after their pods
  ip,       \* has the ingress service an external IP?
  clock,
  cache,    \* what the controller's informers have seen of the store
  lag,      \* how far they are behind: "none", "quiet", or "event" when what
            \* they will see next passes the watch predicates
  queued,   \* the session is in the work queue
  pc,       \* where Reconcile is
  copy,     \* the Session Reconcile works on
  current,  \* copy is the stored version
  seenRegs, seenIp,                    \* what Reconcile read at its start
  listed,                              \* the pods it listed last
  newClients,                          \* clients still to be allocated
  toCreate, toDelete, toSpawn,         \* calls still to be made
  recorded, \* history: client pods that some stored status has named
  edits, churn, faults                 \* how many of each there were

store == <<session, pods, regs, ip>>
reading == <<copy, current, seenRegs, seenIp, listed, newClients>>
calls == <<toCreate, toDelete, toSpawn>>
informers == <<cache, lag>>
counters == <<edits, churn, faults>>
vars == <<store, clock, informers, queued, pc, reading, calls, recorded, counters>>

NoPods == [p \in AllPods |-> "gone"]
NewSession == [live |-> TRUE, clients |-> [c \in Clients |-> "absent"],
               status |-> NewStatus, hash |-> NoHash]
Existing(podMap) == {p \in AllPods : podMap[p] # "gone"}
Ready(podMap) == {p \in AllPods : podMap[p] = "True"}
Connected(s) == \E c \in Clients : s.clients[c] = "up"

SessionType ==
  [live : BOOLEAN, clients : [Clients -> ClientStates], status : StatusType,
   hash : StatusType \cup {NoHash}]

Steps == {"idle", "sessionPods", "sessionRegs", "restore", "report", "clientPods",
          "allocate", "clientRegs", "update", "annotate", "spawn"}

Init ==
  /\ session = NewSession /\ pods = NoPods /\ regs = {} /\ ip \in InitialIps
  /\ clock = 0
  /\ cache = [session |-> NewSession, pods |-> NoPods, regs |-> {}]
  /\ lag = [session |-> "none", pods |-> "none"]
  /\ queued = TRUE /\ pc = "idle"
  /\ copy = NewSession /\ current = FALSE /\ seenRegs = {} /\ seenIp = FALSE
  /\ listed = NoPods /\ newClients = {}
  /\ toCreate = {} /\ toDelete = {} /\ toSpawn = {}
  /\ recorded = {} /\ edits = 0 /\ churn = 0 /\ faults = 0

---------------------------------------------------------------------------
(* The API server: what a write changes, and what the informers will see.  *)

Behind(l) == IF l = "none" THEN "quiet" ELSE l

Fault(kind) ==
  /\ kind \in FaultKinds /\ faults < MaxFaults
  /\ faults' = faults + 1

NoFault == UNCHANGED faults

(* The controller writes s over the stored session; writing what is stored *)
(* already leaves its version alone.                                       *)
PutSession(s) ==
  /\ session' = s
  /\ lag' = IF s = session THEN lag ELSE [lag EXCEPT !.session = Behind(@)]
  /\ recorded' = recorded \cup AllocatedPods(s.status)

(* Mutant: the API server takes a write of any version.                    *)
MutantAccepted == session.live

Accepted == session.live /\ current

(* A write of the session: done, refused, failed, or done and not answered.*)
(* answered: did the caller get a success?                                 *)
WriteSession(s, answered) ==
  \/ answered /\ Accepted /\ PutSession(s) /\ NoFault
  \/ ~answered /\ ~Accepted /\ UNCHANGED <<session, lag, recorded>> /\ NoFault
  \/ ~answered /\ UNCHANGED <<session, lag, recorded>> /\ Fault("error")
  \/ ~answered /\ Accepted /\ PutSession(s) /\ Fault("lost")

(* Create of a pod; AlreadyExists is a success.                            *)
PutPod(p) ==
  IF pods[p] = "gone"
  THEN /\ pods' = [pods EXCEPT ![p] = "unset"]
       /\ lag' = [lag EXCEPT !.pods = Behind(@)]
  ELSE UNCHANGED <<pods, lag>>

SpawnPod(p, answered) ==
  \/ answered /\ PutPod(p) /\ NoFault
  \/ ~answered /\ UNCHANGED <<pods, lag>> /\ Fault("error")
  \/ ~answered /\ PutPod(p) /\ Fault("lost")

---------------------------------------------------------------------------
(* Reconcile *)

(* Reconcile returns; controller-runtime queues the session again after an *)
(* error.  The locals are reset only to merge equal states.                *)
Return(error) ==
  /\ pc' = "idle"
  /\ queued' = (queued \/ error)
  /\ copy' = NewSession /\ current' = FALSE /\ seenRegs' = {} /\ seenIp' = FALSE
  /\ listed' = NoPods /\ newClients' = {}
  /\ toCreate' = {} /\ toDelete' = {} /\ toSpawn' = {}

AfterSessionPods == IF Templates # {} THEN "clientPods" ELSE "update"

(* A service that cannot be read is one without an external IP.            *)
getIngressServiceExternalIp ==
  \/ seenIp' = ip /\ NoFault
  \/ seenIp' = FALSE /\ Fault("error")

Begin ==
  /\ pc = "idle" /\ queued /\ cache.session.live
  /\ queued' = FALSE
  /\ copy' = cache.session
  /\ current' = (lag.session = "none")
  /\ seenRegs' = cache.regs
  /\ getIngressServiceExternalIp
  /\ pc' = IF SessionPods # {} THEN "sessionPods" ELSE AfterSessionPods
  /\ UNCHANGED <<store, clock, informers, listed, newClients, calls, recorded, edits, churn>>

SessionNotFound ==
  /\ pc = "idle" /\ queued /\ ~cache.session.live
  /\ queued' = FALSE
  /\ UNCHANGED <<store, clock, informers, pc, reading, calls, recorded, counters>>

(* Get or List fails at the start of Reconcile.                            *)
ReadFails ==
  /\ pc = "idle" /\ queued /\ Fault("error")
  /\ UNCHANGED <<store, clock, informers, queued, pc, reading, calls, recorded,
                 edits, churn>>

(* The external IP is dereferenced where it is missing; the panic is       *)
(* recovered and reported as an error.                                     *)
PanicOnMissingIp ==
  /\ pc = "sessionPods" /\ ~seenIp
  /\ Return(TRUE)
  /\ UNCHANGED <<store, clock, informers, recorded, counters>>

SetReadyCondition(status, value) == [status EXCEPT !.cond = value, !.condAt = clock]

GetPodsFails ==
  /\ pc = "sessionPods" /\ Fault("error")
  /\ copy' = [copy EXCEPT !.status = SetReadyCondition(@, "Unknown")]
  /\ pc' = "report"
  /\ UNCHANGED <<store, clock, informers, queued, current, seenRegs, seenIp, listed,
                 newClients, calls, recorded, edits, churn>>

(* A pod that reports no Ready condition counts as ready.                  *)
PodsAreReady(podMap) == \A p \in SessionPods : podMap[p] \notin {"False"}

SessionPodsStatus(status, podMap) ==
  LET built == [status EXCEPT !.podsStatus = "false"] IN
  IF SessionPods \subseteq Existing(podMap)
  THEN IF PodsAreReady(podMap)
       THEN SetReadyCondition([built EXCEPT !.podsStatus = "true"], "True")
       ELSE SetReadyCondition(built, "False")
  ELSE built

(* The registrations this decides on are created and deleted one by one    *)
(* before the status is set, which no other process sees: set it here.     *)
ReconcileSessionPods ==
  /\ pc = "sessionPods" /\ seenIp
  /\ LET there == SessionPods \cap Existing(cache.pods) IN
     /\ listed' = cache.pods
     /\ toCreate' = IF Connected(copy) THEN {} ELSE there \ seenRegs
     /\ toDelete' = IF Connected(copy) THEN there \cap seenRegs ELSE {}
     /\ toSpawn' = IF Connected(copy) THEN SessionPods \ there ELSE {}
     /\ copy' = [copy EXCEPT !.status = SessionPodsStatus(@, cache.pods)]
  /\ pc' = "sessionRegs"
  /\ UNCHANGED <<store, clock, informers, queued, current, seenRegs, seenIp,
                 newClients, recorded, counters>>

(* Both loops over registrations: the first failure ends them, and the     *)
(* caller drops the error.  Client pods in no client's status come first.  *)
FirstToCreate ==
  IF pc = "clientRegs" /\ toCreate \ AllocatedPods(copy.status) # {}
  THEN toCreate \ AllocatedPods(copy.status) ELSE toCreate

CreateGCRegistration(p) ==
  /\ pc \in {"sessionRegs", "clientRegs"} /\ p \in FirstToCreate
  /\ regs' = regs \cup {p}
  /\ toCreate' = toCreate \ {p}
  /\ UNCHANGED <<session, pods, ip, clock, informers, queued, pc, reading, toDelete,
                 toSpawn, recorded, counters>>

DeleteGCRegistration(p) ==
  /\ pc \in {"sessionRegs", "clientRegs"} /\ p \in toDelete
  /\ toCreate \subseteq AllocatedPods(copy.status)
  /\ regs' = regs \ {p}
  /\ toDelete' = toDelete \ {p}
  /\ UNCHANGED <<session, pods, ip, clock, informers, queued, pc, reading, toCreate,
                 toSpawn, recorded, counters>>

RegistrationFails ==
  /\ pc \in {"sessionRegs", "clientRegs"} /\ toCreate \cup toDelete # {}
  /\ Fault("error")
  /\ toCreate' = {} /\ toDelete' = {}
  /\ UNCHANGED <<store, clock, informers, queued, pc, reading, toSpawn, recorded,
                 edits, churn>>

RegistrationsDone ==
  /\ pc \in {"sessionRegs", "clientRegs"} /\ toCreate \cup toDelete = {}
  /\ pc' = CASE pc = "clientRegs" -> "update"
             [] pc = "sessionRegs" /\ toSpawn # {} -> "restore"
             [] pc = "sessionRegs" /\ toSpawn = {} -> AfterSessionPods
  /\ UNCHANGED <<store, clock, informers, queued, reading, calls, recorded, counters>>

RestorePod(p) ==
  /\ pc = "restore" /\ p \in toSpawn
  /\ SpawnPod(p, TRUE)
  /\ toSpawn' = toSpawn \ {p}
  /\ UNCHANGED <<session, regs, ip, clock, cache, queued, pc, reading, toCreate,
                 toDelete, recorded, edits, churn>>

RestoreFails(p) ==
  /\ pc = "restore" /\ p \in toSpawn
  /\ SpawnPod(p, FALSE)
  /\ copy' = [copy EXCEPT !.status = SetReadyCondition(@, "False")]
  /\ toSpawn' = {}
  /\ pc' = "report"
  /\ UNCHANGED <<session, regs, ip, clock, cache, queued, current, seenRegs, seenIp,
                 listed, newClients, toCreate, toDelete, recorded, edits, churn>>

PodsRestored ==
  /\ pc = "restore" /\ toSpawn = {}
  /\ copy' = [copy EXCEPT !.status = SetReadyCondition(@, "Unknown")]
  /\ pc' = AfterSessionPods
  /\ UNCHANGED <<store, clock, informers, queued, current, seenRegs, seenIp, listed,
                 newClients, calls, recorded, counters>>

(* Mutant: the error is reported in the status only.                       *)
MutantReportError ==
  /\ pc = "report"
  /\ \E answered \in BOOLEAN :
        WriteSession([session EXCEPT !.status = copy.status], answered)
  /\ Return(FALSE)
  /\ UNCHANGED <<pods, regs, ip, clock, cache, edits, churn>>

(* The status is written before the error is returned; whether the write   *)
(* is done does not matter.                                                *)
ReportError ==
  /\ pc = "report"
  /\ \E answered \in BOOLEAN :
        WriteSession([session EXCEPT !.status = copy.status], answered)
  /\ Return(TRUE)
  /\ UNCHANGED <<pods, regs, ip, clock, cache, edits, churn>>

(* ReconcileClientPods up to the allocation of new clients.                *)
ReconcileClientPods ==
  /\ pc = "clientPods"
  /\ LET kept == cleanExpiredClientsFromStatus(clock, copy.status) IN
     /\ newClients' = newClientsIn(copy.clients, kept)
     /\ copy' = [copy EXCEPT !.status =
                   removeLeftClients(copy.clients,
                     handleClientChanges(clock, copy.clients, kept))]
  /\ listed' = cache.pods
  /\ pc' = "allocate"
  /\ UNCHANGED <<store, clock, informers, queued, current, seenRegs, seenIp, calls,
                 recorded, counters>>

ListFails ==
  /\ pc = "clientPods" /\ Fault("error")
  /\ Return(TRUE)
  /\ UNCHANGED <<store, clock, informers, recorded, edits, churn>>

found == PodIds \cap Existing(listed)

(* Names that a fresh UUID does not repeat.                                *)
NamesInUse == recorded \cup AllocatedPods(copy.status)

AllocateClient(c) ==
  /\ pc = "allocate" /\ c \in newClients
  /\ \E choice \in [Templates -> PodIds] :
        /\ \A t \in Templates :
              choice[t] \in CandidatePods(copy.status, found, NamesInUse, t)
        /\ copy' = [copy EXCEPT !.status = allocateClient(@, c, choice)]
  /\ newClients' = newClients \ {c}
  /\ UNCHANGED <<store, clock, informers, queued, pc, current, seenRegs, seenIp, listed,
                 calls, recorded, counters>>

(* manageGCRegistrations decides on its calls; reconcilePods, which follows*)
(* them, depends on nothing they change: it is part of this step.          *)
ReconcilePods ==
  /\ pc = "allocate" /\ newClients = {}
  /\ toCreate' = registrationsToCreate(copy.status, found, seenRegs)
  /\ toDelete' = registrationsToDelete(copy.status, seenRegs)
  /\ toSpawn' = podsToSpawn(copy.status, found)
  /\ copy' = [copy EXCEPT !.status =
                setClientStatusReadiness(@, PodIds \cap Ready(listed), seenIp)]
  /\ pc' = "clientRegs"
  /\ UNCHANGED <<store, clock, informers, queued, current, seenRegs, seenIp, listed,
                 newClients, recorded, counters>>

(* Mutant: the comparison the other way round.                             *)
MutantStatusHasChanged == copy.hash = copy.status

StatusHasChanged == copy.hash # copy.status

StatusUnchanged ==
  /\ pc = "update" /\ ~StatusHasChanged
  /\ pc' = "spawn"
  /\ UNCHANGED <<store, clock, informers, queued, reading, calls, recorded, counters>>

UpdateStatus ==
  /\ pc = "update" /\ StatusHasChanged
  /\ WriteSession([session EXCEPT !.status = copy.status], TRUE)
  /\ pc' = "annotate"
  /\ UNCHANGED <<pods, regs, ip, clock, cache, queued, reading, calls, edits, churn>>

(* Mutant: a conflict is taken for somebody else's success.                *)
MutantUpdateStatusFails ==
  /\ pc = "update" /\ StatusHasChanged
  /\ WriteSession([session EXCEPT !.status = copy.status], FALSE)
  /\ Return(FALSE)
  /\ UNCHANGED <<pods, regs, ip, clock, cache, edits, churn>>

UpdateStatusFails ==
  /\ pc = "update" /\ StatusHasChanged
  /\ WriteSession([session EXCEPT !.status = copy.status], FALSE)
  /\ Return(TRUE)
  /\ UNCHANGED <<pods, regs, ip, clock, cache, edits, churn>>

(* The whole object is sent: its clients too, but not the status.          *)
Annotated == [session EXCEPT !.hash = copy.status, !.clients = copy.clients]

UpdateAnnotation ==
  /\ pc = "annotate"
  /\ WriteSession(Annotated, TRUE)
  /\ pc' = "spawn"
  /\ UNCHANGED <<pods, regs, ip, clock, cache, queued, reading, calls, edits, churn>>

UpdateAnnotationFails ==
  /\ pc = "annotate"
  /\ WriteSession(Annotated, FALSE)
  /\ Return(TRUE)
  /\ UNCHANGED <<pods, regs, ip, clock, cache, edits, churn>>

SpawnClientPod(p) ==
  /\ pc = "spawn" /\ p \in toSpawn
  /\ SpawnPod(p, TRUE)
  /\ toSpawn' = toSpawn \ {p}
  /\ UNCHANGED <<session, regs, ip, clock, cache, queued, pc, reading, toCreate,
                 toDelete, recorded, edits, churn>>

SpawnFails(p) ==
  /\ pc = "spawn" /\ p \in toSpawn
  /\ SpawnPod(p, FALSE)
  /\ Return(TRUE)
  /\ UNCHANGED <<session, regs, ip, clock, cache, recorded, edits, churn>>

Done ==
  /\ pc = "spawn" /\ toSpawn = {}
  /\ Return(FALSE)
  /\ UNCHANGED <<store, clock, informers, recorded, counters>>

---------------------------------------------------------------------------
(* Informers: they catch up in one step; SessionUpdateFunc, PodUpdateFunc  *)
(* and the watch predicates decided on the way whether that is an event.   *)

(* Mutant: an update that is no event does not reach the cache either.     *)
MutantSyncSession ==
  /\ lag.session # "none"
  /\ cache' = IF lag.session = "event" THEN [cache EXCEPT !.session = session] ELSE cache
  /\ queued' = (queued \/ lag.session = "event")
  /\ lag' = [lag EXCEPT !.session = "none"]
  /\ UNCHANGED <<store, clock, pc, reading, calls, recorded, counters>>

SyncSession ==
  /\ lag.session # "none"
  /\ cache' = [cache EXCEPT !.session = session]
  /\ queued' = (queued \/ lag.session = "event")
  /\ lag' = [lag EXCEPT !.session = "none"]
  /\ UNCHANGED <<store, clock, pc, reading, calls, recorded, counters>>

(* Mutant: the deletion of a pod is filtered out, as its creation is.      *)
MutantSyncPods ==
  /\ lag.pods # "none"
  /\ cache' = [cache EXCEPT !.pods = pods]
  /\ queued' = (queued \/ (lag.pods = "event" /\ Existing(cache.pods) = Existing(pods)))
  /\ lag' = [lag EXCEPT !.pods = "none"]
  /\ UNCHANGED <<store, clock, pc, reading, calls, recorded, counters>>

SyncPods ==
  /\ lag.pods # "none"
  /\ cache' = [cache EXCEPT !.pods = pods]
  /\ queued' = (queued \/ lag.pods = "event")
  /\ lag' = [lag EXCEPT !.pods = "none"]
  /\ UNCHANGED <<store, clock, pc, reading, calls, recorded, counters>>

(* Registrations are not watched: no event.                                *)
SyncRegistrations ==
  /\ cache.regs # regs
  /\ cache' = [cache EXCEPT !.regs = regs]
  /\ UNCHANGED <<store, clock, lag, queued, pc, reading, calls, recorded, counters>>

(* The manager is restarted at any point: its locals are lost, the caches  *)
(* are filled anew and every session is queued.                            *)
Restart ==
  /\ Fault("restart")
  /\ Return(TRUE)
  /\ cache' = [session |-> session, pods |-> pods, regs |-> regs]
  /\ lag' = [session |-> "none", pods |-> "none"]
  /\ UNCHANGED <<store, clock, recorded, edits, churn>>

---------------------------------------------------------------------------
(* Everything outside the session controller.                              *)

(* The session manager patches spec.clients: a client is added, loses its  *)
(* connection, reconnects or is removed.                                   *)
EditClient(c, v) ==
  /\ session.live /\ edits < MaxEdits
  /\ <<session.clients[c], v>> \in EditKinds
  /\ session' = [session EXCEPT !.clients[c] = v]
  /\ current' = FALSE
  /\ lag' = [lag EXCEPT !.session = "event"]
  /\ edits' = edits + 1
  /\ UNCHANGED <<pods, regs, ip, clock, cache, queued, pc, copy, seenRegs, seenIp, listed,
                 newClients, calls, recorded, churn, faults>>

Churn(kind) ==
  /\ kind \in ChurnKinds /\ churn < MaxChurn
  /\ churn' = churn + 1
  /\ UNCHANGED <<clock, cache, queued, pc, copy, seenRegs, seenIp, listed, newClients,
                 calls, recorded, edits, faults>>

DeleteSession ==
  /\ Churn("session")
  /\ session.live
  /\ session' = [session EXCEPT !.live = FALSE]
  /\ current' = FALSE
  /\ lag' = [lag EXCEPT !.session = Behind(@)]
  /\ UNCHANGED <<pods, regs, ip>>

PodCondition(p, value) ==
  /\ Churn("condition")
  /\ pods[p] \notin {"gone", value} /\ value \in {"True", "False"}
  /\ pods' = [pods EXCEPT ![p] = value]
  /\ lag' = [lag EXCEPT !.pods = "event"]
  /\ UNCHANGED <<session, regs, ip, current>>

(* By the GC controller, an eviction, a lost node.                         *)
PodRemoved(p) ==
  /\ Churn("pod")
  /\ pods[p] # "gone"
  /\ pods' = [pods EXCEPT ![p] = "gone"]
  /\ lag' = [lag EXCEPT !.pods = "event"]
  /\ UNCHANGED <<session, regs, ip, current>>

(* By the GC controller.                                                   *)
RegistrationRemoved(p) ==
  /\ Churn("registration")
  /\ p \in regs
  /\ regs' = regs \ {p}
  /\ UNCHANGED <<session, pods, ip, current, lag>>

AssignIp ==
  /\ Churn("ip")
  /\ ~ip
  /\ ip' = TRUE
  /\ UNCHANGED <<session, pods, regs, current, lag>>

Tick ==
  /\ clock < MaxTime
  /\ clock' = clock + 1
  /\ UNCHANGED <<store, informers, queued, pc, reading, calls, recorded, counters>>

---------------------------------------------------------------------------

Reconcile ==
  \/ Begin \/ SessionNotFound \/ ReadFails
  \/ PanicOnMissingIp \/ GetPodsFails \/ ReconcileSessionPods
  \/ RegistrationFails \/ RegistrationsDone
  \/ \E p \in AllPods :
        \/ CreateGCRegistration(p) \/ DeleteGCRegistration(p)
        \/ RestorePod(p) \/ RestoreFails(p)
        \/ SpawnClientPod(p) \/ SpawnFails(p)
  \/ PodsRestored \/ ReportError
  \/ ReconcileClientPods \/ ListFails \/ ReconcilePods
  \/ \E c \in Clients : AllocateClient(c)
  \/ StatusUnchanged \/ UpdateStatus \/ UpdateStatusFails
  \/ UpdateAnnotation \/ UpdateAnnotationFails
  \/ Done

Sync == SyncSession \/ SyncPods \/ SyncRegistrations

Environment ==
  \/ Restart \/ DeleteSession \/ AssignIp \/ Tick
  \/ \E c \in Clients, v \in ClientStates : EditClient(c, v)
  \/ \E p \in AllPods :
        \/ PodRemoved(p) \/ RegistrationRemoved(p)
        \/ \E value \in {"True", "False"} : PodCondition(p, value)

Next == Reconcile \/ Sync \/ Environment

Spec == Init /\ [][Next]_vars

(* The workqueue runs Reconcile while the session is queued and a watch    *)
(* delivers what happened; neither faults nor the environment are fair.    *)
FairSpec ==
  /\ Spec
  /\ WF_vars(Reconcile) /\ WF_vars(SyncSession) /\ WF_vars(SyncPods)

---------------------------------------------------------------------------
(* Properties *)

TypeOK ==
  /\ session \in SessionType /\ copy \in SessionType
  /\ pods \in [AllPods -> PodStates] /\ listed \in [AllPods -> PodStates]
  /\ regs \subseteq AllPods /\ seenRegs \subseteq AllPods
  /\ ip \in BOOLEAN /\ seenIp \in BOOLEAN
  /\ clock \in 0..MaxTime
  /\ cache \in [session : SessionType, pods : [AllPods -> PodStates],
                regs : SUBSET AllPods]
  /\ lag \in [session : {"none", "quiet", "event"}, pods : {"none", "quiet", "event"}]
  /\ queued \in BOOLEAN /\ current \in BOOLEAN
  /\ pc \in Steps
  /\ newClients \subseteq Clients
  /\ toCreate \subseteq AllPods /\ toDelete \subseteq AllPods /\ toSpawn \subseteq AllPods
  /\ recorded \subseteq PodIds
  /\ edits \in 0..MaxEdits /\ churn \in 0..MaxChurn /\ faults \in 0..MaxFaults

(* No stored status puts more clients on a pod than its template allows    *)
(* (findFirstPodAvailable), whatever was allocated from stale copies: a    *)
(* client that needs a new pod gets it even where maxClients is below one. *)
WithinCapacity(status) ==
  \A p \in PodIds :
     Load(status, p) <= IF MaxClients[TemplateOf[p]] > 1
                        THEN MaxClients[TemplateOf[p]] ELSE 1

Capacity == WithinCapacity(session.status)

(* A client pod is spawned only after a stored status names it: wherever   *)
(* Reconcile stops, fails or is restarted, no pod is left that no later    *)
(* Reconcile knows of.                                                     *)
PodsRecorded == PodIds \cap Existing(pods) \subseteq recorded

(* A client of the session keeps its pods while it is connected, and while *)
(* it is disconnected until its grace period ends: no write of a status    *)
(* computed from an older Session takes them away.                         *)
Protected(c) ==
  LET seen == session.status.seen[c] IN
  /\ session.clients[c] # "absent" /\ seen # Absent
  /\ seen = defaultTime \/ clock < seen + TimeoutSeconds

KeepsPods ==
  [][\A c \in Clients :
       Protected(c) => session'.status.alloc[c] = session.status.alloc[c]]_vars

(* The annotation's Update sends the spec as well; it never changes it.    *)
SpecUntouched == [][session'.clients # session.clients => edits' # edits]_vars

(* Nothing is left to do: no event is on its way, no call is queued.       *)
Quiescent ==
  /\ pc = "idle" /\ ~queued
  /\ lag = [session |-> "none", pods |-> "none"]
  /\ cache.regs = regs

Served(c) ==
  /\ session.status.seen[c] = defaultTime
  /\ session.status.alloc[c] \subseteq Existing(pods)
  /\ \A t \in Templates : \E p \in session.status.alloc[c] : TemplateOf[p] = t

(* When the controller rests, every connected client is recorded as        *)
(* connected and has a running pod of each template, and no disconnected   *)
(* client is recorded as connected.                                        *)
SettledStatus ==
  Quiescent /\ session.live =>
     \A c \in Clients :
        /\ session.clients[c] = "up" => Served(c)
        /\ session.clients[c] = "down" => session.status.seen[c] # defaultTime

(* A client that connects and stays is served from some time on, through   *)
(* failing calls, restarts, pods that are removed and an ingress that gets *)
(* its IP late: until then Reconcile panics where there are session pods.  *)
JoinServed ==
  \A c \in Clients :
     <>[](session.live /\ ip /\ session.clients[c] = "up") => <>[]Served(c)

(* When the controller rests and a client is connected, every session pod  *)
(* exists: removed pods are restored, also after a restore that failed.    *)
SettledSessionPods ==
  Quiescent /\ session.live /\ Connected(session) => SessionPods \subseteq Existing(pods)

(* A connected client finds the session pods running from some time on,    *)
(* once the ingress has an IP.                                             *)
SessionPodsRestored ==
  <>[](session.live /\ ip /\ Connected(session)) => <>[](SessionPods \subseteq Existing(pods))

---------------------------------------------------------------------------
(* The abstract specification that the controller implements.              *)
Atomic == INSTANCE AtomicSession WITH
  live <- session.live, clients <- session.clients,
  since <- session.status.seen, alloc <- session.status.alloc,
  named <- recorded, running <- PodIds \cap Existing(pods)

(* Whatever the copies, caches and interruptions: every status that is     *)
(* stored is the stored one, reconciled at once with the clients that are  *)
(* stored, within the capacity of pods; pods are spawned for those alone;  *)
(* and nothing but an edit changes the clients.                            *)
AtomicReconcile == Atomic!Spec

---------------------------------------------------------------------------
(* Why the safety properties hold: an inductive invariant.                 *)

(* Every version of the Session that a stored status or annotation, the    *)
(* cache or the copy carries names recorded pods only; the status that is  *)
(* being computed does once it is stored.                                  *)
NamesRecorded(s) ==
  /\ AllocatedPods(s.status) \subseteq recorded
  /\ s.hash # NoHash => AllocatedPods(s.hash) \subseteq recorded

RecordedInv ==
  /\ NamesRecorded(session) /\ NamesRecorded(cache.session)
  /\ copy.hash # NoHash => AllocatedPods(copy.hash) \subseteq recorded
  /\ pc \in {"annotate", "spawn"} => AllocatedPods(copy.status) \subseteq recorded

(* The spawn calls still to be made are for session pods, or for pods that *)
(* the copy's status names; there are clients to allocate only while the   *)
(* loop over them runs.                                                    *)
CallsInv ==
  /\ pc # "allocate" => newClients = {}
  /\ pc \notin {"sessionRegs", "restore", "clientRegs", "update", "annotate", "spawn"} =>
        toSpawn = {}
  /\ pc \in {"sessionRegs", "restore"} => toSpawn \subseteq SessionPods
  /\ pc \in {"clientRegs", "update", "annotate", "spawn"} =>
        toSpawn \subseteq AllocatedPods(copy.status)

(* A cache that is not behind shows the store, and a copy that is current  *)
(* differs from the stored Session in its status only.                     *)
VersionInv ==
  /\ lag.session = "none" => cache.session = session
  /\ current => copy.clients = session.clients

(* The status being computed from a current copy keeps the entries of      *)
(* clients that no reconciliation may take away, and is the stored one but *)
(* for the session pods until the client pods are looked at; clients to be *)
(* allocated have no entry.                                                *)
SameEntries(status, other) == status.seen = other.seen /\ status.alloc = other.alloc

KeptInv ==
  /\ current => \A c \in Clients :
        Protected(c) => /\ copy.status.seen[c] # Absent
                        /\ copy.status.alloc[c] = session.status.alloc[c]
  /\ current /\ pc \in {"sessionPods", "sessionRegs", "restore", "clientPods"} =>
        SameEntries(copy.status, session.status)
  /\ \A c \in newClients : copy.status.seen[c] = Absent

(* No version of the status overfills a pod: what Capacity rests on.       *)
CapacityInv ==
  /\ WithinCapacity(session.status) /\ WithinCapacity(cache.session.status)
  /\ WithinCapacity(copy.status)

(* What the refinement rests on: the status that is computed from a current*)
(* copy is the stored one, then the stored one reconciled at some time,    *)
(* but for the clients that are still to be allocated.                     *)
ReconciledAt(t) ==
  \A c \in Clients :
     LET s == copy.status.seen[c]
         a == copy.status.alloc[c]
     IN IF c \in newClients
        THEN session.clients[c] = "up" /\ ~Atomic!Holds(c, t)
        ELSE Atomic!Entry(c, t, s, a)

ComputedInv ==
  /\ pc \in {"clientPods", "allocate", "clientRegs"} => Templates # {}
  /\ current =>
       /\ pc = "report" \/ (pc = "update" /\ Templates = {}) =>
             SameEntries(copy.status, session.status)
       /\ pc \in {"allocate", "clientRegs", "update"} /\ Templates # {} =>
             \E t \in 0..clock : ReconciledAt(t)

(* The statement the theorems rest on; PodsRecorded is part of it.         *)
IInv == RecordedInv /\ CallsInv /\ VersionInv /\ KeptInv /\ PodsRecorded

---------------------------------------------------------------------------
(* Why the controller rests only where it should.                          *)

(* Nothing has happened, since the session was last taken from the queue,  *)
(* that queues it again.                                                   *)
Undisturbed == ~queued /\ lag.session # "event" /\ lag.pods # "event"

(* What is no event: the clients of the session are the same, and no pod   *)
(* that the cache shows is missing.                                        *)
EventsInv ==
  /\ session.live => cache.session.live
  /\ lag.session # "event" => cache.session.clients = session.clients
  /\ lag.pods # "event" => Existing(cache.pods) \subseteq Existing(pods)
  /\ Undisturbed /\ pc # "idle" => copy.clients = session.clients

(* A call that nothing disturbs finds every session pod that is missing    *)
(* and does not end before all of them are there, or is called again.      *)
RestoredInv ==
  /\ EventsInv
  /\ Undisturbed /\ session.live /\ Connected(session) =>
       /\ pc \in {"sessionRegs", "restore"} =>
             SessionPods \subseteq Existing(pods) \cup toSpawn
       /\ pc \notin {"sessionPods", "sessionRegs", "restore", "report"} =>
             SessionPods \subseteq Existing(pods)

(* Clients join and drop, and do not come back: what SettledStatus needs,  *)
(* as a client that comes back may give the status an old hash.            *)
OneWay == EditKinds \subseteq {<<"absent", "up">>, <<"up", "down">>}

(* The states a client has been in, and the one that a status shows.       *)
Passed(c) ==
  CASE session.clients[c] = "absent" -> {"absent"}
    [] session.clients[c] = "up" -> {"absent", "up"}
    [] OTHER -> ClientStates

SeenAs(status, c) ==
  CASE status.seen[c] = Absent -> "absent"
    [] status.seen[c] = defaultTime -> "up"
    [] OTHER -> "down"

(* No version of the Session, however old, shows what has not happened; an *)
(* annotation that shows a client which is still connected has the pods of *)
(* the stored status, which is never older.                                *)
HistoryInv ==
  \A s \in {session, cache.session, copy}, c \in Clients :
     /\ s.clients[c] \in Passed(c) /\ SeenAs(s.status, c) \in Passed(c)
     /\ s.hash # NoHash =>
          /\ SeenAs(s.hash, c) \in Passed(c)
          /\ session.clients[c] = "up" /\ SeenAs(s.hash, c) = "up" =>
               SeenAs(session.status, c) = "up" /\ session.status.alloc[c] = s.hash.alloc[c]

(* Every entry has a pod of each template.                                 *)
PodOfEach(given) == \A t \in Templates : \E p \in given : TemplateOf[p] = t

EntriesInv ==
  \A s \in {session, cache.session, copy}, c \in Clients :
     s.status.seen[c] # Absent => PodOfEach(s.status.alloc[c])

(* A status shows a client as it is, or as none.                           *)
Shows(status, clients, c) ==
  /\ clients[c] = "up" => status.seen[c] = defaultTime
  /\ clients[c] = "down" => status.seen[c] # defaultTime

(* The status that is computed shows the clients of its copy, all but those*)
(* that are still to be allocated; with a current copy it is what is stored*)
(* before an error is reported and after it was written.                   *)
StatusInv ==
  /\ \A c \in newClients : copy.clients[c] = "up"
  /\ pc \in {"allocate", "clientRegs", "update", "annotate", "spawn"} =>
       \A c \in Clients \ newClients : Shows(copy.status, copy.clients, c)
  /\ current /\ pc \in {"report", "annotate"} => SameEntries(copy.status, session.status)

(* What skipping the write of a status cannot hide: that the stored one    *)
(* shows as connected a client that is not.                                *)
NotAhead(s, c) == s.hash # NoHash /\ SeenAs(s.hash, c) = "down" => SeenAs(s.status, c) # "up"

DroppedSince(s, c) ==
  session.clients[c] = "down" /\ SeenAs(s.status, c) # "up" => SeenAs(session.status, c) # "up"

SkippedInv ==
  \A c \in Clients :
     /\ NotAhead(session, c) /\ NotAhead(cache.session, c)
     /\ lag.session # "event" => DroppedSince(cache.session, c)
     /\ pc \in {"sessionPods", "sessionRegs", "restore", "clientPods"} =>
          NotAhead(copy, c) /\ (Undisturbed => DroppedSince(copy, c))
     /\ /\ Undisturbed /\ pc \in {"allocate", "clientRegs", "update"}
        /\ session.clients[c] = "down"
        /\ copy.hash # NoHash /\ copy.hash.seen[c] = copy.status.seen[c]
        => SeenAs(session.status, c) # "up"

(* Towards the end of a call that nothing disturbs, and after it, the      *)
(* stored status shows every client, and its pods are there.               *)
RestInv ==
  Undisturbed =>
     /\ pc = "allocate" => PodIds \cap Existing(listed) \subseteq Existing(pods)
     /\ pc \in {"clientRegs", "update", "annotate", "spawn"} =>
          AllocatedPods(copy.status) \subseteq Existing(pods) \cup toSpawn
     /\ session.live /\ pc \in {"annotate", "spawn", "idle"} => \A c \in Clients :
          /\ Shows(session.status, session.clients, c)
          /\ session.clients[c] = "up" =>
               IF pc = "idle" THEN session.status.alloc[c] \subseteq Existing(pods)
               ELSE session.status.alloc[c] = copy.status.alloc[c]

(* Where clients do not come back: a call that nothing disturbs leaves a   *)
(* status that shows every client and pods that are there, the write of it *)
(* being skipped only where it would not change that (StatusHasChanged).   *)
SettledInv ==
  EventsInv /\ HistoryInv /\ EntriesInv /\ StatusInv /\ SkippedInv /\ RestInv
=============================================================================
