-------------------------- MODULE NetworkController --------------------------
(***************************************************************************)
(* The network controller (controllers/network/internal/controller): it    *)
(* makes a service for every pod of the framework and a route to it in the *)
(* one ingress, and removes the routes whose service is gone.  Pods come   *)
(* and go under the same names; the cluster deletes the services of pods   *)
(* that are gone.                                                          *)
(*                                                                         *)
(* A pod is the number it has among all pods (its UID), a service that of  *)
(* the pod that owns it.  The paths of a pod's ports are published and     *)
(* removed in one Update: a pod has a route or it has none.  Reconcile has *)
(* one worker and handles all pods whatever key it is called for, so the   *)
(* work queue is the number of its keys; a key that is queued already is   *)
(* not queued twice.                                                       *)
(***************************************************************************)
EXTENDS Integers, FiniteSets

CONSTANTS
  PodNames,
  MaxPods,                \* bound on the pods that are ever created
  MaxKeys,                \* bound on the keys that are told apart in the work queue
  FaultKinds, MaxFaults

ASSUME NetworkConstantsAssumption ==
  /\ MaxPods \in Nat /\ MaxKeys \in Nat \ {0} /\ MaxFaults \in Nat
  /\ FaultKinds \subseteq {"error", "lost", "restart"}

VARIABLES
  pods, services,  \* what is stored under each name, 0: nothing
  routes,          \* names with paths in the stored ingress
  created,         \* how many pods there were
  cachedPods, cachedServices, cachedRoutes,  \* what the informers have seen
  podNews, serviceNews,  \* creations of pods and deletions of services to be seen
  outdated,        \* the cached ingress is not the stored version
  queued,          \* how many keys are in the work queue
  pc,              \* where Reconcile is
  listed,          \* the pods it has listed and not handled yet
  known, hollow,   \* servicesMap: names with a service, and with a nil entry
  faults,
  misled           \* history: the last Reconcile left the ingress as it was
                   \* because the one it read was a stale one

store == <<pods, services, routes>>
informers == <<cachedPods, cachedServices, cachedRoutes, podNews, serviceNews, outdated>>
locals == <<pc, listed, known, hollow>>
vars == <<store, created, informers, queued, locals, faults, misled>>

Nothing == [p \in PodNames |-> 0]
Those(map) == {p \in PodNames : map[p] # 0}

Init ==
  /\ pods = Nothing /\ services = Nothing /\ routes = {} /\ created = 0
  /\ cachedPods = Nothing /\ cachedServices = Nothing /\ cachedRoutes = {}
  /\ podNews = {} /\ serviceNews = {} /\ outdated = FALSE
  /\ queued = 0 /\ pc = "idle"
  /\ listed = Nothing /\ known = {} /\ hollow = {}
  /\ faults = 0 /\ misled = FALSE

Fault(kind) ==
  /\ kind \in FaultKinds /\ faults < MaxFaults
  /\ faults' = faults + 1

NoFault == UNCHANGED faults

---------------------------------------------------------------------------
(* Reconcile *)

(* A key of a pod or of a service, which may be in the queue already.      *)
Enqueue ==
  \/ queued < MaxKeys /\ queued' = queued + 1
  \/ queued > 0 /\ UNCHANGED queued

(* The locals are reset only to merge equal states.                        *)
Return ==
  /\ pc' = "idle"
  /\ listed' = Nothing /\ known' = {} /\ hollow' = {}

Succeed == Return /\ UNCHANGED queued
Fail == Return /\ Enqueue

Begin ==
  /\ pc = "idle" /\ queued > 0
  /\ queued' = queued - 1
  /\ pc' = "list"
  /\ listed' = cachedPods
  /\ UNCHANGED <<store, created, informers, known, hollow, faults, misled>>

(* Mutant: the names that servicesMap is asked for have no suffix.         *)
MutantListServices ==
  /\ pc = "list"
  /\ known' = Those(cachedServices)
  /\ pc' = "spawn"
  /\ UNCHANGED <<store, created, informers, queued, listed, hollow, faults, misled>>

ListServices ==
  /\ pc = "list"
  /\ known' = Those(cachedServices)
  /\ listed' = [p \in PodNames |-> IF cachedServices[p] # 0 THEN 0 ELSE listed[p]]
  /\ pc' = "spawn"
  /\ UNCHANGED <<store, created, informers, queued, hollow, faults, misled>>

ToSpawn == Those(listed)
Handled(p) == listed' = [listed EXCEPT ![p] = 0]

(* A List, or the Get of the ingress, fails.                               *)
ReadFails ==
  /\ pc = "list" \/ (pc = "spawn" /\ ToSpawn = {})
  /\ Fault("error") /\ Fail
  /\ UNCHANGED <<store, created, informers, misled>>

(* The service is owned by the pod that was listed.                        *)
CreateService(p) == services' = [services EXCEPT ![p] = listed[p]]

(* Mutant: a service that exists already gets no entry in servicesMap.     *)
MutantspawnService(p) ==
  /\ pc = "spawn" /\ p \in ToSpawn /\ NoFault
  /\ Handled(p)
  /\ \/ services[p] = 0 /\ CreateService(p) /\ known' = known \cup {p}
     \/ services[p] # 0 /\ UNCHANGED <<services, known>>
  /\ UNCHANGED <<pods, routes, created, informers, queued, pc, hollow, misled>>

(* Create; AlreadyExists leaves a nil entry in servicesMap.                *)
spawnService(p) ==
  /\ pc = "spawn" /\ p \in ToSpawn /\ NoFault
  /\ Handled(p)
  /\ \/ services[p] = 0 /\ CreateService(p) /\ known' = known \cup {p} /\ UNCHANGED hollow
     \/ services[p] # 0 /\ hollow' = hollow \cup {p} /\ UNCHANGED <<services, known>>
  /\ UNCHANGED <<pods, routes, created, informers, queued, pc, misled>>

(* The first failure ends Reconcile, whether the service was made or not.  *)
SpawnFails(p) ==
  /\ pc = "spawn" /\ p \in ToSpawn
  /\ \/ Fault("error") /\ UNCHANGED services
     \/ Fault("lost") /\ services[p] = 0 /\ CreateService(p)
  /\ Fail
  /\ UNCHANGED <<pods, routes, created, informers, misled>>

(* ingressGarbageCollection keeps the routes of entries in servicesMap, and *)
(* publishToIngress adds one for every entry of a name that had none.      *)
KeptRoutes == cachedRoutes \cap (known \cup hollow)
NewRoutes == (known \cup hollow) \ cachedRoutes
Reconciled == KeptRoutes \cup NewRoutes

ReadIngress ==
  /\ pc = "spawn" /\ ToSpawn = {}

(* A nil entry to publish is dereferenced; the panic is recovered and      *)
(* reported as an error.                                                   *)
PanicOnNilEntry ==
  /\ ReadIngress /\ NewRoutes \cap hollow # {}
  /\ Fail
  /\ UNCHANGED <<store, created, informers, faults, misled>>

IngressUnchanged ==
  /\ ReadIngress /\ Reconciled = cachedRoutes
  /\ misled' = (cachedRoutes # routes)
  /\ Succeed
  /\ UNCHANGED <<store, created, informers, faults>>

MustUpdate == ReadIngress /\ NewRoutes \cap hollow = {} /\ Reconciled # cachedRoutes

PutRoutes == routes' = Reconciled /\ outdated' = TRUE

UpdateIngress ==
  /\ MustUpdate /\ ~outdated /\ NoFault
  /\ PutRoutes /\ misled' = FALSE /\ Succeed
  /\ UNCHANGED <<pods, services, created, cachedPods, cachedServices, cachedRoutes,
                 podNews, serviceNews>>

(* Mutant: a Conflict is not reported.                                     *)
MutantUpdateIngressFails ==
  /\ MustUpdate
  /\ \/ outdated /\ NoFault /\ UNCHANGED <<routes, outdated>>
     \/ Fault("error") /\ UNCHANGED <<routes, outdated>>
     \/ ~outdated /\ Fault("lost") /\ PutRoutes
  /\ Succeed
  /\ UNCHANGED <<pods, services, created, cachedPods, cachedServices, cachedRoutes,
                 podNews, serviceNews, misled>>

(* A Conflict, no effect, or an effect without an answer.                  *)
UpdateIngressFails ==
  /\ MustUpdate
  /\ \/ outdated /\ NoFault /\ UNCHANGED <<routes, outdated>>
     \/ Fault("error") /\ UNCHANGED <<routes, outdated>>
     \/ ~outdated /\ Fault("lost") /\ PutRoutes
  /\ Fail
  /\ UNCHANGED <<pods, services, created, cachedPods, cachedServices, cachedRoutes,
                 podNews, serviceNews, misled>>

---------------------------------------------------------------------------
(* Informers: creations of pods and deletions of services are events.      *)

SyncPod(p) ==
  /\ p \in podNews \/ cachedPods[p] # pods[p]
  /\ cachedPods' = [cachedPods EXCEPT ![p] = pods[p]]
  /\ podNews' = podNews \ {p}
  /\ IF p \in podNews THEN Enqueue ELSE UNCHANGED queued
  /\ UNCHANGED <<store, created, cachedServices, cachedRoutes, serviceNews, outdated,
                 locals, faults, misled>>

(* Mutant: the deletion of a service is no event.                          *)
MutantSyncService(p) ==
  /\ p \in serviceNews \/ cachedServices[p] # services[p]
  /\ cachedServices' = [cachedServices EXCEPT ![p] = services[p]]
  /\ serviceNews' = serviceNews \ {p}
  /\ UNCHANGED <<store, created, cachedPods, cachedRoutes, podNews, outdated,
                 queued, locals, faults, misled>>

SyncService(p) ==
  /\ p \in serviceNews \/ cachedServices[p] # services[p]
  /\ cachedServices' = [cachedServices EXCEPT ![p] = services[p]]
  /\ serviceNews' = serviceNews \ {p}
  /\ IF p \in serviceNews THEN Enqueue ELSE UNCHANGED queued
  /\ UNCHANGED <<store, created, cachedPods, cachedRoutes, podNews, outdated,
                 locals, faults, misled>>

(* The ingress is cached, for it is read, and no event.                    *)
SyncIngress ==
  /\ outdated
  /\ cachedRoutes' = routes /\ outdated' = FALSE
  /\ UNCHANGED <<store, created, cachedPods, cachedServices, podNews, serviceNews,
                 queued, locals, faults, misled>>

(* The manager is restarted: the caches are filled anew, and every pod     *)
(* they find is a creation; deletions that it has missed are no event.     *)
Restart ==
  /\ Fault("restart")
  /\ cachedPods' = pods /\ cachedServices' = services /\ cachedRoutes' = routes
  /\ podNews' = {} /\ serviceNews' = {} /\ outdated' = FALSE
  /\ queued' \in 0..MaxKeys
  /\ queued' <= Cardinality(Those(pods)) /\ (queued' = 0 <=> Those(pods) = {})
  /\ Return
  /\ UNCHANGED <<store, created, misled>>

---------------------------------------------------------------------------
(* The session controller, the garbage collectors, the cluster.            *)

PodCreated(p) ==
  /\ pods[p] = 0 /\ created < MaxPods
  /\ created' = created + 1
  /\ pods' = [pods EXCEPT ![p] = created + 1]
  /\ podNews' = podNews \cup {p}
  /\ UNCHANGED <<services, routes, cachedPods, cachedServices, cachedRoutes, serviceNews,
                 outdated, queued, locals, faults, misled>>

PodDeleted(p) ==
  /\ pods[p] # 0
  /\ pods' = [pods EXCEPT ![p] = 0]
  /\ UNCHANGED <<services, routes, created, informers, queued, locals, faults, misled>>

(* Kubernetes collects a service whose owner is gone.                      *)
ServiceCollected(p) ==
  /\ services[p] \notin {0, pods[p]}
  /\ services' = [services EXCEPT ![p] = 0]
  /\ serviceNews' = serviceNews \cup {p}
  /\ UNCHANGED <<pods, routes, created, cachedPods, cachedServices, cachedRoutes, podNews,
                 outdated, queued, locals, faults, misled>>

---------------------------------------------------------------------------

Reconcile ==
  \/ Begin \/ ListServices \/ ReadFails
  \/ PanicOnNilEntry \/ IngressUnchanged \/ UpdateIngress \/ UpdateIngressFails
  \/ \E p \in PodNames : spawnService(p) \/ SpawnFails(p)

Next ==
  \/ Reconcile \/ SyncIngress \/ Restart
  \/ \E p \in PodNames :
        \/ SyncPod(p) \/ SyncService(p)
        \/ PodCreated(p) \/ PodDeleted(p) \/ ServiceCollected(p)

Spec == Init /\ [][Next]_vars

(* The worker takes what is queued, watches deliver, and Kubernetes        *)
(* collects; pods, faults and restarts are not fair.                       *)
FairSpec ==
  /\ Spec
  /\ WF_vars(Reconcile) /\ WF_vars(SyncIngress)
  /\ \A p \in PodNames :
        WF_vars(SyncPod(p)) /\ WF_vars(SyncService(p)) /\ WF_vars(ServiceCollected(p))

---------------------------------------------------------------------------
(* Properties *)

Owners == [PodNames -> 0..MaxPods]

(* servicesMap has one entry for a name, nil or not, and no entry yet for a*)
(* pod whose service is still to be made (spawnServices).                  *)
TypeOK ==
  /\ pods \in Owners /\ services \in Owners /\ routes \subseteq PodNames
  /\ created \in 0..MaxPods
  /\ cachedPods \in Owners /\ cachedServices \in Owners /\ cachedRoutes \subseteq PodNames
  /\ podNews \subseteq PodNames /\ serviceNews \subseteq PodNames /\ outdated \in BOOLEAN
  /\ queued \in 0..MaxKeys /\ pc \in {"idle", "list", "spawn"}
  /\ listed \in Owners
  /\ known \subseteq PodNames /\ hollow \subseteq PodNames
  /\ known \cap hollow = {} /\ ToSpawn \cap (known \cup hollow) = {}
  /\ pc # "spawn" => known = {} /\ hollow = {}
  /\ faults \in 0..MaxFaults /\ misled \in BOOLEAN

(* A pod that has its service keeps its route, although the list of        *)
(* services does not show the service yet: the nil entry of a service that *)
(* exists already is what keeps it.                                        *)
KeepsRoutes ==
  [][\A p \in routes \ routes' : services[p] = 0 \/ services[p] # pods[p]]_vars

(* No event is on its way, no key is queued and Kubernetes has collected.  *)
Quiescent ==
  /\ pc = "idle" /\ queued = 0
  /\ cachedPods = pods /\ cachedServices = services /\ ~outdated
  /\ podNews = {} /\ serviceNews = {}
  /\ \A p \in PodNames : services[p] \in {0, pods[p]}

(* When the controller rests, every pod has a service of its own, also one *)
(* that was recreated while the service of its predecessor was there.      *)
SettledServices == Quiescent => services = pods

(* When the controller rests and there is a pod, the pods are the names    *)
(* with a route, unless a stale ingress hid from it that one was missing.  *)
SettledRoutes ==
  Quiescent /\ Those(pods) # {} /\ ~misled => routes = Those(pods)

(* README.md:3-5 promises "stable network identities" without exception.   *)
EveryPodRouted == Quiescent => Those(pods) \subseteq routes

(* A pod that stays gets its service and, unless a stale ingress hides that*)
(* it lacks one, its route, and keeps them: through the collection of its  *)
(* predecessor's service, panics, failing calls and restarts.              *)
PodsServed ==
  \A p \in PodNames :
     <>[](pods[p] # 0) => <>[](services[p] = pods[p] /\ (p \in routes \/ misled))

---------------------------------------------------------------------------
(* Why KeepsRoutes holds: a service owned by the pod that is stored was    *)
(* created for a pod the cache has shown, so the cache shows it still, and *)
(* every Reconcile that has listed the services has an entry for it.       *)
OwnersSeen ==
  \A p \in PodNames : services[p] # 0 /\ services[p] = pods[p] =>
     /\ cachedPods[p] = pods[p]
     /\ pc = "list" => listed[p] # 0
     /\ pc = "spawn" => p \in ToSpawn \cup known \cup hollow

(* Numbers of pods are not given twice, and a pod that was listed is one   *)
(* the cache has shown.                                                    *)
Numbered ==
  \A p \in PodNames :
     /\ {pods[p], services[p], cachedPods[p], listed[p]} \subseteq 0..created
     /\ listed[p] # 0 /\ listed[p] = pods[p] => cachedPods[p] = pods[p]

(* What SettledServices rests on: a pod without a service is one that an   *)
(* event will tell of, or a key that waits or is being handled.            *)
Announced ==
  \A p \in PodNames :
     /\ cachedPods[p] # pods[p] /\ pods[p] # 0 => p \in podNews
     /\ cachedServices[p] # 0 /\ services[p] = 0 => p \in serviceNews
     /\ pods[p] # 0 /\ services[p] = 0 =>
           p \in podNews \cup serviceNews \/ queued > 0 \/ listed[p] # 0

FreshIngress == ~outdated => cachedRoutes = routes

(* What SettledRoutes rests on: an entry in servicesMap is a service, or a *)
(* deletion that is still to be handled; the routes that the last Reconcile*)
(* left are those of the services, unless it was misled.                   *)
Waiting == queued > 0 \/ podNews # {} \/ serviceNews # {}

Routed ==
  /\ pc = "spawn" =>
        \A p \in known \cup hollow : services[p] # 0 \/ p \in serviceNews \/ queued > 0
  /\ pc = "idle" /\ ~Waiting /\ ~misled /\ Those(pods) # {} =>
        \A p \in PodNames :
           /\ services[p] # 0 /\ services[p] = pods[p] => p \in routes
           /\ p \in routes => services[p] # 0

NetworkInv ==
  /\ OwnersSeen /\ Numbered /\ Announced /\ FreshIngress /\ Routed
  /\ pc = "idle" => Those(listed) = {}
  /\ pc # "spawn" => hollow = {}
=============================================================================
