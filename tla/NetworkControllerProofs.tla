----------------------- MODULE NetworkControllerProofs -----------------------
(***************************************************************************)
(* Theorems about the network controller, for every set of pods and every  *)
(* bound: types, the route that a running pod keeps, and the service that  *)
(* every pod has when the controller rests.                                *)
(***************************************************************************)
EXTENDS NetworkController, FiniteSetTheorems, TLAPS

LEMMA InitTyped == Init => TypeOK
<1>1. Nothing \in Owners
  BY NetworkConstantsAssumption DEF Owners, Nothing
<1>2. 0 \in 0..MaxPods /\ 0 \in 0..MaxKeys /\ 0 \in 0..MaxFaults
  BY NetworkConstantsAssumption
<1> QED
  BY <1>1, <1>2 DEF Init, TypeOK, ToSpawn, Those, Nothing

LEMMA ReturnTyped ==
  ASSUME Return
  PROVE  pc' = "idle" /\ listed' \in Owners /\ Those(listed)' = {}
         /\ known' = {} /\ hollow' = {}
BY NetworkConstantsAssumption DEF Return, Owners, Nothing, Those

LEMMA EnqueueTyped ==
  ASSUME TypeOK, Enqueue
  PROVE  queued' \in 0..MaxKeys /\ queued' > 0
BY NetworkConstantsAssumption DEF TypeOK, Enqueue

LEMMA FaultTyped ==
  ASSUME TypeOK, NEW kind, Fault(kind)
  PROVE  faults' \in 0..MaxFaults
BY NetworkConstantsAssumption DEF TypeOK, Fault

LEMMA NextTyped == TypeOK /\ [Next]_vars => TypeOK'
<1> SUFFICES ASSUME TypeOK, [Next]_vars PROVE TypeOK'
  OBVIOUS
<1> USE NetworkConstantsAssumption DEF ToSpawn, Those
<1>1. CASE Begin
  BY <1>1 DEF Begin, TypeOK, Owners, store, informers
<1>2. CASE ListServices
  BY <1>2 DEF ListServices, TypeOK, Owners, store, informers, Those
<1>3. CASE ReadFails
  BY <1>3, ReturnTyped, EnqueueTyped, FaultTyped
     DEF ReadFails, Fail, TypeOK, store, informers
<1>4. CASE PanicOnNilEntry
  BY <1>4, ReturnTyped, EnqueueTyped
     DEF PanicOnNilEntry, Fail, TypeOK, store, informers
<1>5. CASE IngressUnchanged
  BY <1>5, ReturnTyped DEF IngressUnchanged, Succeed, TypeOK, store, informers
<1>6. CASE UpdateIngress
  BY <1>6, ReturnTyped
     DEF UpdateIngress, Succeed, PutRoutes, Reconciled, KeptRoutes, NewRoutes, NoFault, TypeOK
<1>7. CASE UpdateIngressFails
  <2>1. routes' \subseteq PodNames /\ outdated' \in BOOLEAN /\ faults' \in 0..MaxFaults
    BY <1>7, FaultTyped
       DEF UpdateIngressFails, PutRoutes, Reconciled, KeptRoutes, NewRoutes, NoFault, TypeOK
  <2> QED
    BY <1>7, <2>1, ReturnTyped, EnqueueTyped DEF UpdateIngressFails, Fail, TypeOK
<1>8. ASSUME NEW p \in PodNames, spawnService(p) PROVE TypeOK'
  BY <1>8 DEF spawnService, Handled, CreateService, ToSpawn, Those, NoFault, TypeOK, Owners,
              informers
<1>9. ASSUME NEW p \in PodNames, SpawnFails(p) PROVE TypeOK'
  <2>1. services' \in Owners /\ faults' \in 0..MaxFaults
    BY <1>9, FaultTyped DEF SpawnFails, CreateService, TypeOK, Owners
  <2> QED
    BY <1>9, <2>1, ReturnTyped, EnqueueTyped DEF SpawnFails, Fail, TypeOK, informers
<1>10. ASSUME NEW p \in PodNames, SyncPod(p) PROVE TypeOK'
  BY <1>10, EnqueueTyped DEF SyncPod, TypeOK, Owners, store, locals
<1>11. ASSUME NEW p \in PodNames, SyncService(p) PROVE TypeOK'
  BY <1>11, EnqueueTyped DEF SyncService, TypeOK, Owners, store, locals
<1>12. CASE SyncIngress
  BY <1>12 DEF SyncIngress, TypeOK, store, locals
<1>13. CASE Restart
  BY <1>13, ReturnTyped, FaultTyped DEF Restart, TypeOK, store
<1>14. ASSUME NEW p \in PodNames, PodCreated(p) PROVE TypeOK'
  BY <1>14 DEF PodCreated, TypeOK, Owners, locals
<1>15. ASSUME NEW p \in PodNames, PodDeleted(p) PROVE TypeOK'
  BY <1>15 DEF PodDeleted, TypeOK, Owners, informers, locals
<1>16. ASSUME NEW p \in PodNames, ServiceCollected(p) PROVE TypeOK'
  BY <1>16 DEF ServiceCollected, TypeOK, Owners, locals
<1>17. CASE UNCHANGED vars
  BY <1>17 DEF vars, TypeOK, store, informers, locals
<1> QED
  BY <1>1, <1>2, <1>3, <1>4, <1>5, <1>6, <1>7, <1>8, <1>9, <1>10, <1>11, <1>12, <1>13,
     <1>14, <1>15, <1>16, <1>17 DEF Next, Reconcile

(* Every variable keeps its type, whatever the pods and the bounds.        *)
THEOREM NetworkTypes == Spec => []TypeOK
BY InitTyped, NextTyped, PTL DEF Spec

---------------------------------------------------------------------------
(* The inductive invariant, conjunct by conjunct                           *)

LEMMA InitInv == Init => NetworkInv
BY NetworkConstantsAssumption
   DEF Init, NetworkInv, OwnersSeen, Numbered, Announced, FreshIngress, Routed, Nothing, Those

(* What each action leaves alone, for the conjuncts it cannot disturb.     *)
LEMMA NumberedNext ==
  ASSUME TypeOK, NetworkInv, Next
  PROVE  Numbered'
<1> USE NetworkConstantsAssumption DEF TypeOK, Owners, NetworkInv, Numbered
<1>1. CASE Begin
  BY <1>1 DEF Begin, store, informers
<1>2. CASE ListServices
  BY <1>2 DEF ListServices, store, informers, Those
<1>3. CASE ReadFails \/ PanicOnNilEntry \/ IngressUnchanged \/ UpdateIngress
           \/ UpdateIngressFails
  BY <1>3 DEF ReadFails, PanicOnNilEntry, IngressUnchanged, UpdateIngress,
              UpdateIngressFails, Succeed, Fail, Return, Nothing, store, informers
<1>4. ASSUME NEW p \in PodNames, spawnService(p) PROVE Numbered'
  BY <1>4 DEF spawnService, Handled, CreateService, informers
<1>5. ASSUME NEW p \in PodNames, SpawnFails(p) PROVE Numbered'
  BY <1>5 DEF SpawnFails, CreateService, Fail, Return, Nothing, informers
<1>6. ASSUME NEW p \in PodNames, SyncPod(p) PROVE Numbered'
  BY <1>6 DEF SyncPod, store, locals
<1>7. ASSUME NEW p \in PodNames, SyncService(p) PROVE Numbered'
  BY <1>7 DEF SyncService, store, locals
<1>8. CASE SyncIngress
  BY <1>8 DEF SyncIngress, store, locals
<1>9. CASE Restart
  BY <1>9 DEF Restart, Return, Nothing, store
<1>10. ASSUME NEW p \in PodNames, PodCreated(p) PROVE Numbered'
  BY <1>10 DEF PodCreated, locals
<1>11. ASSUME NEW p \in PodNames, PodDeleted(p) PROVE Numbered'
  BY <1>11 DEF PodDeleted, informers, locals
<1>12. ASSUME NEW p \in PodNames, ServiceCollected(p) PROVE Numbered'
  BY <1>12 DEF ServiceCollected, locals
<1> QED
  BY <1>1, <1>2, <1>3, <1>4, <1>5, <1>6, <1>7, <1>8, <1>9, <1>10, <1>11, <1>12
     DEF Next, Reconcile

LEMMA OwnersSeenNext ==
  ASSUME TypeOK, NetworkInv, Next
  PROVE  OwnersSeen'
<1> USE NetworkConstantsAssumption DEF TypeOK, Owners, NetworkInv, Numbered, OwnersSeen
<1>1. CASE Begin
  BY <1>1 DEF Begin, store, informers
<1>2. CASE ListServices
  BY <1>2 DEF ListServices, ToSpawn, store, informers, Those
<1>3. CASE ReadFails \/ PanicOnNilEntry \/ IngressUnchanged \/ UpdateIngress
           \/ UpdateIngressFails
  BY <1>3 DEF ReadFails, PanicOnNilEntry, IngressUnchanged, UpdateIngress,
              UpdateIngressFails, Succeed, Fail, Return, store, informers
<1>4. ASSUME NEW p \in PodNames, spawnService(p) PROVE OwnersSeen'
  BY <1>4 DEF spawnService, Handled, CreateService, ToSpawn, Those, informers
<1>5. ASSUME NEW p \in PodNames, SpawnFails(p) PROVE OwnersSeen'
  BY <1>5 DEF SpawnFails, CreateService, Fail, Return, informers, ToSpawn, Those
<1>6. ASSUME NEW p \in PodNames, SyncPod(p) PROVE OwnersSeen'
  BY <1>6 DEF SyncPod, store, locals, ToSpawn, Those
<1>7. ASSUME NEW p \in PodNames, SyncService(p) PROVE OwnersSeen'
  BY <1>7 DEF SyncService, store, locals, ToSpawn, Those
<1>8. CASE SyncIngress
  BY <1>8 DEF SyncIngress, store, locals, ToSpawn, Those
<1>9. CASE Restart
  BY <1>9 DEF Restart, Return, store
<1>10. ASSUME NEW p \in PodNames, PodCreated(p) PROVE OwnersSeen'
  BY <1>10 DEF PodCreated, locals, ToSpawn, Those
<1>11. ASSUME NEW p \in PodNames, PodDeleted(p) PROVE OwnersSeen'
  BY <1>11 DEF PodDeleted, informers, locals, ToSpawn, Those
<1>12. ASSUME NEW p \in PodNames, ServiceCollected(p) PROVE OwnersSeen'
  BY <1>12 DEF ServiceCollected, locals, ToSpawn, Those
<1> QED
  BY <1>1, <1>2, <1>3, <1>4, <1>5, <1>6, <1>7, <1>8, <1>9, <1>10, <1>11, <1>12
     DEF Next, Reconcile

LEMMA AnnouncedNext ==
  ASSUME TypeOK, NetworkInv, Next
  PROVE  Announced'
<1> USE NetworkConstantsAssumption DEF TypeOK, Owners, NetworkInv, Numbered, Announced
<1>1. CASE Begin
  BY <1>1 DEF Begin, store, informers
<1>2. CASE ListServices
  BY <1>2 DEF ListServices, store, informers, Those
<1>3. CASE ReadFails \/ PanicOnNilEntry \/ IngressUnchanged \/ UpdateIngress
           \/ UpdateIngressFails
  BY <1>3, EnqueueTyped
     DEF ReadFails, PanicOnNilEntry, IngressUnchanged, UpdateIngress, MustUpdate, ReadIngress,
         UpdateIngressFails, Succeed, Fail, Return, store, informers, ToSpawn, Those
<1>4. ASSUME NEW p \in PodNames, spawnService(p) PROVE Announced'
  BY <1>4 DEF spawnService, Handled, CreateService, ToSpawn, Those, informers
<1>5. ASSUME NEW p \in PodNames, SpawnFails(p) PROVE Announced'
  BY <1>5, EnqueueTyped DEF SpawnFails, CreateService, Fail, Return, informers, ToSpawn, Those
<1>6. ASSUME NEW p \in PodNames, SyncPod(p) PROVE Announced'
  BY <1>6, EnqueueTyped DEF SyncPod, store, locals
<1>7. ASSUME NEW p \in PodNames, SyncService(p) PROVE Announced'
  BY <1>7, EnqueueTyped DEF SyncService, store, locals
<1>8. CASE SyncIngress
  BY <1>8 DEF SyncIngress, store, locals
<1>9. CASE Restart
  BY <1>9 DEF Restart, Return, store, Those
<1>10. ASSUME NEW p \in PodNames, PodCreated(p) PROVE Announced'
  BY <1>10 DEF PodCreated, locals
<1>11. ASSUME NEW p \in PodNames, PodDeleted(p) PROVE Announced'
  BY <1>11 DEF PodDeleted, informers, locals
<1>12. ASSUME NEW p \in PodNames, ServiceCollected(p) PROVE Announced'
  BY <1>12 DEF ServiceCollected, locals
<1> QED
  BY <1>1, <1>2, <1>3, <1>4, <1>5, <1>6, <1>7, <1>8, <1>9, <1>10, <1>11, <1>12
     DEF Next, Reconcile

LEMMA FreshIngressNext ==
  ASSUME NetworkInv, Next
  PROVE  FreshIngress'
BY DEF NetworkInv, FreshIngress, Next, Reconcile, Begin, ListServices, ReadFails,
       PanicOnNilEntry, IngressUnchanged, UpdateIngress, UpdateIngressFails, PutRoutes,
       spawnService, SpawnFails, SyncPod, SyncService, SyncIngress, Restart, PodCreated,
       PodDeleted, ServiceCollected, store, informers

LEMMA RoutedNext ==
  ASSUME TypeOK, NetworkInv, Next
  PROVE  Routed'
<1> USE NetworkConstantsAssumption DEF TypeOK, Owners, NetworkInv, Routed, Waiting
<1>1. CASE Begin
  BY <1>1 DEF Begin, store, informers
<1>2. CASE ListServices
  <2>1. pc' = "spawn" /\ UNCHANGED <<services, serviceNews, queued>>
    BY <1>2 DEF ListServices, store, informers
  <2>2. known' \cup hollow' = Those(cachedServices) \cup hollow
    BY <1>2 DEF ListServices
  <2> QED
    BY <2>1, <2>2 DEF Those, Announced
<1>3. CASE ReadFails \/ PanicOnNilEntry \/ UpdateIngressFails
  BY <1>3, EnqueueTyped DEF ReadFails, PanicOnNilEntry, UpdateIngressFails, Fail, Return
<1>4. CASE IngressUnchanged \/ UpdateIngress
  <2>1. pc' = "idle" /\ UNCHANGED <<services, pods, podNews, serviceNews, queued>>
    BY <1>4 DEF IngressUnchanged, UpdateIngress, Succeed, Return, store, informers
  <2>2. ~misled' => routes' = known \cup hollow
    BY <1>4 DEF IngressUnchanged, UpdateIngress, PutRoutes, Reconciled, KeptRoutes, NewRoutes,
                store
  <2>3. pc = "spawn" /\ ToSpawn = {}
    BY <1>4 DEF IngressUnchanged, UpdateIngress, MustUpdate, ReadIngress
  <2> QED
    BY <2>1, <2>2, <2>3 DEF OwnersSeen, Those
<1>5. ASSUME NEW p \in PodNames, spawnService(p) PROVE Routed'
  <2>1. pc = "spawn" /\ pc' = "spawn" /\ UNCHANGED <<serviceNews, queued>>
    BY <1>5 DEF spawnService, informers
  <2>2. services'[p] # 0 /\ known' \cup hollow' = known \cup hollow \cup {p}
    BY <1>5 DEF spawnService, CreateService, ToSpawn, Those
  <2>3. ASSUME NEW q \in PodNames \ {p} PROVE services'[q] = services[q]
    BY <1>5, <2>3 DEF spawnService, CreateService
  <2> QED
    BY <2>1, <2>2, <2>3
<1>6. ASSUME NEW p \in PodNames, SpawnFails(p) PROVE Routed'
  BY <1>6, EnqueueTyped DEF SpawnFails, Fail, Return
<1>7. ASSUME NEW p \in PodNames, SyncPod(p) PROVE Routed'
  BY <1>7, EnqueueTyped DEF SyncPod, store, locals
<1>8. ASSUME NEW p \in PodNames, SyncService(p) PROVE Routed'
  BY <1>8, EnqueueTyped DEF SyncService, store, locals
<1>9. CASE SyncIngress
  BY <1>9 DEF SyncIngress, store, locals
<1>10. CASE Restart
  BY <1>10 DEF Restart, Return, store
<1>11. ASSUME NEW p \in PodNames, PodCreated(p) PROVE Routed'
  BY <1>11 DEF PodCreated, locals
<1>12. ASSUME NEW p \in PodNames, PodDeleted(p) PROVE Routed'
  BY <1>12 DEF PodDeleted, informers, locals, Those
<1>13. ASSUME NEW p \in PodNames, ServiceCollected(p) PROVE Routed'
  BY <1>13 DEF ServiceCollected, locals
<1> QED
  BY <1>1, <1>2, <1>3, <1>4, <1>5, <1>6, <1>7, <1>8, <1>9, <1>10, <1>11, <1>12, <1>13
     DEF Next, Reconcile

LEMMA RestingNext ==
  ASSUME NetworkInv, Next
  PROVE  (pc = "idle" => Those(listed) = {})' /\ (pc # "spawn" => hollow = {})'
BY ReturnTyped
   DEF NetworkInv, Next, Reconcile, Begin, ListServices, ReadFails,
       PanicOnNilEntry, IngressUnchanged, UpdateIngress, UpdateIngressFails, Fail, Succeed,
       spawnService, SpawnFails, SyncPod, SyncService, SyncIngress, Restart, PodCreated,
       PodDeleted, ServiceCollected, locals, Those

LEMMA NetworkInvNext == TypeOK /\ NetworkInv /\ [Next]_vars => NetworkInv'
<1>1. CASE UNCHANGED vars
  BY <1>1 DEF vars, store, informers, locals, NetworkInv, OwnersSeen, Numbered, Announced,
              FreshIngress, Routed, Waiting, Those, ToSpawn
<1>2. CASE TypeOK /\ NetworkInv /\ Next
  BY <1>2, NumberedNext, OwnersSeenNext, AnnouncedNext, FreshIngressNext, RoutedNext,
     RestingNext
     DEF NetworkInv
<1> QED
  BY <1>1, <1>2

(* The invariant below holds for every set of pods and every bound: in it, *)
(* a service that a pod owns is one that the pod cache explains, which is  *)
(* why a list of services that lags behind does no harm.                   *)
THEOREM Inductive == Spec => [](TypeOK /\ NetworkInv)
BY InitTyped, NextTyped, InitInv, NetworkInvNext, PTL DEF Spec

---------------------------------------------------------------------------
(* What follows from it                                                    *)

LEMMA StepKeepsRoutes ==
  ASSUME TypeOK, NetworkInv, [Next]_vars, NEW p \in routes \ routes'
  PROVE  services[p] = 0 \/ services[p] # pods[p]
<1>1. CASE UNCHANGED vars
  BY <1>1 DEF vars, store
<1>2. CASE Next
  <2>1. MustUpdate /\ PutRoutes /\ ~outdated
    BY <1>2 DEF Next, Reconcile, Begin, ListServices, ReadFails, PanicOnNilEntry,
       IngressUnchanged, UpdateIngress, UpdateIngressFails, spawnService, SpawnFails,
       SyncPod, SyncService, SyncIngress, Restart, PodCreated, PodDeleted,
       ServiceCollected, store
  <2>2. p \in PodNames /\ p \in cachedRoutes /\ p \notin known \cup hollow
    BY <2>1 DEF TypeOK, NetworkInv, FreshIngress, PutRoutes, Reconciled, KeptRoutes, NewRoutes
  <2> QED
    BY <2>1, <2>2 DEF NetworkInv, OwnersSeen, MustUpdate, ReadIngress
<1> QED
  BY <1>1, <1>2

(* No Reconcile takes the route away from a pod that has its service,      *)
(* however far the caches are behind (ingressGarbageCollection).           *)
THEOREM RoutesKept == Spec => KeepsRoutes
<1>1. TypeOK /\ NetworkInv /\ [Next]_vars
        => [\A p \in routes \ routes' : services[p] = 0 \/ services[p] # pods[p]]_vars
  BY StepKeepsRoutes
<1> QED
  BY <1>1, Inductive, PTL DEF Spec, KeepsRoutes

LEMMA SettledServicesHold ==
  ASSUME TypeOK, NetworkInv
  PROVE  SettledServices
<1> SUFFICES ASSUME Quiescent PROVE services = pods
  BY DEF SettledServices
<1>1. ASSUME NEW p \in PodNames PROVE services[p] = pods[p]
  BY DEF Quiescent, NetworkInv, Announced, Those
<1> QED
  BY <1>1 DEF TypeOK, Owners

(* When the controller rests, every pod has a service that it owns,        *)
(* however its predecessors came and went under its name.                  *)
THEOREM ServicesSettle == Spec => []SettledServices
BY SettledServicesHold, Inductive, PTL

(* When the controller rests and there is a pod, the routes are those of   *)
(* the pods, unless it was misled by a stale ingress: nothing else, no     *)
(* conflict, panic, failure or restart, leaves the ingress wrong.          *)
THEOREM RoutesSettle == Spec => []SettledRoutes
<1>1. TypeOK /\ NetworkInv => SettledRoutes
  <2> SUFFICES ASSUME TypeOK, NetworkInv, Quiescent, Those(pods) # {}, ~misled
               PROVE  routes = Those(pods)
    BY DEF SettledRoutes
  <2>1. services = pods
    BY SettledServicesHold DEF SettledServices
  <2>2. pc = "idle" /\ ~Waiting
    BY NetworkConstantsAssumption DEF Quiescent, Waiting
  <2> QED
    BY <2>1, <2>2 DEF NetworkInv, Routed, TypeOK, Those
<1> QED
  BY <1>1, Inductive, PTL
=============================================================================
