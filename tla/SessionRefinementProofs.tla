----------------------- MODULE SessionRefinementProofs -----------------------
(***************************************************************************)
(* SessionController implements AtomicSession as long as the names of new  *)
(* pods are new: no pod serves more clients than its template allows, and  *)
(* copies, caches and interrupted calls do not show in what is stored.     *)
(***************************************************************************)
EXTENDS SessionSafetyProofs, FiniteSetTheorems

---------------------------------------------------------------------------
(* The capacity of pods.                                                   *)

(* A pod has a natural number of clients, no more than any status in which *)
(* they all were its clients already.                                      *)
LEMMA LoadShrinks ==
  ASSUME NEW status, NEW after, NEW p,
         \A c \in Clients : p \in after.alloc[c] => p \in status.alloc[c]
  PROVE  Load(status, p) \in Nat /\ Load(after, p) \in Nat /\ Load(after, p) <= Load(status, p)
<1>1. IsFiniteSet(Clients)
  BY ConstantsAssumption
<1>2. ClientsOf(after, p) \subseteq ClientsOf(status, p) /\ ClientsOf(status, p) \subseteq Clients
  BY DEF ClientsOf
<1>3. IsFiniteSet(ClientsOf(status, p))
  BY <1>1, <1>2, FS_Subset
<1> QED
  BY <1>2, <1>3, FS_Subset, FS_CardinalityType DEF Load

(* Forgetting clients, and changing anything but who is allocated what,    *)
(* overfills no pod.                                                       *)
LEMMA FewerClients ==
  ASSUME NEW status, NEW after, WithinCapacity(status),
         \A c \in Clients : after.alloc[c] \subseteq status.alloc[c]
  PROVE  WithinCapacity(after)
<1> SUFFICES ASSUME NEW p \in PodIds
             PROVE  Load(after, p) <= IF MaxClients[TemplateOf[p]] > 1
                                      THEN MaxClients[TemplateOf[p]] ELSE 1
  BY DEF WithinCapacity
<1>1. Load(status, p) \in Nat /\ Load(after, p) \in Nat /\ Load(after, p) <= Load(status, p)
  BY LoadShrinks
<1>2. MaxClients[TemplateOf[p]] \in Int
  BY ConstantsAssumption
<1> QED
  BY <1>1, <1>2 DEF WithinCapacity

(* Forgetting clients takes pods away, and gives none.                     *)
LEMMA ForgetAlloc ==
  ASSUME NEW status \in StatusType, NEW gone
  PROVE  \A c \in Clients : Forget(status, gone).alloc[c] \subseteq status.alloc[c]
<1>1. status \in StatusFields
  BY StatusTypeIs
<1> QED
  BY <1>1 DEF Forget, StatusFields

(* The pod a new client gets has room, or no clients at all.               *)
LEMMA CandidateHasRoom ==
  ASSUME ~UuidCollides, NEW status, NEW pool, NEW inUse, AllocatedPods(status) \subseteq inUse,
         NEW t \in Templates, NEW p \in CandidatePods(status, pool, inUse, t)
  PROVE  /\ TemplateOf[p] = t
         /\ Load(status, p) < MaxClients[t] \/ p \notin AllocatedPods(status)
<1>1. CASE AvailablePods(status, t) # {}
  <2>1. p \in AvailablePods(status, t)
    BY <1>1 DEF CandidatePods, findFirstPodAvailable
  <2> QED
    BY <2>1 DEF AvailablePods
<1>2. CASE AvailablePods(status, t) = {} /\ reutilizePod(status, pool, t) # {}
  <2>1. p \in reutilizePod(status, pool, t)
    BY <1>2 DEF CandidatePods
  <2> QED
    BY <2>1 DEF reutilizePod
<1>3. CASE AvailablePods(status, t) = {} /\ reutilizePod(status, pool, t) = {}
  <2>1. p \in newPodName(inUse, t)
    BY <1>3 DEF CandidatePods
  <2> QED
    BY <2>1 DEF newPodName
<1> QED
  BY <1>1, <1>2, <1>3

(* Allocating a client that has no entry overfills no pod.                 *)
LEMMA AllocatedWithinCapacity ==
  ASSUME ~UuidCollides, NEW status \in StatusType, WithinCapacity(status),
         NEW c \in Clients, NEW pool, NEW inUse, AllocatedPods(status) \subseteq inUse,
         NEW choice \in [Templates -> PodIds],
         \A t \in Templates : choice[t] \in CandidatePods(status, pool, inUse, t)
  PROVE  WithinCapacity(allocateClient(status, c, choice))
<1> DEFINE after == allocateClient(status, c, choice)
<1>1. /\ after.alloc[c] = {choice[t] : t \in Templates}
      /\ \A d \in Clients \ {c} : after.alloc[d] = status.alloc[d]
  BY AllocateClientType
<1> SUFFICES ASSUME NEW p \in PodIds
             PROVE  Load(after, p) <= IF MaxClients[TemplateOf[p]] > 1
                                      THEN MaxClients[TemplateOf[p]] ELSE 1
  BY DEF WithinCapacity
<1> HIDE DEF after
<1>2. MaxClients[TemplateOf[p]] \in Int /\ IsFiniteSet(Clients)
  BY ConstantsAssumption
<1>3. IsFiniteSet(ClientsOf(status, p)) /\ Load(status, p) \in Nat
  <2>1. ClientsOf(status, p) \subseteq Clients
    BY DEF ClientsOf
  <2> QED
    BY <1>2, <2>1, FS_Subset, FS_CardinalityType DEF Load
<1>4. Load(status, p) <= IF MaxClients[TemplateOf[p]] > 1 THEN MaxClients[TemplateOf[p]] ELSE 1
  BY DEF WithinCapacity
<1>5. CASE p \notin after.alloc[c]
  <2>1. Load(after, p) <= Load(status, p) /\ Load(after, p) \in Nat
    BY <1>1, <1>5, LoadShrinks
  <2> QED
    BY <1>2, <1>3, <1>4, <2>1
<1>6. CASE p \in after.alloc[c]
  <2>1. PICK t \in Templates : p = choice[t]
    BY <1>1, <1>6
  <2>2. /\ TemplateOf[p] = t
        /\ Load(status, p) < MaxClients[t] \/ p \notin AllocatedPods(status)
    BY <2>1, CandidateHasRoom
  <2>3. ClientsOf(after, p) \subseteq ClientsOf(status, p) \cup {c}
    BY <1>1 DEF ClientsOf
  <2>4. /\ IsFiniteSet(ClientsOf(status, p) \cup {c})
        /\ Cardinality(ClientsOf(status, p) \cup {c}) <= Load(status, p) + 1
        /\ Cardinality(ClientsOf(status, p) \cup {c}) \in Nat
    <3>1. /\ IsFiniteSet(ClientsOf(status, p) \cup {c})
          /\ Cardinality(ClientsOf(status, p) \cup {c}) =
                IF c \in ClientsOf(status, p) THEN Load(status, p) ELSE Load(status, p) + 1
      BY <1>3, FS_AddElement DEF Load
    <3> QED
      BY <1>3, <3>1
  <2>5. Load(after, p) <= Load(status, p) + 1 /\ Load(after, p) \in Nat
    <3>1. /\ Cardinality(ClientsOf(after, p)) <= Cardinality(ClientsOf(status, p) \cup {c})
          /\ IsFiniteSet(ClientsOf(after, p))
      BY <2>3, <2>4, FS_Subset
    <3>2. Cardinality(ClientsOf(after, p)) \in Nat
      BY <3>1, FS_CardinalityType
    <3> QED
      BY <1>3, <2>4, <3>1, <3>2 DEF Load
  <2>6. p \notin AllocatedPods(status) => Load(status, p) = 0
    <3>1. p \notin AllocatedPods(status) => ClientsOf(status, p) = {}
      BY DEF AllocatedPods, ClientsOf
    <3> QED
      BY <3>1, FS_EmptySet DEF Load
  <2> QED
    BY <1>2, <1>3, <2>2, <2>5, <2>6
<1> QED
  BY <1>5, <1>6 DEF after

---------------------------------------------------------------------------
(* The invariant of capacity.                                              *)

(* The copies Reconcile starts and ends with.                              *)
LEMMA NewSessionCapacity == WithinCapacity(NewSession.status)
<1>1. \A p \in PodIds : ClientsOf(NewSession.status, p) = {}
  BY NewStatusType DEF NewSession, ClientsOf, AllocatedPods
<1>2. \A p \in PodIds : Load(NewSession.status, p) = 0
  BY <1>1, FS_EmptySet DEF Load
<1>3. \A p \in PodIds : MaxClients[TemplateOf[p]] \in Int
  BY ConstantsAssumption
<1> QED
  BY <1>2, <1>3 DEF WithinCapacity

(* The empty status overfills no pod.                                      *)
LEMMA InitCapacity == Init => CapacityInv
BY NewSessionCapacity DEF Init, CapacityInv

(* A step of Reconcile leaves its copy's allocations, returns, takes a new *)
(* copy from the cache, forgets clients or allocates one.                  *)
LEMMA CopyCapacity ==
  ASSUME ~UuidCollides, TypeOK, IInv, CapacityInv, [Next]_vars
  PROVE  WithinCapacity(copy'.status)
<1> USE DEF store, informers, reading, calls, counters
<1>0. /\ copy \in SessionType /\ copy.status \in StatusType /\ clock \in Int /\ clock # Absent
      /\ WithinCapacity(copy.status)
  BY TypeOKParts, ClockIsInt, SessionUpdates DEF LocalsOK, CapacityInv
<1>1. ASSUME NEW status \in StatusType, copy' = [copy EXCEPT !.status = status],
             \A c \in Clients : status.alloc[c] \subseteq copy.status.alloc[c]
      PROVE  WithinCapacity(copy'.status)
  <2>1. copy'.status = status
    BY <1>0, <1>1, SessionUpdates
  <2> QED
    BY <1>0, <1>1, <2>1, FewerClients
<1>2. CASE copy' \in {copy, cache.session, NewSession}
  BY <1>2, NewSessionCapacity DEF CapacityInv
<1>3. CASE GetPodsFails \/ PodsRestored \/ \E p \in AllPods : RestoreFails(p)
  <2>1. PICK value \in {"Unknown", "False"} :
           copy' = [copy EXCEPT !.status = SetReadyCondition(copy.status, value)]
    BY <1>3 DEF GetPodsFails, PodsRestored, RestoreFails
  <2>2. /\ SetReadyCondition(copy.status, value) \in StatusType
        /\ SetReadyCondition(copy.status, value).alloc = copy.status.alloc
    BY <1>0, SetReadyConditionType
  <2> QED
    BY <1>1, <2>1, <2>2
<1>4. CASE ReconcileSessionPods
  <2>1. copy' = [copy EXCEPT !.status = SessionPodsStatus(copy.status, cache.pods)]
    BY <1>4 DEF ReconcileSessionPods
  <2>2. /\ SessionPodsStatus(copy.status, cache.pods) \in StatusType
        /\ SessionPodsStatus(copy.status, cache.pods).alloc = copy.status.alloc
    BY <1>0, SessionPodsStatusType
  <2> QED
    BY <1>1, <2>1, <2>2
<1>5. CASE ReconcileClientPods
  <2> DEFINE kept == cleanExpiredClientsFromStatus(clock, copy.status)
             changed == handleClientChanges(clock, copy.clients, kept)
             left == removeLeftClients(copy.clients, changed)
  <2>1. copy' = [copy EXCEPT !.status = left]
    BY <1>5 DEF ReconcileClientPods
  <2>2. /\ kept \in StatusType /\ changed \in StatusType /\ left \in StatusType
        /\ changed.alloc = kept.alloc
    BY <1>0, ReconciledStatus
  <2>3. \A c \in Clients : kept.alloc[c] \subseteq copy.status.alloc[c]
    BY <1>0, ForgetAlloc DEF cleanExpiredClientsFromStatus
  <2>4. \A c \in Clients : left.alloc[c] \subseteq changed.alloc[c]
    <3> HIDE DEF changed
    <3> QED
      BY <2>2, ForgetAlloc DEF removeLeftClients
  <2> HIDE DEF kept, changed, left
  <2> QED
    BY <1>1, <2>1, <2>2, <2>3, <2>4
<1>6. ASSUME NEW c \in Clients, AllocateClient(c)
      PROVE  WithinCapacity(copy'.status)
  <2>1. PICK choice \in [Templates -> PodIds] :
           /\ \A t \in Templates : choice[t] \in CandidatePods(copy.status, found, NamesInUse, t)
           /\ copy' = [copy EXCEPT !.status = allocateClient(copy.status, c, choice)]
    BY <1>6 DEF AllocateClient
  <2>2. allocateClient(copy.status, c, choice) \in StatusType
    BY <1>0, AllocateClientType
  <2>3. copy'.status = allocateClient(copy.status, c, choice)
    BY <1>0, <2>1, <2>2, SessionUpdates
  <2> QED
    BY <1>0, <2>1, <2>3, AllocatedWithinCapacity DEF NamesInUse
<1>7. CASE ReconcilePods
  <2> DEFINE after == setClientStatusReadiness(copy.status, PodIds \cap Ready(listed), seenIp)
  <2>1. copy' = [copy EXCEPT !.status = after]
    BY <1>7 DEF ReconcilePods
  <2>2. after \in StatusType /\ after.alloc = copy.status.alloc
    BY <1>0, SetReadinessType
  <2> HIDE DEF after
  <2> QED
    BY <1>1, <2>1, <2>2
<1>8. ASSUME \/ Begin \/ SessionNotFound \/ ReadFails \/ PanicOnMissingIp \/ RegistrationFails
             \/ RegistrationsDone \/ ReportError \/ ListFails \/ StatusUnchanged \/ UpdateStatus
             \/ UpdateStatusFails \/ UpdateAnnotation \/ UpdateAnnotationFails \/ Done
      PROVE  copy' \in {copy, cache.session, NewSession}
  BY <1>8
     DEF Begin, SessionNotFound, ReadFails, PanicOnMissingIp, RegistrationFails,
         RegistrationsDone, ReportError, ListFails, StatusUnchanged, UpdateStatus,
         UpdateStatusFails, UpdateAnnotation, UpdateAnnotationFails, Done, Return
<1>9. ASSUME \E p \in AllPods :
                \/ CreateGCRegistration(p) \/ DeleteGCRegistration(p)
                \/ RestorePod(p) \/ SpawnClientPod(p) \/ SpawnFails(p)
      PROVE  copy' \in {copy, cache.session, NewSession}
  BY <1>9
     DEF CreateGCRegistration, DeleteGCRegistration, RestorePod, SpawnClientPod, SpawnFails, Return
<1>10. ASSUME Sync \/ Environment \/ UNCHANGED vars
       PROVE  copy' \in {copy, cache.session, NewSession}
  BY <1>10
     DEF Sync, SyncSession, SyncPods, SyncRegistrations, Environment, Restart, DeleteSession,
         AssignIp, Tick, EditClient, PodRemoved, RegistrationRemoved, PodCondition, Churn, Return,
         vars
<1> QED
  BY <1>2, <1>3, <1>4, <1>5, <1>6, <1>7, <1>8, <1>9, <1>10 DEF Next, Reconcile

(* Every step keeps every version of the status within capacity.           *)
LEMMA NextCapacity ==
  ASSUME ~UuidCollides, TypeOK, IInv, CapacityInv, [Next]_vars
  PROVE  CapacityInv'
<1>1. WithinCapacity(copy'.status)
  BY CopyCapacity
<1>2. session'.status \in {session.status, copy.status}
  BY SessionWrites
<1>3. cache'.session \in {session, cache.session}
  BY CacheWrites
<1>4. WithinCapacity(session'.status) /\ WithinCapacity(cache'.session.status)
  BY <1>2, <1>3 DEF CapacityInv
<1> QED
  BY <1>1, <1>4 DEF CapacityInv, WithinCapacity, Load, ClientsOf

(* While the names of new pods are new, no stored status ever puts more    *)
(* clients on a pod than its template allows.                              *)
THEOREM CapacityHolds == ~UuidCollides => (Spec => []Capacity)
<1> SUFFICES ASSUME ~UuidCollides PROVE Spec => []Capacity
  OBVIOUS
<1>1. Init => CapacityInv
  BY InitCapacity
<1>2. TypeOK /\ IInv /\ CapacityInv /\ [Next]_vars => CapacityInv'
  BY NextCapacity
<1>3. CapacityInv => Capacity
  BY DEF CapacityInv, Capacity
<1> QED
  BY <1>1, <1>2, <1>3, Inductive, PTL DEF Spec

---------------------------------------------------------------------------
(* The status that is computed is the stored one reconciled: ComputedInv.  *)

(* Of a copy that is not current, or not being computed, nothing is said.  *)
LEMMA NothingComputed ==
  ASSUME pc' \in {"clientPods", "allocate", "clientRegs"} => Templates # {},
         ~current' \/ pc' \notin {"report", "allocate", "clientRegs", "update"}
  PROVE  ComputedInv'
BY DEF ComputedInv

(* Whether an entry is the stored one reconciled depends on the stored     *)
(* Session only.                                                           *)
LEMMA ReconciledNext ==
  ASSUME NEW t, session' = session,
         \A c \in Clients :
            IF c \in newClients'
            THEN session.clients[c] = "up" /\ ~Atomic!Holds(c, t)
            ELSE Atomic!Entry(c, t, copy'.status.seen[c], copy'.status.alloc[c])
  PROVE  ReconciledAt(t)'
<1>1. SUFFICES ASSUME NEW c \in Clients
               PROVE  IF c \in newClients'
                      THEN session'.clients[c] = "up" /\ ~Atomic!Holds(c, t)'
                      ELSE Atomic!Entry(c, t, copy.status.seen[c], copy.status.alloc[c])'
  BY DEF ReconciledAt
<1> QED
  BY DEF Atomic!Holds, Atomic!Entry, Atomic!Forgotten, Atomic!Kept, Atomic!Admitted,
         Atomic!Expired, Atomic!OnePodEach

(* A step that leaves the stored Session and the copy's entries alone keeps*)
(* what was computed, also when the clock moves.                           *)
LEMMA ComputedStays ==
  ASSUME WorldOK, ComputedInv, UNCHANGED <<session, current, newClients>>,
         clock' \in {clock, clock + 1},
         SameEntries(copy'.status, copy.status),
         \/ pc' = pc
         \/ pc = "allocate" /\ pc' = "clientRegs"
         \/ pc = "clientRegs" /\ pc' = "update"
  PROVE  ComputedInv'
<1>1. clock \in Nat /\ 0..clock \subseteq 0..clock'
  BY ClockIsInt
<1>2. \A t : ReconciledAt(t) => ReconciledAt(t)'
  BY ReconciledNext DEF ReconciledAt, SameEntries
<1>3. pc' \in {"clientPods", "allocate", "clientRegs"} => Templates # {}
  BY DEF ComputedInv
<1>4. ASSUME current', pc' = "report" \/ (pc' = "update" /\ Templates = {})
      PROVE  SameEntries(copy'.status, session'.status)
  BY <1>4 DEF ComputedInv, SameEntries
<1>5. ASSUME current', pc' \in {"allocate", "clientRegs", "update"}, Templates # {}
      PROVE  \E t \in 0..clock' : ReconciledAt(t)'
  BY <1>1, <1>2, <1>5 DEF ComputedInv
<1> QED
  BY <1>3, <1>4, <1>5 DEF ComputedInv

(* What the first half of ReconcileClientPods makes of one client's entry. *)
LEMMA ReconciledEntryIs ==
  ASSUME NEW status \in StatusType, NEW now \in Int, now # Absent, NEW clients,
         NEW c \in Clients
  PROVE  LET kept == cleanExpiredClientsFromStatus(now, status)
             left == removeLeftClients(clients, handleClientChanges(now, clients, kept))
             held == status.seen[c] # Absent /\ ~clientHasExpired(now, status.seen[c])
         IN /\ c \in newClientsIn(clients, kept) <=> clients[c] = "up" /\ ~held
            /\ clients[c] = "absent" \/ ~held => left.seen[c] = Absent /\ left.alloc[c] = {}
            /\ clients[c] # "absent" /\ held =>
                  /\ left.alloc[c] = status.alloc[c]
                  /\ clients[c] = "up" => left.seen[c] = defaultTime
                  /\ clients[c] = "down" =>
                        left.seen[c] = IF status.seen[c] = defaultTime THEN now
                                       ELSE status.seen[c]
<1> DEFINE kept == cleanExpiredClientsFromStatus(now, status)
           changed == handleClientChanges(now, clients, kept)
           left == removeLeftClients(clients, changed)
           held == status.seen[c] # Absent /\ ~clientHasExpired(now, status.seen[c])
<1>0. /\ kept \in StatusType /\ changed \in StatusType /\ left \in StatusType
      /\ changed.alloc = kept.alloc
  BY ReconciledStatus
<1>1. status \in StatusFields /\ kept \in StatusFields /\ changed \in StatusFields
  BY <1>0, StatusTypeIs
<1>2. /\ kept.seen[c] = IF held THEN status.seen[c] ELSE Absent
      /\ held => kept.alloc[c] = status.alloc[c]
  BY <1>1 DEF cleanExpiredClientsFromStatus, Forget, StatusFields
<1>3. changed.seen[c] =
         IF kept.seen[c] = defaultTime /\ clients[c] = "down" THEN now
         ELSE IF kept.seen[c] # Absent /\ clients[c] = "up" THEN defaultTime ELSE kept.seen[c]
  <2> HIDE DEF kept
  <2> QED
    BY <1>1 DEF handleClientChanges, StatusFields
<1>4. /\ left.seen[c] = IF clients[c] = "absent" THEN Absent ELSE changed.seen[c]
      /\ clients[c] # "absent" => left.alloc[c] = kept.alloc[c]
  <2> HIDE DEF changed, kept
  <2> QED
    BY <1>0, <1>1 DEF removeLeftClients, Forget, StatusFields
<1>5. left.seen[c] = Absent => left.alloc[c] = {}
  <2> HIDE DEF left
  <2> QED
    BY <1>0 DEF StatusType
<1>6. c \in newClientsIn(clients, kept) <=> clients[c] = "up" /\ kept.seen[c] = Absent
  BY DEF newClientsIn
<1> HIDE DEF kept, changed, left
<1>7. defaultTime # Absent
  BY DEF defaultTime, Absent
<1> QED
  BY <1>2, <1>3, <1>4, <1>5, <1>6, <1>7 DEF kept, changed, left

(* A client is held by the abstract status as long as its grace period is  *)
(* not over for clientHasExpired.                                          *)
LEMMA HoldsIs ==
  ASSUME NEW c \in Clients, NEW t
  PROVE  Atomic!Holds(c, t) <=> /\ session.status.seen[c] # Absent
                                /\ ~clientHasExpired(t, session.status.seen[c])
BY DEF Atomic!Holds, Atomic!Expired, Atomic!Here, Atomic!Never, clientHasExpired, defaultTime,
       Absent

(* Before anything is allocated, each client's entry is the reconciled one.*)
LEMMA ClientPodsComputed ==
  ASSUME TypeOK, IInv, ComputedInv, ReconcileClientPods
  PROVE  ComputedInv'
<1> USE DEF store, informers, reading, calls, counters
<1>0. /\ CopyInv /\ copy \in SessionType /\ copy.status \in StatusType
      /\ clock \in Int /\ clock # Absent /\ clock \in 0..clock
      /\ session.clients \in [Clients -> ClientStates]
  <2>1. clock \in Int /\ clock # Absent /\ clock \in 0..clock
    BY TypeOKParts, ClockIsInt
  <2>2. session \in SessionType
    BY TypeOKParts DEF WorldOK
  <2> QED
    BY <2>1, <2>2, IInvParts, TypeOKParts, SessionUpdates DEF LocalsOK
<1> DEFINE kept == cleanExpiredClientsFromStatus(clock, copy.status)
           left == removeLeftClients(copy.clients, handleClientChanges(clock, copy.clients, kept))
<1>1. /\ copy' = [copy EXCEPT !.status = left]
      /\ newClients' = newClientsIn(copy.clients, kept)
      /\ pc = "clientPods" /\ pc' = "allocate" /\ Templates # {}
      /\ UNCHANGED <<session, current, clock>>
  BY DEF ReconcileClientPods, ComputedInv
<1>2. left \in StatusType
  BY <1>0, ReconciledStatus
<1>3. copy'.status = left
  BY <1>0, <1>1, <1>2, SessionUpdates
<1>4. ASSUME current, NEW c \in Clients
      PROVE  IF c \in newClients'
             THEN session.clients[c] = "up" /\ ~Atomic!Holds(c, clock)
             ELSE Atomic!Entry(c, clock, left.seen[c], left.alloc[c])
  <2> DEFINE held == /\ copy.status.seen[c] # Absent
                     /\ ~clientHasExpired(clock, copy.status.seen[c])
  <2>1. SameEntries(copy.status, session.status) /\ copy.clients = session.clients
    BY <1>0, <1>1, <1>4 DEF CopyInv, KeptInv
  <2>2. held <=> Atomic!Holds(c, clock)
    BY <2>1, HoldsIs DEF SameEntries
  <2>3. /\ c \in newClients' <=> copy.clients[c] = "up" /\ ~held
        /\ copy.clients[c] = "absent" \/ ~held => left.seen[c] = Absent /\ left.alloc[c] = {}
        /\ copy.clients[c] # "absent" /\ held =>
              /\ left.alloc[c] = copy.status.alloc[c]
              /\ copy.clients[c] = "up" => left.seen[c] = defaultTime
              /\ copy.clients[c] = "down" =>
                    left.seen[c] = IF copy.status.seen[c] = defaultTime THEN clock
                                   ELSE copy.status.seen[c]
    BY <1>0, <1>1, ReconciledEntryIs
  <2>4. session.clients[c] \in {"absent", "down", "up"}
    BY <1>0 DEF ClientStates
  <2> HIDE DEF kept, left, held
  <2> QED
    BY <2>1, <2>2, <2>3, <2>4
       DEF SameEntries, Atomic!Entry, Atomic!Forgotten, Atomic!Kept, Atomic!Here, Atomic!Never,
           defaultTime, Absent
<1> HIDE DEF kept, left
<1>5. current => \E t \in 0..clock : ReconciledAt(t)'
  <2>1. PICK t \in 0..clock : t = clock
    BY <1>0
  <2> QED
    BY <1>1, <1>3, <1>4, <2>1, ReconciledNext
<1> QED
  BY <1>1, <1>5 DEF ComputedInv

(* A client that is allocated gets one pod of each template.               *)
LEMMA AllocateComputed ==
  ASSUME TypeOK, IInv, ComputedInv, NEW c \in Clients, AllocateClient(c)
  PROVE  ComputedInv'
<1> USE DEF store, informers, reading, calls, counters
<1>0. copy \in SessionType /\ copy.status \in StatusType
  BY TypeOKParts, SessionUpdates DEF LocalsOK
<1>1. PICK choice \in [Templates -> PodIds] :
         /\ \A t \in Templates : choice[t] \in CandidatePods(copy.status, found, NamesInUse, t)
         /\ copy' = [copy EXCEPT !.status = allocateClient(copy.status, c, choice)]
  BY DEF AllocateClient
<1> DEFINE after == allocateClient(copy.status, c, choice)
<1>2. /\ after \in StatusType
      /\ after.seen[c] = defaultTime /\ after.alloc[c] = {choice[t] : t \in Templates}
      /\ \A d \in Clients \ {c} : /\ after.alloc[d] = copy.status.alloc[d]
                                  /\ after.seen[d] = copy.status.seen[d]
  <2>1. copy.status \in StatusFields
    BY <1>0, StatusTypeIs
  <2>2. after.seen[c] = defaultTime
    BY <2>1 DEF allocateClient, StatusFields
  <2> QED
    BY <1>0, <2>2, AllocateClientType
<1>3. \A t \in Templates : TemplateOf[choice[t]] = t
  BY <1>1, CandidateTemplate
<1>4. copy'.status = after
  BY <1>0, <1>1, <1>2, SessionUpdates
<1> HIDE DEF after
<1>5. /\ c \in newClients /\ newClients' = newClients \ {c}
      /\ pc = "allocate" /\ pc' = "allocate" /\ UNCHANGED <<session, current, clock>>
  BY DEF AllocateClient
<1>6. ASSUME NEW t, ReconciledAt(t)
      PROVE  ReconciledAt(t)'
  <2>1. SUFFICES ASSUME NEW d \in Clients
                 PROVE  IF d \in newClients'
                        THEN session.clients[d] = "up" /\ ~Atomic!Holds(d, t)
                        ELSE Atomic!Entry(d, t, after.seen[d], after.alloc[d])
    BY <1>4, <1>5, ReconciledNext
  <2>2. IF d \in newClients
        THEN session.clients[d] = "up" /\ ~Atomic!Holds(d, t)
        ELSE Atomic!Entry(d, t, copy.status.seen[d], copy.status.alloc[d])
    BY <1>6 DEF ReconciledAt
  <2>3. CASE d = c
    <3>1. Atomic!OnePodEach(after.alloc[c])
      BY <1>2, <1>3 DEF Atomic!OnePodEach
    <3> QED
      BY <1>2, <1>5, <2>2, <2>3, <3>1
         DEF Atomic!Entry, Atomic!Admitted, Atomic!Here, defaultTime
  <2>4. CASE d # c
    BY <1>2, <1>5, <2>2, <2>4
  <2> QED
    BY <2>3, <2>4
<1> QED
  BY <1>5, <1>6 DEF ComputedInv

(* The session pods half leaves the entries of the stored status.          *)
LEMMA SessionPodsComputed ==
  ASSUME TypeOK, IInv, ComputedInv,
         \/ GetPodsFails \/ ReconcileSessionPods \/ PodsRestored
         \/ \E p \in AllPods : RestoreFails(p)
  PROVE  ComputedInv'
<1> USE DEF store, informers, reading, calls, counters
<1>0. CopyInv /\ copy \in SessionType /\ copy.status \in StatusType /\ clock \in Int
  BY IInvParts, TypeOKParts, ClockIsInt, SessionUpdates DEF LocalsOK
<1>1. PICK status \in StatusType :
         copy' = [copy EXCEPT !.status = status] /\ SameEntries(status, copy.status)
  <2>1. CASE ReconcileSessionPods
    BY <1>0, <2>1, SessionPodsStatusType DEF ReconcileSessionPods, SameEntries
  <2>2. CASE GetPodsFails \/ PodsRestored \/ \E p \in AllPods : RestoreFails(p)
    <3>1. PICK value \in {"Unknown", "False"} :
             copy' = [copy EXCEPT !.status = SetReadyCondition(copy.status, value)]
      BY <2>2 DEF GetPodsFails, PodsRestored, RestoreFails
    <3> QED
      BY <1>0, <3>1, SetReadyConditionType DEF SameEntries
  <2> QED
    BY <2>1, <2>2
<1>2. SameEntries(copy'.status, copy.status)
  BY <1>0, <1>1, SessionUpdates
<1>3. /\ UNCHANGED <<session, current>> /\ pc \in {"sessionPods", "restore"}
      /\ \/ pc' \in {"report", "sessionRegs"}
         \/ pc' = "clientPods" /\ Templates # {}
         \/ pc' = "update" /\ Templates = {}
  BY DEF GetPodsFails, ReconcileSessionPods, PodsRestored, RestoreFails, AfterSessionPods
<1>4. current => SameEntries(copy'.status, session'.status)
  BY <1>0, <1>2, <1>3 DEF CopyInv, KeptInv, SameEntries
<1> QED
  BY <1>3, <1>4 DEF ComputedInv

(* Registering pods follows one half of Reconcile or the other.            *)
LEMMA RegistrationsComputed ==
  ASSUME TypeOK, IInv, ComputedInv,
         \/ RegistrationFails \/ RegistrationsDone
         \/ \E p \in AllPods : CreateGCRegistration(p) \/ DeleteGCRegistration(p)
  PROVE  ComputedInv'
<1> USE DEF store, informers, reading, calls, counters
<1>0. WorldOK /\ CopyInv
  BY IInvParts, TypeOKParts
<1>1. UNCHANGED <<session, copy, current, newClients, clock>>
  BY DEF RegistrationFails, RegistrationsDone, CreateGCRegistration, DeleteGCRegistration
<1>2. \/ pc' = pc
      \/ pc = "clientRegs" /\ pc' = "update"
      \/ pc = "sessionRegs" /\ \/ pc' = "restore"
                               \/ pc' = "clientPods" /\ Templates # {}
                               \/ pc' = "update" /\ Templates = {}
  BY DEF RegistrationFails, RegistrationsDone, CreateGCRegistration, DeleteGCRegistration,
         AfterSessionPods
<1>3. CASE pc' = pc \/ (pc = "clientRegs" /\ pc' = "update")
  BY <1>0, <1>1, <1>3, ComputedStays DEF SameEntries
<1>4. CASE pc = "sessionRegs" /\ pc' # pc
  <2>1. current => SameEntries(copy'.status, session'.status)
    BY <1>0, <1>1, <1>4 DEF CopyInv, KeptInv
  <2> QED
    BY <1>1, <1>2, <1>4, <2>1 DEF ComputedInv
<1> QED
  BY <1>2, <1>3, <1>4

(* Reporting readiness changes no entry.                                   *)
LEMMA ReconcilePodsComputed ==
  ASSUME TypeOK, IInv, ComputedInv, ReconcilePods
  PROVE  ComputedInv'
<1> USE DEF store, informers, reading, calls, counters
<1>0. WorldOK /\ copy \in SessionType /\ copy.status \in StatusType
  BY TypeOKParts, SessionUpdates DEF LocalsOK
<1> DEFINE after == setClientStatusReadiness(copy.status, PodIds \cap Ready(listed), seenIp)
<1>1. after \in StatusType /\ SameEntries(after, copy.status)
  BY <1>0, SetReadinessType DEF SameEntries
<1>2. /\ copy' = [copy EXCEPT !.status = after]
      /\ pc = "allocate" /\ pc' = "clientRegs"
      /\ UNCHANGED <<session, current, clock, newClients>>
  BY DEF ReconcilePods
<1> HIDE DEF after
<1>3. copy'.status = after
  BY <1>0, <1>1, <1>2, SessionUpdates
<1> QED
  BY <1>0, <1>1, <1>2, <1>3, ComputedStays

(* The steps after which nothing is being computed.                        *)
LEMMA NotComputing ==
  ASSUME TypeOK, IInv, ComputedInv,
         \/ PanicOnMissingIp \/ ListFails \/ Done \/ ReportError \/ UpdateStatus
         \/ UpdateStatusFails \/ UpdateAnnotation \/ UpdateAnnotationFails \/ StatusUnchanged
         \/ Restart \/ DeleteSession
         \/ \E p \in AllPods : SpawnFails(p)
         \/ \E c \in Clients, v \in ClientStates : EditClient(c, v)
  PROVE  ComputedInv'
<1>1. CASE \/ PanicOnMissingIp \/ ListFails \/ Done \/ ReportError \/ UpdateStatusFails
           \/ UpdateAnnotationFails \/ Restart \/ \E p \in AllPods : SpawnFails(p)
  BY <1>1, NothingComputed
     DEF PanicOnMissingIp, ListFails, Done, ReportError, UpdateStatusFails, UpdateAnnotationFails,
         Restart, SpawnFails, Return
<1>2. CASE UpdateStatus \/ UpdateAnnotation \/ StatusUnchanged
  BY <1>2, NothingComputed DEF UpdateStatus, UpdateAnnotation, StatusUnchanged
<1>3. CASE DeleteSession \/ \E c \in Clients, v \in ClientStates : EditClient(c, v)
  BY <1>3, NothingComputed DEF DeleteSession, EditClient, Churn, ComputedInv
<1> QED
  BY <1>1, <1>2, <1>3

(* The steps that touch neither the stored Session nor the copy.           *)
LEMMA OthersComputed ==
  ASSUME TypeOK, ComputedInv,
         \/ SessionNotFound \/ ReadFails \/ Sync \/ AssignIp \/ Tick \/ UNCHANGED vars
         \/ \E p \in AllPods :
               \/ RestorePod(p) \/ SpawnClientPod(p) \/ PodRemoved(p) \/ RegistrationRemoved(p)
               \/ \E value \in {"True", "False"} : PodCondition(p, value)
  PROVE  ComputedInv'
<1> USE DEF store, informers, reading, calls, counters
<1>1. /\ UNCHANGED <<session, copy, current, newClients, pc>>
      /\ clock' \in {clock, clock + 1}
  <2>1. CASE SessionNotFound \/ ReadFails \/ Sync \/ UNCHANGED vars
    BY <2>1 DEF SessionNotFound, ReadFails, Sync, SyncSession, SyncPods, SyncRegistrations, vars
  <2>2. CASE AssignIp \/ Tick
    BY <2>2 DEF AssignIp, Tick, Churn
  <2>3. CASE \E p \in AllPods :
               \/ RestorePod(p) \/ SpawnClientPod(p) \/ PodRemoved(p) \/ RegistrationRemoved(p)
               \/ \E value \in {"True", "False"} : PodCondition(p, value)
    BY <2>3 DEF RestorePod, SpawnClientPod, PodRemoved, RegistrationRemoved, PodCondition, Churn
  <2> QED
    BY <2>1, <2>2, <2>3
<1> QED
  BY <1>1, TypeOKParts, ComputedStays DEF SameEntries

(* Begin computes nothing yet; without client pods its copy is stored as it*)
(* is.                                                                     *)
LEMMA BeginComputed ==
  ASSUME TypeOK, IInv, ComputedInv, Begin
  PROVE  ComputedInv'
<1> USE DEF store, informers, reading, calls, counters
<1>1. StoreInv
  BY IInvParts
<1>2. /\ copy' = cache.session /\ session' = session
      /\ current' => cache.session = session
      /\ \/ pc' = "sessionPods"
         \/ pc' = "clientPods" /\ Templates # {}
         \/ pc' = "update" /\ Templates = {}
  BY <1>1 DEF Begin, AfterSessionPods, StoreInv
<1> QED
  BY <1>2 DEF ComputedInv, SameEntries

(* Every step keeps ComputedInv.                                           *)
LEMMA NextComputed ==
  ASSUME TypeOK, IInv, ComputedInv, [Next]_vars
  PROVE  ComputedInv'
<1>1. CASE Reconcile
  BY <1>1, BeginComputed, SessionPodsComputed, RegistrationsComputed, ClientPodsComputed,
     AllocateComputed, ReconcilePodsComputed, NotComputing, OthersComputed DEF Reconcile
<1>2. CASE Sync \/ UNCHANGED vars
  BY <1>2, OthersComputed
<1>3. CASE Environment
  BY <1>3, NotComputing, OthersComputed DEF Environment
<1> QED
  BY <1>1, <1>2, <1>3 DEF Next

(* Initially nothing is being computed.                                    *)
LEMMA InitComputed == Init => ComputedInv
BY DEF Init, ComputedInv

---------------------------------------------------------------------------
(* Each step is a step of AtomicSession or shows nothing.                  *)

(* A step that leaves what AtomicSession sees is none of its steps.        *)
LEMMA Stutters ==
  ASSUME session'.live = session.live, session'.clients = session.clients,
         SameEntries(session'.status, session.status),
         recorded' = recorded, clock' = clock,
         PodIds \cap Existing(pods') = PodIds \cap Existing(pods)
  PROVE  [Atomic!Next]_(Atomic!vars)
BY DEF Atomic!vars, SameEntries, Existing

(* AtomicSession counts as this module does.                               *)
LEMMA SameCardinality ==
  ASSUME NEW S
  PROVE  Atomic!Cardinality(S) = Cardinality(S)
BY DEF Atomic!Cardinality, Cardinality

(* A status that is stored is the stored one, or the stored one reconciled *)
(* with the stored clients, within the capacity of the pods.               *)
LEMMA StatusStored ==
  ASSUME TypeOK, IInv, CapacityInv, ComputedInv, pc \in {"report", "update"},
         NEW answered, WriteSession([session EXCEPT !.status = copy.status], answered),
         UNCHANGED <<pods, clock>>
  PROVE  [Atomic!Next]_(Atomic!vars)
<1>0. /\ StoreInv /\ CopyInv /\ session \in SessionType /\ copy.status \in StatusType
  BY IInvParts, TypeOKParts, SessionUpdates DEF LocalsOK, WorldOK
<1> DEFINE updated == [session EXCEPT !.status = copy.status]
<1>1. /\ updated.status = copy.status /\ updated.clients = session.clients
      /\ updated.live = session.live
  BY <1>0, SessionUpdates
<1>2. (PutSession(updated) /\ current /\ session.live) \/ UNCHANGED <<session, recorded>>
  BY DEF WriteSession, Accepted
<1> HIDE DEF updated
<1>3. CASE UNCHANGED <<session, recorded>>
  BY <1>3, Stutters DEF SameEntries
<1>4. CASE PutSession(updated) /\ current /\ session.live
  <2>1. /\ session' = updated /\ recorded' = recorded \cup AllocatedPods(copy.status)
    BY <1>1, <1>4 DEF PutSession
  <2>2. CASE pc = "report" \/ Templates = {}
    <3>1. SameEntries(copy.status, session.status)
      BY <1>4, <2>2 DEF ComputedInv
    <3>2. recorded' = recorded
      BY <1>0, <2>1, <3>1 DEF StoreInv, NamesRecorded, AllocatedPods, SameEntries
    <3> QED
      BY <1>1, <2>1, <3>1, <3>2, Stutters
  <2>3. CASE pc = "update" /\ Templates # {}
    <3>1. PICK t \in 0..clock : ReconciledAt(t)
      BY <1>4, <2>3 DEF ComputedInv
    <3>2. newClients = {}
      BY <1>0, <2>3 DEF CopyInv, CallsInv
    <3>3. \A c \in Clients : Atomic!Entry(c, t, copy.status.seen[c], copy.status.alloc[c])
      BY <3>1, <3>2 DEF ReconciledAt
    <3>4. \A p \in PodIds :
             Atomic!Cardinality({c \in Clients : p \in copy.status.alloc[c]}) <= Atomic!Room(p)
      BY SameCardinality DEF CapacityInv, WithinCapacity, Load, ClientsOf, Atomic!Room
    <3>5. Atomic!Reconcile(t)
      <4>1. /\ session'.live = session.live /\ session'.clients = session.clients
            /\ session'.status = copy.status
        BY <1>1, <2>1
      <4> QED
        BY <1>4, <2>1, <3>3, <3>4, <4>1 DEF Atomic!Reconcile, AllocatedPods, Existing
    <3> QED
      BY <3>1, <3>5 DEF Atomic!Next
  <2> QED
    BY <2>2, <2>3
<1> QED
  BY <1>2, <1>3, <1>4

(* The annotation shows nothing: it is written next to the entries that    *)
(* are stored.                                                             *)
LEMMA AnnotationStored ==
  ASSUME TypeOK, IInv, pc = "annotate", NEW answered, WriteSession(Annotated, answered),
         UNCHANGED <<pods, clock>>
  PROVE  [Atomic!Next]_(Atomic!vars)
<1>0. StoreInv /\ CopyInv /\ session \in SessionType
  BY IInvParts, TypeOKParts DEF WorldOK
<1>1. /\ Annotated.status = session.status /\ Annotated.clients = copy.clients
      /\ Annotated.live = session.live
  BY <1>0, WrittenHash DEF Annotated, SessionType
<1>2. (PutSession(Annotated) /\ current) \/ UNCHANGED <<session, recorded>>
  BY DEF WriteSession, Accepted
<1>3. CASE UNCHANGED <<session, recorded>>
  BY <1>3, Stutters DEF SameEntries
<1>4. CASE PutSession(Annotated) /\ current
  <2>1. session' = Annotated /\ copy.clients = session.clients
    BY <1>0, <1>4 DEF PutSession, CopyInv
  <2>2. recorded' = recorded
    BY <1>0, <1>1, <1>4 DEF PutSession, StoreInv, NamesRecorded
  <2> QED
    BY <1>1, <2>1, <2>2, Stutters DEF SameEntries
<1> QED
  BY <1>2, <1>3, <1>4

(* A pod that is created is one that a client was given, or no client's.   *)
LEMMA PodSpawned ==
  ASSUME TypeOK, NEW p \in AllPods, NEW answered, SpawnPod(p, answered),
         p \in recorded \cup SessionPods,
         UNCHANGED <<session, clock, recorded>>
  PROVE  [Atomic!Next]_(Atomic!vars)
<1>0. pods \in [AllPods -> PodStates] /\ SessionPods \cap PodIds = {} /\ recorded \subseteq PodIds
  BY TypeOKParts, ConstantsAssumption DEF WorldOK
<1>1. pods' = pods \/ pods' = [pods EXCEPT ![p] = "unset"]
  BY DEF SpawnPod, PutPod
<1>2. CASE pods' = pods
  BY <1>2, Stutters DEF SameEntries
<1>3. CASE pods' = [pods EXCEPT ![p] = "unset"]
  <2>1. Existing(pods') = Existing(pods) \cup {p}
    BY <1>0, <1>3 DEF Existing, PodStates
  <2>2. CASE p \in SessionPods
    <3>1. PodIds \cap Existing(pods') = PodIds \cap Existing(pods)
      BY <1>0, <2>1, <2>2
    <3> QED
      BY <3>1, Stutters DEF SameEntries
  <2>3. CASE p \in recorded
    <3>1. PodIds \cap Existing(pods)' = (PodIds \cap Existing(pods)) \cup {p}
      BY <1>0, <2>1, <2>3 DEF Existing
    <3>2. Atomic!Spawn(p)
      BY <2>3, <3>1 DEF Atomic!Spawn
    <3> QED
      BY <1>0, <2>3, <3>2 DEF Atomic!Next
  <2> QED
    BY <2>2, <2>3
<1> QED
  BY <1>1, <1>2, <1>3

(* The steps of Reconcile that write neither the Session nor a pod, and    *)
(* those of the informers, show nothing.                                   *)
LEMMA ReconcileShows ==
  ASSUME TypeOK, IInv,
         \/ Begin \/ SessionNotFound \/ ReadFails \/ PanicOnMissingIp \/ GetPodsFails
         \/ ReconcileSessionPods \/ RegistrationFails \/ RegistrationsDone \/ PodsRestored
         \/ ReconcileClientPods \/ ListFails \/ ReconcilePods \/ StatusUnchanged \/ Done
         \/ Sync \/ Restart
         \/ \E p \in AllPods : CreateGCRegistration(p) \/ DeleteGCRegistration(p)
         \/ \E c \in Clients : AllocateClient(c)
  PROVE  [Atomic!Next]_(Atomic!vars)
<1> USE DEF store, informers, reading, calls, counters
<1>1. UNCHANGED <<session, pods, recorded, clock>>
  <2>1. CASE Begin \/ SessionNotFound \/ ReadFails \/ PanicOnMissingIp \/ GetPodsFails
             \/ ReconcileSessionPods \/ RegistrationFails \/ RegistrationsDone \/ PodsRestored
    BY <2>1 DEF Begin, SessionNotFound, ReadFails, PanicOnMissingIp, GetPodsFails,
                ReconcileSessionPods, RegistrationFails, RegistrationsDone, PodsRestored
  <2>2. CASE ReconcileClientPods \/ ListFails \/ ReconcilePods \/ StatusUnchanged \/ Done
    BY <2>2 DEF ReconcileClientPods, ListFails, ReconcilePods, StatusUnchanged, Done
  <2>3. CASE Sync \/ Restart
    BY <2>3 DEF Sync, SyncSession, SyncPods, SyncRegistrations, Restart
  <2>4. CASE \/ \E p \in AllPods : CreateGCRegistration(p) \/ DeleteGCRegistration(p)
             \/ \E c \in Clients : AllocateClient(c)
    BY <2>4 DEF CreateGCRegistration, DeleteGCRegistration, AllocateClient
  <2> QED
    BY <2>1, <2>2, <2>3, <2>4
<1> QED
  BY <1>1, Stutters DEF SameEntries

(* What happens outside the controller, happens in AtomicSession.          *)
LEMMA EnvironmentShows ==
  ASSUME TypeOK, IInv,
         \/ DeleteSession \/ AssignIp \/ Tick
         \/ \E c \in Clients, v \in ClientStates : EditClient(c, v)
         \/ \E p \in AllPods :
               \/ PodRemoved(p) \/ RegistrationRemoved(p)
               \/ \E value \in {"True", "False"} : PodCondition(p, value)
  PROVE  [Atomic!Next]_(Atomic!vars)
<1> USE DEF store, informers, reading, calls, counters
<1>0. session \in SessionType /\ pods \in [AllPods -> PodStates]
  BY TypeOKParts DEF WorldOK
<1>1. CASE DeleteSession
  <2>1. /\ session'.live = FALSE /\ session'.clients = session.clients
        /\ session'.status = session.status
    BY <1>0, <1>1 DEF DeleteSession, SessionType
  <2>2. UNCHANGED <<pods, recorded, clock>>
    BY <1>1 DEF DeleteSession, Churn
  <2>3. Atomic!Delete
    BY <2>1, <2>2 DEF Atomic!Delete, Existing
  <2> QED
    BY <2>3 DEF Atomic!Next
<1>2. CASE Tick
  <2>1. Atomic!Tick
    BY <1>2 DEF Tick, Atomic!Tick, Existing
  <2> QED
    BY <2>1 DEF Atomic!Next
<1>3. ASSUME NEW c \in Clients, NEW v \in ClientStates, EditClient(c, v)
      PROVE  Atomic!Edit(c, v)
  <2>1. /\ session.live /\ session' = [session EXCEPT !.clients[c] = v]
        /\ UNCHANGED <<pods, recorded, clock>>
    BY <1>3 DEF EditClient
  <2>2. /\ session'.live = session.live /\ session'.status = session.status
        /\ session'.clients = [session.clients EXCEPT ![c] = v]
    BY <1>0, <2>1 DEF SessionType
  <2> QED
    BY <2>1, <2>2 DEF Atomic!Edit, Existing
<1>4. ASSUME NEW p \in AllPods, PodRemoved(p)
      PROVE  [Atomic!Next]_(Atomic!vars)
  <2>1. /\ Existing(pods') = Existing(pods) \ {p}
        /\ UNCHANGED <<session, recorded, clock>>
    BY <1>0, <1>4 DEF PodRemoved, Churn, Existing
  <2>2. CASE p \in PodIds
    <3>1. PodIds \cap Existing(pods)' = (PodIds \cap Existing(pods)) \ {p}
      BY <2>1 DEF Existing
    <3>2. Atomic!Remove(p)
      BY <2>1, <3>1 DEF Atomic!Remove
    <3> QED
      BY <2>2, <3>2 DEF Atomic!Next
  <2>3. CASE p \notin PodIds
    <3>1. PodIds \cap Existing(pods') = PodIds \cap Existing(pods)
      BY <2>1, <2>3
    <3> QED
      BY <2>1, <3>1, Stutters DEF SameEntries
  <2> QED
    BY <2>2, <2>3
<1>5. ASSUME NEW p \in AllPods, NEW value \in {"True", "False"}, PodCondition(p, value)
      PROVE  [Atomic!Next]_(Atomic!vars)
  <2>1. Existing(pods') = Existing(pods)
    BY <1>0, <1>5 DEF PodCondition, Existing
  <2> QED
    BY <1>5, <2>1, Stutters DEF PodCondition, Churn, SameEntries
<1>6. CASE AssignIp \/ \E p \in AllPods : RegistrationRemoved(p)
  BY <1>6, Stutters DEF AssignIp, RegistrationRemoved, Churn, SameEntries
<1>7. ClientStates = {"absent", "down", "up"}
  BY DEF ClientStates
<1> QED
  BY <1>1, <1>2, <1>3, <1>4, <1>5, <1>6, <1>7 DEF Atomic!Next

(* Every step is one of AtomicSession's, or none.                          *)
LEMMA NextShows ==
  ASSUME TypeOK, IInv, CapacityInv, ComputedInv, [Next]_vars
  PROVE  [Atomic!Next]_(Atomic!vars)
<1> USE DEF store, informers, reading, calls, counters
<1>0. CopyInv
  BY IInvParts
<1>1. CASE ReportError \/ UpdateStatus \/ UpdateStatusFails
  <2>1. PICK answered \in BOOLEAN :
           WriteSession([session EXCEPT !.status = copy.status], answered)
    BY <1>1 DEF ReportError, UpdateStatus, UpdateStatusFails
  <2>2. pc \in {"report", "update"} /\ UNCHANGED <<pods, clock>>
    BY <1>1 DEF ReportError, UpdateStatus, UpdateStatusFails
  <2> QED
    BY <2>1, <2>2, StatusStored
<1>2. CASE UpdateAnnotation \/ UpdateAnnotationFails
  <2>1. PICK answered \in BOOLEAN : WriteSession(Annotated, answered)
    BY <1>2 DEF UpdateAnnotation, UpdateAnnotationFails
  <2>2. pc = "annotate" /\ UNCHANGED <<pods, clock>>
    BY <1>2 DEF UpdateAnnotation, UpdateAnnotationFails
  <2> QED
    BY <2>1, <2>2, AnnotationStored
<1>3. ASSUME NEW p \in AllPods,
             RestorePod(p) \/ RestoreFails(p) \/ SpawnClientPod(p) \/ SpawnFails(p)
      PROVE  [Atomic!Next]_(Atomic!vars)
  <2>1. PICK answered \in BOOLEAN : SpawnPod(p, answered)
    BY <1>3 DEF RestorePod, RestoreFails, SpawnClientPod, SpawnFails
  <2>2. p \in recorded \cup SessionPods
    BY <1>0, <1>3 DEF RestorePod, RestoreFails, SpawnClientPod, SpawnFails, CopyInv, CallsInv
  <2>3. UNCHANGED <<session, clock, recorded>>
    BY <1>3 DEF RestorePod, RestoreFails, SpawnClientPod, SpawnFails
  <2> QED
    BY <2>1, <2>2, <2>3, PodSpawned
<1>4. CASE UNCHANGED vars
  BY <1>4, Stutters DEF vars, SameEntries
<1>5. CASE Environment
  BY <1>5, ReconcileShows, EnvironmentShows DEF Environment
<1>6. CASE Sync
  BY <1>6, ReconcileShows
<1>7. CASE Reconcile
  BY <1>1, <1>2, <1>3, <1>7, ReconcileShows DEF Reconcile
<1> QED
  BY <1>4, <1>5, <1>6, <1>7 DEF Next

(* The initial states are initial states of AtomicSession.                 *)
LEMMA InitShows == Init => Atomic!Init
<1> SUFFICES ASSUME Init PROVE Atomic!Init
  OBVIOUS
<1>1. /\ NewSession.live = TRUE /\ NewSession.clients = [c \in Clients |-> "absent"]
      /\ NewSession.status.seen = [c \in Clients |-> Absent]
      /\ NewSession.status.alloc = [c \in Clients |-> {}]
  BY DEF NewSession, NewStatus
<1>2. Existing(NoPods) = {}
  BY DEF Existing, NoPods
<1> QED
  BY <1>1, <1>2 DEF Init, Atomic!Init, Atomic!Never, Absent

(* Whether or not names of pods repeat: the status that is written is      *)
(* always the stored one reconciled with the clients that are stored.      *)
THEOREM ComputedHolds == Spec => []ComputedInv
<1>1. TypeOK /\ IInv /\ ComputedInv /\ [Next]_vars => ComputedInv'
  BY NextComputed
<1> QED
  BY <1>1, InitComputed, Inductive, PTL DEF Spec

(* While the names of new pods are new, the controller implements          *)
(* AtomicSession: every status it stores is the stored one, reconciled in  *)
(* one step with the stored clients, within the capacity of the pods.      *)
THEOREM AtomicReconcileHolds == ~UuidCollides => (Spec => AtomicReconcile)
<1> SUFFICES ASSUME ~UuidCollides PROVE Spec => AtomicReconcile
  OBVIOUS
<1>1. Spec => []CapacityInv
  <2>1. Init => CapacityInv
    BY InitCapacity
  <2>2. TypeOK /\ IInv /\ CapacityInv /\ [Next]_vars => CapacityInv'
    BY NextCapacity
  <2> QED
    BY <2>1, <2>2, Inductive, PTL DEF Spec
<1>2. Spec => []ComputedInv
  BY ComputedHolds
<1>3. Init => Atomic!Init
  BY InitShows
<1>4. TypeOK /\ IInv /\ CapacityInv /\ ComputedInv /\ [Next]_vars => [Atomic!Next]_(Atomic!vars)
  BY NextShows
<1> QED
  BY <1>1, <1>2, <1>3, <1>4, Inductive, PTL DEF Spec, AtomicReconcile, Atomic!Spec
=============================================================================
