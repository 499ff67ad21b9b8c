------------------------- MODULE SessionSafetyProofs -------------------------
(***************************************************************************)
(* The safety of SessionController, for every value of its constants: IInv *)
(* is inductive, and pods are recorded before they are spawned, no spec    *)
(* edit is lost and no client loses its pods because of it.                *)
(***************************************************************************)
EXTENDS SessionControllerProofs

(* IInv in two parts: of the store and the caches, and of what Reconcile   *)
(* holds.                                                                  *)
StoreInv ==
  /\ NamesRecorded(session) /\ NamesRecorded(cache.session)
  /\ lag.session = "none" => cache.session = session
  /\ PodsRecorded

CopyInv ==
  /\ copy.hash # NoHash => AllocatedPods(copy.hash) \subseteq recorded
  /\ pc \in {"annotate", "spawn"} => AllocatedPods(copy.status) \subseteq recorded
  /\ CallsInv
  /\ current => copy.clients = session.clients
  /\ KeptInv

(* IInv is a part about the store and its cache and a part about the copy. *)
LEMMA IInvParts == (IInv <=> StoreInv /\ CopyInv) /\ (IInv' <=> StoreInv' /\ CopyInv')
BY DEF IInv, StoreInv, CopyInv, RecordedInv, VersionInv

(* A step that touches neither the store, the caches nor the clock keeps   *)
(* the first part.                                                         *)
LEMMA StoreUntouched ==
  ASSUME StoreInv, UNCHANGED <<session, pods, cache, lag, recorded>>
  PROVE  StoreInv'
BY DEF StoreInv, NamesRecorded, PodsRecorded

(* When Reconcile returns there is nothing left to say of what it held.    *)
LEMMA ReturnInv ==
  ASSUME NEW error, Return(error)
  PROVE  CopyInv'
<1>1. copy'.hash = NoHash
  BY DEF Return, NewSession
<1> QED
  BY <1>1 DEF Return, CopyInv, CallsInv, KeptInv

(* A write of the session keeps the first part if the annotation written   *)
(* names recorded pods.                                                    *)
LEMMA WriteInv ==
  ASSUME StoreInv, NEW s, NEW answered, WriteSession(s, answered),
         UNCHANGED <<pods, cache>>,
         s.hash # NoHash => AllocatedPods(s.hash) \subseteq recorded
  PROVE  /\ StoreInv' /\ recorded \subseteq recorded'
         /\ answered => session' = s /\ current /\ AllocatedPods(s.status) \subseteq recorded'
         /\ session' # session => session' = s /\ current
<1>1. (PutSession(s) /\ current) \/ (UNCHANGED <<session, lag, recorded>> /\ ~answered)
  BY DEF WriteSession, Accepted
<1>2. CASE PutSession(s) /\ current
  <2>1. /\ session' = s /\ recorded \subseteq recorded'
        /\ AllocatedPods(s.status) \subseteq recorded'
    BY <1>2 DEF PutSession
  <2>2. NamesRecorded(session)' /\ NamesRecorded(cache.session)'
    BY <2>1 DEF StoreInv, NamesRecorded
  <2>3. (lag.session = "none" => cache.session = session)'
    BY <1>2 DEF PutSession, Behind, StoreInv
  <2> QED
    BY <1>2, <2>1, <2>2, <2>3 DEF StoreInv, PodsRecorded
<1>3. CASE UNCHANGED <<session, lag, recorded>> /\ ~answered
  BY <1>3, StoreUntouched
<1> QED
  BY <1>1, <1>2, <1>3

Unallocated == {"sessionPods", "sessionRegs", "restore", "clientPods"}

(* KeptInv depends on the entries of the copy's status only.               *)
LEMMA SameEntriesKept ==
  ASSUME KeptInv, UNCHANGED <<session, clock, current>>,
         SameEntries(copy'.status, copy.status),
         newClients' \subseteq newClients,
         pc' \in Unallocated => pc \in Unallocated
  PROVE  KeptInv'
BY DEF KeptInv, SameEntries, Protected, Unallocated

(* No reconciliation of a copy that is not current has entries to keep.    *)
LEMMA StaleKept ==
  ASSUME ~current', newClients' = {}
  PROVE  KeptInv'
BY DEF KeptInv

---------------------------------------------------------------------------
(* One lemma for each group of actions.                                    *)

(* Begin takes the copy from the cache: it is current only if that is the  *)
(* store.                                                                  *)
LEMMA BeginInv ==
  ASSUME TypeOK, IInv, Begin \/ SessionNotFound \/ ReadFails
  PROVE  IInv'
<1> USE DEF store, informers, reading, calls, counters
<1>0. StoreInv /\ CopyInv
  BY IInvParts
<1>1. CASE Begin
  <2>1. StoreInv'
    BY <1>0, <1>1, StoreUntouched DEF Begin
  <2>2. /\ toSpawn' = {} /\ newClients' = {} /\ copy' = cache.session
        /\ pc' \in {"sessionPods", "clientPods", "update"}
        /\ UNCHANGED <<session, recorded, clock>>
        /\ current' => cache.session = session
    BY <1>0, <1>1 DEF Begin, CopyInv, CallsInv, AfterSessionPods, StoreInv
  <2>3. CallsInv'
    BY <2>2 DEF CallsInv
  <2>4. KeptInv'
    <3>1. ASSUME current', NEW c \in Clients, Protected(c)'
          PROVE  copy'.status.seen[c] # Absent /\ copy'.status.alloc[c] = session'.status.alloc[c]
      BY <2>2, <3>1 DEF Protected
    <3> QED
      BY <2>2, <3>1 DEF KeptInv, SameEntries
  <2> QED
    BY <1>0, <2>1, <2>2, <2>3, <2>4, IInvParts DEF CopyInv, StoreInv, NamesRecorded
<1>2. CASE SessionNotFound \/ ReadFails
  <2>1. UNCHANGED <<session, pods, cache, lag, recorded, pc, copy, current, newClients,
                    clock, toSpawn>>
    BY <1>2 DEF SessionNotFound, ReadFails
  <2>2. StoreInv' /\ KeptInv'
    BY <1>0, <2>1, StoreUntouched, SameEntriesKept DEF CopyInv, SameEntries
  <2> QED
    BY <1>0, <2>1, <2>2, IInvParts DEF CopyInv, CallsInv
<1> QED
  BY <1>1, <1>2

(* The session pods half touches no client's entry.                        *)
LEMMA SessionPodsInv ==
  ASSUME TypeOK, IInv, GetPodsFails \/ ReconcileSessionPods \/ PodsRestored
  PROVE  IInv'
<1> USE DEF store, informers, reading, calls, counters
<1>0. StoreInv /\ CopyInv /\ copy \in SessionType /\ copy.status \in StatusType /\ clock \in Int
  BY IInvParts, TypeOKParts, ClockIsInt, SessionUpdates DEF LocalsOK
<1>1. PICK status \in StatusType :
         copy' = [copy EXCEPT !.status = status] /\ SameEntries(status, copy.status)
  <2>1. CASE GetPodsFails \/ PodsRestored
    BY <1>0, <2>1, SetReadyConditionType DEF GetPodsFails, PodsRestored, SameEntries
  <2>2. CASE ReconcileSessionPods
    BY <1>0, <2>2, SessionPodsStatusType DEF ReconcileSessionPods, SameEntries
  <2> QED
    BY <2>1, <2>2
<1>2. copy'.status = status /\ copy'.hash = copy.hash /\ copy'.clients = copy.clients
  BY <1>0, <1>1, SessionUpdates
<1>3. /\ UNCHANGED <<session, pods, cache, lag, recorded, current, newClients, clock>>
      /\ pc \in {"sessionPods", "restore"}
      /\ pc' \in {"report", "sessionRegs", "clientPods", "update"}
  BY DEF GetPodsFails, ReconcileSessionPods, PodsRestored, AfterSessionPods
<1>4. StoreInv' /\ KeptInv'
  BY <1>0, <1>1, <1>2, <1>3, StoreUntouched, SameEntriesKept DEF CopyInv, Unallocated
<1>5. CallsInv'
  <2>1. CASE GetPodsFails \/ PodsRestored
    BY <1>0, <1>3, <2>1 DEF GetPodsFails, PodsRestored, AfterSessionPods, CopyInv, CallsInv
  <2>2. CASE ReconcileSessionPods
    BY <1>0, <1>3, <2>2 DEF ReconcileSessionPods, CopyInv, CallsInv
  <2> QED
    BY <2>1, <2>2
<1> QED
  BY <1>0, <1>2, <1>3, <1>4, <1>5, IInvParts DEF CopyInv

(* The actions that return from Reconcile without a write.                 *)
LEMMA ReturnsInv ==
  ASSUME IInv, PanicOnMissingIp \/ ListFails \/ Done
  PROVE  IInv'
<1> USE DEF store, informers, reading, calls, counters
<1>1. StoreInv'
  BY IInvParts, StoreUntouched DEF PanicOnMissingIp, ListFails, Done
<1>2. CopyInv'
  BY ReturnInv DEF PanicOnMissingIp, ListFails, Done
<1> QED
  BY <1>1, <1>2, IInvParts

(* The loops over registrations touch neither the session nor the copy.    *)
LEMMA RegistrationsInv ==
  ASSUME IInv,
         \/ RegistrationFails \/ RegistrationsDone
         \/ \E p \in AllPods : CreateGCRegistration(p) \/ DeleteGCRegistration(p)
  PROVE  IInv'
<1> USE DEF store, informers, reading, calls, counters
<1>0. StoreInv /\ CopyInv
  BY IInvParts
<1>1. UNCHANGED <<session, pods, cache, lag, recorded, copy, current, newClients, clock, toSpawn>>
  BY DEF RegistrationFails, RegistrationsDone, CreateGCRegistration, DeleteGCRegistration
<1>2. \/ pc' = pc
      \/ pc = "clientRegs" /\ pc' = "update"
      \/ pc = "sessionRegs" /\ toSpawn # {} /\ pc' = "restore"
      \/ pc = "sessionRegs" /\ toSpawn = {} /\ pc' \in {"clientPods", "update"}
  BY DEF RegistrationFails, RegistrationsDone, CreateGCRegistration, DeleteGCRegistration,
         AfterSessionPods
<1>3. StoreInv' /\ KeptInv'
  BY <1>0, <1>1, <1>2, StoreUntouched, SameEntriesKept DEF CopyInv, SameEntries, Unallocated
<1>4. CallsInv'
  BY <1>0, <1>1, <1>2 DEF CopyInv, CallsInv
<1> QED
  BY <1>0, <1>1, <1>2, <1>3, <1>4, IInvParts DEF CopyInv

(* A Create of a pod that is recorded, or no client pod, keeps what is     *)
(* recorded ahead of what runs.                                            *)
LEMMA SpawnPodInv ==
  ASSUME TypeOK, StoreInv, NEW p \in AllPods, NEW answered, SpawnPod(p, answered),
         p \in recorded \cup SessionPods,
         UNCHANGED <<session, cache, recorded>>
  PROVE  StoreInv'
<1>1. SessionPods \cap PodIds = {}
  BY ConstantsAssumption
<1>2. PodIds \cap Existing(pods)' \subseteq (PodIds \cap Existing(pods)) \cup (PodIds \cap {p})
  BY TypeOKParts DEF SpawnPod, PutPod, Existing, WorldOK
<1>3. PodsRecorded'
  BY <1>1, <1>2 DEF StoreInv, PodsRecorded
<1>4. lag'.session = lag.session
  BY TypeOKParts DEF SpawnPod, PutPod, WorldOK, LagType
<1> QED
  BY <1>3, <1>4 DEF StoreInv, NamesRecorded

(* Pods are spawned that the copy's status names, which is stored by then. *)
LEMMA SpawnInv ==
  ASSUME TypeOK, IInv, NEW p \in AllPods,
         RestorePod(p) \/ RestoreFails(p) \/ SpawnClientPod(p) \/ SpawnFails(p)
  PROVE  IInv'
<1> USE DEF store, informers, reading, calls, counters
<1>0. StoreInv /\ CopyInv /\ copy \in SessionType /\ copy.status \in StatusType /\ clock \in Int
  BY IInvParts, TypeOKParts, ClockIsInt, SessionUpdates DEF LocalsOK
<1>1. p \in recorded \cup SessionPods
  BY <1>0 DEF RestorePod, RestoreFails, SpawnClientPod, SpawnFails, CopyInv, CallsInv
<1>2. PICK answered \in BOOLEAN : SpawnPod(p, answered)
  BY DEF RestorePod, RestoreFails, SpawnClientPod, SpawnFails
<1>3. StoreInv'
  <2>1. UNCHANGED <<session, cache, recorded>>
    BY DEF RestorePod, RestoreFails, SpawnClientPod, SpawnFails
  <2> QED
    BY <1>0, <1>1, <1>2, <2>1, SpawnPodInv
<1>4. CASE RestorePod(p) \/ SpawnClientPod(p)
  <2>1. /\ UNCHANGED <<session, recorded, copy, current, newClients, clock, pc>>
        /\ toSpawn' \subseteq toSpawn
    BY <1>4 DEF RestorePod, SpawnClientPod
  <2>2. KeptInv'
    BY <1>0, <2>1, SameEntriesKept DEF CopyInv, SameEntries
  <2>3. CallsInv'
    BY <1>0, <2>1 DEF CopyInv, CallsInv
  <2> QED
    BY <1>0, <1>3, <2>1, <2>2, <2>3, IInvParts DEF CopyInv
<1>5. CASE RestoreFails(p)
  <2>1. /\ UNCHANGED <<session, recorded, current, newClients, clock>>
        /\ pc = "restore" /\ pc' = "report" /\ toSpawn' = {}
    BY <1>5 DEF RestoreFails
  <2>2. /\ copy'.hash = copy.hash /\ copy'.clients = copy.clients
        /\ SameEntries(copy'.status, copy.status)
    <3>1. copy' = [copy EXCEPT !.status = SetReadyCondition(copy.status, "False")]
      BY <1>5 DEF RestoreFails
    <3> QED
      BY <1>0, <3>1, SetReadyConditionType, SessionUpdates DEF SameEntries
  <2>3. KeptInv'
    BY <1>0, <2>1, <2>2, SameEntriesKept DEF CopyInv, Unallocated
  <2>4. CallsInv'
    BY <1>0, <2>1 DEF CopyInv, CallsInv
  <2> QED
    BY <1>0, <1>3, <2>1, <2>2, <2>3, <2>4, IInvParts DEF CopyInv
<1>6. CASE SpawnFails(p)
  BY <1>3, <1>6, ReturnInv, IInvParts DEF SpawnFails
<1> QED
  BY <1>4, <1>5, <1>6

(* What the first half of ReconcileClientPods does to the entry of one     *)
(* client.                                                                 *)
LEMMA ReconciledEntry ==
  ASSUME NEW status \in StatusType, NEW now \in Int, now # Absent, NEW clients,
         NEW c \in Clients
  PROVE  LET kept == cleanExpiredClientsFromStatus(now, status)
             left == removeLeftClients(clients, handleClientChanges(now, clients, kept))
         IN /\ c \in newClientsIn(clients, kept) => left.seen[c] = Absent
            /\ /\ clients[c] # "absent" /\ status.seen[c] # Absent
               /\ ~clientHasExpired(now, status.seen[c])
               => left.seen[c] # Absent /\ left.alloc[c] = status.alloc[c]
<1> DEFINE kept == cleanExpiredClientsFromStatus(now, status)
           changed == handleClientChanges(now, clients, kept)
           left == removeLeftClients(clients, changed)
<1>0. /\ kept \in StatusType /\ changed \in StatusType /\ left \in StatusType
      /\ changed.alloc = kept.alloc
  BY ReconciledStatus
<1>1. status \in StatusFields /\ kept \in StatusFields /\ changed \in StatusFields
  BY <1>0, StatusTypeIs
<1> DEFINE expired == /\ status.seen[c] # Absent
                      /\ clientHasExpired(now, status.seen[c])
<1>2. /\ kept.seen[c] = IF expired THEN Absent ELSE status.seen[c]
      /\ kept.alloc[c] = IF expired THEN {} ELSE status.alloc[c]
  BY <1>1 DEF cleanExpiredClientsFromStatus, Forget, StatusFields
<1>3. /\ kept.seen[c] = Absent => changed.seen[c] = Absent
      /\ kept.seen[c] # Absent => changed.seen[c] # Absent
  <2> HIDE DEF kept
  <2> QED
    BY <1>0, HandleClientChangesType
<1>4. /\ left.seen[c] = IF clients[c] = "absent" THEN Absent ELSE changed.seen[c]
      /\ left.alloc[c] = IF clients[c] = "absent" THEN {} ELSE changed.alloc[c]
  BY <1>1 DEF removeLeftClients, Forget, StatusFields
<1>5. c \in newClientsIn(clients, kept) => left.seen[c] = Absent
  <2>1. c \in newClientsIn(clients, kept) => kept.seen[c] = Absent
    BY DEF newClientsIn
  <2> QED
    BY <1>3, <1>4, <2>1
<1>6. clients[c] # "absent" /\ status.seen[c] # Absent /\ ~clientHasExpired(now, status.seen[c])
        => left.seen[c] # Absent /\ left.alloc[c] = status.alloc[c]
  BY <1>0, <1>2, <1>3, <1>4
<1> QED
  BY <1>5, <1>6

(* A protected client has not expired.                                     *)
LEMMA ProtectedHasNotExpired ==
  ASSUME TypeOK, NEW c \in Clients, Protected(c)
  PROVE  ~clientHasExpired(clock, session.status.seen[c])
<1>1. session.status.seen[c] \in Int /\ clock \in Int /\ TimeoutSeconds \in Nat
  <2>1. session.status \in StatusFields
    BY TypeOKParts, SessionUpdates, StatusTypeIs DEF WorldOK
  <2> QED
    BY <2>1, ConstantsAssumption, ClockIsInt, TypeOKParts DEF StatusFields
<1> QED
  BY <1>1 DEF Protected, clientHasExpired

(* Expiry, reconnection and leaving touch no protected client's pods, and  *)
(* find the clients that have no entry.                                    *)
LEMMA ClientPodsInv ==
  ASSUME TypeOK, IInv, ReconcileClientPods
  PROVE  IInv'
<1> USE DEF store, informers, reading, calls, counters
<1>0. /\ StoreInv /\ CopyInv /\ copy \in SessionType /\ copy.status \in StatusType
      /\ clock \in Int /\ clock # Absent
  BY IInvParts, TypeOKParts, ClockIsInt, SessionUpdates DEF LocalsOK
<1> DEFINE kept == cleanExpiredClientsFromStatus(clock, copy.status)
           left == removeLeftClients(copy.clients, handleClientChanges(clock, copy.clients, kept))
<1>1. /\ copy' = [copy EXCEPT !.status = left]
      /\ newClients' = newClientsIn(copy.clients, kept)
      /\ pc = "clientPods" /\ pc' = "allocate"
      /\ UNCHANGED <<session, pods, cache, lag, recorded, current, clock, toSpawn>>
  BY DEF ReconcileClientPods
<1>2. left \in StatusType
  BY <1>0, ReconciledStatus
<1>3. /\ \A c \in newClients' : left.seen[c] = Absent
      /\ \A c \in Clients :
            /\ copy.clients[c] # "absent" /\ copy.status.seen[c] # Absent
            /\ ~clientHasExpired(clock, copy.status.seen[c])
            => left.seen[c] # Absent /\ left.alloc[c] = copy.status.alloc[c]
  BY <1>0, <1>1, ReconciledEntry DEF newClientsIn
<1> HIDE DEF kept, left
<1>4. copy'.status = left /\ copy'.hash = copy.hash /\ copy'.clients = copy.clients
  BY <1>0, <1>1, <1>2, SessionUpdates
<1>5. KeptInv'
  <2>1. ASSUME current', NEW c \in Clients, Protected(c)'
        PROVE  copy'.status.seen[c] # Absent /\ copy'.status.alloc[c] = session'.status.alloc[c]
    <3>1. current /\ Protected(c)
      BY <1>1, <2>1 DEF Protected
    <3>2. /\ SameEntries(copy.status, session.status) /\ copy.clients = session.clients
      BY <1>0, <1>1, <3>1 DEF CopyInv, KeptInv
    <3>3. ~clientHasExpired(clock, copy.status.seen[c])
      BY <3>1, <3>2, ProtectedHasNotExpired DEF SameEntries
    <3>4. left.seen[c] # Absent /\ left.alloc[c] = copy.status.alloc[c]
      BY <1>3, <3>1, <3>2, <3>3 DEF Protected, SameEntries
    <3> QED
      BY <1>1, <1>4, <3>2, <3>4 DEF SameEntries
  <2> QED
    BY <1>1, <1>3, <1>4, <2>1 DEF KeptInv
<1>6. StoreInv' /\ CallsInv'
  BY <1>0, <1>1, StoreUntouched DEF CopyInv, CallsInv
<1> QED
  BY <1>0, <1>1, <1>4, <1>5, <1>6, IInvParts DEF CopyInv

(* Allocation gives pods to clients without an entry only.                 *)
LEMMA AllocateInv ==
  ASSUME TypeOK, IInv, NEW c \in Clients, AllocateClient(c)
  PROVE  IInv'
<1> USE DEF store, informers, reading, calls, counters
<1>0. StoreInv /\ CopyInv /\ copy \in SessionType /\ copy.status \in StatusType
  BY IInvParts, TypeOKParts, SessionUpdates DEF LocalsOK
<1>1. PICK choice \in [Templates -> PodIds] :
         copy' = [copy EXCEPT !.status = allocateClient(copy.status, c, choice)]
  BY DEF AllocateClient
<1> DEFINE after == allocateClient(copy.status, c, choice)
<1>2. /\ after \in StatusType
      /\ \A d \in Clients \ {c} : /\ after.alloc[d] = copy.status.alloc[d]
                                  /\ after.seen[d] = copy.status.seen[d]
  BY <1>0, AllocateClientType
<1> HIDE DEF after
<1>3. copy'.status = after /\ copy'.hash = copy.hash /\ copy'.clients = copy.clients
  BY <1>0, <1>1, <1>2, SessionUpdates DEF after
<1>4. /\ c \in newClients /\ newClients' = newClients \ {c} /\ newClients \subseteq Clients
      /\ pc = "allocate" /\ pc' = "allocate"
      /\ UNCHANGED <<session, pods, cache, lag, recorded, current, clock, toSpawn>>
  BY TypeOKParts DEF AllocateClient, LocalsOK
<1>5. KeptInv'
  <2>1. ASSUME current', NEW d \in Clients, Protected(d)'
        PROVE  copy'.status.seen[d] # Absent /\ copy'.status.alloc[d] = session'.status.alloc[d]
    <3>1. copy.status.seen[d] # Absent /\ copy.status.alloc[d] = session.status.alloc[d]
      BY <1>0, <1>4, <2>1 DEF CopyInv, KeptInv, Protected
    <3>2. d # c
      BY <1>0, <1>4, <3>1 DEF CopyInv, KeptInv
    <3> QED
      BY <1>2, <1>3, <1>4, <3>1, <3>2
  <2> QED
    BY <1>0, <1>2, <1>3, <1>4, <2>1 DEF KeptInv, CopyInv
<1>6. StoreInv' /\ CallsInv'
  BY <1>0, <1>4, StoreUntouched DEF CopyInv, CallsInv
<1> QED
  BY <1>0, <1>3, <1>4, <1>5, <1>6, IInvParts DEF CopyInv

(* The pods to be spawned are those that the copy's status names.          *)
LEMMA ReconcilePodsInv ==
  ASSUME TypeOK, IInv, ReconcilePods
  PROVE  IInv'
<1> USE DEF store, informers, reading, calls, counters
<1>0. StoreInv /\ CopyInv /\ copy \in SessionType /\ copy.status \in StatusType
  BY IInvParts, TypeOKParts, SessionUpdates DEF LocalsOK
<1> DEFINE after == setClientStatusReadiness(copy.status, PodIds \cap Ready(listed), seenIp)
<1>1. after \in StatusType /\ SameEntries(after, copy.status)
  BY <1>0, SetReadinessType DEF SameEntries
<1>2. /\ copy' = [copy EXCEPT !.status = after]
      /\ toSpawn' = podsToSpawn(copy.status, found)
      /\ pc = "allocate" /\ pc' = "clientRegs"
      /\ newClients = {}
      /\ UNCHANGED <<session, pods, cache, lag, recorded, current, clock, newClients>>
  BY DEF ReconcilePods
<1> HIDE DEF after
<1>3. copy'.status = after /\ copy'.hash = copy.hash /\ copy'.clients = copy.clients
  BY <1>0, <1>1, <1>2, SessionUpdates
<1>4. StoreInv' /\ KeptInv'
  BY <1>0, <1>1, <1>2, <1>3, StoreUntouched, SameEntriesKept DEF CopyInv, Unallocated
<1>5. CallsInv'
  <2>1. toSpawn' \subseteq AllocatedPods(copy'.status)
    BY <1>1, <1>2, <1>3 DEF podsToSpawn, AllocatedPods, SameEntries
  <2> QED
    BY <1>2, <2>1 DEF CallsInv
<1> QED
  BY <1>0, <1>2, <1>3, <1>4, <1>5, IInvParts DEF CopyInv

(* The Sessions Reconcile writes name recorded pods in their annotation.   *)
LEMMA WrittenHash ==
  ASSUME TypeOK, IInv
  PROVE  LET updated == [session EXCEPT !.status = copy.status]
         IN /\ updated.status = copy.status /\ updated.clients = session.clients
            /\ updated.hash # NoHash => AllocatedPods(updated.hash) \subseteq recorded
            /\ pc = "annotate" /\ Annotated.hash # NoHash
                  => AllocatedPods(Annotated.hash) \subseteq recorded
            /\ Annotated.status = session.status /\ Annotated.clients = copy.clients
<1>0. /\ StoreInv /\ CopyInv /\ session \in SessionType /\ copy.status \in StatusType
      /\ copy \in SessionType
  BY IInvParts, TypeOKParts, SessionUpdates DEF LocalsOK, WorldOK
<1> DEFINE updated == [session EXCEPT !.status = copy.status]
<1>1. /\ updated.status = copy.status /\ updated.hash = session.hash
      /\ updated.clients = session.clients
  BY <1>0, SessionUpdates
<1>2. /\ Annotated.hash = copy.status /\ Annotated.status = session.status
      /\ Annotated.clients = copy.clients
  BY <1>0 DEF Annotated, SessionType
<1> HIDE DEF updated
<1>3. updated.hash # NoHash => AllocatedPods(updated.hash) \subseteq recorded
  BY <1>0, <1>1 DEF StoreInv, NamesRecorded
<1>4. pc = "annotate" => AllocatedPods(Annotated.hash) \subseteq recorded
  BY <1>0, <1>2 DEF CopyInv
<1> QED
  BY <1>1, <1>2, <1>3, <1>4 DEF updated

(* Writes of a current copy keep the parts: what they store is recorded.   *)
LEMMA UpdateInv ==
  ASSUME TypeOK, IInv, StatusUnchanged \/ UpdateStatus \/ UpdateAnnotation
  PROVE  IInv'
<1> USE DEF store, informers, reading, calls, counters
<1>0. StoreInv /\ CopyInv
  BY IInvParts
<1>1. CASE StatusUnchanged
  <2>1. /\ UNCHANGED <<session, pods, cache, lag, recorded, copy, current, newClients, clock,
                       toSpawn>>
        /\ pc = "update" /\ pc' = "spawn" /\ copy.hash = copy.status
    BY <1>1 DEF StatusUnchanged, StatusHasChanged
  <2>2. AllocatedPods(copy.status) \subseteq recorded
    <3>0. copy.status \in StatusType
      BY TypeOKParts, SessionUpdates DEF LocalsOK
    <3>1. copy.hash # NoHash
      BY <2>1, <3>0, NoHashAssumption
    <3> QED
      BY <1>0, <2>1, <3>1 DEF CopyInv
  <2>3. StoreInv' /\ KeptInv' /\ CallsInv'
    <3>1. CallsInv'
      BY <1>0, <2>1 DEF CopyInv, CallsInv
    <3> QED
      BY <1>0, <2>1, <3>1, StoreUntouched, SameEntriesKept DEF CopyInv, SameEntries, Unallocated
  <2> QED
    BY <1>0, <2>1, <2>2, <2>3, IInvParts DEF CopyInv
<1>2. CASE UpdateStatus
  <2> DEFINE updated == [session EXCEPT !.status = copy.status]
  <2>1. /\ updated.status = copy.status /\ updated.clients = session.clients
        /\ updated.hash # NoHash => AllocatedPods(updated.hash) \subseteq recorded
    BY WrittenHash
  <2>2. /\ WriteSession(updated, TRUE) /\ pc = "update" /\ pc' = "annotate"
        /\ UNCHANGED <<pods, cache, copy, current, newClients, clock, toSpawn>>
    BY <1>2 DEF UpdateStatus
  <2> HIDE DEF updated
  <2>3. /\ StoreInv' /\ session' = updated /\ recorded \subseteq recorded'
        /\ AllocatedPods(copy.status) \subseteq recorded'
    BY <1>0, <2>1, <2>2, WriteInv
  <2>4. CallsInv'
    BY <1>0, <2>2 DEF CopyInv, CallsInv
  <2>5. KeptInv'
    BY <1>0, <2>1, <2>2, <2>3 DEF CopyInv, KeptInv, Protected
  <2> QED
    BY <1>0, <2>1, <2>2, <2>3, <2>4, <2>5, IInvParts DEF CopyInv
<1>3. CASE UpdateAnnotation
  <2>1. /\ WriteSession(Annotated, TRUE) /\ pc = "annotate" /\ pc' = "spawn"
        /\ UNCHANGED <<pods, cache, copy, current, newClients, clock, toSpawn>>
    BY <1>3 DEF UpdateAnnotation
  <2>2. /\ StoreInv' /\ session' = Annotated /\ recorded \subseteq recorded' /\ current
    BY <1>0, <2>1, WrittenHash, WriteInv
  <2>3. session'.status = session.status /\ session'.clients = copy.clients
    BY <2>2, WrittenHash
  <2>4. CallsInv'
    BY <1>0, <2>1 DEF CopyInv, CallsInv
  <2>5. KeptInv'
    BY <1>0, <2>1, <2>2, <2>3 DEF CopyInv, KeptInv, Protected
  <2> QED
    BY <1>0, <2>1, <2>2, <2>3, <2>4, <2>5, IInvParts DEF CopyInv
<1> QED
  BY <1>1, <1>2, <1>3

(* The writes after which Reconcile returns.                               *)
LEMMA UpdateFailsInv ==
  ASSUME TypeOK, IInv, ReportError \/ UpdateStatusFails \/ UpdateAnnotationFails
  PROVE  IInv'
<1> DEFINE updated == [session EXCEPT !.status = copy.status]
<1>0. StoreInv /\ CopyInv
  BY IInvParts
<1>1. updated.hash # NoHash => AllocatedPods(updated.hash) \subseteq recorded
  BY WrittenHash
<1>2. UNCHANGED <<pods, cache>> /\ CopyInv'
  BY ReturnInv DEF ReportError, UpdateStatusFails, UpdateAnnotationFails
<1>3. ASSUME NEW s, NEW answered, WriteSession(s, answered),
             s.hash # NoHash => AllocatedPods(s.hash) \subseteq recorded
      PROVE  IInv'
  BY <1>0, <1>2, <1>3, WriteInv, IInvParts
<1>4. CASE ReportError \/ UpdateStatusFails
  <2>1. PICK answered \in BOOLEAN : WriteSession(updated, answered)
    BY <1>4 DEF ReportError, UpdateStatusFails
  <2> HIDE DEF updated
  <2> QED
    BY <1>1, <1>3, <2>1
<1>5. CASE UpdateAnnotationFails
  <2>1. WriteSession(Annotated, FALSE) /\ pc = "annotate"
    BY <1>5 DEF UpdateAnnotationFails
  <2> QED
    BY <1>3, <2>1, WrittenHash
<1> QED
  BY <1>4, <1>5

(* A cache that has caught up shows the store.                             *)
LEMMA SyncInv ==
  ASSUME TypeOK, IInv, Sync \/ Restart
  PROVE  IInv'
<1> USE DEF store, informers, reading, calls, counters
<1>0. StoreInv /\ CopyInv
  BY IInvParts
<1>1. StoreInv'
  <2>1. UNCHANGED <<session, pods, recorded>>
    BY DEF Sync, SyncSession, SyncPods, SyncRegistrations, Restart
  <2>2. cache \in CacheType /\ lag \in LagType
    BY TypeOKParts DEF WorldOK
  <2>3. \/ cache'.session = session
        \/ cache'.session = cache.session /\ lag'.session = lag.session
    <3>1. CASE SyncSession
      BY <2>2, <3>1 DEF SyncSession, CacheType
    <3>2. CASE SyncPods \/ SyncRegistrations
      BY <2>2, <3>2 DEF SyncPods, SyncRegistrations, CacheType, LagType
    <3>3. CASE Restart
      BY <3>3 DEF Restart
    <3> QED
      BY <3>1, <3>2, <3>3 DEF Sync
  <2> QED
    BY <1>0, <2>1, <2>3 DEF StoreInv, NamesRecorded, PodsRecorded
<1>2. CASE Sync
  <2>1. UNCHANGED <<session, recorded, copy, current, newClients, clock, toSpawn, pc>>
    BY <1>2 DEF Sync, SyncSession, SyncPods, SyncRegistrations
  <2>2. KeptInv' /\ CallsInv'
    BY <1>0, <2>1, SameEntriesKept DEF CopyInv, SameEntries, CallsInv
  <2> QED
    BY <1>0, <1>1, <2>1, <2>2, IInvParts DEF CopyInv
<1>3. CASE Restart
  BY <1>1, <1>3, ReturnInv, IInvParts DEF Restart
<1> QED
  BY <1>2, <1>3

(* A client edit and the deletion of the session make every copy stale; no *)
(* other event outside the controller makes a client protected.            *)
LEMMA EnvironmentInv ==
  ASSUME TypeOK, IInv,
         \/ DeleteSession \/ AssignIp \/ Tick
         \/ \E c \in Clients, v \in ClientStates : EditClient(c, v)
         \/ \E p \in AllPods :
               \/ PodRemoved(p) \/ RegistrationRemoved(p)
               \/ \E value \in {"True", "False"} : PodCondition(p, value)
  PROVE  IInv'
<1> USE DEF store, informers, reading, calls, counters
<1>0. /\ StoreInv /\ CopyInv /\ session \in SessionType /\ lag \in LagType
      /\ pods \in [AllPods -> PodStates]
  BY IInvParts, TypeOKParts DEF WorldOK
<1>1. UNCHANGED <<cache, recorded, copy, newClients, pc, toSpawn>>
  BY DEF DeleteSession, AssignIp, Tick, EditClient, PodRemoved, RegistrationRemoved,
         PodCondition, Churn
<1>2. CallsInv'
  BY <1>0, <1>1 DEF CopyInv, CallsInv
<1>3. CASE \/ DeleteSession
           \/ \E c \in Clients, v \in ClientStates : EditClient(c, v)
  <2>1. session'.status = session.status /\ session'.hash = session.hash
    BY <1>0, <1>3 DEF DeleteSession, EditClient, SessionType
  <2>2. lag'.session # "none" /\ pods' = pods /\ ~current'
    BY <1>0, <1>3 DEF DeleteSession, EditClient, LagType, Behind
  <2>3. StoreInv'
    BY <1>0, <1>1, <2>1, <2>2 DEF StoreInv, NamesRecorded, PodsRecorded
  <2>4. KeptInv'
    BY <1>0, <1>1, <2>2 DEF CopyInv, KeptInv
  <2> QED
    BY <1>0, <1>1, <1>2, <2>2, <2>3, <2>4, IInvParts DEF CopyInv
<1>4. CASE Tick
  <2>1. UNCHANGED <<session, current, lag, pods>> /\ clock' = clock + 1
    BY <1>4 DEF Tick
  <2>2. \A c \in Clients : Protected(c)' => Protected(c)
    <3>1. session.status \in StatusFields
      BY <1>0, SessionUpdates, StatusTypeIs
    <3>2. \A c \in Clients : session.status.seen[c] \in Int
      BY <3>1 DEF StatusFields
    <3>3. clock \in Int /\ TimeoutSeconds \in Int
      BY ClockIsInt, TypeOKParts, ConstantsAssumption
    <3> QED
      BY <2>1, <3>2, <3>3 DEF Protected
  <2>3. KeptInv'
    BY <1>0, <1>1, <2>1, <2>2 DEF CopyInv, KeptInv
  <2> QED
    BY <1>0, <1>1, <1>2, <2>1, <2>3, StoreUntouched, IInvParts DEF CopyInv
<1>5. CASE \/ AssignIp
           \/ \E p \in AllPods :
                 \/ PodRemoved(p) \/ RegistrationRemoved(p)
                 \/ \E value \in {"True", "False"} : PodCondition(p, value)
  <2>1. UNCHANGED <<session, current, clock>> /\ lag'.session = lag.session
    BY <1>0, <1>5 DEF AssignIp, PodRemoved, RegistrationRemoved, PodCondition, Churn, LagType
  <2>2. Existing(pods)' \subseteq Existing(pods)
    BY <1>0, <1>5 DEF AssignIp, PodRemoved, RegistrationRemoved, PodCondition, Existing
  <2>3. StoreInv'
    BY <1>0, <1>1, <2>1, <2>2 DEF StoreInv, NamesRecorded, PodsRecorded
  <2>4. KeptInv'
    BY <1>0, <1>1, <2>1, SameEntriesKept DEF CopyInv, SameEntries
  <2> QED
    BY <1>0, <1>1, <1>2, <2>1, <2>3, <2>4, IInvParts DEF CopyInv
<1> QED
  BY <1>3, <1>4, <1>5

(* IInv holds initially.                                                   *)
LEMMA InitInv == Init => IInv
<1> SUFFICES ASSUME Init PROVE StoreInv /\ CopyInv
  BY IInvParts
<1>1. NewSession.hash = NoHash /\ AllocatedPods(NewSession.status) = {}
  BY NewStatusType DEF NewSession
<1>2. StoreInv
  BY <1>1 DEF Init, StoreInv, NamesRecorded, PodsRecorded, Existing, NoPods
<1>3. CopyInv
  BY <1>1 DEF Init, CopyInv, CallsInv, KeptInv
<1> QED
  BY <1>2, <1>3

(* Every step keeps IInv.                                                  *)
LEMMA NextInv ==
  ASSUME TypeOK, IInv, [Next]_vars
  PROVE  IInv'
<1>1. CASE Reconcile
  BY <1>1, BeginInv, SessionPodsInv, ReturnsInv, RegistrationsInv, SpawnInv, ClientPodsInv,
     AllocateInv, ReconcilePodsInv, UpdateInv, UpdateFailsInv DEF Reconcile
<1>2. CASE Sync
  BY <1>2, SyncInv
<1>3. CASE Environment
  BY <1>3, SyncInv, EnvironmentInv DEF Environment
<1>4. CASE UNCHANGED vars
  BY <1>4 DEF vars, store, informers, reading, calls, counters, IInv, RecordedInv, NamesRecorded,
              CallsInv, VersionInv, KeptInv, Protected, SameEntries, PodsRecorded
<1> QED
  BY <1>1, <1>2, <1>3, <1>4 DEF Next

(* IInv holds in every state.                                              *)
THEOREM Inductive == Spec => [](TypeOK /\ IInv)
<1>1. Init => TypeOK /\ IInv
  BY InitType, InitInv
<1>2. TypeOK /\ IInv /\ [Next]_vars => (TypeOK /\ IInv)'
  BY NextType, NextInv
<1> QED
  BY <1>1, <1>2, PTL DEF Spec

(* Wherever Reconcile stops, fails or is restarted, every client pod that  *)
(* exists was named by a stored status before it was spawned.              *)
THEOREM PodsRecordedHolds == Spec => []PodsRecorded
<1>1. IInv => PodsRecorded
  BY DEF IInv
<1> QED
  BY <1>1, Inductive, PTL

---------------------------------------------------------------------------
(* Action properties.                                                      *)

(* A step that changes the stored clients or their entries is an event     *)
(* outside the controller or a write of a current copy.                    *)
LEMMA SessionWrites ==
  ASSUME TypeOK, IInv, [Next]_vars
  PROVE  \/ session' = session
         \/ edits' # edits /\ session'.status = session.status
         \/ session'.clients = session.clients /\ session'.status = session.status
         \/ /\ current /\ session'.clients = session.clients
            /\ session'.status = copy.status
<1> USE DEF store, informers, reading, calls, counters
<1>0. /\ StoreInv /\ CopyInv /\ session \in SessionType /\ edits \in Int
  BY IInvParts, TypeOKParts DEF WorldOK
<1> DEFINE updated == [session EXCEPT !.status = copy.status]
<1>1. /\ updated.status = copy.status /\ updated.clients = session.clients
      /\ Annotated.status = session.status /\ Annotated.clients = copy.clients
      /\ updated.hash # NoHash => AllocatedPods(updated.hash) \subseteq recorded
      /\ pc = "annotate" /\ Annotated.hash # NoHash
                  => AllocatedPods(Annotated.hash) \subseteq recorded
  BY WrittenHash
<1>2. CASE ReportError \/ UpdateStatus \/ UpdateStatusFails
  <2>1. PICK answered \in BOOLEAN : WriteSession(updated, answered)
    BY <1>2 DEF ReportError, UpdateStatus, UpdateStatusFails
  <2>2. session' # session => session' = updated /\ current
    BY <2>1 DEF WriteSession, Accepted, PutSession
  <2> HIDE DEF updated
  <2> QED
    BY <1>1, <2>2
<1>3. CASE UpdateAnnotation \/ UpdateAnnotationFails
  <2>1. PICK answered \in BOOLEAN : WriteSession(Annotated, answered)
    BY <1>3 DEF UpdateAnnotation, UpdateAnnotationFails
  <2>2. session' # session => session' = Annotated /\ current
    BY <2>1 DEF WriteSession, Accepted, PutSession
  <2>3. current => copy.clients = session.clients
    BY <1>0 DEF CopyInv
  <2> QED
    BY <1>1, <2>2, <2>3
<1>4. CASE Begin \/ SessionNotFound \/ ReadFails \/ PanicOnMissingIp \/ GetPodsFails
           \/ ReconcileSessionPods \/ RegistrationFails \/ RegistrationsDone \/ PodsRestored
           \/ ReconcileClientPods \/ ListFails \/ ReconcilePods \/ StatusUnchanged \/ Done
  BY <1>4
     DEF Begin, SessionNotFound, ReadFails, PanicOnMissingIp, GetPodsFails, ReconcileSessionPods,
         RegistrationFails, RegistrationsDone, PodsRestored, ReconcileClientPods, ListFails,
         ReconcilePods, StatusUnchanged, Done
<1>5. CASE \E p \in AllPods :
              \/ CreateGCRegistration(p) \/ DeleteGCRegistration(p)
              \/ RestorePod(p) \/ RestoreFails(p) \/ SpawnClientPod(p) \/ SpawnFails(p)
  BY <1>5
     DEF CreateGCRegistration, DeleteGCRegistration, RestorePod, RestoreFails, SpawnClientPod,
         SpawnFails
<1>6. CASE \E c \in Clients : AllocateClient(c)
  BY <1>6 DEF AllocateClient
<1>7. CASE Sync \/ UNCHANGED vars
  BY <1>7 DEF Sync, SyncSession, SyncPods, SyncRegistrations, vars
<1>8. CASE Environment
  <2>1. CASE \E c \in Clients, v \in ClientStates : EditClient(c, v)
    BY <1>0, <2>1 DEF EditClient, SessionType
  <2>2. CASE DeleteSession
    BY <1>0, <2>2 DEF DeleteSession, SessionType
  <2>3. CASE \/ Restart \/ AssignIp \/ Tick
             \/ \E p \in AllPods :
                   \/ PodRemoved(p) \/ RegistrationRemoved(p)
                   \/ \E value \in {"True", "False"} : PodCondition(p, value)
    BY <2>3 DEF Restart, AssignIp, Tick, PodRemoved, RegistrationRemoved, PodCondition
  <2> QED
    BY <1>8, <2>1, <2>2, <2>3 DEF Environment
<1> QED
  BY <1>2, <1>3, <1>4, <1>5, <1>6, <1>7, <1>8 DEF Next, Reconcile

(* The cache shows the store, or what it showed.                           *)
LEMMA CacheWrites ==
  ASSUME TypeOK, [Next]_vars
  PROVE  cache'.session \in {session, cache.session}
<1> USE DEF store, informers, reading, calls, counters
<1>0. cache \in CacheType
  BY TypeOKParts DEF WorldOK
<1>1. CASE Reconcile
  BY <1>1
     DEF Reconcile, Begin, SessionNotFound, ReadFails, PanicOnMissingIp, GetPodsFails,
         ReconcileSessionPods, RegistrationFails, RegistrationsDone, CreateGCRegistration,
         DeleteGCRegistration, RestorePod, RestoreFails, SpawnClientPod, SpawnFails, PodsRestored,
         ReportError, ReconcileClientPods, ListFails, ReconcilePods, AllocateClient,
         StatusUnchanged, UpdateStatus, UpdateStatusFails, UpdateAnnotation, UpdateAnnotationFails,
         Done
<1>2. CASE Sync
  BY <1>0, <1>2 DEF Sync, SyncSession, SyncPods, SyncRegistrations, CacheType
<1>3. CASE Restart
  BY <1>3 DEF Restart
<1>4. CASE Environment /\ ~Restart
  BY <1>4
     DEF Environment, DeleteSession, AssignIp, Tick, EditClient, PodRemoved, RegistrationRemoved,
         PodCondition, Churn
<1>5. CASE UNCHANGED vars
  BY <1>5 DEF vars
<1> QED
  BY <1>1, <1>2, <1>3, <1>4, <1>5 DEF Next

(* Only the session manager changes the clients of the spec: the Update of *)
(* the annotation sends back those it read.                                *)
THEOREM SpecUntouchedHolds == Spec => SpecUntouched
<1>1. TypeOK /\ IInv /\ [Next]_vars
        => [session'.clients # session.clients => edits' # edits]_vars
  BY SessionWrites
<1> QED
  BY <1>1, Inductive, PTL DEF Spec, SpecUntouched

(* A step leaves a protected client its pods.                              *)
LEMMA StepKeepsPods ==
  ASSUME TypeOK, IInv, [Next]_vars, NEW c \in Clients, Protected(c)
  PROVE  session'.status.alloc[c] = session.status.alloc[c]
<1>1. CopyInv
  BY IInvParts
<1>2. current => copy.status.alloc[c] = session.status.alloc[c]
  BY <1>1 DEF CopyInv, KeptInv
<1> QED
  BY <1>2, SessionWrites

(* No write of a status takes the pods of a client that is connected, or   *)
(* whose grace period has not ended.                                       *)
THEOREM KeepsPodsHolds == Spec => KeepsPods
<1>1. TypeOK /\ IInv /\ [Next]_vars =>
        [\A c \in Clients :
           Protected(c) => session'.status.alloc[c] = session.status.alloc[c]]_vars
  BY StepKeepsPods
<1> QED
  BY <1>1, Inductive, PTL DEF Spec, KeepsPods
=============================================================================
