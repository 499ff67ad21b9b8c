------------------------ MODULE SessionSettledProofs ------------------------
(***************************************************************************)
(* SessionController rests only where it should: when nothing is queued    *)
(* and no event is on its way, the session pods are there, and the stored  *)
(* status shows every client as it is, with pods that are there.           *)
(***************************************************************************)
EXTENDS SessionSafetyProofs

---------------------------------------------------------------------------
(* What is an event, and what is not.                                      *)

(* EventsInv in two parts: of the store and its caches, and of the copy.   *)
WatchInv ==
  /\ session.live => cache.session.live
  /\ lag.session # "event" => cache.session.clients = session.clients
  /\ lag.pods # "event" => Existing(cache.pods) \subseteq Existing(pods)

(* EventsInv is the two of them.                                           *)
LEMMA EventsInvParts ==
  /\ EventsInv <=> WatchInv /\ (Undisturbed /\ pc # "idle" => copy.clients = session.clients)
  /\ EventsInv' <=>
       WatchInv' /\ (Undisturbed' /\ pc' # "idle" => copy'.clients = session'.clients)
BY DEF EventsInv, WatchInv

(* A step that the watches pass over: no client changes, no pod goes.      *)
Quiet ==
  /\ session'.clients = session.clients /\ session'.live = session.live
  /\ Existing(pods) \subseteq Existing(pods') /\ cache' = cache
  /\ lag'.session = "event" <=> lag.session = "event"
  /\ lag'.pods = "event" <=> lag.pods = "event"

(* A write of the session, accepted or not, is no event.                   *)
LEMMA WriteIsQuiet ==
  ASSUME TypeOK, IInv, NEW answered \in BOOLEAN,
         \/ WriteSession([session EXCEPT !.status = copy.status], answered)
         \/ WriteSession(Annotated, answered)
  PROVE  /\ session'.clients = session.clients /\ session'.live = session.live
         /\ lag'.pods = lag.pods
         /\ lag'.session = "event" <=> lag.session = "event"
<1>0. /\ session \in SessionType /\ copy.status \in StatusType /\ lag \in LagType
      /\ current => copy.clients = session.clients
  BY TypeOKParts, SessionUpdates, IInvParts DEF LocalsOK, WorldOK, CopyInv
<1>1. PICK s : /\ WriteSession(s, answered)
               /\ s.live = session.live
               /\ current => s.clients = session.clients
  <2>1. CASE WriteSession([session EXCEPT !.status = copy.status], answered)
    <3> DEFINE updated == [session EXCEPT !.status = copy.status]
    <3>1. updated.live = session.live /\ updated.clients = session.clients
      BY <1>0, SessionUpdates
    <3> HIDE DEF updated
    <3> QED
      BY <2>1, <3>1 DEF updated
  <2>2. CASE WriteSession(Annotated, answered)
    <3>1. Annotated.live = session.live /\ Annotated.clients = copy.clients
      BY <1>0 DEF Annotated, SessionType
    <3> QED
      BY <1>0, <2>2, <3>1
  <2> QED
    BY <2>1, <2>2
<1>2. (PutSession(s) /\ current) \/ UNCHANGED <<session, lag>>
  BY <1>1 DEF WriteSession, Accepted
<1>3. lag' \in {lag, [lag EXCEPT !.session = Behind(@)]}
  BY <1>2 DEF PutSession
<1>4. lag'.pods = lag.pods /\ (lag'.session = "event" <=> lag.session = "event")
  BY <1>0, <1>3 DEF Behind, LagType
<1>5. session' = session \/ (session' = s /\ current)
  BY <1>2 DEF PutSession
<1> QED
  BY <1>1, <1>4, <1>5

(* The Create of a pod is no event: the watch filters it out.              *)
LEMMA CreateIsQuiet ==
  ASSUME TypeOK, NEW p \in AllPods, NEW answered \in BOOLEAN, SpawnPod(p, answered)
  PROVE  /\ Existing(pods) \subseteq Existing(pods') /\ lag'.session = lag.session
         /\ lag'.pods = "event" <=> lag.pods = "event"
         /\ answered => p \in Existing(pods')
<1>0. pods \in [AllPods -> PodStates] /\ lag \in LagType
  BY TypeOKParts DEF WorldOK
<1>1. PutPod(p) \/ (~answered /\ UNCHANGED <<pods, lag>>)
  BY DEF SpawnPod
<1> QED
  BY <1>0, <1>1 DEF PutPod, Behind, LagType, Existing

(* Reconcile is quiet, and takes the session from the queue only when it   *)
(* starts.                                                                 *)
LEMMA ReconcileIsQuiet ==
  ASSUME TypeOK, IInv, Reconcile
  PROVE  Quiet /\ (queued => queued' \/ Begin \/ SessionNotFound)
<1> USE DEF store, informers, reading, calls, counters
<1>0. UNCHANGED <<session, pods, cache, lag>> => Quiet
  BY DEF Quiet, Existing
<1>1. CASE Begin \/ SessionNotFound
  BY <1>0, <1>1 DEF Begin, SessionNotFound
<1>2. CASE \/ ReadFails \/ PanicOnMissingIp \/ GetPodsFails \/ ReconcileSessionPods
           \/ RegistrationFails \/ RegistrationsDone \/ PodsRestored
           \/ ReconcileClientPods \/ ListFails \/ ReconcilePods \/ StatusUnchanged \/ Done
  <2>1. UNCHANGED <<session, pods, cache, lag>>
    BY <1>2
       DEF ReadFails, PanicOnMissingIp, GetPodsFails, ReconcileSessionPods, RegistrationFails,
           RegistrationsDone, PodsRestored, ReconcileClientPods, ListFails, ReconcilePods,
           StatusUnchanged, Done
  <2>2. queued => queued'
    BY <1>2
       DEF ReadFails, PanicOnMissingIp, GetPodsFails, ReconcileSessionPods, RegistrationFails,
           RegistrationsDone, PodsRestored, ReconcileClientPods, ListFails, ReconcilePods,
           StatusUnchanged, Done, Return
  <2> QED
    BY <1>0, <2>1, <2>2
<1>3. CASE \/ \E p \in AllPods : CreateGCRegistration(p) \/ DeleteGCRegistration(p)
           \/ \E c \in Clients : AllocateClient(c)
  BY <1>0, <1>3 DEF CreateGCRegistration, DeleteGCRegistration, AllocateClient
<1>4. ASSUME NEW p \in AllPods,
             RestorePod(p) \/ RestoreFails(p) \/ SpawnClientPod(p) \/ SpawnFails(p)
      PROVE  Quiet /\ (queued => queued')
  <2>1. PICK answered \in BOOLEAN : SpawnPod(p, answered)
    BY <1>4 DEF RestorePod, RestoreFails, SpawnClientPod, SpawnFails
  <2>2. UNCHANGED <<session, cache>>
    BY <1>4 DEF RestorePod, RestoreFails, SpawnClientPod, SpawnFails
  <2>3. queued' = queued \/ Return(TRUE)
    BY <1>4 DEF RestorePod, RestoreFails, SpawnClientPod, SpawnFails
  <2>4. queued => queued'
    BY <2>3 DEF Return
  <2>5. Quiet
    BY <2>1, <2>2, CreateIsQuiet DEF Quiet
  <2> QED
    BY <2>4, <2>5
<1>5. CASE \/ ReportError \/ UpdateStatus \/ UpdateStatusFails
           \/ UpdateAnnotation \/ UpdateAnnotationFails
  <2>1. PICK answered \in BOOLEAN :
           \/ WriteSession([session EXCEPT !.status = copy.status], answered)
           \/ WriteSession(Annotated, answered)
    BY <1>5 DEF ReportError, UpdateStatus, UpdateStatusFails, UpdateAnnotation,
                UpdateAnnotationFails
  <2>2. UNCHANGED <<pods, cache>> /\ (queued' = queued \/ Return(TRUE))
    BY <1>5 DEF ReportError, UpdateStatus, UpdateStatusFails, UpdateAnnotation,
                UpdateAnnotationFails
  <2>3. Existing(pods) \subseteq Existing(pods')
    BY <2>2 DEF Existing
  <2>4. queued => queued'
    BY <2>2 DEF Return
  <2>5. Quiet
    BY <2>1, <2>2, <2>3, WriteIsQuiet DEF Quiet
  <2> QED
    BY <2>4, <2>5
<1> QED
  BY <1>1, <1>2, <1>3, <1>4, <1>5 DEF Reconcile

(* A step that leaves the session undisturbed changes no client, deletes   *)
(* no pod, and starts Reconcile or follows a state that was undisturbed.   *)
LEMMA CalmStep ==
  ASSUME TypeOK, IInv, [Next]_vars, Undisturbed'
  PROVE  /\ session'.clients = session.clients /\ (session'.live => session.live)
         /\ Existing(pods) \subseteq Existing(pods')
         /\ Undisturbed \/ Begin \/ SessionNotFound
<1> USE DEF store, informers, reading, calls, counters
<1>0. session \in SessionType /\ lag \in LagType /\ pods \in [AllPods -> PodStates]
  BY TypeOKParts DEF WorldOK
<1>1. CASE Reconcile
  BY <1>1, ReconcileIsQuiet DEF Quiet, Undisturbed
<1>2. CASE SyncSession \/ SyncPods
  BY <1>0, <1>2 DEF SyncSession, SyncPods, Undisturbed, LagType, Existing
<1>3. CASE SyncRegistrations \/ Tick \/ UNCHANGED vars
  BY <1>3 DEF SyncRegistrations, Tick, vars, Undisturbed, Existing
<1>4. CASE Restart
  BY <1>4 DEF Restart, Return, Undisturbed
<1>5. CASE DeleteSession
  BY <1>0, <1>5 DEF DeleteSession, Churn, SessionType, LagType, Behind, Undisturbed, Existing
<1>6. CASE AssignIp \/ \E p \in AllPods : RegistrationRemoved(p)
  BY <1>6 DEF AssignIp, RegistrationRemoved, Churn, Undisturbed, Existing
<1>7. CASE \/ \E c \in Clients, v \in ClientStates : EditClient(c, v)
           \/ \E p \in AllPods :
                 PodRemoved(p) \/ \E value \in {"True", "False"} : PodCondition(p, value)
  BY <1>0, <1>7 DEF EditClient, PodRemoved, PodCondition, Undisturbed, LagType
<1> QED
  BY <1>1, <1>2, <1>3, <1>4, <1>5, <1>6, <1>7 DEF Next, Sync, Environment

(* What happened before an event is seen shows in the caches, the clients  *)
(* and the pods that are missing do.                                       *)
LEMMA NextWatch ==
  ASSUME TypeOK, IInv, WatchInv, [Next]_vars
  PROVE  WatchInv'
<1> USE DEF store, informers, reading, calls, counters
<1>0. /\ session \in SessionType /\ lag \in LagType /\ pods \in [AllPods -> PodStates]
      /\ cache \in CacheType
  BY TypeOKParts DEF WorldOK
<1>1. CASE Reconcile
  BY <1>1, ReconcileIsQuiet DEF Quiet, WatchInv, Existing
<1>2. CASE SyncSession
  BY <1>0, <1>2 DEF SyncSession, WatchInv, LagType, CacheType, Existing
<1>3. CASE SyncPods \/ SyncRegistrations
  BY <1>0, <1>3 DEF SyncPods, SyncRegistrations, WatchInv, LagType, CacheType, Existing
<1>4. CASE Restart
  BY <1>4 DEF Restart, WatchInv, Existing
<1>5. CASE DeleteSession
  BY <1>0, <1>5 DEF DeleteSession, Churn, SessionType, LagType, Behind, WatchInv, Existing
<1>6. CASE AssignIp \/ Tick \/ UNCHANGED vars \/ \E p \in AllPods : RegistrationRemoved(p)
  BY <1>6 DEF AssignIp, Tick, vars, RegistrationRemoved, Churn, WatchInv, Existing
<1>7. CASE \E c \in Clients, v \in ClientStates : EditClient(c, v)
  BY <1>0, <1>7 DEF EditClient, LagType, SessionType, WatchInv, Existing
<1>8. CASE \E p \in AllPods :
              PodRemoved(p) \/ \E value \in {"True", "False"} : PodCondition(p, value)
  BY <1>0, <1>8 DEF PodRemoved, PodCondition, Churn, LagType, WatchInv
<1> QED
  BY <1>1, <1>2, <1>3, <1>4, <1>5, <1>6, <1>7, <1>8 DEF Next, Sync, Environment

(* The copy is one version of the Session, all through a call.             *)
LEMMA CopySteps ==
  ASSUME TypeOK, [Next]_vars
  PROVE  \/ Begin
         \/ pc' = "idle"
         \/ pc # "idle" /\ copy'.clients = copy.clients /\ copy'.hash = copy.hash
<1> USE DEF store, informers, reading, calls, counters
<1>0. copy \in SessionType /\ copy.status \in StatusType /\ clock \in Int /\ clock # Absent
  BY TypeOKParts, ClockIsInt, SessionUpdates DEF LocalsOK
<1>1. ASSUME NEW status \in StatusType, copy' = [copy EXCEPT !.status = status]
      PROVE  copy'.clients = copy.clients /\ copy'.hash = copy.hash
  BY <1>0, <1>1, SessionUpdates
<1>2. CASE GetPodsFails \/ PodsRestored \/ \E p \in AllPods : RestoreFails(p)
  <2>1. PICK value \in {"Unknown", "False"} :
           copy' = [copy EXCEPT !.status = SetReadyCondition(copy.status, value)]
    BY <1>2 DEF GetPodsFails, PodsRestored, RestoreFails
  <2>2. pc # "idle"
    BY <1>2 DEF GetPodsFails, PodsRestored, RestoreFails
  <2> QED
    BY <1>0, <1>1, <2>1, <2>2, SetReadyConditionType
<1>3. CASE ReconcileSessionPods
  BY <1>0, <1>1, <1>3, SessionPodsStatusType DEF ReconcileSessionPods
<1>4. CASE ReconcileClientPods
  <2>1. PICK status \in StatusType : copy' = [copy EXCEPT !.status = status]
    BY <1>0, <1>4, ReconciledStatus DEF ReconcileClientPods
  <2>2. pc # "idle"
    BY <1>4 DEF ReconcileClientPods
  <2> QED
    BY <1>1, <2>1, <2>2
<1>5. ASSUME NEW c \in Clients, AllocateClient(c)
      PROVE  pc # "idle" /\ copy'.clients = copy.clients /\ copy'.hash = copy.hash
  <2>1. PICK choice \in [Templates -> PodIds] :
           copy' = [copy EXCEPT !.status = allocateClient(copy.status, c, choice)]
    BY <1>5 DEF AllocateClient
  <2>2. pc # "idle"
    BY <1>5 DEF AllocateClient
  <2> QED
    BY <1>0, <1>1, <2>1, <2>2, AllocateClientType
<1>6. CASE ReconcilePods
  BY <1>0, <1>1, <1>6, SetReadinessType DEF ReconcilePods
<1>7. CASE \/ SessionNotFound \/ ReadFails \/ PanicOnMissingIp \/ RegistrationFails
           \/ RegistrationsDone \/ ReportError \/ ListFails \/ StatusUnchanged \/ UpdateStatus
           \/ UpdateStatusFails \/ UpdateAnnotation \/ UpdateAnnotationFails \/ Done
  BY <1>7
     DEF SessionNotFound, ReadFails, PanicOnMissingIp, RegistrationFails,
         RegistrationsDone, ReportError, ListFails, StatusUnchanged, UpdateStatus,
         UpdateStatusFails, UpdateAnnotation, UpdateAnnotationFails, Done, Return
<1>8. CASE \E p \in AllPods :
              \/ CreateGCRegistration(p) \/ DeleteGCRegistration(p)
              \/ RestorePod(p) \/ SpawnClientPod(p) \/ SpawnFails(p)
  BY <1>8
     DEF CreateGCRegistration, DeleteGCRegistration, RestorePod, SpawnClientPod, SpawnFails, Return
<1>9. CASE Sync \/ Environment \/ UNCHANGED vars
  BY <1>9
     DEF Sync, SyncSession, SyncPods, SyncRegistrations, Environment, Restart, DeleteSession,
         AssignIp, Tick, EditClient, PodRemoved, RegistrationRemoved, PodCondition, Churn, Return,
         vars
<1> QED
  BY <1>2, <1>3, <1>4, <1>5, <1>6, <1>7, <1>8, <1>9 DEF Next, Reconcile

(* A call that nothing disturbs works on the clients that are stored.      *)
LEMMA NextEvents ==
  ASSUME TypeOK, IInv, EventsInv, [Next]_vars
  PROVE  EventsInv'
<1> USE DEF store, informers, reading, calls, counters
<1>1. WatchInv /\ (Undisturbed /\ pc # "idle" => copy.clients = session.clients)
  BY EventsInvParts
<1>2. ASSUME Undisturbed', pc' # "idle"
      PROVE  copy'.clients = session'.clients
  <2>1. session'.clients = session.clients /\ (Undisturbed \/ Begin)
    <3>1. ~SessionNotFound
      BY <1>2 DEF SessionNotFound
    <3> QED
      BY <1>2, <3>1, CalmStep
  <2>2. CASE Begin
    BY <1>1, <1>2, <2>1, <2>2 DEF Begin, Undisturbed, WatchInv
  <2>3. CASE ~Begin
    BY <1>1, <1>2, <2>1, <2>3, CopySteps
  <2> QED
    BY <2>2, <2>3
<1> QED
  BY <1>1, <1>2, NextWatch, EventsInvParts

---------------------------------------------------------------------------
(* The session pods.                                                       *)

(* The second part of RestoredInv.                                         *)
Restored ==
  Undisturbed /\ session.live /\ Connected(session) =>
     /\ pc \in {"sessionRegs", "restore"} => SessionPods \subseteq Existing(pods) \cup toSpawn
     /\ pc \notin {"sessionPods", "sessionRegs", "restore", "report"} =>
           SessionPods \subseteq Existing(pods)

(* RestoredInv says what is an event, and where the session pods are.      *)
LEMMA RestoredInvParts ==
  (RestoredInv <=> EventsInv /\ Restored) /\ (RestoredInv' <=> EventsInv' /\ Restored')
BY DEF RestoredInv, Restored

(* Reconcile finds the session pods that are missing, and ends early only  *)
(* with an error.                                                          *)
LEMMA NextRestored ==
  ASSUME TypeOK, IInv, RestoredInv, [Next]_vars
  PROVE  RestoredInv'
<1> USE DEF store, informers, reading, calls, counters
<1>0. /\ WatchInv /\ Restored /\ EventsInv'
      /\ Undisturbed /\ pc # "idle" => copy.clients = session.clients
  BY RestoredInvParts, EventsInvParts, NextEvents
<1>1. SUFFICES ASSUME Undisturbed', session'.live, Connected(session)'
               PROVE  /\ pc' \in {"sessionRegs", "restore"} =>
                            SessionPods \subseteq Existing(pods') \cup toSpawn'
                      /\ pc' \notin {"sessionPods", "sessionRegs", "restore", "report"} =>
                            SessionPods \subseteq Existing(pods')
  BY <1>0, RestoredInvParts DEF Restored, Existing
<1>2. /\ session.live /\ Connected(session) /\ Existing(pods) \subseteq Existing(pods')
      /\ Undisturbed \/ Begin \/ SessionNotFound
  BY <1>1, CalmStep DEF Connected
<1>3. ~SessionNotFound
  BY <1>0, <1>2 DEF SessionNotFound, WatchInv
<1>4. CASE Begin
  BY <1>4 DEF Begin, AfterSessionPods
<1>5. CASE ReconcileSessionPods
  <2>1. Connected(copy)
    BY <1>0, <1>2, <1>3, <1>5 DEF ReconcileSessionPods, Connected, Begin
  <2>2. Existing(cache.pods) \subseteq Existing(pods)
    BY <1>0, <1>1, <1>5 DEF ReconcileSessionPods, Undisturbed, WatchInv
  <2> QED
    BY <1>5, <2>1, <2>2 DEF ReconcileSessionPods, Existing
<1>6. ASSUME NEW p \in AllPods, RestorePod(p)
      PROVE  SessionPods \subseteq Existing(pods') \cup toSpawn'
  <2>1. p \in Existing(pods')
    BY <1>6, CreateIsQuiet DEF RestorePod
  <2>2. SessionPods \subseteq Existing(pods) \cup toSpawn /\ toSpawn' = toSpawn \ {p}
    BY <1>0, <1>2, <1>3, <1>6 DEF RestorePod, Restored, Begin
  <2> QED
    BY <1>2, <2>1, <2>2
<1>7. CASE RegistrationsDone \/ PodsRestored
  BY <1>0, <1>2, <1>3, <1>7 DEF RegistrationsDone, PodsRestored, Restored, Begin
<1>8. ASSUME ~Begin, ~ReconcileSessionPods, ~RegistrationsDone, ~PodsRestored,
             \A p \in AllPods : ~RestorePod(p)
      PROVE  /\ pc' \in {"sessionRegs", "restore"} => pc' = pc /\ toSpawn' = toSpawn
             /\ pc' \notin {"sessionPods", "sessionRegs", "restore", "report"} =>
                   pc \notin {"sessionPods", "sessionRegs", "restore", "report"}
  <2>1. CASE Reconcile
    BY <1>1, <1>3, <1>8, <2>1
       DEF Undisturbed, Return, Reconcile, ReadFails, PanicOnMissingIp, GetPodsFails,
           RegistrationFails, CreateGCRegistration, DeleteGCRegistration, RestoreFails,
           SpawnClientPod, SpawnFails, ReportError, ReconcileClientPods, ListFails, ReconcilePods,
           AllocateClient, StatusUnchanged, UpdateStatus, UpdateStatusFails, UpdateAnnotation,
           UpdateAnnotationFails, Done
  <2>2. CASE Sync \/ UNCHANGED vars
    BY <2>2 DEF Sync, SyncSession, SyncPods, SyncRegistrations, vars
  <2>3. CASE Environment
    BY <1>1, <2>3
       DEF Environment, Restart, DeleteSession, AssignIp, Tick, EditClient, PodRemoved,
           RegistrationRemoved, PodCondition, Churn, Return, Undisturbed
  <2> QED
    BY <2>1, <2>2, <2>3 DEF Next
<1>9. CASE /\ ~Begin /\ ~ReconcileSessionPods /\ ~RegistrationsDone /\ ~PodsRestored
           /\ \A p \in AllPods : ~RestorePod(p)
  BY <1>0, <1>2, <1>3, <1>8, <1>9 DEF Restored
<1>10. ASSUME NEW p \in AllPods, RestorePod(p)
       PROVE  pc' = "restore"
  BY <1>10 DEF RestorePod
<1> QED
  BY <1>4, <1>5, <1>6, <1>7, <1>9, <1>10 DEF ReconcileSessionPods

(* In the initial states no client is connected.                           *)
LEMMA InitRestored == Init => RestoredInv
BY DEF Init, RestoredInv, EventsInv, Connected, NewSession

(* A call that nothing disturbs finds every session pod that is missing and*)
(* does not end before all of them are there, or is called again           *)
(* (ReconcileSessionPods, restorePods).                                    *)
THEOREM RestoredHolds == Spec => []RestoredInv
<1>1. TypeOK /\ IInv /\ RestoredInv /\ [Next]_vars => RestoredInv'
  BY NextRestored
<1> QED
  BY <1>1, InitRestored, Inductive, PTL DEF Spec

(* When the controller rests and a client is connected, every session pod  *)
(* exists, whatever failed or was removed on the way.                      *)
THEOREM SettledSessionPodsHolds == Spec => []SettledSessionPods
<1>1. RestoredInv => SettledSessionPods
  BY DEF RestoredInv, SettledSessionPods, Quiescent, Undisturbed
<1> QED
  BY <1>1, RestoredHolds, PTL

---------------------------------------------------------------------------
(* How the versions of the Session change.                                 *)

USE DEF defaultTime, Absent

(* One client's entry, from a status to the one computed from it.          *)
EntryStep(clients, before, after, c) ==
  \/ after.seen[c] = before.seen[c] /\ after.alloc[c] = before.alloc[c]
  \/ after.seen[c] = Absent
  \/ /\ clients[c] = "down" /\ before.seen[c] # Absent
     /\ after.seen[c] \notin {Absent, defaultTime} /\ after.alloc[c] = before.alloc[c]
  \/ /\ clients[c] = "up" /\ before.seen[c] # Absent
     /\ after.seen[c] = defaultTime /\ after.alloc[c] = before.alloc[c]
  \/ /\ clients[c] = "up" /\ after.seen[c] = defaultTime
     /\ PodOfEach(after.alloc[c])

(* What ReconcileClientPods makes of one entry.                            *)
LEMMA ReconciledSteps ==
  ASSUME NEW status \in StatusType, NEW now \in Int, now >= 0, NEW clients, NEW c \in Clients
  PROVE  LET kept == cleanExpiredClientsFromStatus(now, status)
             left == removeLeftClients(clients, handleClientChanges(now, clients, kept))
         IN /\ EntryStep(clients, status, left, c)
            /\ c \notin newClientsIn(clients, kept) => Shows(left, clients, c)
            /\ clients[c] = "down" /\ status.seen[c] = defaultTime => left.seen[c] = now
<1> DEFINE kept == cleanExpiredClientsFromStatus(now, status)
           changed == handleClientChanges(now, clients, kept)
           left == removeLeftClients(clients, changed)
           expired == status.seen[c] # Absent /\ clientHasExpired(now, status.seen[c])
<1>1. /\ kept \in StatusType /\ changed \in StatusType /\ left \in StatusType
      /\ changed.alloc = kept.alloc
  <2>1. now # Absent
    OBVIOUS
  <2> QED
    BY <2>1, ReconciledStatus
<1>2. status \in StatusFields /\ kept \in StatusFields /\ changed \in StatusFields
  BY <1>1, StatusTypeIs
<1>3. /\ kept.seen[c] = IF expired THEN Absent ELSE status.seen[c]
      /\ kept.alloc[c] = IF expired THEN {} ELSE status.alloc[c]
  BY <1>2 DEF cleanExpiredClientsFromStatus, Forget, StatusFields
<1>4. changed.seen[c] =
         IF kept.seen[c] = defaultTime /\ clients[c] = "down" THEN now
         ELSE IF kept.seen[c] # Absent /\ clients[c] = "up" THEN defaultTime
         ELSE kept.seen[c]
  <2> HIDE DEF kept
  <2> QED
    BY <1>2 DEF handleClientChanges, StatusFields
<1>5. /\ left.seen[c] = IF clients[c] = "absent" THEN Absent ELSE changed.seen[c]
      /\ left.alloc[c] = IF clients[c] = "absent" THEN {} ELSE changed.alloc[c]
  BY <1>2 DEF removeLeftClients, Forget, StatusFields
<1>6. ~(status.seen[c] = defaultTime /\ expired)
  BY DEF clientHasExpired
<1>7. c \in newClientsIn(clients, kept) <=> clients[c] = "up" /\ kept.seen[c] = Absent
  BY DEF newClientsIn
<1> HIDE DEF kept, changed, left, expired
<1>8. EntryStep(clients, status, left, c)
  BY <1>1, <1>3, <1>4, <1>5 DEF EntryStep
<1>9. c \notin newClientsIn(clients, kept) => Shows(left, clients, c)
  BY <1>4, <1>5, <1>7 DEF Shows
<1>10. clients[c] = "down" /\ status.seen[c] = defaultTime => left.seen[c] = now
  BY <1>3, <1>4, <1>5, <1>6
<1> QED
  BY <1>8, <1>9, <1>10 DEF kept, changed, left

(* What one step makes of the copy: nothing, a new copy, none, or another  *)
(* status for the same version, entry by entry.                            *)
CopyStep ==
  /\ copy'.clients = copy.clients /\ copy'.hash = copy.hash
  /\ copy.status \in StatusType /\ copy'.status \in StatusType
  /\ \A c \in Clients : EntryStep(copy.clients, copy.status, copy'.status, c)

(* The copy's status changes by entries.                                   *)
LEMMA CopyEntries ==
  ASSUME TypeOK, IInv, StatusInv, [Next]_vars
  PROVE  copy' \in {copy, cache.session, NewSession} \/ CopyStep
<1> USE DEF store, informers, reading, calls, counters
<1>0. /\ copy \in SessionType /\ copy.status \in StatusType
      /\ clock \in Int /\ clock >= 0 /\ clock # Absent
  BY TypeOKParts, ClockIsInt, SessionUpdates DEF LocalsOK
<1>1. ASSUME NEW status \in StatusType, copy' = [copy EXCEPT !.status = status],
             \A c \in Clients : EntryStep(copy.clients, copy.status, status, c)
      PROVE  CopyStep
  <2>1. copy'.status = status /\ copy'.clients = copy.clients /\ copy'.hash = copy.hash
    BY <1>0, <1>1, SessionUpdates
  <2> QED
    BY <1>0, <1>1, <2>1 DEF CopyStep
<1>2. ASSUME NEW status \in StatusType, copy' = [copy EXCEPT !.status = status],
             status.seen = copy.status.seen, status.alloc = copy.status.alloc
      PROVE  CopyStep
  BY <1>1, <1>2 DEF EntryStep
<1>3. CASE GetPodsFails \/ PodsRestored \/ \E p \in AllPods : RestoreFails(p)
  <2>1. PICK value \in {"Unknown", "False"} :
           copy' = [copy EXCEPT !.status = SetReadyCondition(copy.status, value)]
    BY <1>3 DEF GetPodsFails, PodsRestored, RestoreFails
  <2> QED
    BY <1>0, <1>2, <2>1, SetReadyConditionType
<1>4. CASE ReconcileSessionPods
  BY <1>0, <1>2, <1>4, SessionPodsStatusType DEF ReconcileSessionPods
<1>5. CASE ReconcilePods
  BY <1>0, <1>2, <1>5, SetReadinessType DEF ReconcilePods
<1>6. CASE ReconcileClientPods
  <2> DEFINE kept == cleanExpiredClientsFromStatus(clock, copy.status)
             left == removeLeftClients(copy.clients,
                                       handleClientChanges(clock, copy.clients, kept))
  <2>1. left \in StatusType
    BY <1>0, ReconciledStatus
  <2>2. \A c \in Clients : EntryStep(copy.clients, copy.status, left, c)
    BY <1>0, ReconciledSteps
  <2>3. copy' = [copy EXCEPT !.status = left]
    BY <1>6 DEF ReconcileClientPods
  <2> HIDE DEF left
  <2> QED
    BY <1>1, <2>1, <2>2, <2>3
<1>7. ASSUME NEW c \in Clients, AllocateClient(c)
      PROVE  CopyStep
  <2>1. PICK choice \in [Templates -> PodIds] :
           /\ \A t \in Templates : choice[t] \in CandidatePods(copy.status, found, NamesInUse, t)
           /\ copy' = [copy EXCEPT !.status = allocateClient(copy.status, c, choice)]
    BY <1>7 DEF AllocateClient
  <2> DEFINE after == allocateClient(copy.status, c, choice)
  <2>2. after \in StatusType
    BY <1>0, AllocateClientType
  <2>3. after.seen[c] = defaultTime
    <3>1. copy.status \in StatusFields
      BY <1>0, StatusTypeIs
    <3> QED
      BY <3>1 DEF allocateClient, StatusFields
  <2>4. PodOfEach(after.alloc[c])
    <3>1. after.alloc[c] = {choice[t] : t \in Templates}
      BY <1>0, AllocateClientType
    <3>2. \A t \in Templates : TemplateOf[choice[t]] = t
      BY <2>1, CandidateTemplate
    <3> QED
      BY <3>1, <3>2 DEF PodOfEach
  <2>5. copy.clients[c] = "up"
    BY <1>7 DEF AllocateClient, StatusInv
  <2>6. \A d \in Clients \ {c} : /\ after.alloc[d] = copy.status.alloc[d]
                                 /\ after.seen[d] = copy.status.seen[d]
    BY <1>0, AllocateClientType
  <2>7. \A d \in Clients : EntryStep(copy.clients, copy.status, after, d)
    <3> HIDE DEF after
    <3> QED
      BY <2>3, <2>4, <2>5, <2>6 DEF EntryStep
  <2> HIDE DEF after
  <2> QED
    BY <1>1, <2>1, <2>2, <2>7 DEF after
<1>8. CASE \/ Begin \/ SessionNotFound \/ ReadFails \/ PanicOnMissingIp \/ RegistrationFails
           \/ RegistrationsDone \/ ReportError \/ ListFails \/ StatusUnchanged \/ UpdateStatus
           \/ UpdateStatusFails \/ UpdateAnnotation \/ UpdateAnnotationFails \/ Done
  BY <1>8
     DEF Begin, SessionNotFound, ReadFails, PanicOnMissingIp, RegistrationFails,
         RegistrationsDone, ReportError, ListFails, StatusUnchanged, UpdateStatus,
         UpdateStatusFails, UpdateAnnotation, UpdateAnnotationFails, Done, Return
<1>9. CASE \E p \in AllPods :
              \/ CreateGCRegistration(p) \/ DeleteGCRegistration(p)
              \/ RestorePod(p) \/ SpawnClientPod(p) \/ SpawnFails(p)
  BY <1>9
     DEF CreateGCRegistration, DeleteGCRegistration, RestorePod, SpawnClientPod, SpawnFails, Return
<1>10. CASE Sync \/ Environment \/ UNCHANGED vars
  BY <1>10
     DEF Sync, SyncSession, SyncPods, SyncRegistrations, Environment, Restart, DeleteSession,
         AssignIp, Tick, EditClient, PodRemoved, RegistrationRemoved, PodCondition, Churn, Return,
         vars
<1> QED
  BY <1>3, <1>4, <1>5, <1>6, <1>7, <1>8, <1>9, <1>10 DEF Next, Reconcile

(* A write of the copy's status, or of the annotation that shows it, in a  *)
(* call that goes on or ends.                                              *)
StatusWritten ==
  /\ current /\ pc \in {"report", "update"}
  /\ session'.status = copy.status /\ session'.hash = session.hash

AnnotationWritten ==
  /\ current /\ pc = "annotate"
  /\ session'.status = session.status /\ session'.hash = copy.status

Written ==
  /\ StatusWritten \/ AnnotationWritten
  /\ session'.clients = session.clients /\ session'.live = session.live /\ cache' = cache
  /\ \/ pc' = "idle" /\ copy' = NewSession
     \/ copy' = copy /\ newClients' = newClients /\ current' = current
        /\ pc' = IF pc = "annotate" THEN "spawn" ELSE "annotate"

(* What one step makes of the stored Session.                              *)
LEMMA SessionSteps ==
  ASSUME TypeOK, IInv, [Next]_vars
  PROVE  \/ session' = session
         \/ Written
         \/ DeleteSession
         \/ \E c \in Clients, v \in ClientStates : EditClient(c, v)
<1> USE DEF store, informers, reading, calls, counters
<1>0. /\ session \in SessionType /\ copy.status \in StatusType
      /\ current => copy.clients = session.clients
  BY TypeOKParts, SessionUpdates, IInvParts DEF LocalsOK, WorldOK, CopyInv
<1> DEFINE updated == [session EXCEPT !.status = copy.status]
<1>1. /\ updated.status = copy.status /\ updated.clients = session.clients
      /\ updated.live = session.live /\ updated.hash = session.hash
  BY <1>0, SessionUpdates
<1>2. /\ Annotated.status = session.status /\ Annotated.clients = copy.clients
      /\ Annotated.live = session.live /\ Annotated.hash = copy.status
  BY <1>0 DEF Annotated, SessionType
<1> HIDE DEF updated
<1>3. CASE ReportError \/ UpdateStatus \/ UpdateStatusFails
  <2>1. PICK answered \in BOOLEAN : WriteSession(updated, answered)
    BY <1>3 DEF ReportError, UpdateStatus, UpdateStatusFails, updated
  <2>2. session' # session => session' = updated /\ current
    BY <2>1 DEF WriteSession, Accepted, PutSession
  <2>3. /\ pc \in {"report", "update"} /\ cache' = cache
        /\ \/ pc' = "idle" /\ copy' = NewSession
           \/ copy' = copy /\ newClients' = newClients /\ pc' = "annotate"
              /\ (session' # session => current' = current)
    <3>1. CASE ReportError \/ UpdateStatusFails
      BY <3>1 DEF ReportError, UpdateStatusFails, Return
    <3>2. CASE UpdateStatus
      BY <3>2 DEF UpdateStatus
    <3> QED
      BY <1>3, <3>1, <3>2
  <2> QED
    BY <1>1, <2>2, <2>3 DEF Written, StatusWritten
<1>4. CASE UpdateAnnotation \/ UpdateAnnotationFails
  <2>1. PICK answered \in BOOLEAN : WriteSession(Annotated, answered)
    BY <1>4 DEF UpdateAnnotation, UpdateAnnotationFails
  <2>2. session' # session => session' = Annotated /\ current
    BY <2>1 DEF WriteSession, Accepted, PutSession
  <2>3. /\ pc = "annotate" /\ cache' = cache
        /\ \/ pc' = "idle" /\ copy' = NewSession
           \/ copy' = copy /\ newClients' = newClients /\ pc' = "spawn" /\ current' = current
    <3>1. CASE UpdateAnnotationFails
      BY <3>1 DEF UpdateAnnotationFails, Return
    <3>2. CASE UpdateAnnotation
      BY <3>2 DEF UpdateAnnotation
    <3> QED
      BY <1>4, <3>1, <3>2
  <2> QED
    BY <1>0, <1>2, <2>2, <2>3 DEF Written, AnnotationWritten
<1>5. CASE Begin \/ SessionNotFound \/ ReadFails \/ PanicOnMissingIp \/ GetPodsFails
           \/ ReconcileSessionPods \/ RegistrationFails \/ RegistrationsDone \/ PodsRestored
           \/ ReconcileClientPods \/ ListFails \/ ReconcilePods \/ StatusUnchanged \/ Done
  BY <1>5
     DEF Begin, SessionNotFound, ReadFails, PanicOnMissingIp, GetPodsFails, ReconcileSessionPods,
         RegistrationFails, RegistrationsDone, PodsRestored, ReconcileClientPods, ListFails,
         ReconcilePods, StatusUnchanged, Done
<1>6. CASE \/ \E p \in AllPods :
                 \/ CreateGCRegistration(p) \/ DeleteGCRegistration(p)
                 \/ RestorePod(p) \/ RestoreFails(p) \/ SpawnClientPod(p) \/ SpawnFails(p)
           \/ \E c \in Clients : AllocateClient(c)
  BY <1>6
     DEF CreateGCRegistration, DeleteGCRegistration, RestorePod, RestoreFails, SpawnClientPod,
         SpawnFails, AllocateClient
<1>7. CASE Sync \/ UNCHANGED vars
  BY <1>7 DEF Sync, SyncSession, SyncPods, SyncRegistrations, vars
<1>8. CASE \/ Restart \/ AssignIp \/ Tick
           \/ \E p \in AllPods :
                 \/ PodRemoved(p) \/ RegistrationRemoved(p)
                 \/ \E value \in {"True", "False"} : PodCondition(p, value)
  BY <1>8 DEF Restart, AssignIp, Tick, PodRemoved, RegistrationRemoved, PodCondition
<1> QED
  BY <1>3, <1>4, <1>5, <1>6, <1>7, <1>8 DEF Next, Reconcile, Environment

---------------------------------------------------------------------------
(* EntriesInv and HistoryInv: no version of the Session has an entry       *)
(* without pods, or shows what has not happened.                           *)

(* Every entry of a status has a pod of each template.                     *)
Complete(status) == \A c \in Clients : status.seen[c] # Absent => PodOfEach(status.alloc[c])

(* A computed status keeps entries whole, or gives them one pod of each    *)
(* template.                                                               *)
LEMMA NextEntries ==
  ASSUME TypeOK, IInv, StatusInv, EntriesInv, [Next]_vars
  PROVE  EntriesInv'
<1>0. /\ Complete(session.status) /\ Complete(cache.session.status) /\ Complete(copy.status)
      /\ Complete(NewSession.status)
  BY DEF EntriesInv, Complete, NewSession, NewStatus
<1>1. Complete(session'.status)
  <2>1. session'.status \in {session.status, copy.status}
    BY SessionWrites
  <2> QED
    BY <1>0, <2>1
<1>2. Complete(cache'.session.status)
  BY <1>0, CacheWrites
<1>3. Complete(copy'.status)
  <2>1. CASE copy' \in {copy, cache.session, NewSession}
    BY <1>0, <2>1
  <2>2. CASE CopyStep
    BY <1>0, <2>2 DEF CopyStep, EntryStep, Complete
  <2> QED
    BY <2>1, <2>2, CopyEntries
<1> QED
  BY <1>1, <1>2, <1>3 DEF EntriesInv, Complete, PodOfEach

(* What HistoryInv says of one version and one client, by the time that    *)
(* the stored Session is now.                                              *)
PassedBy(now, c) ==
  CASE now.clients[c] = "absent" -> {"absent"}
    [] now.clients[c] = "up" -> {"absent", "up"}
    [] OTHER -> ClientStates

Happened(now, s, c) ==
  /\ s.clients[c] \in PassedBy(now, c) /\ SeenAs(s.status, c) \in PassedBy(now, c)
  /\ s.hash # NoHash =>
       /\ SeenAs(s.hash, c) \in PassedBy(now, c)
       /\ now.clients[c] = "up" /\ SeenAs(s.hash, c) = "up" =>
            SeenAs(now.status, c) = "up" /\ now.status.alloc[c] = s.hash.alloc[c]

(* HistoryInv says so of the stored version, the cached and the copied.    *)
LEMMA HistoryIs ==
  /\ HistoryInv <=> \A s \in {session, cache.session, copy}, c \in Clients :
        Happened(session, s, c)
  /\ HistoryInv' <=> \A s \in {session', cache'.session, copy'}, c \in Clients :
        Happened(session', s, c)
BY DEF HistoryInv, Happened, Passed, PassedBy

(* A Session in its first version shows nothing.                           *)
LEMMA NewHappened ==
  ASSUME NEW now, NEW c \in Clients
  PROVE  Happened(now, NewSession, c)
BY DEF Happened, NewSession, NewStatus, SeenAs, PassedBy, ClientStates

(* A status that is computed shows what its version and its clients do.    *)
LEMMA ComputedHappened ==
  ASSUME NEW now, NEW c \in Clients, Happened(now, copy, c), CopyStep
  PROVE  Happened(now, copy', c)
<1>1. EntryStep(copy.clients, copy.status, copy'.status, c)
  BY DEF CopyStep
<1>2. SeenAs(copy'.status, c) \in {SeenAs(copy.status, c), "absent", copy.clients[c]}
  BY <1>1 DEF EntryStep, SeenAs
<1>3. "absent" \in PassedBy(now, c)
  BY DEF PassedBy, ClientStates
<1> QED
  BY <1>2, <1>3 DEF Happened, CopyStep

(* The status that a current copy writes shows a connected client that the *)
(* stored one shows, with the same pods.                                   *)
LEMMA WrittenShows ==
  ASSUME TypeOK, IInv, StatusInv, StatusWritten, NEW c \in Clients,
         session.clients[c] = "up", SeenAs(session.status, c) = "up"
  PROVE  SeenAs(copy.status, c) = "up" /\ copy.status.alloc[c] = session.status.alloc[c]
<1>1. Protected(c) /\ session.status.seen[c] = defaultTime
  BY DEF Protected, SeenAs
<1>2. /\ current /\ copy.clients = session.clients /\ newClients = {}
      /\ copy.status.alloc[c] = session.status.alloc[c]
  BY <1>1, IInvParts DEF StatusWritten, CopyInv, KeptInv, CallsInv
<1>3. copy.status.seen[c] = defaultTime
  BY <1>1, <1>2 DEF StatusWritten, StatusInv, Shows, SameEntries
<1> QED
  BY <1>2, <1>3 DEF SeenAs

(* What has happened stays so, as the stored Session changes.              *)
LEMMA HappenedStays ==
  ASSUME OneWay, TypeOK, IInv, StatusInv, [Next]_vars,
         NEW s, NEW c \in Clients, Happened(session, s, c)
  PROVE  Happened(session', s, c)
<1>0. session \in SessionType
  BY TypeOKParts DEF WorldOK
<1>1. CASE session' = session
  <2>1. session'.clients = session.clients /\ session'.status = session.status
    BY <1>1
  <2> QED
    BY <2>1 DEF Happened, PassedBy
<1>2. CASE Written
  <2>1. session'.clients = session.clients
    BY <1>2 DEF Written
  <2>2. ASSUME session.clients[c] = "up", SeenAs(session.status, c) = "up"
        PROVE  /\ SeenAs(session'.status, c) = "up"
               /\ session'.status.alloc[c] = session.status.alloc[c]
    BY <1>2, <2>2, WrittenShows DEF Written, StatusWritten, AnnotationWritten
  <2> QED
    BY <2>1, <2>2 DEF Happened, PassedBy
<1>3. CASE DeleteSession
  <2>1. session'.clients = session.clients /\ session'.status = session.status
    BY <1>0, <1>3 DEF DeleteSession, SessionType
  <2> QED
    BY <2>1 DEF Happened, PassedBy
<1>4. ASSUME NEW d \in Clients, NEW v \in ClientStates, EditClient(d, v)
      PROVE  Happened(session', s, c)
  <2>1. /\ session' = [session EXCEPT !.clients[d] = v]
        /\ <<session.clients[d], v>> \in EditKinds
    BY <1>4 DEF EditClient
  <2>2. /\ session'.status = session.status
        /\ session'.clients[c] = IF c = d THEN v ELSE session.clients[c]
    BY <1>0, <2>1 DEF SessionType
  <2>3. \/ session.clients[d] = "absent" /\ v = "up"
        \/ session.clients[d] = "up" /\ v = "down"
    BY <2>1 DEF OneWay
  <2> QED
    BY <2>2, <2>3 DEF Happened, PassedBy, ClientStates
<1> QED
  BY <1>1, <1>2, <1>3, <1>4, SessionSteps

(* The stored Session shows what has happened, after every write of it.    *)
LEMMA StoredHappened ==
  ASSUME OneWay, TypeOK, IInv, StatusInv, HistoryInv, [Next]_vars, NEW c \in Clients
  PROVE  Happened(session', session', c)
<1>0. /\ session \in SessionType
      /\ Happened(session, session, c) /\ Happened(session, copy, c)
  BY TypeOKParts, HistoryIs DEF WorldOK
<1>1. Happened(session', session, c) /\ Happened(session', copy, c)
  BY <1>0, HappenedStays
<1>2. CASE session' = session
  BY <1>1, <1>2
<1>3. CASE Written
  <2>1. session'.clients = session.clients
    BY <1>3 DEF Written
  <2>2. CASE StatusWritten
    BY <1>1, <2>1, <2>2 DEF StatusWritten, Happened
  <2>3. CASE AnnotationWritten
    <3>1. SameEntries(copy.status, session.status)
      BY <2>3 DEF AnnotationWritten, StatusInv
    <3>2. SeenAs(copy.status, c) = SeenAs(session.status, c)
      BY <3>1 DEF SameEntries, SeenAs
    <3> QED
      BY <1>1, <2>1, <2>3, <3>1, <3>2 DEF AnnotationWritten, Happened, SameEntries
  <2> QED
    BY <1>3, <2>2, <2>3 DEF Written
<1>4. CASE DeleteSession
  <2>1. /\ session'.clients = session.clients /\ session'.status = session.status
        /\ session'.hash = session.hash
    BY <1>0, <1>4 DEF DeleteSession, SessionType
  <2> QED
    BY <1>1, <2>1 DEF Happened
<1>5. ASSUME NEW d \in Clients, NEW v \in ClientStates, EditClient(d, v)
      PROVE  Happened(session', session', c)
  <2>1. session'.status = session.status /\ session'.hash = session.hash
    BY <1>0, <1>5 DEF EditClient, SessionType
  <2>2. session'.clients[c] \in PassedBy(session', c)
    <3>1. session'.clients[c] \in ClientStates
      BY <1>0, <1>5, SessionUpdates DEF EditClient
    <3> QED
      BY <3>1 DEF PassedBy, ClientStates
  <2> QED
    BY <1>1, <2>1, <2>2 DEF Happened
<1> QED
  BY <1>2, <1>3, <1>4, <1>5, SessionSteps

(* Every step keeps HistoryInv.                                            *)
LEMMA NextHistory ==
  ASSUME OneWay, TypeOK, IInv, StatusInv, HistoryInv, [Next]_vars
  PROVE  HistoryInv'
<1>0. \A c \in Clients : /\ Happened(session, session, c) /\ Happened(session, copy, c)
                         /\ Happened(session, cache.session, c)
  BY HistoryIs
<1>1. SUFFICES ASSUME NEW c \in Clients
               PROVE  /\ Happened(session', session', c) /\ Happened(session', copy', c)
                      /\ Happened(session', cache'.session, c)
  BY HistoryIs
<1>2. /\ Happened(session', session, c) /\ Happened(session', copy, c)
      /\ Happened(session', cache.session, c)
  BY <1>0, HappenedStays
<1>3. Happened(session', cache'.session, c)
  BY <1>2, CacheWrites
<1>4. Happened(session', copy', c)
  BY <1>2, CopyEntries, NewHappened, ComputedHappened
<1> QED
  BY <1>3, <1>4, StoredHappened

---------------------------------------------------------------------------
(* StatusInv: the status that is computed shows the clients of its copy.   *)

Computing == {"allocate", "clientRegs", "update", "annotate", "spawn"}

(* The steps that change other parts of the copy's status than entries.    *)
LEMMA SameVersion ==
  ASSUME TypeOK,
         \/ GetPodsFails \/ ReconcileSessionPods \/ PodsRestored \/ ReconcilePods
         \/ \E p \in AllPods : RestoreFails(p)
  PROVE  /\ SameEntries(copy'.status, copy.status)
         /\ copy'.clients = copy.clients /\ copy'.hash = copy.hash
<1>0. /\ copy \in SessionType /\ copy.status \in StatusType /\ clock \in Int
  BY TypeOKParts, ClockIsInt, SessionUpdates DEF LocalsOK
<1>1. PICK status \in StatusType :
         copy' = [copy EXCEPT !.status = status] /\ SameEntries(status, copy.status)
  <2>1. CASE GetPodsFails \/ PodsRestored \/ \E p \in AllPods : RestoreFails(p)
    <3>1. PICK value \in {"Unknown", "False"} :
             copy' = [copy EXCEPT !.status = SetReadyCondition(copy.status, value)]
      BY <2>1 DEF GetPodsFails, PodsRestored, RestoreFails
    <3> QED
      BY <1>0, <3>1, SetReadyConditionType DEF SameEntries
  <2>2. CASE ReconcileSessionPods
    BY <1>0, <2>2, SessionPodsStatusType DEF ReconcileSessionPods, SameEntries
  <2>3. CASE ReconcilePods
    <3> DEFINE after == setClientStatusReadiness(copy.status, PodIds \cap Ready(listed), seenIp)
    <3>1. after \in StatusType /\ SameEntries(after, copy.status)
      BY <1>0, SetReadinessType DEF SameEntries
    <3>2. copy' = [copy EXCEPT !.status = after]
      BY <2>3 DEF ReconcilePods
    <3> HIDE DEF after
    <3> QED
      BY <3>1, <3>2
  <2> QED
    BY <2>1, <2>2, <2>3
<1> QED
  BY <1>0, <1>1, SessionUpdates

(* A step that leaves the entries of the copy, and the clients that are to *)
(* be allocated, keeps StatusInv.                                          *)
LEMMA StatusStays ==
  ASSUME StatusInv, session'.status = session.status,
         SameEntries(copy'.status, copy.status), copy'.clients = copy.clients,
         newClients' = newClients, current' => current,
         pc' \in Computing => pc \in Computing,
         pc' \in {"report", "annotate"} => pc' = pc
  PROVE  StatusInv'
BY DEF StatusInv, SameEntries, Shows, Computing

(* When Reconcile has returned, nothing is computed.                       *)
LEMMA StatusReturned ==
  ASSUME pc' = "idle", newClients' = {}
  PROVE  StatusInv'
BY DEF StatusInv

(* Allocation gives its client the entry of a connected one.               *)
LEMMA AllocatedEntry ==
  ASSUME TypeOK, NEW c \in Clients, AllocateClient(c)
  PROVE  /\ copy'.clients = copy.clients /\ copy'.hash = copy.hash
         /\ copy'.status.seen[c] = defaultTime
         /\ \A d \in Clients \ {c} : copy'.status.seen[d] = copy.status.seen[d]
<1>0. copy \in SessionType /\ copy.status \in StatusType
  BY TypeOKParts, SessionUpdates DEF LocalsOK
<1>1. PICK choice \in [Templates -> PodIds] :
         copy' = [copy EXCEPT !.status = allocateClient(copy.status, c, choice)]
  BY DEF AllocateClient
<1> DEFINE after == allocateClient(copy.status, c, choice)
<1>2. after \in StatusType /\ \A d \in Clients \ {c} : after.seen[d] = copy.status.seen[d]
  BY <1>0, AllocateClientType
<1>3. after.seen[c] = defaultTime
  <2>1. copy.status \in StatusFields
    BY <1>0, StatusTypeIs
  <2> QED
    BY <2>1 DEF allocateClient, StatusFields
<1>4. /\ copy'.status = after /\ copy'.clients = copy.clients /\ copy'.hash = copy.hash
  <2> HIDE DEF after
  <2> QED
    BY <1>0, <1>1, <1>2, SessionUpdates DEF after
<1> QED
  BY <1>2, <1>3, <1>4

(* Reconciliation finds the clients to be allocated, and shows the others. *)
LEMMA ReconciledShows ==
  ASSUME TypeOK, ReconcileClientPods
  PROVE  /\ copy'.clients = copy.clients /\ copy'.hash = copy.hash
         /\ \A c \in newClients' : copy.clients[c] = "up"
         /\ \A c \in Clients \ newClients' : Shows(copy'.status, copy.clients, c)
         /\ \A c \in Clients :
               copy.clients[c] = "down" /\ copy.status.seen[c] = defaultTime
                 => copy'.status.seen[c] = clock
<1>0. /\ copy \in SessionType /\ copy.status \in StatusType
      /\ clock \in Int /\ clock >= 0 /\ clock # Absent
  BY TypeOKParts, ClockIsInt, SessionUpdates DEF LocalsOK
<1> DEFINE kept == cleanExpiredClientsFromStatus(clock, copy.status)
           left == removeLeftClients(copy.clients,
                                     handleClientChanges(clock, copy.clients, kept))
<1>1. left \in StatusType
  BY <1>0, ReconciledStatus
<1>2. copy' = [copy EXCEPT !.status = left] /\ newClients' = newClientsIn(copy.clients, kept)
  BY DEF ReconcileClientPods
<1>3. \A c \in Clients :
         /\ c \notin newClientsIn(copy.clients, kept) => Shows(left, copy.clients, c)
         /\ copy.clients[c] = "down" /\ copy.status.seen[c] = defaultTime => left.seen[c] = clock
  BY <1>0, ReconciledSteps
<1>4. \A c \in newClientsIn(copy.clients, kept) : copy.clients[c] = "up"
  BY DEF newClientsIn
<1> HIDE DEF left, kept
<1>5. copy'.status = left /\ copy'.clients = copy.clients /\ copy'.hash = copy.hash
  BY <1>0, <1>1, <1>2, SessionUpdates
<1> QED
  BY <1>2, <1>3, <1>4, <1>5

(* The writes that succeed, of a copy that is current.                     *)
LEMMA WritesSucceed ==
  ASSUME TypeOK, IInv
  PROVE  /\ UpdateStatus => current /\ session'.status = copy.status
                              /\ session'.clients = session.clients
         /\ UpdateAnnotation => current /\ session'.status = session.status
                              /\ session'.clients = session.clients
<1>0. /\ session \in SessionType /\ copy.status \in StatusType
      /\ current => copy.clients = session.clients
  BY TypeOKParts, SessionUpdates, IInvParts DEF LocalsOK, WorldOK, CopyInv
<1> DEFINE updated == [session EXCEPT !.status = copy.status]
<1>1. updated.status = copy.status /\ updated.clients = session.clients
  BY <1>0, SessionUpdates
<1>2. Annotated.status = session.status /\ Annotated.clients = copy.clients
  BY <1>0 DEF Annotated, SessionType
<1>3. UpdateStatus => current /\ session' = updated
  BY DEF UpdateStatus, WriteSession, Accepted, PutSession
<1>4. UpdateAnnotation => current /\ session' = Annotated
  BY DEF UpdateAnnotation, WriteSession, Accepted, PutSession
<1> HIDE DEF updated
<1> QED
  BY <1>0, <1>1, <1>2, <1>3, <1>4

(* The steps with which Reconcile ends.                                    *)
Ends ==
  \/ PanicOnMissingIp \/ ListFails \/ ReportError \/ UpdateStatusFails \/ UpdateAnnotationFails
  \/ Done \/ Restart \/ \E p \in AllPods : SpawnFails(p)

(* They reset what the call knew; only Done does not queue another call.   *)
LEMMA EndsReturn ==
  ASSUME Ends
  PROVE  /\ pc' = "idle" /\ copy' = NewSession /\ newClients' = {} /\ ~current'
         /\ Done \/ queued'
BY DEF Ends, PanicOnMissingIp, ListFails, ReportError, UpdateStatusFails, UpdateAnnotationFails,
       Done, Restart, SpawnFails, Return

(* The steps that leave the copy and what is to be allocated alone.        *)
Elsewhere ==
  \/ SessionNotFound \/ ReadFails \/ RegistrationFails \/ RegistrationsDone \/ StatusUnchanged
  \/ \E p \in AllPods :
        CreateGCRegistration(p) \/ DeleteGCRegistration(p) \/ RestorePod(p) \/ SpawnClientPod(p)
  \/ Sync \/ AssignIp \/ Tick \/ UNCHANGED vars
  \/ \E p \in AllPods :
        \/ PodRemoved(p) \/ RegistrationRemoved(p)
        \/ \E value \in {"True", "False"} : PodCondition(p, value)

(* Of the steps of Reconcile among them, three go on to another place.     *)
LEMMA ElsewhereLeaves ==
  ASSUME Elsewhere, Templates # {}
  PROVE  /\ UNCHANGED <<session, copy, newClients, current>>
         /\ \/ pc' = pc
            \/ pc = "sessionRegs" /\ pc' \in {"restore", "clientPods"}
            \/ pc = "clientRegs" /\ pc' = "update"
            \/ pc = "update" /\ pc' = "spawn" /\ StatusUnchanged
<1> USE DEF store, informers, reading, calls, counters
<1>1. CASE SessionNotFound \/ ReadFails \/ RegistrationFails \/ RegistrationsDone \/ StatusUnchanged
  BY <1>1 DEF SessionNotFound, ReadFails, RegistrationFails, RegistrationsDone, StatusUnchanged,
              AfterSessionPods
<1>2. CASE \E p \in AllPods :
        CreateGCRegistration(p) \/ DeleteGCRegistration(p) \/ RestorePod(p) \/ SpawnClientPod(p)
  BY <1>2 DEF CreateGCRegistration, DeleteGCRegistration, RestorePod, SpawnClientPod
<1>3. CASE Sync \/ AssignIp \/ Tick \/ UNCHANGED vars
  BY <1>3 DEF Sync, SyncSession, SyncPods, SyncRegistrations, AssignIp, Tick, Churn, vars
<1>4. CASE \E p \in AllPods :
        \/ PodRemoved(p) \/ RegistrationRemoved(p)
        \/ \E value \in {"True", "False"} : PodCondition(p, value)
  BY <1>4 DEF PodRemoved, RegistrationRemoved, PodCondition, Churn
<1> QED
  BY <1>1, <1>2, <1>3, <1>4 DEF Elsewhere

(* The steps there are, by what they do to the copy.                       *)
LEMMA StepKinds ==
  ASSUME [Next]_vars
  PROVE  \/ Elsewhere \/ Ends \/ Begin
         \/ GetPodsFails \/ ReconcileSessionPods \/ PodsRestored
         \/ \E p \in AllPods : RestoreFails(p)
         \/ ReconcileClientPods \/ ReconcilePods
         \/ \E c \in Clients : AllocateClient(c)
         \/ UpdateStatus \/ UpdateAnnotation
         \/ DeleteSession
         \/ \E c \in Clients, v \in ClientStates : EditClient(c, v)
BY DEF Next, Reconcile, Environment, Elsewhere, Ends

(* Every step keeps StatusInv, where there are templates of client pods.   *)
LEMMA NextStatus ==
  ASSUME Templates # {}, TypeOK, IInv, StatusInv, [Next]_vars
  PROVE  StatusInv'
<1> USE DEF store, informers, reading, calls, counters
<1>0. /\ session \in SessionType /\ clock \in Int
      /\ pc # "allocate" => newClients = {}
      /\ current /\ pc \in Unallocated => SameEntries(copy.status, session.status)
  BY TypeOKParts, ClockIsInt, IInvParts DEF WorldOK, CopyInv, CallsInv, KeptInv, Unallocated
<1>1. CASE Elsewhere
  BY <1>1, ElsewhereLeaves, StatusStays DEF SameEntries, Computing
<1>2. CASE Ends
  BY <1>2, EndsReturn, StatusReturned
<1>3. CASE Begin
  <2>1. pc' \in {"sessionPods", "clientPods"} /\ newClients' = {}
    BY <1>0, <1>3 DEF Begin, AfterSessionPods
  <2> QED
    BY <2>1 DEF StatusInv
<1>4. CASE GetPodsFails \/ \E p \in AllPods : RestoreFails(p)
  <2>1. /\ pc \in Unallocated /\ pc' = "report"
        /\ UNCHANGED <<session, current, newClients>>
    BY <1>4 DEF GetPodsFails, RestoreFails, Unallocated
  <2>2. SameEntries(copy'.status, copy.status)
    BY <1>4, SameVersion
  <2> QED
    BY <1>0, <2>1, <2>2 DEF StatusInv, SameEntries, Unallocated
<1>5. CASE ReconcileSessionPods \/ PodsRestored \/ ReconcilePods
  <2>1. /\ UNCHANGED <<session, current, newClients>>
        /\ pc' \in Computing => pc \in Computing
        /\ pc' \notin {"report", "annotate"}
    BY <1>5 DEF ReconcileSessionPods, PodsRestored, ReconcilePods, AfterSessionPods, Computing
  <2> QED
    BY <1>5, <2>1, SameVersion, StatusStays
<1>6. CASE ReconcileClientPods
  <2>1. pc' = "allocate"
    BY <1>6 DEF ReconcileClientPods
  <2> QED
    BY <1>6, <2>1, ReconciledShows DEF StatusInv
<1>7. ASSUME NEW c \in Clients, AllocateClient(c)
      PROVE  StatusInv'
  <2>1. /\ pc = "allocate" /\ pc' = "allocate" /\ c \in newClients
        /\ newClients' = newClients \ {c}
    BY <1>7 DEF AllocateClient
  <2>2. /\ copy'.clients = copy.clients /\ copy'.status.seen[c] = defaultTime
        /\ \A d \in Clients \ {c} : copy'.status.seen[d] = copy.status.seen[d]
    BY <1>7, AllocatedEntry
  <2>3. ASSUME NEW d \in Clients \ newClients'
        PROVE  Shows(copy'.status, copy'.clients, d)
    BY <2>1, <2>2, <2>3 DEF StatusInv, Shows
  <2> QED
    BY <2>1, <2>2, <2>3 DEF StatusInv
<1>8. CASE UpdateStatus
  <2>1. UNCHANGED <<copy, newClients>> /\ pc = "update" /\ pc' = "annotate"
    BY <1>8 DEF UpdateStatus
  <2> QED
    BY <1>8, <2>1, WritesSucceed DEF StatusInv, SameEntries, Shows
<1>9. CASE UpdateAnnotation
  <2>1. UNCHANGED <<copy, newClients>> /\ pc = "annotate" /\ pc' = "spawn"
    BY <1>9 DEF UpdateAnnotation
  <2> QED
    BY <1>9, <2>1, WritesSucceed DEF StatusInv, SameEntries, Shows
<1>10. CASE DeleteSession \/ \E c \in Clients, v \in ClientStates : EditClient(c, v)
  <2>1. UNCHANGED <<copy, newClients, pc>> /\ ~current'
    BY <1>10 DEF DeleteSession, EditClient, Churn
  <2> QED
    BY <2>1 DEF StatusInv, Shows
<1> QED
  BY <1>1, <1>2, <1>3, <1>4, <1>5, <1>6, <1>7, <1>8, <1>9, <1>10, StepKinds

---------------------------------------------------------------------------
(* SkippedInv: a write of the status that is skipped is not missed.        *)

(* DroppedSince, by the time that the stored Session is now.               *)
DroppedBy(now, s, c) ==
  now.clients[c] = "down" /\ SeenAs(s.status, c) # "up" => SeenAs(now.status, c) # "up"

(* SkippedInv in two parts: of the store and the cache, and of the copy.   *)
StoreSkipped(c) ==
  /\ NotAhead(session, c) /\ NotAhead(cache.session, c)
  /\ lag.session # "event" => DroppedBy(session, cache.session, c)

CopySkipped(c) ==
  /\ pc \in Unallocated =>
       NotAhead(copy, c) /\ (Undisturbed => DroppedBy(session, copy, c))
  /\ /\ Undisturbed /\ pc \in {"allocate", "clientRegs", "update"}
     /\ session.clients[c] = "down"
     /\ copy.hash # NoHash /\ copy.hash.seen[c] = copy.status.seen[c]
     => SeenAs(session.status, c) # "up"

(* SkippedInv is the two of them, for every client.                        *)
LEMMA SkippedParts ==
  /\ SkippedInv <=> \A c \in Clients : StoreSkipped(c) /\ CopySkipped(c)
  /\ SkippedInv' <=> \A c \in Clients : StoreSkipped(c)' /\ CopySkipped(c)'
BY DEF SkippedInv, StoreSkipped, CopySkipped, DroppedSince, DroppedBy, Unallocated

(* The cache shows the store, or no event is lost.                         *)
LEMMA LagSteps ==
  ASSUME TypeOK, IInv, [Next]_vars, lag'.session # "event"
  PROVE  \/ cache'.session = session' /\ session' = session
         \/ /\ cache'.session = cache.session /\ lag.session # "event"
            /\ session'.clients = session.clients
<1> USE DEF store, informers, reading, calls, counters
<1>0. lag \in LagType /\ cache \in CacheType /\ session \in SessionType
  BY TypeOKParts DEF WorldOK
<1>1. CASE Reconcile
  BY <1>1, ReconcileIsQuiet DEF Quiet
<1>2. CASE SyncSession
  BY <1>0, <1>2 DEF SyncSession, CacheType
<1>3. CASE SyncPods \/ SyncRegistrations
  BY <1>0, <1>3 DEF SyncPods, SyncRegistrations, CacheType, LagType
<1>4. CASE Restart
  BY <1>4 DEF Restart
<1>5. CASE DeleteSession
  BY <1>0, <1>5 DEF DeleteSession, Churn, SessionType, LagType, Behind
<1>6. CASE AssignIp \/ Tick \/ UNCHANGED vars \/ \E p \in AllPods : RegistrationRemoved(p)
  BY <1>6 DEF AssignIp, Tick, vars, RegistrationRemoved, Churn
<1>7. CASE \E c \in Clients, v \in ClientStates : EditClient(c, v)
  BY <1>0, <1>7 DEF EditClient, LagType
<1>8. CASE \E p \in AllPods :
              PodRemoved(p) \/ \E value \in {"True", "False"} : PodCondition(p, value)
  BY <1>0, <1>8 DEF PodRemoved, PodCondition, Churn, LagType
<1> QED
  BY <1>1, <1>2, <1>3, <1>4, <1>5, <1>6, <1>7, <1>8 DEF Next, Sync, Environment

(* The status of a current copy shows no disconnected client as connected, *)
(* unless the stored one does.                                             *)
LEMMA WrittenDrops ==
  ASSUME TypeOK, IInv, StatusInv, StatusWritten, NEW c \in Clients,
         session.clients[c] = "down"
  PROVE  SeenAs(copy.status, c) = "up" => SeenAs(session.status, c) = "up"
<1>1. copy.clients = session.clients /\ newClients = {}
  BY IInvParts DEF StatusWritten, CopyInv, CallsInv
<1> QED
  BY <1>1 DEF StatusWritten, StatusInv, Shows, SameEntries, SeenAs

(* A disconnected client that the stored status shows as such stays so.    *)
LEMMA StaysDown ==
  ASSUME TypeOK, IInv, StatusInv, [Next]_vars, NEW c \in Clients,
         session'.clients[c] = "down", SeenAs(session.status, c) # "up"
  PROVE  SeenAs(session'.status, c) # "up"
<1>0. session \in SessionType
  BY TypeOKParts DEF WorldOK
<1>1. CASE Written
  BY <1>1, WrittenDrops DEF Written, StatusWritten, AnnotationWritten
<1>2. CASE DeleteSession \/ \E d \in Clients, v \in ClientStates : EditClient(d, v)
  <2>1. session'.status = session.status
    BY <1>0, <1>2 DEF DeleteSession, EditClient, SessionType
  <2> QED
    BY <2>1
<1>3. CASE session' = session
  BY <1>3
<1> QED
  BY <1>1, <1>2, <1>3, SessionSteps

(* What is stored never shows a client as connected that its annotation    *)
(* shows as disconnected.                                                  *)
LEMMA StoredNotAhead ==
  ASSUME TypeOK, IInv, StatusInv, HistoryInv, [Next]_vars,
         NEW c \in Clients, NotAhead(session, c)
  PROVE  NotAhead(session', c)
<1>0. session \in SessionType
  BY TypeOKParts DEF WorldOK
<1>1. CASE Written
  <2>1. CASE StatusWritten
    <3>1. session'.hash = session.hash /\ session'.status = copy.status
      BY <2>1 DEF StatusWritten
    <3>2. ASSUME session.hash # NoHash, SeenAs(session.hash, c) = "down"
          PROVE  session.clients[c] = "down"
      <4>1. session.clients[c] \in ClientStates /\ "down" \in PassedBy(session, c)
        BY <1>0, <3>2, HistoryIs DEF Happened, SessionType
      <4> QED
        BY <4>1 DEF PassedBy, ClientStates
    <3> QED
      BY <2>1, <3>1, <3>2, WrittenDrops DEF NotAhead
  <2>2. CASE AnnotationWritten
    BY <2>2 DEF AnnotationWritten, NotAhead, StatusInv, SameEntries, SeenAs
  <2> QED
    BY <1>1, <2>1, <2>2 DEF Written
<1>2. CASE DeleteSession \/ \E d \in Clients, v \in ClientStates : EditClient(d, v)
  <2>1. session'.status = session.status /\ session'.hash = session.hash
    BY <1>0, <1>2 DEF DeleteSession, EditClient, SessionType
  <2> QED
    BY <2>1 DEF NotAhead
<1>3. CASE session' = session
  BY <1>3 DEF NotAhead
<1> QED
  BY <1>1, <1>2, <1>3, SessionSteps

(* Every step keeps the part of the store and the cache.                   *)
LEMMA NextStoreSkipped ==
  ASSUME TypeOK, IInv, StatusInv, HistoryInv, [Next]_vars, NEW c \in Clients, StoreSkipped(c)
  PROVE  StoreSkipped(c)'
<1>1. NotAhead(session', c) /\ NotAhead(cache'.session, c)
  <2>1. NotAhead(session', c)
    BY StoredNotAhead DEF StoreSkipped
  <2>2. cache'.session = session \/ cache'.session = cache.session
    BY CacheWrites
  <2> QED
    BY <2>1, <2>2 DEF StoreSkipped
<1>2. ASSUME lag'.session # "event"
      PROVE  DroppedBy(session', cache'.session, c)
  BY <1>2, LagSteps, StaysDown DEF StoreSkipped, DroppedBy
<1> QED
  BY <1>1, <1>2 DEF StoreSkipped, NotAhead, DroppedBy, SeenAs

(* A call that is undisturbed was so before.                               *)
LEMMA StillUndisturbed ==
  ASSUME TypeOK, IInv, [Next]_vars, Undisturbed', pc # "idle"
  PROVE  Undisturbed /\ session'.clients = session.clients
<1>1. ~Begin /\ ~SessionNotFound
  BY DEF Begin, SessionNotFound
<1> QED
  BY <1>1, CalmStep

(* A step that leaves the entries of the copy keeps what is said of it.    *)
LEMMA CopySkippedStays ==
  ASSUME TypeOK, IInv, StatusInv, [Next]_vars, NEW c \in Clients, CopySkipped(c),
         copy'.hash = copy.hash, SameEntries(copy'.status, copy.status),
         pc' \in Unallocated => pc \in Unallocated,
         pc' \in {"allocate", "clientRegs", "update"} =>
            pc \in {"allocate", "clientRegs", "update"}
  PROVE  CopySkipped(c)'
<1>1. /\ copy'.status.seen[c] = copy.status.seen[c]
      /\ SeenAs(copy'.status, c) = SeenAs(copy.status, c)
  BY DEF SameEntries, SeenAs
<1>2. NotAhead(copy, c) => NotAhead(copy', c)
  BY <1>1 DEF NotAhead
<1>3. ASSUME pc' \in Unallocated
      PROVE  NotAhead(copy', c) /\ (Undisturbed' => DroppedBy(session', copy', c))
  <2>1. pc \in Unallocated /\ pc # "idle"
    BY <1>3 DEF Unallocated
  <2> QED
    BY <1>1, <1>2, <2>1, StillUndisturbed, StaysDown DEF CopySkipped, DroppedBy
<1>4. ASSUME Undisturbed', pc' \in {"allocate", "clientRegs", "update"},
             session'.clients[c] = "down",
             copy'.hash # NoHash, copy'.hash.seen[c] = copy'.status.seen[c]
      PROVE  SeenAs(session'.status, c) # "up"
  <2>1. pc \in {"allocate", "clientRegs", "update"} /\ pc # "idle"
    BY <1>4
  <2> QED
    BY <1>1, <1>4, <2>1, StillUndisturbed, StaysDown DEF CopySkipped
<1> QED
  BY <1>3, <1>4 DEF CopySkipped, NotAhead, DroppedBy, SeenAs

(* Every step keeps the part of the copy.                                  *)
LEMMA NextCopySkipped ==
  ASSUME Templates # {}, TypeOK, IInv, EventsInv, StatusInv, [Next]_vars,
         NEW c \in Clients, StoreSkipped(c), CopySkipped(c)
  PROVE  CopySkipped(c)'
<1> USE DEF store, informers, reading, calls, counters
<1>0. /\ session \in SessionType /\ clock \in Int /\ clock >= 0
      /\ WatchInv /\ (Undisturbed /\ pc # "idle" => copy.clients = session.clients)
  BY TypeOKParts, ClockIsInt, EventsInvParts DEF WorldOK
<1>1. CASE Elsewhere
  BY <1>1, ElsewhereLeaves, CopySkippedStays DEF SameEntries, Unallocated
<1>2. CASE \/ Ends \/ GetPodsFails \/ UpdateStatus \/ UpdateAnnotation
           \/ \E p \in AllPods : RestoreFails(p)
  <2>1. pc' \in {"idle", "report", "annotate", "spawn"}
    BY <1>2, EndsReturn DEF GetPodsFails, UpdateStatus, UpdateAnnotation, RestoreFails
  <2> QED
    BY <2>1 DEF CopySkipped, Unallocated
<1>3. CASE Begin
  <2>1. /\ pc' \in {"sessionPods", "clientPods"} /\ copy' = cache.session
        /\ UNCHANGED <<session, lag>>
    BY <1>3 DEF Begin, AfterSessionPods
  <2>2. NotAhead(copy', c) /\ (Undisturbed' => DroppedBy(session', copy', c))
    BY <2>1 DEF StoreSkipped, Undisturbed
  <2> QED
    BY <2>1, <2>2 DEF CopySkipped, NotAhead, DroppedBy, SeenAs
<1>4. CASE ReconcileSessionPods \/ PodsRestored \/ ReconcilePods
  <2>1. /\ pc' \in Unallocated => pc \in Unallocated
        /\ pc' \in {"allocate", "clientRegs", "update"} =>
              pc \in {"allocate", "clientRegs", "update"}
    BY <1>4 DEF ReconcileSessionPods, PodsRestored, ReconcilePods, AfterSessionPods, Unallocated
  <2> QED
    BY <1>4, <2>1, SameVersion, CopySkippedStays
<1>5. CASE DeleteSession \/ \E d \in Clients, v \in ClientStates : EditClient(d, v)
  <2>1. UNCHANGED <<copy, pc>>
    BY <1>5 DEF DeleteSession, EditClient, Churn
  <2> QED
    BY <2>1, CopySkippedStays DEF SameEntries
<1>6. CASE ReconcileClientPods
  <2>1. pc = "clientPods" /\ pc' = "allocate" /\ session' = session
    BY <1>6 DEF ReconcileClientPods
  <2>2. /\ copy'.hash = copy.hash
        /\ copy.clients[c] = "down" /\ copy.status.seen[c] = defaultTime
              => copy'.status.seen[c] = clock
    BY <1>6, ReconciledShows
  <2>3. ASSUME Undisturbed', session.clients[c] = "down",
               copy.hash # NoHash, copy.hash.seen[c] = copy'.status.seen[c]
        PROVE  SeenAs(session.status, c) # "up"
    <3>1. Undisturbed /\ copy.clients[c] = "down"
      BY <1>0, <2>1, <2>3, StillUndisturbed
    <3>2. NotAhead(copy, c) /\ DroppedBy(session, copy, c)
      BY <2>1, <3>1 DEF CopySkipped, Unallocated
    <3>3. CASE copy.status.seen[c] = defaultTime
      <4>1. SeenAs(copy.hash, c) = "down" /\ SeenAs(copy.status, c) = "up"
        BY <1>0, <2>2, <2>3, <3>1, <3>3 DEF SeenAs
      <4> QED
        BY <2>3, <3>2, <4>1 DEF NotAhead
    <3>4. CASE copy.status.seen[c] # defaultTime
      BY <2>3, <3>2, <3>4 DEF DroppedBy, SeenAs
    <3> QED
      BY <3>3, <3>4
  <2> QED
    BY <2>1, <2>2, <2>3 DEF CopySkipped, Unallocated
<1>7. ASSUME NEW d \in Clients, AllocateClient(d)
      PROVE  CopySkipped(c)'
  <2>1. pc = "allocate" /\ pc' = "allocate" /\ session' = session /\ d \in newClients
    BY <1>7 DEF AllocateClient
  <2>2. /\ copy'.hash = copy.hash
        /\ c # d => copy'.status.seen[c] = copy.status.seen[c]
    BY <1>7, AllocatedEntry
  <2>3. ASSUME Undisturbed', session.clients[c] = "down",
               copy.hash # NoHash, copy.hash.seen[c] = copy'.status.seen[c]
        PROVE  SeenAs(session.status, c) # "up"
    <3>1. Undisturbed /\ copy.clients[c] = "down"
      BY <1>0, <2>1, <2>3, StillUndisturbed
    <3>2. c # d
      BY <2>1, <3>1 DEF StatusInv
    <3> QED
      BY <2>1, <2>2, <2>3, <3>1, <3>2 DEF CopySkipped
  <2> QED
    BY <2>1, <2>2, <2>3 DEF CopySkipped, Unallocated
<1> QED
  BY <1>1, <1>2, <1>3, <1>4, <1>5, <1>6, <1>7, StepKinds

(* Every step keeps SkippedInv.                                            *)
LEMMA NextSkipped ==
  ASSUME Templates # {}, TypeOK, IInv, EventsInv, HistoryInv, StatusInv, SkippedInv, [Next]_vars
  PROVE  SkippedInv'
BY SkippedParts, NextStoreSkipped, NextCopySkipped

---------------------------------------------------------------------------
(* RestInv: where a call that nothing disturbs leads.                      *)

(* What RestInv says of the pods and, towards the end, of what is stored.  *)
PodsFound ==
  /\ pc = "allocate" => PodIds \cap Existing(listed) \subseteq Existing(pods)
  /\ pc \in {"clientRegs", "update", "annotate", "spawn"} =>
       AllocatedPods(copy.status) \subseteq Existing(pods) \cup toSpawn

ShowsAll ==
  session.live /\ pc \in {"annotate", "spawn", "idle"} => \A c \in Clients :
     /\ Shows(session.status, session.clients, c)
     /\ session.clients[c] = "up" =>
          IF pc = "idle" THEN session.status.alloc[c] \subseteq Existing(pods)
          ELSE session.status.alloc[c] = copy.status.alloc[c]

(* RestInv says so of what nothing disturbs.                               *)
LEMMA RestParts ==
  /\ RestInv <=> (Undisturbed => PodsFound /\ ShowsAll)
  /\ RestInv' <=> (Undisturbed' => PodsFound' /\ ShowsAll')
BY DEF RestInv, PodsFound, ShowsAll

(* A status that is not written because the annotation shows it already is *)
(* the stored one, for the clients that are there.                         *)
LEMMA SkippedShows ==
  ASSUME TypeOK, IInv, EventsInv, HistoryInv, StatusInv, SkippedInv, Undisturbed,
         StatusUnchanged, NEW c \in Clients
  PROVE  /\ Shows(session.status, session.clients, c)
         /\ session.clients[c] = "up" => session.status.alloc[c] = copy.status.alloc[c]
<1>0. /\ pc = "update" /\ copy.hash = copy.status /\ copy.status \in StatusType
      /\ newClients = {} /\ copy.clients = session.clients
  BY TypeOKParts, SessionUpdates, IInvParts, EventsInvParts
     DEF StatusUnchanged, StatusHasChanged, LocalsOK, CopyInv, CallsInv
<1>1. copy.hash # NoHash
  BY <1>0, NoHashAssumption
<1>2. Shows(copy.status, session.clients, c)
  BY <1>0 DEF StatusInv
<1>3. ASSUME session.clients[c] = "up"
      PROVE  /\ session.status.seen[c] = defaultTime
             /\ session.status.alloc[c] = copy.status.alloc[c]
  <2>1. SeenAs(copy.hash, c) = "up"
    BY <1>0, <1>2, <1>3 DEF Shows, SeenAs
  <2>2. SeenAs(session.status, c) = "up" /\ session.status.alloc[c] = copy.hash.alloc[c]
    BY <1>1, <1>3, <2>1, HistoryIs DEF Happened
  <2> QED
    BY <1>0, <2>2 DEF SeenAs
<1>4. ASSUME session.clients[c] = "down"
      PROVE  session.status.seen[c] # defaultTime
  <2>1. CopySkipped(c)
    BY SkippedParts
  <2> QED
    BY <1>0, <1>1, <1>4, <2>1 DEF CopySkipped, SeenAs
<1> QED
  BY <1>3, <1>4 DEF Shows

(* Of the calls still to be made, those that are made leave their pod.     *)
LEMMA ElsewhereSpawns ==
  ASSUME TypeOK, Elsewhere
  PROVE  listed' = listed /\ toSpawn \ toSpawn' \subseteq Existing(pods')
<1> USE DEF store, informers, reading, calls, counters
<1>1. ASSUME NEW p \in AllPods, RestorePod(p) \/ SpawnClientPod(p)
      PROVE  listed' = listed /\ toSpawn' = toSpawn \ {p} /\ p \in Existing(pods')
  <2>1. SpawnPod(p, TRUE) /\ listed' = listed /\ toSpawn' = toSpawn \ {p}
    BY <1>1 DEF RestorePod, SpawnClientPod
  <2> QED
    BY <2>1, CreateIsQuiet
<1>2. CASE SessionNotFound \/ ReadFails \/ RegistrationFails \/ RegistrationsDone \/ StatusUnchanged
  BY <1>2 DEF SessionNotFound, ReadFails, RegistrationFails, RegistrationsDone, StatusUnchanged
<1>3. CASE \E p \in AllPods : CreateGCRegistration(p) \/ DeleteGCRegistration(p)
  BY <1>3 DEF CreateGCRegistration, DeleteGCRegistration
<1>4. CASE Sync \/ AssignIp \/ Tick \/ UNCHANGED vars
  BY <1>4 DEF Sync, SyncSession, SyncPods, SyncRegistrations, AssignIp, Tick, Churn, vars
<1>5. CASE \E p \in AllPods :
        \/ PodRemoved(p) \/ RegistrationRemoved(p)
        \/ \E value \in {"True", "False"} : PodCondition(p, value)
  BY <1>5 DEF PodRemoved, RegistrationRemoved, PodCondition, Churn
<1> QED
  BY <1>1, <1>2, <1>3, <1>4, <1>5 DEF Elsewhere

(* Every step keeps RestInv.                                               *)
LEMMA NextRest ==
  ASSUME Templates # {}, TypeOK, IInv, EventsInv, HistoryInv, StatusInv, SkippedInv, RestInv,
         [Next]_vars
  PROVE  RestInv'
<1> USE DEF store, informers, reading, calls, counters
<1>0. /\ lag \in LagType /\ pods \in [AllPods -> PodStates] /\ copy.status \in StatusType
      /\ WatchInv /\ (Undisturbed /\ pc # "idle" => copy.clients = session.clients)
      /\ Undisturbed => PodsFound /\ ShowsAll
      /\ pc # "allocate" => newClients = {}
  BY TypeOKParts, SessionUpdates, EventsInvParts, RestParts, IInvParts
     DEF WorldOK, LocalsOK, CopyInv, CallsInv
<1>1. SUFFICES ASSUME Undisturbed' PROVE PodsFound' /\ ShowsAll'
  BY RestParts
<1>2. /\ session'.clients = session.clients /\ (session'.live => session.live)
      /\ Existing(pods) \subseteq Existing(pods')
      /\ Undisturbed \/ Begin \/ SessionNotFound
  BY <1>1, CalmStep
<1>3. CASE \/ Begin \/ GetPodsFails \/ ReconcileSessionPods \/ PodsRestored
           \/ \E p \in AllPods : RestoreFails(p)
  <2>1. pc' \in {"sessionPods", "clientPods", "report", "sessionRegs"}
    BY <1>3 DEF Begin, GetPodsFails, ReconcileSessionPods, PodsRestored, RestoreFails,
                AfterSessionPods
  <2> QED
    BY <2>1 DEF PodsFound, ShowsAll
<1>4. CASE SessionNotFound
  BY <1>0, <1>4 DEF SessionNotFound, WatchInv, PodsFound, ShowsAll
<1>5. CASE Elsewhere /\ ~Begin /\ ~SessionNotFound
  <2>1. /\ UNCHANGED <<session, copy>>
        /\ \/ pc' = pc
           \/ pc = "sessionRegs" /\ pc' \in {"restore", "clientPods"}
           \/ pc = "clientRegs" /\ pc' = "update"
           \/ pc = "update" /\ pc' = "spawn" /\ StatusUnchanged
    BY <1>5, ElsewhereLeaves
  <2>2. Undisturbed /\ PodsFound /\ ShowsAll
    BY <1>0, <1>2, <1>5
  <2>3. listed' = listed /\ Existing(pods) \cup toSpawn \subseteq Existing(pods') \cup toSpawn'
    BY <1>2, <1>5, ElsewhereSpawns
  <2>4. PodsFound'
    BY <1>2, <2>1, <2>2, <2>3 DEF PodsFound
  <2>5. ASSUME session.live, pc' \in {"annotate", "spawn", "idle"}, NEW c \in Clients
        PROVE  /\ Shows(session.status, session.clients, c)
               /\ session.clients[c] = "up" =>
                    IF pc' = "idle" THEN session.status.alloc[c] \subseteq Existing(pods')
                    ELSE session.status.alloc[c] = copy.status.alloc[c]
    <3>1. CASE pc = "update" /\ pc' = "spawn" /\ StatusUnchanged
      BY <2>2, <3>1, SkippedShows
    <3>2. CASE pc' = pc
      BY <1>2, <2>2, <2>5, <3>2 DEF ShowsAll
    <3> QED
      BY <2>1, <2>5, <3>1, <3>2
  <2>6. ShowsAll'
    BY <2>1, <2>5 DEF ShowsAll, Shows
  <2> QED
    BY <2>4, <2>6
<1>6. CASE Ends
  <2>1. Done /\ pc' = "idle"
    BY <1>1, <1>6, EndsReturn DEF Undisturbed
  <2>2. Undisturbed /\ PodsFound /\ ShowsAll /\ pc = "spawn" /\ toSpawn = {}
    BY <1>0, <1>2, <2>1 DEF Done, Begin, SessionNotFound
  <2>3. UNCHANGED <<session, pods>>
    BY <2>1 DEF Done
  <2>4. \A c \in Clients : copy.status.alloc[c] \subseteq Existing(pods)
    <3>1. AllocatedPods(copy.status) \subseteq Existing(pods)
      BY <2>2 DEF PodsFound
    <3> QED
      BY <3>1 DEF AllocatedPods
  <2> QED
    BY <2>1, <2>2, <2>3, <2>4 DEF PodsFound, ShowsAll, Shows
<1>7. CASE ReconcileClientPods
  <2>1. pc' = "allocate" /\ listed' = cache.pods /\ UNCHANGED <<pods, lag>>
    BY <1>7 DEF ReconcileClientPods
  <2>2. Existing(cache.pods) \subseteq Existing(pods)
    BY <1>0, <1>1, <2>1 DEF WatchInv, Undisturbed
  <2> QED
    BY <2>1, <2>2 DEF PodsFound, ShowsAll, Existing
<1>8. ASSUME NEW c \in Clients, AllocateClient(c)
      PROVE  PodsFound' /\ ShowsAll'
  <2>1. pc = "allocate" /\ pc' = "allocate" /\ UNCHANGED <<pods, listed>>
    BY <1>8 DEF AllocateClient
  <2> QED
    BY <1>0, <1>2, <2>1 DEF PodsFound, ShowsAll, Begin, SessionNotFound
<1>9. CASE ReconcilePods
  <2>1. /\ pc = "allocate" /\ pc' = "clientRegs" /\ UNCHANGED <<pods, listed>>
        /\ toSpawn' = podsToSpawn(copy.status, found)
    BY <1>9 DEF ReconcilePods
  <2>2. AllocatedPods(copy'.status) = AllocatedPods(copy.status)
    <3>1. copy'.status.alloc = copy.status.alloc
      BY <1>9, SameVersion DEF SameEntries
    <3> QED
      BY <3>1 DEF AllocatedPods
  <2>3. found \subseteq Existing(pods)
    BY <1>0, <1>2, <2>1 DEF PodsFound, found, Begin, SessionNotFound
  <2> QED
    BY <1>0, <2>1, <2>2, <2>3 DEF PodsFound, ShowsAll, podsToSpawn
<1>10. CASE UpdateStatus \/ UpdateAnnotation
  <2>1. /\ UNCHANGED <<pods, copy, toSpawn>>
        /\ \/ UpdateStatus /\ pc = "update" /\ pc' = "annotate"
           \/ UpdateAnnotation /\ pc = "annotate" /\ pc' = "spawn"
    BY <1>10 DEF UpdateStatus, UpdateAnnotation
  <2>2. Undisturbed /\ PodsFound /\ ShowsAll /\ copy.clients = session.clients /\ newClients = {}
    BY <1>0, <1>2, <2>1 DEF Begin, SessionNotFound
  <2>3. PodsFound'
    BY <2>1, <2>2 DEF PodsFound
  <2>4. CASE UpdateStatus
    <3>1. \A c \in Clients : Shows(copy.status, session.clients, c)
      BY <2>1, <2>2, <2>4 DEF StatusInv, UpdateStatus
    <3>2. session'.status = copy.status /\ session'.clients = session.clients
      BY <2>4, WritesSucceed
    <3> QED
      BY <2>1, <2>3, <2>4, <3>1, <3>2 DEF ShowsAll, Shows, UpdateAnnotation, UpdateStatus
  <2>5. CASE UpdateAnnotation
    <3>1. session'.status = session.status /\ session'.clients = session.clients
      BY <2>5, WritesSucceed
    <3>2. pc = "annotate" /\ pc' = "spawn"
      BY <2>5 DEF UpdateAnnotation
    <3> QED
      BY <1>2, <2>1, <2>2, <2>3, <3>1, <3>2 DEF ShowsAll, Shows
  <2> QED
    BY <1>10, <2>4, <2>5
<1>11. CASE DeleteSession
  <2>1. UNCHANGED <<pods, copy, listed, toSpawn, pc>> /\ ~session'.live /\ ~Begin /\ ~SessionNotFound
    <3>1. session \in SessionType
      BY TypeOKParts DEF WorldOK
    <3>2. ~Begin /\ ~SessionNotFound
      BY <1>11, <3>1 DEF DeleteSession, Begin, SessionNotFound, SessionType
    <3> QED
      BY <1>11, <3>1, <3>2 DEF DeleteSession, Churn, SessionType
  <2> QED
    BY <1>0, <1>2, <2>1 DEF PodsFound, ShowsAll
<1>12. CASE \E c \in Clients, v \in ClientStates : EditClient(c, v)
  BY <1>0, <1>1, <1>12 DEF EditClient, LagType, Undisturbed
<1> QED
  BY <1>3, <1>4, <1>5, <1>6, <1>7, <1>8, <1>9, <1>10, <1>11, <1>12, StepKinds

---------------------------------------------------------------------------
(* SettledInv is inductive where clients join and drop and do not come back*)
(* and where there are templates of client pods.                           *)

(* The initial states satisfy SettledInv.                                  *)
LEMMA InitSettled == Init => SettledInv
<1> SUFFICES ASSUME Init PROVE SettledInv
  OBVIOUS
<1>0. /\ session = NewSession /\ cache.session = NewSession /\ copy = NewSession
      /\ pods = NoPods /\ cache.pods = NoPods
      /\ pc = "idle" /\ queued /\ newClients = {}
      /\ NewSession.hash = NoHash
      /\ \A c \in Clients :
            NewSession.clients[c] = "absent" /\ NewSession.status.seen[c] = Absent
  BY DEF Init, NewSession, NewStatus
<1>1. \A c \in Clients : SeenAs(NewSession.status, c) = "absent" /\ Passed(c) = {"absent"}
  BY <1>0 DEF SeenAs, Passed
<1>2. EventsInv
  BY <1>0 DEF EventsInv, Undisturbed
<1>3. HistoryInv /\ EntriesInv
  BY <1>0, <1>1 DEF HistoryInv, EntriesInv
<1>4. StatusInv /\ RestInv
  BY <1>0 DEF StatusInv, RestInv, Undisturbed, Init
<1>5. SkippedInv
  BY <1>0 DEF SkippedInv, NotAhead, DroppedSince, Undisturbed
<1> QED
  BY <1>2, <1>3, <1>4, <1>5 DEF SettledInv

(* Every step keeps SettledInv.                                            *)
LEMMA NextSettled ==
  ASSUME OneWay, Templates # {}, TypeOK, IInv, SettledInv, [Next]_vars
  PROVE  SettledInv'
<1>1. EventsInv /\ HistoryInv /\ EntriesInv /\ StatusInv /\ SkippedInv /\ RestInv
  BY DEF SettledInv
<1>2. EventsInv' /\ HistoryInv' /\ EntriesInv' /\ StatusInv' /\ SkippedInv' /\ RestInv'
  BY <1>1, NextEvents, NextHistory, NextEntries, NextStatus, NextSkipped, NextRest
<1> QED
  BY <1>2 DEF SettledInv

(* When a call that nothing disturbs comes to its end, what it leaves is   *)
(* what the clients are.                                                   *)
THEOREM SettledInvHolds == OneWay /\ Templates # {} => (Spec => []SettledInv)
<1> SUFFICES ASSUME OneWay, Templates # {} PROVE Spec => []SettledInv
  OBVIOUS
<1>1. Init => SettledInv
  BY InitSettled
<1>2. TypeOK /\ IInv /\ SettledInv /\ [Next]_vars => SettledInv'
  BY NextSettled
<1> QED
  BY <1>1, <1>2, Inductive, PTL DEF Spec

(* At rest, SettledInv is about the clients as they are, and their pods.   *)
LEMMA SettledMeans == SettledInv => SettledStatus
<1> SUFFICES ASSUME SettledInv, Quiescent, session.live, NEW c \in Clients
             PROVE  /\ session.clients[c] = "up" => Served(c)
                    /\ session.clients[c] = "down" => session.status.seen[c] # defaultTime
  BY DEF SettledStatus
<1>1. Undisturbed /\ pc = "idle"
  BY DEF Quiescent, Undisturbed
<1>2. /\ Shows(session.status, session.clients, c)
      /\ session.clients[c] = "up" => session.status.alloc[c] \subseteq Existing(pods)
  BY <1>1 DEF SettledInv, RestInv
<1>3. session.status.seen[c] # Absent => PodOfEach(session.status.alloc[c])
  BY DEF SettledInv, EntriesInv
<1> QED
  BY <1>2, <1>3 DEF Shows, Served, PodOfEach, defaultTime, Absent

(* SettledStatus: when the controller rests, every connected client is     *)
(* recorded as connected and has a running pod of each template, and no    *)
(* disconnected client is recorded as connected (Reconcile,                *)
(* StatusHasChanged, SessionUpdateFunc).                                   *)
THEOREM SettledStatusHolds == OneWay /\ Templates # {} => (Spec => []SettledStatus)
<1> SUFFICES ASSUME OneWay, Templates # {} PROVE Spec => []SettledStatus
  OBVIOUS
<1> QED
  BY SettledMeans, SettledInvHolds, PTL
=============================================================================
