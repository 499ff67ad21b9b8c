------------------------- MODULE TelepresenceProofs -------------------------
(***************************************************************************)
(* Theorems about Telepresence: what holds of each of the two components   *)
(* alone holds of the two together, where each is the other's environment. *)
(* A step of either keeps the inductive invariants of both.                *)
(***************************************************************************)
EXTENDS Telepresence, SessionRefinementProofs, SessionSettledProofs

(* What is proved of the collector, in the variables of Telepresence.      *)
GCP == INSTANCE GCControllerProofs WITH
  PodIds <- AllPods, Sessions <- {TheSession},
  SessionOf <- [p \in AllPods |-> TheSession],
  TimeoutSeconds <- [s \in {TheSession} |-> TimeoutSeconds],
  ReutilizeTimeoutSeconds <- [s \in {TheSession} |-> ReutilizeTimeoutSeconds],
  sessions <- IF session.live THEN {TheSession} ELSE {}, pods <- Existing(pods),
  regs <- gcRegs,
  cachedSessions <- gcSessions, cachedPods <- gcPods, cachedRegs <- gcCachedRegs,
  queue <- gcQueue, waiting <- gcWaiting, key <- gcKey, listed <- gcListed,
  deleting <- gcDeleting

(* The constants are such as the collector is proved for.                  *)
LEMMA CollectorConstants == GCP!GCConstantsAssumption
BY ConstantsAssumption, BoundsAssumption, CollectorAssumption DEF GCP!GCConstantsAssumption

(* The two instances of the collector mean the same by its operators       *)
LEMMA SameOperators ==
  /\ GC!Unregistered = GCP!Unregistered /\ GC!NewRegistration = GCP!NewRegistration
  /\ GC!NothingListed = GCP!NothingListed
  /\ \A copies : GC!Registered(copies) = GCP!Registered(copies)
  /\ \A kind : GC!Fault(kind) <=> GCP!Fault(kind)
  /\ GC!NoFault <=> GCP!NoFault
  /\ \A p, r : GC!Put(p, r) <=> GCP!Put(p, r)
  /\ \A p, r : GC!Overwrite(p, r) <=> GCP!Overwrite(p, r)
  /\ GC!Abort <=> GCP!Abort
<1> USE DEF GC!Unregistered, GCP!Unregistered, GC!NewRegistration, GCP!NewRegistration,
            GC!NothingListed, GCP!NothingListed, GC!Registered, GCP!Registered,
            GC!Fault, GCP!Fault, GC!NoFault, GCP!NoFault, GC!Put, GCP!Put,
            GC!Outdate, GCP!Outdate
<1>1. \A p, r : GC!Overwrite(p, r) <=> GCP!Overwrite(p, r)
  BY DEF GC!Overwrite, GCP!Overwrite
<1>2. GC!Abort <=> GCP!Abort
  BY DEF GC!Abort, GCP!Abort
<1> QED
  BY <1>1, <1>2

(* and have the same steps.                                                *)
LEMMA SameSteps ==
  /\ GC!Reconcile <=> GCP!Reconcile
  /\ GC!Sync <=> GCP!Sync
  /\ GC!Restart <=> GCP!Restart
  /\ GC!Tick <=> GCP!Tick
  /\ \A k \in AllPods : GC!TimerFires(k) <=> GCP!TimerFires(k)
<1> USE DEF GC!store, GCP!store, GC!informers, GCP!informers, GC!reading, GCP!reading
<1>1. GC!ReadFails \/ GC!Finish <=> GCP!ReadFails \/ GCP!Finish
  BY SameOperators DEF GC!ReadFails, GCP!ReadFails, GC!Finish, GCP!Finish
<1>2. ASSUME NEW p \in AllPods
      PROVE  /\ GC!Begin(p) <=> GCP!Begin(p)
             /\ GC!KeepRegistration(p) <=> GCP!KeepRegistration(p)
             /\ GC!DeleteOrphan(p) <=> GCP!DeleteOrphan(p)
             /\ GC!DeletePod(p) <=> GCP!DeletePod(p)
             /\ GC!DeleteExpired(p) <=> GCP!DeleteExpired(p)
             /\ GC!MarkReusable(p) <=> GCP!MarkReusable(p)
  <2>1. /\ GC!Handling(p) <=> GCP!Handling(p)
        /\ GC!Handled(p) <=> GCP!Handled(p)
        /\ GC!Orphaned(p) <=> GCP!Orphaned(p)
        /\ \A answered : GC!DeleteRegistration(p, answered) <=> GCP!DeleteRegistration(p, answered)
    BY SameOperators
       DEF GC!Handling, GCP!Handling, GC!Handled, GCP!Handled, GC!Orphaned, GCP!Orphaned,
           GC!DeleteRegistration, GCP!DeleteRegistration
  <2>2. /\ GC!Due(p) <=> GCP!Due(p)
        /\ GC!Marked(p) = GCP!Marked(p)
        /\ \A r, s : GC!InLastTimeout(r, s) <=> GCP!InLastTimeout(r, s)
    BY <2>1 DEF GC!Due, GCP!Due, GC!registrationHasExpired, GCP!registrationHasExpired,
                GC!Marked, GCP!Marked, GC!InLastTimeout, GCP!InLastTimeout
  <2>3. /\ GC!Begin(p) <=> GCP!Begin(p)
        /\ GC!KeepRegistration(p) <=> GCP!KeepRegistration(p)
    BY <2>1, <2>2 DEF GC!Begin, GCP!Begin, GC!KeepRegistration, GCP!KeepRegistration
  <2>4. /\ GC!DeleteOrphan(p) <=> GCP!DeleteOrphan(p)
        /\ GC!DeleteExpired(p) <=> GCP!DeleteExpired(p)
    BY <2>1, SameOperators
       DEF GC!DeleteOrphan, GCP!DeleteOrphan, GC!DeleteExpired, GCP!DeleteExpired
  <2>5. GC!DeletePod(p) <=> GCP!DeletePod(p)
    BY <2>1, <2>2, SameOperators DEF GC!DeletePod, GCP!DeletePod
  <2>6. GC!MarkReusable(p) <=> GCP!MarkReusable(p)
    BY <2>1, <2>2, SameOperators DEF GC!MarkReusable, GCP!MarkReusable
  <2> QED
    BY <2>3, <2>4, <2>5, <2>6
<1>3. GC!Reconcile <=> GCP!Reconcile
  BY <1>1, <1>2 DEF GC!Reconcile, GCP!Reconcile
<1>4. GC!Sync <=> GCP!Sync
  BY DEF GC!Sync, GCP!Sync, GC!SyncPods, GCP!SyncPods, GC!SyncSessions, GCP!SyncSessions,
     GC!SyncRegistration, GCP!SyncRegistration
<1>5. GC!Restart <=> GCP!Restart
  BY SameOperators DEF GC!Restart, GCP!Restart
<1>6. GC!Tick <=> GCP!Tick
  BY DEF GC!Tick, GCP!Tick, GC!Aged, GCP!Aged, GC!Older, GCP!Older, GC!Timeouts, GCP!Timeouts
<1>7. \A k \in AllPods : GC!TimerFires(k) <=> GCP!TimerFires(k)
  BY DEF GC!TimerFires, GCP!TimerFires
<1> QED
  BY <1>3, <1>4, <1>5, <1>6, <1>7
---------------------------------------------------------------------------
(* The collector, with the session controller for its environment.         *)

(* The two agree on what is registered.                                    *)
Agree == regs = GC!Registered(gcRegs)

(* The parts of the collector's inductive invariant.                       *)
GCParts == GCP!StoreInv /\ GCP!ListInv /\ GCP!QueueInv /\ GCP!CountInv

(* They say what the collector's TypeOK and GCInv say.                     *)
LEMMA SameInvariants ==
  /\ GC!TypeOK /\ GC!GCInv <=> GCParts
  /\ GC!TypeOK' /\ GC!GCInv' <=> GCParts'
<1>1. GCParts <=> GCP!TypeOK /\ GCP!GCInv
  BY CollectorConstants, GCP!Parts DEF GCParts
<1>2. GCParts' <=> GCP!TypeOK' /\ GCP!GCInv'
  BY CollectorConstants, GCP!Parts DEF GCParts
<1> QED
  BY <1>1, <1>2
     DEF GC!TypeOK, GCP!TypeOK, GC!GCInv, GCP!GCInv, GC!CopiesInv, GCP!CopiesInv,
         GC!MarkedLate, GCP!MarkedLate, GC!Attended, GCP!Attended, GC!Registered, GCP!Registered,
         GC!Copies, GCP!Copies, GC!Registration, GCP!Registration, GC!Timeouts, GCP!Timeouts,
         GC!RegistrationTypes, GCP!RegistrationTypes

(* Of its own steps, those of Reconcile keep them,                         *)
LEMMA CollectKeeps ==
  ASSUME GCParts, Agree, Collect
  PROVE  GCParts' /\ Agree'
<1>1. GCP!Reconcile /\ Agree'
  BY SameSteps DEF Collect, Agree, GC!Registered
<1>2. GCParts'
  BY <1>1, CollectorConstants, GCP!ReadsKeep, GCP!DeleteOrphanKeeps, GCP!DeleteExpiredKeeps,
     GCP!DeletePodKeeps, GCP!MarkReusableKeeps DEF GCParts, GCP!Reconcile
<1> QED
  BY <1>1, <1>2

(* and those of its queue, its timers, its informers and its restart.      *)
LEMMA CollectorSyncKeeps ==
  ASSUME GCParts, Agree, CollectorSync
  PROVE  GCParts' /\ Agree'
<1>1. GCP!Sync \/ GCP!Restart \/ \E k \in AllPods : GCP!TimerFires(k)
  BY SameSteps DEF CollectorSync
<1>2. GCParts'
  BY <1>1, CollectorConstants, GCP!SyncKeeps, GCP!RestartKeeps DEF GCParts
<1>3. gcRegs' = gcRegs /\ regs' = regs
  BY <1>1 DEF CollectorSync, GCP!Sync, GCP!SyncPods, GCP!SyncSessions, GCP!SyncRegistration,
              GCP!Restart, GCP!TimerFires, GCP!store
<1> QED
  BY <1>2, <1>3 DEF Agree, GC!Registered

(* Time ages what is stored and its copies, and unregisters nothing.       *)
LEMMA TimeKeeps ==
  ASSUME GCParts, Agree, Time
  PROVE  GCParts' /\ Agree'
<1>1. GCP!Tick /\ regs' = regs
  BY SameSteps DEF Time, store
<1>2. GCParts'
  BY <1>1, CollectorConstants, GCP!TickKeeps DEF GCParts
<1>3. GCP!Registered(gcRegs') = GCP!Registered(gcRegs)
  BY <1>1, CollectorConstants, GCP!AgedKeeps DEF GCParts, GCP!StoreInv, GCP!Tick
<1>4. Agree'
  BY <1>1, <1>3, SameOperators DEF Agree
<1> QED
  BY <1>2, <1>4

(* What the collector has, when nothing of it changes.                     *)
LEMMA CollectorWaits ==
  ASSUME GCParts, Agree, UNCHANGED <<regs, gcVars>>, TypeOK'
  PROVE  GCParts' /\ Agree'
<1> USE DEF gcVars, gcInformers, gcReading
<1>1. Agree'
  BY DEF Agree, GC!Registered
<1>2. GCP!ListInv' /\ GCP!QueueInv'
  BY DEF GCParts, GCP!ListInv, GCP!QueueInv, GCP!Attended, GCP!Registered, GCP!WellMarked
<1>3. GCP!CountInv'
  BY DEF TypeOK, GCP!CountInv
<1>4. GCP!StoreInv'
  BY DEF GCParts, GCP!StoreInv, GCP!WellMarked, Existing
<1> QED
  BY <1>1, <1>2, <1>3, <1>4 DEF GCParts

(* The session controller writes registrations one at a time, and nothing  *)
(* else with them.                                                         *)
LEMMA RegistrationSteps ==
  ASSUME Reconcile, regs' # regs
  PROVE  /\ UNCHANGED <<session, pods>>
         /\ \E p \in AllPods : regs' = regs \cup {p} \/ regs' = regs \ {p}
<1> USE DEF store, informers, reading, calls, counters
<1>1. ASSUME NEW p \in AllPods, CreateGCRegistration(p) \/ DeleteGCRegistration(p)
      PROVE  /\ UNCHANGED <<session, pods>>
             /\ regs' = regs \cup {p} \/ regs' = regs \ {p}
  BY <1>1 DEF CreateGCRegistration, DeleteGCRegistration
<1>2. CASE \E p \in AllPods :
              RestorePod(p) \/ RestoreFails(p) \/ SpawnClientPod(p) \/ SpawnFails(p)
  BY <1>2 DEF RestorePod, RestoreFails, SpawnClientPod, SpawnFails
<1>3. CASE Begin \/ SessionNotFound \/ ReadFails \/ PanicOnMissingIp \/ GetPodsFails
           \/ ReconcileSessionPods \/ RegistrationFails \/ RegistrationsDone \/ PodsRestored
           \/ ReportError
  BY <1>3 DEF Begin, SessionNotFound, ReadFails, PanicOnMissingIp, GetPodsFails,
              ReconcileSessionPods, RegistrationFails, RegistrationsDone, PodsRestored, ReportError
<1>4. CASE ReconcileClientPods \/ ListFails \/ ReconcilePods \/ StatusUnchanged \/ UpdateStatus
           \/ UpdateStatusFails \/ UpdateAnnotation \/ UpdateAnnotationFails \/ Done
           \/ \E c \in Clients : AllocateClient(c)
  BY <1>4 DEF ReconcileClientPods, ListFails, ReconcilePods, StatusUnchanged, UpdateStatus,
              UpdateStatusFails, UpdateAnnotation, UpdateAnnotationFails, Done, AllocateClient
<1> QED
  BY <1>1, <1>2, <1>3, <1>4 DEF Reconcile

(* A registration that is created or deleted is new to the collector, and  *)
(* outdates what it has cached and listed.                                 *)
LEMMA SessionStepKeeps ==
  ASSUME GCParts, Agree, SessionStep, TypeOK'
  PROVE  GCParts' /\ Agree'
<1>1. CASE regs' = regs /\ UNCHANGED <<gcRegs, gcCachedRegs, gcListed>>
  <2>1. UNCHANGED <<regs, gcVars>>
    BY <1>1 DEF SessionStep, gcVars, gcInformers, gcReading
  <2> QED
    BY <2>1, CollectorWaits
<1>2. ASSUME NEW p, NEW r,
             \/ p \in regs' \ regs /\ r = GCP!NewRegistration
             \/ p \in regs \ regs' /\ r = GCP!Unregistered,
             GCP!Overwrite(p, r)
      PROVE  GCParts' /\ Agree'
  <2>1. /\ UNCHANGED <<session, pods>> /\ p \in AllPods
        /\ \/ regs' = regs \cup {p} /\ r = GCP!NewRegistration
           \/ regs' = regs \ {p} /\ r = GCP!Unregistered
    BY <1>2, RegistrationSteps DEF SessionStep
  <2>2. /\ UNCHANGED <<IF session.live THEN {TheSession} ELSE {}, Existing(pods)>>
        /\ UNCHANGED <<gcSessions, gcPods, gcQueue, gcWaiting, gcKey, gcDeleting>>
    BY <2>1 DEF SessionStep, Existing
  <2>3. GCP!StoreInv' /\ GCP!ListInv' /\ GCP!QueueInv'
    BY <1>2, <2>1, <2>2, CollectorConstants, GCP!OverwriteKeeps DEF GCParts
  <2>4. GCP!CountInv'
    BY DEF TypeOK, GCP!CountInv
  <2>5. Agree'
    <3>1. gcRegs' = [gcRegs EXCEPT ![p] = r] /\ gcRegs \in [AllPods -> GCP!Registration]
      BY <1>2
         DEF GCP!Overwrite, GCP!Put, GCParts, GCP!StoreInv, GCP!WellMarked, GCP!Copies
    <3>2. r.type # "none" <=> r = GCP!NewRegistration
      BY <2>1 DEF GCP!NewRegistration, GCP!Unregistered
    <3>3. \A q \in AllPods : gcRegs'[q] = IF q = p THEN r ELSE gcRegs[q]
      BY <2>1, <3>1
    <3>4. regs = {q \in AllPods : gcRegs[q].type # "none"}
      BY DEF Agree, GC!Registered
    <3>5. regs' = {q \in AllPods : gcRegs'[q].type # "none"}
      <4>1. GCP!NewRegistration # GCP!Unregistered
        BY DEF GCP!NewRegistration, GCP!Unregistered
      <4> QED
        BY <2>1, <3>2, <3>3, <3>4, <4>1
    <3> QED
      BY <3>5 DEF Agree, GC!Registered
  <2> QED
    BY <2>3, <2>4, <2>5 DEF GCParts
<1> QED
  BY <1>1, <1>2, SameOperators DEF SessionStep, RegistrationsWritten

---------------------------------------------------------------------------
(* The session controller, with the collector for its environment.         *)

(* What a step of the collector is to the session controller: pods and     *)
(* registrations go.                                                       *)
Aside == CollectorWorld /\ regs' \subseteq AllPods /\ faults' \in 0..MaxFaults

(* Every step is one of the session controller's, or one of the collector's*)
LEMMA StepOf ==
  ASSUME TypeOK, GCParts, Agree, [BothNext]_allVars
  PROVE  \/ [Next]_vars
         \/ (Collect \/ CollectorSync) /\ Aside
<1> USE DEF store, informers, reading, calls, counters
<1>1. CASE SessionStep \/ SessionSync \/ Users
  BY <1>1 DEF SessionStep, SessionSync, Users, Next, Environment
<1>2. CASE Time
  BY <1>2 DEF Time, Next, Environment, Tick, vars
<1>3. CASE UNCHANGED allVars
  BY <1>3 DEF allVars
<1>4. CASE Collect \/ CollectorSync
  <2>1. GCParts' /\ Agree'
    BY <1>4, CollectKeeps, CollectorSyncKeeps
  <2>2. faults' \in 0..MaxFaults /\ regs' \subseteq AllPods
    BY <2>1 DEF GCParts, GCP!CountInv, Agree, GC!Registered
  <2> QED
    BY <1>4, <2>2 DEF Collect, CollectorSync, Aside
<1> QED
  BY <1>1, <1>2, <1>3, <1>4 DEF BothNext

(* All that changes for the session controller is that a pod is gone, with *)
(* an event of it, and a registration.                                     *)
LEMMA AsideIs ==
  ASSUME TypeOK, Aside
  PROVE  /\ UNCHANGED <<session, ip, clock, cache, queued, pc, recorded, edits, churn>>
         /\ UNCHANGED <<copy, current, seenRegs, seenIp, listed, newClients>>
         /\ UNCHANGED <<toCreate, toDelete, toSpawn>>
         /\ pods' \in [AllPods -> PodStates] /\ lag' \in LagType
         /\ lag'.session = lag.session
         /\ \/ pods' = pods /\ lag' = lag
            \/ lag'.pods = "event"
         /\ \/ Existing(pods') = Existing(pods)
            \/ \E p \in AllPods : Existing(pods') = Existing(pods) \ {p}
<1>0. pods \in [AllPods -> PodStates] /\ lag \in LagType
  BY TypeOKParts DEF WorldOK
<1>1. PICK removed \in {{}} \cup {{p} : p \in AllPods} :
         pods' = [p \in AllPods |-> IF p \in removed THEN "gone" ELSE pods[p]]
  BY DEF Aside, CollectorWorld
<1>2. pods' \in [AllPods -> PodStates] /\ Existing(pods') = Existing(pods) \ removed
  BY <1>0, <1>1 DEF Existing, PodStates
<1>3. \/ Existing(pods') = Existing(pods)
      \/ \E p \in AllPods : Existing(pods') = Existing(pods) \ {p}
  <2>1. removed = {} \/ \E p \in AllPods : removed = {p}
    OBVIOUS
  <2> QED
    BY <1>2, <2>1
<1>4. /\ lag' \in LagType /\ lag'.session = lag.session
      /\ (pods' = pods /\ lag' = lag) \/ lag'.pods = "event"
  BY <1>0 DEF Aside, CollectorWorld, LagType
<1> QED
  BY <1>2, <1>3, <1>4 DEF Aside, CollectorWorld, reading, calls

(* So the types stay,                                                      *)
LEMMA AsideTyped ==
  ASSUME TypeOK, Aside
  PROVE  TypeOK'
<1>0. WorldOK /\ LocalsOK
  BY TypeOKParts
<1>1. LocalsOK'
  BY <1>0, AsideIs DEF LocalsOK
<1>2. WorldOK'
  BY <1>0, AsideIs DEF WorldOK, Aside
<1> QED
  BY <1>1, <1>2, TypeOKParts

(* and what the safety properties rest on,                                 *)
LEMMA AsideKeeps ==
  ASSUME TypeOK, IInv, Aside
  PROVE  IInv'
<1>1. UNCHANGED <<session, clock, cache, pc, recorded, copy, current, newClients, toSpawn>>
  BY AsideIs
<1>2. lag'.session = lag.session /\ Existing(pods') \subseteq Existing(pods)
  BY AsideIs
<1>3. RecordedInv' /\ CallsInv' /\ KeptInv'
  BY <1>1 DEF IInv, RecordedInv, NamesRecorded, CallsInv, KeptInv, Protected, SameEntries
<1>4. VersionInv'
  BY <1>1, <1>2 DEF IInv, VersionInv
<1>5. PodsRecorded'
  BY <1>1, <1>2 DEF IInv, PodsRecorded
<1> QED
  BY <1>3, <1>4, <1>5 DEF IInv

(* and what the refinement rests on,                                       *)
LEMMA AsideComputed ==
  ASSUME TypeOK, Aside
  PROVE  /\ CapacityInv => CapacityInv'
         /\ ComputedInv => ComputedInv'
<1>1. UNCHANGED <<session, clock, cache, pc, copy, current, newClients>>
  BY AsideIs
<1>2. CapacityInv => CapacityInv'
  BY <1>1 DEF CapacityInv, WithinCapacity, Load, ClientsOf
<1>3. ComputedInv => ComputedInv'
  BY <1>1 DEF ComputedInv, ReconciledAt, SameEntries, Atomic!Holds, Atomic!Expired, Atomic!Entry,
              Atomic!Forgotten, Atomic!Kept, Atomic!Admitted, Atomic!OnePodEach
<1> QED
  BY <1>2, <1>3

(* and where the controller rests: a pod that goes is an event.            *)
LEMMA AsideDisturbs ==
  ASSUME TypeOK, Aside
  PROVE  /\ RestoredInv => RestoredInv'
         /\ SettledInv => SettledInv'
<1>1. /\ UNCHANGED <<session, cache, queued, pc, copy, current, newClients, listed, toSpawn>>
      /\ lag'.session = lag.session
      /\ (pods' = pods /\ lag' = lag) \/ lag'.pods = "event"
  BY AsideIs
<1>2. Undisturbed' => Undisturbed /\ pods' = pods
  BY <1>1 DEF Undisturbed
<1>3. EventsInv => EventsInv'
  BY <1>1, <1>2 DEF EventsInv, Existing
<1>4. RestoredInv => RestoredInv'
  BY <1>1, <1>2, <1>3 DEF RestoredInv, Connected, Existing
<1>5. /\ HistoryInv => HistoryInv'
      /\ EntriesInv => EntriesInv'
      /\ StatusInv => StatusInv'
  BY <1>1 DEF HistoryInv, Passed, SeenAs, EntriesInv, PodOfEach, StatusInv, Shows, SameEntries
<1>6. SkippedInv => SkippedInv'
  BY <1>1, <1>2 DEF SkippedInv, NotAhead, DroppedSince, SeenAs
<1>7. RestInv => RestInv'
  BY <1>1, <1>2 DEF RestInv, Shows, Existing, AllocatedPods
<1> QED
  BY <1>3, <1>4, <1>5, <1>6, <1>7 DEF SettledInv

(* AtomicSession sees a pod go, or nothing.                                *)
LEMMA AsideShows ==
  ASSUME TypeOK, Aside
  PROVE  [Atomic!Next]_(Atomic!vars)
<1>1. UNCHANGED <<session, recorded, clock>>
  BY AsideIs
<1>2. CASE Existing(pods') = Existing(pods)
  BY <1>1, <1>2, Stutters DEF SameEntries
<1>3. ASSUME NEW p \in AllPods, Existing(pods') = Existing(pods) \ {p}
      PROVE  [Atomic!Next]_(Atomic!vars)
  <2>1. CASE p \in PodIds
    <3>1. PodIds \cap Existing(pods)' = (PodIds \cap Existing(pods)) \ {p}
      BY <1>3 DEF Existing
    <3>2. Atomic!Remove(p)
      BY <1>1, <3>1 DEF Atomic!Remove
    <3> QED
      BY <2>1, <3>2 DEF Atomic!Next
  <2>2. CASE p \notin PodIds
    <3>1. PodIds \cap Existing(pods') = PodIds \cap Existing(pods)
      BY <1>3, <2>2
    <3> QED
      BY <1>1, <3>1, Stutters DEF SameEntries
  <2> QED
    BY <2>1, <2>2
<1> QED
  BY <1>2, <1>3, AsideIs

---------------------------------------------------------------------------
(* The two together.                                                       *)

Together == TypeOK /\ IInv /\ GCParts /\ Agree

(* The initial states are initial states of both.                          *)
LEMMA InitTogether == BothInit => Together
<1> SUFFICES ASSUME BothInit PROVE Together
  OBVIOUS
<1>1. TypeOK /\ IInv
  BY InitType, InitInv DEF BothInit
<1>2. GCP!Init
  BY SameOperators DEF BothInit, GC!Init, GCP!Init
<1>3. GCParts
  BY <1>2, CollectorConstants, GCP!InitKeeps, GCP!Parts DEF GCParts
<1>4. Agree
  BY <1>2, SameOperators, CollectorConstants, GCP!Constants
     DEF Agree, BothInit, Init, GCP!Init
<1> QED
  BY <1>1, <1>3, <1>4 DEF Together

(* Every step keeps the invariants of both.                                *)
LEMMA NextTogether ==
  ASSUME Together, [BothNext]_allVars
  PROVE  Together'
<1> USE DEF Together
<1>1. TypeOK' /\ IInv'
  BY StepOf, NextType, NextInv, AsideTyped, AsideKeeps
<1>2. CASE SessionStep \/ Collect \/ CollectorSync \/ Time
  BY <1>1, <1>2, SessionStepKeeps, CollectKeeps, CollectorSyncKeeps, TimeKeeps
<1>3. CASE SessionSync \/ Users \/ UNCHANGED allVars
  <2>1. UNCHANGED <<regs, gcVars>>
    BY <1>3 DEF SessionSync, Sync, SyncSession, SyncPods, SyncRegistrations, Restart, Users,
                DeleteSession, EditClient, Churn, allVars, vars, store
  <2> QED
    BY <1>1, <2>1, CollectorWaits
<1> QED
  BY <1>1, <1>2, <1>3 DEF BothNext

(* What is true of each of the two alone is true of the two together: the  *)
(* session controller's copies and caches, and every version of a          *)
(* registration that the collector has.                                    *)
THEOREM TogetherInductive ==
  BothSpec => [](TypeOK /\ IInv /\ GC!TypeOK /\ GC!GCInv /\ regs = GC!Registered(gcRegs))
<1>1. Together => TypeOK /\ IInv /\ GC!TypeOK /\ GC!GCInv /\ regs = GC!Registered(gcRegs)
  BY SameInvariants DEF Together, Agree
<1>2. Together /\ [BothNext]_allVars => Together'
  BY NextTogether
<1> QED
  BY <1>1, <1>2, InitTogether, PTL DEF BothSpec

(* The collector gets what it needs with the session controller for an     *)
(* environment (CreateGCRegistration, DeleteGCRegistration): what it holds *)
(* is known to be old or is stored, and no registration is forgotten.      *)
THEOREM CollectorInvHolds == BothSpec => []CollectorInv
<1>1. GC!GCInv /\ regs = GC!Registered(gcRegs) => CollectorInv
  BY DEF CollectorInv, GC!GCInv
<1> QED
  BY <1>1, TogetherInductive, PTL

(* Nor does the session controller make the collector delete too early: the*)
(* pods of registrations that have not outlived both timeouts stay, however*)
(* often they are registered anew (handleExpiredRegistration).             *)
THEOREM TogetherPatient == BothSpec => GC!Patient
<1> DEFINE Kept == \A p \in Existing(pods) \ Existing(pods)' :
       churn' = churn =>
          GC!Outlived(p, IF gcListed[p].current THEN gcRegs[p] ELSE gcListed[p])
<1>1. ASSUME Together, [BothNext]_allVars
      PROVE  Kept
  <2> SUFFICES ASSUME NEW p \in Existing(pods) \ Existing(pods')
               PROVE  GC!Outlived(p, IF gcListed[p].current THEN gcRegs[p] ELSE gcListed[p])
    BY DEF Existing
  <2>0. p \in AllPods
    BY DEF Existing
  <2>1. CASE SessionStep
    BY <1>1, <2>1, ReconcileIsQuiet DEF Together, SessionStep, Quiet
  <2>2. CASE SessionSync \/ Users \/ Time \/ UNCHANGED allVars
    BY <2>2 DEF SessionSync, Sync, SyncSession, SyncPods, SyncRegistrations, Restart, Users,
                DeleteSession, EditClient, Churn, Time, allVars, vars, store
  <2>3. CASE CollectorSync
    <3>1. UNCHANGED Existing(pods)
      BY <2>3, SameSteps
         DEF CollectorSync, GCP!Sync, GCP!SyncPods, GCP!SyncSessions, GCP!SyncRegistration,
             GCP!Restart, GCP!TimerFires, GCP!store
    <3> QED
      BY <3>1
  <2>4. CASE Collect
    <3>1. GCP!Reconcile
      BY <2>4, SameSteps DEF Collect
    <3>2. GCP!DeletePod(p)
      BY <3>1 DEF GCP!Reconcile, GCP!ReadFails, GCP!Finish, GCP!Begin, GCP!KeepRegistration,
                  GCP!DeleteOrphan, GCP!DeletePod, GCP!DeleteExpired, GCP!MarkReusable,
                  GCP!store, GCP!informers, GCP!reading
    <3>3. GCP!Outlived(p, IF gcListed[p].current THEN gcRegs[p] ELSE gcListed[p])
      BY <1>1, <2>0, <3>2, CollectorConstants, GCP!DeletesOutlived DEF Together, GCParts
    <3> QED
      BY <3>3 DEF GC!Outlived, GCP!Outlived, GC!Timeouts, GCP!Timeouts
  <2> QED
    BY <1>1, <2>1, <2>2, <2>3, <2>4 DEF BothNext
<1>2. Together /\ [BothNext]_allVars => [Kept]_(GC!vars)
  BY <1>1
<1>3. Together /\ [BothNext]_allVars => Together'
  BY NextTogether
<1> QED
  BY <1>2, <1>3, InitTogether, PTL DEF BothSpec, GC!Patient

(* While the collector deletes idle pods, a client that is connected, or   *)
(* whose grace period has not ended, keeps its pods in the status, and no  *)
(* pod is spawned that a stored status has not named.                      *)
THEOREM TogetherKeepsPods == BothSpec => KeepsPods /\ []PodsRecorded
<1>1. Together /\ [BothNext]_allVars =>
        [\A c \in Clients :
           Protected(c) => session'.status.alloc[c] = session.status.alloc[c]]_vars
  BY StepOf, StepKeepsPods, AsideIs DEF Together
<1>2. Together /\ [BothNext]_allVars => Together'
  BY NextTogether
<1>3. Together => PodsRecorded
  BY DEF Together, IInv
<1> QED
  BY <1>1, <1>2, <1>3, InitTogether, PTL DEF BothSpec, KeepsPods

(* When the controller rests and a client is connected, every session pod  *)
(* exists, whatever the collector has deleted on the way.                  *)
THEOREM TogetherSettledSessionPods == BothSpec => []SettledSessionPods
<1>1. Together /\ RestoredInv /\ [BothNext]_allVars => Together' /\ RestoredInv'
  BY NextTogether, StepOf, NextRestored, AsideDisturbs DEF Together
<1>2. BothInit => Together /\ RestoredInv
  BY InitTogether, InitRestored DEF BothInit
<1>3. RestoredInv => SettledSessionPods
  BY DEF RestoredInv, SettledSessionPods, Quiescent, Undisturbed
<1> QED
  BY <1>1, <1>2, <1>3, PTL DEF BothSpec

(* When the controller rests, every connected client is recorded as such   *)
(* and has a pod of each template that exists, the collector having taken  *)
(* none of them (ReconcileClientPods, handleExpiredRegistration).          *)
THEOREM TogetherSettledStatus == OneWay /\ Templates # {} => (BothSpec => []SettledStatus)
<1> SUFFICES ASSUME OneWay, Templates # {} PROVE BothSpec => []SettledStatus
  OBVIOUS
<1>1. Together /\ SettledInv /\ [BothNext]_allVars => Together' /\ SettledInv'
  BY NextTogether, StepOf, NextSettled, AsideDisturbs DEF Together
<1>2. BothInit => Together /\ SettledInv
  BY InitTogether, InitSettled DEF BothInit
<1>3. SettledInv => SettledStatus
  BY SettledMeans
<1> QED
  BY <1>1, <1>2, <1>3, PTL DEF BothSpec

(* While the names of new pods are new, the two together implement         *)
(* AtomicSession: the collector's part is that pods go.                    *)
THEOREM TogetherAtomicReconcile == ~UuidCollides => (BothSpec => AtomicReconcile)
<1> SUFFICES ASSUME ~UuidCollides PROVE BothSpec => AtomicReconcile
  OBVIOUS
<1>1. Together /\ CapacityInv /\ ComputedInv /\ [BothNext]_allVars =>
        /\ Together' /\ CapacityInv' /\ ComputedInv'
        /\ [Atomic!Next]_(Atomic!vars)
  BY NextTogether, StepOf, NextCapacity, NextComputed, NextShows, AsideComputed, AsideShows
     DEF Together
<1>2. BothInit => Together /\ CapacityInv /\ ComputedInv /\ Atomic!Init
  BY InitTogether, InitCapacity, InitComputed, InitShows DEF BothInit
<1> QED
  BY <1>1, <1>2, PTL DEF BothSpec, AtomicReconcile, Atomic!Spec

=============================================================================
