---------------------------- MODULE Telepresence ----------------------------
(***************************************************************************)
(* The session controller and the garbage collector on one Session.  They  *)
(* share the pods and the registrations, each through caches of its own:   *)
(* the one registers pods that are idle and unregisters those that are used*)
(* again, the other deletes pods and registrations, and each overtakes the *)
(* other.  Every step is a step of SessionController or of GCController,   *)
(* and what either says of its environment is what the other does.         *)
(***************************************************************************)
EXTENDS SessionController

CONSTANTS ReutilizeTimeoutSeconds, NoPod

ASSUME CollectorAssumption ==
  ReutilizeTimeoutSeconds \in Nat /\ NoPod \notin AllPods

VARIABLES
  gcRegs,   \* the stored registrations as the collector sees them; regs are their names
  gcSessions, gcPods, gcCachedRegs,  \* what its informers have seen
  gcQueue, gcWaiting, gcKey, gcListed, gcDeleting

gcInformers == <<gcSessions, gcPods, gcCachedRegs>>
gcReading == <<gcQueue, gcWaiting, gcKey, gcListed, gcDeleting>>
gcVars == <<gcRegs, gcInformers, gcReading>>
allVars == <<vars, gcVars>>

TheSession == "session"

GC == INSTANCE GCController WITH
  PodIds <- AllPods, Sessions <- {TheSession},
  SessionOf <- [p \in AllPods |-> TheSession],
  TimeoutSeconds <- [s \in {TheSession} |-> TimeoutSeconds],
  ReutilizeTimeoutSeconds <- [s \in {TheSession} |-> ReutilizeTimeoutSeconds],
  sessions <- IF session.live THEN {TheSession} ELSE {}, pods <- Existing(pods),
  regs <- gcRegs,
  cachedSessions <- gcSessions, cachedPods <- gcPods, cachedRegs <- gcCachedRegs,
  queue <- gcQueue, waiting <- gcWaiting, key <- gcKey, listed <- gcListed,
  deleting <- gcDeleting

BothInit == Init /\ GC!Init

(* A registration that the session controller creates or deletes is a new  *)
(* version for the collector.                                              *)
RegistrationsWritten ==
  \/ regs' = regs /\ UNCHANGED <<gcRegs, gcCachedRegs, gcListed>>
  \/ \E p \in regs' \ regs : GC!Overwrite(p, GC!NewRegistration)
  \/ \E p \in regs \ regs' : GC!Overwrite(p, GC!Unregistered)

SessionStep ==
  /\ Reconcile
  /\ RegistrationsWritten
  /\ UNCHANGED <<gcSessions, gcPods, gcQueue, gcWaiting, gcKey, gcDeleting>>

SessionSync == (Sync \/ Restart) /\ UNCHANGED gcVars

(* The session manager's part.                                             *)
Users ==
  /\ DeleteSession \/ \E c \in Clients, v \in ClientStates : EditClient(c, v)
  /\ UNCHANGED gcVars

(* What a step of the collector leaves alone, and what it does to the pods.*)
CollectorWorld ==
  /\ UNCHANGED <<session, ip, clock, cache, queued, pc, reading, calls, recorded, edits, churn>>
  /\ \E removed \in {{}} \cup {{p} : p \in AllPods} :
        pods' = [p \in AllPods |-> IF p \in removed THEN "gone" ELSE pods[p]]
  /\ lag' = IF pods' = pods THEN lag ELSE [lag EXCEPT !.pods = "event"]

Collect ==
  /\ CollectorWorld /\ GC!Reconcile
  /\ regs' = GC!Registered(gcRegs')

CollectorSync ==
  /\ CollectorWorld
  /\ GC!Sync \/ GC!Restart \/ \E k \in AllPods : GC!TimerFires(k)
  /\ UNCHANGED regs

(* Time passes for both; the session controller's clock stops at MaxTime.  *)
Time ==
  /\ clock' = IF clock < MaxTime THEN clock + 1 ELSE clock
  /\ UNCHANGED <<store, informers, queued, pc, reading, calls, recorded, counters>>
  /\ GC!Tick

BothNext == SessionStep \/ SessionSync \/ Users \/ Collect \/ CollectorSync \/ Time

BothSpec == BothInit /\ [][BothNext]_allVars

(* Both work queues run, every watch delivers, but for that of the        *)
(* registrations which the session controller has, and time passes.        *)
BothFair ==
  /\ BothSpec
  /\ WF_allVars(SessionStep) /\ WF_allVars(Collect) /\ WF_allVars(Time)
  /\ WF_allVars(SyncSession /\ UNCHANGED gcVars)
  /\ WF_allVars(SyncPods /\ UNCHANGED gcVars)
  /\ WF_allVars(CollectorWorld /\ (GC!SyncPods \/ GC!SyncSessions) /\ UNCHANGED regs)
  /\ \A p \in AllPods :
        /\ WF_allVars(CollectorWorld /\ GC!SyncRegistration(p) /\ UNCHANGED regs)
        /\ WF_allVars(CollectorWorld /\ GC!TimerFires(p) /\ UNCHANGED regs)

---------------------------------------------------------------------------
(* Properties *)

(* The two components agree on what is stored, and the collector gets what*)
(* it needs with the session controller for an environment: each version of*)
(* a registration that it holds is known to be old or is the stored one,   *)
(* and every registration that it has seen is looked at again.             *)
CollectorInv == regs = GC!Registered(gcRegs) /\ GC!CopiesInv /\ GC!Attended

(* When nobody is connected any more, every client pod ends.               *)
IdlePodsEnd ==
  <>[](session.live /\ ~Connected(session)) => <>[](PodIds \cap Existing(pods) = {})
=============================================================================
