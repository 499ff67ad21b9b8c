---------------------------- MODULE GCController ----------------------------
(***************************************************************************)
(* The garbage collection controller (controllers/gc/internal/controller): *)
(* it deletes the pods whose registrations have outlived their session's   *)
(* timeouts, and the registrations that nothing needs any more.  Everybody *)
(* else (session controllers, sessions, kubelets) is its environment.      *)
(*                                                                         *)
(* Reconcile handles every registration, whatever key it is called for,    *)
(* and there is one worker: one call at a time.  A step of it is the code  *)
(* up to and including the next write.                                     *)
(*                                                                         *)
(* A registration carries its age, the time since its creationTimestamp,   *)
(* which stops growing when no timeout can tell it from an older one, and  *)
(* whether it is the stored version: all but the stored one may be behind. *)
(***************************************************************************)
EXTENDS Integers

CONSTANTS
  PodIds, Sessions,
  SessionOf,                                \* the session a pod was made for
  TimeoutSeconds, ReutilizeTimeoutSeconds,  \* of each session
  NoPod,
  ChurnKinds, FaultKinds,  \* kinds of outside events and of faults that happen
  MaxChurn, MaxFaults      \* bounds on how often they do

ASSUME GCConstantsAssumption ==
  /\ SessionOf \in [PodIds -> Sessions]
  /\ TimeoutSeconds \in [Sessions -> Nat]
  /\ ReutilizeTimeoutSeconds \in [Sessions -> Nat]
  /\ NoPod \notin PodIds
  /\ MaxChurn \in Nat /\ MaxFaults \in Nat

VARIABLES
  sessions, pods,  \* the stored sessions and pods: those that exist
  regs,            \* the stored registration of each pod name
  cachedSessions, cachedPods, cachedRegs,  \* what the informers have seen
  queue,           \* keys in the work queue
  waiting,         \* keys that RequeueAfter has put off
  key,             \* the key that Reconcile handles
  listed,          \* the registrations that it has listed and not handled
  deleting,        \* the pod it has deleted, whose registration is to follow
  churn, faults    \* how many outside events and faults there were

store == <<sessions, pods, regs>>
informers == <<cachedSessions, cachedPods, cachedRegs>>
reading == <<key, listed, deleting>>
vars == <<store, informers, queue, waiting, reading, churn, faults>>

RegistrationTypes == {"Timeout", "ReutilizeTimeout"}

Timeouts(p) == TimeoutSeconds[SessionOf[p]] + ReutilizeTimeoutSeconds[SessionOf[p]]

Unregistered == [type |-> "none", age |-> 0, current |-> TRUE]
NewRegistration == [type |-> "Timeout", age |-> 0, current |-> TRUE]
NothingListed == [p \in PodIds |-> Unregistered]
Registered(copies) == {p \in PodIds : copies[p].type # "none"}

Registration ==
  [type : RegistrationTypes \cup {"none"}, age : Nat, current : BOOLEAN]

(* What the store or a copy of it may hold under each name.                *)
Copies == {copies \in [PodIds -> Registration] :
             \A p \in PodIds : copies[p].age <= Timeouts(p) + 1}

Init ==
  /\ sessions = Sessions /\ pods \in SUBSET PodIds /\ regs = NothingListed
  /\ cachedSessions = sessions /\ cachedPods = pods /\ cachedRegs = regs
  /\ queue = {} /\ waiting = {}
  /\ key = NoPod /\ listed = NothingListed /\ deleting = NoPod
  /\ churn = 0 /\ faults = 0

Fault(kind) ==
  /\ kind \in FaultKinds /\ faults < MaxFaults
  /\ faults' = faults + 1

NoFault == UNCHANGED faults

Outdate(copies, p) == [copies EXCEPT ![p].current = FALSE]

(* The API server stores r, or nothing, under p's name.                    *)
Put(p, r) ==
  /\ regs' = [regs EXCEPT ![p] = r]
  /\ cachedRegs' = IF regs[p] = r THEN cachedRegs ELSE Outdate(cachedRegs, p)

---------------------------------------------------------------------------
(* Reconcile *)

Begin(k) ==
  /\ key = NoPod /\ k \in queue
  /\ key' = k /\ queue' = queue \ {k}
  /\ listed' = cachedRegs
  /\ UNCHANGED <<store, informers, waiting, deleting, churn, faults>>

(* Reconcile returns an error: the key is queued again.                    *)
Abort ==
  /\ key' = NoPod /\ queue' = queue \cup {key}
  /\ listed' = NothingListed /\ deleting' = NoPod
  /\ UNCHANGED waiting

(* List or Get fails.                                                      *)
ReadFails ==
  /\ key # NoPod /\ deleting = NoPod /\ Fault("error")
  /\ Abort
  /\ UNCHANGED <<store, informers, churn>>

Handling(p) == key # NoPod /\ deleting = NoPod /\ p \in Registered(listed)

Handled(p) == listed' = [listed EXCEPT ![p] = Unregistered]

(* The session or the pod is gone, as far as the caches show.              *)
Orphaned(p) == SessionOf[p] \notin cachedSessions \/ p \notin cachedPods

(* Mutant: the second timeout is not waited for.                           *)
MutantRegistrationHasExpired(r, s) == r.age > TimeoutSeconds[s]

registrationHasExpired(r, s) ==
  r.age > TimeoutSeconds[s] + (IF r.type = "Timeout" THEN 0 ELSE ReutilizeTimeoutSeconds[s])

InLastTimeout(r, s) ==
  r.type = "ReutilizeTimeout" \/ (r.type = "Timeout" /\ ReutilizeTimeoutSeconds[s] = 0)

Due(p) == ~Orphaned(p) /\ registrationHasExpired(listed[p], SessionOf[p])

KeepRegistration(p) ==
  /\ Handling(p) /\ ~Orphaned(p) /\ ~Due(p)
  /\ Handled(p)
  /\ UNCHANGED <<store, informers, queue, waiting, key, deleting, churn, faults>>

(* Delete of a registration, by its name; NotFound is a success.           *)
DeleteRegistration(p, answered) ==
  \/ answered /\ Put(p, Unregistered) /\ NoFault
  \/ ~answered /\ UNCHANGED <<regs, cachedRegs>> /\ Fault("error")
  \/ ~answered /\ Put(p, Unregistered) /\ Fault("lost")

DeleteOrphan(p) ==
  /\ Handling(p) /\ Orphaned(p)
  /\ \/ DeleteRegistration(p, TRUE) /\ Handled(p)
        /\ UNCHANGED <<queue, waiting, key, deleting>>
     \/ DeleteRegistration(p, FALSE) /\ Abort
  /\ UNCHANGED <<sessions, pods, cachedSessions, cachedPods, churn>>

(* handleExpiredRegistration: the pod is deleted by its name; the stored   *)
(* registration is not looked at again.                                    *)
DeletePod(p) ==
  /\ Handling(p) /\ Due(p) /\ InLastTimeout(listed[p], SessionOf[p])
  /\ \/ /\ pods' = pods \ {p} /\ NoFault
        /\ deleting' = p /\ Handled(p)
        /\ UNCHANGED <<queue, waiting, key>>
     \/ UNCHANGED pods /\ Fault("error") /\ Abort
     \/ pods' = pods \ {p} /\ Fault("lost") /\ Abort
  /\ UNCHANGED <<sessions, regs, informers, churn>>

DeleteExpired(p) ==
  /\ deleting = p
  /\ \/ DeleteRegistration(p, TRUE) /\ deleting' = NoPod
        /\ UNCHANGED <<queue, waiting, key, listed>>
     \/ DeleteRegistration(p, FALSE) /\ Abort
  /\ UNCHANGED <<sessions, pods, cachedSessions, cachedPods, churn>>

Marked(p) == [listed[p] EXCEPT !.type = "ReutilizeTimeout"]

(* Mutant: the copy is stored whatever has happened to the registration.   *)
MutantMarkReusable(p) ==
  /\ Handling(p) /\ Due(p) /\ ~InLastTimeout(listed[p], SessionOf[p])
  /\ Put(p, [regs[p] EXCEPT !.type = "ReutilizeTimeout"]) /\ NoFault /\ Handled(p)
  /\ UNCHANGED <<sessions, pods, cachedSessions, cachedPods, queue, waiting, key,
                 deleting, churn>>

(* Update of the listed copy: NotFound is a success, a newer version is a  *)
(* Conflict.                                                               *)
MarkReusable(p) ==
  /\ Handling(p) /\ Due(p) /\ ~InLastTimeout(listed[p], SessionOf[p])
  /\ \/ listed[p].current /\ Put(p, Marked(p)) /\ NoFault /\ Handled(p)
        /\ UNCHANGED <<queue, waiting, key, deleting>>
     \/ listed[p].current /\ Put(p, Marked(p)) /\ Fault("lost") /\ Abort
     \/ regs[p].type = "none" /\ UNCHANGED <<regs, cachedRegs>> /\ NoFault /\ Handled(p)
        /\ UNCHANGED <<queue, waiting, key, deleting>>
     \/ ~listed[p].current /\ regs[p].type # "none"
        /\ UNCHANGED <<regs, cachedRegs>> /\ NoFault /\ Abort
     \/ UNCHANGED <<regs, cachedRegs>> /\ Fault("error") /\ Abort
  /\ UNCHANGED <<sessions, pods, cachedSessions, cachedPods, churn>>

(* Mutant: Reconcile returns without RequeueAfter.                         *)
MutantFinish ==
  /\ key # NoPod /\ deleting = NoPod /\ Registered(listed) = {}
  /\ key' = NoPod
  /\ UNCHANGED <<store, informers, queue, waiting, listed, deleting, churn, faults>>

(* Mutant: the call ends when a pod is deleted, its registration is not.   *)
MutantReturnEarly ==
  /\ key # NoPod /\ Registered(listed) = {}
  /\ key' = NoPod /\ waiting' = waiting \cup {key}
  /\ UNCHANGED <<store, informers, queue, listed, deleting, churn, faults>>

(* The key comes back after requeueAfterSec, whether its registration is   *)
(* still there or not.                                                     *)
Finish ==
  /\ key # NoPod /\ deleting = NoPod /\ Registered(listed) = {}
  /\ key' = NoPod /\ waiting' = waiting \cup {key}
  /\ UNCHANGED <<store, informers, queue, listed, deleting, churn, faults>>

---------------------------------------------------------------------------
(* The work queue and the informers: every change of a registration is an  *)
(* event; nothing else is watched.                                         *)

TimerFires(k) ==
  /\ k \in waiting
  /\ waiting' = waiting \ {k} /\ queue' = queue \cup {k}
  /\ UNCHANGED <<store, informers, reading, churn, faults>>

SyncRegistration(p) ==
  /\ ~cachedRegs[p].current
  /\ cachedRegs' = [cachedRegs EXCEPT ![p] = regs[p]]
  /\ queue' = queue \cup {p}
  /\ UNCHANGED <<store, cachedSessions, cachedPods, waiting, reading, churn, faults>>

SyncPods ==
  /\ cachedPods # pods
  /\ cachedPods' = pods
  /\ UNCHANGED <<store, cachedSessions, cachedRegs, queue, waiting, reading, churn, faults>>

SyncSessions ==
  /\ cachedSessions # sessions
  /\ cachedSessions' = sessions
  /\ UNCHANGED <<store, cachedPods, cachedRegs, queue, waiting, reading, churn, faults>>

(* The manager is restarted: its queue and timers are lost, the caches are *)
(* filled anew and every registration is an event.                         *)
Restart ==
  /\ Fault("restart")
  /\ cachedSessions' = sessions /\ cachedPods' = pods /\ cachedRegs' = regs
  /\ queue' = Registered(regs) /\ waiting' = {}
  /\ key' = NoPod /\ listed' = NothingListed /\ deleting' = NoPod
  /\ UNCHANGED <<store, churn>>

---------------------------------------------------------------------------
(* Everything outside the controller.                                      *)

Churn(kind) ==
  /\ kind \in ChurnKinds /\ churn < MaxChurn
  /\ churn' = churn + 1
  /\ UNCHANGED <<cachedSessions, cachedPods, queue, waiting, key, deleting, faults>>

(* Somebody else stores r under p's name: the listed copy is outdated too. *)
Overwrite(p, r) ==
  /\ Put(p, r)
  /\ listed' = IF p \in Registered(listed) THEN Outdate(listed, p) ELSE listed

(* The session controller registers an idle pod, and deletes the           *)
(* registration when the pod is used again.                                *)
Register(p) ==
  /\ Churn("register")
  /\ regs[p].type = "none"
  /\ Overwrite(p, NewRegistration)
  /\ UNCHANGED <<sessions, pods>>

Unregister(p) ==
  /\ Churn("unregister")
  /\ regs[p].type # "none"
  /\ Overwrite(p, Unregistered)
  /\ UNCHANGED <<sessions, pods>>

PodSpawned(p) ==
  /\ Churn("spawn")
  /\ p \notin pods /\ pods' = pods \cup {p}
  /\ UNCHANGED <<sessions, regs, cachedRegs, listed>>

PodLost(p) ==
  /\ Churn("lost")
  /\ p \in pods /\ pods' = pods \ {p}
  /\ UNCHANGED <<sessions, regs, cachedRegs, listed>>

SessionDeleted(s) ==
  /\ Churn("session")
  /\ s \in sessions /\ sessions' = sessions \ {s}
  /\ UNCHANGED <<pods, regs, cachedRegs, listed>>

Older(p, r) ==
  [r EXCEPT !.age = IF r.type = "none" \/ @ > Timeouts(p) THEN @ ELSE @ + 1]

Aged(copies) == [p \in PodIds |-> Older(p, copies[p])]

Tick ==
  /\ regs' = Aged(regs) /\ cachedRegs' = Aged(cachedRegs) /\ listed' = Aged(listed)
  /\ UNCHANGED <<sessions, pods, cachedSessions, cachedPods, queue, waiting, key,
                 deleting, churn, faults>>

---------------------------------------------------------------------------

Reconcile ==
  \/ ReadFails \/ Finish
  \/ \E p \in PodIds :
        \/ Begin(p) \/ KeepRegistration(p) \/ DeleteOrphan(p)
        \/ DeletePod(p) \/ DeleteExpired(p) \/ MarkReusable(p)

Sync == SyncPods \/ SyncSessions \/ \E p \in PodIds : SyncRegistration(p)

Environment ==
  \/ Restart \/ Tick
  \/ \E p \in PodIds : Register(p) \/ Unregister(p) \/ PodSpawned(p) \/ PodLost(p)
  \/ \E s \in Sessions : SessionDeleted(s)

Next == Reconcile \/ Sync \/ Environment \/ \E k \in PodIds : TimerFires(k)

Spec == Init /\ [][Next]_vars

(* The worker takes what is queued, timers fire, watches deliver and time  *)
(* passes.                                                                 *)
FairSpec ==
  /\ Spec
  /\ WF_vars(Reconcile) /\ WF_vars(SyncPods) /\ WF_vars(SyncSessions) /\ WF_vars(Tick)
  /\ \A p \in PodIds : WF_vars(SyncRegistration(p)) /\ WF_vars(TimerFires(p))

---------------------------------------------------------------------------
(* Properties *)

TypeOK ==
  /\ sessions \subseteq Sessions /\ cachedSessions \subseteq Sessions
  /\ pods \subseteq PodIds /\ cachedPods \subseteq PodIds
  /\ regs \in Copies /\ cachedRegs \in Copies /\ listed \in Copies
  /\ queue \subseteq PodIds /\ waiting \subseteq PodIds
  /\ key \in PodIds \cup {NoPod} /\ deleting \in PodIds \cup {NoPod}
  /\ deleting # NoPod => key # NoPod
  /\ churn \in 0..MaxChurn /\ faults \in 0..MaxFaults

(* No registration that the controller has seen is left without a key that *)
(* is queued, waiting for its timer or being handled: it is looked at      *)
(* again whatever failed, and although a call handles other registrations  *)
(* than the one it was made for.                                           *)
Attended ==
  Registered(cachedRegs) \subseteq queue \cup waiting \cup {key}

(* Only a registration that has outlived its first timeout is ever marked  *)
(* for the second, in the store as in every copy: the mark of an expired   *)
(* registration never reaches one that was made anew under its name.       *)
MarkedLate ==
  \A copies \in {regs, cachedRegs, listed} : \A p \in PodIds :
     copies[p].type = "ReutilizeTimeout" => copies[p].age > TimeoutSeconds[SessionOf[p]]

(* The controller deletes a pod only through a registration that has       *)
(* outlived both timeouts and, where there is a second one, was marked for *)
(* it: also the stored one, unless somebody has replaced it meanwhile.     *)
Outlived(p, r) ==
  /\ r.age > Timeouts(p)
  /\ ReutilizeTimeoutSeconds[SessionOf[p]] > 0 => r.type = "ReutilizeTimeout"

Patient ==
  [][\A p \in pods \ pods' :
       churn' = churn => Outlived(p, IF listed[p].current THEN regs[p] ELSE listed[p])]_vars

(* No registration stays for ever: it outlives both timeouts, or its pod   *)
(* or session goes, and then it is deleted, through failing calls,         *)
(* restarts and conflicts.                                                 *)
RegistrationsEnd == \A p \in PodIds : []<>(regs[p].type = "none")

---------------------------------------------------------------------------
(* Why the safety properties hold: a copy that is current is the stored    *)
(* registration, of the same age, and what is being deleted is not listed. *)
CopiesInv ==
  /\ deleting \notin Registered(listed)
  /\ \A p \in PodIds :
        /\ regs[p].current
        /\ cachedRegs[p].current => cachedRegs[p] = regs[p]
        /\ p \in Registered(listed) /\ listed[p].current => listed[p] = regs[p]

GCInv == CopiesInv /\ MarkedLate /\ Attended
=============================================================================
