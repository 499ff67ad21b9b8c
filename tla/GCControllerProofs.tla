------------------------- MODULE GCControllerProofs -------------------------
(***************************************************************************)
(* Theorems about GCController, for every value of its constants.          *)
(***************************************************************************)
EXTENDS GCController, TLAPS

(* A store or copy whose marked registrations have outlived the timeout.   *)
WellMarked(copies) ==
  /\ copies \in Copies
  /\ \A p \in PodIds :
        copies[p].type = "ReutilizeTimeout" => copies[p].age > TimeoutSeconds[SessionOf[p]]

(* TypeOK and GCInv, by what a step touches.                               *)
StoreInv ==
  /\ sessions \subseteq Sessions /\ cachedSessions \subseteq Sessions
  /\ pods \subseteq PodIds /\ cachedPods \subseteq PodIds
  /\ WellMarked(regs) /\ WellMarked(cachedRegs)
  /\ \A p \in PodIds :
        regs[p].current /\ (cachedRegs[p].current => cachedRegs[p] = regs[p])

ListInv ==
  /\ WellMarked(listed) /\ deleting \notin Registered(listed)
  /\ \A p \in Registered(listed) : listed[p].current => listed[p] = regs[p]

QueueInv ==
  /\ queue \subseteq PodIds /\ waiting \subseteq PodIds
  /\ key \in PodIds \cup {NoPod} /\ deleting \in PodIds \cup {NoPod}
  /\ deleting # NoPod => key # NoPod
  /\ Attended

CountInv == churn \in 0..MaxChurn /\ faults \in 0..MaxFaults

(* The parts are TypeOK and GCInv.                                         *)
LEMMA Parts ==
  /\ TypeOK /\ GCInv <=> StoreInv /\ ListInv /\ QueueInv /\ CountInv
  /\ (TypeOK /\ GCInv)' <=> (StoreInv /\ ListInv /\ QueueInv /\ CountInv)'
BY DEF TypeOK, GCInv, CopiesInv, MarkedLate, StoreInv, ListInv, QueueInv, CountInv,
       WellMarked, Registered

(* Timeouts are natural numbers.                                           *)
LEMMA TimeoutsAreNat ==
  ASSUME NEW p \in PodIds
  PROVE  /\ SessionOf[p] \in Sessions
         /\ TimeoutSeconds[SessionOf[p]] \in Nat
         /\ ReutilizeTimeoutSeconds[SessionOf[p]] \in Nat
         /\ Timeouts(p) \in Nat /\ Timeouts(p) >= TimeoutSeconds[SessionOf[p]]
BY GCConstantsAssumption DEF Timeouts

(* An entry of a well marked copy is a registration, and may be replaced.  *)
LEMMA Entries ==
  ASSUME NEW copies, WellMarked(copies), NEW p \in PodIds
  PROVE  /\ copies[p] \in Registration /\ copies[p].age \in Nat
         /\ copies[p].age <= Timeouts(p) + 1
         /\ \A r \in Registration :
              (/\ r.age <= Timeouts(p) + 1
               /\ r.type = "ReutilizeTimeout" => r.age > TimeoutSeconds[SessionOf[p]])
              => WellMarked([copies EXCEPT ![p] = r])
<1>1. copies \in [PodIds -> Registration] /\ \A q \in PodIds : copies[q].age <= Timeouts(q) + 1
  BY DEF WellMarked, Copies
<1>2. copies[p] \in Registration /\ copies[p].age \in Nat
  BY <1>1 DEF Registration
<1>3. ASSUME NEW r \in Registration, r.age <= Timeouts(p) + 1,
             r.type = "ReutilizeTimeout" => r.age > TimeoutSeconds[SessionOf[p]]
      PROVE  WellMarked([copies EXCEPT ![p] = r])
  BY <1>1, <1>3 DEF WellMarked, Copies
<1> QED
  BY <1>1, <1>2, <1>3

(* Outdating an entry leaves it as it is otherwise.                        *)
LEMMA Outdated ==
  ASSUME NEW copies, WellMarked(copies), NEW p \in PodIds
  PROVE  /\ WellMarked(Outdate(copies, p))
         /\ Registered(Outdate(copies, p)) = Registered(copies)
         /\ ~Outdate(copies, p)[p].current
         /\ \A q \in PodIds \ {p} : Outdate(copies, p)[q] = copies[q]
<1> DEFINE r == [copies[p] EXCEPT !.current = FALSE]
           outdated == Outdate(copies, p)
<1>1. copies \in [PodIds -> Registration] /\ copies[p] \in Registration
  BY Entries DEF WellMarked, Copies
<1>2. /\ r \in Registration /\ r.age = copies[p].age /\ r.type = copies[p].type
      /\ ~r.current
  BY <1>1 DEF Registration
<1>3. outdated = [copies EXCEPT ![p] = r]
  BY DEF Outdate
<1>4. WellMarked([copies EXCEPT ![p] = r])
  <2> HIDE DEF r, outdated
  <2> QED
    BY <1>2, Entries DEF WellMarked
<1>5. outdated[p] = r /\ \A q \in PodIds \ {p} : outdated[q] = copies[q]
  BY <1>1, <1>3
<1>6. Registered(outdated) = Registered(copies)
  <2> HIDE DEF r, outdated
  <2> QED
    BY <1>2, <1>5 DEF Registered
<1> QED
  BY <1>2, <1>3, <1>4, <1>5, <1>6

(* The constant entries.                                                   *)
LEMMA Constants ==
  /\ Unregistered \in Registration /\ NewRegistration \in Registration
  /\ Unregistered.type = "none" /\ NewRegistration.type = "Timeout"
  /\ Unregistered.age = 0 /\ NewRegistration.age = 0
  /\ Unregistered.current /\ NewRegistration.current
  /\ WellMarked(NothingListed) /\ Registered(NothingListed) = {}
<1>1. /\ Unregistered \in Registration /\ NewRegistration \in Registration
      /\ Unregistered.type = "none" /\ NewRegistration.type = "Timeout"
      /\ Unregistered.age = 0 /\ NewRegistration.age = 0
      /\ Unregistered.current /\ NewRegistration.current
  BY DEF Unregistered, NewRegistration, Registration, RegistrationTypes
<1>2. NothingListed \in Copies
  BY <1>1, TimeoutsAreNat DEF NothingListed, Copies
<1>3. WellMarked(NothingListed) /\ Registered(NothingListed) = {}
  BY <1>1, <1>2 DEF NothingListed, WellMarked, Registered
<1> QED
  BY <1>1, <1>3

(* What storing r under p's name does: the store and the cache stay well   *)
(* marked, and a copy in the cache that is current is the stored one.      *)
LEMMA PutKeeps ==
  ASSUME StoreInv, NEW p \in PodIds, NEW r \in Registration, r.current,
         r.age <= Timeouts(p) + 1,
         r.type = "ReutilizeTimeout" => r.age > TimeoutSeconds[SessionOf[p]],
         Put(p, r)
  PROVE  /\ WellMarked(regs') /\ WellMarked(cachedRegs')
         /\ \A q \in PodIds :
               regs'[q].current /\ (cachedRegs'[q].current => cachedRegs'[q] = regs'[q])
         /\ Registered(cachedRegs') = Registered(cachedRegs)
         /\ \A q \in PodIds \ {p} : regs'[q] = regs[q]
         /\ regs'[p] = r
<1>0. WellMarked(regs) /\ WellMarked(cachedRegs)
  BY DEF StoreInv
<1>1. regs' = [regs EXCEPT ![p] = r] /\ regs \in [PodIds -> Registration]
  BY <1>0 DEF Put, WellMarked, Copies
<1>2. WellMarked(regs') /\ regs'[p] = r /\ \A q \in PodIds \ {p} : regs'[q] = regs[q]
  BY <1>0, <1>1, Entries
<1>3. CASE regs[p] = r
  BY <1>0, <1>1, <1>2, <1>3 DEF Put, StoreInv
<1>4. CASE regs[p] # r
  <2>1. cachedRegs' = Outdate(cachedRegs, p)
    BY <1>4 DEF Put
  <2>2. /\ WellMarked(cachedRegs') /\ Registered(cachedRegs') = Registered(cachedRegs)
        /\ ~cachedRegs'[p].current
        /\ \A q \in PodIds \ {p} : cachedRegs'[q] = cachedRegs[q]
    BY <1>0, <2>1, Outdated
  <2>3. regs'[p].current /\ (cachedRegs'[p].current => cachedRegs'[p] = regs'[p])
    BY <1>2, <2>2
  <2>4. ASSUME NEW q \in PodIds \ {p}
        PROVE  regs'[q].current /\ (cachedRegs'[q].current => cachedRegs'[q] = regs'[q])
    <3>1. regs[q].current /\ (cachedRegs[q].current => cachedRegs[q] = regs[q])
      BY DEF StoreInv
    <3> QED
      BY <1>2, <2>2, <3>1
  <2> QED
    BY <1>2, <2>2, <2>3, <2>4
<1> QED
  BY <1>3, <1>4

(* Reconcile lets go of one listed registration, or of all.                *)
LEMMA HandledKeeps ==
  ASSUME ListInv, NEW p \in PodIds, Handled(p), deleting' \in {NoPod, p, deleting},
         \A q \in PodIds \ {p} : regs'[q] = regs[q]
  PROVE  ListInv'
<1>1. WellMarked(listed) /\ listed \in [PodIds -> Registration]
  BY DEF ListInv, WellMarked, Copies
<1>2. WellMarked(listed')
  <2>1. Unregistered.age <= Timeouts(p) + 1
    BY Constants, TimeoutsAreNat
  <2> QED
    BY <1>1, <2>1, Entries, Constants DEF Handled
<1>3. Registered(listed') \subseteq Registered(listed) \ {p}
  BY <1>1, Constants DEF Handled, Registered
<1>4. \A q \in PodIds \ {p} : listed'[q] = listed[q]
  BY <1>1 DEF Handled
<1>5. deleting' \notin Registered(listed')
  BY <1>3, GCConstantsAssumption DEF ListInv, Registered
<1> QED
  BY <1>2, <1>3, <1>4, <1>5 DEF ListInv, Registered

(* An error: the key is queued again.                                      *)
LEMMA AbortKeeps ==
  ASSUME QueueInv, key # NoPod, Abort, Registered(cachedRegs') = Registered(cachedRegs)
  PROVE  ListInv' /\ QueueInv'
<1>1. ListInv'
  BY Constants DEF Abort, ListInv
<1>2. QueueInv'
  BY DEF Abort, QueueInv, Attended
<1> QED
  BY <1>1, <1>2

(* A fault is one of the bounded number.                                   *)
LEMMA FaultKeeps ==
  ASSUME CountInv, churn' = churn,
         NoFault \/ \E kind \in {"error", "lost", "restart"} : Fault(kind)
  PROVE  CountInv'
BY GCConstantsAssumption DEF CountInv, NoFault, Fault

---------------------------------------------------------------------------
(* The steps of Reconcile.                                                 *)

(* The steps that read only.                                               *)
LEMMA ReadsKeep ==
  ASSUME StoreInv, ListInv, QueueInv, CountInv,
         ReadFails \/ Finish \/ \E p \in PodIds : Begin(p) \/ KeepRegistration(p)
  PROVE  StoreInv' /\ ListInv' /\ QueueInv' /\ CountInv'
<1> USE DEF store, informers
<1>1. CASE ReadFails
  <2>1. StoreInv' /\ CountInv'
    BY <1>1, FaultKeeps DEF ReadFails, StoreInv
  <2>2. Registered(cachedRegs') = Registered(cachedRegs)
    BY <1>1 DEF ReadFails
  <2> QED
    BY <1>1, <2>1, <2>2, AbortKeeps DEF ReadFails
<1>2. CASE Finish
  BY <1>2 DEF Finish, StoreInv, ListInv, QueueInv, CountInv, Attended
<1>3. ASSUME NEW p \in PodIds, Begin(p)
      PROVE  StoreInv' /\ ListInv' /\ QueueInv' /\ CountInv'
  <2>1. StoreInv' /\ CountInv'
    BY <1>3 DEF Begin, StoreInv, CountInv
  <2>2. /\ key = NoPod /\ deleting = NoPod /\ deleting' = NoPod
        /\ key' = p /\ p # NoPod /\ queue' = queue \ {p}
    BY <1>3, GCConstantsAssumption DEF Begin, QueueInv
  <2>3. ListInv'
    BY <1>3, <2>2, GCConstantsAssumption DEF Begin, StoreInv, ListInv, Registered
  <2>4. QueueInv'
    BY <1>3, <2>2, GCConstantsAssumption DEF Begin, QueueInv, Attended, Registered
  <2> QED
    BY <2>1, <2>3, <2>4
<1>4. ASSUME NEW p \in PodIds, KeepRegistration(p)
      PROVE  StoreInv' /\ ListInv' /\ QueueInv' /\ CountInv'
  <2>1. StoreInv' /\ QueueInv' /\ CountInv'
    BY <1>4 DEF KeepRegistration, StoreInv, QueueInv, CountInv, Attended
  <2>2. ListInv'
    <3>1. Handled(p) /\ deleting' = deleting /\ regs' = regs
      BY <1>4 DEF KeepRegistration
    <3> QED
      BY <3>1, HandledKeeps
  <2> QED
    BY <2>1, <2>2
<1> QED
  BY <1>1, <1>2, <1>3, <1>4

(* Storing r, while Reconcile goes on or gives up.                         *)
LEMMA PutStep ==
  ASSUME StoreInv, QueueInv, NEW p \in PodIds, NEW r \in Registration, r.current,
         r.age <= Timeouts(p) + 1,
         r.type = "ReutilizeTimeout" => r.age > TimeoutSeconds[SessionOf[p]],
         Put(p, r), UNCHANGED <<sessions, pods, cachedSessions, cachedPods>>
  PROVE  /\ StoreInv' /\ Registered(cachedRegs') = Registered(cachedRegs)
         /\ \A q \in PodIds \ {p} : regs'[q] = regs[q]
         /\ UNCHANGED <<queue, waiting, key>> /\ deleting' \in {NoPod, deleting} => QueueInv'
<1>1. /\ WellMarked(regs') /\ WellMarked(cachedRegs')
      /\ \A q \in PodIds :
            regs'[q].current /\ (cachedRegs'[q].current => cachedRegs'[q] = regs'[q])
      /\ Registered(cachedRegs') = Registered(cachedRegs)
      /\ \A q \in PodIds \ {p} : regs'[q] = regs[q]
  BY PutKeeps
<1>2. StoreInv'
  BY <1>1 DEF StoreInv
<1>3. UNCHANGED <<queue, waiting, key>> /\ deleting' \in {NoPod, deleting} => QueueInv'
  BY <1>1 DEF QueueInv, Attended
<1> QED
  BY <1>1, <1>2, <1>3

(* Deleting a registration does the same, answered or not.                 *)
LEMMA DeleteStep ==
  ASSUME StoreInv, QueueInv, CountInv, NEW p \in PodIds, NEW answered \in BOOLEAN,
         DeleteRegistration(p, answered),
         UNCHANGED <<sessions, pods, cachedSessions, cachedPods, churn>>
  PROVE  /\ StoreInv' /\ CountInv' /\ Registered(cachedRegs') = Registered(cachedRegs)
         /\ \A q \in PodIds \ {p} : regs'[q] = regs[q]
         /\ UNCHANGED <<queue, waiting, key>> /\ deleting' \in {NoPod, deleting} => QueueInv'
<1>1. CountInv'
  BY FaultKeeps DEF DeleteRegistration
<1>2. CASE Put(p, Unregistered)
  <2>1. Unregistered.age <= Timeouts(p) + 1
    BY Constants, TimeoutsAreNat
  <2> QED
    BY <1>1, <1>2, <2>1, PutStep, Constants
<1>3. CASE UNCHANGED <<regs, cachedRegs>>
  BY <1>1, <1>3 DEF StoreInv, QueueInv, Attended
<1> QED
  BY <1>2, <1>3 DEF DeleteRegistration

(* The registrations that nothing needs.                                   *)
LEMMA DeleteOrphanKeeps ==
  ASSUME StoreInv, ListInv, QueueInv, CountInv, NEW p \in PodIds, DeleteOrphan(p)
  PROVE  StoreInv' /\ ListInv' /\ QueueInv' /\ CountInv'
<1> USE DEF DeleteOrphan
<1>1. CASE DeleteRegistration(p, TRUE) /\ Handled(p) /\ UNCHANGED <<queue, waiting, key, deleting>>
  <2>1. /\ StoreInv' /\ CountInv' /\ QueueInv'
        /\ \A q \in PodIds \ {p} : regs'[q] = regs[q]
    BY <1>1, DeleteStep
  <2> QED
    BY <1>1, <2>1, HandledKeeps
<1>2. CASE DeleteRegistration(p, FALSE) /\ Abort
  <2>1. StoreInv' /\ CountInv' /\ Registered(cachedRegs') = Registered(cachedRegs)
    BY <1>2, DeleteStep
  <2>2. key # NoPod
    BY DEF Handling
  <2> QED
    BY <1>2, <2>1, <2>2, AbortKeeps
<1> QED
  BY <1>1, <1>2

(* The registration of a deleted pod.                                      *)
LEMMA DeleteExpiredKeeps ==
  ASSUME StoreInv, ListInv, QueueInv, CountInv, NEW p \in PodIds, DeleteExpired(p)
  PROVE  StoreInv' /\ ListInv' /\ QueueInv' /\ CountInv'
<1> USE DEF DeleteExpired
<1>1. CASE /\ DeleteRegistration(p, TRUE) /\ deleting' = NoPod
           /\ UNCHANGED <<queue, waiting, key, listed>>
  <2>1. /\ StoreInv' /\ CountInv' /\ QueueInv'
        /\ \A q \in PodIds \ {p} : regs'[q] = regs[q]
    BY <1>1, DeleteStep
  <2>2. ListInv'
    BY <1>1, <2>1, GCConstantsAssumption DEF ListInv, Registered
  <2> QED
    BY <2>1, <2>2
<1>2. CASE DeleteRegistration(p, FALSE) /\ Abort
  <2>1. StoreInv' /\ CountInv' /\ Registered(cachedRegs') = Registered(cachedRegs)
    BY <1>2, DeleteStep
  <2>2. key # NoPod
    BY GCConstantsAssumption DEF QueueInv
  <2> QED
    BY <1>2, <2>1, <2>2, AbortKeeps
<1> QED
  BY <1>1, <1>2

(* The pod of an expired registration.                                     *)
LEMMA DeletePodKeeps ==
  ASSUME StoreInv, ListInv, QueueInv, CountInv, NEW p \in PodIds, DeletePod(p)
  PROVE  StoreInv' /\ ListInv' /\ QueueInv' /\ CountInv'
<1> USE DEF DeletePod, informers
<1>1. StoreInv' /\ CountInv'
  <2>1. CountInv'
    BY FaultKeeps
  <2> QED
    BY <2>1 DEF StoreInv
<1>2. key # NoPod /\ regs' = regs /\ Registered(cachedRegs') = Registered(cachedRegs)
  BY DEF Handling
<1>3. CASE deleting' = p /\ Handled(p) /\ UNCHANGED <<queue, waiting, key>>
  <2>1. ListInv'
    BY <1>2, <1>3, HandledKeeps
  <2>2. QueueInv'
    BY <1>2, <1>3 DEF QueueInv, Attended
  <2> QED
    BY <1>1, <2>1, <2>2
<1>4. CASE Abort
  BY <1>1, <1>2, <1>4, AbortKeeps
<1> QED
  BY <1>3, <1>4

(* The mark of the second timeout: an expired copy that is current is the  *)
(* stored registration, which has outlived its first timeout.              *)
LEMMA MarkReusableKeeps ==
  ASSUME StoreInv, ListInv, QueueInv, CountInv, NEW p \in PodIds, MarkReusable(p)
  PROVE  StoreInv' /\ ListInv' /\ QueueInv' /\ CountInv'
<1> USE DEF MarkReusable
<1>1. key # NoPod /\ CountInv'
  BY FaultKeeps DEF Handling
<1>2. CASE Put(p, Marked(p)) /\ listed[p].current
  <2>1. listed[p] \in Registration /\ listed[p].age \in Nat /\ listed[p].age <= Timeouts(p) + 1
    BY Entries DEF ListInv
  <2>2. /\ Marked(p) \in Registration /\ Marked(p).current
        /\ Marked(p).age = listed[p].age
    BY <1>2, <2>1 DEF Marked, Registration, RegistrationTypes
  <2>3. listed[p].age > TimeoutSeconds[SessionOf[p]]
    BY <2>1, TimeoutsAreNat DEF Due, registrationHasExpired
  <2>4. /\ StoreInv' /\ Registered(cachedRegs') = Registered(cachedRegs)
        /\ \A q \in PodIds \ {p} : regs'[q] = regs[q]
        /\ UNCHANGED <<queue, waiting, key>> /\ deleting' \in {NoPod, deleting} => QueueInv'
    BY <1>2, <2>1, <2>2, <2>3, PutStep
  <2>5. CASE Handled(p) /\ UNCHANGED <<queue, waiting, key, deleting>>
    BY <1>1, <2>4, <2>5, HandledKeeps
  <2>6. CASE Abort
    BY <1>1, <2>4, <2>6, AbortKeeps
  <2> QED
    BY <1>2, <2>5, <2>6
<1>3. CASE UNCHANGED <<regs, cachedRegs>>
  <2>1. StoreInv' /\ Registered(cachedRegs') = Registered(cachedRegs)
    BY <1>3 DEF StoreInv
  <2>2. CASE Handled(p) /\ UNCHANGED <<queue, waiting, key, deleting>>
    <3>1. ListInv'
      BY <1>3, <2>2, HandledKeeps
    <3>2. QueueInv'
      BY <1>3, <2>2 DEF QueueInv, Attended
    <3> QED
      BY <1>1, <2>1, <3>1, <3>2
  <2>3. CASE Abort
    BY <1>1, <2>1, <2>3, AbortKeeps
  <2> QED
    BY <1>3, <2>2, <2>3
<1> QED
  BY <1>2, <1>3

---------------------------------------------------------------------------
(* The other steps.                                                        *)

(* Timers and informers.                                                   *)
LEMMA SyncKeeps ==
  ASSUME StoreInv, ListInv, QueueInv, CountInv,
         Sync \/ \E k \in PodIds : TimerFires(k)
  PROVE  StoreInv' /\ ListInv' /\ QueueInv' /\ CountInv'
<1> USE DEF store, reading
<1>1. CASE SyncPods
  BY <1>1 DEF SyncPods, StoreInv, ListInv, QueueInv, CountInv, Attended
<1>2. CASE SyncSessions
  BY <1>2 DEF SyncSessions, StoreInv, ListInv, QueueInv, CountInv, Attended
<1>3. ASSUME NEW p \in PodIds, SyncRegistration(p)
      PROVE  StoreInv' /\ ListInv' /\ QueueInv' /\ CountInv'
  <2>1. /\ WellMarked(regs) /\ WellMarked(cachedRegs)
        /\ cachedRegs \in [PodIds -> Registration]
    BY DEF StoreInv, WellMarked, Copies
  <2>2. cachedRegs' = [cachedRegs EXCEPT ![p] = regs[p]] /\ queue' = queue \cup {p}
    BY <1>3 DEF SyncRegistration
  <2>3. WellMarked(cachedRegs')
    BY <2>1, <2>2, Entries DEF WellMarked
  <2>4. StoreInv'
    BY <1>3, <2>1, <2>2, <2>3 DEF SyncRegistration, StoreInv
  <2>5. QueueInv'
    BY <1>3, <2>1, <2>2 DEF SyncRegistration, QueueInv, Attended, Registered
  <2> QED
    BY <1>3, <2>4, <2>5 DEF SyncRegistration, ListInv, CountInv
<1>4. ASSUME NEW k \in PodIds, TimerFires(k)
      PROVE  StoreInv' /\ ListInv' /\ QueueInv' /\ CountInv'
  BY <1>4 DEF TimerFires, informers, StoreInv, ListInv, QueueInv, CountInv, Attended
<1> QED
  BY <1>1, <1>2, <1>3, <1>4 DEF Sync

(* A restart reads everything anew.                                        *)
LEMMA RestartKeeps ==
  ASSUME StoreInv, ListInv, QueueInv, CountInv, Restart
  PROVE  StoreInv' /\ ListInv' /\ QueueInv' /\ CountInv'
<1> USE DEF Restart, store
<1>1. CountInv'
  BY FaultKeeps
<1>2. StoreInv'
  BY DEF StoreInv
<1>3. ListInv'
  BY Constants DEF ListInv
<1>4. QueueInv'
  BY DEF QueueInv, Attended, Registered
<1> QED
  BY <1>1, <1>2, <1>3, <1>4

(* Somebody else stores a fresh registration, or none.                     *)
LEMMA OverwriteKeeps ==
  ASSUME StoreInv, ListInv, QueueInv, NEW p \in PodIds,
         NEW r \in {NewRegistration, Unregistered}, Overwrite(p, r),
         UNCHANGED <<sessions, pods, cachedSessions, cachedPods, queue, waiting, key, deleting>>
  PROVE  StoreInv' /\ ListInv' /\ QueueInv'
<1>1. /\ r \in Registration /\ r.current /\ r.age <= Timeouts(p) + 1
      /\ r.type # "ReutilizeTimeout"
  BY Constants, TimeoutsAreNat
<1>2. /\ StoreInv' /\ QueueInv' /\ \A q \in PodIds \ {p} : regs'[q] = regs[q]
  BY <1>1, PutStep DEF Overwrite
<1>3. ListInv'
  <2>1. CASE p \in Registered(listed)
    <3>1. /\ WellMarked(listed') /\ Registered(listed') = Registered(listed)
          /\ ~listed'[p].current
          /\ \A q \in PodIds \ {p} : listed'[q] = listed[q]
      BY <2>1, Outdated DEF Overwrite, ListInv
    <3>2. ASSUME NEW q \in Registered(listed'), listed'[q].current
          PROVE  listed'[q] = regs'[q]
      <4>1. q \in PodIds \ {p} /\ q \in Registered(listed)
        BY <3>1, <3>2 DEF Registered
      <4> QED
        BY <1>2, <3>1, <3>2, <4>1 DEF ListInv
    <3> QED
      BY <3>1, <3>2 DEF ListInv
  <2>2. CASE p \notin Registered(listed)
    BY <1>2, <2>2 DEF Overwrite, ListInv, Registered
  <2> QED
    BY <2>1, <2>2
<1> QED
  BY <1>2, <1>3

(* Everything outside the controller but time.                             *)
LEMMA ChurnKeeps ==
  ASSUME StoreInv, ListInv, QueueInv, CountInv,
         \/ \E p \in PodIds : Register(p) \/ Unregister(p) \/ PodSpawned(p) \/ PodLost(p)
         \/ \E s \in Sessions : SessionDeleted(s)
  PROVE  StoreInv' /\ ListInv' /\ QueueInv' /\ CountInv'
<1> USE DEF Churn
<1>1. CountInv'
  BY GCConstantsAssumption DEF Register, Unregister, PodSpawned, PodLost, SessionDeleted, CountInv
<1>2. ASSUME NEW p \in PodIds, Register(p) \/ Unregister(p)
      PROVE  StoreInv' /\ ListInv' /\ QueueInv'
  BY <1>2, OverwriteKeeps DEF Register, Unregister
<1>3. ASSUME NEW p \in PodIds, PodSpawned(p) \/ PodLost(p)
      PROVE  StoreInv' /\ ListInv' /\ QueueInv'
  BY <1>3 DEF PodSpawned, PodLost, StoreInv, ListInv, QueueInv, Attended
<1>4. ASSUME NEW s \in Sessions, SessionDeleted(s)
      PROVE  StoreInv' /\ ListInv' /\ QueueInv'
  BY <1>4 DEF SessionDeleted, StoreInv, ListInv, QueueInv, Attended
<1> QED
  BY <1>1, <1>2, <1>3, <1>4

(* A registration grows older, up to the age that all timeouts precede,    *)
(* and is otherwise the same.                                              *)
LEMMA OlderKeeps ==
  ASSUME NEW p \in PodIds, NEW r \in Registration, r.age <= Timeouts(p) + 1
  PROVE  /\ Older(p, r) \in Registration
         /\ Older(p, r).age <= Timeouts(p) + 1 /\ Older(p, r).age >= r.age
         /\ Older(p, r).type = r.type /\ Older(p, r).current = r.current
<1>1. Timeouts(p) \in Nat /\ r.age \in Nat
  BY TimeoutsAreNat DEF Registration
<1>2. CASE r.type = "none" \/ r.age > Timeouts(p)
  BY <1>1, <1>2 DEF Older, Registration
<1>3. CASE ~(r.type = "none" \/ r.age > Timeouts(p))
  BY <1>1, <1>3 DEF Older, Registration
<1> QED
  BY <1>2, <1>3

(* So a whole copy stays well marked.                                      *)
LEMMA AgedKeeps ==
  ASSUME NEW copies, WellMarked(copies)
  PROVE  /\ WellMarked(Aged(copies)) /\ Registered(Aged(copies)) = Registered(copies)
         /\ \A p \in PodIds : /\ Aged(copies)[p] = Older(p, copies[p])
                              /\ Aged(copies)[p].current = copies[p].current
<1>1. \A p \in PodIds : Aged(copies)[p] = Older(p, copies[p])
  BY DEF Aged
<1>2. \A p \in PodIds : copies[p] \in Registration /\ copies[p].age <= Timeouts(p) + 1
  BY Entries
<1>3. \A p \in PodIds :
        /\ Aged(copies)[p] \in Registration
        /\ Aged(copies)[p].age <= Timeouts(p) + 1 /\ Aged(copies)[p].age >= copies[p].age
        /\ Aged(copies)[p].type = copies[p].type
        /\ Aged(copies)[p].current = copies[p].current
  <2> TAKE p \in PodIds
  <2> DEFINE r == copies[p]
  <2>1. r \in Registration /\ r.age <= Timeouts(p) + 1 /\ Aged(copies)[p] = Older(p, r)
    BY <1>1, <1>2
  <2> HIDE DEF r
  <2>2. /\ Older(p, r) \in Registration
        /\ Older(p, r).age <= Timeouts(p) + 1 /\ Older(p, r).age >= r.age
        /\ Older(p, r).type = r.type /\ Older(p, r).current = r.current
    BY <2>1, OlderKeeps
  <2> QED
    BY <2>1, <2>2 DEF r
<1>4. Aged(copies) \in Copies
  <2>1. Aged(copies) \in [PodIds -> Registration]
    BY <1>1, <1>3 DEF Aged
  <2> QED
    BY <1>3, <2>1 DEF Copies
<1>5. ASSUME NEW p \in PodIds, Aged(copies)[p].type = "ReutilizeTimeout"
      PROVE  Aged(copies)[p].age > TimeoutSeconds[SessionOf[p]]
  <2>1. copies[p].age > TimeoutSeconds[SessionOf[p]]
    BY <1>3, <1>5 DEF WellMarked
  <2>2. Aged(copies)[p].age \in Nat /\ copies[p].age \in Nat
    BY <1>2, <1>3 DEF Registration
  <2> QED
    BY <1>3, <2>1, <2>2, TimeoutsAreNat
<1> QED
  BY <1>1, <1>3, <1>4, <1>5 DEF WellMarked, Registered

(* Time passes for the store and all copies alike.                         *)
LEMMA TickKeeps ==
  ASSUME StoreInv, ListInv, QueueInv, CountInv, Tick
  PROVE  StoreInv' /\ ListInv' /\ QueueInv' /\ CountInv'
<1>1. /\ WellMarked(regs') /\ WellMarked(cachedRegs') /\ WellMarked(listed')
      /\ Registered(cachedRegs') = Registered(cachedRegs)
      /\ Registered(listed') = Registered(listed)
  BY AgedKeeps DEF Tick, StoreInv, ListInv
<1>2. \A p \in PodIds :
        /\ regs'[p] = Older(p, regs[p]) /\ regs'[p].current = regs[p].current
        /\ cachedRegs'[p] = Older(p, cachedRegs[p])
        /\ cachedRegs'[p].current = cachedRegs[p].current
        /\ listed'[p] = Older(p, listed[p]) /\ listed'[p].current = listed[p].current
  BY AgedKeeps DEF Tick, StoreInv, ListInv
<1>3. StoreInv'
  BY <1>1, <1>2 DEF Tick, StoreInv
<1>4. ListInv'
  <2>1. ASSUME NEW p \in Registered(listed'), listed'[p].current
        PROVE  listed'[p] = regs'[p]
    <3>1. p \in PodIds /\ p \in Registered(listed)
      BY <1>1, <2>1 DEF Registered
    <3> QED
      BY <1>2, <2>1, <3>1 DEF ListInv
  <2> QED
    BY <1>1, <2>1 DEF Tick, ListInv
<1>5. QueueInv' /\ CountInv'
  BY <1>1 DEF Tick, QueueInv, CountInv, Attended
<1> QED
  BY <1>3, <1>4, <1>5

---------------------------------------------------------------------------
(* The theorems.                                                           *)

(* The parts hold initially,                                               *)
LEMMA InitKeeps == Init => TypeOK /\ GCInv
<1> SUFFICES ASSUME Init
             PROVE  StoreInv /\ ListInv /\ QueueInv /\ CountInv
  BY Parts
<1>1. regs = NothingListed /\ \A p \in PodIds : NothingListed[p] = Unregistered
  BY DEF Init, NothingListed
<1>2. StoreInv
  BY <1>1, Constants DEF Init, StoreInv
<1>3. ListInv
  BY <1>1, Constants DEF Init, ListInv
<1> QED
  BY <1>2, <1>3, Constants, GCConstantsAssumption DEF Init, QueueInv, CountInv, Attended

(* and every step keeps them.                                              *)
LEMMA NextKeeps ==
  ASSUME TypeOK, GCInv, [Next]_vars
  PROVE  TypeOK' /\ GCInv'
<1> SUFFICES StoreInv' /\ ListInv' /\ QueueInv' /\ CountInv'
  BY Parts
<1>0. StoreInv /\ ListInv /\ QueueInv /\ CountInv
  BY Parts
<1>1. CASE Reconcile
  BY <1>0, <1>1, ReadsKeep, DeleteOrphanKeeps, DeleteExpiredKeeps, DeletePodKeeps,
     MarkReusableKeeps DEF Reconcile
<1>2. CASE Sync \/ \E k \in PodIds : TimerFires(k)
  BY <1>0, <1>2, SyncKeeps
<1>3. CASE Environment
  BY <1>0, <1>3, RestartKeeps, ChurnKeeps, TickKeeps DEF Environment
<1>4. CASE UNCHANGED vars
  BY <1>0, <1>4 DEF vars, store, informers, reading, StoreInv, ListInv, QueueInv, CountInv,
                    Attended
<1> QED
  BY <1>1, <1>2, <1>3, <1>4 DEF Next

(* Types, and the invariant of the copies: whatever fails, and however far *)
(* the caches are behind, no registration that was seen is dropped from    *)
(* the queue and the timers, and no fresh registration is marked for the   *)
(* second timeout.                                                         *)
THEOREM GCInductive == Spec => [](TypeOK /\ GCInv)
<1>1. Init => TypeOK /\ GCInv
  BY InitKeeps
<1>2. TypeOK /\ GCInv /\ [Next]_vars => (TypeOK /\ GCInv)'
  BY NextKeeps
<1> QED
  BY <1>1, <1>2, PTL DEF Spec

(* The variables of the garbage collector keep their types: ages and the   *)
(* counts of outside events and faults stay within their bounds.           *)
THEOREM GCTypes == Spec => []TypeOK
BY GCInductive, PTL

(* What the controller deletes a pod for has outlived both timeouts.       *)
LEMMA DeletesOutlived ==
  ASSUME StoreInv, ListInv, NEW p \in PodIds, DeletePod(p)
  PROVE  Outlived(p, IF listed[p].current THEN regs[p] ELSE listed[p])
<1>1. Outlived(p, listed[p])
  <2>1. listed[p].age \in Nat
    BY Entries DEF ListInv
  <2> QED
    BY <2>1, TimeoutsAreNat
    DEF DeletePod, Due, registrationHasExpired, InLastTimeout, Outlived, Timeouts
<1>2. listed[p].current => listed[p] = regs[p]
  BY DEF ListInv, DeletePod, Handling
<1> QED
  BY <1>1, <1>2

(* A pod is deleted by the controller only when its registration, and the  *)
(* stored one unless somebody replaced it, has outlived both timeouts.     *)
THEOREM PatientHolds == Spec => Patient
<1> DEFINE Kept == \A p \in pods \ pods' :
       churn' = churn => Outlived(p, IF listed[p].current THEN regs[p] ELSE listed[p])
<1>1. ASSUME TypeOK, GCInv, [Next]_vars
      PROVE  [Kept]_vars
  <2> SUFFICES ASSUME NEW p \in pods \ pods', churn' = churn
               PROVE  Outlived(p, IF listed[p].current THEN regs[p] ELSE listed[p])
    OBVIOUS
  <2>1. p \in PodIds /\ churn \in Nat
    BY <1>1 DEF TypeOK
  <2>2. DeletePod(p)
    <3> USE DEF store, informers, reading
    <3>1. CASE Reconcile
      BY <3>1 DEF Reconcile, ReadFails, Finish, Begin, KeepRegistration, DeleteOrphan,
                  DeletePod, DeleteExpired, MarkReusable
    <3>2. CASE Sync \/ \E k \in PodIds : TimerFires(k)
      BY <3>2 DEF Sync, SyncPods, SyncSessions, SyncRegistration, TimerFires
    <3>3. CASE Environment
      BY <2>1, <3>3 DEF Environment, Restart, Tick, Register, Unregister, PodSpawned, PodLost,
                        SessionDeleted, Churn
    <3>4. CASE UNCHANGED vars
      BY <3>4 DEF vars
    <3> QED
      BY <1>1, <3>1, <3>2, <3>3, <3>4 DEF Next
  <2> QED
    BY <1>1, <2>1, <2>2, Parts, DeletesOutlived
<1>2. TypeOK /\ GCInv /\ [Next]_vars => [Kept]_vars
  BY <1>1
<1> QED
  BY <1>2, GCInductive, PTL DEF Spec, Patient
=============================================================================
