---------------------------- MODULE ClientPods ----------------------------
(***************************************************************************)
(* The computations of controllers/session/internal/controller/            *)
(* client_pods.go on one Session: which clients a reconciliation forgets,  *)
(* which it finds new or disconnected, which pod each new client gets,     *)
(* which pods are registered for garbage collection and which are spawned. *)
(* No variables: SessionController applies these operators to the copy of  *)
(* the Session it reads.                                                   *)
(*                                                                         *)
(* Data that no property tells apart is left out: pod specs, the text of   *)
(* paths and conditions.  A client pod is named by the number its name ends  *)
(* in (four hexadecimal digits of a UUID); TemplateOf is the template      *)
(* segment of that name.                                                   *)
(***************************************************************************)
EXTENDS Integers, FiniteSets

CONSTANTS
  Clients,         \* client ids
  PodIds,          \* names of client pods, numbers
  SessionPods,     \* names of the session pods, one per session pod template
  Templates,       \* names of the client pod templates
  TemplateOf,      \* [PodIds -> Templates]
  MaxClients,      \* [Templates -> Int], clients per pod of the template
  TimeoutSeconds,  \* reconnection grace period
  UuidCollides,    \* may a new pod draw a name that is already in use?
  NoHash           \* the session carries no statusHash annotation

ASSUME ConstantsAssumption ==
  /\ IsFiniteSet(Clients)
  /\ PodIds \subseteq Nat
  /\ SessionPods \cap PodIds = {}
  /\ TemplateOf \in [PodIds -> Templates]
  /\ MaxClients \in [Templates -> Int]
  /\ TimeoutSeconds \in Nat
  /\ UuidCollides \in BOOLEAN

(* Values of a client's LastSeenAt that are no reading of the clock. *)
defaultTime == -1
Absent == -2

(***************************************************************************)
(* SessionStatus.  seen and alloc are status.clients: the LastSeenAt of    *)
(* each client (Absent: it has no entry) and the names of its pods.        *)
(* reconcilePods gives every client of a pod the same Ready, so ready is   *)
(* the set of pods reported ready; a client's own Ready follows from it.   *)
(* The paths of a pod are made anew for each of its clients, and get the   *)
(* external IP of the ingress when the pod is first found ready: external  *)
(* are the pods whose paths have it.  They keep it when Ready goes.        *)
(* podsStatus, cond and condAt are status.sessionPods: whether the map of  *)
(* session pods is unset, all false or all true, and the Ready condition   *)
(* with its LastTransitionTime.                                            *)
(***************************************************************************)
StatusType ==
  {status \in
     [seen : [Clients -> Int], alloc : [Clients -> SUBSET PodIds],
      external : [Clients -> SUBSET PodIds],
      ready : SUBSET PodIds, podsStatus : {"unset", "false", "true"},
      cond : {"unset", "True", "False", "Unknown"}, condAt : Int] :
     \A c \in Clients : /\ status.external[c] \subseteq status.alloc[c]
                        /\ status.seen[c] = Absent => status.alloc[c] = {}}

(* A hash and no hash are told apart. *)
ASSUME NoHashAssumption == NoHash \notin StatusType

NewStatus ==
  [seen |-> [c \in Clients |-> Absent], alloc |-> [c \in Clients |-> {}],
   external |-> [c \in Clients |-> {}], ready |-> {}, podsStatus |-> "unset", cond |-> "unset", condAt |-> 0]

AllocatedPods(status) == UNION {status.alloc[c] : c \in Clients}

(* Pods with a client whose Connected flag is set in the allocation map. *)
ServingPods(status) ==
  UNION {status.alloc[c] : c \in {d \in Clients : status.seen[d] = defaultTime}}

podIsEmpty(status, p) == p \notin ServingPods(status)

ClientsOf(status, p) == {c \in Clients : p \in status.alloc[c]}
Load(status, p) == Cardinality(ClientsOf(status, p))

Forget(status, gone) ==
  [status EXCEPT
     !.seen = [c \in Clients |-> IF c \in gone THEN Absent ELSE status.seen[c]],
     !.alloc = [c \in Clients |-> IF c \in gone THEN {} ELSE status.alloc[c]],
     !.external = [c \in Clients |-> IF c \in gone THEN {} ELSE status.external[c]]]

---------------------------------------------------------------------------
(* Clients that leave the status. *)

clientHasExpired(now, lastSeen) ==
  /\ lastSeen # defaultTime
  /\ lastSeen + TimeoutSeconds <= now

cleanExpiredClientsFromStatus(now, status) ==
  Forget(status, {c \in Clients : /\ status.seen[c] # Absent
                                  /\ clientHasExpired(now, status.seen[c])})

(* Clients that are in the status but no longer in the spec. *)
removeLeftClients(clients, status) ==
  Forget(status, {c \in Clients : clients[c] = "absent"})

(* The new clients handleClientChanges returns, and the status it leaves. *)
newClientsIn(clients, status) ==
  {c \in Clients : clients[c] = "up" /\ status.seen[c] = Absent}

handleClientChanges(now, clients, status) ==
  LET lost == {c \in Clients : status.seen[c] = defaultTime /\ clients[c] = "down"}
      connected == {c \in Clients : status.seen[c] # Absent /\ clients[c] = "up"}
  IN [status EXCEPT !.seen =
        [c \in Clients |-> IF c \in lost THEN now
                           ELSE IF c \in connected THEN defaultTime
                           ELSE status.seen[c]]]

---------------------------------------------------------------------------
(* Allocation of one new client. *)

comparePods(status, p, q) ==
  \/ Load(status, p) < Load(status, q)
  \/ Load(status, p) = Load(status, q) /\ p < q

(* Mutant: room for a client more than maxClients.                         *)
MutantAvailablePods(status, t) ==
  {p \in AllocatedPods(status) :
     TemplateOf[p] = t /\ Load(status, p) <= MaxClients[t]}

(* The pods of template t in the allocation map that take another client. *)
AvailablePods(status, t) ==
  {p \in AllocatedPods(status) :
     TemplateOf[p] = t /\ Load(status, p) < MaxClients[t]}

(***************************************************************************)
(* sortAllocationMap puts the fullest pod first (by descending number of   *)
(* clients, then descending id) and findFirstPodAvailable takes the first  *)
(* that has room.  Allocating to it keeps that order among the pods with   *)
(* room, so sorting once before the loop over the new clients is sorting   *)
(* before each of them.                                                    *)
(***************************************************************************)
findFirstPodAvailable(status, t) ==
  {p \in AvailablePods(status, t) :
     \A q \in AvailablePods(status, t) \ {p} : comparePods(status, q, p)}

(* Mutant: the pods of clients are not taken out of those to be reused.    *)
MutantReutilizePod(status, found, t) == {p \in found : TemplateOf[p] = t}

(* Pods found in the cluster and in no client's status: reutilizePod picks *)
(* any of them, in the iteration order of a map.                           *)
reutilizePod(status, found, t) ==
  {p \in found \ AllocatedPods(status) : TemplateOf[p] = t}

(* Names uuid.New() may yield for template t; inUse are those in use.      *)
newPodName(inUse, t) ==
  {p \in PodIds : TemplateOf[p] = t /\ (p \in inUse => UuidCollides)}

CandidatePods(status, found, inUse, t) ==
  CASE AvailablePods(status, t) # {} -> findFirstPodAvailable(status, t)
    [] /\ AvailablePods(status, t) = {}
       /\ reutilizePod(status, found, t) # {} -> reutilizePod(status, found, t)
    [] OTHER -> newPodName(inUse, t)

(* Mutant: the entry is made without a LastSeenAt.                         *)
MutantAllocateClient(status, c, choice) ==
  [status EXCEPT !.alloc[c] = {choice[t] : t \in Templates}, !.external[c] = {}]

(* The new client's entry in the status: one pod of each template. *)
allocateClient(status, c, choice) ==
  [status EXCEPT !.seen[c] = defaultTime,
                 !.alloc[c] = {choice[t] : t \in Templates},
                 !.external[c] = {}]

---------------------------------------------------------------------------
(* Garbage collection registrations, and the workload. *)

(* Registrations manageGCRegistrations creates and deletes; found are the  *)
(* client pods listed, registered the registrations listed.                *)
registrationsToCreate(status, found, registered) ==
  {p \in found \cup AllocatedPods(status) : podIsEmpty(status, p)} \ registered

registrationsToDelete(status, registered) ==
  {p \in AllocatedPods(status) : ~podIsEmpty(status, p)} \cap registered

(* reconcilePods: pods missing from the list are spawned, the others are   *)
(* reported ready when their condition says so and the ingress has an IP,  *)
(* which then is put into their paths (concatIngressExternalIpToPodPaths). *)
podsToSpawn(status, found) == AllocatedPods(status) \ found

setClientStatusReadiness(status, readyPods, hasIp) ==
  LET ready == IF hasIp THEN AllocatedPods(status) \cap readyPods ELSE {} IN
  [status EXCEPT
     !.ready = ready,
     !.external = [c \in Clients |->
                     status.external[c] \cup (status.alloc[c] \cap ready)]]
===========================================================================
