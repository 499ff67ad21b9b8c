---------------------------- MODULE AtomicSession ----------------------------
(***************************************************************************)
(* What the session controller promises to the users of one Session: every *)
(* status it stores is the old one, reconciled in one step with the clients*)
(* that are stored now.  That the controller works on copies, in pieces,   *)
(* and next to other writers cannot be seen.  What a reconciliation may    *)
(* see late is the time, and which pods run.                               *)
(*                                                                         *)
(* The module has no caches, versions, queue or program counter:           *)
(* SessionController is shown to implement it.                             *)
(***************************************************************************)
EXTENDS Integers, FiniteSets

CONSTANTS Clients, PodIds, Templates, TemplateOf, MaxClients, TimeoutSeconds

VARIABLES
  live,     \* the Session is stored
  clients,  \* its clients: "up" (connected), "down" or "absent"
  since,    \* when a client was seen to be down; Here, Never: it is up, is unknown
  alloc,    \* the pods of each client
  named,    \* the pods that were ever given to a client
  running,  \* the pods that exist
  clock

vars == <<live, clients, since, alloc, named, running, clock>>

Here == -1
Never == -2

Init ==
  /\ live = TRUE /\ clock = 0
  /\ clients = [c \in Clients |-> "absent"]
  /\ since = [c \in Clients |-> Never] /\ alloc = [c \in Clients |-> {}]
  /\ named = {} /\ running = {}

(* A client loses its pods when its grace period was over at time t.       *)
Expired(c, t) == since[c] \notin {Here, Never} /\ since[c] + TimeoutSeconds <= t

Holds(c, t) == since[c] # Never /\ ~Expired(c, t)

OnePodEach(set) ==
  \E choice \in [Templates -> PodIds] :
     /\ \A t \in Templates : TemplateOf[choice[t]] = t
     /\ set = {choice[t] : t \in Templates}

(* <<s, a>> is what becomes of c's entry at time t.                        *)
Forgotten(c, t, s, a) ==
  /\ clients[c] = "absent" \/ (clients[c] = "down" /\ ~Holds(c, t))
  /\ s = Never /\ a = {}

Kept(c, t, s, a) ==
  /\ clients[c] # "absent" /\ Holds(c, t)
  /\ a = alloc[c]
  /\ s = IF clients[c] = "up" THEN Here ELSE IF since[c] = Here THEN t ELSE since[c]

Admitted(c, t, s, a) ==
  /\ clients[c] = "up" /\ ~Holds(c, t)
  /\ s = Here /\ OnePodEach(a)

Entry(c, t, s, a) == Forgotten(c, t, s, a) \/ Kept(c, t, s, a) \/ Admitted(c, t, s, a)

(* A template of less than one client per pod is one of one.               *)
Room(p) == IF MaxClients[TemplateOf[p]] > 1 THEN MaxClients[TemplateOf[p]] ELSE 1

Reconcile(t) ==
  /\ live
  /\ \A c \in Clients : Entry(c, t, since'[c], alloc'[c])
  /\ \A p \in PodIds : Cardinality({c \in Clients : p \in alloc'[c]}) <= Room(p)
  /\ named' = named \cup UNION {alloc'[c] : c \in Clients}
  /\ UNCHANGED <<live, clients, running, clock>>

Spawn(p) ==
  /\ p \in named /\ running' = running \cup {p}
  /\ UNCHANGED <<live, clients, since, alloc, named, clock>>

Remove(p) ==
  /\ running' = running \ {p}
  /\ UNCHANGED <<live, clients, since, alloc, named, clock>>

(* By the session manager.                                                 *)
Edit(c, v) ==
  /\ live /\ clients' = [clients EXCEPT ![c] = v]
  /\ UNCHANGED <<live, since, alloc, named, running, clock>>

Delete ==
  /\ live' = FALSE
  /\ UNCHANGED <<clients, since, alloc, named, running, clock>>

Tick ==
  /\ clock' = clock + 1
  /\ UNCHANGED <<live, clients, since, alloc, named, running>>

Next ==
  \/ \E t \in 0..clock : Reconcile(t)
  \/ \E p \in PodIds : Spawn(p) \/ Remove(p)
  \/ \E c \in Clients, v \in {"absent", "down", "up"} : Edit(c, v)
  \/ Delete \/ Tick

Spec == Init /\ [][Next]_vars
=============================================================================
