--------------------------- MODULE SessionManager ---------------------------
(***************************************************************************)
(* The session manager (session-manager/handlers): HTTP handlers that run  *)
(* at the same time, share nothing, and keep the sessions of several       *)
(* clusters by one API call after the other.  A step of a handler is one   *)
(* call and what the handler does with its answer.                         *)
(*                                                                         *)
(* Of a session only what the manager changes is kept: whether a cluster   *)
(* stores it, its spec.clients, and whether its spec has session pod       *)
(* templates.  Requests that are refused before the first call (a body     *)
(* that does not bind, an unknown template or cluster) are left out, and   *)
(* so is GetSessions, one call that changes nothing.                       *)
(***************************************************************************)
EXTENDS Integers

CONSTANTS
  Clusters, Names, ClientIds, Handlers,
  WithSessionPods,  \* names whose template has session pods
  NamesCollide,     \* may CreateSession draw a name that was drawn before?
  None,
  MaxRequests,      \* bound on the requests that arrive
  FaultKinds, MaxFaults

ASSUME ManagerConstantsAssumption ==
  /\ WithSessionPods \subseteq Names
  /\ NamesCollide \in BOOLEAN
  /\ None \notin Clusters \cup Names \cup ClientIds
  /\ "gone" \notin Clusters \cup {None}
  /\ MaxRequests \in Nat /\ MaxFaults \in Nat

VARIABLES
  sessions,  \* the stored sessions of each cluster
  request,   \* what each handler is busy with, or has answered last
  drawn,     \* the names that sessions were given so far
  requests, faults,  \* how many there were
  (* history *)
  asked,     \* what the last request on each client asked for
  raced,     \* clients of a request that came while another held a copy
  claims     \* what the last answer on each session lets callers count on

history == <<asked, raced, claims>>
vars == <<sessions, request, drawn, requests, faults, history>>

(* A client's value in spec.clients.                                       *)
ClientStates == {"absent", "off", "on"}
NoClients == [c \in ClientIds |-> "absent"]

NewSession(pods) == [stored |-> TRUE, clients |-> NoClients, pods |-> pods]
NoSession == [stored |-> FALSE, clients |-> NoClients, pods |-> FALSE]

SessionType ==
  {s \in [stored : BOOLEAN, clients : [ClientIds -> ClientStates], pods : BOOLEAN] :
     ~s.stored => s = NoSession}

Operations ==
  {"CreateSession", "DeleteSession", "GetSession",
   "CreateClient", "GetClient", "UpdateClient", "DeleteClient"}
CallsToMake == {"postPods", "post", "delete", "get", "lookup", "view", "patch"}
Answers == {"created", "ok", "session", "conflict", "NotFound", "SessionNotFound", "BadGateway"}

(* todo are the clusters a loop has still to visit, deleted is a local of  *)
(* DeleteSession, copy the clients of the session that was read, or of the *)
(* sum of them.  steady and alone are history: the clusters that had the   *)
(* client all along, and whether no request to create met one to delete    *)
(* the session.                                                            *)
RequestRecord ==
  [op : Operations \cup {"none"}, name : Names \cup {None},
   client : ClientIds \cup {None}, value : ClientStates,
   cluster : Clusters \cup {None}, todo : SUBSET Clusters, deleted : BOOLEAN,
   copy : [ClientIds -> ClientStates], at : CallsToMake \cup Answers \cup {"idle"},
   steady : SUBSET Clusters, alone : BOOLEAN]

Request ==
  {r \in RequestRecord :
     /\ r.at \in CallsToMake => r.name \in Names
     /\ r.at \in {"postPods", "post", "get", "patch"} => r.cluster \in Clusters
     /\ r.at \in {"get", "lookup", "view", "session", "patch"} => r.client \in ClientIds}

Idle ==
  [op |-> "none", name |-> None, client |-> None, value |-> "absent",
   cluster |-> None, todo |-> {}, deleted |-> FALSE, copy |-> NoClients,
   at |-> "idle", steady |-> {}, alone |-> FALSE]

(* Any manager but the first finds what its predecessors left.             *)
Init ==
  /\ sessions \in [Clusters -> [Names -> SessionType]]
  /\ \A k \in Clusters, n \in Names : sessions[k][n].pods => n \in WithSessionPods
  /\ drawn = {n \in Names : \E k \in Clusters : sessions[k][n].stored}
  /\ request = [h \in Handlers |-> Idle]
  /\ requests = 0 /\ faults = 0
  /\ asked = [k \in Clusters |-> [n \in Names |-> sessions[k][n].clients]]
  /\ raced = [k \in Clusters |-> [n \in Names |-> {}]]
  /\ claims = [n \in Names |-> None]

Busy(h) == request[h].at \in CallsToMake

Present(k, n, c) == sessions[k][n].clients[c] # "absent"

---------------------------------------------------------------------------
(* A request arrives *)

(* Requests to create and to delete one session that meet.                 *)
Against(r, q) ==
  r.name = q.name /\ {r.op, q.op} = {"CreateSession", "DeleteSession"}

Receive(h, r) ==
  /\ ~Busy(h) /\ requests < MaxRequests
  /\ requests' = requests + 1
  /\ request' = [g \in Handlers |->
        IF g = h THEN [r EXCEPT !.alone = \A e \in Handlers : ~Against(request[e], r)]
        ELSE IF Against(request[g], r) THEN [request[g] EXCEPT !.alone = FALSE]
        ELSE request[g]]
  /\ UNCHANGED <<sessions, faults, asked, raced>>

CreateSession(h, n, k) ==
  /\ NamesCollide \/ n \notin drawn
  /\ drawn' = drawn \cup {n}
  /\ Receive(h, [Idle EXCEPT !.op = "CreateSession", !.name = n, !.cluster = k,
                             !.todo = Clusters,
                             !.at = IF n \in WithSessionPods THEN "postPods" ELSE "post"])
  /\ claims' = [claims EXCEPT ![n] = None]

DeleteSession(h, n) ==
  /\ Receive(h, [Idle EXCEPT !.op = "DeleteSession", !.name = n, !.todo = Clusters,
                             !.at = "delete"])
  /\ claims' = [claims EXCEPT ![n] = None]
  /\ UNCHANGED drawn

CreateClient(h, n, c, k) ==
  /\ Receive(h, [Idle EXCEPT !.op = "CreateClient", !.name = n, !.client = c,
                             !.value = "on", !.cluster = k, !.at = "get"])
  /\ UNCHANGED <<drawn, claims>>

(* Requests that ask one cluster after the other, and are about client c.  *)
Search(h, op, at, n, c, v) ==
  /\ Receive(h, [Idle EXCEPT !.op = op, !.name = n, !.client = c, !.value = v,
                             !.todo = Clusters, !.at = at,
                             !.steady = {k \in Clusters : Present(k, n, c)}])
  /\ UNCHANGED <<drawn, claims>>

(* GetClient, UpdateClient and DeleteClient find the client's cluster.     *)
FindClient(h, op, n, c, v) == Search(h, op, "lookup", n, c, v)

GetClient(h, n, c) == FindClient(h, "GetClient", n, c, "absent")
UpdateClient(h, n, c, v) == FindClient(h, "UpdateClient", n, c, v)
DeleteClient(h, n, c) == FindClient(h, "DeleteClient", n, c, "absent")

(* GetSession, and GetClients, which makes the same calls; c is a client   *)
(* that the caller looks for in the answer.                                *)
GetSession(h, n, c) == Search(h, "GetSession", "view", n, c, "absent")

---------------------------------------------------------------------------
(* Calls of the API server *)

Fault(kind) ==
  /\ kind \in FaultKinds /\ faults < MaxFaults
  /\ faults' = faults + 1

Answered(h, answer) == [Idle EXCEPT !.at = answer, !.steady = request[h].steady]

(* h is about to patch with all clients of its copy, as all but            *)
(* DeleteClient do.                                                        *)
HoldsCopy(h, k, n) ==
  /\ request[h].at = "patch" /\ request[h].op # "DeleteClient"
  /\ request[h].cluster = k /\ request[h].name = n

(* Cluster k stores s for session n.  The call asks wanted[c] for every    *)
(* client c in wanted's domain, and h goes on with r.                      *)
Store(h, k, n, s, wanted, r) ==
  /\ sessions' = [sessions EXCEPT ![k][n] = s]
  /\ request' = [g \in Handlers |->
        IF g = h THEN r
        ELSE IF /\ k \in request[g].steady /\ request[g].name = n
                /\ s.clients[request[g].client] = "absent"
             THEN [request[g] EXCEPT !.steady = @ \ {k}]
        ELSE request[g]]
  /\ asked' = [asked EXCEPT ![k][n] =
                 [c \in ClientIds |-> IF c \in DOMAIN wanted THEN wanted[c] ELSE @[c]]]
  /\ raced' = IF \E g \in Handlers \ {h} : HoldsCopy(g, k, n)
              THEN [raced EXCEPT ![k][n] = @ \cup DOMAIN wanted] ELSE raced

Continue(h, r) ==
  /\ request' = [request EXCEPT ![h] = r]
  /\ UNCHANGED <<sessions, asked, raced>>

(* The call has no effect, or its effect but no answer, and h reports it.  *)
CallFails(h, k, n, s, wanted) ==
  \/ Fault("error") /\ Continue(h, Answered(h, "BadGateway"))
  \/ Fault("lost") /\ Store(h, k, n, s, wanted, Answered(h, "BadGateway"))

ReadFails(h) == Fault("error") /\ Continue(h, Answered(h, "BadGateway"))

Call(h, k, n, s, wanted, r) ==
  \/ Store(h, k, n, s, wanted, r) /\ UNCHANGED faults
  \/ CallFails(h, k, n, s, wanted)

Nobody == [c \in {} |-> "absent"]

---------------------------------------------------------------------------
(* Create and delete in one cluster after the other *)

Visited(h, k) == [request[h] EXCEPT !.todo = @ \ {k}]

(* Create: AlreadyExists is a success.                                     *)
Post(h, k, pods, r) ==
  LET n == request[h].name IN
  IF sessions[k][n].stored THEN Call(h, k, n, sessions[k][n], Nobody, r)
  ELSE Call(h, k, n, NewSession(pods), NoClients, r)

PostPods(h) ==
  /\ request[h].at = "postPods"
  /\ Post(h, request[h].cluster, TRUE, [request[h] EXCEPT !.at = "post"])
  /\ UNCHANGED <<drawn, requests, claims>>

(* The answer to h's request, if nothing of the kind has interfered.       *)
Claim(h, claim) ==
  claims' = IF request[h].alone THEN [claims EXCEPT ![request[h].name] = claim] ELSE claims

(* Mutant: the templates of session pods go to every cluster.              *)
MutantPostEverywhere(h, k) ==
  /\ request[h].at = "post" /\ k \in request[h].todo
  /\ LET n == request[h].name
         last == request[h].todo = {k}
     IN /\ Post(h, k, n \in WithSessionPods,
                IF last THEN Answered(h, "created") ELSE Visited(h, k))
        /\ IF last /\ faults' = faults THEN Claim(h, request[h].cluster) ELSE UNCHANGED claims
  /\ UNCHANGED <<drawn, requests>>

PostEverywhere(h, k) ==
  /\ request[h].at = "post" /\ k \in request[h].todo
  /\ LET last == request[h].todo = {k}
     IN /\ Post(h, k, FALSE, IF last THEN Answered(h, "created") ELSE Visited(h, k))
        /\ IF last /\ faults' = faults THEN Claim(h, request[h].cluster) ELSE UNCHANGED claims
  /\ UNCHANGED <<drawn, requests>>

(* Mutant: the first cluster without the session ends the loop.            *)
MutantDeleteEverywhere(h, k) ==
  /\ request[h].at = "delete" /\ k \in request[h].todo
  /\ LET n == request[h].name
         found == request[h].deleted \/ sessions[k][n].stored
         last == request[h].todo = {k} \/ ~sessions[k][n].stored
         answer == IF found THEN "ok" ELSE "NotFound"
     IN /\ Call(h, k, n, NoSession, IF sessions[k][n].stored THEN NoClients ELSE Nobody,
                IF last THEN Answered(h, answer)
                ELSE [Visited(h, k) EXCEPT !.deleted = found])
        /\ IF last /\ faults' = faults THEN Claim(h, "gone") ELSE UNCHANGED claims
  /\ UNCHANGED <<drawn, requests>>

(* Delete: NotFound only counts when every cluster answers it.             *)
DeleteEverywhere(h, k) ==
  /\ request[h].at = "delete" /\ k \in request[h].todo
  /\ LET n == request[h].name
         found == request[h].deleted \/ sessions[k][n].stored
         last == request[h].todo = {k}
         answer == IF found THEN "ok" ELSE "NotFound"
     IN /\ Call(h, k, n, NoSession, IF sessions[k][n].stored THEN NoClients ELSE Nobody,
                IF last THEN Answered(h, answer)
                ELSE [Visited(h, k) EXCEPT !.deleted = found])
        /\ IF last /\ faults' = faults THEN Claim(h, "gone") ELSE UNCHANGED claims
  /\ UNCHANGED <<drawn, requests>>

---------------------------------------------------------------------------
(* Clients: read a session, check, patch *)

CopyFrom(h, k) ==
  [request[h] EXCEPT !.cluster = k, !.todo = {}, !.copy = sessions[k][request[h].name].clients,
                     !.at = "patch"]

(* CreateClient asks one cluster only.                                     *)
GetForCreate(h) ==
  /\ request[h].at = "get"
  /\ LET k == request[h].cluster
         n == request[h].name
     IN \/ ReadFails(h)
        \/ /\ ~sessions[k][n].stored /\ UNCHANGED faults
           /\ Continue(h, Answered(h, "NotFound"))
        \/ /\ Present(k, n, request[h].client) /\ UNCHANGED faults
           /\ Continue(h, Answered(h, "conflict"))
        \/ /\ sessions[k][n].stored /\ ~Present(k, n, request[h].client) /\ UNCHANGED faults
           /\ Continue(h, CopyFrom(h, k))
  /\ UNCHANGED <<drawn, requests, claims>>

(* Mutant: a cluster without the session ends the search.                  *)
Mutantfind(h, k) ==
  LET n == request[h].name
      c == request[h].client
  IN \/ ReadFails(h)
     \/ /\ Present(k, n, c) /\ UNCHANGED faults
        /\ Continue(h, IF request[h].op = "GetClient" THEN Answered(h, "ok") ELSE CopyFrom(h, k))
     \/ /\ ~Present(k, n, c) /\ UNCHANGED faults
        /\ Continue(h, IF request[h].todo = {k} \/ ~sessions[k][n].stored
                       THEN Answered(h, "SessionNotFound") ELSE Visited(h, k))

find(h, k) ==
  LET n == request[h].name
      c == request[h].client
  IN \/ ReadFails(h)
     \/ /\ Present(k, n, c) /\ UNCHANGED faults
        /\ Continue(h, IF request[h].op = "GetClient" THEN Answered(h, "ok") ELSE CopyFrom(h, k))
     \/ /\ ~Present(k, n, c) /\ UNCHANGED faults
        /\ Continue(h, IF request[h].todo = {k} THEN Answered(h, "SessionNotFound")
                       ELSE Visited(h, k))

findSessionByClientId(h, k) ==
  /\ request[h].at = "lookup" /\ k \in request[h].todo
  /\ find(h, k)
  /\ UNCHANGED <<drawn, requests, claims>>

(* Mutant: the last cluster's clients only.                                *)
MutantsessionSum(copy, clients) == [c \in ClientIds |-> clients[c]]

(* The clients of all clusters; a cluster that is asked later wins.        *)
sessionSum(copy, clients) ==
  [c \in ClientIds |-> IF clients[c] = "absent" THEN copy[c] ELSE clients[c]]

(* The first cluster without the session ends it.                          *)
findSession(h, k) ==
  /\ request[h].at = "view" /\ k \in request[h].todo
  /\ LET s == sessions[k][request[h].name]
         sum == sessionSum(request[h].copy, s.clients)
     IN \/ ReadFails(h)
        \/ ~s.stored /\ Continue(h, Answered(h, "NotFound")) /\ UNCHANGED faults
        \/ /\ s.stored /\ UNCHANGED faults
           /\ Continue(h, IF request[h].todo = {k}
                          THEN [Answered(h, "session") EXCEPT
                                  !.client = request[h].client, !.copy = sum]
                          ELSE [Visited(h, k) EXCEPT !.copy = sum])
  /\ UNCHANGED <<drawn, requests, claims>>

(* What the patch says of each client: nothing, by "unset".                *)
(* Mutant: DeleteClient too sends the map it has read, without the client. *)
MutantpatchData(r) ==
  [c \in ClientIds |->
     IF c = r.client THEN IF r.op = "DeleteClient" THEN "unset" ELSE r.value
     ELSE IF r.copy[c] = "absent" THEN "unset" ELSE r.copy[c]]

(* CreateClient and UpdateClient send the map they have read, with their   *)
(* client set; DeleteClient sends a null for its client and nothing else.  *)
patchData(r) ==
  [c \in ClientIds |->
     IF c = r.client THEN r.value
     ELSE IF r.op = "DeleteClient" \/ r.copy[c] = "absent" THEN "unset" ELSE r.copy[c]]

(* Mutant: the patch replaces the map.                                     *)
MutantMergePatch(clients, patch) ==
  [c \in ClientIds |-> IF patch[c] = "unset" THEN "absent" ELSE patch[c]]

(* A merge patch leaves alone what it does not name.                       *)
MergePatch(clients, patch) ==
  [c \in ClientIds |-> IF patch[c] = "unset" THEN clients[c] ELSE patch[c]]

(* Mutant: a patch brings a session back that was deleted meanwhile.       *)
MutantpatchSession(h) ==
  /\ request[h].at = "patch"
  /\ LET k == request[h].cluster
         n == request[h].name
         c == request[h].client
         s == sessions[k][n]
     IN Call(h, k, n, [s EXCEPT !.clients = MergePatch(s.clients, patchData(request[h]))],
             [d \in {c} |-> request[h].value], Answered(h, "ok"))
  /\ UNCHANGED <<drawn, requests, claims>>

(* The patch names no resource version: it is applied to what is stored,   *)
(* whatever has happened since the session was read.                       *)
patchSession(h) ==
  /\ request[h].at = "patch"
  /\ LET k == request[h].cluster
         n == request[h].name
         c == request[h].client
         s == sessions[k][n]
     IN IF s.stored
        THEN Call(h, k, n, [s EXCEPT !.clients = MergePatch(s.clients, patchData(request[h]))],
                  [d \in {c} |-> request[h].value], Answered(h, "ok"))
        ELSE \/ ReadFails(h)
             \/ Continue(h, Answered(h, "NotFound")) /\ UNCHANGED faults
  /\ UNCHANGED <<drawn, requests, claims>>

(* The manager is restarted: what handlers were doing is lost.             *)
Restart ==
  /\ Fault("restart")
  /\ request' = [h \in Handlers |-> Idle]
  /\ UNCHANGED <<sessions, drawn, requests, history>>

---------------------------------------------------------------------------

Arrive(h) ==
  \E n \in Names :
     \/ \E k \in Clusters : CreateSession(h, n, k)
     \/ DeleteSession(h, n)
     \/ \E c \in ClientIds :
           \/ \E k \in Clusters : CreateClient(h, n, c, k)
           \/ \E v \in {"off", "on"} : UpdateClient(h, n, c, v)
           \/ GetClient(h, n, c) \/ DeleteClient(h, n, c) \/ GetSession(h, n, c)

Handle(h) ==
  \/ PostPods(h) \/ GetForCreate(h) \/ patchSession(h)
  \/ \E k \in Clusters :
        \/ PostEverywhere(h, k) \/ DeleteEverywhere(h, k)
        \/ findSessionByClientId(h, k) \/ findSession(h, k)

Next == Restart \/ \E h \in Handlers : Arrive(h) \/ Handle(h)

Spec == Init /\ [][Next]_vars

---------------------------------------------------------------------------
(* Properties *)

TypeOK ==
  /\ sessions \in [Clusters -> [Names -> SessionType]]
  /\ request \in [Handlers -> Request]
  /\ drawn \subseteq Names
  /\ requests \in 0..MaxRequests /\ faults \in 0..MaxFaults
  /\ asked \in [Clusters -> [Names -> [ClientIds -> ClientStates]]]
  /\ raced \in [Clusters -> [Names -> SUBSET ClientIds]]
  /\ claims \in [Names -> Clusters \cup {None, "gone"}]

(* Handlers patch with maps they have read earlier, and nothing detects it. *)
(* Still, a client is in the state that the last request on it asked for,   *)
(* unless that request or one before it was carried out while another       *)
(* handler was between reading the session and patching it: who sends his   *)
(* requests on a session one after the other loses nothing, through         *)
(* failures and lost answers.                                               *)
LastWord ==
  \A k \in Clusters, n \in Names : \A c \in ClientIds \ raced[k][n] :
     sessions[k][n].clients[c] = asked[k][n][c]

(* What README.md:19-20 promises without that exception: a client that has  *)
(* left stays away, one that has joined stays, whatever other clients do.   *)
AskedFor ==
  \A k \in Clusters, n \in Names : sessions[k][n].clients = asked[k][n]

(* A session whose creation was answered with success is in every cluster,  *)
(* and its session pods in the requested one alone, until somebody asks to  *)
(* delete it.                                                               *)
CreatedEverywhere ==
  ~NamesCollide =>
    \A n \in Names, k \in Clusters : claims[n] \in Clusters =>
      /\ sessions[k][n].stored
      /\ sessions[k][n].pods <=> n \in WithSessionPods /\ k = claims[n]

(* A session whose deletion was answered with success, or because it was    *)
(* not found, is in no cluster any more, also when an earlier attempt to    *)
(* create or delete it had failed half way.                                 *)
DeletedForGood ==
  \A n \in Names, k \in Clusters : claims[n] = "gone" => ~sessions[k][n].stored

(* "SessionNotFound" is only answered for a client that no cluster had    *)
(* all along: other clusters without the session, as a creation that failed *)
(* half way leaves them, hide nobody.                                       *)
FoundWhereItIs ==
  \A h \in Handlers : request[h].at = "SessionNotFound" => request[h].steady = {}

(* A session that is put together from one cluster after the other, while  *)
(* clients come and go, lists every client that some cluster had all along.*)
SeenWhole ==
  \A h \in Handlers : request[h].at = "session" /\ request[h].steady # {} =>
     request[h].copy[request[h].client] # "absent"

---------------------------------------------------------------------------
(* Why LastWord holds: a copy of all clients agrees with what is stored on  *)
(* every client that has not raced, but for the one it is made for.         *)
CopiesAgree ==
  \A h \in Handlers, k \in Clusters, n \in Names : HoldsCopy(h, k, n) =>
     \A c \in ClientIds \ (raced[k][n] \cup {request[h].client}) :
        request[h].copy[c] = sessions[k][n].clients[c]

(* Why FoundWhereItIs holds: a search that goes on has only been to         *)
(* clusters that did not have the client all along.                         *)
SearchesOn ==
  \A h \in Handlers : request[h].at = "lookup" =>
     \A k \in request[h].steady :
        k \in request[h].todo /\ Present(k, request[h].name, request[h].client)

(* Why SeenWhole holds: so do the clusters that are still to be asked, or  *)
(* the sum has the client already.                                         *)
SumsUp ==
  \A h \in Handlers : request[h].at = "view" =>
     \A k \in request[h].steady :
        /\ Present(k, request[h].name, request[h].client)
        /\ k \in request[h].todo \/ request[h].copy[request[h].client] # "absent"

ManagerInv == CopiesAgree /\ LastWord /\ SearchesOn /\ FoundWhereItIs /\ SumsUp /\ SeenWhole

---------------------------------------------------------------------------
(* Why CreatedEverywhere and DeletedForGood hold *)

Creates(h, n) == request[h].op = "CreateSession" /\ request[h].name = n
Deletes(h, n) == request[h].op = "DeleteSession" /\ request[h].name = n

(* The calls that write whole sessions are those of the two loops.         *)
LoopsOnly ==
  \A h \in Handlers :
     /\ request[h].op = "CreateSession" <=> request[h].at \in {"postPods", "post"}
     /\ request[h].op = "DeleteSession" <=> request[h].at = "delete"

(* While a request is alone, nobody is busy against it.                    *)
NoneAgainst ==
  \A g, h \in Handlers : request[g].alone => ~Against(request[h], request[g])

(* A session is stored, or being created, only once its name is drawn, and *)
(* by one handler.                                                         *)
OneCreator ==
  ~NamesCollide => \A n \in Names :
    /\ n \notin drawn => /\ \A k \in Clusters : ~sessions[k][n].stored
                         /\ \A h \in Handlers : ~Creates(h, n)
    /\ \A g, h \in Handlers : Creates(g, n) /\ Creates(h, n) => g = h

(* A creation that is alone has left what it promises in every cluster it  *)
(* has been to, and nothing else in the others.                            *)
HalfCreated ==
  ~NamesCollide => \A h \in Handlers, n \in Names :
    Creates(h, n) /\ request[h].alone =>
      /\ request[h].at = "postPods" => n \in WithSessionPods /\ request[h].todo = Clusters
      /\ request[h].at = "post" /\ n \in WithSessionPods
           => sessions[request[h].cluster][n].stored
      /\ \A k \in Clusters :
           /\ k \notin request[h].todo => sessions[k][n].stored
           /\ sessions[k][n].stored =>
                (sessions[k][n].pods <=> n \in WithSessionPods /\ k = request[h].cluster)

(* A deletion that is alone has left nothing behind it.                    *)
HalfDeleted ==
  \A h \in Handlers, n \in Names : Deletes(h, n) /\ request[h].alone =>
     \A k \in Clusters \ request[h].todo : ~sessions[k][n].stored

(* Nobody is busy with what would break a promise.                         *)
Unchallenged ==
  \A n \in Names, h \in Handlers :
     /\ ~NamesCollide /\ claims[n] \in Clusters => ~Creates(h, n) /\ ~Deletes(h, n)
     /\ claims[n] = "gone" => ~Creates(h, n)

PromisesInv ==
  /\ LoopsOnly /\ NoneAgainst /\ OneCreator /\ HalfCreated /\ HalfDeleted /\ Unchallenged
  /\ CreatedEverywhere /\ DeletedForGood
=============================================================================
