----------------------- MODULE SessionManagerProofs -----------------------
(***************************************************************************)
(* Theorems about SessionManager: its types, LastWord, FoundWhereItIs,     *)
(* SeenWhole, CreatedEverywhere and DeletedForGood for any number of       *)
(* clusters, sessions, clients and handlers.                               *)
(***************************************************************************)
EXTENDS SessionManager, TLAPS

(* What a step may leave in the store and in a handler.                    *)
StoreOK ==
  /\ sessions \in [Clusters -> [Names -> SessionType]]
  /\ request \in [Handlers -> Request]
  /\ asked \in [Clusters -> [Names -> [ClientIds -> ClientStates]]]
  /\ raced \in [Clusters -> [Names -> SUBSET ClientIds]]

(* Clients asked for, and what for: the argument `wanted' of a call.       *)
Wish == UNION {[W -> ClientStates] : W \in SUBSET ClientIds}

---------------------------------------------------------------------------
(* Lemmas: types *)

(* The constant sessions and the constant requests have their types.       *)
LEMMA ConstantTypes ==
  /\ NoClients \in [ClientIds -> ClientStates]
  /\ NoSession \in SessionType
  /\ \A pods \in BOOLEAN : NewSession(pods) \in SessionType
  /\ Idle \in Request
  /\ Nobody \in Wish /\ NoClients \in Wish
  /\ \A c \in ClientIds, v \in ClientStates : [d \in {c} |-> v] \in Wish
<1>1. NoClients \in [ClientIds -> ClientStates]
  BY DEF NoClients, ClientStates
<1>2. NoSession \in SessionType /\ \A pods \in BOOLEAN : NewSession(pods) \in SessionType
  BY <1>1 DEF NoSession, NewSession, SessionType
<1>3. Idle \in RequestRecord
  BY <1>1 DEF Idle, RequestRecord, ClientStates
<1>4. Idle \in Request
  BY <1>3 DEF Request, Idle, CallsToMake
<1>5. Nobody \in [{} -> ClientStates]
  BY DEF Nobody
<1>6. \A c \in ClientIds, v \in ClientStates : [d \in {c} |-> v] \in [{c} -> ClientStates]
  OBVIOUS
<1>7. \A W \in SUBSET ClientIds : \A f \in [W -> ClientStates] : f \in Wish
  BY Zenon DEF Wish
<1>8. Nobody \in Wish
  <2>1. {} \in SUBSET ClientIds
    OBVIOUS
  <2> QED
    BY <1>5, <1>7, <2>1, Zenon
<1>9. NoClients \in Wish
  <2>1. ClientIds \in SUBSET ClientIds
    OBVIOUS
  <2> QED
    BY <1>1, <1>7, <2>1, Zenon
<1>10. \A c \in ClientIds, v \in ClientStates : [d \in {c} |-> v] \in Wish
  <2>1. \A c \in ClientIds : {c} \in SUBSET ClientIds
    OBVIOUS
  <2> QED
    BY <1>6, <1>7, <2>1, Zenon
<1> QED
  BY <1>1, <1>2, <1>4, <1>8, <1>9, <1>10

(* An answered request has its type.                                       *)
LEMMA AnsweredType ==
  ASSUME StoreOK, NEW h \in Handlers, NEW answer \in Answers \ {"session"}
  PROVE  Answered(h, answer) \in Request
<1>1. request[h] \in RequestRecord
  BY DEF StoreOK, Request
<1>2. Answered(h, answer) \in RequestRecord
  BY <1>1, ConstantTypes DEF Answered, Request, RequestRecord
<1> QED
  BY <1>2 DEF Request, Answered, Idle, CallsToMake, Answers

(* Storing a session and going on with a request keeps the types.          *)
LEMMA StoreType ==
  ASSUME StoreOK, NEW h \in Handlers, NEW k \in Clusters, NEW n \in Names,
         NEW s \in SessionType, NEW wanted \in Wish, NEW r \in Request,
         Store(h, k, n, s, wanted, r)
  PROVE  StoreOK'
<1>1. sessions' \in [Clusters -> [Names -> SessionType]]
  BY DEF StoreOK, Store
<1>2. \A g \in Handlers : [request[g] EXCEPT !.steady = @ \ {k}] \in Request
  BY DEF StoreOK, Request, RequestRecord
<1>3. request' \in [Handlers -> Request]
  BY <1>2 DEF StoreOK, Store
<1>4. DOMAIN wanted \subseteq ClientIds /\ \A c \in DOMAIN wanted : wanted[c] \in ClientStates
  BY DEF Wish
<1>5. [c \in ClientIds |-> IF c \in DOMAIN wanted THEN wanted[c] ELSE asked[k][n][c]]
        \in [ClientIds -> ClientStates]
  BY <1>4 DEF StoreOK
<1>6. asked' \in [Clusters -> [Names -> [ClientIds -> ClientStates]]]
  BY <1>5 DEF StoreOK, Store
<1>7. raced' \in [Clusters -> [Names -> SUBSET ClientIds]]
  BY <1>4 DEF StoreOK, Store
<1> QED
  BY <1>1, <1>3, <1>6, <1>7 DEF StoreOK

(* So does going on without a change in the store.                         *)
LEMMA ContinueType ==
  ASSUME StoreOK, NEW h \in Handlers, NEW r \in Request, Continue(h, r)
  PROVE  StoreOK'
BY DEF StoreOK, Continue

(* So does a call, whether it is answered or fails.                        *)
LEMMA CallType ==
  ASSUME StoreOK, NEW h \in Handlers, NEW k \in Clusters, NEW n \in Names,
         NEW s \in SessionType, NEW wanted \in Wish, NEW r \in Request,
         Call(h, k, n, s, wanted, r)
  PROVE  StoreOK'
<1>1. Answered(h, "BadGateway") \in Request
  BY AnsweredType DEF Answers
<1> QED
  BY <1>1, StoreType, ContinueType DEF Call, CallFails

(* And a read that fails.                                                  *)
LEMMA ReadFailsType ==
  ASSUME StoreOK, NEW h \in Handlers, ReadFails(h)
  PROVE  StoreOK'
BY AnsweredType, ContinueType DEF ReadFails, Answers

(* A call counts as a fault or not, within the bound.                      *)
LEMMA FaultType ==
  ASSUME ManagerConstantsAssumption, faults \in 0..MaxFaults,
         (\E kind \in {"error", "lost", "restart"} : Fault(kind)) \/ UNCHANGED faults
  PROVE  faults' \in 0..MaxFaults
BY DEF Fault, ManagerConstantsAssumption

(* The patches of the handlers lead from clients to clients.               *)
LEMMA PatchType ==
  ASSUME NEW clients \in [ClientIds -> ClientStates], NEW r \in Request
  PROVE  MergePatch(clients, patchData(r)) \in [ClientIds -> ClientStates]
BY DEF MergePatch, patchData, Request, RequestRecord, ClientStates

(* Receiving a request keeps the types, and so do the requests.            *)
LEMMA ReceiveType ==
  ASSUME StoreOK, NEW h \in Handlers, NEW r \in Request, Receive(h, r)
  PROVE  StoreOK'
<1>1. \A q \in Request, b \in BOOLEAN : [q EXCEPT !.alone = b] \in Request
  BY DEF Request, RequestRecord
<1>2. (\A e \in Handlers : ~Against(request[e], r)) \in BOOLEAN
  OBVIOUS
<1>3. request' \in [Handlers -> Request]
  BY <1>1, <1>2 DEF StoreOK, Receive
<1> QED
  BY <1>3 DEF StoreOK, Receive

(* The requests that arrive have their types.                              *)
LEMMA CreateSessionRequest ==
  ASSUME NEW n \in Names, NEW k \in Clusters, NEW a \in {"postPods", "post"}
  PROVE  LET r == [Idle EXCEPT !.op = "CreateSession", !.name = n, !.cluster = k,
                               !.todo = Clusters, !.at = a]
         IN r \in Request /\ r.at = a
<1> DEFINE r == [Idle EXCEPT !.op = "CreateSession", !.name = n, !.cluster = k,
                             !.todo = Clusters, !.at = a]
<1>1. Idle \in RequestRecord
  BY ConstantTypes DEF Request
<1>2. a \in CallsToMake /\ "CreateSession" \in Operations
  BY DEF CallsToMake, Operations
<1>3. r \in RequestRecord
  BY <1>1, <1>2, Zenon DEF RequestRecord
<1>4. r.at = a /\ r.name = n /\ r.cluster = k
  BY DEF Idle
<1> HIDE DEF r
<1>5. r \in Request
  BY <1>3, <1>4 DEF Request
<1> QED
  BY <1>4, <1>5 DEF r

(* Likewise to delete one.                                                 *)
LEMMA DeleteSessionRequest ==
  ASSUME NEW n \in Names
  PROVE  LET r == [Idle EXCEPT !.op = "DeleteSession", !.name = n, !.todo = Clusters,
                               !.at = "delete"]
         IN r \in Request /\ r.at = "delete"
<1> DEFINE r == [Idle EXCEPT !.op = "DeleteSession", !.name = n, !.todo = Clusters,
                             !.at = "delete"]
<1>1. Idle \in RequestRecord
  BY ConstantTypes DEF Request
<1>2. "delete" \in CallsToMake /\ "DeleteSession" \in Operations
  BY DEF CallsToMake, Operations
<1>3. r \in RequestRecord
  BY <1>1, <1>2, Zenon DEF RequestRecord
<1>4. r.at = "delete" /\ r.name = n
  BY DEF Idle
<1> HIDE DEF r
<1>5. r \in Request
  BY <1>3, <1>4 DEF Request
<1> QED
  BY <1>4, <1>5 DEF r

(* Likewise to create a client.                                            *)
LEMMA CreateClientRequest ==
  ASSUME NEW n \in Names, NEW c \in ClientIds, NEW k \in Clusters
  PROVE  LET r == [Idle EXCEPT !.op = "CreateClient", !.name = n, !.client = c, !.value = "on",
                               !.cluster = k, !.at = "get"]
         IN r \in Request /\ r.at = "get"
<1> DEFINE r == [Idle EXCEPT !.op = "CreateClient", !.name = n, !.client = c, !.value = "on",
                             !.cluster = k, !.at = "get"]
<1>1. Idle \in RequestRecord
  BY ConstantTypes DEF Request
<1>2. "get" \in CallsToMake /\ "CreateClient" \in Operations /\ "on" \in ClientStates
  BY DEF CallsToMake, Operations, ClientStates
<1>3. r \in RequestRecord
  BY <1>1, <1>2, Zenon DEF RequestRecord
<1>4. r.at = "get" /\ r.name = n /\ r.cluster = k /\ r.client = c
  BY DEF Idle
<1> HIDE DEF r
<1>5. r \in Request
  BY <1>3, <1>4 DEF Request
<1> QED
  BY <1>4, <1>5 DEF r

(* Likewise what is looked for in one cluster after the other.             *)
LEMMA SearchRequest ==
  ASSUME NEW op \in Operations, NEW at \in {"lookup", "view"},
         NEW n \in Names, NEW c \in ClientIds, NEW v \in ClientStates
  PROVE  LET r == [Idle EXCEPT !.op = op, !.name = n, !.client = c, !.value = v,
                               !.todo = Clusters, !.at = at,
                               !.steady = {k \in Clusters : Present(k, n, c)}]
         IN r \in Request
<1> DEFINE r == [Idle EXCEPT !.op = op, !.name = n, !.client = c, !.value = v,
                             !.todo = Clusters, !.at = at,
                             !.steady = {k \in Clusters : Present(k, n, c)}]
<1>1. Idle \in RequestRecord
  BY ConstantTypes DEF Request
<1>2. at \in CallsToMake /\ {k \in Clusters : Present(k, n, c)} \in SUBSET Clusters
  BY DEF CallsToMake
<1>3. r \in RequestRecord
  BY <1>1, <1>2, Zenon DEF RequestRecord
<1>4. r.at = at /\ r.name = n /\ r.client = c
  BY DEF Idle
<1> HIDE DEF r
<1>5. r \in Request
  BY <1>3, <1>4 DEF Request
<1> QED
  BY <1>5 DEF r

(* Every request that arrives has its type.                                *)
LEMMA ArriveType ==
  ASSUME StoreOK, NEW h \in Handlers, Arrive(h)
  PROVE  StoreOK'
<1>1. PICK n \in Names :
        \/ \E k \in Clusters : CreateSession(h, n, k)
        \/ DeleteSession(h, n)
        \/ \E c \in ClientIds :
              \/ \E k \in Clusters : CreateClient(h, n, c, k)
              \/ \E v \in {"off", "on"} : UpdateClient(h, n, c, v)
              \/ GetClient(h, n, c) \/ DeleteClient(h, n, c) \/ GetSession(h, n, c)
  BY DEF Arrive
<1>2. ASSUME NEW k \in Clusters, CreateSession(h, n, k) PROVE StoreOK'
  <2>1. [Idle EXCEPT !.op = "CreateSession", !.name = n, !.cluster = k, !.todo = Clusters,
                     !.at = IF n \in WithSessionPods THEN "postPods" ELSE "post"] \in Request
    <3>1. (IF n \in WithSessionPods THEN "postPods" ELSE "post") \in {"postPods", "post"}
      OBVIOUS
    <3> QED
      BY <3>1, CreateSessionRequest
  <2> QED
    BY <1>2, <2>1, ReceiveType DEF CreateSession
<1>3. ASSUME DeleteSession(h, n) PROVE StoreOK'
  <2>1. [Idle EXCEPT !.op = "DeleteSession", !.name = n, !.todo = Clusters,
                     !.at = "delete"] \in Request
    BY DeleteSessionRequest
  <2> QED
    BY <1>3, <2>1, ReceiveType DEF DeleteSession
<1>4. ASSUME NEW c \in ClientIds, NEW k \in Clusters, CreateClient(h, n, c, k) PROVE StoreOK'
  <2>1. [Idle EXCEPT !.op = "CreateClient", !.name = n, !.client = c, !.value = "on",
                     !.cluster = k, !.at = "get"] \in Request
    BY CreateClientRequest
  <2> QED
    BY <1>4, <2>1, ReceiveType DEF CreateClient
<1>5. ASSUME NEW op \in Operations, NEW at \in {"lookup", "view"},
             NEW c \in ClientIds, NEW v \in ClientStates, Search(h, op, at, n, c, v)
      PROVE  StoreOK'
  <2>1. [Idle EXCEPT !.op = op, !.name = n, !.client = c, !.value = v, !.todo = Clusters,
                     !.at = at, !.steady = {k \in Clusters : Present(k, n, c)}]
          \in Request
    BY SearchRequest
  <2> QED
    BY <1>5, <2>1, ReceiveType DEF Search
<1> QED
  BY <1>1, <1>2, <1>3, <1>4, <1>5
     DEF GetClient, UpdateClient, DeleteClient, FindClient, GetSession, Operations, ClientStates

(* A handler that has read a session has its type.                         *)
LEMMA CopyType ==
  ASSUME StoreOK, NEW h \in Handlers, NEW k \in Clusters,
         request[h].name \in Names, request[h].client \in ClientIds
  PROVE  CopyFrom(h, k) \in Request
<1>1. request[h] \in RequestRecord
  BY DEF StoreOK, Request
<1>2. sessions[k][request[h].name].clients \in [ClientIds -> ClientStates]
  BY DEF StoreOK, SessionType
<1>3. CopyFrom(h, k) \in RequestRecord
  BY <1>1, <1>2 DEF CopyFrom, RequestRecord, CallsToMake
<1> QED
  BY <1>1, <1>3 DEF CopyFrom, Request, RequestRecord

(* Every call keeps the types.                                             *)
LEMMA PostType ==
  ASSUME StoreOK, NEW h \in Handlers, NEW k \in Clusters, NEW pods \in BOOLEAN,
         NEW r \in Request, request[h].name \in Names, Post(h, k, pods, r)
  PROVE  StoreOK'
<1>1. sessions[k][request[h].name] \in SessionType
  BY DEF StoreOK
<1> QED
  BY <1>1, ConstantTypes, CallType DEF Post

(* The clients that h knows of when cluster k has answered.                *)
SumWith(h, k) == sessionSum(request[h].copy, sessions[k][request[h].name].clients)

(* A handler that has added them has its type, and so has its answer.      *)
LEMMA SumTypes ==
  ASSUME StoreOK, NEW h \in Handlers, NEW k \in Clusters, request[h].at = "view"
  PROVE  /\ [Visited(h, k) EXCEPT !.copy = SumWith(h, k)] \in Request
         /\ [Answered(h, "session") EXCEPT !.client = request[h].client, !.copy = SumWith(h, k)]
              \in Request
<1> DEFINE q == request[h]
           sum == SumWith(h, k)
           visited == [Visited(h, k) EXCEPT !.copy = sum]
           answered == [Answered(h, "session") EXCEPT !.client = q.client, !.copy = sum]
<1>1. q \in RequestRecord /\ q.name \in Names /\ q.client \in ClientIds
  BY DEF StoreOK, Request, CallsToMake
<1>2. q.copy \in [ClientIds -> ClientStates]
      /\ sessions[k][q.name].clients \in [ClientIds -> ClientStates]
  BY <1>1 DEF StoreOK, SessionType, RequestRecord
<1>3. sum \in [ClientIds -> ClientStates]
  BY <1>2 DEF SumWith, sessionSum
<1>4. visited \in RequestRecord /\ visited.at = "view"
      /\ visited.name = q.name /\ visited.client = q.client
  <2> HIDE DEF sum
  <2> QED
    BY <1>1, <1>3 DEF Visited, RequestRecord
<1>5. "session" \in Answers /\ Idle \in RequestRecord
  BY ConstantTypes DEF Answers, Request
<1>6. answered \in RequestRecord /\ answered.at = "session" /\ answered.client = q.client
  <2> HIDE DEF sum
  <2> QED
    BY <1>1, <1>3, <1>5 DEF Answered, RequestRecord
<1> HIDE DEF visited, answered
<1>7. visited \in Request
  BY <1>1, <1>4 DEF Request
<1>8. answered \in Request
  BY <1>1, <1>6 DEF Request, CallsToMake
<1> QED
  BY <1>7, <1>8 DEF visited, answered

(* The steps of a handler keep the types.                                  *)
LEMMA HandleType ==
  ASSUME StoreOK, NEW h \in Handlers, Handle(h)
  PROVE  StoreOK'
<1>1. /\ request[h] \in Request
      /\ request[h].at \in CallsToMake => request[h].name \in Names
      /\ request[h].at \in {"postPods", "post", "get", "patch"} => request[h].cluster \in Clusters
      /\ request[h].at \in {"get", "lookup", "patch"} => request[h].client \in ClientIds
  BY DEF StoreOK, Request
<1>2. \A answer \in Answers \ {"session"} : Answered(h, answer) \in Request
  BY AnsweredType
<1>3. \A k \in Clusters : Visited(h, k) \in Request
  BY <1>1 DEF Visited, Request, RequestRecord
<1>4. CASE PostPods(h)
  <2>1. [request[h] EXCEPT !.at = "post"] \in Request
    BY <1>1, <1>4 DEF PostPods, Request, RequestRecord, CallsToMake
  <2> QED
    BY <1>1, <1>4, <2>1, PostType DEF PostPods, CallsToMake
<1>5. CASE GetForCreate(h)
  <2>1. CopyFrom(h, request[h].cluster) \in Request
    BY <1>1, <1>5, CopyType DEF GetForCreate, CallsToMake
  <2> QED
    BY <1>2, <1>5, <2>1, ReadFailsType, ContinueType DEF GetForCreate, Answers
<1>6. CASE patchSession(h)
  <2> DEFINE k == request[h].cluster
             n == request[h].name
             s == sessions[k][n]
             t == [s EXCEPT !.clients = MergePatch(s.clients, patchData(request[h]))]
  <2>1. k \in Clusters /\ n \in Names /\ request[h].client \in ClientIds
        /\ request[h].value \in ClientStates
    BY <1>1, <1>6 DEF patchSession, CallsToMake, Request, RequestRecord
  <2>2. s \in SessionType
    BY <2>1 DEF StoreOK
  <2>3. CASE s.stored
    <3>1. MergePatch(s.clients, patchData(request[h])) \in [ClientIds -> ClientStates]
      BY <1>1, <2>2, PatchType DEF SessionType
    <3>2. t \in SessionType
      BY <2>2, <2>3, <3>1 DEF SessionType
    <3>3. [d \in {request[h].client} |-> request[h].value] \in Wish
      BY <2>1, ConstantTypes
    <3>4. Call(h, k, n, t, [d \in {request[h].client} |-> request[h].value], Answered(h, "ok"))
      BY <1>6, <2>3 DEF patchSession
    <3> QED
      BY <1>2, <2>1, <3>2, <3>3, <3>4, CallType DEF Answers
  <2>4. CASE ~s.stored
    BY <1>2, <1>6, <2>4, ReadFailsType, ContinueType DEF patchSession, Answers
  <2> QED
    BY <2>3, <2>4
<1>7. ASSUME NEW k \in Clusters, PostEverywhere(h, k) PROVE StoreOK'
  BY <1>1, <1>2, <1>3, <1>7, PostType DEF PostEverywhere, Answers, CallsToMake
<1>8. ASSUME NEW k \in Clusters, DeleteEverywhere(h, k) PROVE StoreOK'
  <2>1. \A found \in BOOLEAN : [Visited(h, k) EXCEPT !.deleted = found] \in Request
    BY <1>3 DEF Request, RequestRecord
  <2>2. request[h].name \in Names
    BY <1>1, <1>8 DEF DeleteEverywhere, CallsToMake
  <2>3. (request[h].deleted \/ sessions[k][request[h].name].stored) \in BOOLEAN
    OBVIOUS
  <2> QED
    BY <1>2, <1>8, <2>1, <2>2, <2>3, ConstantTypes, CallType DEF DeleteEverywhere, Answers
<1>9. ASSUME NEW k \in Clusters, findSessionByClientId(h, k) PROVE StoreOK'
  <2>1. CopyFrom(h, k) \in Request
    BY <1>1, <1>9, CopyType DEF findSessionByClientId, CallsToMake
  <2> QED
    BY <1>2, <1>3, <1>9, <2>1, ReadFailsType, ContinueType
       DEF findSessionByClientId, find, Answers
<1>10. ASSUME NEW k \in Clusters, findSession(h, k) PROVE StoreOK'
  <2>1. /\ [Visited(h, k) EXCEPT !.copy = SumWith(h, k)] \in Request
        /\ [Answered(h, "session") EXCEPT !.client = request[h].client, !.copy = SumWith(h, k)]
             \in Request
    BY <1>10, SumTypes DEF findSession
  <2>2. \/ ReadFails(h)
        \/ Continue(h, Answered(h, "NotFound"))
        \/ Continue(h, [Visited(h, k) EXCEPT !.copy = SumWith(h, k)])
        \/ Continue(h, [Answered(h, "session") EXCEPT !.client = request[h].client,
                                                      !.copy = SumWith(h, k)])
    BY <1>10 DEF findSession, SumWith
  <2> QED
    BY <1>2, <2>1, <2>2, ReadFailsType, ContinueType DEF Answers
<1> QED
  BY <1>4, <1>5, <1>6, <1>7, <1>8, <1>9, <1>10 DEF Handle

(* The initial values have their types.                                    *)
LEMMA InitType ==
  ASSUME ManagerConstantsAssumption, Init
  PROVE  TypeOK
<1>1. StoreOK
  BY ConstantTypes DEF Init, StoreOK, SessionType
<1>2. requests \in 0..MaxRequests /\ faults \in 0..MaxFaults
  BY DEF Init, ManagerConstantsAssumption
<1>3. drawn \subseteq Names /\ claims \in [Names -> Clusters \cup {None, "gone"}]
  BY DEF Init
<1> QED
  BY <1>1, <1>2, <1>3 DEF StoreOK, TypeOK

(* The names, the counters and the claims keep their types.                *)
LEMMA ArriveCounters ==
  ASSUME ManagerConstantsAssumption, TypeOK, NEW h \in Handlers, Arrive(h)
  PROVE  /\ drawn' \subseteq Names
         /\ requests' \in 0..MaxRequests /\ faults' \in 0..MaxFaults
         /\ claims' \in [Names -> Clusters \cup {None, "gone"}]
<1>1. \E r : Receive(h, r)
  BY DEF Arrive, CreateSession, DeleteSession, CreateClient, GetClient, UpdateClient,
         DeleteClient, FindClient, GetSession, Search
<1>2. requests' \in 0..MaxRequests /\ faults' \in 0..MaxFaults
  BY <1>1 DEF Receive, TypeOK, ManagerConstantsAssumption
<1>3. \/ \E n \in Names : drawn' = drawn \cup {n}
      \/ drawn' = drawn
  BY DEF Arrive, CreateSession, DeleteSession, CreateClient, GetClient, UpdateClient,
         DeleteClient, FindClient, GetSession, Search
<1>4. \/ \E n \in Names : claims' = [claims EXCEPT ![n] = None]
      \/ claims' = claims
  BY DEF Arrive, CreateSession, DeleteSession, CreateClient, GetClient, UpdateClient,
         DeleteClient, FindClient, GetSession, Search
<1> QED
  BY <1>2, <1>3, <1>4 DEF TypeOK

(* So do they in the steps of a handler.                                   *)
LEMMA HandleCounters ==
  ASSUME ManagerConstantsAssumption, TypeOK, NEW h \in Handlers, Handle(h)
  PROVE  /\ drawn' \subseteq Names
         /\ requests' \in 0..MaxRequests /\ faults' \in 0..MaxFaults
         /\ claims' \in [Names -> Clusters \cup {None, "gone"}]
<1>1. drawn' = drawn /\ requests' = requests
  BY DEF Handle, PostPods, GetForCreate, patchSession, PostEverywhere, DeleteEverywhere,
         findSessionByClientId, findSession
<1>2. (\E kind \in {"error", "lost", "restart"} : Fault(kind)) \/ UNCHANGED faults
  BY DEF Handle, PostPods, GetForCreate, patchSession, PostEverywhere, DeleteEverywhere,
         findSessionByClientId, find, findSession, Post, Call, CallFails, ReadFails
<1>3. \/ claims' = claims
      \/ \E claim \in Clusters \cup {"gone"} : Claim(h, claim)
  BY DEF Handle, PostPods, GetForCreate, patchSession, PostEverywhere, DeleteEverywhere,
         findSessionByClientId, findSession, TypeOK, Request
<1>4. claims' \in [Names -> Clusters \cup {None, "gone"}]
  BY <1>3 DEF Claim, TypeOK
<1> QED
  BY <1>1, <1>2, <1>4, FaultType DEF TypeOK

(* Theorem: the variables of the session manager have their types.         *)
THEOREM ManagerTypeCorrect == Spec => []TypeOK
<1>1. Init => TypeOK
  BY InitType, ManagerConstantsAssumption
<1>2. TypeOK /\ [Next]_vars => TypeOK'
  <2> SUFFICES ASSUME TypeOK, [Next]_vars PROVE TypeOK'
    OBVIOUS
  <2>1. StoreOK
    BY DEF TypeOK, StoreOK
  <2>2. ASSUME NEW h \in Handlers, Arrive(h) PROVE TypeOK'
    BY <2>1, <2>2, ArriveType, ArriveCounters, ManagerConstantsAssumption DEF TypeOK, StoreOK
  <2>3. ASSUME NEW h \in Handlers, Handle(h) PROVE TypeOK'
    BY <2>1, <2>3, HandleType, HandleCounters, ManagerConstantsAssumption DEF TypeOK, StoreOK
  <2>4. CASE Restart
    <3>1. faults' \in 0..MaxFaults
      BY <2>4, FaultType, ManagerConstantsAssumption DEF Restart, TypeOK
    <3>2. request' \in [Handlers -> Request]
      BY <2>4, ConstantTypes DEF Restart
    <3> QED
      BY <2>4, <3>1, <3>2 DEF Restart, TypeOK, history
  <2>5. CASE UNCHANGED vars
    BY <2>5 DEF TypeOK, vars, history
  <2> QED
    BY <2>2, <2>3, <2>4, <2>5 DEF Next
<1> QED
  BY <1>1, <1>2, PTL DEF Spec

---------------------------------------------------------------------------
(* The invariant *)

(* What CopiesAgree says of one copy.                                      *)
LEMMA CopyAgrees ==
  ASSUME CopiesAgree, NEW g \in Handlers, NEW k \in Clusters, NEW n \in Names,
         HoldsCopy(g, k, n), NEW c \in ClientIds \ (raced[k][n] \cup {request[g].client})
  PROVE  request[g].copy[c] = sessions[k][n].clients[c]
BY DEF CopiesAgree

(* What is to be shown for CopiesAgree after a step.                       *)
LEMMA CopiesAgreeNext ==
  ASSUME \A g \in Handlers :
           request'[g].at = "patch" /\ request'[g].op # "DeleteClient" =>
           \A k \in Clusters, n \in Names :
              request'[g].cluster = k /\ request'[g].name = n =>
              \A c \in ClientIds \ (raced'[k][n] \cup {request'[g].client}) :
                 request'[g].copy[c] = sessions'[k][n].clients[c]
  PROVE  CopiesAgree'
<1> SUFFICES ASSUME NEW g \in Handlers, NEW k \in Clusters, NEW n \in Names,
                    HoldsCopy(g, k, n)',
                    NEW c \in ClientIds \ (raced'[k][n] \cup {request'[g].client})
             PROVE  request'[g].copy[c] = sessions'[k][n].clients[c]
  BY DEF CopiesAgree
<1>1. /\ request'[g].at = "patch" /\ request'[g].op # "DeleteClient"
      /\ request'[g].cluster = k /\ request'[g].name = n
  BY DEF HoldsCopy
<1> QED
  BY <1>1

(* A write keeps it that gives every client the call speaks of what the    *)
(* call asks for, and changes nobody else who has not raced.               *)
LEMMA StoreInv ==
  ASSUME StoreOK, ManagerInv, NEW h \in Handlers, NEW k \in Clusters, NEW n \in Names,
         NEW s \in SessionType, NEW wanted \in Wish, NEW r \in Request,
         Store(h, k, n, s, wanted, r),
         \A c \in DOMAIN wanted : s.clients[c] = wanted[c],
         \A c \in ClientIds \ (raced[k][n] \cup DOMAIN wanted) :
            s.clients[c] = sessions[k][n].clients[c],
         r.at \notin {"patch", "lookup", "view", "session", "SessionNotFound"}
  PROVE  ManagerInv'
<1>1. \A g \in Handlers \ {h} :
        /\ request'[g].steady \subseteq request[g].steady
        /\ k \in request'[g].steady /\ request[g].name = n
             => s.clients[request[g].client] # "absent"
        /\ request'[g].at = request[g].at /\ request'[g].op = request[g].op
        /\ request'[g].name = request[g].name /\ request'[g].client = request[g].client
        /\ request'[g].cluster = request[g].cluster /\ request'[g].todo = request[g].todo
        /\ request'[g].copy = request[g].copy
  <2> SUFFICES ASSUME NEW g \in Handlers \ {h}
               PROVE  /\ request'[g].steady \subseteq request[g].steady
                      /\ k \in request'[g].steady /\ request[g].name = n
                           => s.clients[request[g].client] # "absent"
                      /\ request'[g].at = request[g].at /\ request'[g].op = request[g].op
                      /\ request'[g].name = request[g].name
                      /\ request'[g].client = request[g].client
                      /\ request'[g].cluster = request[g].cluster
                      /\ request'[g].todo = request[g].todo
                      /\ request'[g].copy = request[g].copy
    OBVIOUS
  <2> DEFINE hit == /\ k \in request[g].steady /\ request[g].name = n
                    /\ s.clients[request[g].client] = "absent"
             q == request[g]
  <2>1. q \in RequestRecord
    BY DEF StoreOK, Request
  <2>2. request'[g] = IF hit THEN [q EXCEPT !.steady = @ \ {k}] ELSE q
    BY DEF Store, StoreOK
  <2>3. CASE hit
    <3>1. request'[g] = [q EXCEPT !.steady = @ \ {k}]
      BY <2>2, <2>3
    <3> HIDE DEF hit, q
    <3>2. /\ request'[g].steady = q.steady \ {k} /\ request'[g].at = q.at
          /\ request'[g].op = q.op /\ request'[g].name = q.name
          /\ request'[g].client = q.client /\ request'[g].cluster = q.cluster
          /\ request'[g].todo = q.todo /\ request'[g].copy = q.copy
      BY <2>1, <3>1 DEF RequestRecord
    <3> QED
      BY <3>2 DEF q
  <2>4. CASE ~hit
    BY <2>2, <2>4
  <2> QED
    BY <2>3, <2>4
<1>2. request'[h] = r
  BY DEF Store, StoreOK
<1>3. \A j \in Clusters, m \in Names : ~(j = k /\ m = n) =>
        sessions'[j][m] = sessions[j][m] /\ asked'[j][m] = asked[j][m] /\ raced'[j][m] = raced[j][m]
  BY DEF Store, StoreOK
<1>4. sessions'[k][n] = s
      /\ asked'[k][n] = [c \in ClientIds |-> IF c \in DOMAIN wanted THEN wanted[c] ELSE asked[k][n][c]]
  BY DEF Store, StoreOK
<1>5. raced[k][n] \subseteq raced'[k][n]
      /\ ((\E g \in Handlers \ {h} : HoldsCopy(g, k, n)) => DOMAIN wanted \subseteq raced'[k][n])
  BY DEF Store, StoreOK
<1>6. CopiesAgree'
  <2> SUFFICES ASSUME NEW g \in Handlers, NEW j \in Clusters, NEW m \in Names,
                      request'[g].at = "patch", request'[g].op # "DeleteClient",
                      request'[g].cluster = j, request'[g].name = m,
                      NEW c \in ClientIds \ (raced'[j][m] \cup {request'[g].client})
               PROVE  request'[g].copy[c] = sessions'[j][m].clients[c]
    BY CopiesAgreeNext
  <2>1. g # h
    BY <1>2 DEF HoldsCopy
  <2>2. HoldsCopy(g, j, m)
    BY <1>1, <2>1 DEF HoldsCopy
  <2>3. c \in ClientIds \ (raced[j][m] \cup {request[g].client})
    BY <1>1, <1>3, <1>5, <2>1
  <2>4. request[g].copy[c] = sessions[j][m].clients[c]
    BY <2>2, <2>3, CopyAgrees DEF ManagerInv
  <2>5. CASE j = k /\ m = n
    <3>1. c \notin DOMAIN wanted
      BY <1>5, <2>1, <2>2, <2>5
    <3>2. s.clients[c] = sessions[k][n].clients[c]
      BY <2>3, <2>5, <3>1
    <3> QED
      BY <1>1, <1>4, <2>1, <2>4, <2>5, <3>2
  <2>6. CASE ~(j = k /\ m = n)
    BY <1>1, <1>3, <2>1, <2>4, <2>6
  <2> QED
    BY <2>5, <2>6
<1>7. LastWord'
  <2> SUFFICES ASSUME NEW j \in Clusters, NEW m \in Names, NEW c \in ClientIds \ raced'[j][m]
               PROVE  sessions'[j][m].clients[c] = asked'[j][m][c]
    BY DEF LastWord
  <2>1. c \notin raced[j][m]
    BY <1>3, <1>5
  <2>2. sessions[j][m].clients[c] = asked[j][m][c]
    BY <2>1 DEF ManagerInv, LastWord
  <2>3. CASE j = k /\ m = n
    BY <1>4, <2>1, <2>2, <2>3
  <2>4. CASE ~(j = k /\ m = n)
    BY <1>3, <2>2, <2>4
  <2> QED
    BY <2>3, <2>4
<1>8. SearchesOn'
  <2> SUFFICES ASSUME NEW g \in Handlers, request'[g].at = "lookup", NEW j \in request'[g].steady
               PROVE  j \in request'[g].todo
                      /\ sessions'[j][request'[g].name].clients[request'[g].client] # "absent"
    BY DEF SearchesOn, Present
  <2>1. g # h
    BY <1>2
  <2>2. request[g].at = "lookup" /\ j \in request[g].steady
    BY <1>1, <2>1
  <2>3. j \in request[g].todo /\ sessions[j][request[g].name].clients[request[g].client] # "absent"
    BY <2>2 DEF ManagerInv, SearchesOn, Present
  <2>4. j \in Clusters /\ request[g].name \in Names
    BY <2>2 DEF StoreOK, Request, RequestRecord, CallsToMake
  <2>5. /\ request'[g].name = request[g].name /\ request'[g].client = request[g].client
        /\ request'[g].todo = request[g].todo
    BY <1>1, <2>1
  <2>6. CASE j = k /\ request[g].name = n
    <3>1. s.clients[request[g].client] # "absent"
      BY <1>1, <2>1, <2>6
    <3> QED
      BY <1>4, <2>3, <2>5, <2>6, <3>1
  <2>7. CASE ~(j = k /\ request[g].name = n)
    <3>1. sessions'[j][request[g].name] = sessions[j][request[g].name]
      BY <1>3, <2>4, <2>7
    <3> QED
      BY <2>3, <2>5, <3>1
  <2> QED
    BY <2>6, <2>7
<1>9. FoundWhereItIs'
  BY <1>1, <1>2 DEF ManagerInv, FoundWhereItIs
<1>10. SumsUp'
  <2> SUFFICES ASSUME NEW g \in Handlers, request'[g].at = "view", NEW j \in request'[g].steady
               PROVE  /\ sessions'[j][request'[g].name].clients[request'[g].client] # "absent"
                      /\ \/ j \in request'[g].todo
                         \/ request'[g].copy[request'[g].client] # "absent"
    BY DEF SumsUp, Present
  <2>1. g # h
    BY <1>2
  <2>2. request[g].at = "view" /\ j \in request[g].steady
    BY <1>1, <2>1
  <2>3. /\ sessions[j][request[g].name].clients[request[g].client] # "absent"
        /\ j \in request[g].todo \/ request[g].copy[request[g].client] # "absent"
    BY <2>2 DEF ManagerInv, SumsUp, Present
  <2>4. j \in Clusters /\ request[g].name \in Names
    BY <2>2 DEF StoreOK, Request, RequestRecord, CallsToMake
  <2>5. /\ request'[g].name = request[g].name /\ request'[g].client = request[g].client
        /\ request'[g].todo = request[g].todo /\ request'[g].copy = request[g].copy
    BY <1>1, <2>1
  <2>6. CASE j = k /\ request[g].name = n
    <3>1. s.clients[request[g].client] # "absent"
      BY <1>1, <2>1, <2>6
    <3> QED
      BY <1>4, <2>3, <2>5, <2>6, <3>1
  <2>7. CASE ~(j = k /\ request[g].name = n)
    <3>1. sessions'[j][request[g].name] = sessions[j][request[g].name]
      BY <1>3, <2>4, <2>7
    <3> QED
      BY <2>3, <2>5, <3>1
  <2> QED
    BY <2>6, <2>7
<1>11. SeenWhole'
  <2> SUFFICES ASSUME NEW g \in Handlers, request'[g].at = "session", request'[g].steady # {}
               PROVE  request'[g].copy[request'[g].client] # "absent"
    BY DEF SeenWhole
  <2>1. g # h
    BY <1>2
  <2>2. request[g].at = "session" /\ request[g].steady # {}
    BY <1>1, <2>1
  <2> QED
    BY <1>1, <2>1, <2>2 DEF ManagerInv, SeenWhole
<1> QED
  BY <1>6, <1>7, <1>8, <1>9, <1>10, <1>11 DEF ManagerInv

(* A handler that goes on without a write keeps it, if its copy is fresh   *)
(* and its search has only missed clusters without the client.             *)
LEMMA ContinueInv ==
  ASSUME StoreOK, ManagerInv, NEW h \in Handlers, NEW r, Continue(h, r),
         r.at = "patch" => \A k \in Clusters, n \in Names : r.cluster = k /\ r.name = n =>
                              r.copy = sessions[k][n].clients,
         r.at = "lookup" => \A k \in r.steady : k \in r.todo /\ Present(k, r.name, r.client),
         r.at = "SessionNotFound" => r.steady = {},
         r.at = "view" => \A k \in r.steady :
                            /\ Present(k, r.name, r.client)
                            /\ k \in r.todo \/ r.copy[r.client] # "absent",
         r.at = "session" => r.steady = {} \/ r.copy[r.client] # "absent"
  PROVE  ManagerInv'
<1>1. /\ request'[h] = r
      /\ \A g \in Handlers \ {h} : request'[g] = request[g]
      /\ sessions' = sessions /\ asked' = asked /\ raced' = raced
  BY DEF Continue, StoreOK
<1>2. CopiesAgree'
  <2> SUFFICES ASSUME NEW g \in Handlers, NEW k \in Clusters, NEW n \in Names,
                      request'[g].at = "patch", request'[g].op # "DeleteClient",
                      request'[g].cluster = k, request'[g].name = n,
                      NEW c \in ClientIds \ (raced'[k][n] \cup {request'[g].client})
               PROVE  request'[g].copy[c] = sessions'[k][n].clients[c]
    BY CopiesAgreeNext
  <2>1. CASE g = h
    BY <1>1, <2>1 DEF HoldsCopy
  <2>2. CASE g # h
    <3>1. HoldsCopy(g, k, n) /\ request'[g] = request[g]
      BY <1>1, <2>2 DEF HoldsCopy
    <3>2. c \in ClientIds \ (raced[k][n] \cup {request[g].client})
      BY <1>1, <3>1
    <3>3. request[g].copy[c] = sessions[k][n].clients[c]
      BY <3>1, <3>2, CopyAgrees DEF ManagerInv
    <3> QED
      BY <1>1, <3>1, <3>3
  <2> QED
    BY <2>1, <2>2
<1>3. LastWord' /\ FoundWhereItIs'
  BY <1>1 DEF ManagerInv, LastWord, FoundWhereItIs
<1>4. SearchesOn'
  BY <1>1 DEF ManagerInv, SearchesOn, Present
<1>5. SumsUp' /\ SeenWhole'
  BY <1>1 DEF ManagerInv, SumsUp, SeenWhole, Present
<1> QED
  BY <1>2, <1>3, <1>4, <1>5 DEF ManagerInv

(* A request that arrives has read nothing yet.                            *)
LEMMA ReceiveInv ==
  ASSUME StoreOK, ManagerInv, NEW h \in Handlers, NEW r \in Request, Receive(h, r),
         r.at \notin {"patch", "session", "SessionNotFound"},
         r.at \in {"lookup", "view"} =>
            \A k \in r.steady : k \in r.todo /\ Present(k, r.name, r.client)
  PROVE  ManagerInv'
<1>1. /\ request'[h].at = r.at /\ request'[h].todo = r.todo /\ request'[h].steady = r.steady
      /\ request'[h].name = r.name /\ request'[h].client = r.client
  BY DEF Receive, Request, RequestRecord
<1>2. \A g \in Handlers \ {h} :
        /\ request'[g].at = request[g].at /\ request'[g].op = request[g].op
        /\ request'[g].name = request[g].name /\ request'[g].client = request[g].client
        /\ request'[g].cluster = request[g].cluster /\ request'[g].todo = request[g].todo
        /\ request'[g].copy = request[g].copy /\ request'[g].steady = request[g].steady
  BY DEF Receive, StoreOK, Request, RequestRecord
<1>3. sessions' = sessions /\ asked' = asked /\ raced' = raced
  BY DEF Receive
<1>4. CopiesAgree'
  <2> SUFFICES ASSUME NEW g \in Handlers, NEW k \in Clusters, NEW n \in Names,
                      request'[g].at = "patch", request'[g].op # "DeleteClient",
                      request'[g].cluster = k, request'[g].name = n,
                      NEW c \in ClientIds \ (raced'[k][n] \cup {request'[g].client})
               PROVE  request'[g].copy[c] = sessions'[k][n].clients[c]
    BY CopiesAgreeNext
  <2>1. g # h
    BY <1>1 DEF HoldsCopy
  <2>2. HoldsCopy(g, k, n) /\ request'[g].client = request[g].client
        /\ request'[g].copy = request[g].copy
    BY <1>2, <2>1 DEF HoldsCopy
  <2>3. c \in ClientIds \ (raced[k][n] \cup {request[g].client})
    BY <1>3, <2>2
  <2>4. request[g].copy[c] = sessions[k][n].clients[c]
    BY <2>2, <2>3, CopyAgrees DEF ManagerInv
  <2> QED
    BY <1>3, <2>2, <2>4
<1>5. LastWord' /\ FoundWhereItIs'
  BY <1>1, <1>2, <1>3 DEF ManagerInv, LastWord, FoundWhereItIs
<1>6. SearchesOn'
  <2> SUFFICES ASSUME NEW g \in Handlers, request'[g].at = "lookup", NEW k \in request'[g].steady
               PROVE  k \in request'[g].todo
                      /\ sessions'[k][request'[g].name].clients[request'[g].client] # "absent"
    BY DEF SearchesOn, Present
  <2>1. CASE g = h
    BY <1>1, <1>3, <2>1 DEF Present
  <2>2. CASE g # h
    <3>1. request[g].at = "lookup" /\ k \in request[g].steady
      BY <1>2, <2>2
    <3>2. k \in request[g].todo /\ Present(k, request[g].name, request[g].client)
      BY <3>1 DEF ManagerInv, SearchesOn
    <3> QED
      BY <1>2, <1>3, <2>2, <3>2 DEF Present
  <2> QED
    BY <2>1, <2>2
<1>7. SumsUp'
  <2> SUFFICES ASSUME NEW g \in Handlers, request'[g].at = "view", NEW k \in request'[g].steady
               PROVE  /\ sessions'[k][request'[g].name].clients[request'[g].client] # "absent"
                      /\ \/ k \in request'[g].todo
                         \/ request'[g].copy[request'[g].client] # "absent"
    BY DEF SumsUp, Present
  <2>1. CASE g = h
    BY <1>1, <1>3, <2>1 DEF Present
  <2>2. CASE g # h
    <3>1. request[g].at = "view" /\ k \in request[g].steady
      BY <1>2, <2>2
    <3>2. /\ Present(k, request[g].name, request[g].client)
          /\ k \in request[g].todo \/ request[g].copy[request[g].client] # "absent"
      BY <3>1 DEF ManagerInv, SumsUp
    <3> QED
      BY <1>2, <1>3, <2>2, <3>2 DEF Present
  <2> QED
    BY <2>1, <2>2
<1>8. SeenWhole'
  BY <1>1, <1>2 DEF ManagerInv, SeenWhole
<1> QED
  BY <1>4, <1>5, <1>6, <1>7, <1>8 DEF ManagerInv

(* Where an answered request stands.                                       *)
LEMMA AnsweredAt ==
  ASSUME NEW h \in Handlers, NEW answer
  PROVE  Answered(h, answer).at = answer /\ Answered(h, answer).steady = request[h].steady
BY DEF Answered, Idle

(* Every arrival keeps the invariant.                                      *)
LEMMA ArriveInv ==
  ASSUME StoreOK, ManagerInv, NEW h \in Handlers, Arrive(h)
  PROVE  ManagerInv'
<1>1. PICK n \in Names :
        \/ \E k \in Clusters : CreateSession(h, n, k)
        \/ DeleteSession(h, n)
        \/ \E c \in ClientIds :
              \/ \E k \in Clusters : CreateClient(h, n, c, k)
              \/ \E v \in {"off", "on"} : UpdateClient(h, n, c, v)
              \/ GetClient(h, n, c) \/ DeleteClient(h, n, c) \/ GetSession(h, n, c)
  BY DEF Arrive
<1>2. ASSUME NEW k \in Clusters, CreateSession(h, n, k) PROVE ManagerInv'
  <2> DEFINE r == [Idle EXCEPT !.op = "CreateSession", !.name = n, !.cluster = k,
                     !.todo = Clusters,
                     !.at = IF n \in WithSessionPods THEN "postPods" ELSE "post"]
  <2>1. (IF n \in WithSessionPods THEN "postPods" ELSE "post") \in {"postPods", "post"}
    OBVIOUS
  <2>2. r \in Request /\ r.at \in {"postPods", "post"}
    BY <2>1, CreateSessionRequest
  <2>3. Receive(h, r)
    BY <1>2 DEF CreateSession
  <2> HIDE DEF r
  <2> QED
    BY <2>2, <2>3, ReceiveInv
<1>3. ASSUME DeleteSession(h, n) PROVE ManagerInv'
  <2> DEFINE r == [Idle EXCEPT !.op = "DeleteSession", !.name = n, !.todo = Clusters,
                     !.at = "delete"]
  <2>1. r \in Request /\ r.at = "delete"
    BY DeleteSessionRequest
  <2>2. Receive(h, r)
    BY <1>3 DEF DeleteSession
  <2> HIDE DEF r
  <2> QED
    BY <2>1, <2>2, ReceiveInv
<1>4. ASSUME NEW c \in ClientIds, NEW k \in Clusters, CreateClient(h, n, c, k) PROVE ManagerInv'
  <2> DEFINE r == [Idle EXCEPT !.op = "CreateClient", !.name = n, !.client = c, !.value = "on",
                     !.cluster = k, !.at = "get"]
  <2>1. r \in Request /\ r.at = "get"
    BY CreateClientRequest
  <2>2. Receive(h, r)
    BY <1>4 DEF CreateClient
  <2> HIDE DEF r
  <2> QED
    BY <2>1, <2>2, ReceiveInv
<1>5. ASSUME NEW op \in Operations, NEW at \in {"lookup", "view"},
             NEW c \in ClientIds, NEW v \in ClientStates, Search(h, op, at, n, c, v)
      PROVE  ManagerInv'
  <2> DEFINE r == [Idle EXCEPT !.op = op, !.name = n, !.client = c, !.value = v,
                     !.todo = Clusters, !.at = at,
                     !.steady = {k \in Clusters : Present(k, n, c)}]
  <2>1. r \in Request
    BY SearchRequest
  <2>2. r.at = at /\ r.todo = Clusters /\ r.name = n /\ r.client = c
        /\ r.steady = {k \in Clusters : Present(k, n, c)}
    BY DEF Idle
  <2>3. Receive(h, r)
    BY <1>5 DEF Search
  <2>4. \A k \in r.steady : k \in r.todo /\ Present(k, r.name, r.client)
    BY <2>2 DEF Present
  <2> HIDE DEF r
  <2> QED
    BY <2>1, <2>2, <2>3, <2>4, ReceiveInv
<1> QED
  BY <1>1, <1>2, <1>3, <1>4, <1>5
     DEF GetClient, UpdateClient, DeleteClient, FindClient, GetSession, Operations, ClientStates

(* A read that fails keeps it.                                             *)
LEMMA ReadFailsInv ==
  ASSUME StoreOK, ManagerInv, NEW h \in Handlers, ReadFails(h)
  PROVE  ManagerInv'
<1>1. Answered(h, "BadGateway").at = "BadGateway"
  BY AnsweredAt DEF Answers
<1> QED
  BY <1>1, ContinueInv DEF ReadFails

(* A call that writes keeps it, answered or not.                           *)
LEMMA CallInv ==
  ASSUME StoreOK, ManagerInv, NEW h \in Handlers, NEW k \in Clusters, NEW n \in Names,
         NEW s \in SessionType, NEW wanted \in Wish, NEW r \in Request,
         Call(h, k, n, s, wanted, r),
         \A c \in DOMAIN wanted : s.clients[c] = wanted[c],
         \A c \in ClientIds \ (raced[k][n] \cup DOMAIN wanted) :
            s.clients[c] = sessions[k][n].clients[c],
         r.at \notin {"patch", "lookup", "view", "session", "SessionNotFound"}
  PROVE  ManagerInv'
<1>1. Answered(h, "BadGateway") \in Request /\ Answered(h, "BadGateway").at = "BadGateway"
  BY AnsweredType, AnsweredAt DEF Answers
<1>2. CASE Store(h, k, n, s, wanted, r)
  BY <1>2, StoreInv
<1>3. CASE Continue(h, Answered(h, "BadGateway"))
  BY <1>1, <1>3, ContinueInv
<1>4. CASE Store(h, k, n, s, wanted, Answered(h, "BadGateway"))
  BY <1>1, <1>4, StoreInv
<1> QED
  BY <1>2, <1>3, <1>4 DEF Call, CallFails

(* Creating a session in one cluster keeps it.                             *)
LEMMA PostInv ==
  ASSUME StoreOK, ManagerInv, NEW h \in Handlers, NEW k \in Clusters, NEW pods \in BOOLEAN,
         NEW r \in Request, request[h].name \in Names, Post(h, k, pods, r),
         r.at \notin {"patch", "lookup", "view", "session", "SessionNotFound"}
  PROVE  ManagerInv'
<1> DEFINE n == request[h].name
<1>1. sessions[k][n] \in SessionType
  BY DEF StoreOK
<1>2. CASE sessions[k][n].stored
  <2>1. Call(h, k, n, sessions[k][n], Nobody, r)
    BY <1>2 DEF Post
  <2>2. Nobody \in Wish /\ DOMAIN Nobody = {}
    BY ConstantTypes DEF Nobody
  <2> QED
    BY <1>1, <2>1, <2>2, CallInv
<1>3. CASE ~sessions[k][n].stored
  <2>1. Call(h, k, n, NewSession(pods), NoClients, r)
    BY <1>3 DEF Post
  <2>2. /\ NoClients \in Wish /\ DOMAIN NoClients = ClientIds
        /\ NewSession(pods) \in SessionType /\ NewSession(pods).clients = NoClients
    BY ConstantTypes DEF NoClients, NewSession
  <2> QED
    BY <2>1, <2>2, CallInv
<1> QED
  BY <1>2, <1>3

(* The patch: whoever it does not ask for stays as stored, or has raced.   *)
LEMMA PatchInv ==
  ASSUME StoreOK, ManagerInv, NEW h \in Handlers, patchSession(h)
  PROVE  ManagerInv'
<1> DEFINE q == request[h]
           k == q.cluster
           n == q.name
           s == sessions[k][n]
           t == [s EXCEPT !.clients = MergePatch(s.clients, patchData(q))]
           wanted == [d \in {q.client} |-> q.value]
<1>1. /\ q \in Request /\ q.at = "patch" /\ k \in Clusters /\ n \in Names
      /\ q.client \in ClientIds /\ q.value \in ClientStates
      /\ q.copy \in [ClientIds -> ClientStates]
  BY DEF patchSession, StoreOK, Request, RequestRecord, CallsToMake
<1>2. s \in SessionType /\ s.clients \in [ClientIds -> ClientStates]
  BY <1>1 DEF StoreOK, SessionType
<1>3. \A answer \in {"ok", "NotFound"} :
        Answered(h, answer) \in Request /\ Answered(h, answer).at = answer
  BY AnsweredType, AnsweredAt DEF Answers
<1>4. CASE s.stored
  <2>1. Call(h, k, n, t, wanted, Answered(h, "ok"))
    BY <1>4 DEF patchSession
  <2>2. MergePatch(s.clients, patchData(q)) \in [ClientIds -> ClientStates]
    BY <1>1, <1>2, PatchType
  <2>3. t \in SessionType /\ t.clients = MergePatch(s.clients, patchData(q))
    BY <1>2, <1>4, <2>2 DEF SessionType
  <2>4. wanted \in Wish /\ DOMAIN wanted = {q.client}
    BY <1>1, ConstantTypes
  <2>5. t.clients[q.client] = wanted[q.client]
    <3>1. MergePatch(s.clients, patchData(q))[q.client] = q.value
      BY <1>1 DEF MergePatch, patchData, ClientStates
    <3> QED
      BY <2>3, <3>1
  <2>6. ASSUME NEW c \in ClientIds \ (raced[k][n] \cup {q.client})
        PROVE  t.clients[c] = s.clients[c]
    <3>1. CASE q.op = "DeleteClient"
      BY <2>3, <3>1 DEF MergePatch, patchData
    <3>2. CASE q.op # "DeleteClient"
      <4>1. HoldsCopy(h, k, n)
        BY <1>1, <3>2 DEF HoldsCopy
      <4>2. q.copy[c] = s.clients[c]
        BY <1>1, <4>1 DEF ManagerInv, CopiesAgree
      <4> QED
        BY <2>3, <4>2 DEF MergePatch, patchData
    <3> QED
      BY <3>1, <3>2
  <2> HIDE DEF q, k, n, t, wanted
  <2> QED
    BY <1>1, <1>3, <2>1, <2>3, <2>4, <2>5, <2>6, CallInv
<1>5. CASE ~s.stored
  <2>1. ReadFails(h) \/ Continue(h, Answered(h, "NotFound"))
    BY <1>5 DEF patchSession
  <2> QED
    BY <1>3, <2>1, ReadFailsInv, ContinueInv
<1> QED
  BY <1>4, <1>5

(* What a handler that has read a session goes on with.                    *)
LEMMA CopyFields ==
  ASSUME StoreOK, NEW h \in Handlers, NEW k \in Clusters
  PROVE  /\ CopyFrom(h, k).at = "patch"
         /\ CopyFrom(h, k).cluster = k /\ CopyFrom(h, k).name = request[h].name
         /\ CopyFrom(h, k).copy = sessions[k][request[h].name].clients
BY DEF CopyFrom, StoreOK, Request, RequestRecord

(* What a handler that has visited a cluster goes on with.                 *)
LEMMA VisitedFields ==
  ASSUME StoreOK, NEW h \in Handlers, NEW k \in Clusters
  PROVE  /\ Visited(h, k) \in Request
         /\ Visited(h, k).at = request[h].at
         /\ Visited(h, k).name = request[h].name /\ Visited(h, k).client = request[h].client
         /\ Visited(h, k).todo = request[h].todo \ {k}
         /\ Visited(h, k).steady = request[h].steady
<1>1. request[h] \in RequestRecord
  BY DEF StoreOK, Request
<1>2. /\ Visited(h, k).at = request[h].at
      /\ Visited(h, k).name = request[h].name /\ Visited(h, k).client = request[h].client
      /\ Visited(h, k).cluster = request[h].cluster
      /\ Visited(h, k).todo = request[h].todo \ {k}
      /\ Visited(h, k).steady = request[h].steady
  BY <1>1 DEF Visited, RequestRecord
<1>3. Visited(h, k) \in RequestRecord
  BY <1>1 DEF Visited, RequestRecord
<1>4. request[h] \in Request
  BY DEF StoreOK
<1> QED
  BY <1>2, <1>3, <1>4 DEF Request

(* The copy that CreateClient takes is fresh.                              *)
LEMMA GetInv ==
  ASSUME StoreOK, ManagerInv, NEW h \in Handlers, GetForCreate(h)
  PROVE  ManagerInv'
<1>1. request[h].cluster \in Clusters
  BY DEF GetForCreate, StoreOK, Request
<1>2. \A answer \in {"NotFound", "conflict"} : Answered(h, answer).at = answer
  BY AnsweredAt DEF Answers
<1>3. \/ ReadFails(h)
      \/ \E answer \in {"NotFound", "conflict"} : Continue(h, Answered(h, answer))
      \/ Continue(h, CopyFrom(h, request[h].cluster))
  BY DEF GetForCreate
<1>4. CASE Continue(h, CopyFrom(h, request[h].cluster))
  <2> DEFINE r == CopyFrom(h, request[h].cluster)
  <2>1. r.at = "patch" /\ \A k \in Clusters, n \in Names :
          r.cluster = k /\ r.name = n => r.copy = sessions[k][n].clients
    BY <1>1, CopyFields
  <2> HIDE DEF r
  <2> QED
    BY <1>4, <2>1, ContinueInv DEF r
<1> QED
  BY <1>2, <1>3, <1>4, ReadFailsInv, ContinueInv

(* A search copies what it finds, and only gives up where nothing was      *)
(* steady.                                                                 *)
LEMMA FindInv ==
  ASSUME StoreOK, ManagerInv, NEW h \in Handlers, NEW k \in Clusters,
         findSessionByClientId(h, k)
  PROVE  ManagerInv'
<1> DEFINE q == request[h]
<1>1. q.at = "lookup" /\ k \in q.todo
  BY DEF findSessionByClientId
<1>2. \A j \in q.steady : j \in q.todo /\ Present(j, q.name, q.client)
  BY <1>1 DEF ManagerInv, SearchesOn
<1>3. \A answer \in {"ok", "SessionNotFound"} :
        Answered(h, answer).at = answer /\ Answered(h, answer).steady = q.steady
  BY AnsweredAt DEF Answers
<1>4. \/ ReadFails(h)
      \/ Continue(h, Answered(h, "ok")) \/ Continue(h, CopyFrom(h, k))
      \/ ~Present(k, q.name, q.client) /\ q.todo = {k} /\ Continue(h, Answered(h, "SessionNotFound"))
      \/ ~Present(k, q.name, q.client) /\ Continue(h, Visited(h, k))
  BY DEF findSessionByClientId, find
<1>5. CASE Continue(h, CopyFrom(h, k))
  <2> DEFINE r == CopyFrom(h, k)
  <2>1. r.at = "patch" /\ \A j \in Clusters, n \in Names :
          r.cluster = j /\ r.name = n => r.copy = sessions[j][n].clients
    BY CopyFields
  <2> HIDE DEF r
  <2> QED
    BY <1>5, <2>1, ContinueInv DEF r
<1>6. CASE ~Present(k, q.name, q.client) /\ q.todo = {k}
           /\ Continue(h, Answered(h, "SessionNotFound"))
  <2>1. q.steady = {}
    BY <1>2, <1>6
  <2> QED
    BY <1>3, <1>6, <2>1, ContinueInv
<1>7. CASE ~Present(k, q.name, q.client) /\ Continue(h, Visited(h, k))
  <2>1. k \notin q.steady
    BY <1>2, <1>7
  <2>2. \A j \in Visited(h, k).steady :
          j \in Visited(h, k).todo /\ Present(j, Visited(h, k).name, Visited(h, k).client)
    BY <1>2, <2>1, VisitedFields
  <2> QED
    BY <1>1, <1>7, <2>2, VisitedFields, ContinueInv
<1> QED
  BY <1>3, <1>4, <1>5, <1>6, <1>7, ReadFailsInv, ContinueInv

(* The sum of the clusters has every steady client of those it has asked.  *)
LEMMA SumInv ==
  ASSUME StoreOK, ManagerInv, NEW h \in Handlers, NEW k \in Clusters, findSession(h, k)
  PROVE  ManagerInv'
<1> DEFINE q == request[h]
           sum == SumWith(h, k)
           visited == [Visited(h, k) EXCEPT !.copy = sum]
           answered == [Answered(h, "session") EXCEPT !.client = q.client, !.copy = sum]
<1>1. q.at = "view" /\ k \in q.todo /\ q \in RequestRecord
      /\ q.name \in Names /\ q.client \in ClientIds
  BY DEF findSession, StoreOK, Request, CallsToMake
<1>2. \A j \in q.steady : /\ Present(j, q.name, q.client)
                          /\ j \in q.todo \/ q.copy[q.client] # "absent"
  BY <1>1 DEF ManagerInv, SumsUp
<1>3. /\ Present(k, q.name, q.client) => sum[q.client] # "absent"
      /\ q.copy[q.client] # "absent" => sum[q.client] # "absent"
  BY <1>1 DEF SumWith, sessionSum, Present
<1>4. \/ ReadFails(h)
      \/ Continue(h, Answered(h, "NotFound"))
      \/ Continue(h, visited)
      \/ q.todo = {k} /\ Continue(h, answered)
  BY DEF findSession, SumWith
<1>5. Answered(h, "NotFound").at = "NotFound"
  BY AnsweredAt DEF Answers
<1> HIDE DEF sum
<1>6. CASE Continue(h, visited)
  <2>1. /\ visited.at = "view" /\ visited.name = q.name /\ visited.client = q.client
        /\ visited.todo = q.todo \ {k} /\ visited.steady = q.steady /\ visited.copy = sum
    BY <1>1 DEF Visited, RequestRecord
  <2>2. \A j \in visited.steady :
           /\ Present(j, visited.name, visited.client)
           /\ j \in visited.todo \/ visited.copy[visited.client] # "absent"
    BY <1>2, <1>3, <2>1
  <2> HIDE DEF visited
  <2> QED
    BY <1>6, <2>1, <2>2, ContinueInv
<1>7. CASE q.todo = {k} /\ Continue(h, answered)
  <2>1. /\ answered.at = "session" /\ answered.steady = q.steady
        /\ answered.client = q.client /\ answered.copy = sum
    BY DEF Answered, Idle
  <2>2. answered.steady = {} \/ answered.copy[answered.client] # "absent"
    BY <1>2, <1>3, <1>7, <2>1
  <2> HIDE DEF answered
  <2> QED
    BY <1>7, <2>1, <2>2, ContinueInv
<1> QED
  BY <1>4, <1>5, <1>6, <1>7, ReadFailsInv, ContinueInv

(* Creating and deleting sessions keep it.                                 *)
LEMMA PostEverywhereInv ==
  ASSUME StoreOK, ManagerInv, NEW h \in Handlers, NEW k \in Clusters, PostEverywhere(h, k)
  PROVE  ManagerInv'
<1>1. request[h].at = "post" /\ request[h].name \in Names
  BY DEF PostEverywhere, StoreOK, Request, CallsToMake
<1>2. Answered(h, "created") \in Request /\ Answered(h, "created").at = "created"
  BY AnsweredType, AnsweredAt DEF Answers
<1>3. Post(h, k, FALSE, Answered(h, "created")) \/ Post(h, k, FALSE, Visited(h, k))
  BY DEF PostEverywhere
<1> QED
  BY <1>1, <1>2, <1>3, VisitedFields, PostInv

(* Deleting a session in one cluster keeps it.                             *)
LEMMA DeleteEverywhereInv ==
  ASSUME StoreOK, ManagerInv, NEW h \in Handlers, NEW k \in Clusters, DeleteEverywhere(h, k)
  PROVE  ManagerInv'
<1> DEFINE n == request[h].name
           s == sessions[k][n]
           wanted == IF s.stored THEN NoClients ELSE Nobody
<1>1. request[h].at = "delete" /\ n \in Names
  BY DEF DeleteEverywhere, StoreOK, Request, CallsToMake
<1>2. \A answer \in {"ok", "NotFound"} :
        Answered(h, answer) \in Request /\ Answered(h, answer).at = answer
  BY AnsweredType, AnsweredAt DEF Answers
<1>3. \A found \in BOOLEAN : /\ [Visited(h, k) EXCEPT !.deleted = found] \in Request
                             /\ [Visited(h, k) EXCEPT !.deleted = found].at = "delete"
  BY <1>1, VisitedFields DEF Request, RequestRecord
<1>4. PICK r \in Request : r.at \in {"ok", "NotFound", "delete"}
                           /\ Call(h, k, n, NoSession, wanted, r)
  <2>1. (request[h].deleted \/ s.stored) \in BOOLEAN
    OBVIOUS
  <2> QED
    BY <1>2, <1>3, <2>1 DEF DeleteEverywhere
<1>5. s \in SessionType /\ (~s.stored => s = NoSession)
  BY <1>1 DEF StoreOK, SessionType
<1>6. /\ NoSession \in SessionType /\ NoSession.clients = NoClients /\ wanted \in Wish
      /\ DOMAIN NoClients = ClientIds /\ DOMAIN Nobody = {}
  BY ConstantTypes DEF NoSession, NoClients, Nobody
<1>7. \A c \in DOMAIN wanted : NoSession.clients[c] = wanted[c]
  BY <1>6
<1>8. \A c \in ClientIds \ (raced[k][n] \cup DOMAIN wanted) : NoSession.clients[c] = s.clients[c]
  BY <1>5, <1>6
<1>9. r.at \notin {"patch", "lookup", "view", "session", "SessionNotFound"}
  BY <1>4
<1>10. n \in Names /\ Call(h, k, n, NoSession, wanted, r)
  BY <1>1, <1>4
<1> HIDE DEF n, wanted
<1> QED
  BY <1>6, <1>7, <1>8, <1>9, <1>10, CallInv

(* Every step of a handler keeps it.                                       *)
LEMMA HandleInv ==
  ASSUME StoreOK, ManagerInv, NEW h \in Handlers, Handle(h)
  PROVE  ManagerInv'
<1>1. CASE PostPods(h)
  <2>1. request[h].cluster \in Clusters /\ request[h].name \in Names
    BY <1>1 DEF PostPods, StoreOK, Request, CallsToMake
  <2>2. [request[h] EXCEPT !.at = "post"] \in Request
    <3>1. request[h] \in RequestRecord
      BY DEF StoreOK, Request
    <3> QED
      BY <2>1, <3>1 DEF Request, RequestRecord, CallsToMake
  <2>3. [request[h] EXCEPT !.at = "post"].at = "post"
    BY DEF StoreOK, Request, RequestRecord
  <2> QED
    BY <1>1, <2>1, <2>2, <2>3, PostInv DEF PostPods
<1> QED
  BY <1>1, GetInv, PatchInv, FindInv, SumInv, PostEverywhereInv, DeleteEverywhereInv DEF Handle

(* Theorem: the invariant of the session manager.                          *)
THEOREM ManagerInductive == Spec => [](TypeOK /\ ManagerInv)
<1>1. Init => TypeOK /\ ManagerInv
  <2> SUFFICES ASSUME Init PROVE TypeOK /\ ManagerInv
    OBVIOUS
  <2>1. TypeOK
    BY InitType, ManagerConstantsAssumption
  <2>2. \A h \in Handlers : request[h].at = "idle"
    BY DEF Init, Idle
  <2>3. CopiesAgree /\ SearchesOn /\ FoundWhereItIs /\ SumsUp /\ SeenWhole
    BY <2>2 DEF CopiesAgree, HoldsCopy, SearchesOn, FoundWhereItIs, SumsUp, SeenWhole
  <2>4. LastWord
    BY DEF Init, LastWord
  <2> QED
    BY <2>1, <2>3, <2>4 DEF ManagerInv
<1>2. TypeOK /\ ManagerInv /\ [Next]_vars => ManagerInv'
  <2> SUFFICES ASSUME TypeOK, ManagerInv, [Next]_vars PROVE ManagerInv'
    OBVIOUS
  <2>1. StoreOK
    BY DEF TypeOK, StoreOK
  <2>2. ASSUME NEW h \in Handlers, Arrive(h) \/ Handle(h) PROVE ManagerInv'
    BY <2>1, <2>2, ArriveInv, HandleInv
  <2>3. CASE Restart
    <3>1. \A h \in Handlers : request'[h].at = "idle"
      BY <2>3 DEF Restart, Idle
    <3>2. CopiesAgree' /\ SearchesOn' /\ FoundWhereItIs' /\ SumsUp' /\ SeenWhole'
      BY <3>1 DEF CopiesAgree, HoldsCopy, SearchesOn, FoundWhereItIs, SumsUp, SeenWhole
    <3>3. LastWord'
      BY <2>3 DEF Restart, history, ManagerInv, LastWord
    <3> QED
      BY <3>2, <3>3 DEF ManagerInv
  <2>4. CASE UNCHANGED vars
    <3>1. sessions' = sessions /\ request' = request /\ asked' = asked /\ raced' = raced
      BY <2>4 DEF vars, history
    <3>2. CopiesAgree'
      BY <3>1 DEF ManagerInv, CopiesAgree, HoldsCopy
    <3>3. LastWord' /\ SearchesOn' /\ FoundWhereItIs'
      BY <3>1 DEF ManagerInv, LastWord, SearchesOn, Present, FoundWhereItIs
    <3>4. SumsUp' /\ SeenWhole'
      BY <3>1 DEF ManagerInv, SumsUp, SeenWhole, Present
    <3> QED
      BY <3>2, <3>3, <3>4 DEF ManagerInv
  <2> QED
    BY <2>2, <2>3, <2>4 DEF Next
<1>3. Spec => []TypeOK
  BY ManagerTypeCorrect
<1> QED
  BY <1>1, <1>2, <1>3, PTL DEF Spec

(* Theorem: a client is in the state last asked for, unless its request    *)
(* met another that held a copy.                                           *)
THEOREM LastWordHolds == Spec => []LastWord
<1>1. ManagerInv => LastWord
  BY DEF ManagerInv
<1> QED
  BY <1>1, ManagerInductive, PTL

(* Theorem: a client that is in some cluster throughout is found.          *)
THEOREM FoundWhereItIsHolds == Spec => []FoundWhereItIs
<1>1. ManagerInv => FoundWhereItIs
  BY DEF ManagerInv
<1> QED
  BY <1>1, ManagerInductive, PTL

(* Theorem: a session that is put together lists every client that some    *)
(* cluster had all along.                                                  *)
THEOREM SeenWholeHolds == Spec => []SeenWhole
<1>1. ManagerInv => SeenWhole
  BY DEF ManagerInv
<1> QED
  BY <1>1, ManagerInductive, PTL

---------------------------------------------------------------------------
(* What answers to creations and deletions promise *)

(* What handlers that do not take the step keep of a request: it can only  *)
(* cease to be alone.                                                      *)
Undisturbed(q, r) ==
  /\ q.op = r.op /\ q.name = r.name /\ q.cluster = r.cluster
  /\ q.todo = r.todo /\ q.at = r.at /\ (q.alone => r.alone)

(* A request that is in no loop over the clusters.                         *)
Aside(r) ==
  /\ r.op \notin {"CreateSession", "DeleteSession"}
  /\ r.at \notin {"postPods", "post", "delete"}

SameSessions ==
  \A k \in Clusters, n \in Names :
     /\ sessions'[k][n].stored = sessions[k][n].stored
     /\ sessions'[k][n].pods = sessions[k][n].pods

LEMMA AgainstCases ==
  ASSUME NEW q, NEW r
  PROVE  Against(q, r) <=>
           /\ q.name = r.name
           /\ \/ q.op = "CreateSession" /\ r.op = "DeleteSession"
              \/ q.op = "DeleteSession" /\ r.op = "CreateSession"
BY DEF Against

(* Steps that store nothing new keep the promises.                         *)
LEMMA QuietStep ==
  ASSUME StoreOK, PromisesInv, SameSessions, claims' = claims, drawn' = drawn,
         \A g \in Handlers : Aside(request'[g]) \/ Undisturbed(request'[g], request[g])
  PROVE  PromisesInv'
<1>1. LoopsOnly'
  BY DEF PromisesInv, LoopsOnly, Aside, Undisturbed
<1>2. NoneAgainst'
  BY AgainstCases DEF PromisesInv, NoneAgainst, Aside, Undisturbed
<1>3. \A h \in Handlers, n \in Names :
        /\ Creates(h, n)' => Creates(h, n) /\ Undisturbed(request'[h], request[h])
        /\ Deletes(h, n)' => Deletes(h, n) /\ Undisturbed(request'[h], request[h])
  BY DEF Creates, Deletes, Aside, Undisturbed
<1>4. OneCreator'
  BY <1>3 DEF PromisesInv, OneCreator, SameSessions
<1>5. HalfCreated'
  <2> SUFFICES ASSUME ~NamesCollide, NEW g \in Handlers, NEW m \in Names,
                      Creates(g, m)', request'[g].alone
               PROVE  /\ request'[g].at = "postPods"
                           => m \in WithSessionPods /\ request'[g].todo = Clusters
                      /\ request'[g].at = "post" /\ m \in WithSessionPods
                           => sessions'[request'[g].cluster][m].stored
                      /\ \A j \in Clusters :
                           /\ j \notin request'[g].todo => sessions'[j][m].stored
                           /\ sessions'[j][m].stored =>
                                (sessions'[j][m].pods <=>
                                   m \in WithSessionPods /\ j = request'[g].cluster)
    BY DEF HalfCreated
  <2>1. Creates(g, m) /\ Undisturbed(request'[g], request[g])
    BY <1>3
  <2>2. /\ request[g].at = request'[g].at /\ request[g].todo = request'[g].todo
        /\ request[g].cluster = request'[g].cluster /\ request[g].alone
    BY <2>1 DEF Undisturbed
  <2>3. request[g].at = "post" => request[g].cluster \in Clusters
    BY DEF StoreOK, Request
  <2>4. /\ request[g].at = "postPods" => m \in WithSessionPods /\ request[g].todo = Clusters
        /\ request[g].at = "post" /\ m \in WithSessionPods
             => sessions[request[g].cluster][m].stored
        /\ \A j \in Clusters :
             /\ j \notin request[g].todo => sessions[j][m].stored
             /\ sessions[j][m].stored =>
                  (sessions[j][m].pods <=> m \in WithSessionPods /\ j = request[g].cluster)
    BY <2>1, <2>2 DEF PromisesInv, HalfCreated
  <2> QED
    BY <2>2, <2>3, <2>4 DEF SameSessions
<1>6. HalfDeleted'
  BY <1>3 DEF PromisesInv, HalfDeleted, SameSessions, Undisturbed
<1>7. Unchallenged'
  BY <1>3 DEF PromisesInv, Unchallenged
<1>8. CreatedEverywhere' /\ DeletedForGood'
  BY DEF PromisesInv, CreatedEverywhere, DeletedForGood, SameSessions
<1> QED
  BY <1>1, <1>2, <1>4, <1>5, <1>6, <1>7, <1>8 DEF PromisesInv

(* What a new request does to the others.                                  *)
LEMMA ReceiveFields ==
  ASSUME StoreOK, NEW h \in Handlers, NEW r \in Request, Receive(h, r)
  PROVE  /\ Undisturbed(request'[h], [r EXCEPT !.alone = TRUE])
         /\ request'[h].alone => \A g \in Handlers : ~Against(request[g], r)
         /\ \A g \in Handlers \ {h} :
              /\ Undisturbed(request'[g], request[g])
              /\ request'[g].alone => ~Against(request[g], r)
<1>1. r \in RequestRecord /\ \A g \in Handlers : request[g] \in RequestRecord
  BY DEF StoreOK, Request
<1>2. request'[h] = [r EXCEPT !.alone = \A e \in Handlers : ~Against(request[e], r)]
  BY DEF Receive
<1>3. \A g \in Handlers \ {h} :
        request'[g] = IF Against(request[g], r) THEN [request[g] EXCEPT !.alone = FALSE]
                      ELSE request[g]
  BY DEF Receive
<1>4. Undisturbed(request'[h], [r EXCEPT !.alone = TRUE])
  BY <1>1, <1>2 DEF RequestRecord, Undisturbed
<1>5. request'[h].alone => \A g \in Handlers : ~Against(request[g], r)
  BY <1>1, <1>2 DEF RequestRecord
<1>6. \A g \in Handlers : [request[g] EXCEPT !.alone = FALSE].alone = FALSE
  BY <1>1 DEF RequestRecord
<1>7. \A g \in Handlers : Undisturbed([request[g] EXCEPT !.alone = FALSE], request[g])
  BY <1>1 DEF RequestRecord, Undisturbed
<1>8. \A g \in Handlers : Undisturbed(request[g], request[g])
  BY DEF Undisturbed
<1> QED
  BY <1>3, <1>4, <1>5, <1>6, <1>7, <1>8

(* Requests that create or delete no session keep the promises.            *)
LEMMA ReceiveAside ==
  ASSUME StoreOK, PromisesInv, NEW h \in Handlers, NEW r \in Request, Receive(h, r),
         Aside(r), claims' = claims, drawn' = drawn
  PROVE  PromisesInv'
<1>1. Aside(request'[h])
  BY ReceiveFields DEF Aside, Undisturbed, Request, RequestRecord
<1>2. SameSessions
  BY DEF Receive, SameSessions
<1> QED
  BY <1>1, <1>2, ReceiveFields, QuietStep

(* So does a request to create a session, whose name is new.               *)
LEMMA CreatePromises ==
  ASSUME ManagerConstantsAssumption, StoreOK, claims \in [Names -> Clusters \cup {None, "gone"}],
         PromisesInv, NEW h \in Handlers, NEW n \in Names, NEW k \in Clusters,
         CreateSession(h, n, k)
  PROVE  PromisesInv'
<1> DEFINE r == [Idle EXCEPT !.op = "CreateSession", !.name = n, !.cluster = k,
                             !.todo = Clusters,
                             !.at = IF n \in WithSessionPods THEN "postPods" ELSE "post"]
<1>1. r \in Request /\ Receive(h, r)
  BY CreateSessionRequest DEF CreateSession
<1>2. /\ r.op = "CreateSession" /\ r.name = n /\ r.cluster = k /\ r.todo = Clusters
      /\ r.at = IF n \in WithSessionPods THEN "postPods" ELSE "post"
  BY DEF Idle
<1>3. /\ request'[h].op = "CreateSession" /\ request'[h].name = n /\ request'[h].cluster = k
      /\ request'[h].todo = Clusters
      /\ request'[h].at = IF n \in WithSessionPods THEN "postPods" ELSE "post"
  <2> HIDE DEF r
  <2>1. Undisturbed(request'[h], [r EXCEPT !.alone = TRUE])
    BY <1>1, ReceiveFields
  <2> QED
    BY <1>1, <1>2, <2>1 DEF Undisturbed, Request, RequestRecord
<1> HIDE DEF r
<1>4. /\ request'[h].alone => \A g \in Handlers : ~Against(request[g], r)
      /\ \A g \in Handlers \ {h} :
              /\ Undisturbed(request'[g], request[g])
              /\ request'[g].alone => ~Against(request[g], r)
  BY <1>1, ReceiveFields
<1>5. sessions' = sessions /\ drawn' = drawn \cup {n} /\ claims' = [claims EXCEPT ![n] = None]
  BY DEF CreateSession, Receive
<1>6. ~NamesCollide => n \notin drawn
  BY DEF CreateSession
<1>7. LoopsOnly'
  BY <1>3, <1>4 DEF PromisesInv, LoopsOnly, Undisturbed
<1>8. NoneAgainst'
  BY <1>2, <1>3, <1>4, AgainstCases DEF PromisesInv, NoneAgainst, Undisturbed
<1>9. \A g \in Handlers, m \in Names :
        /\ Creates(g, m)' => (Creates(g, m) /\ g # h) \/ (g = h /\ m = n)
        /\ Deletes(g, m)' => Deletes(g, m) /\ g # h
  <2>1. \A g \in Handlers \ {h} : request'[g].op = request[g].op /\ request'[g].name = request[g].name
    BY <1>4 DEF Undisturbed
  <2> QED
    BY <1>3, <2>1 DEF Creates, Deletes
<1>10. OneCreator'
  BY <1>5, <1>6, <1>9 DEF PromisesInv, OneCreator
<1>11. HalfCreated'
  <2> SUFFICES ASSUME ~NamesCollide, NEW g \in Handlers, NEW m \in Names,
                      Creates(g, m)', request'[g].alone
               PROVE  /\ request'[g].at = "postPods"
                           => m \in WithSessionPods /\ request'[g].todo = Clusters
                      /\ request'[g].at = "post" /\ m \in WithSessionPods
                           => sessions'[request'[g].cluster][m].stored
                      /\ \A j \in Clusters :
                           /\ j \notin request'[g].todo => sessions'[j][m].stored
                           /\ sessions'[j][m].stored =>
                                (sessions'[j][m].pods <=>
                                   m \in WithSessionPods /\ j = request'[g].cluster)
    BY DEF HalfCreated
  <2>1. CASE g = h
    <3>1. m = n /\ \A j \in Clusters : ~sessions[j][n].stored
      BY <1>6, <1>9, <2>1 DEF PromisesInv, OneCreator
    <3> QED
      BY <1>3, <1>5, <2>1, <3>1
  <2>2. CASE g # h
    BY <1>4, <1>5, <1>9, <2>2 DEF PromisesInv, HalfCreated, Undisturbed
  <2> QED
    BY <2>1, <2>2
<1>12. HalfDeleted'
  BY <1>4, <1>5, <1>9 DEF PromisesInv, HalfDeleted, Undisturbed
<1>13. claims'[n] \notin Clusters /\ claims'[n] # "gone"
       /\ \A m \in Names \ {n} : claims'[m] = claims[m]
  BY <1>5 DEF ManagerConstantsAssumption
<1>14. Unchallenged'
  BY <1>9, <1>13 DEF PromisesInv, Unchallenged
<1>15. CreatedEverywhere' /\ DeletedForGood'
  BY <1>5, <1>13 DEF PromisesInv, CreatedEverywhere, DeletedForGood
<1> QED
  BY <1>7, <1>8, <1>10, <1>11, <1>12, <1>14, <1>15 DEF PromisesInv

(* And one to delete a session.                                            *)
LEMMA DeletePromises ==
  ASSUME ManagerConstantsAssumption, StoreOK, claims \in [Names -> Clusters \cup {None, "gone"}],
         PromisesInv, NEW h \in Handlers, NEW n \in Names, DeleteSession(h, n)
  PROVE  PromisesInv'
<1> DEFINE r == [Idle EXCEPT !.op = "DeleteSession", !.name = n, !.todo = Clusters,
                             !.at = "delete"]
<1>1. r \in Request /\ Receive(h, r)
  BY DeleteSessionRequest DEF DeleteSession
<1>2. r.op = "DeleteSession" /\ r.name = n /\ r.todo = Clusters /\ r.at = "delete"
  BY DEF Idle
<1>3. /\ request'[h].op = "DeleteSession" /\ request'[h].name = n
      /\ request'[h].todo = Clusters /\ request'[h].at = "delete"
  <2> HIDE DEF r
  <2>1. Undisturbed(request'[h], [r EXCEPT !.alone = TRUE])
    BY <1>1, ReceiveFields
  <2> QED
    BY <1>1, <1>2, <2>1 DEF Undisturbed, Request, RequestRecord
<1> HIDE DEF r
<1>4. /\ request'[h].alone => \A g \in Handlers : ~Against(request[g], r)
      /\ \A g \in Handlers \ {h} :
              /\ Undisturbed(request'[g], request[g])
              /\ request'[g].alone => ~Against(request[g], r)
  BY <1>1, ReceiveFields
<1>5. sessions' = sessions /\ drawn' = drawn /\ claims' = [claims EXCEPT ![n] = None]
  BY DEF DeleteSession, Receive
<1>6. LoopsOnly'
  BY <1>3, <1>4 DEF PromisesInv, LoopsOnly, Undisturbed
<1>7. NoneAgainst'
  BY <1>2, <1>3, <1>4, AgainstCases DEF PromisesInv, NoneAgainst, Undisturbed
<1>8. \A g \in Handlers, m \in Names :
        /\ Creates(g, m)' => Creates(g, m) /\ g # h
        /\ Deletes(g, m)' => (Deletes(g, m) /\ g # h) \/ (g = h /\ m = n)
  <2>1. \A g \in Handlers \ {h} : request'[g].op = request[g].op /\ request'[g].name = request[g].name
    BY <1>4 DEF Undisturbed
  <2> QED
    BY <1>3, <2>1 DEF Creates, Deletes
<1>9. OneCreator'
  BY <1>5, <1>8 DEF PromisesInv, OneCreator
<1>10. HalfCreated'
  BY <1>4, <1>5, <1>8 DEF PromisesInv, HalfCreated, Undisturbed
<1>11. HalfDeleted'
  BY <1>3, <1>4, <1>5, <1>8 DEF PromisesInv, HalfDeleted, Undisturbed
<1>12. claims'[n] \notin Clusters /\ claims'[n] # "gone"
       /\ \A m \in Names \ {n} : claims'[m] = claims[m]
  BY <1>5 DEF ManagerConstantsAssumption
<1>13. Unchallenged'
  BY <1>8, <1>12 DEF PromisesInv, Unchallenged
<1>14. CreatedEverywhere' /\ DeletedForGood'
  BY <1>5, <1>12 DEF PromisesInv, CreatedEverywhere, DeletedForGood
<1> QED
  BY <1>6, <1>7, <1>9, <1>10, <1>11, <1>13, <1>14 DEF PromisesInv

(* What a write of one session changes.                                    *)
LEMMA StoreFields ==
  ASSUME StoreOK, NEW h \in Handlers, NEW k \in Clusters, NEW n \in Names, NEW s,
         NEW wanted, NEW r, Store(h, k, n, s, wanted, r)
  PROVE  /\ request'[h] = r
         /\ \A g \in Handlers \ {h} : Undisturbed(request'[g], request[g])
         /\ sessions'[k][n] = s
         /\ \A j \in Clusters, m \in Names :
               j # k \/ m # n => sessions'[j][m] = sessions[j][m]
<1>1. \A g \in Handlers : Undisturbed([request[g] EXCEPT !.steady = @ \ {k}], request[g])
  BY DEF StoreOK, Request, RequestRecord, Undisturbed
<1>2. \A g \in Handlers : Undisturbed(request[g], request[g])
  BY DEF Undisturbed
<1>3. request' = [g \in Handlers |->
        IF g = h THEN r
        ELSE IF /\ k \in request[g].steady /\ request[g].name = n
                /\ s.clients[request[g].client] = "absent"
             THEN [request[g] EXCEPT !.steady = @ \ {k}]
        ELSE request[g]]
  BY DEF Store
<1>4. sessions' = [sessions EXCEPT ![k][n] = s]
  BY DEF Store
<1>5. sessions \in [Clusters -> [Names -> SessionType]]
  BY DEF StoreOK
<1>6. request'[h] = r /\ \A g \in Handlers \ {h} : Undisturbed(request'[g], request[g])
  BY <1>1, <1>2, <1>3
<1>7. sessions'[k][n] = s
  BY <1>4, <1>5
<1>8. \A j \in Clusters, m \in Names : j # k \/ m # n => sessions'[j][m] = sessions[j][m]
  BY <1>4, <1>5
<1> QED
  BY <1>6, <1>7, <1>8

(* An answer, or a restart, ends what a handler was doing.                 *)
LEMMA AnsweredAside ==
  /\ Aside(Idle)
  /\ \A h \in Handlers, answer \in Answers : Aside(Answered(h, answer))
BY DEF Aside, Idle, Answered, Answers

(* The call that h makes to create session n in cluster k.                 *)
PostCall(h, k, n, pods) ==
  /\ Creates(h, n)
  /\ \/ request[h].at = "postPods" /\ k = request[h].cluster /\ pods = TRUE
     \/ request[h].at = "post" /\ k \in request[h].todo /\ pods = FALSE

(* What it leaves in the store.                                            *)
Posted(k, n, pods) ==
  /\ sessions'[k][n].stored = TRUE
  /\ sessions'[k][n].pods = IF sessions[k][n].stored THEN sessions[k][n].pods ELSE pods
  /\ \A j \in Clusters, m \in Names : j # k \/ m # n => sessions'[j][m] = sessions[j][m]

OthersGoOn(h) == \A g \in Handlers \ {h} : Undisturbed(request'[g], request[g])

(* The loop goes on.                                                       *)
PostGoesOn(r, h, k, n) ==
  /\ r.op = request[h].op /\ r.name = n /\ r.cluster = request[h].cluster
  /\ r.alone = request[h].alone /\ r.at = "post"
  /\ r.todo = IF request[h].at = "post" THEN request[h].todo \ {k} ELSE request[h].todo

(* The loop has ended well.                                                *)
PostClaims(h, k, n) ==
  /\ Aside(request'[h]) /\ request[h].at = "post" /\ request[h].todo = {k}
  /\ request[h].alone /\ claims' = [claims EXCEPT ![n] = request[h].cluster]

(* The creation of a session in one cluster keeps the promises: h goes on  *)
(* to the next call, or has answered.                                      *)
LEMMA PostPromises ==
  ASSUME ManagerConstantsAssumption, StoreOK, claims \in [Names -> Clusters \cup {None, "gone"}],
         PromisesInv, NEW h \in Handlers, NEW k \in Clusters, NEW n \in Names,
         NEW pods \in BOOLEAN, PostCall(h, k, n, pods), Posted(k, n, pods), OthersGoOn(h),
         drawn' = drawn,
         Aside(request'[h]) \/ PostGoesOn(request'[h], h, k, n),
         claims' = claims \/ PostClaims(h, k, n)
  PROVE  PromisesInv'
<1> USE DEF PostCall, Posted, OthersGoOn, PostGoesOn, PostClaims
<1> DEFINE done == Aside(request'[h])
<1>1. request[h].op = "CreateSession" /\ request[h].name = n
  BY DEF Creates
<1>2. \A g \in Handlers \ {h} : /\ request'[g].op = request[g].op
                                /\ request'[g].name = request[g].name
  BY DEF Undisturbed
<1>3. done => request'[h].op # "CreateSession" /\ request'[h].op # "DeleteSession"
  BY DEF Aside
<1>4. ~done => request'[h].op = "CreateSession" /\ request'[h].name = n
  BY <1>1
<1> HIDE DEF done
<1>5. \A g \in Handlers, m \in Names :
        /\ Creates(g, m)' => Creates(g, m) /\ (g = h => m = n /\ ~done)
        /\ Deletes(g, m)' => Deletes(g, m) /\ g # h
  BY <1>1, <1>2, <1>3, <1>4 DEF Creates, Deletes
<1>6. request[h].alone => \A g \in Handlers : ~Deletes(g, n)
  BY <1>1, AgainstCases DEF PromisesInv, NoneAgainst, Deletes
<1>7. LoopsOnly'
  <2>1. \A g \in Handlers \ {h} : request'[g].at = request[g].at
    BY DEF Undisturbed
  <2>2. done => request'[h].at \notin {"postPods", "post", "delete"}
    BY DEF done, Aside
  <2>3. ~done => request'[h].at = "post"
    BY DEF done
  <2> QED
    BY <1>2, <1>3, <1>4, <2>1, <2>2, <2>3 DEF PromisesInv, LoopsOnly
<1>8. NoneAgainst'
  <2>1. \A g \in Handlers \ {h} : request'[g].alone => request[g].alone
    BY DEF Undisturbed
  <2>2. ~done => request'[h].alone = request[h].alone
    BY DEF done
  <2> QED
    BY <1>1, <1>2, <1>3, <1>4, <2>1, <2>2, AgainstCases DEF PromisesInv, NoneAgainst
<1>9. OneCreator'
  <2>1. ~NamesCollide => n \in drawn
    BY DEF PromisesInv, OneCreator
  <2> QED
    BY <1>5, <2>1 DEF PromisesInv, OneCreator
<1>10. ASSUME ~NamesCollide, request[h].alone
       PROVE  /\ request[h].at = "postPods" => n \in WithSessionPods /\ request[h].todo = Clusters
              /\ request[h].at = "post" /\ n \in WithSessionPods
                   => sessions[request[h].cluster][n].stored
              /\ \A j \in Clusters :
                   /\ j \notin request[h].todo => sessions[j][n].stored
                   /\ sessions[j][n].stored =>
                        (sessions[j][n].pods <=> n \in WithSessionPods /\ j = request[h].cluster)
  BY <1>10 DEF PromisesInv, HalfCreated
<1>11. request[h].cluster \in Clusters
  <2>1. request[h].at \in {"postPods", "post"}
    OBVIOUS
  <2> QED
    BY <2>1 DEF StoreOK, Request
<1>12. ASSUME ~NamesCollide, request[h].alone
       PROVE  /\ n \in WithSessionPods => sessions'[request[h].cluster][n].stored
              /\ \A j \in Clusters : sessions'[j][n].stored =>
                   (sessions'[j][n].pods <=> n \in WithSessionPods /\ j = request[h].cluster)
  <2>1. n \in WithSessionPods => sessions'[request[h].cluster][n].stored
    BY <1>10, <1>11, <1>12
  <2>2. sessions'[k][n].pods <=> n \in WithSessionPods /\ k = request[h].cluster
    <3>1. CASE sessions[k][n].stored
      BY <1>10, <1>12, <3>1
    <3>2. CASE ~sessions[k][n].stored /\ request[h].at = "postPods"
      BY <1>10, <1>12, <3>2
    <3>3. CASE ~sessions[k][n].stored /\ request[h].at = "post"
      BY <1>10, <1>12, <3>3
    <3> QED
      BY <3>1, <3>2, <3>3
  <2>3. \A j \in Clusters : j # k /\ sessions'[j][n].stored =>
          (sessions'[j][n].pods <=> n \in WithSessionPods /\ j = request[h].cluster)
    BY <1>10, <1>12
  <2> QED
    BY <2>1, <2>2, <2>3
<1>13. HalfCreated'
  <2> SUFFICES ASSUME ~NamesCollide, NEW g \in Handlers, NEW m \in Names,
                      Creates(g, m)', request'[g].alone
               PROVE  /\ request'[g].at = "postPods"
                           => m \in WithSessionPods /\ request'[g].todo = Clusters
                      /\ request'[g].at = "post" /\ m \in WithSessionPods
                           => sessions'[request'[g].cluster][m].stored
                      /\ \A j \in Clusters :
                           /\ j \notin request'[g].todo => sessions'[j][m].stored
                           /\ sessions'[j][m].stored =>
                                (sessions'[j][m].pods <=>
                                   m \in WithSessionPods /\ j = request'[g].cluster)
    BY DEF HalfCreated
  <2>1. CASE g = h
    <3>1. m = n /\ ~done
      BY <1>5, <2>1
    <3>2. /\ request[h].alone /\ request'[h].cluster = request[h].cluster
          /\ request'[h].at = "post"
          /\ request'[h].todo = IF request[h].at = "post" THEN request[h].todo \ {k}
                                ELSE request[h].todo
      BY <2>1, <3>1 DEF done
    <3>3. \A j \in Clusters : j \notin request'[h].todo => sessions'[j][n].stored
      BY <1>10, <3>2
    <3> QED
      BY <1>12, <2>1, <3>1, <3>2, <3>3
  <2>2. CASE g # h
    <3>1. Creates(g, m) /\ m # n
      BY <1>5, <2>2 DEF PromisesInv, OneCreator
    <3>2. /\ request[g].alone /\ request'[g].cluster = request[g].cluster
          /\ request'[g].at = request[g].at /\ request'[g].todo = request[g].todo
      BY <2>2 DEF Undisturbed
    <3>3. \A j \in Clusters : sessions'[j][m] = sessions[j][m]
      BY <3>1
    <3>4. request[g].at = "post" => request[g].cluster \in Clusters
      BY DEF StoreOK, Request
    <3>5. /\ request[g].at = "postPods" => m \in WithSessionPods /\ request[g].todo = Clusters
          /\ request[g].at = "post" /\ m \in WithSessionPods
               => sessions[request[g].cluster][m].stored
          /\ \A j \in Clusters :
               /\ j \notin request[g].todo => sessions[j][m].stored
               /\ sessions[j][m].stored =>
                    (sessions[j][m].pods <=> m \in WithSessionPods /\ j = request[g].cluster)
      BY <3>1, <3>2 DEF PromisesInv, HalfCreated
    <3> QED
      BY <3>2, <3>3, <3>4, <3>5
  <2> QED
    BY <2>1, <2>2
<1>14. HalfDeleted'
  <2> SUFFICES ASSUME NEW g \in Handlers, NEW m \in Names, Deletes(g, m)', request'[g].alone,
                      NEW j \in Clusters \ request'[g].todo
               PROVE  ~sessions'[j][m].stored
    BY DEF HalfDeleted
  <2>1. Deletes(g, m) /\ g # h
    BY <1>5
  <2>2. request[g].alone /\ request'[g].todo = request[g].todo
    BY <2>1 DEF Undisturbed
  <2>3. m # n
    BY <1>1, <2>1, <2>2, AgainstCases DEF PromisesInv, NoneAgainst, Deletes
  <2>4. ~sessions[j][m].stored
    BY <2>1, <2>2 DEF PromisesInv, HalfDeleted
  <2> QED
    BY <2>3, <2>4
<1>15. /\ claims[n] # "gone"
       /\ ~NamesCollide => claims[n] \notin Clusters
  BY DEF PromisesInv, Unchallenged
<1>16. \A m \in Names \ {n} : claims'[m] = claims[m]
  OBVIOUS
<1>17. \/ claims'[n] = claims[n]
       \/ /\ done /\ request[h].at = "post" /\ request[h].todo = {k} /\ request[h].alone
          /\ claims'[n] = request[h].cluster
  BY DEF done
<1>18. claims'[n] # "gone"
  BY <1>11, <1>15, <1>17 DEF ManagerConstantsAssumption
<1>19. Unchallenged'
  <2> SUFFICES ASSUME NEW m \in Names, NEW g \in Handlers
               PROVE  /\ ~NamesCollide /\ claims'[m] \in Clusters
                           => ~Creates(g, m)' /\ ~Deletes(g, m)'
                      /\ claims'[m] = "gone" => ~Creates(g, m)'
    BY DEF Unchallenged
  <2>1. CASE m # n
    BY <1>5, <1>16, <2>1 DEF PromisesInv, Unchallenged
  <2>2. CASE m = n
    <3>1. ~NamesCollide /\ claims'[n] \in Clusters => done /\ request[h].alone
      BY <1>15, <1>17
    <3>2. ~NamesCollide => \A e \in Handlers : Creates(e, n) => e = h
      BY DEF PromisesInv, OneCreator
    <3> QED
      BY <1>5, <1>6, <1>18, <2>2, <3>1, <3>2
  <2> QED
    BY <2>1, <2>2
<1>20. DeletedForGood'
  BY <1>16, <1>18 DEF PromisesInv, DeletedForGood
<1>21. CreatedEverywhere'
  <2> SUFFICES ASSUME ~NamesCollide, NEW m \in Names, NEW j \in Clusters, claims'[m] \in Clusters
               PROVE  /\ sessions'[j][m].stored
                      /\ sessions'[j][m].pods <=> m \in WithSessionPods /\ j = claims'[m]
    BY DEF CreatedEverywhere
  <2>1. CASE m # n
    <3>1. claims[m] \in Clusters /\ sessions'[j][m] = sessions[j][m] /\ claims'[m] = claims[m]
      BY <1>16, <2>1
    <3>2. /\ sessions[j][m].stored
          /\ sessions[j][m].pods <=> m \in WithSessionPods /\ j = claims[m]
      BY <3>1 DEF PromisesInv, CreatedEverywhere
    <3> QED
      BY <3>1, <3>2
  <2>2. CASE m = n
    <3>1. /\ request[h].todo = {k} /\ request[h].alone /\ claims'[n] = request[h].cluster
      BY <1>15, <1>17, <2>2
    <3>2. sessions'[j][n].stored
      BY <1>10, <3>1
    <3> QED
      BY <1>12, <2>2, <3>1, <3>2
  <2> QED
    BY <2>1, <2>2
<1> QED
  BY <1>7, <1>8, <1>9, <1>13, <1>14, <1>19, <1>20, <1>21 DEF PromisesInv

(* So does the deletion of a session in one cluster.                       *)
LEMMA RemovePromises ==
  ASSUME ManagerConstantsAssumption, StoreOK, claims \in [Names -> Clusters \cup {None, "gone"}],
         PromisesInv, NEW h \in Handlers, NEW k \in Clusters, NEW n \in Names, Deletes(h, n),
         sessions'[k][n].stored = FALSE,
         \A j \in Clusters, m \in Names : j # k \/ m # n => sessions'[j][m] = sessions[j][m],
         \A g \in Handlers \ {h} : Undisturbed(request'[g], request[g]),
         drawn' = drawn,
         \/ Aside(request'[h])
         \/ /\ request'[h].op = request[h].op /\ request'[h].name = n
            /\ request'[h].alone = request[h].alone /\ request'[h].at = "delete"
            /\ request'[h].todo = request[h].todo \ {k},
         \/ claims' = claims
         \/ /\ Aside(request'[h]) /\ request[h].todo = {k} /\ request[h].alone
            /\ claims' = [claims EXCEPT ![n] = "gone"]
  PROVE  PromisesInv'
<1> DEFINE done == Aside(request'[h])
<1>1. request[h].op = "DeleteSession" /\ request[h].name = n
  BY DEF Deletes
<1>2. \A g \in Handlers \ {h} : /\ request'[g].op = request[g].op
                                /\ request'[g].name = request[g].name
  BY DEF Undisturbed
<1>3. done => request'[h].op # "CreateSession" /\ request'[h].op # "DeleteSession"
  BY DEF Aside
<1>4. ~done => request'[h].op = "DeleteSession" /\ request'[h].name = n
  BY <1>1
<1> HIDE DEF done
<1>5. \A g \in Handlers, m \in Names :
        /\ Creates(g, m)' => Creates(g, m) /\ g # h
        /\ Deletes(g, m)' => Deletes(g, m) /\ (g = h => m = n /\ ~done)
  BY <1>1, <1>2, <1>3, <1>4 DEF Creates, Deletes
<1>6. request[h].alone => \A g \in Handlers : ~Creates(g, n)
  BY <1>1, AgainstCases DEF PromisesInv, NoneAgainst, Creates
<1>7. \A g \in Handlers : request[g].alone => ~Creates(g, n)
  BY <1>1, AgainstCases DEF PromisesInv, NoneAgainst, Creates
<1>8. LoopsOnly'
  <2>1. \A g \in Handlers \ {h} : request'[g].at = request[g].at
    BY DEF Undisturbed
  <2>2. done => request'[h].at \notin {"postPods", "post", "delete"}
    BY DEF done, Aside
  <2>3. ~done => request'[h].at = "delete"
    BY DEF done
  <2> QED
    BY <1>2, <1>3, <1>4, <2>1, <2>2, <2>3 DEF PromisesInv, LoopsOnly
<1>9. NoneAgainst'
  <2>1. \A g \in Handlers \ {h} : request'[g].alone => request[g].alone
    BY DEF Undisturbed
  <2>2. ~done => request'[h].alone = request[h].alone
    BY DEF done
  <2> QED
    BY <1>1, <1>2, <1>3, <1>4, <2>1, <2>2, AgainstCases DEF PromisesInv, NoneAgainst
<1>10. OneCreator'
  BY <1>5 DEF PromisesInv, OneCreator
<1>11. HalfCreated'
  <2> SUFFICES ASSUME ~NamesCollide, NEW g \in Handlers, NEW m \in Names,
                      Creates(g, m)', request'[g].alone
               PROVE  /\ request'[g].at = "postPods"
                           => m \in WithSessionPods /\ request'[g].todo = Clusters
                      /\ request'[g].at = "post" /\ m \in WithSessionPods
                           => sessions'[request'[g].cluster][m].stored
                      /\ \A j \in Clusters :
                           /\ j \notin request'[g].todo => sessions'[j][m].stored
                           /\ sessions'[j][m].stored =>
                                (sessions'[j][m].pods <=>
                                   m \in WithSessionPods /\ j = request'[g].cluster)
    BY DEF HalfCreated
  <2>1. Creates(g, m) /\ g # h
    BY <1>5
  <2>2. /\ request[g].alone /\ request'[g].cluster = request[g].cluster
        /\ request'[g].at = request[g].at /\ request'[g].todo = request[g].todo
    BY <2>1 DEF Undisturbed
  <2>3. m # n
    BY <1>7, <2>1, <2>2
  <2>4. request[g].at = "post" => request[g].cluster \in Clusters
    BY DEF StoreOK, Request
  <2>5. /\ request[g].at = "postPods" => m \in WithSessionPods /\ request[g].todo = Clusters
        /\ request[g].at = "post" /\ m \in WithSessionPods
             => sessions[request[g].cluster][m].stored
        /\ \A j \in Clusters :
             /\ j \notin request[g].todo => sessions[j][m].stored
             /\ sessions[j][m].stored =>
                  (sessions[j][m].pods <=> m \in WithSessionPods /\ j = request[g].cluster)
    BY <2>1, <2>2 DEF PromisesInv, HalfCreated
  <2> QED
    BY <2>2, <2>3, <2>4, <2>5
<1>12. HalfDeleted'
  <2> SUFFICES ASSUME NEW g \in Handlers, NEW m \in Names, Deletes(g, m)', request'[g].alone,
                      NEW j \in Clusters \ request'[g].todo
               PROVE  ~sessions'[j][m].stored
    BY DEF HalfDeleted
  <2>1. CASE j = k /\ m = n
    BY <2>1
  <2>2. CASE j # k \/ m # n
    <3>1. sessions'[j][m] = sessions[j][m] /\ Deletes(g, m)
      BY <1>5, <2>2
    <3>2. CASE g # h
      BY <3>1, <3>2 DEF PromisesInv, HalfDeleted, Undisturbed
    <3>3. CASE g = h
      <4>1. m = n /\ request[h].alone /\ request'[h].todo = request[h].todo \ {k}
        BY <1>5, <3>3 DEF done
      <4>2. j \notin request[h].todo
        BY <2>2, <3>3, <4>1
      <4> QED
        BY <3>1, <3>3, <4>1, <4>2 DEF PromisesInv, HalfDeleted
    <3> QED
      BY <3>2, <3>3
  <2> QED
    BY <2>1, <2>2
<1>13. ~NamesCollide => claims[n] \notin Clusters
  BY DEF PromisesInv, Unchallenged
<1>14. \A m \in Names \ {n} : claims'[m] = claims[m]
  OBVIOUS
<1>15. \/ claims'[n] = claims[n]
       \/ request[h].todo = {k} /\ request[h].alone /\ claims'[n] = "gone"
  OBVIOUS
<1>16. ~NamesCollide => claims'[n] \notin Clusters
  BY <1>13, <1>15 DEF ManagerConstantsAssumption
<1>17. Unchallenged'
  <2> SUFFICES ASSUME NEW m \in Names, NEW g \in Handlers
               PROVE  /\ ~NamesCollide /\ claims'[m] \in Clusters
                           => ~Creates(g, m)' /\ ~Deletes(g, m)'
                      /\ claims'[m] = "gone" => ~Creates(g, m)'
    BY DEF Unchallenged
  <2>1. CASE m # n
    BY <1>5, <1>14, <2>1 DEF PromisesInv, Unchallenged
  <2>2. CASE m = n
    BY <1>5, <1>6, <1>15, <1>16, <2>2 DEF PromisesInv, Unchallenged
  <2> QED
    BY <2>1, <2>2
<1>18. DeletedForGood'
  <2> SUFFICES ASSUME NEW m \in Names, NEW j \in Clusters, claims'[m] = "gone"
               PROVE  ~sessions'[j][m].stored
    BY DEF DeletedForGood
  <2>1. CASE j = k /\ m = n
    BY <2>1
  <2>2. CASE j # k \/ m # n
    <3>1. CASE claims[m] = "gone"
      BY <2>2, <3>1 DEF PromisesInv, DeletedForGood
    <3>2. CASE claims[m] # "gone"
      <4>1. m = n /\ request[h].todo = {k} /\ request[h].alone
        BY <1>14, <1>15, <3>2
      <4>2. j \in Clusters \ request[h].todo
        BY <2>2, <4>1
      <4> QED
        BY <2>2, <4>1, <4>2 DEF PromisesInv, HalfDeleted
    <3> QED
      BY <3>1, <3>2
  <2> QED
    BY <2>1, <2>2
<1>19. CreatedEverywhere'
  BY <1>14, <1>16 DEF PromisesInv, CreatedEverywhere
<1> QED
  BY <1>8, <1>9, <1>10, <1>11, <1>12, <1>17, <1>18, <1>19 DEF PromisesInv

(* Answers and reads that change nothing in the store.                     *)
LEMMA ContinuePromises ==
  ASSUME StoreOK, PromisesInv, NEW h \in Handlers, NEW r, Continue(h, r), Aside(r),
         claims' = claims, drawn' = drawn
  PROVE  PromisesInv'
<1>1. request'[h] = r /\ \A g \in Handlers \ {h} : request'[g] = request[g]
  BY DEF Continue, StoreOK
<1>2. SameSessions
  BY DEF Continue, SameSessions
<1> QED
  BY <1>1, <1>2, QuietStep DEF Undisturbed

(* A call fails in these two ways.                                         *)
LEMMA CallCases ==
  ASSUME faults \in 0..MaxFaults, MaxFaults \in Nat, NEW h, NEW k, NEW n, NEW s, NEW wanted,
         NEW r, Call(h, k, n, s, wanted, r)
  PROVE  \/ Store(h, k, n, s, wanted, r) /\ faults' = faults
         \/ Continue(h, Answered(h, "BadGateway")) /\ faults' # faults
         \/ Store(h, k, n, s, wanted, Answered(h, "BadGateway")) /\ faults' # faults
BY DEF Call, CallFails, Fault

(* A patch leaves alone whether a session is stored and its templates.     *)
LEMMA PatchPromises ==
  ASSUME ManagerConstantsAssumption, TypeOK, StoreOK, PromisesInv, NEW h \in Handlers,
         patchSession(h)
  PROVE  PromisesInv'
<1> DEFINE k == request[h].cluster
           n == request[h].name
           s == [sessions[k][n] EXCEPT !.clients =
                   MergePatch(sessions[k][n].clients, patchData(request[h]))]
           wanted == [d \in {request[h].client} |-> request[h].value]
<1>1. k \in Clusters /\ n \in Names
  BY DEF patchSession, StoreOK, Request, CallsToMake
<1>2. s.stored = sessions[k][n].stored /\ s.pods = sessions[k][n].pods
  <2>1. sessions[k][n] \in SessionType
    BY <1>1 DEF StoreOK
  <2> QED
    BY <2>1 DEF SessionType
<1>3. claims' = claims /\ drawn' = drawn
  BY DEF patchSession
<1>4. ASSUME NEW r, Store(h, k, n, s, wanted, r), Aside(r) PROVE PromisesInv'
  <2> HIDE DEF s, k, n, wanted
  <2>1. /\ request'[h] = r
        /\ \A g \in Handlers \ {h} : Undisturbed(request'[g], request[g])
        /\ sessions'[k][n] = s
        /\ \A j \in Clusters, m \in Names : j # k \/ m # n => sessions'[j][m] = sessions[j][m]
    BY <1>1, <1>4, StoreFields
  <2>2. SameSessions
    BY <1>2, <2>1 DEF SameSessions
  <2> QED
    BY <1>3, <1>4, <2>1, <2>2, QuietStep
<1>5. CASE Call(h, k, n, s, wanted, Answered(h, "ok"))
  <2> HIDE DEF s, k, n, wanted
  <2>1. \/ Store(h, k, n, s, wanted, Answered(h, "ok"))
        \/ Continue(h, Answered(h, "BadGateway"))
        \/ Store(h, k, n, s, wanted, Answered(h, "BadGateway"))
    BY <1>5, CallCases DEF TypeOK, ManagerConstantsAssumption
  <2>2. Aside(Answered(h, "ok")) /\ Aside(Answered(h, "BadGateway"))
    BY AnsweredAside DEF Answers
  <2> QED
    BY <1>3, <1>4, <2>1, <2>2, ContinuePromises
<1>6. CASE ReadFails(h) \/ Continue(h, Answered(h, "NotFound"))
  <2>1. Aside(Answered(h, "NotFound")) /\ Aside(Answered(h, "BadGateway"))
    BY AnsweredAside DEF Answers
  <2> QED
    BY <1>3, <1>6, <2>1, ContinuePromises DEF ReadFails
<1> QED
  BY <1>5, <1>6 DEF patchSession

(* Reads: they continue with an answer or the next read.                   *)
LEMMA ReadPromises ==
  ASSUME StoreOK, PromisesInv, NEW h \in Handlers,
         \/ GetForCreate(h)
         \/ \E k \in Clusters : findSessionByClientId(h, k) \/ findSession(h, k)
  PROVE  PromisesInv'
<1>1. claims' = claims /\ drawn' = drawn
  BY DEF GetForCreate, findSessionByClientId, findSession
<1>2. \A answer \in Answers : Aside(Answered(h, answer))
  BY AnsweredAside
<1>3. /\ request[h].at \in {"get", "lookup", "view"}
      /\ request[h].op \notin {"CreateSession", "DeleteSession"}
  <2>1. request[h].at \in {"get", "lookup", "view"}
    BY DEF GetForCreate, findSessionByClientId, findSession
  <2> QED
    BY <2>1 DEF PromisesInv, LoopsOnly
<1>4. request[h] \in RequestRecord
  BY DEF StoreOK, Request
<1>5. \A k \in Clusters : Aside(CopyFrom(h, k)) /\ Aside(Visited(h, k))
  BY <1>3, <1>4 DEF CopyFrom, Visited, Aside, RequestRecord
<1>6. \A k \in Clusters : \A copy : Aside([Visited(h, k) EXCEPT !.copy = copy])
  BY <1>3, <1>4 DEF Visited, Aside, RequestRecord
<1>7. \A c, copy : Aside([Answered(h, "session") EXCEPT !.client = c, !.copy = copy])
  BY DEF Aside, Answered, Idle
<1>8. ASSUME ReadFails(h) PROVE PromisesInv'
  BY <1>1, <1>2, <1>8, ContinuePromises DEF ReadFails, Answers
<1>9. CASE GetForCreate(h)
  <2>1. request[h].cluster \in Clusters
    BY <1>9 DEF GetForCreate, StoreOK, Request
  <2>2. ReadFails(h) \/ \E r : Continue(h, r) /\ Aside(r)
    BY <1>2, <1>5, <1>9, <2>1 DEF GetForCreate, Answers
  <2> QED
    BY <1>1, <1>8, <2>2, ContinuePromises
<1>10. ASSUME NEW k \in Clusters, findSessionByClientId(h, k) PROVE PromisesInv'
  <2>1. ReadFails(h) \/ \E r : Continue(h, r) /\ Aside(r)
    BY <1>2, <1>5, <1>10 DEF findSessionByClientId, find, Answers
  <2> QED
    BY <1>1, <1>8, <2>1, ContinuePromises
<1>11. ASSUME NEW k \in Clusters, findSession(h, k) PROVE PromisesInv'
  <2> DEFINE sum == sessionSum(request[h].copy, sessions[k][request[h].name].clients)
  <2>1. \/ ReadFails(h)
        \/ Continue(h, Answered(h, "NotFound"))
        \/ Continue(h, IF request[h].todo = {k}
                       THEN [Answered(h, "session") EXCEPT
                               !.client = request[h].client, !.copy = sum]
                       ELSE [Visited(h, k) EXCEPT !.copy = sum])
    BY <1>11 DEF findSession
  <2> HIDE DEF sum
  <2>2. ReadFails(h) \/ \E r : Continue(h, r) /\ Aside(r)
    BY <1>2, <1>6, <1>7, <2>1 DEF Answers
  <2> QED
    BY <1>1, <1>8, <2>2, ContinuePromises
<1> QED
  BY <1>9, <1>10, <1>11

(* What the store holds after a Post, and the three ways it can go.        *)
LEMMA PostCases ==
  ASSUME ManagerConstantsAssumption, TypeOK, StoreOK, NEW h \in Handlers, NEW k \in Clusters,
         NEW n \in Names, request[h].name = n, NEW pods \in BOOLEAN, NEW r, Post(h, k, pods, r)
  PROVE  \/ Continue(h, Answered(h, "BadGateway")) /\ faults' # faults
         \/ /\ \/ request'[h] = r /\ faults' = faults
               \/ request'[h] = Answered(h, "BadGateway") /\ faults' # faults
            /\ OthersGoOn(h) /\ Posted(k, n, pods)
<1> USE DEF OthersGoOn, Posted
<1> DEFINE s == IF sessions[k][n].stored THEN sessions[k][n] ELSE NewSession(pods)
           wanted == IF sessions[k][n].stored THEN Nobody ELSE NoClients
<1>1. Call(h, k, n, s, wanted, r)
  BY DEF Post
<1>2. s.stored = TRUE /\ s.pods = IF sessions[k][n].stored THEN sessions[k][n].pods ELSE pods
  <2>1. sessions[k][n] \in SessionType
    BY DEF StoreOK
  <2> QED
    BY <2>1 DEF SessionType, NewSession
<1> HIDE DEF s, wanted
<1>3. \/ Store(h, k, n, s, wanted, r) /\ faults' = faults
      \/ Continue(h, Answered(h, "BadGateway")) /\ faults' # faults
      \/ Store(h, k, n, s, wanted, Answered(h, "BadGateway")) /\ faults' # faults
  BY <1>1, CallCases DEF TypeOK, ManagerConstantsAssumption
<1>4. CASE Store(h, k, n, s, wanted, r) /\ faults' = faults
  BY <1>2, <1>4, StoreFields
<1>5. CASE Store(h, k, n, s, wanted, Answered(h, "BadGateway")) /\ faults' # faults
  BY <1>2, <1>5, StoreFields
<1> QED
  BY <1>3, <1>4, <1>5

(* The session pods' templates go to one cluster first.                    *)
LEMMA PostPodsPromises ==
  ASSUME ManagerConstantsAssumption, TypeOK, StoreOK, PromisesInv, NEW h \in Handlers,
         PostPods(h)
  PROVE  PromisesInv'
<1> DEFINE k == request[h].cluster
           n == request[h].name
           r == [request[h] EXCEPT !.at = "post"]
           pods == TRUE
<1>1. k \in Clusters /\ n \in Names /\ request[h].at = "postPods"
  BY DEF PostPods, StoreOK, Request, CallsToMake
<1>2. Creates(h, n)
  BY <1>1 DEF PromisesInv, LoopsOnly, Creates
<1>3. Post(h, k, pods, r) /\ drawn' = drawn /\ claims' = claims
  BY DEF PostPods
<1>4. /\ r.op = request[h].op /\ r.name = n /\ r.cluster = request[h].cluster
      /\ r.alone = request[h].alone /\ r.at = "post" /\ r.todo = request[h].todo
  BY DEF StoreOK, Request, RequestRecord
<1>5. Aside(Answered(h, "BadGateway"))
  BY AnsweredAside DEF Answers
<1>6. claims \in [Names -> Clusters \cup {None, "gone"}]
  BY DEF TypeOK
<1>7. pods \in BOOLEAN /\ request[h].name = n /\ PostCall(h, k, n, pods)
  BY <1>1, <1>2 DEF PostCall
<1>8. PostGoesOn(r, h, k, n)
  BY <1>1, <1>4 DEF PostGoesOn
<1> HIDE DEF r, k, n, pods
<1>9. CASE Continue(h, Answered(h, "BadGateway"))
  BY <1>3, <1>5, <1>9, ContinuePromises
<1>10. CASE /\ request'[h] = r \/ request'[h] = Answered(h, "BadGateway")
            /\ OthersGoOn(h) /\ Posted(k, n, pods)
  <2>1. Aside(request'[h]) \/ PostGoesOn(request'[h], h, k, n)
    BY <1>5, <1>8, <1>10
  <2> QED
    BY <1>1, <1>3, <1>6, <1>7, <1>10, <2>1, PostPromises
<1> QED
  BY <1>1, <1>3, <1>7, <1>9, <1>10, PostCases

(* Then the session goes to every cluster, and the last answer is a claim. *)
LEMMA PostEverywherePromises ==
  ASSUME ManagerConstantsAssumption, TypeOK, StoreOK, PromisesInv, NEW h \in Handlers,
         NEW k \in Clusters, PostEverywhere(h, k)
  PROVE  PromisesInv'
<1> DEFINE n == request[h].name
           r == IF request[h].todo = {k} THEN Answered(h, "created") ELSE Visited(h, k)
           pods == FALSE
<1>1. n \in Names /\ request[h].at = "post" /\ k \in request[h].todo
      /\ request[h].cluster \in Clusters
  BY DEF PostEverywhere, StoreOK, Request, CallsToMake
<1>2. Creates(h, n)
  BY <1>1 DEF PromisesInv, LoopsOnly, Creates
<1>3. Post(h, k, pods, r) /\ drawn' = drawn
  BY DEF PostEverywhere
<1>4. IF request[h].todo = {k} /\ faults' = faults THEN Claim(h, request[h].cluster)
      ELSE claims' = claims
  BY DEF PostEverywhere
<1>5. Aside(Answered(h, "BadGateway")) /\ Aside(Answered(h, "created"))
  BY AnsweredAside DEF Answers
<1>6. claims \in [Names -> Clusters \cup {None, "gone"}]
  BY DEF TypeOK
<1>7. \/ Aside(r)
      \/ /\ r.op = request[h].op /\ r.name = n /\ r.cluster = request[h].cluster
         /\ r.alone = request[h].alone /\ r.at = "post" /\ r.todo = request[h].todo \ {k}
  <2>1. request[h] \in RequestRecord
    BY DEF StoreOK, Request
  <2>2. /\ Visited(h, k).op = request[h].op /\ Visited(h, k).name = n
        /\ Visited(h, k).cluster = request[h].cluster /\ Visited(h, k).alone = request[h].alone
        /\ Visited(h, k).at = request[h].at /\ Visited(h, k).todo = request[h].todo \ {k}
    BY <2>1 DEF Visited, RequestRecord
  <2> QED
    BY <1>1, <1>5, <2>2
<1>8. request[h].todo = {k} => Aside(r)
  BY <1>5
<1>9. pods \in BOOLEAN /\ request[h].name = n /\ PostCall(h, k, n, pods)
  BY <1>1, <1>2 DEF PostCall
<1>10. Aside(r) \/ PostGoesOn(r, h, k, n)
  BY <1>1, <1>7 DEF PostGoesOn
<1>11. Claim(h, request[h].cluster) =>
         \/ claims' = claims
         \/ request[h].alone /\ claims' = [claims EXCEPT ![n] = request[h].cluster]
  BY DEF Claim
<1> HIDE DEF r, n, pods
<1>12. CASE Continue(h, Answered(h, "BadGateway")) /\ faults' # faults
  BY <1>3, <1>4, <1>5, <1>12, ContinuePromises
<1>13. CASE /\ \/ request'[h] = r /\ faults' = faults
               \/ request'[h] = Answered(h, "BadGateway") /\ faults' # faults
            /\ OthersGoOn(h) /\ Posted(k, n, pods)
  <2>1. claims' = claims \/ PostClaims(h, k, n)
    BY <1>1, <1>4, <1>8, <1>11, <1>13 DEF PostClaims
  <2>2. Aside(request'[h]) \/ PostGoesOn(request'[h], h, k, n)
    BY <1>5, <1>10, <1>13
  <2> QED
    BY <1>1, <1>3, <1>6, <1>9, <1>13, <2>1, <2>2, PostPromises
<1> QED
  BY <1>1, <1>3, <1>9, <1>12, <1>13, PostCases

(* The deletion of a session in every cluster.                             *)
LEMMA DeleteEverywherePromises ==
  ASSUME ManagerConstantsAssumption, TypeOK, StoreOK, PromisesInv, NEW h \in Handlers,
         NEW k \in Clusters, DeleteEverywhere(h, k)
  PROVE  PromisesInv'
<1> DEFINE n == request[h].name
           found == request[h].deleted \/ sessions[k][n].stored
           wanted == IF sessions[k][n].stored THEN NoClients ELSE Nobody
           r == IF request[h].todo = {k} THEN Answered(h, IF found THEN "ok" ELSE "NotFound")
                ELSE [Visited(h, k) EXCEPT !.deleted = found]
<1>1. n \in Names /\ request[h].at = "delete" /\ k \in request[h].todo
  BY DEF DeleteEverywhere, StoreOK, Request, CallsToMake
<1>2. Deletes(h, n)
  BY <1>1 DEF PromisesInv, LoopsOnly, Deletes
<1>3. Call(h, k, n, NoSession, wanted, r) /\ drawn' = drawn
  BY DEF DeleteEverywhere
<1>4. IF request[h].todo = {k} /\ faults' = faults THEN Claim(h, "gone") ELSE claims' = claims
  BY DEF DeleteEverywhere
<1>5. Aside(Answered(h, "BadGateway")) /\ Aside(Answered(h, "ok")) /\ Aside(Answered(h, "NotFound"))
  BY AnsweredAside DEF Answers
<1>6. claims \in [Names -> Clusters \cup {None, "gone"}]
  BY DEF TypeOK
<1>7. \/ Aside(r)
      \/ /\ r.op = request[h].op /\ r.name = n /\ r.alone = request[h].alone
         /\ r.at = "delete" /\ r.todo = request[h].todo \ {k}
  <2> DEFINE v == [Visited(h, k) EXCEPT !.deleted = found]
  <2>1. request[h] \in RequestRecord
    BY DEF StoreOK, Request
  <2>2. /\ v.op = request[h].op /\ v.name = n /\ v.alone = request[h].alone
        /\ v.at = request[h].at /\ v.todo = request[h].todo \ {k}
    BY <2>1 DEF Visited, RequestRecord
  <2>3. r = v \/ Aside(r)
    BY <1>5
  <2> HIDE DEF v, r
  <2> QED
    BY <1>1, <2>2, <2>3
<1>8. request[h].todo = {k} => Aside(r)
  BY <1>5
<1>9. NoSession.stored = FALSE
  BY DEF NoSession
<1> HIDE DEF r, wanted, found
<1>10. \/ Store(h, k, n, NoSession, wanted, r) /\ faults' = faults
       \/ Continue(h, Answered(h, "BadGateway")) /\ faults' # faults
       \/ Store(h, k, n, NoSession, wanted, Answered(h, "BadGateway")) /\ faults' # faults
  BY <1>3, CallCases DEF TypeOK, ManagerConstantsAssumption
<1>11. CASE Continue(h, Answered(h, "BadGateway")) /\ faults' # faults
  BY <1>3, <1>4, <1>5, <1>11, ContinuePromises
<1>12. ASSUME NEW q, Store(h, k, n, NoSession, wanted, q),
              \/ q = r /\ faults' = faults
              \/ q = Answered(h, "BadGateway") /\ faults' # faults
       PROVE  PromisesInv'
  <2> HIDE DEF n
  <2>1. /\ request'[h] = q
        /\ \A g \in Handlers \ {h} : Undisturbed(request'[g], request[g])
        /\ sessions'[k][n] = NoSession
        /\ \A j \in Clusters, m \in Names : j # k \/ m # n => sessions'[j][m] = sessions[j][m]
    BY <1>1, <1>12, StoreFields
  <2>2. \/ claims' = claims
        \/ /\ Aside(request'[h]) /\ request[h].todo = {k} /\ request[h].alone
           /\ claims' = [claims EXCEPT ![n] = "gone"]
    BY <1>4, <1>8, <1>12, <2>1 DEF Claim, n
  <2>3. \/ Aside(request'[h])
        \/ /\ request'[h].op = request[h].op /\ request'[h].name = n
           /\ request'[h].alone = request[h].alone /\ request'[h].at = "delete"
           /\ request'[h].todo = request[h].todo \ {k}
    BY <1>5, <1>7, <1>12, <2>1
  <2>4. sessions'[k][n].stored = FALSE
    BY <1>9, <2>1
  <2> QED
    BY <1>1, <1>2, <1>3, <1>6, <2>1, <2>2, <2>3, <2>4, RemovePromises
<1> QED
  BY <1>10, <1>11, <1>12

(* Every request that arrives keeps the promises.                          *)
LEMMA ArrivePromises ==
  ASSUME ManagerConstantsAssumption, TypeOK, StoreOK, PromisesInv, NEW h \in Handlers, Arrive(h)
  PROVE  PromisesInv'
<1>1. claims \in [Names -> Clusters \cup {None, "gone"}]
  BY DEF TypeOK
<1>2. PICK n \in Names :
        \/ \E k \in Clusters : CreateSession(h, n, k)
        \/ DeleteSession(h, n)
        \/ \E c \in ClientIds :
              \/ \E k \in Clusters : CreateClient(h, n, c, k)
              \/ \E v \in {"off", "on"} : UpdateClient(h, n, c, v)
              \/ GetClient(h, n, c) \/ DeleteClient(h, n, c) \/ GetSession(h, n, c)
  BY DEF Arrive
<1>3. ASSUME NEW k \in Clusters, CreateSession(h, n, k) PROVE PromisesInv'
  BY <1>1, <1>3, CreatePromises
<1>4. CASE DeleteSession(h, n)
  BY <1>1, <1>4, DeletePromises
<1>5. ASSUME NEW c \in ClientIds, NEW k \in Clusters, CreateClient(h, n, c, k) PROVE PromisesInv'
  <2> DEFINE r == [Idle EXCEPT !.op = "CreateClient", !.name = n, !.client = c,
                               !.value = "on", !.cluster = k, !.at = "get"]
  <2>1. r \in Request
    BY CreateClientRequest
  <2>2. Aside(r)
    BY DEF Aside, Idle
  <2>3. Receive(h, r) /\ claims' = claims /\ drawn' = drawn
    BY <1>5 DEF CreateClient
  <2> HIDE DEF r
  <2> QED
    BY <2>1, <2>2, <2>3, ReceiveAside
<1>6. ASSUME NEW c \in ClientIds, NEW v \in ClientStates,
             NEW op \in {"GetClient", "UpdateClient", "DeleteClient", "GetSession"},
             NEW at \in {"lookup", "view"}, Search(h, op, at, n, c, v)
      PROVE  PromisesInv'
  <2> DEFINE r == [Idle EXCEPT !.op = op, !.name = n, !.client = c, !.value = v,
                               !.todo = Clusters, !.at = at,
                               !.steady = {k \in Clusters : Present(k, n, c)}]
  <2>1. r \in Request
    <3>1. op \in Operations
      BY DEF Operations
    <3> QED
      BY <3>1, SearchRequest
  <2>2. Aside(r)
    BY DEF Aside, Idle
  <2>3. Receive(h, r) /\ claims' = claims /\ drawn' = drawn
    BY <1>6 DEF Search
  <2> HIDE DEF r
  <2> QED
    BY <2>1, <2>2, <2>3, ReceiveAside
<1>7. ASSUME NEW c \in ClientIds,
             \/ \E v \in {"off", "on"} : UpdateClient(h, n, c, v)
             \/ GetClient(h, n, c) \/ DeleteClient(h, n, c) \/ GetSession(h, n, c)
      PROVE  PromisesInv'
  <2>1. \E v \in ClientStates, op \in {"GetClient", "UpdateClient", "DeleteClient", "GetSession"},
           at \in {"lookup", "view"} : Search(h, op, at, n, c, v)
    BY <1>7 DEF UpdateClient, GetClient, DeleteClient, GetSession, FindClient, ClientStates
  <2> QED
    BY <1>6, <2>1
<1> QED
  BY <1>2, <1>3, <1>4, <1>5, <1>7

(* Theorem: the invariant behind the answers to creations and deletions.   *)
THEOREM PromisesInductive == Spec => []PromisesInv
<1>1. Init => PromisesInv
  <2> SUFFICES ASSUME Init PROVE PromisesInv
    OBVIOUS
  <2>1. \A h \in Handlers : request[h].op = "none" /\ request[h].at = "idle" /\ ~request[h].alone
    BY DEF Init, Idle
  <2>2. LoopsOnly /\ NoneAgainst /\ HalfCreated /\ HalfDeleted
    BY <2>1 DEF LoopsOnly, NoneAgainst, HalfCreated, HalfDeleted, Creates, Deletes
  <2>3. OneCreator
    BY <2>1 DEF Init, OneCreator, Creates
  <2>4. \A n \in Names : claims[n] \notin Clusters /\ claims[n] # "gone"
    BY ManagerConstantsAssumption DEF Init, ManagerConstantsAssumption
  <2>5. Unchallenged /\ CreatedEverywhere /\ DeletedForGood
    BY <2>4 DEF Unchallenged, CreatedEverywhere, DeletedForGood
  <2> QED
    BY <2>2, <2>3, <2>5 DEF PromisesInv
<1>2. TypeOK /\ PromisesInv /\ [Next]_vars => PromisesInv'
  <2> SUFFICES ASSUME TypeOK, PromisesInv, [Next]_vars PROVE PromisesInv'
    OBVIOUS
  <2>1. StoreOK
    BY DEF TypeOK, StoreOK
  <2>2. ASSUME NEW h \in Handlers, Arrive(h) PROVE PromisesInv'
    BY <2>1, <2>2, ArrivePromises, ManagerConstantsAssumption
  <2>3. ASSUME NEW h \in Handlers, Handle(h) PROVE PromisesInv'
    BY <2>1, <2>3, PostPodsPromises, PatchPromises, ReadPromises, PostEverywherePromises,
       DeleteEverywherePromises, ManagerConstantsAssumption DEF Handle
  <2>4. CASE Restart
    <3>1. SameSessions /\ claims' = claims /\ drawn' = drawn
      BY <2>4 DEF Restart, history, SameSessions
    <3>2. \A h \in Handlers : Aside(request'[h])
      BY <2>4, AnsweredAside DEF Restart
    <3> QED
      BY <2>1, <3>1, <3>2, QuietStep
  <2>5. CASE UNCHANGED vars
    <3>1. SameSessions /\ claims' = claims /\ drawn' = drawn
      BY <2>5 DEF vars, history, SameSessions
    <3>2. \A h \in Handlers : Undisturbed(request'[h], request[h])
      BY <2>5 DEF vars, Undisturbed
    <3> QED
      BY <2>1, <3>1, <3>2, QuietStep
  <2> QED
    BY <2>2, <2>3, <2>4, <2>5 DEF Next
<1>3. Spec => []TypeOK
  BY ManagerTypeCorrect
<1> QED
  BY <1>1, <1>2, <1>3, PTL DEF Spec

(* Theorem: a session whose creation succeeded is in every cluster, its    *)
(* session pods in the requested one, until somebody asks to delete it.    *)
THEOREM CreatedEverywhereHolds == Spec => []CreatedEverywhere
<1>1. PromisesInv => CreatedEverywhere
  BY DEF PromisesInv
<1> QED
  BY <1>1, PromisesInductive, PTL

(* Theorem: a session whose deletion succeeded is in no cluster any more.  *)
THEOREM DeletedForGoodHolds == Spec => []DeletedForGood
<1>1. PromisesInv => DeletedForGood
  BY DEF PromisesInv
<1> QED
  BY <1>1, PromisesInductive, PTL
=============================================================================
