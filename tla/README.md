# TLA+ model of the XR telepresence framework

A specification, model-checked with TLC and partly proved with TLAPS, of the
controllers that schedule the pods of telepresence sessions. Sources are quoted
by their path from the repository root (`controllers/session/...` is
`src/controllers/session/...`).

## The system

A *session* is a custom resource. Its spec lists pod templates and the clients
of the session, each connected or not; its status lists the pods every client is
allocated. Four programs share it through the Kubernetes API server and nothing
else:

| part | state | operations | talks to |
|---|---|---|---|
| session manager, client handlers (`session-manager/handlers/clients.go`) | none of its own | add, connect/disconnect, remove a client | reads a session of some cluster, then sends a merge patch of `spec.clients` without a resource version |
| session manager, session handlers (`session-manager/handlers/session.go`) | none | create in every cluster, sum up over the clusters, list, delete | one API call per cluster, not undone on failure |
| session controller (`controllers/session/internal/controller`) | the session's status and `statusHash` annotation; informer caches of sessions, pods, registrations; the work queue | `Reconcile` in two halves (session pods, client pods) | spawns pods, writes status and annotation, creates and deletes `GCRegistration`s |
| GC controller (`controllers/gc/internal/controller`) | type and creation time of each registration | `Reconcile` over all registrations, requeued every 10 s | deletes idle pods and their registrations, in two timeouts |
| network controller (`controllers/network/internal/controller`) | services and ingress paths | a service for each pod, a path for each port, removal of paths without a service | reacts to pods, owns nothing of the session |
| ping, configuration, executables | | | pure I/O |

### What is hard here

* `Reconcile` computes from **caches**: of the session (clients join, drop and
  leave meanwhile), of pods (its own spawned pods may not be listed yet) and of
  registrations (not watched at all, and read before everything else).
* A reconciliation is **several writes**: registrations one by one, the status,
  the annotation with the hash of that status, then pods one by one. Each can
  conflict, fail, succeed without an answer, or be cut off by a restart.
* **Events decide** when the next reconciliation runs, and the watch predicates
  drop most of them: a session update counts only when `spec.clients` changed, a
  pod update only when its Ready condition changed, pod creations never, and the
  end of a grace period is no event at all.
* Optimistic concurrency is the **only** protection between the session manager
  and the controller, and the annotation is written with an `Update` of the
  whole object, spec included.
* The GC controller deletes **by name** what the session controller may just be
  handing to a client.
* The network controller reads **three caches** one after the other, and is called
  for creations of pods and deletions of services only.

What has to be right: no pod over `maxClients`; a client keeps its pods while it
is connected and through its grace period; no pod runs that no status knows of;
no client edit is overwritten; at rest, the status and the pods match the spec;
a client that stays connected is served in the end, whatever failed on the way;
a pod that stays has its service and its route, and keeps them.

## Modules

| module | models |
|---|---|
| `ClientPods` | the computations of `client_pods.go` on one status, no variables |
| `SessionController` | one session under `Reconcile`, its caches and predicates, the API server, faults, and the rest of the system as environment |
| `AtomicSession` | what a session's users can count on: reconciliation in one step, no caches or copies; `SessionController` implements it |
| `GCController` | the registrations of all sessions under the GC controller's `Reconcile`, its caches, queue and timers, faults, and everything else as environment |
| `Telepresence` | composition: `SessionController` and `GCController` on the same pods and registrations |
| `SessionManager` | the session manager's handlers, concurrent, over several clusters, with partial failure |
| `NetworkController` | services and the ingress under the network controller's `Reconcile`, its caches and predicates, faults, pods that come and go |
| `MC...` (`MCSessionController`, `MCGCController`, `MCTelepresence`, `MCSessionManager`, `MCNetworkController`) | values of the constants for TLC |
| `SessionControllerProofs`, `SessionSafetyProofs`, `SessionRefinementProofs`, `SessionSettledProofs` | theorems about `ClientPods` and `SessionController` |
| `GCControllerProofs`, `SessionManagerProofs`, `NetworkControllerProofs` | theorems about the other three |
| `TelepresenceProofs` | theorems about both controllers together |

### `ClientPods`

A status is the record of what the properties tell apart: `seen` (the
`LastSeenAt` of every client, `Absent` without an entry, `defaultTime` while
connected), `alloc` (the names of its pods), `ready`, and of the session pods
`podsStatus`, `cond`, `condAt`. Of the paths of a client's pods it has `external`,
the pods whose paths carry the ingress IP: they get it when the pod is first found
ready (`concatIngressExternalIpToPodPaths`) and keep it when the pod is not ready any
more, so two status values that report the same pods and readiness can differ in
paths, and then have different hashes. The IP does not change once it is there, every
pod is taken to have a path, and the paths of session pods are made anew in every call
from that IP, so they need no field. Left out: pod specs, messages of conditions.

Pod names are numbers (the four hexadecimal digits that end them), so that the
order by id in `comparePods` is the order of numbers; `TemplateOf` is the
template segment of a name. `uuid.New` picks any number; whether it may repeat
one in use is the constant `UuidCollides`. With it, two entries of one name that
the code makes for a template *within one reconciliation* are one entry in the
model: exact where a pod has room for every client of the instance, as in
`together`, the only run with `UuidCollides`.

`sortAllocationMap` and `findFirstPodAvailable` are together "the fullest pod
that still has room, of the highest id among equals" (the comment there says why
sorting once is enough). `reutilizePod` takes any listed pod of the template
that nobody uses: the choice is the iteration order of a Go map.

### `SessionController`

| state | in the code |
|---|---|
| `session`, `pods`, `regs`, `ip` | objects in the API server (spec.clients, status, annotation; Ready condition of pods; registrations by name; the external IP of the ingress service) |
| `cache`, `lag` | the manager's informer caches, and whether what they have yet to see is an event (`predicates.go`) or quiet |
| `queued`, `pc` | the work queue (one session, one worker) and the position in `Reconcile` |
| `copy`, `current` | the `Session` that `Reconcile` fetched and modifies, and whether its resource version is still the stored one |
| `seenRegs`, `seenIp`, `listed`, `newClients`, `toCreate`, `toDelete`, `toSpawn` | what it read, and calls still to be made |
| `recorded` | history: every client pod some stored status has named |

One action is the code up to its next call that another process can observe:

| action | code |
|---|---|
| `Begin`, `SessionNotFound`, `ReadFails` | `session_controller.go:60-84`, Get and List |
| `PanicOnMissingIp`, `GetPodsFails`, `ReconcileSessionPods`, `RestorePod`, `RestoreFails`, `PodsRestored` | `session_pods.go` |
| `CreateGCRegistration`, `DeleteGCRegistration`, `RegistrationFails`, `RegistrationsDone` | both loops over registrations; the error is dropped by the callers |
| `ReportError` | the status write before an error of the first half is returned (`:84-89`) |
| `ReconcileClientPods`, `AllocateClient`, `ReconcilePods`, `ListFails` | `client_pods.go:40-101` and the functions it calls |
| `StatusUnchanged`, `UpdateStatus`, `UpdateStatusFails`, `UpdateAnnotation`, `UpdateAnnotationFails` | `:103-118` |
| `SpawnClientPod`, `SpawnFails`, `Done` | `:121-128` |
| `SyncSession`, `SyncPods`, `SyncRegistrations` | informers catching up; the predicates decided whether that is an event |
| `Restart` | the manager is restarted: locals lost, caches fresh, everything queued |
| `EditClient`, `DeleteSession` | the session manager |
| `PodRemoved`, `RegistrationRemoved` | the GC controller, or the cluster |
| `PodCondition`, `AssignIp`, `Tick` | kubelet, ingress-nginx, time |

Simplifications, all of them deliberate:

* One session and one worker: controller-runtime never runs two reconciles of
  one key at a time, and sessions share nothing but the registrations' namespace.
* A cache jumps to the present instead of passing through every version. What it
  skips matters only to the predicates, which is why `lag` keeps "event" until
  the cache has caught up. The registrations' cache may lag for ever, as nothing
  waits for it.
* Resource versions are `current` and `lag.session`; a write of a copy that is
  not current is the API server's Conflict. Writing what is already stored
  changes no version, as the API server has it.
* An operation that fails may have been done (`"lost"`) or not (`"error"`).
* The registrations that `ReconcileSessionPods` decides on are handled before it
  sets the status; the model sets the status first, in memory nobody else reads.
* A pod condition "Unknown" is "False" (`PodsAreReady` tells them not apart).
* A pod is there or gone: terminating pods are not a state of their own.
* The ingress service is read without lag; a read that fails is taken for a
  service without an IP, as the code does.
* A deleted session does not come back under its name.
* Environment actions are free: in particular the GC controller may delete any
  pod at any time, more than the real one does.

### `AtomicSession`, and how it is implemented

`AtomicSession` has the stored clients, the entries of the status (`since`,
`alloc`), the pods that were ever named and those that run, and a clock.
`Reconcile(t)` replaces every entry at once: a client that is gone or expired at
`t` is forgotten, one that holds its pods keeps them and is stamped, one that is
connected without pods gets one pod of each template, and no pod is over its
capacity. `t` may be earlier than now, since the code takes the time before it
writes. `Spawn` starts named pods only.

`AtomicReconcile` of `SessionController` is `Atomic!Spec` under the obvious mapping
of the stored variables. Its copies, caches, positions and resource versions have
no counterpart: every write of the status is one `Reconcile(t)`, all other steps of
the controller are stutters or `Spawn`. It needs `~UuidCollides`, as a repeated name
puts two clients on one pod. What remains hidden by the abstraction is *when*
the status is written; that is what the `Settled` and liveness properties say.

### `GCController`

| state | in the code |
|---|---|
| `sessions`, `pods`, `regs` | objects in the API server: which sessions and pods exist, and each pod name's registration (type, age) |
| `cachedSessions`, `cachedPods`, `cachedRegs` | the manager's informer caches |
| `queue`, `waiting`, `key` | keys in the work queue, keys put off by `RequeueAfter`, the key being handled |
| `listed`, `deleting` | the registrations listed and not handled yet; the pod whose registration is to be deleted next |

`age` is the time since the `creationTimestamp`, and stops at one past the sum of
both timeouts, where no comparison can tell it from an older one: so runs are
infinite and the state space is not. `current` in a copy of a registration
stands for its resource version: the copy is the stored version. Delete goes by
name and needs no version; Update needs it, and meets a Conflict without.

| action | code |
|---|---|
| `Begin`, `ReadFails`, `Finish` | `gc_controller.go:26-43`, `:72` |
| `KeepRegistration`, `DeleteOrphan` | the loop over registrations, `:36-71` |
| `DeletePod`, `DeleteExpired`, `MarkReusable` | `handleExpiredRegistration` |
| `TimerFires`, `SyncRegistration` | `requeueAfterSec`; `SetupWithManager`: every change of a registration is an event |
| `Register`, `Unregister`, `PodSpawned`, `SessionDeleted` | session controllers and the session manager |
| `PodLost`, `Tick`, `Restart` | cluster, time, restart of the manager |

Simplifications: an error queues the key again at once instead of after a
growing delay; a pod is there or gone; timeouts are natural numbers of ticks
(the code's type is `int`); the environment may register any pod, idle or not,
present or not, since the session controller decides from caches of its own.

### `Telepresence`

Each step of `BothNext` is a step of one controller and, at the same time, what
the other sees of it: `SessionStep` is `Reconcile` of `SessionController`, and the
registration it creates or deletes is a new version for the collector
(`RegistrationsWritten`); `Collect` is `Reconcile` of `GCController` (`INSTANCE ...
WITH` the shared pods and registrations), and the pod it deletes is gone and an
event for the session controller. `Users` is the session manager, `Time` moves both
clocks. So neither environment is free any more: pods are only removed by the
collector, by name, through a registration that the session controller made.

Left out here: faults, pods removed by the cluster, and changes of Ready conditions,
which the components' own runs have. With both timeouts zero in its runs, a registration is due at once, the
most hostile moment. The second timeout is therefore exercised in `collection`
only. A pod's name may be drawn again (`UuidCollides`), so that pods end and start
under one name in an instance with one name.

### `NetworkController`

| state | in the code |
|---|---|
| `pods`, `services`, `routes` | objects in the API server: for each pod name the pod's number (its UID), the number of the pod that owns the service, and whether the one ingress has its paths |
| `cachedPods`, `cachedServices`, `cachedRoutes`, `outdated` | the manager's informer caches; the cached ingress is not the stored version |
| `podNews`, `serviceNews`, `queued` | creations of pods and deletions of services on their way, keys in the work queue |
| `pc`, `listed`, `known`, `hollow` | the position in `Reconcile`, pods listed and not handled, `servicesMap` with its entries and nil entries |
| `misled` | history: the last `Reconcile` updated nothing because a stale ingress showed what it wanted |

| action | code |
|---|---|
| `Begin`, `ListServices`, `ReadFails` | `network_controller.go:30-50` |
| `spawnService`, `SpawnFails` | `:59-127`, `spawnServices`, `spawnService`; AlreadyExists leaves a nil entry |
| `PanicOnNilEntry`, `IngressUnchanged`, `UpdateIngress`, `UpdateIngressFails` | `:56` and `ingress.go`: garbage collection of paths, publication, one Update |
| `SyncPod`, `SyncService`, `SyncIngress` | informers with the predicates of `SetupWithManager` |
| `Restart` | fresh caches, every pod a creation, deletions missed |
| `PodCreated`, `PodDeleted`, `ServiceCollected` | the other controllers, and Kubernetes' collection of owned objects |

A call handles all pods whatever its key, so the queue is a number of keys, cut off
at `MaxKeys` (more keys than that queue the same work again). All paths of one pod
are one route: they are published and removed in one Update. Pods have numbers up
to `MaxPods`, so a pod may be recreated under its name. Left out: namespaces, ports
and labels, and changes to the ingress by others.

### `SessionManager`

| state | in the code |
|---|---|
| `sessions` | per cluster and name: whether the session is stored, its `spec.clients`, whether its spec has session pod templates |
| `request` | per handler: the request it is busy with, its locals (`cluster`, the clusters still to visit, the copy or sum of what it read, `deleted`) and the call it makes next, or its last answer |
| `drawn` | names that sessions were given |
| `asked`, `raced`, `claims` | history: what the last request on each client asked for, which clients met another handler's copy, what the last answer on each session promises |

| action | code |
|---|---|
| `CreateSession`, `PostPods`, `PostEverywhere` | `session.go:17-71`; AlreadyExists counts as success |
| `DeleteSession`, `DeleteEverywhere` | `session.go:163-184` |
| `CreateClient`, `GetForCreate` | `clients.go:16-51`, one cluster only |
| `GetClient`, `UpdateClient`, `DeleteClient`, `findSessionByClientId` | `clients.go:54-75` and its callers; clusters in any order, as Go iterates over a map |
| `GetSession`, `findSession`, `sessionSum` | `session.go:73-138`; `GetClients` makes the same calls |
| `patchSession` with `patchData` and `MergePatch` | `clients.go:81-93`, `k8s-client/methods.go:67-100`: the whole map that was read, or one null key; no resource version |
| `Restart` | locals lost, half-done loops stay half done |

A manager keeps nothing of its own, so it starts with whatever earlier ones left
in the clusters: every combination of sessions is an initial state, since
failures and races of theirs reach them. Left out: requests refused before their
first call, the session controllers' writes (they do not touch the clients, by
`SpecUntouched`), `GetSessions`, which is one call, what `findSession` sums up besides
the clients, and calls whose effect comes later than their failure is noticed. A patch can change
several clients at once, and `EditClient` of `SessionController` one: there it is
several edits in a row, with nothing in between.

## Runs

Every bound is a CONSTANT of the cfg: `MaxEdits` client edits, `MaxChurn`
cluster events, `MaxFaults` faults, clock up to `MaxTime`; `EditKinds`,
`ChurnKinds` and `FaultKinds` say which of them happen. All runs set
`CHECK_DEADLOCK FALSE`: a controller with an empty queue in a quiet cluster does
stop, and what must be true then is what the `Settled` properties say. Clients
are symmetric where `SYMMETRY` is given (no property names a client and no
liveness property is checked there).

| run | instance | shows |
|---|---|---|
| `clients` | 2 clients, 2 pod names, `maxClients` 0 (a pod for each client), 3 edits of every kind, one cluster event (a pod is removed or becomes ready), one fault of any kind, one tick with grace period 1 | `TypeOK`; `Capacity`, which with such a `maxClients` says that no two clients share a pod; `PodsRecorded`, `KeepsPods`, `SpecUntouched`; `AtomicReconcile`, that the controller implements `AtomicSession`; `IInv` and `ComputedInv`, the invariants the proofs use |
| `lifecycle` | 3 clients on 2 pods of two, 4 edits (join, drop), a pod removed, a write without an answer or a restart, expiry | `Capacity`, `KeepsPods`: pods filled from stale copies never exceed two clients, nobody is moved; `SettledStatus`: at rest the stored status and the pods match the spec; `SettledInv`, the invariant of its proof |
| `joins` | 2 clients join and stay on a shared pod, a session pod, an ingress IP that is there or comes, a pod is removed or the session deleted, a fault; fairness | `JoinServed`, `SessionPodsRestored`: both clients are served, and the session pod is there, from some time on, if the session stays and the ingress gets its IP |
| `topology` | 2 session pods and two client templates at once, 1 client, IP early or late, a pod or a registration removed or a pod ready, a failing call or a restart | `SettledSessionPods`: at rest no connected client misses a session pod, also when a restore fails half way; `SettledStatus` with both halves of `Reconcile`; `IInv` where there are session pods; `RestoredInv`, the invariant of the proof of `SettledSessionPods` |
| `collection` | `GCController`: a pod of a session with both timeouts, one of a session without the second, 3 outside events of any kind, one fault of any kind; fairness | `Patient`: no pod is deleted before its registration outlived its timeouts; `RegistrationsEnd`: no registration stays for ever; `GCInv`, the invariant of the proofs (`Attended`, `MarkedLate`) |
| `together` | `Telepresence`: 2 clients, 3 edits (join, drop), one pod of two under one name, no grace period and no timeout | `SettledStatus`: what the collector deletes by name from its caches is restored to whoever is connected by the time the session controller rests; `CollectorInv`: the registrations that the session controller writes are what the collector's proofs assume of them, and none that was seen is forgotten |
| `requests` | `SessionManager`: 2 clusters, one session in any state, 2 clients, 2 handlers, 3 requests of any kind, one fault of any kind | `LastWord`: who sends the requests on a client one after the other, and meets nobody between read and patch, has the state last asked for; `CreatedEverywhere`, `DeletedForGood`: what a successful answer promises holds in every cluster, also after attempts that failed half way; `FoundWhereItIs`, `SeenWhole`: no search misses a client that is there, no sum over the clusters leaves it out; `ManagerInv` and `PromisesInv`, the invariants of the proofs |
| `routes` | `NetworkController`: 2 pods, of two names or one after the other under one name, one fault of any kind; fairness | `KeepsRoutes`: no pod loses the route to its service, although caches do not show the service; `SettledServices`, `SettledRoutes`: at rest every pod has a service of its own and the routes are those of the pods; `PodsServed`: a pod that stays gets both and keeps them; `NetworkInv`, the invariant of the proofs |
| `skipped_status`, `lost_update`, `lost_route`, `idle_pods` | the smallest instances | the findings below |

Why these bounds: three edits are a join, a drop and a return of one client, or
a join of one against a join and a drop of another, which covers every pair of
steps that can race; a second fault or cluster event repeats the first from a
state already reached. Two clients and two names already make allocations
collide and run out, and since every pod in the allocation map has a client, a
`maxClients` of 0 and one of 1 leave room in none; three clients are needed to fill a pod of two while another
waits. Three outside events in `collection` are enough to register a pod, delete the
registration under the collector's hands and make it anew. Three requests in
`requests` are two that race and a third that sees the outcome, or a creation, a
deletion that fails half way and its retry. `joins` has as many names as clients because a lost status write may be
repeated from a stale copy with new names. One tick past a grace period of 1 is an expiry. In `together`, three edits are the
join and drop of one client and the join of another, enough for a pod to be
registered, reused and deleted in any order; one name suffices because pods repeat
it. In `routes`, two pods are two names at once, or one name twice, which is what
the nil entry, the collected service and the stale ingress need; two keys are one
being handled and one to follow.

**Fairness** (`FairSpec` of `SessionController`): weak fairness of `Reconcile` (the work queue runs
while it is not empty), of `SyncSession` and of `SyncPods` (a watch delivers what
happened). No fairness for the environment, for faults (bounded by `MaxFaults`,
so retries succeed in the end, as backoff has it), or for `SyncRegistrations`.
`FairSpec` of `GCController` adds that timers fire and time passes, and asks that
every watch delivers; there too nothing outside is fair. `BothFair` of `Telepresence`
is both, on the composed steps, again without the session controller's watch of
registrations. `FairSpec` of `NetworkController` is the worker, the watches, and
Kubernetes' collection of services whose owner is gone.

## Findings

Runs that end in a counterexample, each one property of what a doc or comment
says; `PROJECT.json` quotes the lines.

* `skipped_status`: the status write is skipped when its hash equals the
  annotation, but the annotation is written by a second call. If that call
  meets a conflict because the client reconnected, the retry computes exactly
  the status that the *old* annotation stands for and writes nothing: the stored
  status keeps the client disconnected, and it is forgotten when it expires.
* `lost_update`: `CreateClient` and `UpdateClient` patch with the whole map they
  read, without a resource version: what another request has changed meanwhile is
  put back as it was read. A client that was deleted with success is in the session
  again, in the state it had; one that was disconnected or reconnected has its old
  state.
* `lost_route`: the ingress is compared in its cached version, and where there is
  nothing to update, no version is checked. A pod that is replaced under its name
  while the cached ingress still shows the old path, which the stored one has lost,
  gets no route, and no event follows.
* `idle_pods`: the collector takes a pod that its pod cache does not show yet for
  one that is gone, and deletes its registration, which is no event of the session
  controller. The pod is registered again at the next event of the session: an edit
  of its clients, or a change of the Ready condition of one of its pods. `Telepresence`
  has no such changes, so the run is about a pod that has become ready before, or
  never does; without an event the idle pod runs for ever. The run has no faults: it
  is the stale cache alone, not the dropped error of `client_pods.go:96`.

Seen while modelling, and without a run of its own since the line says it all: the
ingress IP is dereferenced before it is tested for nil (`session_pods.go:39`), so
`Reconcile` panics and is retried until the IP is there; four hexadecimal digits
of a UUID repeat and nothing checks (`client_pods.go:250`, `session.go:32`); a
registration is deleted only if the list read at the start of `Reconcile` shows it
(`client_pods.go:340`), so a client that reconnects in between may sit on a
registered pod until the next event; and readiness is compared with the cached
annotation as in `skipped_status` (`session_controller.go:106`).

The passing runs leave out what the findings need: `lifecycle`, `topology` and
`together` check `SettledStatus` for clients that do not come back, `LastWord` excepts
the clients that `lost_update` is about, `SettledRoutes` and `PodsServed` except what a
stale ingress misled (`misled`), `SettledSessionPods` speaks of rest, which a missing IP
never reaches, `JoinServed` and `SessionPodsRestored` of sessions whose ingress has an IP
in the end, and all but `together` (one name,
of a pod with room for both clients) have `UuidCollides` FALSE.

## Theorems

Proved by TLAPS for every value of the constants that satisfies
`ConstantsAssumption`, `NoHashAssumption` and `BoundsAssumption`, those of
`GCController` for `GCConstantsAssumption` (any timeouts, also zero), those of
`SessionManager` for `ManagerConstantsAssumption`, those of `NetworkController` for
`NetworkConstantsAssumption`, and those of `Telepresence` for those of both
controllers and `CollectorAssumption` (the second timeout is a natural number, and
"no pod" is none): any finite set
of clients, any templates and pods, any bounds, any kinds of faults.

| theorem | module | says |
|---|---|---|
| `TypeCorrect` | `SessionControllerProofs` | `Spec => []TypeOK` |
| `Inductive` | `SessionSafetyProofs` | `Spec => [](TypeOK /\ IInv)` |
| `PodsRecordedHolds` | `SessionSafetyProofs` | no client pod runs before a stored status names it |
| `SpecUntouchedHolds` | `SessionSafetyProofs` | only the session manager changes `spec.clients` |
| `KeepsPodsHolds` | `SessionSafetyProofs` | no write takes the pods of a protected client |
| `CapacityHolds` | `SessionRefinementProofs` | no pod over `maxClients`, if `~UuidCollides` |
| `ComputedHolds` | `SessionRefinementProofs` | the status computed from a current copy is the stored one reconciled |
| `AtomicReconcileHolds` | `SessionRefinementProofs` | `SessionController` implements `AtomicSession`, if `~UuidCollides` |
| `RestoredHolds`, `SettledSessionPodsHolds` | `SessionSettledProofs` | at rest no connected client misses a session pod |
| `SettledInvHolds`, `SettledStatusHolds` | `SessionSettledProofs` | at rest the stored status and the pods match the spec, if `OneWay` and `Templates # {}` |
| `GCTypes` | `GCControllerProofs` | `Spec => []TypeOK` of `GCController` |
| `GCInductive` | `GCControllerProofs` | `Spec => [](TypeOK /\ GCInv)` of `GCController` |
| `PatientHolds` | `GCControllerProofs` | no pod is deleted before its registration outlived its timeouts |
| `ManagerTypeCorrect` | `SessionManagerProofs` | `Spec => []TypeOK` of `SessionManager` |
| `ManagerInductive` | `SessionManagerProofs` | `Spec => [](TypeOK /\ ManagerInv)` |
| `LastWordHolds` | `SessionManagerProofs` | a client is in the state last asked for, unless a request on it met another handler's copy |
| `FoundWhereItIsHolds` | `SessionManagerProofs` | no search misses a client that some cluster had all along |
| `SeenWholeHolds` | `SessionManagerProofs` | no sum over the clusters leaves out such a client |
| `PromisesInductive` | `SessionManagerProofs` | `Spec => []PromisesInv` |
| `CreatedEverywhereHolds`, `DeletedForGoodHolds` | `SessionManagerProofs` | what the answer to a creation or deletion promises holds in every cluster |
| `NetworkTypes`, `Inductive` | `NetworkControllerProofs` | `Spec => [](TypeOK /\ NetworkInv)` of `NetworkController` |
| `RoutesKept` | `NetworkControllerProofs` | no pod loses the route to its service |
| `ServicesSettle`, `RoutesSettle` | `NetworkControllerProofs` | at rest the services, and unless misled the routes, are those of the pods |
| `TogetherInductive` | `TelepresenceProofs` | the invariants of both controllers, each with the other as its environment |
| `CollectorInvHolds` | `TelepresenceProofs` | the registrations of the session controller are what the collector's proofs assume of them |
| `TogetherPatient` | `TelepresenceProofs` | `BothSpec => GC!Patient` |
| `TogetherKeepsPods`, `TogetherAtomicReconcile` | `TelepresenceProofs` | the same of `BothSpec` as `KeepsPodsHolds` with `PodsRecordedHolds`, and `AtomicReconcileHolds` |
| `TogetherSettledSessionPods`, `TogetherSettledStatus` | `TelepresenceProofs` | the same of `BothSpec` as `SettledSessionPodsHolds` and `SettledStatusHolds`: what the collector deletes is restored |

The argument. None of the properties is inductive: each speaks of the stored
session, which is overwritten by a copy computed long before. `IInv` follows the
copy:

* `VersionInv`: a cache that is not behind equals the store, and a copy that is
  current has the stored clients. So the annotation's whole-object `Update`, which
  succeeds only for a current copy, writes the clients back unchanged
  (`SpecUntouched`).
* `KeptInv`: a current copy has the stored entries until the client pods are
  looked at, and from then on still those of every protected client; clients
  waiting to be allocated have no entry, so allocation overwrites none. A client
  edit makes the copy stale, so whoever becomes protected meanwhile is protected
  by the Conflict (`KeepsPods`). Time only shrinks the set of protected clients.
* `RecordedInv` and `CallsInv`: every version of the status outside the
  reconciliation at hand names recorded pods only, and the pods to be spawned are
  those of the copy's status, which by then is stored. The case that needs care
  is `StatusUnchanged`, which spawns without a write: there the status equals the
  annotation, which was written from a stored status (`PodsRecorded`).
* `CapacityInv` adds that the copy and the cache overfill no pod. A new client
  gets a pod with room, or one that the status does not name, in a copy that is
  within capacity; everything else only takes pods away.
* `ComputedInv` says of a current copy that, for some time that was, it is the stored
  status reconciled at once: each entry but those of clients still to be allocated
  is an `Entry` of `AtomicSession`. Each of `cleanExpiredClientsFromStatus`, `handleClientChanges` and allocation
  moves some entries there, time only adds candidates, and a copy that is not
  current cannot be written. With `CapacityInv` for the capacity of pods and
  `RecordedInv` for those that are spawned, every step of the controller is a step
  of `AtomicSession` or a stutter (`AtomicReconcile`).
* What holds at rest is the outcome of the last call that nothing disturbed
  (`Undisturbed`: no key in the queue and no event on its way), so the invariants
  follow such a call from its start. `EventsInv` says what the predicates let pass
  in silence: what is no event leaves the clients as the cache shows them and no
  cached pod missing. So the session pods that the call lists are there, the others
  are restored, and an error queues the key again (`RestoredInv`, `SettledSessionPods`).
* For the client pods (`SettledInv`) the difficulty is the status write that is skipped
  because the hash equals the annotation, which may stand for any older status.
  `HistoryInv` says that no version, however old, shows of a client what has not
  happened to it, and that an annotation showing a client connected who still is has
  the pods of the stored status. `SkippedInv` covers the client that dropped: no
  version has an annotation that shows it disconnected and a status that shows it
  connected, so a skipped write leaves no such status behind. `StatusInv` says that
  the computed status shows the clients of its copy, `EntriesInv` that every entry has a
  pod of each template, and `RestInv` carries both to the end of the call: what is
  allocated is there or still to be spawned.
  `OneWay` (clients join and drop, and do not return) is a hypothesis because
  `SettledStatus` is false without it: `skipped_status` is the counterexample. So is
  `Templates # {}`: without client pods the code computes no status of clients.
* `TelepresenceProofs` instantiates the lemmas of `GCControllerProofs` under the
  substitution of `Telepresence`, with the assumption of that module discharged
  (`CollectorConstants`). Every step of `BothNext` is a step of one controller for
  which its own lemmas hold, and leaves the variables of the other alone but for the
  pods and registrations. What those see is either a step of their own environment
  (`StepOf`, `RegistrationSteps`), or an event the session controller's invariants
  allow (`Aside...`): pods go, time passes, registrations change. The one new fact is that
  a registration exists for the one exactly if it does for the other, with
  `CollectorInv` for its versions.

* `GCInv` of `GCController` says of every copy that it is the stored registration,
  of the same age, where it is current (`CopiesInv`). So the Update that marks a
  registration for its second timeout can hit only the one whose first timeout
  was seen to have passed (`MarkedLate`), and the deletion of a pod under a
  registration nobody replaced is as late as that registration demands
  (`Patient`). `Attended` needs nothing but the queue: every action that takes a
  key out of it puts it into the timers or back.
* `ManagerInv` says of the copy that a handler is about to patch with that it agrees
  with the store on every client that has not raced, but for the one it is made
  for (`CopiesAgree`): whoever changes a client while a copy is out makes it a raced
  one, so the patch changes nobody else. A search that goes on has every cluster
  that had the client all along still before it (`SearchesOn`), so it cannot end
  without finding the client; `SumsUp` adds the sum that has the client already.
* `PromisesInv` follows the loops over the clusters. While a request to create
  meets none to delete (`NoneAgainst`), the clusters it has been to have the session,
  with session pods where they belong (`HalfCreated`), and a deletion leaves none
  behind it (`HalfDeleted`); a name that is drawn once has one creator (`OneCreator`).
  The last answer turns that into a promise, and whoever could break it arrives
  later and withdraws it first (`Unchallenged`).
* `NetworkInv`: a service of the pod that is stored was made for a pod the cache has
  shown, so every call that lists services or tries to make them has an entry for it
  (`OwnersSeen`), and an entry, even nil, keeps the route (`KeepsRoutes`). Whatever lacks a
  service is announced by an event, a key or the call at hand (`Announced`), so nothing
  is announced at rest (`SettledServices`); the routes the last call left are those of
  its entries, which are services or deletions still to be handled (`Routed`).

TLC checked every one of these invariants on the instances above before it was
proved. `SessionControllerProofs` begins with the
lemmas about the operators: what each does to the type and to the entries of a
status. `TypeOK` is split into `WorldOK` and `LocalsOK`, and `IInv` into `StoreInv`
and `CopyInv`, since most actions touch one half only.

Only model-checked: liveness, which is out of the prover's reach (`JoinServed`,
`SessionPodsRestored`, `RegistrationsEnd`, `PodsServed`). Every invariant and every other
action property or refinement that a passing run checks is also a theorem. `SettledStatus` is one under
`OneWay` only, as the runs that check it are; for clients that come back it is
false. `TelepresenceProofs` states the properties of either controller of `BothSpec` one by one and not as
`BothSpec => Spec` and `BothSpec => GC!Spec`: the bounds on churn count the environment's steps,
and in the composition the steps of the other controller are not counted, so the
implication would be false for a reason that is not about the code.

## Not modelled, and why

The ping handler measures latency over a WebSocket, the configuration is read once,
and the executables are scaffolding: I/O without state of the framework. The samples,
manifests, provisioning scripts, generated code and end-to-end tests hold no logic of
it. `GetSessions` of the session manager is one call that changes nothing.

## Plan

1. `Telepresence` with the second timeout, and its liveness with `idle_pods` excepted;
   both outgrow TLC in the present form.
2. A reference check of allocation: the literal sort and first fit on sequences
   against `findFirstPodAvailable`.
3. Proofs: what a repeated pod name still leaves true of `Capacity`, and which
   weaker form of `SettledStatus` clients that come back keep.
