# stellaris (multi-cluster-manager): TLA+ models, checks and proofs

stellaris manages Kubernetes clusters from one control plane. A *core* process runs beside
the API server of the control plane; every member cluster runs a *proxy* that opens a gRPC
stream to the core, registers, sends heartbeats, receives resources and reports their
status. Users write a `MultiClusterResource` and bind it to clusters, directly or through a
schedule policy; the core turns it into one `ClusterResource` per cluster, which travels to
the proxy and is applied there.

This directory holds TLA+ modules of that code, TLC configurations that check them on small
instances, and TLAPS proofs for every instance. `PROJECT.json` maps each definition to its
source lines. Paths below are relative to the repository.

## 1. Inventory

### Components, their state and operations

| Component | Source | State | Operations |
|---|---|---|---|
| Core gRPC server | `pkg/core/handler`, `pkg/core/stream`, `pkg/utils/core` | the stream table (in memory), one goroutine per request | `Establish`, `Register`, `Heartbeat`, `Resource`, table `Insert`/`FindStream` |
| Core monitor | `pkg/core/monitor` | none; reads the `Cluster` objects | `checkClusterStatus`, `policyReSchedule` |
| Proxy session | `pkg/proxy/stream`, `send`, `handler`, `cmd/proxy` | `initialized`, `stream`, the receiving goroutine, the heartbeat goroutine | `GetConnection`, `SetEmptyConnection`, `RecvResponse`, `HeartbeatStart` |
| ClusterResource controller | `pkg/controller/cluster-resource` | `ClusterResource` in the control plane, its copy in the member cluster, the applied resource | `Reconcile` on either side, `SyncClusterResource...`, `syncResource`, status requests |
| Resource-binding controller | `pkg/controller/resource-binding` | `MultiClusterResourceBinding`, its `ClusterResource`s | `Reconcile`, `syncClusterResource`, `updateBindingStatus`, `ApplyResourceOverride` |
| MultiClusterResource controller | `pkg/controller/multi-cluster-resource` | `MultiClusterResource` | `Reconcile`, `updateBinding` |
| Schedule-policy controller | `pkg/controller/resource-schedule-policy` | policy times and labels, the binding it makes | `doSchedule` and what it calls, `createOrUpdateBinding` |
| Cluster controller | `pkg/controller/cluster` | `Cluster` object, its namespace, the proxy deployed in it | `Reconcile`, `deployProxy`, `OfflineCluster` |
| Namespace-mapping controller | `pkg/controller/namespace-mapping` | labels of namespaces, a cache of them | `Reconcile`, `mappingOperator` |
| Cluster-set controller | `pkg/controller/cluster-set` | none | an empty `Reconcile` |
| Aggregation | `pkg/core/handler/aggregate_handler.go` | policies and rules, sent with a register response | `Aggregate` only logs; the proxy creates or updates what it gets |
| Proxy addons | `pkg/proxy/addons`, `pkg/proxy/condition` | the answers of the plugins of one call, and what is left of earlier calls | `LoadAddon`, `runPlugins`, `AddonManager`, the watcher |
| Webhooks | `pkg/webhook`, `pkg/common/validation` | none | validation of one request |
| CUE rules, helpers, API types, clients | `pkg/cue`, `pkg/utils`, `pkg/common`, `pkg/apis`, `pkg/client`, `config` | none | rendering, formatting, generated code |
| Deployment | `charts`, `kube`, `template`, `build`, `hack` | none | manifests |

### How they interact

* core and proxy: two kinds of message queue on one stream (requests up, responses down),
  in order, until the stream breaks. The core starts a goroutine for every request, so
  requests that arrive in order are handled in any order.
* core goroutines share the stream table (a map under a read-write lock) and the API server
  (optimistic locking by `resourceVersion`; a conflicting write is an error).
* proxy goroutines share `initialized` and `stream`.
* controllers are called by controller-runtime for events, after errors, and for every
  object once in a while (`SyncPeriod`, 10 hours by default).
* controllers are chained by objects: schedule policy → binding → ClusterResource → message →
  copy → resource, and back: status of the copy → message → ClusterResource → binding.

### What is hard, and what makes each component correct

* **Session.** A heartbeat handled late, a monitor that decides on a list read earlier, two
  handlers inserting into the table, a proxy that dials between the two stores of
  `SetEmptyConnection`, a core restart that forgets the table. Correct means: the status of
  a cluster goes offline only after silence, a received heartbeat is never overwritten by an
  older one, a live proxy becomes routable and online again, a dead one not.
* **ClusterResource.** Delivery by two goroutines without acknowledgement, deletion against
  delivery, a status that is sent before it is stored. Correct means: what is applied is
  accounted for, `Complete` means that the spec is applied, what was removed does not come
  back, both sides converge on the spec.
* **Bindings.** Two controllers run the same synchronisation on different reads, with a map of
  aliased pointers. Correct means: contents never go back, in the end exactly the bound
  clusters have the last version, and nothing outlives a deletion.
* **Scheduling.** Index juggling over several lists, floating-point shares, limits. Correct
  means: limits hold, no replica is lost or invented, only online clusters are bound, and
  scheduling ends.
* **Failover.** The monitor and the policy controller share the policy's object and the
  clusters' statuses, and neither waits for the other. Correct means: a policy is told before
  its cluster goes offline, an order is served by the clusters that are online in the end, and
  the controller, which writes its own object, comes to rest.
* **Namespace mapping.** Several mappings write one namespace from a cache that lags, and
  ignore the answers. Correct means: labels of others stay, a mapping's label goes only by the
  removal of a mapping with a rule for the same cluster, an undisputed rule becomes a label
  in the end, and a deleted mapping goes.
* **Cluster lifecycle.** One straight line of code for new, existing and deleted clusters,
  which starts over after each error, against the proxy and the monitor that write the same
  object. Correct means: the proxy arrives whole, and a cluster that stays has its namespace.
* **Addons.** Goroutines that outlive the call they belong to. Correct means: a call returns
  its own answers, and it returns.

## 2. Modules

| Module | Models | Used by |
|---|---|---|
| `ClusterLiveness` | what the control plane promises about one cluster's status | refined by `ClusterSession` |
| `ClusterSession` | core server, stream table, monitor, proxy session | `MCClusterSession`, `ClusterSessionProofs` |
| `ResourceSync` | one ClusterResource between control plane and member cluster | `MCResourceSync`, `ResourceSyncProofs` |
| `BindingSync` | one binding of one resource and the ClusterResources made from it | `MCBindingSync`, `BindingSyncProofs` |
| `Scheduler` | one scheduling of one policy | `MCScheduler`, `SchedulerProofs` |
| `Failover` | monitor and policy controller after a cluster falls silent | `MCFailover`, `FailoverProofs` |
| `NamespaceMapping` | the mappings of one workspace as labels of its namespace | `MCNamespaceMapping`, `NamespaceMappingProofs` |
| `ClusterLifecycle` | the cluster controller, one Cluster object | `MCClusterLifecycle`, `ClusterLifecycleProofs` |
| `ProxyAddons` | the calls of `LoadAddon` | `MCProxyAddons`, `ProxyAddonsProofs` |

The modules `...Proofs` hold the theorems (section 5).

The modules meet at objects. `ClusterSession` says how the table comes to hold a stream that
`ResourceSync` takes as listed or not; `BindingSync` creates, changes and deletes the
ClusterResource that `ResourceSync` carries (there: others write it), and takes its status
and its slow disappearance as given; `Scheduler` computes the clusters that `BindingSync`
sees bound (`Rebind`), and `Failover` takes its choice as one step and says when it is made.
The `Cluster` object appears three times, each time with the writers that matter there: in
`ClusterSession` for its status, in `Failover` for what follows from it, in `ClusterLifecycle`
for the object itself.

Some operators exist twice, the second time as a *faulty variant* just before the original
(a dropped guard, a missing reset). No action uses them; each property is checked to fail
when its variant replaces the original.

### ClusterSession

One cluster, because all state is kept per cluster name. State: the `Cluster` object
(existence, status, age of the last heartbeat), open streams with requests and answers in
flight, a set of request goroutines (`worker`), the table's entry, the monitor's goroutine,
and the proxy's variables. Actions: `GetCluster`, `UpdateSpec`, `CreateCluster`,
`UpdateStatus`, `ReportFailure`, `LookupEntry`, `InsertEntry` and `Reply` are the steps of
`Register` and `Heartbeat` between two points at which another goroutine can get in (an API
call, a lock, a send); `ListClusters`, `CheckStatus`, `OfflineCluster` those of the monitor;
`GetStream`, `RecvAnswer`, `RecvError`, `ClearStream` those of `RecvResponse`;
`SendHeartbeat` one round of `HeartbeatStart`; `InitializeCluster`, `TouchCluster`,
`DeleteCluster` what the cluster controller and users do to the object.

* `ReportFailure` goes on as the code does: after `SendErrResponse` the handler continues.
* `SetEmptyConnection` is two actions, one per store.
* `resourceVersion` is a flag `fresh` beside each copy of the object: nobody has written
  since. A write with a copy that is not fresh fails. Dates are ages, saturated at
  `OnlineExpiration`; the code compares them with that bound only.
* `EntryNeverExpires` is a constant: `HeartbeatExpirePeriod` is already a `Duration` and is
  multiplied by `time.Second` again (`register_handler.go:55`). The product of P seconds is
  P·10^18 modulo 2^64 as a signed number: for 10 or 30 it is negative (an entry is always
  expired), for 5 or 20 it is 158 or 49 years (never). The proofs hold for both. `session`
  runs with entries that never expire, where `Insert` may keep or replace by a stale
  decision; `session_live` with entries that are expired, `session_stale_entry` shows what
  becomes of recovery without.

Left out: addons and conditions in the object, policies and rules in a register response.

### ResourceSync

One ClusterResource, its contents numbered by version; `Content` gives the fields each version
asks for. State: the object in the control plane, the reconciler of the core's controller,
the requests with its status (`handler`, on their way or in their goroutine), the register
goroutine, messages to the proxy, and on the proxy the receiving goroutine, the copy, the
reconciler and the applied resource (`member`), which may be there before. A step is one API
call, send or receive together with what follows from its answer. The work queues are left
out: events, errors and the resync put a key into them, the last at any time, so a
reconciler may begin whenever its object exists, and does nothing when it does not. Reading
from a cache that lags is the same as having read earlier, which interleaving allows. A dead
stream still in the table fails on send just as no stream does.

A resource is its top-level fields beside apiVersion, kind, metadata and status, and the
annotation in which `createResource` and `getUpdateResource` repeat its spec. `resourceEqual`,
`getUpdateResource` and `changeNoSpecResource` are operators of the same names, and `Applied`
is what `syncResource` makes of what it finds, with all they leave unapplied: metadata is
never compared nor copied, fields beside a spec only by `createResource`, and no field but
the spec is ever removed. So what "applied" can mean is `Shows`: the spec is the version's; or
neither has one, and the fields the version has are there. Even that needs `SpecLasts`, that
the versions agree on whether there is a spec: when one goes, its annotation stays, and makes
`resourceEqual` find the same spec unchanged when it comes back. `Panics` is the write into
a nil map when the resource found has no annotations (`common.go:104`), after which the
process ends (`SyncPanic`; controller-runtime 0.9 does not recover).

Left out: other writers of the applied resource, and changes of its kind or name.

### BindingSync

One resource, one binding, two controllers that each run `syncClusterResource`.
`changeClusterResourceListToMap` stores `&resource` of a loop variable (`common.go:165`,
go 1.16): all keys lead to the last item of the list, so the model keeps one `item` and a set
of `keys`. The item is compared with the contents of each bound cluster in turn and written
in place; what is left of the keys is deleted as often as there are keys, always the same
item. `Without` and `Report` carry `updateBindingStatus` with the same aliasing and with
`RemoveObjectWithIndex`'s change of order.

The ownerReference of a ClusterResource names a binding of another namespace, for which the
garbage collector looks in the ClusterResource's own (`common.go:51`, `:112`), so that
`Collect` may delete it while the binding lives; that is one of the bounded events.

Left out: bindings of several resources (a resource that leaves such a binding is an update
instead of a deletion), the text of patches (an override is "the cluster's own contents"),
changes of overrides.

### Scheduler

`doSchedule` for one resource, a loop iteration per step: `CheckClusters`, `Place`,
`PlaceTarget`, `PlaceFailover`/`Skip`, `Fill`, `StartPass`, `PassBy`, `AddOne`, `Exhaust`.
Inputs are records: the kind of policy, entries with weight and limits, targets, failover
lists, the clusters online. An index out of a slice is a panic state. Abstractions: one
resource with `ReplicasField` set, reads that do not fail, weights that do not sum to 0 (the
code divides by the sum), any order among equal weights. A share is a float cut to an
integer, so it may be one less than an exact quotient.

At this commit the package does not compile against `pkg/apis` (it uses
`MultiClusterResourceBindingCluster.Override` and a string `JSONPatch.Value`, which
`resource_binding_type.go:30-32` and `common/common.go:9-13` no longer have). It is modelled as
written.

### Failover

State: each cluster (whether its proxy lives, whether its last heartbeat is too old, its
status), each policy's `Reschedule` and the dates in its status, the bindings, the work queue,
the monitor and the one Reconcile at a time. Actions: `ListClusters`, `PassCluster`,
`ExpiredCluster`, `ListPolicies`, `OrderReschedule`, `OfflineCluster` are
`checkClusterStatus` and `policyReSchedule`, one call to the API server each;
`StartReconcile`, `UpdateLastModifyTime`, `CheckClusters`, `CreateOrUpdateBinding`,
`UpdateLastScheduleTime` those of `Reconcile`. Dates are written with the granularity of a
second, and a write that changes nothing makes no event, so that the controller stops waking
itself: `stamped` and `NextSecond` carry this. `Placement` and `Short` are the choice that
`Scheduler` models loop by loop.

### NamespaceMapping

State: the mappings with their rules, the namespace's mapping labels and one label of
somebody else (`foreign`), the controller's cache of the namespace, queue and Reconcile.
`MapRule` and `UnmapRule` are one rule of `mappingOperator`: a read from the cache and an
`UpdateNamespace`, whose error is ignored. A removed label goes whatever its value is, also
when another mapping has set it. An update with a version that is not the last one
is refused. `updateLabel` deletes a label whose value is the same before it sets it, which
changes nothing.

### ClusterLifecycle

State: the Cluster object, its namespace in the control plane, what `deployProxy` creates
there (`local`) and in the member cluster (`target`), whether secret and template are good
(`inputs`), queue and Reconcile with its copy. The actions follow `Reconcile` call by call,
also past a deletion: `RemoveFinalizer` goes on to `Initialize` or `CreateNamespace` as the
code does. `Deploy(r)` creates one of the rendered resources; a map yields them in any order,
and one in the proxy's namespace fails as long as that is not there. `RegisterCluster`,
`ReportOnline` and `OfflineCluster` are the object's other writers.

### ProxyAddons

State per call: its goroutines (`collector`), the answers, the map, the context, the watcher,
the channel of capacity 1. `Answer` is a plugin that comes back; it may never. `CheckName`
and `Store` are the two halves of `AppendAddon`, which gives up its lock in between.
`WatchDeadline` and `WatchLength` are a turn of the watcher, which goes on after the call has
returned and blocks on its second message. What a plugin does is left out: it
finds something, or nothing, or hangs.

## 3. Runs

| Run | Question | Bounds | Distinct states |
|---|---|---|---|
| `session` | is the session safe, and does it implement `ClusterLiveness`? | 3 streams, 2 request goroutines, `OnlineExpiration` 2, entries that never expire, one of: a broken stream, a failed call or dial, a deletion, another write | 3.3 million (with symmetry) |
| `session_live` | does the session recover, and do both ends agree through crashes? | 1 goroutine at a time, `OnlineExpiration` 1, entries that are expired, 2 faults (broken stream, core crash, failed call, proxy crash) | 496 thousand |
| `session_stale_entry` | does it recover when entries of the table never expire? **No** | as `session_live`, one broken stream | |
| `session_lost_register` | does a proxy always start to beat? **No** | one broken stream | |
| `resource` | is a ClusterResource safe, and does it converge? | 2 writes, 2 messages, 1 status request at a time, a resource found or not, one fault of any kind | 317 thousand |
| `resource_not_removed` | is what was deleted removed? **No** | no fault | |
| `binding` | are ClusterResources what the binding says? | 2 clusters, one overridden, one event, a deletion at any moment | 225 thousand |
| `scheduler` | are bindings within limits, complete, online? does scheduling end? | 2–3 clusters, up to 8 replicas, weights 0–3, 3 pairs of limits, 8 failover lists | 133 thousand |
| `failover` | are policies told and served, does the controller rest? | one policy, its cluster and one spare, 3 faults of 7 kinds | 345 thousand |
| `mapping` | are labels kept and rules mapped? | 2 mappings, 2 clusters, 2 namespaces, 2 faults of 6 kinds | 267 thousand |
| `lifecycle` | does the proxy arrive, does a cluster have its namespace? | 3 resources, 5 faults of 7 kinds | 63 thousand |
| `addons` | does a call return, with its own answers? | 2 plugins, of one name or two, 2 calls | 672 thousand |

### Properties

`ClusterSession`
* `ImplementsLiveness`: under every interleaving the status of the object moves as
  `ClusterLiveness` allows: no older heartbeat replaces a newer one, and only silence for
  `OnlineExpiration` leads from online to offline, although the list the monitor decides on
  may be old when it writes.
* `ReaderHoldsStream`: while `RecvResponse` waits on a stream, that stream is the one requests
  are sent on, although `SetEmptyConnection` writes without the mutex.
* `SuccessMeansListed`: success is in flight only while the table has an entry. Which stream
  that is, and whether a Cluster object was stored, it does not say.
* `EventuallyRoutable`: where entries of the table expire, it ends up with the stream the proxy
  reads, also after a stale decision of `Insert`. `EventuallyReplaced` says the same of
  entries that never expire, and is false (section 6).
* `EventuallyOnline`, `EventuallyOffline`: after the last fault a beating proxy ends online; a
  dead one ends not online.

`ResourceSync`
* `MemberOwned`: what the proxy has made or changed has a copy with a finalizer.
* `CompleteIsTrue`: `Complete` for the present generation means that the member cluster shows the
  present version, as far as `Shows` goes (section 2).
* `NoResurrection`: a ClusterResource gone from the control plane is not created
  again in the member cluster, unless the delete that undoes it is already behind, or a
  register response carries an older list (finding 2 is about such a list).
* `EventuallySynced`, `EventuallyReleased`: the last version arrives, as far as `Shows` goes, and
  a deletion ends.

`BindingSync`
* `NoGoingBack`: with two writers on different reads, no ClusterResource returns to an earlier
  version. The reason is an order: a reconciler reads the contents after the list whose
  `resourceVersion` it writes under.
* `EventuallyExact`: despite updates and deletions in place of others, exactly the bound
  clusters end with a ClusterResource of the last version, also after the garbage collector
  has deleted one while the binding lives (were it never to end, as it may, nothing would
  last). It says nothing about the override
  in it: this is known to alternate (section 6).
* `EventuallyGone`, `EventuallyCleared`: a deleted resource goes, and everything made of it.

`Scheduler`
* `WithinBounds`, `NothingLost`: limits hold; the replicas add up.
* `ExactOrExhausted`: where no two targets share a policy entry (`Apart`), the total is wrong only
  with every target at its limit: because the limits leave no other choice, or by the known
  overshoot. Clusters that share a role may end with less (section 6).
* `ReplacementOnline`: a target or its replacement is online.
* `Terminates`: with fairness, scheduling ends or panics, provided every role of
  the policy has a cluster; with a role that has none the code may turn for ever.

`Failover`
* `ToldBeforeOffline`: a cluster goes offline only after the policies that name it were told,
  unless their update was refused.
* `OrderedIsServed`: once Reschedule is set and the statuses stay as they are, the binding names
  what they demand. Nothing wakes the controller when a cluster goes offline *after* the
  order, so this rests on the resync.
* `Settles`: a controller that writes its own object in each Reconcile comes to rest, unless the
  policy cannot be scheduled.

`NamespaceMapping`
* `ForeignLabelsKept`: updates made from an old copy take back nothing that others have written.
* `LabelsKept`: only the Reconcile of a mapping that is still being deleted takes a label away, of
  a cluster it has a rule for, and no other label with it. The label may be that of another,
  live mapping with a rule for the same cluster (section 6).
* `EventuallyMapped`: though answers are ignored, the rules of a mapping that shares no cluster with
  another become labels, also after a deletion has taken one away. Mappings that disagree
  overwrite each other with each resync, and each write leaves the cache too old for the
  next: TLC shows a rule beside a disputed one that is lost every time, if the map is always
  walked in the wrong order.
* `EventuallyReleased`: a deleted mapping goes, whatever becomes of the updates. A label may
  outlive its mapping (section 6).

`ClusterLifecycle`
* `EventuallyDeployed`: a cluster that waits for its proxy gets all resources, in whatever
  order they come and wherever errors have stopped the attempts before.
* `EventuallyHome`: a cluster that stays has its namespace, even when that of its predecessor was
  still terminating.

`ProxyAddons`
* `OwnAnswers`: a call returns nothing of an earlier call's goroutines, and all its plugins have
  told unless the deadline has passed.
* `EventuallyReturns`: it returns, though plugins hang and old watchers block.

### Why the bounds are enough

* *Session.* Two goroutines are what a race on the table or on the object needs; the monitor and
  the controller are a third and a fourth writer. Two streams are an old one and its
  replacement, the third one is dialled while the table still holds the first; identities
  are used again once forgotten. `OnlineExpiration` 2 distinguishes
  fresh, old and silent. Crashes come in `session_live`, with one goroutine and two ages. The
  safety properties are also proved, for all faults and without bounds.
* *Resource.* Two writes by others are create and change or create and delete; one fault placed
  anywhere covers each failure alone. The two versions differ in spec, the second has a field
  more; a resource found has the second's spec, with or without annotations. With one status
  request at a time none overtakes another; no property is about the status that arrives. Two
  combined faults, and versions without a spec, are covered by the proofs only.
* *Binding.* Two clusters are the least for which "the last item" differs from the one meant. The
  one event is a change, a rebinding, a status, a failed call, a deleted binding, a
  ClusterResource deleted by the garbage collector or a restart; the deletion of the resource comes on top of it. With two events the safety
  properties were checked as well (3.3 million states); the liveness check becomes too large. With one
  phase and one report two clusters never report different statuses, so `EventuallyExact`
  says nothing of a binding's status.
* *Scheduler.* Three clusters and limits such as 0..2, 1..3 and 0..6 give every case of the
  second round: short, left over, exhausted, not enough.

* *Failover.* One policy and a cluster that fails over to a second are what each step of the
  chain needs. Three faults are a cluster that dies, comes back, and one thing more: an edit, a
  late monitor, a refused call, a restart. Safety is proved for any number of policies.
* *Mapping.* Two mappings and two keys give every conflict between rules, within a mapping and
  across; with two namespaces they may disagree on a key. At the start one mapping has a rule
  for the first cluster and none or any for the second, the other has one for the second or is
  not there; creations, edits and deletions are among the faults.
* *Lifecycle.* Of the rendered resources one is the namespace, one lives in it, one does not. Five
  faults allow a cluster to be deleted and created again and its first attempts to fail.
* *Addons.* Two calls are a call and what is left of the one before; two plugins of one name or of
  two are all that the map's keys tell apart.

Every run bounds faults or writes, so the system may stop: `CHECK_DEADLOCK FALSE` stands
where all bounds can be used up, and in `Scheduler`, which ends.

## 4. Fairness

* `ClusterSession`: weak fairness of every goroutine and of time. Strong fairness of the
  second store of `SetEmptyConnection` while nothing has been dialled: the stores follow each
  other at once, and the heartbeat goroutine sleeps for a period between rounds. Without it
  TLC shows the run in which the heartbeat dials between the two stores every time.
* `ResourceSync`: weak fairness of goroutines that can go on, of reconnecting, and of both
  reconcilers, whose object is queued again and again (`SyncPeriod`). Without the resync
  `EventuallySynced` does not hold: a message
  dropped on a conflict is not sent again until then, 10 hours by default.
* `BindingSync`: weak fairness of both controllers, which are called again (errors are queued
  again, `SyncPeriod` does the rest), of the finalizer's removal and of the garbage
  collector once the binding is gone. Strong fairness of each item of the list to be the last one: the cache lists
  from a Go map, whose order is random. Without this the same item might be last every time
  and the others would never be updated.
* `Scheduler`: weak fairness of its next step. One Reconcile runs alone.
* `Failover` and `NamespaceMapping`: weak fairness of the monitor, of the Reconcile that runs, of
  heartbeats, of time for a dead cluster, of the watch that refreshes the cache, of the end
  of a requeue's delay and of the resync. Strong fairness of `StartReconcile` for each object:
  the work queue is first in, first out, so that an object that is queued again and again gets
  its turn.
* `ClusterLifecycle`: the same, and of Kubernetes that ends a terminating namespace. Strong
  fairness of each `Deploy(r)`: the resources come out of a Go map in random order, and an
  order that always tries the namespaced ones first is not repeated for ever.
* `ProxyAddons`: weak fairness of the caller, of each watcher and of each deadline. Nothing is
  assumed of plugins and of the goroutines that wait for them.
* Nothing is assumed of users, faults, or the start of a proxy.

## 5. Proofs

The theorems hold for every value of the constants. Each module's only assumptions are its
`...Assumption`s, the types of its constants, which TLC evaluates in every run.

| Module | Theorem | Statement |
|---|---|---|
| `ClusterSessionProofs` | `TypeCorrect` | `Spec => []TypeOK` |
| | `FreshCopies` | `Spec => []FreshIsTrue` |
| | `Refinement` | `Spec => ImplementsLiveness` |
| | `ReaderCorrect` | `Spec => []ReaderHoldsStream` |
| | `ListedCorrect` | `Spec => []SuccessMeansListed` |
| `ResourceSyncProofs` | `TypeCorrect`, `Invariance` | `Spec => []TypeOK`, `Spec => []IInv` |
| | `OwnedCorrect` | `Spec => []MemberOwned` |
| | `ApplyShows` | what `syncResource` leaves behind shows the version, if the annotation found is true |
| | `CompleteCorrect` | `Spec => []CompleteIsTrue` |
| | `NeverResurrected` | `Spec => NoResurrection` |
| `BindingSyncProofs` | `Invariance` | `Spec => []IInv` |
| | `VersionsForward` | `Spec => NoGoingBack` |
| | `TypeCorrect` | `Spec => []TypeOK` |
| `SchedulerProofs` | `TypeCorrect`, `Inductive` | `Spec => []TypeOK`, `Spec => []IInv` |
| | `BoundsKept` | `Spec => []WithinBounds` |
| | `ReplacedByOnline` | `Spec => []ReplacementOnline` |
| | `NothingIsLost` | `Spec => []NothingLost` |
| | `EndsExactOrExhausted` | `Spec => []ExactOrExhausted` |
| | `StepsRunOut` | each step lowers `Rank`, if every role has a cluster |
| `FailoverProofs` | `TypeCorrect`, `Invariance` | `Spec => []TypeOK`, `Spec => []IInv` |
| | `PoliciesTold` | `Spec => ToldBeforeOffline` |
| `NamespaceMappingProofs` | `TypeCorrect`, `Invariance` | `Spec => []TypeOK`, `Spec => []IInv` |
| | `ForeignKept` | `Spec => ForeignLabelsKept` |
| | `LabelsStay` | `Spec => LabelsKept` |
| `ClusterLifecycleProofs` | `TypeCorrect`, `Invariance` | `Spec => []TypeOK`, `Spec => []IInv` |
| | `HomeKept` | a cluster loses its namespace only while it is being deleted |
| `ProxyAddonsProofs` | `TypeCorrect`, `Invariance` | `Spec => []TypeOK`, `Spec => []IInv` |
| | `ReturnsOwn` | `Spec => OwnAnswers` |

### The arguments

*Session.* The status of a cluster is written by handlers, the monitor and the controller,
each from a copy read some steps before. `FreshIsTrue` says that a copy which could still be
stored agrees with the object in status and age. With `TypeOK` it is inductive: every write
marks all other copies as out of date, every read makes the copy equal to the object, and
time ages both. From it each write of `ClusterSession` is a step of `ClusterLiveness`:
`StepOfHandler` maps a stored heartbeat to `Hear`, `StepOfObject` the monitor's write to
`Expire`, and `StepElsewhere` shows that the remaining actions stutter. `ReaderHoldsStream` is not inductive: `ReaderInv` adds that a proxy that
is down neither reads nor beats. `SuccessMeansListed` needs `ListedInv`, which adds that a
goroutine at work has a stream to insert, and that one about to report success has inserted it.

*ClusterResource.* `NoResurrection` is about messages: `Undone` says that once the object can
go (it is gone, has no finalizer, or its removal has begun) a delete follows each update on
the stream. It is kept because the reconciler sends the delete before it removes the
finalizer, and begins only with objects that have one (`Held`). `CompleteIsTrue` is about two
writers of the copy: a reconciler whose copy is still valid holds the copy's contents and
generation (`Followed`), one whose copy is not can find no status of the present generation
(`Outdated`), and what it reports is true while it is fresh (`Reported`). That it is true when
it comes out of `SyncResource` is `ApplyShows`, by cases of `resourceEqual` and
`getUpdateResource`; it needs that the annotation, which the code compares, agrees with the
spec beside it, and stays so while no version drops its spec (`AnnotationTrue`). `MemberOwned` needs
that it applies a resource only under a finalizer (`Guarded`).

*Binding.* Whoever writes a ClusterResource writes a version read after the list whose
`resourceVersion` the write carries. `NotNewer`: nothing in the control plane is newer than
the resource. `Holds`: the item of a reconciler whose write would be accepted is what the
ClusterResource holds, and no newer than what the reconciler has read since. So an accepted
write goes forward; a refused one changes nothing. `OneCopy` shows it for any action that
writes one ClusterResource, `Elsewhere` for the others. The invariant leaves the entries of the
binding's status open: they are a fold over the list. `TypeCorrect` adds them: `FoldKeeps`
says that what one item more preserves, the fold over all of them does, and `ReportType` that one
item more leaves a list of entries, also where `RemoveObjectWithIndex` changes their order.

*Scheduling.* `IInv` is `TypeOK`, `WithinBounds` and what each phase needs (`Phases`: all targets
are placed before the second round, nothing is left to give before it, and there is an
order while it goes on). It is inductive because `SecondRound` makes the room of each target
a natural number whose exhaustion is its limit. Shares, rests and failover clusters are
recursive sums and concatenations: the first sections of the module prove what they
compute, by induction written with sets (`SubsetInduction`, `NumberInduction`: a set of finite
sets, or of numbers, that one step does not leave is all of them), which rests on the library's
well-founded orders. `NothingIsLost` then needs how each action changes one part of a sum
(`SumChange`), and for the equal parts of `Fill` how a sum spreads over its targets (`SumSpread`,
`Division`). `ReplacedByOnline` is about the three indices of `doFailoverPolicy`: `InStep` says
that the index over the clusters that are down points at the first of them not yet passed, counted
over the concatenated failover lists (`Position`), so the cluster compared with it is down
exactly if they are equal. `Ending` carries `ExactOrExhausted`: a target whose entry is no longer
in the order is at its limit, which a second target with the same entry would break.
`StepsRunOut` is the safety part of `Terminates`: `Rank` is a phase, then the targets to place or the
room left with the entries in the order, then the steps until the next change. Within
a pass a target whose turn it is lies ahead, or the next pass has one (`Turns`, and `Covered`
for roles); `RanksEnd` proves that the order of the ranks has no infinite descent.

*Failover.* `OrderTold`: while the monitor goes through the policies of a cluster, those it is
done with and whose update was accepted are to schedule again; what resets `Reschedule` in
between takes the policy out of `accepted`. `OfflineCluster` comes when none is left.

*Namespace mapping.* `CacheTrue`: a copy the API server would accept equals the namespace, so an
accepted update changes the one label it means. `RemovesDeleted`: a Reconcile that removes
labels works for a mapping that is still being deleted, with its rules; each update changes the
one key of its rule.

*Lifecycle.* `DeletesMarked`: a Reconcile that deletes the namespace or the object has a marked
object before it, and only objects with a finalizer are marked; nobody else removes it.

*Addons.* `OwnEntries`, `Heard` and `Complete` together: a map with as many entries as plugins has
one of each plugin and of no other call. The counting step uses the library's
`FS_Product` and `FS_Subset`.

### Model-checked only

Liveness: fairness and `ENABLED` are beyond the prover. Every safety property of a passing run is
a theorem. Of `Terminates`, that steps run out is proved; that some step is always possible
before `Finished` is left to TLC. What a fold or a sum computes is proved as far as a theorem above
needs it.

## 6. What the code does otherwise than it says

Three runs end in a violation. Each checks one statement of a document, a comment or a test.

1. `session_lost_register`: heartbeats start only with a `RegisterSuccess`, which is sent once.
   If the stream breaks before it arrives, the proxy reconnects, never registers again and
   never beats (`grpc_proxy.go:38`, `cmd/proxy/main.go:107`; `design/zh/cluster.md:109`).
2. `resource_not_removed`: a ClusterResource delivered by a register response and deleted before
   it has a finalizer leaves its resource in the member cluster for ever
   (`cluster_resource_controller.go:44`).
3. `session_stale_entry`: the heartbeat period, a `Duration`, is multiplied by a second again
   (`register_handler.go:55`, `heartbeat_handler.go:48`, section 2). With 5 or 20 seconds an entry
   of the stream table never expires, and `Insert` keeps it: once the stream breaks, nothing
   the proxy does replaces it, and sends to the cluster fail until the core restarts
   (`table.go:37-44`; `cmd/core/main.go:62` calls it "the period of maximum heartbeat interval").

The models show more of them, or leave them out for what they are. No run states them.

*Core and session*
* `Register` goes on after an error response, lists the stream and answers success; no
  `Cluster` object is ever created (`register_handler.go:46`; `design/zh/cluster.md:57`).
* Addons of a cluster are not stored (`heartbeat_handler.go:102`; `design/zh/cluster.md:37`).
* `ConvertCondition2KubeCondition` puts as many empty conditions before the real ones
  (`pkg/utils/core/utils.go:66`).
* The proxy creates policies and rules of a register response from the core's own JSON, which
  carries that server's `resourceVersion` (`grpc_proxy.go:107`, `:142`); an API server refuses such
  an object, and the first refusal ends the whole list.

*ClusterResource*
* A status that conflicts with the core's own write is dropped, and the proxy, which has
  stored it, does not send it again (`cluster-resource/common.go:160`).
* A version that differs outside the spec only is never applied, and yet reported `Complete`:
  `resourceEqual` compares specs (`:63-85`), `getUpdateResource` copies the spec (`:99`). Labels,
  annotations and fields beside a spec are written by `createResource` only. Of resources without a
  spec, fields are added and overwritten, but those a version no longer has stay (`:111`).
* A spec that a version drops and a later one brings back is not applied again: the annotation
  that repeats it has stayed (`:96`).
* `getUpdateResource` writes into the annotations of a resource that may have none, a nil map
  (`:104`): a ClusterResource for a resource that is there with another spec and no annotations
  ends the proxy, again after each start.
* The annotation is compared, not the resource: what somebody else edits in an applied resource
  is not repaired (`:64`).

*Bindings*
* A ClusterResource may hold the override of another cluster (`resource-binding/common.go:165`
  against the comment at `resource_override.go:22`), and with two phases the status of a
  binding grows with every Reconcile (`resource_binding_controller.go:177`).
* The owner of a ClusterResource is a binding in another namespace (`resource-binding/common.go:51`,
  `:112`). Kubernetes forbids that: its garbage collector takes such an owner for absent and may
  delete the ClusterResources of a binding that lives, and with them what is applied, until the
  next Reconcile creates them again.
* The flag of `NewOverridePolicyFunc` is never reset: after the first binding that matches,
  each later binding of the resource is queued (`resource_override.go:82`).

*Scheduling and failover*
* With weights 1 and 1, limits 0 and 2, and 3 replicas, the inner loop hands out one too many,
  the remainder is -1, and every cluster is filled to its limit: 4 in all
  (`resource_schedule_policy_controller.go:429`).
* Clusters that share a role may get fewer replicas than the policy has although one of them has
  room: the first cluster at its limit takes the role out of the order for all of them
  (`:653-693`), and a role taken out in the middle of a pass lets the next one start with the
  clusters behind it. With 10 replicas, four clusters of roles 1, 2, 3 and 1 with equal
  weights and limits 0 to 3, 0 to 1 and 0 to 3, the end is 2, 1, 3 and 3: nine, with
  the first cluster below its limit.
* The index over a failover set runs off its end when the set's last cluster is not online,
  although enough failover clusters are (`:939`); the index over the roles is -1 after `break`
  leaves the switch only (`:671`); unsupported modes compare with a binding that is nil.
* A policy whose update was refused is never told (`monitor.go:82`). Reschedule is never reset
  (`:81`), so that a second outage makes no event and waits for the resync.

*Namespace mapping*
* Deleting a mapping deletes the label of each of its clusters whatever the value
  (`namespace_mapping_controller.go:129-140`), so also that of a live mapping with a rule for the same
  cluster. The next Reconcile of that one sets it again, with `SyncPeriod` at the latest.
* A label outlives its rule when the rule changes, and its mapping when the last update is lost
  (comments at `namespace_mapping_controller.go:68` and `:119` say otherwise).

*Cluster lifecycle*
* A cluster deleted for good leaves its namespace: `Reconcile` goes on after the finalizer is
  gone and creates it again once it has terminated (`cluster_controller.go:84`).
* The proxy's namespace and its addons ConfigMap are created with the manager's client, in
  the control plane (`:180`); the ConfigMap's key is `addons.yaml`, the proxy is started with
  the path `plugins.yaml`; the ServiceAccount of the default template has no namespace.

*Addons*
* Two plugins of one name fill one entry, so the call always waits for its deadline. Every call
  leaves a watcher that never ends (`addons_process.go:95`). `isEqualAddons` compares pointers:
  addons are sent with each heartbeat.

*Webhooks*
* The check that a resource reference does not change compares the old object with itself
  (`validating.go:82`).

## 7. Not modelled

* *Nothing to model*: the cluster-set controller (it does nothing), aggregation beyond the register
  response, CUE, helpers, webhooks (stateless), API types, generated clients, deployment.
* *Pure I/O*: plugins of addons, conditions (`pkg/proxy/condition`), flags, certificates and the
  wait for the webhook's secret in `cmd/core`.
* *Left out of modelled components*: addons and conditions in the session, policies and
  rules of a register response, bindings of several resources, changes of overrides, the text of
  patches, the namespace override of bindings, edits of applied resources by others, weights
  that add up to 0.

The definitions stand for about 3460 lines. The repository has 16304 lines of implementation, of
which 9538 are generated code and API types; of the other 6766 what no definition names is
imports, wiring, logging, formatting and the parts listed here.

*What remains.* An abstract specification of replication (one cluster's resource is absent, of
some version, or being removed) refined by `ResourceSync`; ranks for the loops of `ProxyAddons`
and of a reconciler of `BindingSync`, as `StepsRunOut` has one for `Scheduler`.
