------------------------------ MODULE BindingSync ------------------------------
(***************************************************************************)
(* One MultiClusterResourceBinding of one MultiClusterResource, and the    *)
(* ClusterResources made from them, one per bound cluster.  Two            *)
(* controllers of the core run syncClusterResource, the binding's and the  *)
(* resource's, each one Reconcile at a time but side by side; a step is    *)
(* one call to the API server with what follows from its answer.           *)
(*                                                                         *)
(* changeClusterResourceListToMap stores the address of its loop variable, *)
(* so that every key of the map leads to the last item of the list: `item' *)
(* is that one ClusterResource.  The list comes from a cache that iterates *)
(* over a map, hence in any order.                                         *)
(*                                                                         *)
(* Contents are numbered in the order they were written; where an override *)
(* applies, the contents are the cluster's own.  What becomes of a         *)
(* ClusterResource afterwards is ResourceSync's matter: here it reports a  *)
(* status, and goes away some time after it has been deleted.              *)
(*                                                                         *)
(* A controller calls Reconcile for an event, after an error, and once in  *)
(* a while for every object (SyncPeriod): it may start at any time.        *)
(***************************************************************************)
EXTENDS Integers, FiniteSets, SequencesExt

CONSTANTS
  Clusters,     \* member clusters
  None,         \* no status, no cluster, no contents
  Overridden,   \* clusters for which a MultiClusterResourceOverride changes the contents
  Phases,       \* statuses a ClusterResource may report
  MaxEvents,    \* bound: writes by others, status reports, faults, and acts of the
                \* garbage collector on what a living binding owns
  MaxEntries    \* entries of a binding's status the API server still stores

ASSUME BindingAssumption ==
  /\ None \notin Clusters \cup Phases \cup Nat
  /\ Overridden \subseteq Clusters
  /\ IsFiniteSet(Clusters)
  /\ MaxEvents \in Nat
  /\ MaxEntries \in Nat

VARIABLES
  resource,  \* the MultiClusterResource
  binding,   \* the MultiClusterResourceBinding
  copies,    \* copies[c]: the ClusterResource in the namespace of cluster c
  worker,    \* worker[w]: the reconciler of controller w
  events     \* events of the environment still to come

vars == <<resource, binding, copies, worker, events>>

-----------------------------------------------------------------------------
Controllers == {"binding", "resource"}
Versions    == 1..(MaxEvents + 1)

\* What a ClusterResource holds: the resource, with the override of a cluster.
Contents   == [version: Versions, override: Clusters \cup {None}]
Entry      == [cluster: Clusters, phase: Phases]
Item       == [cluster: Clusters, phase: Phases \cup {None}]
Resource   == [exists: BOOLEAN, version: Versions, finalizer: BOOLEAN, deleting: BOOLEAN]
Binding    == [exists: BOOLEAN, clusters: SUBSET Clusters, finalizer: BOOLEAN,
               deleting: BOOLEAN, labelled: BOOLEAN, status: Seq(Entry)]
Copy       == [exists: BOOLEAN, contents: Contents \cup {None}, phase: Phases \cup {None},
               deleting: BOOLEAN]
Worker     == [pc: {"idle", "list", "next", "apply", "unbind", "release"},
               todo: SUBSET Clusters, at: Clusters \cup {None}, version: Versions \cup {None},
               list: Seq(Item), keys: SUBSET Clusters, item: Contents \cup {None},
               fresh: BOOLEAN, known: BOOLEAN]

\* The types of the variables; a list read, and the keys of its map, name each
\* cluster once, and a binding has no more entries than can be stored.
TypeOK ==
  /\ resource \in Resource
  /\ binding \in Binding
  /\ Len(binding.status) <= MaxEntries
  /\ copies \in [Clusters -> Copy]
  /\ worker \in [Controllers -> Worker]
  /\ \A w \in Controllers : \A i, j \in DOMAIN worker[w].list :
       worker[w].list[i].cluster = worker[w].list[j].cluster => i = j
  /\ events \in 0..MaxEvents

-----------------------------------------------------------------------------
NoCopy  == [exists |-> FALSE, contents |-> None, phase |-> None, deleting |-> FALSE]
Resting == [pc |-> "idle", todo |-> {}, at |-> None, version |-> None, list |-> <<>>,
            keys |-> {}, item |-> None, fresh |-> FALSE, known |-> FALSE]

\* A user has created the resource, and a binding for some of the clusters.
Init ==
  /\ resource = [exists |-> TRUE, version |-> 1, finalizer |-> FALSE, deleting |-> FALSE]
  /\ \E bound \in SUBSET Clusters :
       binding = [exists |-> TRUE, clusters |-> bound, finalizer |-> FALSE,
                  deleting |-> FALSE, labelled |-> FALSE, status |-> <<>>]
  /\ copies = [c \in Clusters |-> NoCopy]
  /\ worker = [w \in Controllers |-> Resting]
  /\ events = MaxEvents

-----------------------------------------------------------------------------
(* Helpers *)

\* The environment acts, within the bound.
Event ==
  /\ events > 0
  /\ events' = events - 1

At(w, pc) == worker[w].pc = pc

Existing == {c \in Clusters : copies[c].exists}

\* The cluster whose ClusterResource all keys of the map lead to.
Target(w) == Last(worker[w].list).cluster

\* A ClusterResource is written: for those who hold it, it is out of date.
Outdated(c) ==
  [v \in Controllers |->
     IF worker[v].list # <<>> /\ Target(v) = c THEN [worker[v] EXCEPT !.fresh = FALSE]
     ELSE worker[v]]

\* Reconcile returns, with or without an error.
Return(w) == worker' = [worker EXCEPT ![w] = Resting]

\* An object is written: a reconciler that holds it has an old one.
Written(w) == worker' = [worker EXCEPT ![w].known = FALSE]

ContentsFor(c, version) ==
  [version |-> version, override |-> IF c \in Overridden THEN c ELSE None]

NewClusterResource(contents) ==
  [exists |-> TRUE, contents |-> contents, phase |-> None, deleting |-> FALSE]

ShouldAddFinalizer(object) == ~object.finalizer /\ ~object.deleting

\* The labels by which the resource controller finds the binding.
ShouldChangeBindingLabels == ~binding.labelled

-----------------------------------------------------------------------------
(* Others: users, and the schedule-policy controller *)

ChangeResource ==
  /\ Event
  /\ resource.exists
  /\ resource' = [resource EXCEPT !.version = @ + 1]
  /\ Written("resource")
  /\ UNCHANGED <<binding, copies>>

DeleteResource ==
  /\ resource.exists /\ ~resource.deleting
  /\ resource' = [resource EXCEPT !.deleting = resource.finalizer, !.exists = resource.finalizer]
  /\ Written("resource")
  /\ UNCHANGED <<binding, copies, events>>

\* createOrUpdateBinding, with other clusters than before.
Rebind == \E bound \in SUBSET Clusters :
  /\ Event
  /\ binding.exists
  /\ bound # binding.clusters
  /\ binding' = [binding EXCEPT !.clusters = bound]
  /\ Written("binding")
  /\ UNCHANGED <<resource, copies>>

DeleteBinding ==
  /\ Event
  /\ binding.exists /\ ~binding.deleting
  /\ binding' = [binding EXCEPT !.deleting = binding.finalizer, !.exists = binding.finalizer]
  /\ Written("binding")
  /\ UNCHANGED <<resource, copies>>

\* The proxy's report reaches the ClusterResource.
ReportStatus == \E c \in Existing, phase \in Phases :
  /\ Event
  /\ copies[c].phase # phase
  /\ copies' = [copies EXCEPT ![c].phase = phase]
  /\ worker' = Outdated(c)
  /\ UNCHANGED <<resource, binding>>

\* A deleted ClusterResource is gone once its finalizer is.
Release(c) ==
  /\ copies[c].deleting
  /\ copies' = [copies EXCEPT ![c] = NoCopy]
  /\ worker' = Outdated(c)
  /\ UNCHANGED <<resource, binding, events>>

\* The garbage collector deletes a ClusterResource whose owner it does not
\* find.  It looks for the binding in the namespace of the ClusterResource, which
\* is another: it may do so while the binding lives, too (which is an event).
Collect(c) ==
  /\ copies[c].exists /\ ~copies[c].deleting
  /\ \/ ~binding.exists /\ UNCHANGED events
     \/ binding.exists /\ Event
  /\ copies' = [copies EXCEPT ![c].deleting = TRUE]
  /\ worker' = Outdated(c)
  /\ UNCHANGED <<resource, binding>>

-----------------------------------------------------------------------------
(* Reconcile, up to syncClusterResource *)

\* The binding controller: one of the finalizer, its removal, the labels, or
\* the synchronisation.
ReconcileBinding ==
  /\ At("binding", "idle")
  /\ binding.exists
  /\ \/ /\ ShouldAddFinalizer(binding)
        /\ binding' = [binding EXCEPT !.finalizer = TRUE]
        /\ UNCHANGED worker
     \/ /\ binding.finalizer /\ binding.deleting
        /\ binding' = [binding EXCEPT !.exists = FALSE]
        /\ UNCHANGED worker
     \/ /\ binding.finalizer /\ ~binding.deleting /\ ShouldChangeBindingLabels
        /\ binding' = [binding EXCEPT !.labelled = TRUE]
        /\ UNCHANGED worker
     \/ /\ binding.finalizer /\ ~binding.deleting /\ ~ShouldChangeBindingLabels
        /\ worker' = [worker EXCEPT !["binding"] =
                        [Resting EXCEPT !.pc = "list", !.todo = binding.clusters, !.known = TRUE]]
        /\ UNCHANGED binding
  /\ UNCHANGED <<resource, copies, events>>

\* Faulty variant: without bindings there is nothing to do.
ReconcileResourceBound ==
  LET found == binding.exists /\ binding.labelled
  IN
  /\ At("resource", "idle")
  /\ resource.exists
  /\ \/ /\ ShouldAddFinalizer(resource)
        /\ resource' = [resource EXCEPT !.finalizer = TRUE]
        /\ UNCHANGED worker
     \/ /\ resource.finalizer /\ found
        /\ worker' = [worker EXCEPT !["resource"] =
                        IF resource.deleting
                          THEN [Resting EXCEPT !.pc = "unbind", !.known = TRUE]
                          ELSE [Resting EXCEPT !.pc = "list", !.todo = binding.clusters]]
        /\ UNCHANGED resource
  /\ UNCHANGED <<binding, copies, events>>

\* The resource controller looks for bindings by their labels.
ReconcileResource ==
  LET found == binding.exists /\ binding.labelled
  IN
  /\ At("resource", "idle")
  /\ resource.exists
  /\ \/ /\ ShouldAddFinalizer(resource)
        /\ resource' = [resource EXCEPT !.finalizer = TRUE]
        /\ UNCHANGED worker
     \/ /\ resource.finalizer /\ resource.deleting
        /\ worker' = [worker EXCEPT !["resource"] =
                        [Resting EXCEPT !.pc = IF found THEN "unbind" ELSE "release", !.known = TRUE]]
        /\ UNCHANGED resource
     \/ /\ resource.finalizer /\ ~resource.deleting /\ found
        /\ worker' = [worker EXCEPT !["resource"] =
                        [Resting EXCEPT !.pc = "list", !.todo = binding.clusters]]
        /\ UNCHANGED resource
  /\ UNCHANGED <<binding, copies, events>>

\* updateBinding: a binding without resources is deleted.
Unbind ==
  /\ At("resource", "unbind")
  /\ \/ /\ binding.exists
        /\ binding' = [binding EXCEPT !.deleting = binding.finalizer, !.exists = binding.finalizer]
        /\ worker' = [worker EXCEPT !["resource"].pc = "release",
                                    !["binding"].known = @ /\ binding.deleting]
     \/ /\ ~binding.exists
        /\ Return("resource")
        /\ UNCHANGED binding
  /\ UNCHANGED <<resource, copies, events>>

\* removeFinalizer, which conflicts if the resource has been written since it
\* was read; Reconcile comes again then.
ReleaseResource ==
  /\ At("resource", "release")
  /\ Return("resource")
  /\ \/ worker["resource"].known /\ resource' = [resource EXCEPT !.exists = FALSE]
     \/ ~worker["resource"].known /\ UNCHANGED resource
  /\ UNCHANGED <<binding, copies, events>>

-----------------------------------------------------------------------------
(* syncClusterResource, for either controller *)

\* The list of what the binding has; the map's keys, and the item they lead to.
\* Phases matter to the binding controller only.
ListCopies(w) == \E order \in SetToSeqs(Existing) :
  /\ At(w, "list")
  /\ worker' = [worker EXCEPT ![w].pc = "next",
                  ![w].list = [i \in DOMAIN order |-> [cluster |-> order[i],
                                                       phase |-> IF w = "binding" THEN copies[order[i]].phase
                                                                 ELSE None]],
                  ![w].keys = Existing,
                  ![w].item = IF order = <<>> \/ worker[w].todo = {} THEN None
                              ELSE copies[Last(order)].contents,
                  ![w].fresh = order # <<>> /\ worker[w].todo # {}]
  /\ UNCHANGED <<resource, binding, copies, events>>

\* The next bound cluster.  When the resource cannot be read the cluster is
\* skipped, and its key stays in the map.
ReadResource(w) ==
  LET c == CHOOSE c \in worker[w].todo : TRUE
  IN
  /\ At(w, "next")
  /\ worker[w].todo # {}
  /\ worker' = IF resource.exists
                 THEN [worker EXCEPT ![w].pc = "apply", ![w].at = c,
                                     ![w].todo = @ \ {c}, ![w].version = resource.version]
                 ELSE [worker EXCEPT ![w].todo = @ \ {c}]
  /\ UNCHANGED <<resource, binding, copies, events>>

\* The reconciler goes on, with the item it holds, as long as there are
\* clusters to do.
Applied(w, item) ==
  [worker[w] EXCEPT !.pc = "next", !.at = None, !.version = None,
                    !.keys = @ \ {worker[w].at},
                    !.item = IF worker[w].todo = {} THEN None ELSE item,
                    !.fresh = @ /\ worker[w].todo # {}]

\* A cluster that is not a key of the map gets a new ClusterResource.
CreateCopy(w) ==
  LET c == worker[w].at
  IN
  /\ At(w, "apply")
  /\ c \notin worker[w].keys
  /\ \/ /\ ~copies[c].exists
        /\ copies' = [copies EXCEPT ![c] = NewClusterResource(ContentsFor(c, worker[w].version))]
        /\ worker' = [Outdated(c) EXCEPT ![w] = Applied(w, worker[w].item)]
     \/ /\ copies[c].exists
        /\ Return(w)
        /\ UNCHANGED copies
  /\ UNCHANGED <<resource, binding, events>>

\* Faulty variants: the item is written under no version; its contents are
\* compared with the cluster's other way round.
UpdateCopyUnversioned(w) ==
  LET c == worker[w].at
      contents == ContentsFor(c, worker[w].version)
  IN
  /\ At(w, "apply")
  /\ c \in worker[w].keys
  /\ IF worker[w].item # contents /\ copies[Target(w)].exists
       THEN /\ copies' = [copies EXCEPT ![Target(w)].contents = contents]
            /\ worker' = [Outdated(Target(w)) EXCEPT ![w] = Applied(w, contents)]
       ELSE /\ worker' = [worker EXCEPT ![w] = Applied(w, worker[w].item)]
            /\ UNCHANGED copies
  /\ UNCHANGED <<resource, binding, events>>

UpdateCopyNever(w) ==
  /\ At(w, "apply")
  /\ worker[w].at \in worker[w].keys
  /\ worker' = [worker EXCEPT ![w] = Applied(w, worker[w].item)]
  /\ UNCHANGED <<resource, binding, copies, events>>

\* For a key, the item is compared with the contents of the cluster, and
\* updated if they differ.
UpdateCopy(w) ==
  LET c == worker[w].at
      contents == ContentsFor(c, worker[w].version)
  IN
  /\ At(w, "apply")
  /\ c \in worker[w].keys
  /\ \/ /\ worker[w].item = contents
        /\ worker' = [worker EXCEPT ![w] = Applied(w, worker[w].item)]
        /\ UNCHANGED copies
     \/ /\ worker[w].item # contents /\ worker[w].fresh
        /\ copies' = [copies EXCEPT ![Target(w)].contents = contents]
        /\ worker' = [Outdated(Target(w)) EXCEPT ![w] = Applied(w, contents)]
     \/ /\ worker[w].item # contents /\ ~worker[w].fresh
        /\ Return(w)
        /\ UNCHANGED copies
  /\ UNCHANGED <<resource, binding, events>>

\* Faulty variant: the deletions are left out.
DeleteCopyNever(w) ==
  /\ At(w, "next")
  /\ worker[w].todo = {}
  /\ worker[w].keys # {}
  /\ worker' = [worker EXCEPT ![w].keys = {}]
  /\ UNCHANGED <<resource, binding, copies, events>>

\* What is left in the map is deleted: the item, as often as there are keys.
DeleteCopy(w) == \E key \in worker[w].keys :
  /\ At(w, "next")
  /\ worker[w].todo = {}
  /\ \/ /\ copies[Target(w)].exists
        /\ copies' = [copies EXCEPT ![Target(w)].deleting = TRUE]
        /\ worker' = [IF copies[Target(w)].deleting THEN worker ELSE Outdated(Target(w))
                        EXCEPT ![w].keys = @ \ {key}]
     \/ /\ ~copies[Target(w)].exists
        /\ Return(w)
        /\ UNCHANGED copies
  /\ UNCHANGED <<resource, binding, events>>

Synced(w) == At(w, "next") /\ worker[w].todo = {} /\ worker[w].keys = {}

\* The resource controller is done then.
EndResource ==
  /\ Synced("resource")
  /\ Return("resource")
  /\ UNCHANGED <<resource, binding, copies, events>>

-----------------------------------------------------------------------------
(* updateBindingStatus *)

\* RemoveObjectWithIndex; the second entry is removed with a change of order.
Without(entries, i) ==
  IF i = 2 THEN Append(SubSeq(entries, 3, Len(entries)), entries[1]) ELSE RemoveAt(entries, i)

\* Faulty variant: a ClusterResource without a status counts as well.
ReportBlank(entries, item) ==
  IF \E i \in DOMAIN entries : entries[i].cluster = item.cluster THEN entries
  ELSE Append(entries, [cluster |-> item.cluster, phase |-> item.phase])

\* One item of the list.  The map from clusters to entries has the fault of
\* the other map: it leads to the last entry, whose phase is compared and
\* which is removed (its first equal, removeItemForClusterStatusList).
Report(entries, item) ==
  LET entry == [cluster |-> item.cluster, phase |-> item.phase]
      known == \E i \in DOMAIN entries : entries[i].cluster = item.cluster
      same  == {i \in DOMAIN entries : entries[i] = Last(entries)}
      first == CHOOSE i \in same : \A j \in same : i <= j
  IN CASE item.phase = None                                -> entries
       [] item.phase # None /\ ~known                      -> Append(entries, entry)
       [] known /\ Last(entries).phase = item.phase        -> entries
       [] OTHER                                            -> Append(Without(entries, first), entry)

\* Status().Update, which conflicts if the binding has been written since it
\* was read, and fails if the object has become too large.
UpdateBindingStatus ==
  LET status == FoldLeft(Report, binding.status, worker["binding"].list)
  IN
  /\ Synced("binding")
  /\ \/ /\ worker["binding"].known /\ status = binding.status
        /\ Return("binding")
        /\ UNCHANGED binding
     \/ /\ worker["binding"].known /\ status # binding.status /\ Len(status) <= MaxEntries
        /\ binding' = [binding EXCEPT !.status = status]
        /\ Return("binding")
     \/ /\ ~worker["binding"].known \/ Len(status) > MaxEntries
        /\ Return("binding")
        /\ UNCHANGED binding
  /\ UNCHANGED <<resource, copies, events>>

-----------------------------------------------------------------------------
(* controller-runtime, and faults *)

\* A call of the API server fails, other than by a conflict.
ApiError(w) ==
  /\ Event
  /\ \/ worker[w].pc \in {"list", "apply", "unbind", "release"}
     \/ At(w, "next") /\ worker[w].todo = {}
  /\ Return(w)
  /\ UNCHANGED <<resource, binding, copies>>

\* The core starts again.
CoreRestart ==
  /\ Event
  /\ worker' = [w \in Controllers |-> Resting]
  /\ UNCHANGED <<resource, binding, copies>>

Sync(w) ==
  \/ ListCopies(w)
  \/ ReadResource(w)
  \/ CreateCopy(w)
  \/ UpdateCopy(w)
  \/ DeleteCopy(w)

Step(w) ==
  \/ Sync(w)
  \/ w = "binding" /\ (ReconcileBinding \/ UpdateBindingStatus)
  \/ w = "resource" /\ (ReconcileResource \/ EndResource \/ Unbind \/ ReleaseResource)

Next ==
  \/ ChangeResource \/ DeleteResource \/ Rebind \/ DeleteBinding
  \/ ReportStatus
  \/ \E c \in Clusters : Release(c) \/ Collect(c)
  \/ \E w \in Controllers : Step(w) \/ ApiError(w)
  \/ CoreRestart

Spec == Init /\ [][Next]_vars

ListWithLast(c) ==
  /\ ListCopies("binding")
  /\ worker'["binding"].list # <<>>
  /\ Last(worker'["binding"].list).cluster = c

\* Controllers go on and are called again, deleted objects go away, what a
\* binding that is gone has owned is collected, and no item of a list that is
\* read again and again is never its last.
Fairness ==
  /\ \A w \in Controllers : WF_vars(Step(w))
  /\ \A c \in Clusters : WF_vars(Release(c)) /\ WF_vars(~binding.exists /\ Collect(c))
  /\ \A c \in Clusters : SF_vars(ListWithLast(c))

FairSpec == Spec /\ Fairness

-----------------------------------------------------------------------------
(* Properties *)

\* The reconcilers of both controllers read the resource, and write what they
\* have read some steps later (resource-binding/common.go:35, :78).  A
\* ClusterResource never goes back to earlier contents: the list whose version
\* an item is written under is older than the contents.
NoGoingBack ==
  [][\A c \in Clusters :
       copies[c].exists /\ copies'[c].exists
         => copies[c].contents.version <= copies'[c].contents.version]_vars

\* Nothing is deleted any more, neither the binding nor its resource.
Settled == binding.exists /\ ~binding.deleting /\ resource.exists /\ ~resource.deleting

Exact == \A c \in Clusters :
  /\ copies[c].exists <=> c \in binding.clusters
  /\ copies[c].exists => copies[c].contents.version = resource.version

\* The map of syncClusterResource updates and deletes items in place of
\* others (resource-binding/common.go:158, :91).  Even so, once neither the
\* binding nor its resource is deleted any more, every bound cluster gets a
\* ClusterResource with the last version, and no other cluster keeps one: also
\* those that the garbage collector deletes in the meantime, for an owner it
\* looks for in the wrong namespace (:51, :112), are made again.  (Were it never
\* to end, as it may, nothing would last; and which override they hold may
\* alternate for ever.)
EventuallyExact == <>[]Settled => <>[]Exact

\* updateBinding fails when the binding has just gone, and removeFinalizer
\* when the resource has been written meanwhile
\* (multi_cluster_resource_controller.go:104, :141): a deleted resource goes
\* all the same.
EventuallyGone == resource.deleting ~> ~resource.exists

\* A resource that cannot be read is skipped and its keys stay in the map
\* (resource-binding/common.go:35-38): whether or not the resource has had a
\* finalizer, whose controller deletes the binding, no ClusterResource
\* outlives it, not even one that is created while the binding goes.
EventuallyCleared == <>[]~resource.exists => <>[](Existing = {})
===============================================================================
