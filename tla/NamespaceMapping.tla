--------------------------- MODULE NamespaceMapping ----------------------------
(***************************************************************************)
(* The namespace-mapping controller: the NamespaceMappings of a workspace  *)
(* are kept as labels of its namespace, one key per member cluster, whose  *)
(* value is the namespace of that cluster.                                 *)
(*                                                                         *)
(* The controller reads the namespace from its cache again for each rule   *)
(* and writes it back at once, ignoring the answer; the cache follows the  *)
(* API server by a watch.  `cache.current' tells whether it has the last   *)
(* version, without which the API server refuses an update.  updateLabel   *)
(* deletes the label it is about to set, when the value is the same: that  *)
(* changes nothing and is not modelled.                                    *)
(***************************************************************************)
EXTENDS Naturals, FiniteSets

CONSTANTS
  Mappings,    \* names of NamespaceMappings of the workspace
  Clusters,
  Namespaces,  \* namespaces of the member clusters
  None,        \* no rule, no label
  Initial,     \* which mappings there may be at the start
  FaultKinds,  \* which faults may happen
  MaxFaults    \* bound: how many faults happen in a behaviour

AllFaults == {"edit", "create", "delete", "foreign", "api", "restart"}

ASSUME MappingAssumption ==
  /\ Mappings # {}
  /\ None \notin Namespaces
  /\ FaultKinds \subseteq AllFaults
  /\ MaxFaults \in Nat

VARIABLES
  mapping,     \* the NamespaceMapping objects
  labels,      \* the mapping labels of the workspace's namespace
  foreign,     \* a label of it that others write
  cache,       \* the namespace in the controller's cache
  queue,       \* mappings in the work queue
  retry,       \* mappings requeued after an error
  controller,  \* the Reconcile that runs
  faults       \* faults still to come

vars == <<mapping, labels, foreign, cache, queue, retry, controller, faults>>

-----------------------------------------------------------------------------
Labels     == [Clusters -> Namespaces \cup {None}]
Mapping    == [exists: BOOLEAN, deleting: BOOLEAN, finalizer: BOOLEAN, rules: Labels]
Cache      == [labels: Labels, foreign: BOOLEAN, current: BOOLEAN]
Controller == [pc: {"idle", "finalizer", "map", "remove"}, on: Mappings,
               rules: Labels, todo: SUBSET Clusters, fresh: BOOLEAN]

TypeOK ==
  /\ mapping \in [Mappings -> Mapping]
  /\ labels \in Labels
  /\ foreign \in BOOLEAN
  /\ cache \in Cache
  /\ queue \subseteq Mappings
  /\ retry \subseteq Mappings
  /\ controller \in Controller
  /\ faults \in 0..MaxFaults

NoLabels  == [k \in Clusters |-> None]
NoMapping == [exists |-> FALSE, deleting |-> FALSE, finalizer |-> FALSE, rules |-> NoLabels]
Idle      == [pc |-> "idle", on |-> CHOOSE m \in Mappings : TRUE, rules |-> NoLabels,
              todo |-> {}, fresh |-> FALSE]

Created(r) == [NoMapping EXCEPT !.exists = TRUE, !.rules = r]

ASSUME InitialAssumption ==
  Initial \subseteq [Mappings -> {NoMapping} \cup {Created(r) : r \in Labels}]

\* Users have created some mappings.
Init ==
  /\ mapping \in Initial
  /\ labels = NoLabels
  /\ foreign = FALSE
  /\ cache = [labels |-> labels, foreign |-> foreign, current |-> TRUE]
  /\ queue = {m \in Mappings : mapping[m].exists}
  /\ retry = {}
  /\ controller = Idle
  /\ faults = MaxFaults

-----------------------------------------------------------------------------
(* Helpers *)

Fault(kind) ==
  /\ kind \in FaultKinds
  /\ faults > 0
  /\ faults' = faults - 1

Rules(r)  == {k \in Clusters : r[k] # None}
Active(m) == controller.pc # "idle" /\ controller.on = m
AtRest(m) == m \notin queue \cup retry /\ ~Active(m)

\* ReQueueResult.
Requeue ==
  /\ retry' = retry \cup {controller.on}
  /\ controller' = Idle

\* Faulty variant: the update does not carry the version of the copy.
UpdateUnversioned(new) ==
  /\ labels' = new
  /\ foreign' = cache.foreign
  /\ cache' = [cache EXCEPT !.current = FALSE]
  /\ UNCHANGED faults

\* Client.Update of the namespace read from the cache, with the mapping labels
\* `new'.  Its error is ignored; an update that changes nothing makes no version.
UpdateNamespace(new) ==
  \/ /\ cache.current
     /\ labels' = new
     /\ foreign' = cache.foreign
     /\ cache' = [cache EXCEPT !.current = (new = labels)]
     /\ UNCHANGED faults
  \/ /\ ~cache.current
     /\ UNCHANGED <<labels, foreign, cache, faults>>
  \/ Fault("api") /\ UNCHANGED <<labels, foreign, cache>>

-----------------------------------------------------------------------------
(* The controller *)

StartReconcile(m) ==
  /\ controller.pc = "idle" /\ m \in queue
  /\ queue' = queue \ {m}
  /\ LET copy(pc) == [pc |-> pc, on |-> m, rules |-> mapping[m].rules,
                      todo |-> Rules(mapping[m].rules), fresh |-> TRUE]
     IN controller' =
          IF ~mapping[m].exists THEN Idle
          ELSE IF mapping[m].deleting THEN copy("remove")
          ELSE IF ~mapping[m].finalizer THEN copy("finalizer")
          ELSE copy("map")
  /\ UNCHANGED <<mapping, labels, foreign, cache, retry, faults>>

\* The event of the finalizer starts the next Reconcile.
AddFinalizer ==
  /\ controller.pc = "finalizer"
  /\ \/ /\ controller.fresh
        /\ mapping' = [mapping EXCEPT ![controller.on].finalizer = TRUE]
        /\ queue' = queue \cup {controller.on}
        /\ controller' = Idle
        /\ UNCHANGED <<retry, faults>>
     \/ /\ \/ ~controller.fresh /\ UNCHANGED faults
           \/ Fault("api")
        /\ Requeue
        /\ UNCHANGED <<mapping, queue>>
  /\ UNCHANGED <<labels, foreign, cache>>

\* Faulty variant: the labels are always a new map.
MapRuleAlone(k) ==
  /\ controller.pc = "map" /\ k \in controller.todo
  /\ UpdateNamespace([NoLabels EXCEPT ![k] = controller.rules[k]])
  /\ controller' = [controller EXCEPT !.todo = @ \ {k}]
  /\ UNCHANGED <<mapping, queue, retry>>

\* Faulty variant: the loop ends with its first rule.
MapRuleFirst(k) ==
  /\ controller.pc = "map" /\ k \in controller.todo
  /\ UpdateNamespace([cache.labels EXCEPT ![k] = controller.rules[k]])
  /\ controller' = [controller EXCEPT !.todo = {}]
  /\ UNCHANGED <<mapping, queue, retry>>

\* Faulty variant: the labels without the key, as a map of the other keys.
UnmapRuleKey(k) ==
  /\ controller.pc = "remove" /\ k \in controller.todo
  /\ UpdateNamespace([other \in Clusters \ {k} |-> cache.labels[other]])
  /\ controller' = [controller EXCEPT !.todo = @ \ {k}]
  /\ UNCHANGED <<mapping, queue, retry>>

\* Faulty variant: a label that is not there is an error.
UnmapRuleStrict(k) ==
  /\ controller.pc = "remove" /\ k \in controller.todo
  /\ IF cache.labels[k] = None
       THEN Requeue /\ UNCHANGED <<labels, foreign, cache, faults>>
       ELSE /\ UpdateNamespace([cache.labels EXCEPT ![k] = None])
            /\ controller' = [controller EXCEPT !.todo = @ \ {k}]
            /\ UNCHANGED retry
  /\ UNCHANGED <<mapping, queue>>

\* mappingOperator, one rule; the rules of a map come in any order.
MapRule(k) ==
  /\ controller.pc = "map" /\ k \in controller.todo
  /\ UpdateNamespace([cache.labels EXCEPT ![k] = controller.rules[k]])
  /\ controller' = [controller EXCEPT !.todo = @ \ {k}]
  /\ UNCHANGED <<mapping, queue, retry>>

UnmapRule(k) ==
  /\ controller.pc = "remove" /\ k \in controller.todo
  /\ UpdateNamespace([cache.labels EXCEPT ![k] = None])
  /\ controller' = [controller EXCEPT !.todo = @ \ {k}]
  /\ UNCHANGED <<mapping, queue, retry>>

\* syncNamespaceMapping ends without an error whatever became of the updates.
EndMapping ==
  /\ controller.pc = "map" /\ controller.todo = {}
  /\ controller' = Idle
  /\ UNCHANGED <<mapping, labels, foreign, cache, queue, retry, faults>>

\* With its finalizer the deleted mapping goes.
RemoveFinalizer ==
  /\ controller.pc = "remove" /\ controller.todo = {}
  /\ \/ /\ controller.fresh
        /\ mapping' = [mapping EXCEPT ![controller.on] = NoMapping]
        /\ controller' = Idle
        /\ UNCHANGED <<retry, faults>>
     \/ /\ \/ ~controller.fresh /\ UNCHANGED faults
           \/ Fault("api")
        /\ Requeue
        /\ UNCHANGED mapping
  /\ UNCHANGED <<labels, foreign, cache, queue>>

\* The delay of a requeue is over.
Retry(m) ==
  /\ m \in retry
  /\ retry' = retry \ {m}
  /\ queue' = queue \cup {m}
  /\ UNCHANGED <<mapping, labels, foreign, cache, controller, faults>>

\* SyncPeriod.
Resync(m) ==
  /\ AtRest(m) /\ mapping[m].exists
  /\ queue' = queue \cup {m}
  /\ UNCHANGED <<mapping, labels, foreign, cache, retry, controller, faults>>

\* The watch brings the last version of the namespace into the cache.
WatchNamespace ==
  /\ ~cache.current
  /\ cache' = [labels |-> labels, foreign |-> foreign, current |-> TRUE]
  /\ UNCHANGED <<mapping, labels, foreign, queue, retry, controller, faults>>

-----------------------------------------------------------------------------
(* The environment *)

\* A user writes mapping m: an event, and the Reconcile's copy is no longer fresh.
WriteMapping(m, new) ==
  /\ mapping' = [mapping EXCEPT ![m] = new]
  /\ queue' = queue \cup {m}
  /\ controller' = IF Active(m) THEN [controller EXCEPT !.fresh = FALSE] ELSE controller
  /\ UNCHANGED <<labels, foreign, cache, retry>>

EditRule(m, k, n) ==
  /\ mapping[m].exists /\ ~mapping[m].deleting /\ mapping[m].rules[k] # n
  /\ Fault("edit")
  /\ WriteMapping(m, [mapping[m] EXCEPT !.rules[k] = n])

CreateMapping(m) ==
  /\ ~mapping[m].exists
  /\ Fault("create")
  /\ \E r \in Labels : WriteMapping(m, Created(r))

DeleteMapping(m) ==
  /\ mapping[m].exists /\ ~mapping[m].deleting
  /\ Fault("delete")
  /\ WriteMapping(m, IF mapping[m].finalizer THEN [mapping[m] EXCEPT !.deleting = TRUE]
                     ELSE NoMapping)

\* Somebody else writes another label of the namespace.
WriteForeign ==
  /\ Fault("foreign")
  /\ foreign' = ~foreign
  /\ cache' = [cache EXCEPT !.current = FALSE]
  /\ UNCHANGED <<mapping, labels, queue, retry, controller>>

RestartCore ==
  /\ Fault("restart")
  /\ controller' = Idle
  /\ retry' = {}
  /\ queue' = {m \in Mappings : mapping[m].exists}
  /\ cache' = [labels |-> labels, foreign |-> foreign, current |-> TRUE]
  /\ UNCHANGED <<mapping, labels, foreign>>

-----------------------------------------------------------------------------
ControllerNext ==
  \/ AddFinalizer
  \/ EndMapping
  \/ RemoveFinalizer
  \/ \E k \in Clusters : MapRule(k) \/ UnmapRule(k)

Environment ==
  \/ WriteForeign
  \/ RestartCore
  \/ \E m \in Mappings : CreateMapping(m) \/ DeleteMapping(m)
  \/ \E m \in Mappings, k \in Clusters, n \in Namespaces \cup {None} : EditRule(m, k, n)

Next ==
  \/ ControllerNext
  \/ WatchNamespace
  \/ Environment
  \/ \E m \in Mappings : StartReconcile(m) \/ Retry(m) \/ Resync(m)

Spec == Init /\ [][Next]_vars

\* The controller's worker and the watch run; requeues and SyncPeriod have
\* timers; the work queue is first in, first out.
Fairness ==
  /\ WF_vars(ControllerNext)
  /\ WF_vars(WatchNamespace)
  /\ \A m \in Mappings : SF_vars(StartReconcile(m)) /\ WF_vars(Retry(m)) /\ WF_vars(Resync(m))

FairSpec == Spec /\ Fairness

-----------------------------------------------------------------------------
(* Properties *)

\* The controller writes the namespace from a copy that may be old, and ignores
\* the answer: it never takes back what others have written to the namespace.
ForeignLabelsKept == [][ControllerNext => foreign' = foreign]_vars

\* Only the Reconcile of a mapping that is still being deleted takes a label away,
\* and only that of a cluster the mapping has a rule for: setting the labels of
\* other rules, from an old copy of the namespace or after a lost update, drops
\* none, nor does the removal of one label drop another.  The label it takes away
\* may be that of another, live mapping with a rule for the same cluster:
\* removeMapping deletes the key whatever its value.
Removing(k) ==
  /\ controller.pc = "remove"
  /\ mapping[controller.on].deleting
  /\ mapping[controller.on].rules[k] # None

LabelsKept ==
  [][\A k \in Clusters :
       labels[k] # None /\ labels'[k] = None
       => Removing(k) /\ \A other \in Clusters \ {k} : labels'[other] = labels[other]]_vars

\* The rules of a mapping that shares no cluster with another, for good, end up as
\* labels, though updates are lost to the stale cache, their errors are ignored,
\* and the removal of another mapping may have taken a label away.  Two mappings
\* that disagree on a cluster overwrite each other with each resync, and an update
\* of theirs may each time make the cache too old for that of a rule beside it.
Alone(m) ==
  /\ mapping[m].exists /\ ~mapping[m].deleting
  /\ \A k \in Rules(mapping[m].rules), other \in Mappings \ {m} : mapping[other].rules[k] = None

EventuallyMapped ==
  \A m \in Mappings, k \in Clusters :
    <>[](Alone(m) /\ mapping[m].rules[k] # None) => <>[](labels[k] = mapping[m].rules[k])

\* A deleted mapping goes, whatever becomes of the updates of the namespace.
EventuallyReleased ==
  \A m \in Mappings : mapping[m].deleting ~> ~mapping[m].deleting

=============================================================================
