------------------------ MODULE NamespaceMappingProofs -------------------------
(***************************************************************************)
(* Theorems about NamespaceMapping, for any mappings, clusters, namespaces *)
(* and faults.                                                             *)
(*                                                                         *)
(* What the controller writes from its cache is safe for two reasons: an   *)
(* update passes only from the last version, which the cache then tells    *)
(* the truth about; and a Reconcile deletes labels only of a mapping that  *)
(* is still being deleted, with the rules it still has.                    *)
(***************************************************************************)
EXTENDS NamespaceMapping, TLAPS

USE MappingAssumption

-----------------------------------------------------------------------------
(* The inductive invariant *)

\* The cache that has the last version of the namespace has its labels.
CacheTrue == cache.current => cache.labels = labels /\ cache.foreign = foreign

\* A Reconcile that sets labels has a namespace for each.
MapsRules == controller.pc = "map" => \A k \in controller.todo : controller.rules[k] # None

\* A Reconcile that deletes labels does so for a mapping that is being deleted,
\* and of which nobody has changed the rules.
RemovesDeleted ==
  controller.pc = "remove" =>
    /\ mapping[controller.on].deleting
    /\ mapping[controller.on].rules = controller.rules
    /\ \A k \in controller.todo : controller.rules[k] # None

\* An object that is being deleted is still there.
DeletingExists == \A m \in Mappings : mapping[m].deleting => mapping[m].exists

IInv == TypeOK /\ DeletingExists /\ CacheTrue /\ MapsRules /\ RemovesDeleted

-----------------------------------------------------------------------------
(* Type correctness *)

\* A label set or deleted leaves a map of labels.
LEMMA LabelsUpdate ==
  ASSUME NEW l \in Labels, NEW k \in Clusters, NEW n \in Namespaces \cup {None}
  PROVE  [l EXCEPT ![k] = n] \in Labels
BY DEF Labels

LEMMA ControllerField ==
  ASSUME NEW c \in Controller
  PROVE  /\ \A t \in SUBSET Clusters : [c EXCEPT !.todo = t] \in Controller
         /\ \A f \in BOOLEAN : [c EXCEPT !.fresh = f] \in Controller
BY DEF Controller

LEMMA MappingField ==
  ASSUME NEW o \in Mapping
  PROVE  /\ \A b \in BOOLEAN : [o EXCEPT !.deleting = b] \in Mapping
         /\ \A b \in BOOLEAN : [o EXCEPT !.finalizer = b] \in Mapping
         /\ \A r \in Labels : [o EXCEPT !.rules = r] \in Mapping
BY DEF Mapping

\* The zero values, and a mapping just created, have their types.
LEMMA ZeroTypes ==
  /\ NoLabels \in Labels
  /\ NoMapping \in Mapping
  /\ \A r \in Labels : Created(r) \in Mapping
  /\ Idle \in Controller
<1>1. NoLabels \in Labels
  BY DEF NoLabels, Labels
<1>2. NoMapping \in Mapping
  BY <1>1 DEF NoMapping, Mapping
<1>3. \A r \in Labels : Created(r) \in Mapping
  BY <1>1 DEF NoMapping, Mapping, Created
<1>4. Idle \in Controller
  BY <1>1 DEF Idle, Controller
<1>5. QED
  BY <1>1, <1>2, <1>3, <1>4

\* A fault only uses up the bound.
LEMMA FaultType ==
  ASSUME faults \in 0..MaxFaults, NEW kind, Fault(kind)
  PROVE  faults' \in 0..MaxFaults
BY DEF Fault

LEMMA UpdateType ==
  ASSUME TypeOK, NEW new \in Labels, UpdateNamespace(new)
  PROVE  /\ labels' \in Labels
         /\ foreign' \in BOOLEAN
         /\ cache' \in Cache
         /\ faults' \in 0..MaxFaults
<1>1. cache \in Cache /\ labels \in Labels /\ foreign \in BOOLEAN /\ faults \in 0..MaxFaults
  BY DEF TypeOK
<1>2. CASE cache.current /\ labels' = new /\ foreign' = cache.foreign
           /\ cache' = [cache EXCEPT !.current = (new = labels)] /\ UNCHANGED faults
  BY <1>1, <1>2 DEF Cache
<1>3. CASE UNCHANGED <<labels, foreign, cache, faults>>
  BY <1>1, <1>3
<1>4. CASE Fault("api") /\ UNCHANGED <<labels, foreign, cache>>
  BY <1>1, <1>4, FaultType
<1>5. QED
  BY <1>2, <1>3, <1>4 DEF UpdateNamespace

LEMMA TypeInit == Init => TypeOK
<1> SUFFICES ASSUME Init PROVE TypeOK
  OBVIOUS
<1>1. mapping \in [Mappings -> Mapping]
  <2>1. {NoMapping} \cup {Created(r) : r \in Labels} \subseteq Mapping
    BY ZeroTypes
  <2>2. mapping \in [Mappings -> {NoMapping} \cup {Created(r) : r \in Labels}]
    BY InitialAssumption DEF Init
  <2>3. QED
    BY <2>1, <2>2
<1>2. labels \in Labels /\ controller \in Controller
  BY ZeroTypes DEF Init
<1>3. cache \in Cache
  BY <1>2 DEF Init, Cache
<1>4. faults \in 0..MaxFaults
  <2>1. faults = MaxFaults /\ MaxFaults \in Nat
    BY Zenon DEF Init, MappingAssumption
  <2>2. QED
    BY <2>1
<1>5. QED
  BY <1>1, <1>2, <1>3, <1>4 DEF Init, TypeOK

LEMMA WriteType ==
  ASSUME TypeOK, NEW m \in Mappings, NEW new \in Mapping, WriteMapping(m, new)
  PROVE  /\ mapping' \in [Mappings -> Mapping]
         /\ queue' \subseteq Mappings
         /\ controller' \in Controller
         /\ UNCHANGED <<labels, foreign, cache, retry>>
BY ControllerField DEF TypeOK, WriteMapping

LEMMA TypeController == TypeOK /\ ControllerNext => TypeOK'
<1> SUFFICES ASSUME TypeOK, ControllerNext PROVE TypeOK'
  OBVIOUS
<1>a. /\ mapping \in [Mappings -> Mapping] /\ labels \in Labels /\ foreign \in BOOLEAN
      /\ cache \in Cache /\ queue \subseteq Mappings /\ retry \subseteq Mappings
      /\ controller \in Controller /\ faults \in 0..MaxFaults
  BY DEF TypeOK
<1>b. controller.on \in Mappings /\ controller.rules \in Labels /\ cache.labels \in Labels
      /\ controller.todo \in SUBSET Clusters
  BY <1>a DEF Controller, Cache
<1>c. Requeue => retry' \subseteq Mappings /\ controller' \in Controller
  BY <1>a, <1>b, ZeroTypes DEF Requeue
<1>1. CASE AddFinalizer
  <2>1. [mapping EXCEPT ![controller.on].finalizer = TRUE] \in [Mappings -> Mapping]
    BY <1>a, <1>b, MappingField
  <2>2. mapping' \in [Mappings -> Mapping] /\ queue' \subseteq Mappings
    BY <1>1, <1>a, <1>b, <2>1 DEF AddFinalizer
  <2>3. retry' \subseteq Mappings /\ controller' \in Controller
    BY <1>1, <1>a, <1>c, ZeroTypes DEF AddFinalizer
  <2>4. faults' \in 0..MaxFaults
    BY <1>1, <1>a, FaultType DEF AddFinalizer
  <2>5. QED
    BY <1>1, <1>a, <2>2, <2>3, <2>4 DEF AddFinalizer, TypeOK
<1>2. CASE EndMapping
  BY <1>2, <1>a, ZeroTypes DEF EndMapping, TypeOK
<1>3. CASE RemoveFinalizer
  <2>1. mapping' \in [Mappings -> Mapping]
    BY <1>3, <1>a, <1>b, ZeroTypes DEF RemoveFinalizer
  <2>2. retry' \subseteq Mappings /\ controller' \in Controller
    BY <1>3, <1>a, <1>c, ZeroTypes DEF RemoveFinalizer
  <2>3. faults' \in 0..MaxFaults
    BY <1>3, <1>a, FaultType DEF RemoveFinalizer
  <2>4. QED
    BY <1>3, <1>a, <2>1, <2>2, <2>3 DEF RemoveFinalizer, TypeOK
<1>4. ASSUME NEW k \in Clusters, MapRule(k) \/ UnmapRule(k) PROVE TypeOK'
  <2>1. PICK n \in Namespaces \cup {None} : UpdateNamespace([cache.labels EXCEPT ![k] = n])
    BY <1>4, <1>b DEF MapRule, UnmapRule, Labels
  <2>2. [cache.labels EXCEPT ![k] = n] \in Labels
    BY <1>b, LabelsUpdate
  <2>3. /\ labels' \in Labels /\ foreign' \in BOOLEAN
        /\ cache' \in Cache /\ faults' \in 0..MaxFaults
    BY <2>1, <2>2, UpdateType
  <2>4. controller' \in Controller
    BY <1>4, <1>a, <1>b, ControllerField DEF MapRule, UnmapRule
  <2>5. QED
    BY <1>4, <1>a, <2>3, <2>4 DEF MapRule, UnmapRule, TypeOK
<1>5. QED
  BY <1>1, <1>2, <1>3, <1>4 DEF ControllerNext

LEMMA TypeQueue ==
  TypeOK /\ (WatchNamespace \/ \E m \in Mappings : StartReconcile(m) \/ Retry(m) \/ Resync(m)) => TypeOK'
<1> SUFFICES ASSUME TypeOK,
                    WatchNamespace \/ \E m \in Mappings : StartReconcile(m) \/ Retry(m) \/ Resync(m)
             PROVE  TypeOK'
  OBVIOUS
<1>1. CASE WatchNamespace
  BY <1>1 DEF WatchNamespace, TypeOK, Cache
<1>2. ASSUME NEW m \in Mappings, StartReconcile(m) PROVE TypeOK'
  <2>1. mapping[m].rules \in Labels
    BY DEF TypeOK, Mapping
  <2>2. \A pc \in {"finalizer", "map", "remove"} :
          [pc |-> pc, on |-> m, rules |-> mapping[m].rules,
           todo |-> Rules(mapping[m].rules), fresh |-> TRUE] \in Controller
    BY <2>1 DEF Controller, Rules
  <2>3. controller' \in Controller
    BY <1>2, <2>2, ZeroTypes DEF StartReconcile
  <2>4. QED
    BY <1>2, <2>3 DEF StartReconcile, TypeOK
<1>3. ASSUME NEW m \in Mappings, Retry(m) \/ Resync(m) PROVE TypeOK'
  BY <1>3 DEF Retry, Resync, TypeOK
<1>4. QED
  BY <1>1, <1>2, <1>3

LEMMA TypeEnvironment == TypeOK /\ Environment => TypeOK'
<1> SUFFICES ASSUME TypeOK, Environment PROVE TypeOK'
  OBVIOUS
<1>a. mapping \in [Mappings -> Mapping] /\ faults \in 0..MaxFaults
  BY DEF TypeOK
<1>w. ASSUME NEW m \in Mappings, NEW new \in Mapping, WriteMapping(m, new),
             faults' \in 0..MaxFaults
      PROVE  TypeOK'
  BY <1>w, WriteType DEF TypeOK
<1>1. CASE WriteForeign
  BY <1>1, <1>a, FaultType DEF WriteForeign, TypeOK, Cache
<1>2. CASE RestartCore
  BY <1>2, <1>a, FaultType, ZeroTypes DEF RestartCore, TypeOK, Cache
<1>3. ASSUME NEW m \in Mappings, CreateMapping(m) PROVE TypeOK'
  BY <1>3, <1>a, <1>w, FaultType, ZeroTypes DEF CreateMapping
<1>4. ASSUME NEW m \in Mappings, DeleteMapping(m) PROVE TypeOK'
  <2>1. [mapping[m] EXCEPT !.deleting = TRUE] \in Mapping
    BY <1>a, MappingField
  <2>2. QED
    BY <1>4, <1>a, <1>w, <2>1, FaultType, ZeroTypes DEF DeleteMapping
<1>5. ASSUME NEW m \in Mappings, NEW k \in Clusters, NEW n \in Namespaces \cup {None},
             EditRule(m, k, n)
      PROVE  TypeOK'
  <2>1. [mapping[m].rules EXCEPT ![k] = n] \in Labels
    BY <1>a, LabelsUpdate DEF Mapping
  <2>2. [mapping[m] EXCEPT !.rules = [mapping[m].rules EXCEPT ![k] = n]] \in Mapping
    BY <1>a, <2>1, MappingField
  <2>3. [mapping[m] EXCEPT !.rules[k] = n] \in Mapping
    BY <2>2
  <2>4. QED
    BY <1>5, <1>a, <1>w, <2>3, FaultType DEF EditRule
<1>6. QED
  BY <1>1, <1>2, <1>3, <1>4, <1>5 DEF Environment

LEMMA TypeStep == TypeOK /\ [Next]_vars => TypeOK'
<1>1. TypeOK /\ UNCHANGED vars => TypeOK'
  BY DEF vars, TypeOK
<1>2. QED
  BY <1>1, TypeController, TypeQueue, TypeEnvironment DEF Next

\* The variables keep their types in every behaviour of the controller.
THEOREM TypeCorrect == Spec => []TypeOK
BY TypeInit, TypeStep, PTL DEF Spec
-----------------------------------------------------------------------------
(* The cache and the Reconcile *)

LEMMA CacheStep == TypeOK /\ CacheTrue /\ [Next]_vars => CacheTrue'
<1> SUFFICES ASSUME TypeOK, CacheTrue, [Next]_vars PROVE CacheTrue'
  OBVIOUS
<1>a. cache \in Cache
  BY DEF TypeOK
<1>1. CASE UNCHANGED <<labels, foreign, cache>>
  BY <1>1 DEF CacheTrue
<1>2. ASSUME NEW k \in Clusters, MapRule(k) \/ UnmapRule(k) PROVE CacheTrue'
  <2>1. PICK new : UpdateNamespace(new)
    BY <1>2, Zenon DEF MapRule, UnmapRule
  <2>2. CASE cache.current /\ labels' = new /\ foreign' = cache.foreign
             /\ cache' = [cache EXCEPT !.current = (new = labels)]
    BY <2>2, <1>a DEF CacheTrue, Cache
  <2>3. QED
    BY <1>1, <2>1, <2>2, Zenon DEF UpdateNamespace
<1>3. CASE WriteForeign
  BY <1>3, <1>a DEF WriteForeign, CacheTrue, Cache
<1>4. CASE RestartCore \/ WatchNamespace
  BY <1>4 DEF RestartCore, WatchNamespace, CacheTrue
<1>5. QED
  BY <1>1, <1>2, <1>3, <1>4, Zenon
     DEF Next, ControllerNext, Environment, AddFinalizer, EndMapping, RemoveFinalizer,
         CreateMapping, DeleteMapping, EditRule, WriteMapping, StartReconcile, Retry, Resync, vars

\* A step that leaves the Reconcile at work to do no more, on the mapping as it
\* has been.
LEMMA ReconcileElsewhere ==
  ASSUME MapsRules, RemovesDeleted,
         controller'.pc = controller.pc, controller'.on = controller.on,
         controller'.rules = controller.rules, controller'.todo \subseteq controller.todo,
         controller.pc = "remove" => mapping'[controller.on] = mapping[controller.on]
  PROVE  MapsRules' /\ RemovesDeleted'
BY DEF MapsRules, RemovesDeleted

\* Only a mapping that is not being deleted is edited, and none is deleted twice.
LEMMA ReconcileWrite ==
  ASSUME TypeOK, MapsRules, RemovesDeleted,
         NEW m \in Mappings, NEW new, WriteMapping(m, new), ~mapping[m].deleting
  PROVE  MapsRules' /\ RemovesDeleted'
<1>a. controller \in Controller /\ mapping \in [Mappings -> Mapping]
  BY DEF TypeOK
<1>1. /\ controller'.pc = controller.pc /\ controller'.on = controller.on
      /\ controller'.rules = controller.rules /\ controller'.todo = controller.todo
  BY <1>a DEF WriteMapping, Controller
<1>2. controller.pc = "remove" => mapping'[controller.on] = mapping[controller.on]
  BY <1>a DEF RemovesDeleted, WriteMapping, Controller
<1>3. QED
  BY <1>1, <1>2, ReconcileElsewhere

LEMMA ReconcileStep ==
  TypeOK /\ DeletingExists /\ MapsRules /\ RemovesDeleted /\ [Next]_vars
  => MapsRules' /\ RemovesDeleted'
<1> SUFFICES ASSUME TypeOK, DeletingExists, MapsRules, RemovesDeleted, [Next]_vars
             PROVE  MapsRules' /\ RemovesDeleted'
  OBVIOUS
<1>a. controller \in Controller /\ mapping \in [Mappings -> Mapping]
  BY DEF TypeOK
<1>i. controller' = Idle => MapsRules' /\ RemovesDeleted'
  BY DEF Idle, MapsRules, RemovesDeleted
<1>1. CASE UNCHANGED <<controller, mapping>>
  BY <1>1, ReconcileElsewhere
<1>2. ASSUME NEW k \in Clusters, MapRule(k) \/ UnmapRule(k) PROVE MapsRules' /\ RemovesDeleted'
  <2>1. controller' = [controller EXCEPT !.todo = @ \ {k}] /\ mapping' = mapping
    BY <1>2, Zenon DEF MapRule, UnmapRule
  <2>2. QED
    BY <2>1, <1>a, ReconcileElsewhere DEF Controller
<1>3. CASE AddFinalizer \/ EndMapping \/ RemoveFinalizer \/ RestartCore
  BY <1>3, <1>i, Zenon DEF AddFinalizer, EndMapping, RemoveFinalizer, RestartCore, Requeue
<1>4. ASSUME NEW m \in Mappings, StartReconcile(m) PROVE MapsRules' /\ RemovesDeleted'
  <2>1. mapping' = mapping
    BY <1>4 DEF StartReconcile
  <2>2. CASE controller'.pc = "map"
    <3>1. controller'.todo = Rules(mapping[m].rules) /\ controller'.rules = mapping[m].rules
      BY <1>4, <2>2 DEF StartReconcile, Idle
    <3>2. QED
      BY <2>2, <3>1 DEF MapsRules, RemovesDeleted, Rules
  <2>3. CASE controller'.pc = "remove"
    <3>1. /\ controller'.on = m /\ mapping[m].deleting
          /\ controller'.todo = Rules(mapping[m].rules) /\ controller'.rules = mapping[m].rules
      BY <1>4, <2>3 DEF StartReconcile, Idle
    <3>2. QED
      BY <2>1, <2>3, <3>1 DEF MapsRules, RemovesDeleted, Rules
  <2>4. QED
    BY <2>2, <2>3 DEF MapsRules, RemovesDeleted
<1>5. ASSUME NEW m \in Mappings, CreateMapping(m) PROVE MapsRules' /\ RemovesDeleted'
  <2>1. PICK new : WriteMapping(m, new)
    BY <1>5 DEF CreateMapping
  <2>2. ~mapping[m].deleting
    BY <1>5 DEF CreateMapping, DeletingExists
  <2>3. QED
    BY <2>1, <2>2, ReconcileWrite
<1>6. ASSUME NEW m \in Mappings, DeleteMapping(m) PROVE MapsRules' /\ RemovesDeleted'
  BY <1>6, ReconcileWrite DEF DeleteMapping
<1>7. ASSUME NEW m \in Mappings, NEW k \in Clusters, NEW n \in Namespaces \cup {None},
             EditRule(m, k, n)
      PROVE  MapsRules' /\ RemovesDeleted'
  BY <1>7, ReconcileWrite DEF EditRule
<1>8. QED
  BY <1>1, <1>2, <1>3, <1>4, <1>5, <1>6, <1>7, Zenon
     DEF Next, ControllerNext, Environment, WriteForeign, WatchNamespace, Retry, Resync, vars

LEMMA DeletingStep == TypeOK /\ DeletingExists /\ [Next]_vars => DeletingExists'
<1> SUFFICES ASSUME TypeOK, DeletingExists, [Next]_vars PROVE DeletingExists'
  OBVIOUS
<1>a. mapping \in [Mappings -> Mapping] /\ controller \in Controller
  BY DEF TypeOK
<1>1. CASE UNCHANGED mapping
  BY <1>1 DEF DeletingExists
<1>2. CASE AddFinalizer \/ RemoveFinalizer
  BY <1>2, <1>a DEF AddFinalizer, RemoveFinalizer, DeletingExists, Mapping, NoMapping, Controller
<1>3. ASSUME NEW m \in Mappings,
             CreateMapping(m) \/ DeleteMapping(m)
             \/ \E k \in Clusters, n \in Namespaces \cup {None} : EditRule(m, k, n)
      PROVE  DeletingExists'
  <2>1. PICK new : WriteMapping(m, new) /\ (new.deleting => new.exists)
    <3>1. CASE CreateMapping(m)
      <4>1. PICK r \in Labels : WriteMapping(m, Created(r))
        BY <3>1 DEF CreateMapping
      <4>2. ~Created(r).deleting
        BY DEF Created, NoMapping
      <4>3. QED
        BY <4>1, <4>2, Zenon
    <3>2. CASE DeleteMapping(m)
      BY <3>2, <1>a DEF DeleteMapping, NoMapping, Mapping
    <3>3. ASSUME NEW k \in Clusters, NEW n \in Namespaces \cup {None}, EditRule(m, k, n)
          PROVE  \E new : WriteMapping(m, new) /\ (new.deleting => new.exists)
      BY <3>3, <1>a DEF EditRule, Mapping
    <3>4. QED
      BY <1>3, <3>1, <3>2, <3>3
  <2>2. QED
    BY <2>1, <1>a DEF WriteMapping, DeletingExists
<1>4. QED
  BY <1>1, <1>2, <1>3, Zenon
     DEF Next, ControllerNext, Environment, WriteForeign, WatchNamespace, Retry, Resync, vars,
         EndMapping, MapRule, UnmapRule, RestartCore, StartReconcile

-----------------------------------------------------------------------------
(* The theorems *)

LEMMA InvInit == Init => IInv
<1> SUFFICES ASSUME Init PROVE IInv
  OBVIOUS
<1>1. CacheTrue
  BY DEF Init, CacheTrue
<1>2. MapsRules /\ RemovesDeleted
  <2>1. controller.pc = "idle"
    BY DEF Init, Idle
  <2>2. QED
    BY <2>1 DEF MapsRules, RemovesDeleted
<1>3. DeletingExists
  <2>1. \A m \in Mappings : mapping[m] \in {NoMapping} \cup {Created(r) : r \in Labels}
    BY InitialAssumption DEF Init
  <2>2. ~NoMapping.deleting /\ \A r : ~Created(r).deleting
    BY DEF Created, NoMapping
  <2>3. QED
    BY <2>1, <2>2 DEF DeletingExists
<1>4. QED
  BY <1>1, <1>2, <1>3, TypeInit DEF IInv

LEMMA InvStep == IInv /\ [Next]_vars => IInv'
BY TypeStep, DeletingStep, CacheStep, ReconcileStep DEF IInv

\* The invariant holds in every behaviour.
THEOREM Invariance == Spec => []IInv
BY InvInit, InvStep, PTL DEF Spec

\* What others have written to the namespace stays, whatever the controller
\* writes from its cache (namespace_mapping_controller.go:108-144).
THEOREM ForeignKept == Spec => ForeignLabelsKept
<1>1. IInv /\ [Next]_vars => [ControllerNext => foreign' = foreign]_vars
  <2> SUFFICES ASSUME IInv, ControllerNext PROVE foreign' = foreign
    OBVIOUS
  <2>1. ASSUME NEW k \in Clusters, MapRule(k) \/ UnmapRule(k) PROVE foreign' = foreign
    <3>1. PICK new : UpdateNamespace(new)
      BY <2>1, Zenon DEF MapRule, UnmapRule
    <3>2. QED
      BY <3>1 DEF UpdateNamespace, IInv, CacheTrue
  <2>2. CASE AddFinalizer \/ EndMapping \/ RemoveFinalizer
    BY <2>2, Zenon DEF AddFinalizer, EndMapping, RemoveFinalizer
  <2>3. QED
    BY <2>1, <2>2 DEF ControllerNext
<1>2. QED
  BY <1>1, Invariance, PTL DEF Spec, ForeignLabelsKept

\* Only the Reconcile of a mapping that is still being deleted takes a label away,
\* of a cluster it has a rule for, and no other label with it
\* (namespace_mapping_controller.go:115-141).
THEOREM LabelsStay == Spec => LabelsKept
<1> DEFINE Gone(k)  == labels[k] # None /\ labels'[k] = None
           Cause(k) == Removing(k) /\ \A other \in Clusters \ {k} : labels'[other] = labels[other]
<1>1. IInv /\ [Next]_vars => [\A k \in Clusters : Gone(k) => Cause(k)]_vars
  <2> SUFFICES ASSUME IInv, Next, NEW k \in Clusters, Gone(k) PROVE Cause(k)
    OBVIOUS
  <2>a. cache \in Cache /\ labels \in Labels /\ controller \in Controller
    BY DEF IInv, TypeOK
  <2>1. PICK j \in Clusters : MapRule(j) \/ UnmapRule(j)
    BY Zenon DEF Next, ControllerNext, Environment, WriteForeign, WatchNamespace, Retry, Resync,
           AddFinalizer, EndMapping, RemoveFinalizer, RestartCore, StartReconcile,
           CreateMapping, DeleteMapping, EditRule, WriteMapping
  <2>2. PICK n : /\ UpdateNamespace([cache.labels EXCEPT ![j] = n])
                 /\ MapRule(j) => n = controller.rules[j]
                 /\ UnmapRule(j) => n = None
    BY <2>1 DEF MapRule, UnmapRule
  <2>3. cache.current /\ labels' = [labels EXCEPT ![j] = n]
    BY <2>2 DEF UpdateNamespace, IInv, CacheTrue
  <2>4. j = k /\ n = None
    BY <2>3, <2>a DEF Labels
  <2>5. ~MapRule(j)
    BY <2>2, <2>4 DEF MapRule, IInv, MapsRules
  <2>6. UnmapRule(k)
    BY <2>1, <2>4, <2>5
  <2>7. Removing(k)
    BY <2>6 DEF UnmapRule, IInv, RemovesDeleted, Removing
  <2>8. QED
    BY <2>3, <2>4, <2>7, <2>a DEF Labels
<1>2. QED
  BY <1>1, Invariance, PTL DEF Spec, LabelsKept
=============================================================================
