------------------------ MODULE ClusterLifecycleProofs -------------------------
(***************************************************************************)
(* Proofs about ClusterLifecycle, for any resources and number of faults:  *)
(* the types, and where a Reconcile that goes on after a deletion stands.  *)
(***************************************************************************)
EXTENDS ClusterLifecycle, TLAPS

USE LifecycleAssumption DEF LifecycleAssumption

-----------------------------------------------------------------------------
(* Lemmas about the records *)

LEMMA ClusterField ==
  ASSUME NEW c \in Cluster
  PROVE  /\ [c EXCEPT !.finalizer = TRUE] \in Cluster
         /\ [c EXCEPT !.deleting = TRUE] \in Cluster
         /\ [c EXCEPT !.given = FALSE] \in Cluster
         /\ \A x \in {"none", "initializing", "online", "offline"} :
              [c EXCEPT !.status = x] \in Cluster
BY DEF Cluster

LEMMA NewCluster ==
  /\ NoCluster \in Cluster
  /\ [NoCluster EXCEPT !.exists = TRUE] \in Cluster
  /\ \A auto \in BOOLEAN : Created(auto) \in Cluster
BY DEF Cluster, NoCluster, Created

LEMMA ControllerField ==
  ASSUME NEW c \in Controller
  PROVE  /\ \A x \in {"idle", "finalizer", "delete", "release", "initialize", "inputs",
                      "local", "config", "deploy", "namespace"} : [c EXCEPT !.pc = x] \in Controller
         /\ \A x \in Cluster : [c EXCEPT !.copy = x] \in Controller
         /\ \A x \in BOOLEAN : [c EXCEPT !.fresh = x] \in Controller
         /\ \A x \in SUBSET Resources : [c EXCEPT !.todo = x] \in Controller
BY DEF Controller

LEMMA IdleType == Idle \in Controller
BY NewCluster DEF Idle, Controller

LEMMA AfterFinalizersType ==
  ASSUME NEW c
  PROVE  AfterFinalizers(c) \in {"initialize", "namespace"}
BY DEF AfterFinalizers

LEMMA FaultType ==
  ASSUME faults \in 0..MaxFaults, NEW kind, Fault(kind)
  PROVE  faults' \in 0..MaxFaults
BY DEF Fault

-----------------------------------------------------------------------------
(* Type correctness *)

LEMMA TypeInit == Init => TypeOK
<1> SUFFICES ASSUME Init PROVE TypeOK
  OBVIOUS
<1>1. cluster \in Cluster
  BY NewCluster DEF Init
<1>2. controller \in Controller
  BY IdleType DEF Init
<1>3. faults \in 0..MaxFaults
  BY DEF Init
<1> QED
  BY <1>1, <1>2, <1>3 DEF Init, TypeOK

LEMMA TypeStart == TypeOK /\ StartReconcile => TypeOK'
<1> SUFFICES ASSUME TypeOK, StartReconcile PROVE TypeOK'
  OBVIOUS
<1>1. controller' \in Controller
  <2> DEFINE pc == IF cluster.deleting THEN "delete"
                   ELSE IF ~cluster.finalizer THEN "finalizer"
                   ELSE AfterFinalizers(cluster)
  <2>1. pc \in {"idle", "finalizer", "delete", "release", "initialize", "inputs",
                "local", "config", "deploy", "namespace"}
    BY AfterFinalizersType
  <2>2. [pc |-> pc, copy |-> cluster, fresh |-> TRUE, todo |-> {}] \in Controller
    BY <2>1 DEF TypeOK, Controller
  <2> QED
    BY <2>2, IdleType DEF StartReconcile
<1> QED
  BY <1>1 DEF StartReconcile, TypeOK

\* The steps of a Reconcile that write the object.
LEMMA TypeWrite == TypeOK /\ (AddFinalizer \/ RemoveFinalizer \/ Initialize) => TypeOK'
<1> SUFFICES ASSUME TypeOK, AddFinalizer \/ RemoveFinalizer \/ Initialize PROVE TypeOK'
  OBVIOUS
<1>1. cluster \in Cluster /\ controller \in Controller /\ faults \in 0..MaxFaults
  BY DEF TypeOK
<1>2. cluster' \in Cluster
  <2>1. \/ cluster' = cluster \/ cluster' = NoCluster
        \/ cluster' = [cluster EXCEPT !.finalizer = TRUE]
        \/ cluster' = [cluster EXCEPT !.status = "initializing"]
    BY DEF AddFinalizer, RemoveFinalizer, Initialize
  <2> QED
    BY <1>1, <2>1, ClusterField, NewCluster
<1>3. controller' \in Controller
  <2>1. controller.copy \in Cluster
    BY <1>1 DEF Controller
  <2>2. CASE controller' = Idle
    BY <2>2, IdleType
  <2>3. CASE controller' = [controller EXCEPT !.pc = AfterFinalizers(cluster), !.copy.finalizer = TRUE]
    <3>1. [controller.copy EXCEPT !.finalizer = TRUE] \in Cluster
      BY <2>1, ClusterField
    <3>2. AfterFinalizers(cluster) \in {"initialize", "namespace"}
      BY AfterFinalizersType
    <3> QED
      BY <1>1, <2>3, <3>1, <3>2 DEF Controller
  <2>4. CASE controller' = [controller EXCEPT !.pc = AfterFinalizers(controller.copy), !.fresh = FALSE]
    <3>1. AfterFinalizers(controller.copy) \in {"initialize", "namespace"}
      BY AfterFinalizersType
    <3> QED
      BY <1>1, <2>4, <3>1 DEF Controller
  <2>5. CASE controller' = [controller EXCEPT !.pc = "inputs", !.copy.status = "initializing"]
    <3>1. [controller.copy EXCEPT !.status = "initializing"] \in Cluster
      BY <2>1, ClusterField
    <3> QED
      BY <1>1, <2>5, <3>1 DEF Controller
  <2> QED
    BY <2>2, <2>3, <2>4, <2>5 DEF AddFinalizer, RemoveFinalizer, Initialize, Requeue
<1>4. faults' \in 0..MaxFaults
  BY <1>1, FaultType DEF AddFinalizer, RemoveFinalizer, Initialize, Refused
<1>5. queue' \in BOOLEAN /\ retry' \in BOOLEAN
  BY DEF AddFinalizer, RemoveFinalizer, Initialize, Requeue, TypeOK
<1>6. UNCHANGED <<namespace, local, target, inputs>>
  BY DEF AddFinalizer, RemoveFinalizer, Initialize
<1> QED
  BY <1>2, <1>3, <1>4, <1>5, <1>6 DEF TypeOK

\* The steps that create something or delete the namespace.
LEMMA TypeCreate ==
  ASSUME TypeOK,
         \/ DeleteNamespace \/ ReadInputs \/ CreateLocal \/ CreateNamespace
         \/ \E r \in Resources : Deploy(r)
  PROVE  TypeOK'
<1>1. controller \in Controller /\ faults \in 0..MaxFaults
  BY DEF TypeOK
<1>2. CASE DeleteNamespace
  <2>1. controller' \in Controller
    BY <1>1, <1>2, ControllerField, IdleType DEF DeleteNamespace, Goto, Requeue
  <2>2. faults' \in 0..MaxFaults
    BY <1>1, <1>2, FaultType DEF DeleteNamespace
  <2> QED
    BY <1>2, <2>1, <2>2 DEF DeleteNamespace, Requeue, TypeOK
<1>3. CASE ReadInputs
  <2>1. controller' \in Controller
    BY <1>1, <1>3, ControllerField, IdleType DEF ReadInputs, Goto, Requeue
  <2>2. faults' \in 0..MaxFaults
    BY <1>1, <1>3, FaultType DEF ReadInputs
  <2> QED
    BY <1>3, <2>1, <2>2 DEF ReadInputs, Requeue, TypeOK
<1>4. CASE CreateLocal
  <2>1. controller' \in Controller
    <3>1. [controller EXCEPT !.pc = "deploy", !.todo = Resources] \in Controller
      BY <1>1 DEF Controller
    <3> QED
      BY <1>1, <1>4, <3>1, ControllerField, IdleType DEF CreateLocal, Requeue
  <2>2. faults' \in 0..MaxFaults
    BY <1>1, <1>4, FaultType DEF CreateLocal
  <2> QED
    BY <1>4, <2>1, <2>2 DEF CreateLocal, Requeue, TypeOK
<1>5. CASE CreateNamespace
  <2>1. controller' \in Controller
    BY <1>5, IdleType DEF CreateNamespace, Requeue
  <2>2. faults' \in 0..MaxFaults
    BY <1>1, <1>5, FaultType DEF CreateNamespace
  <2> QED
    BY <1>5, <2>1, <2>2 DEF CreateNamespace, Requeue, TypeOK
<1>6. ASSUME NEW r \in Resources, Deploy(r) PROVE TypeOK'
  <2>1. controller' \in Controller
    <3>1. ASSUME Deployed(r) PROVE controller' \in Controller
      BY <1>1, <3>1 DEF Deployed, Controller
    <3> QED
      BY <1>6, <3>1, IdleType DEF Deploy, Requeue
  <2>2. faults' \in 0..MaxFaults
    BY <1>1, <1>6, FaultType DEF Deploy
  <2> QED
    BY <1>6, <2>1, <2>2 DEF Deploy, Requeue, TypeOK
<1> QED
  BY <1>2, <1>3, <1>4, <1>5, <1>6

\* Others write the object or change the environment.
LEMMA TypeOthers == TypeOK /\ OthersNext => TypeOK'
<1> SUFFICES ASSUME TypeOK, OthersNext PROVE TypeOK'
  OBVIOUS
<1>1. cluster \in Cluster /\ controller \in Controller /\ faults \in 0..MaxFaults
  BY DEF TypeOK
<1>2. ASSUME NEW new \in Cluster, Write(new), faults' \in 0..MaxFaults,
             UNCHANGED <<namespace, local, target, inputs, retry>>
      PROVE  TypeOK'
  <2>1. controller' \in Controller
    BY <1>1, <1>2, IdleType, ControllerField DEF Write
  <2> QED
    BY <1>2, <2>1 DEF Write, TypeOK
<1>3. ASSUME NEW auto \in BOOLEAN, CreateCluster(auto) PROVE TypeOK'
  BY <1>1, <1>2, <1>3, FaultType, NewCluster DEF CreateCluster
<1>4. CASE DeleteCluster
  BY <1>1, <1>2, <1>4, FaultType, NewCluster, ClusterField DEF DeleteCluster
<1>5. CASE RegisterCluster
  BY <1>1, <1>2, <1>5, FaultType, NewCluster, ClusterField DEF RegisterCluster
<1>6. CASE ReportOnline
  BY <1>1, <1>2, <1>6, FaultType, ClusterField DEF ReportOnline
<1>7. CASE OfflineCluster
  BY <1>1, <1>2, <1>7, FaultType, ClusterField DEF OfflineCluster
<1>8. CASE ChangeInputs
  BY <1>1, <1>8, FaultType DEF ChangeInputs, TypeOK
<1>9. CASE RestartCore
  BY <1>1, <1>9, FaultType, IdleType DEF RestartCore, TypeOK
<1> QED
  BY <1>3, <1>4, <1>5, <1>6, <1>7, <1>8, <1>9 DEF OthersNext

LEMMA TypeNext == TypeOK /\ [Next]_vars => TypeOK'
<1> SUFFICES ASSUME TypeOK, [Next]_vars PROVE TypeOK'
  OBVIOUS
<1>1. CASE StartReconcile
  BY <1>1, TypeStart
<1>2. CASE ControllerNext
  BY <1>2, TypeWrite, TypeCreate DEF ControllerNext
<1>3. CASE Retry \/ Resync \/ NamespaceGone
  BY <1>3 DEF Retry, Resync, NamespaceGone, TypeOK
<1>4. CASE OthersNext
  BY <1>4, TypeOthers
<1>5. CASE UNCHANGED vars
  BY <1>5 DEF vars, TypeOK
<1> QED
  BY <1>1, <1>2, <1>3, <1>4, <1>5 DEF Next

-----------------------------------------------------------------------------
(* Theorems *)

\* The variables keep their types, for any resources and number of faults.
THEOREM TypeCorrect == Spec => []TypeOK
<1>1. TypeOK /\ [Next]_vars => TypeOK'
  BY TypeNext
<1> QED
  BY <1>1, TypeInit, PTL DEF Spec

\* An object is only marked for deletion if it has the finalizer, and a
\* Reconcile that takes it apart has one before it that is marked.
DeletesMarked ==
  /\ cluster.deleting => cluster.exists /\ cluster.finalizer
  /\ controller.pc \in {"delete", "release"} => cluster.deleting

IInv == TypeOK /\ DeletesMarked

\* New objects are not marked; a write of another field leaves the mark.
LEMMA Unmarked ==
  /\ ~NoCluster.deleting
  /\ ~[NoCluster EXCEPT !.exists = TRUE].deleting
  /\ ~Created(TRUE).deleting
  /\ ~Created(FALSE).deleting
BY DEF NoCluster, Created

LEMMA SameMark ==
  ASSUME NEW c \in Cluster, NEW d,
         \/ d = c
         \/ d = [c EXCEPT !.given = FALSE]
         \/ d = [c EXCEPT !.status = "initializing"]
         \/ d = [c EXCEPT !.status = "online"]
         \/ d = [c EXCEPT !.status = "offline"]
  PROVE  d.deleting = c.deleting /\ d.exists = c.exists /\ d.finalizer = c.finalizer
BY DEF Cluster

\* The places to which a Reconcile goes on.
LEMMA GoesOn ==
  ASSUME NEW c \in Controller, NEW x \in {"initialize", "namespace"}, NEW d,
         \/ d = Idle
         \/ d = [c EXCEPT !.pc = x, !.copy.finalizer = TRUE]
         \/ d = [c EXCEPT !.pc = x, !.fresh = FALSE]
         \/ d = [c EXCEPT !.pc = "inputs", !.copy.status = "initializing"]
         \/ d = [c EXCEPT !.pc = "local"]
         \/ d = [c EXCEPT !.pc = "config"]
         \/ d = [c EXCEPT !.pc = "deploy", !.todo = Resources]
  PROVE  d.pc \notin {"delete", "release"}
<1>1. CASE d = Idle
  BY <1>1 DEF Idle
<1>2. CASE d = [c EXCEPT !.pc = x, !.copy.finalizer = TRUE] \/ d = [c EXCEPT !.pc = x, !.fresh = FALSE]
  <2>1. d.pc = x
    BY <1>2 DEF Controller
  <2> QED
    BY <2>1
<1>3. CASE d = [c EXCEPT !.pc = "inputs", !.copy.status = "initializing"]
  BY <1>3 DEF Controller
<1>4. CASE d = [c EXCEPT !.pc = "local"]
  BY <1>4 DEF Controller
<1>5. CASE d = [c EXCEPT !.pc = "config"]
  BY <1>5 DEF Controller
<1>6. CASE d = [c EXCEPT !.pc = "deploy", !.todo = Resources]
  BY <1>6 DEF Controller
<1> QED
  BY <1>1, <1>2, <1>3, <1>4, <1>5, <1>6

\* A write by others keeps the mark, as nobody else removes the finalizer.
LEMMA MarkWrite ==
  ASSUME IInv, NEW new, Write(new),
         new.deleting => new.exists /\ new.finalizer,
         cluster.deleting => new.deleting
  PROVE  DeletesMarked'
<1>1. controller'.pc = controller.pc
  <2>1. controller \in Controller /\ controller' \in {Idle, [controller EXCEPT !.fresh = FALSE]}
    BY DEF Write, IInv, TypeOK
  <2>2. controller' = Idle => controller.pc = "idle"
    BY <2>1 DEF Write, Controller, Idle
  <2> QED
    BY <2>1, <2>2 DEF Controller, Idle
<1> QED
  BY <1>1 DEF Write, IInv, DeletesMarked

LEMMA MarkOthers == IInv /\ OthersNext => DeletesMarked'
<1> SUFFICES ASSUME IInv, OthersNext PROVE DeletesMarked'
  OBVIOUS
<1>1. cluster \in Cluster /\ controller \in Controller /\ DeletesMarked
  BY DEF IInv, TypeOK
<1>2. CASE RestartCore
  <2>1. controller'.pc = "idle" /\ cluster' = cluster
    BY <1>2 DEF RestartCore, Idle
  <2> QED
    BY <1>1, <2>1 DEF DeletesMarked
<1>3. CASE ChangeInputs
  BY <1>1, <1>3 DEF ChangeInputs, DeletesMarked
<1>4. ASSUME NEW new, Write(new), new.deleting = cluster.deleting,
             new.exists = cluster.exists, new.finalizer = cluster.finalizer
      PROVE  DeletesMarked'
  BY <1>1, <1>4, MarkWrite DEF DeletesMarked
<1>5. ASSUME NEW new, Write(new), ~cluster.exists, ~new.deleting PROVE DeletesMarked'
  BY <1>1, <1>5, MarkWrite DEF DeletesMarked
<1>6. ASSUME NEW auto \in BOOLEAN, CreateCluster(auto) PROVE DeletesMarked'
  <2>1. ~cluster.exists /\ Write(Created(auto)) /\ ~Created(auto).deleting
    BY <1>6, Unmarked DEF CreateCluster
  <2> QED
    BY <1>5, <2>1
<1>7. CASE DeleteCluster
  <2>1. CASE cluster.finalizer
    <3> DEFINE new == [cluster EXCEPT !.deleting = TRUE]
    <3>1. Write(new) /\ cluster.exists
      BY <1>7, <2>1 DEF DeleteCluster
    <3>2. new.deleting /\ new.exists = cluster.exists /\ new.finalizer = cluster.finalizer
      BY <1>1 DEF Cluster
    <3> HIDE DEF new
    <3> QED
      BY <2>1, <3>1, <3>2, MarkWrite
  <2>2. CASE ~cluster.finalizer
    <3>1. Write(NoCluster) /\ ~cluster.deleting
      BY <1>7, <2>2 DEF DeleteCluster
    <3> QED
      BY <3>1, Unmarked, MarkWrite
  <2> QED
    BY <2>1, <2>2
<1>8. CASE RegisterCluster
  <2>1. CASE cluster.exists
    <3> DEFINE new == [cluster EXCEPT !.given = FALSE]
    <3>1. Write(new)
      BY <1>8, <2>1 DEF RegisterCluster
    <3>2. /\ new.deleting = cluster.deleting /\ new.exists = cluster.exists
          /\ new.finalizer = cluster.finalizer
      BY <1>1, SameMark, Zenon
    <3> HIDE DEF new
    <3> QED
      BY <1>4, <3>1, <3>2
  <2>2. CASE ~cluster.exists
    <3> DEFINE new == [NoCluster EXCEPT !.exists = TRUE]
    <3>1. Write(new) /\ ~new.deleting
      BY <1>8, <2>2, Unmarked DEF RegisterCluster
    <3> HIDE DEF new
    <3> QED
      BY <1>5, <2>2, <3>1
  <2> QED
    BY <2>1, <2>2
<1>9. CASE ReportOnline
  <2> DEFINE new == [cluster EXCEPT !.status = "online"]
  <2>1. Write(new)
    BY <1>9 DEF ReportOnline
  <2>2. /\ new.deleting = cluster.deleting /\ new.exists = cluster.exists
        /\ new.finalizer = cluster.finalizer
    BY <1>1, SameMark, Zenon
  <2> HIDE DEF new
  <2> QED
    BY <1>4, <2>1, <2>2
<1>10. CASE OfflineCluster
  <2> DEFINE new == [cluster EXCEPT !.status = "offline"]
  <2>1. Write(new)
    BY <1>10 DEF OfflineCluster
  <2>2. /\ new.deleting = cluster.deleting /\ new.exists = cluster.exists
        /\ new.finalizer = cluster.finalizer
    BY <1>1, SameMark, Zenon
  <2> HIDE DEF new
  <2> QED
    BY <1>4, <2>1, <2>2
<1> QED
  BY <1>2, <1>3, <1>6, <1>7, <1>8, <1>9, <1>10 DEF OthersNext

LEMMA MarkNext == IInv /\ [Next]_vars => DeletesMarked'
<1> SUFFICES ASSUME IInv, [Next]_vars PROVE DeletesMarked'
  OBVIOUS
<1>1. cluster \in Cluster /\ controller \in Controller /\ DeletesMarked
  BY DEF IInv, TypeOK
<1>2. ASSUME cluster'.deleting = cluster.deleting, cluster'.exists = cluster.exists,
             cluster.finalizer => cluster'.finalizer,
             controller'.pc \notin {"delete", "release"}
      PROVE  DeletesMarked'
  BY <1>1, <1>2 DEF DeletesMarked
<1>3. CASE StartReconcile
  <2>1. cluster' = cluster
    BY <1>3 DEF StartReconcile
  <2>2. AfterFinalizers(cluster) \notin {"delete", "release"}
    BY AfterFinalizersType
  <2>3. controller'.pc \in {"delete", "release"} => cluster.deleting
    BY <1>1, <1>3, <2>2 DEF StartReconcile, Idle
  <2> QED
    BY <1>1, <2>1, <2>3 DEF DeletesMarked
<1>4. CASE AddFinalizer
  <2>1. \/ controller' = Idle
        \/ controller' = [controller EXCEPT !.pc = AfterFinalizers(cluster), !.copy.finalizer = TRUE]
    BY <1>4 DEF AddFinalizer, Requeue
  <2>2. controller'.pc \notin {"delete", "release"}
    BY <1>1, <2>1, AfterFinalizersType, GoesOn, Zenon
  <2>3. cluster' = cluster \/ cluster' = [cluster EXCEPT !.finalizer = TRUE]
    BY <1>4 DEF AddFinalizer
  <2>4. /\ cluster'.deleting = cluster.deleting /\ cluster'.exists = cluster.exists
        /\ cluster.finalizer => cluster'.finalizer
    BY <1>1, <2>3 DEF Cluster
  <2> QED
    BY <1>2, <2>2, <2>4
<1>5. CASE DeleteNamespace
  <2>1. cluster' = cluster /\ cluster.deleting
    BY <1>1, <1>5 DEF DeleteNamespace, DeletesMarked
  <2> QED
    BY <1>1, <2>1 DEF DeletesMarked
<1>6. CASE RemoveFinalizer
  <2>1. \/ controller' = Idle
        \/ controller' = [controller EXCEPT !.pc = AfterFinalizers(controller.copy), !.fresh = FALSE]
    BY <1>6 DEF RemoveFinalizer, Requeue
  <2>2. controller'.pc \notin {"delete", "release"}
    BY <1>1, <2>1, AfterFinalizersType, GoesOn, Zenon
  <2>3. cluster' = cluster \/ cluster' = NoCluster
    BY <1>6 DEF RemoveFinalizer
  <2> QED
    BY <1>1, <2>2, <2>3, Unmarked DEF DeletesMarked
<1>7. CASE Initialize
  <2>1. \/ controller' = Idle
        \/ controller' = [controller EXCEPT !.pc = "inputs", !.copy.status = "initializing"]
    BY <1>7 DEF Initialize, Requeue
  <2>2. "initialize" \in {"initialize", "namespace"}
    OBVIOUS
  <2>3. controller'.pc \notin {"delete", "release"}
    BY <1>1, <2>1, <2>2, GoesOn, Zenon
  <2>4. cluster' = cluster \/ cluster' = [cluster EXCEPT !.status = "initializing"]
    BY <1>7 DEF Initialize
  <2>5. /\ cluster'.deleting = cluster.deleting /\ cluster'.exists = cluster.exists
        /\ cluster'.finalizer = cluster.finalizer
    BY <1>1, <2>4, SameMark, Zenon
  <2> QED
    BY <1>2, <2>3, <2>5
<1>8. CASE ReadInputs \/ CreateLocal \/ CreateNamespace
  <2>1. \/ controller' = Idle
        \/ controller' = [controller EXCEPT !.pc = "local"]
        \/ controller' = [controller EXCEPT !.pc = "config"]
        \/ controller' = [controller EXCEPT !.pc = "deploy", !.todo = Resources]
    BY <1>8 DEF ReadInputs, CreateLocal, CreateNamespace, Goto, Requeue
  <2>2. "initialize" \in {"initialize", "namespace"}
    OBVIOUS
  <2>3. controller'.pc \notin {"delete", "release"}
    BY <1>1, <2>1, <2>2, GoesOn, Zenon
  <2>4. cluster' = cluster
    BY <1>8 DEF ReadInputs, CreateLocal, CreateNamespace
  <2> QED
    BY <1>2, <2>3, <2>4
<1>9. ASSUME NEW r \in Resources, Deploy(r) PROVE DeletesMarked'
  <2>1. Deployed(r) => controller'.pc \in {"namespace", controller.pc}
    BY <1>1 DEF Deployed, Controller
  <2>2. controller.pc = "deploy" /\ (controller' = Idle \/ Deployed(r))
    BY <1>9 DEF Deploy, Requeue
  <2>3. Idle.pc = "idle"
    BY DEF Idle
  <2>4. controller'.pc \notin {"delete", "release"}
    BY <2>1, <2>2, <2>3
  <2>5. cluster' = cluster
    BY <1>9 DEF Deploy
  <2> QED
    BY <1>2, <2>4, <2>5
<1>10. CASE OthersNext
  BY <1>10, MarkOthers
<1>11. CASE Retry \/ Resync \/ NamespaceGone \/ UNCHANGED vars
  BY <1>1, <1>11 DEF Retry, Resync, NamespaceGone, vars, DeletesMarked
<1> QED
  BY <1>3, <1>4, <1>5, <1>6, <1>7, <1>8, <1>9, <1>10, <1>11 DEF Next, ControllerNext

\* A Reconcile that deletes the namespace or the finalizer has a marked object
\* before it, though it decided so on a copy (cluster_controller.go:60-66).
THEOREM Invariance == Spec => []IInv
<1>1. Init => IInv
  <2> SUFFICES ASSUME Init PROVE IInv
    OBVIOUS
  <2>1. TypeOK
    BY TypeInit
  <2>2. ~cluster.deleting /\ controller.pc = "idle"
    BY Unmarked DEF Init, Idle
  <2> QED
    BY <2>1, <2>2 DEF IInv, DeletesMarked
<1>2. IInv /\ [Next]_vars => IInv'
  BY TypeNext, MarkNext DEF IInv
<1> QED
  BY <1>1, <1>2, PTL DEF Spec

\* A cluster loses its namespace only while it is being deleted: neither a
\* restart nor a new cluster of the name lets an old Reconcile delete it.
THEOREM HomeKept ==
  Spec => [][namespace = "active" /\ namespace' # "active" => cluster.deleting]_vars
<1>1. IInv /\ [Next]_vars =>
        [namespace = "active" /\ namespace' # "active" => cluster.deleting]_vars
  <2> SUFFICES ASSUME IInv, Next, namespace = "active", namespace' # "active"
               PROVE  cluster.deleting
    OBVIOUS
  <2>1. controller.pc = "delete"
    BY DEF Next, ControllerNext, OthersNext, StartReconcile, AddFinalizer, DeleteNamespace,
           RemoveFinalizer, Initialize, ReadInputs, CreateLocal, Deploy, CreateNamespace, Retry,
           Resync, NamespaceGone, CreateCluster, DeleteCluster, RegisterCluster, ReportOnline,
           OfflineCluster, ChangeInputs, RestartCore
  <2> QED
    BY <2>1 DEF IInv, DeletesMarked
<1> QED
  BY <1>1, Invariance, PTL DEF Spec

=============================================================================
