--------------------------- MODULE ClusterLifecycle ----------------------------
(***************************************************************************)
(* The cluster controller: one Cluster object, its namespace in the        *)
(* control plane and the resources of the proxy it deploys to the member   *)
(* cluster.                                                                *)
(*                                                                         *)
(* A Reconcile is a straight line with no branch for the deleted object:   *)
(* having removed the finalizer it goes on to deploy the proxy and to      *)
(* create the namespace.  An error ends it and it starts over later, so    *)
(* that each step has to bear that its effect is there already.            *)
(*                                                                         *)
(* The controller's copy is `fresh' while nobody has written the object.   *)
(***************************************************************************)
EXTENDS Naturals, FiniteSets

CONSTANTS
  Resources,   \* what the CUE template renders for the member cluster
  Home,        \* the Namespace among them
  Namespaced,  \* those that live in it
  FaultKinds,  \* which faults may happen
  MaxFaults    \* bound: how many faults happen in a behaviour

AllFaults == {"create", "delete", "inputs", "api", "proxy", "late", "restart"}

ASSUME LifecycleAssumption ==
  /\ Home \in Resources
  /\ Namespaced \subseteq Resources \ {Home}
  /\ FaultKinds \subseteq AllFaults
  /\ MaxFaults \in Nat

VARIABLES
  cluster,     \* the Cluster object
  namespace,   \* the cluster's namespace in the control plane
  local,       \* what deployProxy creates in the control plane
  target,      \* what is in the member cluster
  inputs,      \* the secret, the template and the API server's address are good
  queue,       \* the cluster is in the work queue
  retry,       \* it is requeued after an error
  controller,  \* the Reconcile that runs
  faults       \* faults still to come

vars == <<cluster, namespace, local, target, inputs, queue, retry, controller, faults>>

-----------------------------------------------------------------------------
\* `auto' is the annotation that asks for a proxy; a registration replaces the
\* spec by an empty one.
Cluster    == [exists: BOOLEAN, deleting: BOOLEAN, finalizer: BOOLEAN, auto: BOOLEAN,
               given: BOOLEAN, status: {"none", "initializing", "online", "offline"}]
Controller == [pc: {"idle", "finalizer", "delete", "release", "initialize", "inputs",
                    "local", "config", "deploy", "namespace"},
               copy: Cluster, fresh: BOOLEAN, todo: SUBSET Resources]

TypeOK ==
  /\ cluster \in Cluster
  /\ namespace \in {"absent", "active", "terminating"}
  /\ local \subseteq {"namespace", "config"}
  /\ target \subseteq Resources
  /\ inputs \in BOOLEAN
  /\ queue \in BOOLEAN
  /\ retry \in BOOLEAN
  /\ controller \in Controller
  /\ faults \in 0..MaxFaults

NoCluster == [exists |-> FALSE, deleting |-> FALSE, finalizer |-> FALSE, auto |-> FALSE,
              given |-> FALSE, status |-> "none"]
Idle      == [pc |-> "idle", copy |-> NoCluster, fresh |-> FALSE, todo |-> {}]

\* The user's object: with a spec, and with the annotation or without it.
Created(auto) == [NoCluster EXCEPT !.exists = TRUE, !.given = TRUE, !.auto = auto]

Init ==
  /\ cluster \in {Created(auto) : auto \in BOOLEAN}
  /\ namespace = "absent"
  /\ local = {}
  /\ target = {}
  /\ inputs \in BOOLEAN
  /\ queue = TRUE
  /\ retry = FALSE
  /\ controller = Idle
  /\ faults = MaxFaults

-----------------------------------------------------------------------------
(* Helpers *)

Fault(kind) ==
  /\ kind \in FaultKinds
  /\ faults > 0
  /\ faults' = faults - 1

AtRest == ~queue /\ ~retry /\ controller.pc = "idle"

\* The condition of "auto deploy proxy".
WantsProxy(c) == c.auto /\ c.status \in {"none", "initializing"}

\* Faulty variant: the status "initializing" ends the deployment.
AfterFinalizersOnce(c) == IF c.auto /\ c.status = "none" THEN "initialize" ELSE "namespace"

\* What follows the finalizers in a Reconcile, for a deleted cluster as well.
AfterFinalizers(c) == IF WantsProxy(c) THEN "initialize" ELSE "namespace"

Goto(pc) == controller' = [controller EXCEPT !.pc = pc]

\* Result{Requeue: true} and the error.
Requeue ==
  /\ retry' = TRUE
  /\ controller' = Idle

\* The API server refuses a copy that is not fresh, and fails now and then.
Refused ==
  \/ ~controller.fresh /\ UNCHANGED faults
  \/ Fault("api")

\* Somebody else writes the object: an event, and the copy is no longer fresh.
Write(new) ==
  /\ cluster' = new
  /\ queue' = TRUE
  /\ controller' = IF controller.pc = "idle" THEN Idle ELSE [controller EXCEPT !.fresh = FALSE]

-----------------------------------------------------------------------------
(* Reconcile *)

StartReconcile ==
  /\ controller.pc = "idle" /\ queue
  /\ queue' = FALSE
  /\ controller' =
       IF ~cluster.exists THEN Idle
       ELSE [pc |-> IF cluster.deleting THEN "delete"
                    ELSE IF ~cluster.finalizer THEN "finalizer"
                    ELSE AfterFinalizers(cluster),
             copy |-> cluster, fresh |-> TRUE, todo |-> {}]
  /\ UNCHANGED <<cluster, namespace, local, target, inputs, retry, faults>>

\* The update leaves the last version in the copy.
AddFinalizer ==
  /\ controller.pc = "finalizer"
  /\ \/ /\ controller.fresh
        /\ cluster' = [cluster EXCEPT !.finalizer = TRUE]
        /\ controller' = [controller EXCEPT !.pc = AfterFinalizers(cluster),
                                            !.copy.finalizer = TRUE]
        /\ queue' = TRUE
        /\ UNCHANGED <<retry, faults>>
     \/ Refused /\ Requeue /\ UNCHANGED <<cluster, queue>>
  /\ UNCHANGED <<namespace, local, target, inputs>>

\* deleteCluster, first half: a namespace that is not there is no error.
DeleteNamespace ==
  /\ controller.pc = "delete"
  /\ \/ /\ namespace' = IF namespace = "active" THEN "terminating" ELSE namespace
        /\ Goto("release")
        /\ UNCHANGED <<retry, faults>>
     \/ Fault("api") /\ Requeue /\ UNCHANGED namespace
  /\ UNCHANGED <<cluster, local, target, inputs, queue>>

\* deleteCluster, second half: the object goes, the Reconcile goes on.
RemoveFinalizer ==
  /\ controller.pc = "release"
  /\ \/ /\ controller.fresh
        /\ cluster' = NoCluster
        /\ controller' = [controller EXCEPT !.pc = AfterFinalizers(controller.copy),
                                            !.fresh = FALSE]
        /\ queue' = TRUE
        /\ UNCHANGED <<retry, faults>>
     \/ Refused /\ Requeue /\ UNCHANGED <<cluster, queue>>
  /\ UNCHANGED <<namespace, local, target, inputs>>

\* The status becomes "initializing"; writing it again makes no event.
Initialize ==
  /\ controller.pc = "initialize"
  /\ \/ /\ controller.fresh
        /\ cluster' = [cluster EXCEPT !.status = "initializing"]
        /\ controller' = [controller EXCEPT !.pc = "inputs", !.copy.status = "initializing"]
        /\ queue' = (queue \/ cluster.status # "initializing")
        /\ UNCHANGED <<retry, faults>>
     \/ Refused /\ Requeue /\ UNCHANGED <<cluster, queue>>
  /\ UNCHANGED <<namespace, local, target, inputs>>

\* deployProxy reads all it needs before it creates anything: the secret, the
\* template, the configuration of the spec.
ReadInputs ==
  /\ controller.pc = "inputs"
  /\ \/ controller.copy.given /\ inputs /\ Goto("local") /\ UNCHANGED <<retry, faults>>
     \/ ~(controller.copy.given /\ inputs) /\ Requeue /\ UNCHANGED faults
     \/ Fault("api") /\ Requeue
  /\ UNCHANGED <<cluster, namespace, local, target, inputs, queue>>

\* The proxy's namespace and its addons ConfigMap, with the manager's client:
\* they are created in the control plane, unlike the other resources.
CreateLocal ==
  /\ controller.pc \in {"local", "config"}
  /\ \/ /\ local' = local \cup {IF controller.pc = "local" THEN "namespace" ELSE "config"}
        /\ controller' = IF controller.pc = "local" THEN [controller EXCEPT !.pc = "config"]
                         ELSE [controller EXCEPT !.pc = "deploy", !.todo = Resources]
        /\ UNCHANGED <<retry, faults>>
     \/ Fault("api") /\ Requeue /\ UNCHANGED local
  /\ UNCHANGED <<cluster, namespace, target, inputs, queue>>

\* The last resource ends deployProxy.
Deployed(r) ==
  controller' = [controller EXCEPT !.todo = @ \ {r},
                                   !.pc = IF controller.todo = {r} THEN "namespace" ELSE @]

\* Faulty variant: a resource that is there already is an error.
DeployStrict(r) ==
  /\ controller.pc = "deploy" /\ r \in controller.todo
  /\ \/ /\ r \notin target /\ (r \in Namespaced => Home \in target)
        /\ target' = target \cup {r}
        /\ Deployed(r)
        /\ UNCHANGED <<retry, faults>>
     \/ /\ r \in target \/ (r \in Namespaced /\ Home \notin target)
        /\ Requeue /\ UNCHANGED <<target, faults>>
     \/ Fault("api") /\ Requeue /\ UNCHANGED target
  /\ UNCHANGED <<cluster, namespace, local, inputs, queue>>

\* The resources come out of a map, in any order: one that lives in the
\* Namespace cannot be created before it.
Deploy(r) ==
  /\ controller.pc = "deploy" /\ r \in controller.todo
  /\ \/ /\ r \in target \/ (r \in Namespaced => Home \in target)
        /\ target' = target \cup {r}
        /\ Deployed(r)
        /\ UNCHANGED <<retry, faults>>
     \/ /\ r \in Namespaced /\ {r, Home} \cap target = {}
        /\ Requeue /\ UNCHANGED <<target, faults>>
     \/ Fault("api") /\ Requeue /\ UNCHANGED target
  /\ UNCHANGED <<cluster, namespace, local, inputs, queue>>

\* A namespace that terminates exists already, which is no error.
CreateNamespace ==
  /\ controller.pc = "namespace"
  /\ \/ /\ namespace' = IF namespace = "absent" THEN "active" ELSE namespace
        /\ controller' = Idle
        /\ UNCHANGED <<retry, faults>>
     \/ Fault("api") /\ Requeue /\ UNCHANGED namespace
  /\ UNCHANGED <<cluster, local, target, inputs, queue>>

\* The delay of a requeue is over.
Retry ==
  /\ retry
  /\ retry' = FALSE
  /\ queue' = TRUE
  /\ UNCHANGED <<cluster, namespace, local, target, inputs, controller, faults>>

\* SyncPeriod.
Resync ==
  /\ AtRest /\ cluster.exists
  /\ queue' = TRUE
  /\ UNCHANGED <<cluster, namespace, local, target, inputs, retry, controller, faults>>

-----------------------------------------------------------------------------
(* The other writers of the Cluster object *)

CreateCluster(auto) ==
  /\ ~cluster.exists /\ Fault("create")
  /\ Write(Created(auto))
  /\ UNCHANGED <<namespace, local, target, inputs, retry>>

DeleteCluster ==
  /\ cluster.exists /\ ~cluster.deleting /\ Fault("delete")
  /\ Write(IF cluster.finalizer THEN [cluster EXCEPT !.deleting = TRUE] ELSE NoCluster)
  /\ UNCHANGED <<namespace, local, target, inputs, retry>>

\* registerClusterInKube: the Cluster of a proxy nobody has announced, or an
\* empty spec for the one there is; the status is a write of its own.
RegisterCluster ==
  /\ Fault("proxy")
  /\ Write(IF cluster.exists THEN [cluster EXCEPT !.given = FALSE]
           ELSE [NoCluster EXCEPT !.exists = TRUE])
  /\ UNCHANGED <<namespace, local, target, inputs, retry>>

\* Faulty variant: the two fields Status and Healthy mixed up.
ReportHealthy ==
  /\ cluster.exists /\ Fault("proxy")
  /\ Write([cluster EXCEPT !.status = "healthy"])
  /\ UNCHANGED <<namespace, local, target, inputs, retry>>

\* The status of a registration or of a heartbeat.
ReportOnline ==
  /\ cluster.exists /\ Fault("proxy")
  /\ Write([cluster EXCEPT !.status = "online"])
  /\ UNCHANGED <<namespace, local, target, inputs, retry>>

\* The monitor.
OfflineCluster ==
  /\ cluster.exists /\ cluster.status = "online" /\ Fault("late")
  /\ Write([cluster EXCEPT !.status = "offline"])
  /\ UNCHANGED <<namespace, local, target, inputs, retry>>

-----------------------------------------------------------------------------
(* The environment *)

\* The namespace controller of Kubernetes has emptied the namespace.
NamespaceGone ==
  /\ namespace = "terminating"
  /\ namespace' = "absent"
  /\ UNCHANGED <<cluster, local, target, inputs, queue, retry, controller, faults>>

\* The secret, the template or the member cluster become good or bad.
ChangeInputs ==
  /\ Fault("inputs")
  /\ inputs' = ~inputs
  /\ UNCHANGED <<cluster, namespace, local, target, queue, retry, controller>>

RestartCore ==
  /\ Fault("restart")
  /\ controller' = Idle
  /\ queue' = TRUE
  /\ retry' = FALSE
  /\ UNCHANGED <<cluster, namespace, local, target, inputs>>

-----------------------------------------------------------------------------
ControllerNext ==
  \/ AddFinalizer
  \/ DeleteNamespace
  \/ RemoveFinalizer
  \/ Initialize
  \/ ReadInputs
  \/ CreateLocal
  \/ \E r \in Resources : Deploy(r)
  \/ CreateNamespace

OthersNext ==
  \/ \E auto \in BOOLEAN : CreateCluster(auto)
  \/ DeleteCluster
  \/ RegisterCluster
  \/ ReportOnline
  \/ OfflineCluster
  \/ ChangeInputs
  \/ RestartCore

Next ==
  \/ StartReconcile
  \/ ControllerNext
  \/ Retry
  \/ Resync
  \/ NamespaceGone
  \/ OthersNext

Spec == Init /\ [][Next]_vars

\* The controller's worker runs, requeues and SyncPeriod have timers, namespaces
\* terminate.  The order of a map is random: no resource comes last for ever.
Fairness ==
  /\ WF_vars(ControllerNext)
  /\ WF_vars(StartReconcile)
  /\ WF_vars(Retry)
  /\ WF_vars(Resync)
  /\ WF_vars(NamespaceGone)
  /\ \A r \in Resources : SF_vars(Deploy(r))

FairSpec == Spec /\ Fairness

-----------------------------------------------------------------------------
(* Properties *)

CanDeploy == cluster.given /\ inputs

\* A cluster that waits for its proxy gets all its resources, in whatever order
\* they come and wherever an error has stopped the attempts before
\* (cluster_controller.go:150-207).
EventuallyDeployed ==
  <>[](cluster.exists /\ ~cluster.deleting /\ WantsProxy(cluster) /\ CanDeploy)
  => <>[](target = Resources)

\* A cluster that stays ends up with its namespace in the control plane, even
\* when its predecessor's was still terminating as Reconcile met it: unless its
\* proxy cannot be deployed, an error that comes before the namespace.
EventuallyHome ==
  <>[](cluster.exists /\ ~cluster.deleting /\ (WantsProxy(cluster) => CanDeploy))
  => <>[](namespace = "active")

=============================================================================
