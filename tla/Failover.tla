------------------------------- MODULE Failover --------------------------------
(***************************************************************************)
(* What follows when a cluster falls silent: the monitor orders the        *)
(* policies that name it to be scheduled again and then sets it offline;   *)
(* the schedule-policy controller, woken by its own object only, looks at  *)
(* the clusters and moves the binding.                                     *)
(*                                                                         *)
(* Scheduler models how the clusters of a binding are chosen; here the     *)
(* choice is one step, and what matters is when it is made.  The two dates *)
(* in a policy's status have the granularity of a second, and a write that *)
(* changes nothing makes no event: `stamped' holds which of them carry the *)
(* current second.  A copy is `fresh' while nobody has written the object  *)
(* it was read from.                                                       *)
(***************************************************************************)
EXTENDS Naturals, FiniteSets, Sequences

CONSTANTS
  Clusters,
  Policies,   \* [name -> [entries, targets, spares]]
  FaultKinds, \* which faults may happen
  MaxFaults   \* bound: how many faults happen in a behaviour

\* `entries' tells whether Spec.Policy has entries, `targets' are the clusters
\* they name, or those of the cluster set; `spares' is the failover policy.
Policy == [entries: BOOLEAN, targets: SUBSET Clusters, spares: Seq(Clusters)]

AllFaults == {"die", "revive", "late", "second", "edit", "api", "restart"}

ASSUME FailoverAssumption ==
  /\ Clusters # {} /\ DOMAIN Policies # {}
  /\ \A p \in DOMAIN Policies : Policies[p] \in Policy
  /\ FaultKinds \subseteq AllFaults
  /\ MaxFaults \in Nat

VARIABLES
  cluster,     \* the proxy and the Cluster object of each cluster
  policy,      \* the MultiClusterResourceSchedulePolicy objects
  binding,     \* the clusters of the binding of each policy
  queue,       \* policies in the controller's work queue
  retry,       \* policies requeued after an error
  controller,  \* the Reconcile that runs
  monitor,     \* the goroutine of checkClusterStatus
  faults       \* faults still to come

vars == <<cluster, policy, binding, queue, retry, controller, monitor, faults>>

-----------------------------------------------------------------------------
Names == DOMAIN Policies
Dates == {"modify", "schedule"}

Cluster    == [alive: BOOLEAN, expired: BOOLEAN, status: {"online", "offline"}]
PolicyObj  == [reschedule: BOOLEAN, stamped: SUBSET Dates]
Controller == [pc: {"idle", "modify", "check", "bind", "finish"}, on: Names,
               reschedule: BOOLEAN, plan: SUBSET Clusters, fresh: BOOLEAN]
Monitor    == [pc: {"check", "policies", "order"}, on: Clusters,
               listed: SUBSET Clusters, old: SUBSET Clusters, fresh: SUBSET Clusters,
               policies: SUBSET Names, accepted: SUBSET Names]

TypeOK ==
  /\ cluster \in [Clusters -> Cluster]
  /\ policy \in [Names -> PolicyObj]
  /\ binding \in [Names -> SUBSET Clusters]
  /\ queue \subseteq Names
  /\ retry \subseteq Names
  /\ controller \in Controller
  /\ monitor \in Monitor
  /\ faults \in 0..MaxFaults

\* A Reconcile or a round of the monitor that has ended keeps nothing.
Idle    == [pc |-> "idle", on |-> CHOOSE p \in Names : TRUE, reschedule |-> FALSE,
            plan |-> {}, fresh |-> FALSE]
Resting == [pc |-> "check", on |-> CHOOSE c \in Clusters : TRUE, listed |-> {}, old |-> {},
            fresh |-> {}, policies |-> {}, accepted |-> {}]

\* The clusters are online; the policies have just been created.
Init ==
  /\ cluster = [c \in Clusters |-> [alive |-> TRUE, expired |-> FALSE, status |-> "online"]]
  /\ policy \in [Names -> [reschedule: BOOLEAN, stamped: {{}}]]
  /\ binding = [p \in Names |-> {}]
  /\ queue = Names
  /\ retry = {}
  /\ controller = Idle
  /\ monitor = Resting
  /\ faults = MaxFaults

-----------------------------------------------------------------------------
(* Helpers *)

Fault(kind) ==
  /\ kind \in FaultKinds
  /\ faults > 0
  /\ faults' = faults - 1

Online    == {c \in Clusters : cluster[c].status = "online"}
Active(p) == controller.pc # "idle" /\ controller.on = p
AtRest(p) == p \notin queue \cup retry /\ ~Active(p)

\* Where in the failover policy of p, up to its i-th cluster, one is online.
Usable(p, seen, i) == {j \in DOMAIN Policies[p].spares : j <= i /\ Policies[p].spares[j] \in seen}

\* checkClusters: more clusters are down than failover clusters are online.
Short(p, seen) ==
  Cardinality(Policies[p].targets \ seen) > Cardinality(Usable(p, seen, Len(Policies[p].spares)))

\* The clusters a scheduling that sees `seen' online puts in the binding: the
\* first of the failover clusters stand in for those that are down.
Placement(p, seen) ==
  LET chosen == {j \in Usable(p, seen, Len(Policies[p].spares)) :
                   Cardinality(Usable(p, seen, j)) <= Cardinality(Policies[p].targets \ seen)}
  IN  (Policies[p].targets \cap seen) \cup {Policies[p].spares[j] : j \in chosen}

\* Somebody else writes policy p: the Reconcile of p can no longer write.
StaleController(p) ==
  controller' = IF Active(p) THEN [controller EXCEPT !.fresh = FALSE] ELSE controller

-----------------------------------------------------------------------------
(* Clusters *)

\* Faulty variant: the status a heartbeat sets on a cluster that was silent.
HeartbeatInitializing(c) ==
  /\ cluster[c].alive
  /\ cluster' = [cluster EXCEPT ![c].expired = FALSE, ![c].status = "initializing"]
  /\ monitor' = [monitor EXCEPT !.fresh = @ \ {c}]
  /\ UNCHANGED <<policy, binding, queue, retry, controller, faults>>

\* updateClusterStatusWithHeartbeat.
Heartbeat(c) ==
  /\ cluster[c].alive
  /\ cluster[c] # [alive |-> TRUE, expired |-> FALSE, status |-> "online"] \/ c \in monitor.fresh
  /\ cluster' = [cluster EXCEPT ![c].expired = FALSE, ![c].status = "online"]
  /\ monitor' = [monitor EXCEPT !.fresh = @ \ {c}]
  /\ UNCHANGED <<policy, binding, queue, retry, controller, faults>>

\* OnlineExpirationTime has passed since the last heartbeat of c, the one a
\* list of the monitor holds included.  The proxy is dead, or late.
Expire(c) ==
  /\ ~cluster[c].expired
  /\ \/ ~cluster[c].alive /\ UNCHANGED faults
     \/ Fault("late")
  /\ cluster' = [cluster EXCEPT ![c].expired = TRUE]
  /\ monitor' = [monitor EXCEPT !.old = @ \cup ({c} \cap monitor.listed)]
  /\ UNCHANGED <<policy, binding, queue, retry, controller>>

\* The monitor takes so long that the date it has listed is too old by itself.
ExpireListed(c) ==
  /\ c \in monitor.listed \ (monitor.old \cup monitor.fresh)
  /\ Fault("late")
  /\ monitor' = [monitor EXCEPT !.old = @ \cup {c}]
  /\ UNCHANGED <<cluster, policy, binding, queue, retry, controller>>

Die(c) ==
  /\ cluster[c].alive /\ Fault("die")
  /\ cluster' = [cluster EXCEPT ![c].alive = FALSE]
  /\ UNCHANGED <<policy, binding, queue, retry, controller, monitor>>

Revive(c) ==
  /\ ~cluster[c].alive /\ Fault("revive")
  /\ cluster' = [cluster EXCEPT ![c].alive = TRUE]
  /\ UNCHANGED <<policy, binding, queue, retry, controller, monitor>>

-----------------------------------------------------------------------------
(* The monitor: checkClusterStatus and policyReSchedule *)

\* List of the clusters; those that are not online are passed over.
ListClusters ==
  /\ monitor.pc = "check" /\ monitor.listed = {}
  /\ monitor' = [monitor EXCEPT !.listed = Online, !.fresh = Online,
                                !.old = {c \in Online : cluster[c].expired}]
  /\ UNCHANGED <<cluster, policy, binding, queue, retry, controller, faults>>

PassCluster(c) ==
  /\ monitor.pc = "check" /\ c \in monitor.listed \ monitor.old
  /\ monitor' = [monitor EXCEPT !.listed = @ \ {c}, !.fresh = @ \ {c}]
  /\ UNCHANGED <<cluster, policy, binding, queue, retry, controller, faults>>

\* The items are visited in any order.
ExpiredCluster(c) ==
  /\ monitor.pc = "check" /\ c \in monitor.old
  /\ monitor' = [monitor EXCEPT !.pc = "policies", !.on = c]
  /\ UNCHANGED <<cluster, policy, binding, queue, retry, controller, faults>>

\* The monitor is done with a cluster.
EndOfItem(m) ==
  [m EXCEPT !.pc = "check", !.listed = @ \ {m.on}, !.old = @ \ {m.on}, !.fresh = @ \ {m.on},
            !.policies = {}, !.accepted = {}]

\* List of the policies, those with a failover policy.  When it fails, the
\* cluster is not set offline either; the next round tries again.
ListPolicies ==
  /\ monitor.pc = "policies"
  /\ \/ LET some == {p \in Names : Policies[p].spares # <<>>}
        IN  /\ monitor' = [monitor EXCEPT !.pc = "order", !.policies = some, !.accepted = some]
            /\ UNCHANGED faults
     \/ Fault("api") /\ monitor' = EndOfItem(monitor)
  /\ UNCHANGED <<cluster, policy, binding, queue, retry, controller>>

\* shouldReSchedule: the loop is over the entries of the policy, and a policy
\* for a cluster set that has none names no cluster.
ShouldReSchedule(p, c) == Policies[p].entries /\ c \in Policies[p].targets

\* Reschedule is set, by an update that another write to the policy since the
\* list defeats; the error is logged.
OrderReschedule(p) ==
  /\ monitor.pc = "order" /\ p \in monitor.policies
  /\ \/ /\ ShouldReSchedule(p, monitor.on) /\ p \in monitor.accepted
        /\ policy' = [policy EXCEPT ![p].reschedule = TRUE]
        /\ monitor' = [monitor EXCEPT !.policies = @ \ {p}]
        /\ IF policy[p].reschedule THEN UNCHANGED <<queue, controller>>
           ELSE queue' = queue \cup {p} /\ StaleController(p)
        /\ UNCHANGED faults
     \/ /\ ~ShouldReSchedule(p, monitor.on) \/ p \notin monitor.accepted
        /\ monitor' = [monitor EXCEPT !.policies = @ \ {p}]
        /\ UNCHANGED <<policy, queue, controller, faults>>
     \/ /\ ShouldReSchedule(p, monitor.on) /\ Fault("api")
        /\ monitor' = [monitor EXCEPT !.policies = @ \ {p}, !.accepted = @ \ {p}]
        /\ UNCHANGED <<policy, queue, controller>>
  /\ UNCHANGED <<cluster, binding, retry>>

\* Faulty variant: the cluster is set offline before the policies are told.
OfflineClusterFirst ==
  /\ monitor.pc = "order" /\ monitor.policies # {}
  /\ monitor.on \in monitor.fresh
  /\ cluster' = [cluster EXCEPT ![monitor.on].status = "offline"]
  /\ monitor' = EndOfItem(monitor)
  /\ UNCHANGED <<policy, binding, queue, retry, controller, faults>>

\* OfflineCluster, with the listed copy of the object.
OfflineCluster ==
  /\ monitor.pc = "order" /\ monitor.policies = {}
  /\ monitor' = EndOfItem(monitor)
  /\ \/ /\ monitor.on \in monitor.fresh
        /\ cluster' = [cluster EXCEPT ![monitor.on].status = "offline"]
        /\ UNCHANGED faults
     \/ /\ monitor.on \notin monitor.fresh
        /\ UNCHANGED <<cluster, faults>>
     \/ Fault("api") /\ UNCHANGED cluster
  /\ UNCHANGED <<policy, binding, queue, retry, controller>>

-----------------------------------------------------------------------------
(* The schedule-policy controller: Reconcile and doSchedule *)

StartReconcile(p) ==
  /\ controller.pc = "idle" /\ p \in queue
  /\ queue' = queue \ {p}
  /\ controller' = [pc |-> "modify", on |-> p, reschedule |-> policy[p].reschedule,
                    plan |-> {}, fresh |-> TRUE]
  /\ UNCHANGED <<cluster, policy, binding, retry, monitor, faults>>

\* ReQueueResult.
Requeue ==
  /\ retry' = retry \cup {controller.on}
  /\ controller' = Idle

\* Faulty variant: dates of a finer granularity, each write is an event.
StampAlways(date) ==
  LET p == controller.on
  IN  /\ policy' = [policy EXCEPT ![p].stamped = @ \cup {date}]
      /\ queue' = queue \cup {p}
      /\ monitor' = [monitor EXCEPT !.accepted = @ \ {p}]

\* updateLastModifyTime and updateLastScheduleTime: an event for the policy
\* itself, unless the date is the stored one already.
Stamp(date) ==
  LET p == controller.on
  IN  IF date \in policy[p].stamped THEN UNCHANGED <<policy, queue, monitor>>
      ELSE /\ policy' = [policy EXCEPT ![p].stamped = @ \cup {date}]
           /\ queue' = queue \cup {p}
           /\ monitor' = [monitor EXCEPT !.accepted = @ \ {p}]

\* The status update of a copy that is not fresh, or that the API server refuses.
StampRefused ==
  /\ \/ ~controller.fresh /\ UNCHANGED faults
     \/ Fault("api")
  /\ Requeue
  /\ UNCHANGED <<policy, queue, monitor>>

UpdateLastModifyTime ==
  /\ controller.pc = "modify"
  /\ \/ /\ controller.fresh
        /\ Stamp("modify")
        /\ controller' = IF controller.reschedule THEN [controller EXCEPT !.pc = "check"] ELSE Idle
        /\ UNCHANGED <<retry, faults>>
     \/ StampRefused
  /\ UNCHANGED <<cluster, binding>>

\* checkClusters and the choice of the clusters; an error when there are too
\* few failover clusters.
CheckClusters ==
  /\ controller.pc = "check"
  /\ \/ /\ ~Short(controller.on, Online)
        /\ controller' = [controller EXCEPT !.pc = "bind", !.plan = Placement(controller.on, Online)]
        /\ UNCHANGED <<retry, faults>>
     \/ /\ Short(controller.on, Online) /\ Requeue
        /\ UNCHANGED faults
     \/ Fault("api") /\ Requeue
  /\ UNCHANGED <<cluster, policy, binding, queue, monitor>>

\* compareBinding and createOrUpdateBinding.
CreateOrUpdateBinding ==
  /\ controller.pc = "bind"
  /\ \/ /\ binding' = [binding EXCEPT ![controller.on] = controller.plan]
        /\ controller' = [controller EXCEPT !.pc = "finish", !.plan = {}]
        /\ UNCHANGED <<retry, faults>>
     \/ Fault("api") /\ Requeue /\ UNCHANGED binding
  /\ UNCHANGED <<cluster, policy, queue, monitor>>

UpdateLastScheduleTime ==
  /\ controller.pc = "finish"
  /\ \/ /\ controller.fresh
        /\ Stamp("schedule")
        /\ controller' = Idle
        /\ UNCHANGED <<retry, faults>>
     \/ StampRefused
  /\ UNCHANGED <<cluster, binding>>

\* The delay of a requeue is over.
Retry(p) ==
  /\ p \in retry
  /\ retry' = retry \ {p}
  /\ queue' = queue \cup {p}
  /\ UNCHANGED <<cluster, policy, binding, controller, monitor, faults>>

\* Faulty variant: SyncPeriod switched off.
ResyncNever(p) == AtRest(p) /\ FALSE /\ UNCHANGED vars

\* SyncPeriod: every policy at rest is reconciled once in a while.
Resync(p) ==
  /\ AtRest(p)
  /\ queue' = queue \cup {p}
  /\ UNCHANGED <<cluster, policy, binding, retry, controller, monitor, faults>>

-----------------------------------------------------------------------------
(* The environment *)

\* The clock shows another second than the dates of policy p.  While p is being
\* worked on this takes a fault: a Reconcile takes much less than a second.
NextSecond(p) ==
  /\ policy[p].stamped # {}
  /\ \/ AtRest(p) /\ UNCHANGED faults
     \/ ~AtRest(p) /\ Fault("second")
  /\ policy' = [policy EXCEPT ![p].stamped = {}]
  /\ UNCHANGED <<cluster, binding, queue, retry, controller, monitor>>

\* A user sets or resets Reschedule.
EditPolicy(p) ==
  /\ Fault("edit")
  /\ policy' = [policy EXCEPT ![p].reschedule = ~@]
  /\ queue' = queue \cup {p}
  /\ StaleController(p)
  /\ monitor' = [monitor EXCEPT !.accepted = @ \ {p}]
  /\ UNCHANGED <<cluster, binding, retry>>

\* The core restarts; its caches list every policy.
RestartCore ==
  /\ Fault("restart")
  /\ monitor' = Resting
  /\ controller' = Idle
  /\ queue' = Names
  /\ retry' = {}
  /\ UNCHANGED <<cluster, policy, binding>>

-----------------------------------------------------------------------------
MonitorNext ==
  \/ ListClusters
  \/ ListPolicies
  \/ OfflineCluster
  \/ \E c \in Clusters : PassCluster(c) \/ ExpiredCluster(c)
  \/ \E p \in Names : OrderReschedule(p)

ControllerNext ==
  \/ UpdateLastModifyTime
  \/ CheckClusters
  \/ CreateOrUpdateBinding
  \/ UpdateLastScheduleTime

Environment ==
  \/ RestartCore
  \/ \E c \in Clusters : Die(c) \/ Revive(c) \/ Expire(c) \/ ExpireListed(c)
  \/ \E p \in Names : NextSecond(p) \/ EditPolicy(p)

Next ==
  \/ MonitorNext
  \/ ControllerNext
  \/ Environment
  \/ \E c \in Clusters : Heartbeat(c)
  \/ \E p \in Names : StartReconcile(p) \/ Retry(p) \/ Resync(p)

Spec == Init /\ [][Next]_vars

\* The monitor's and the controller's goroutines run; time passes for a dead
\* cluster, a live proxy sends heartbeats; a requeue and SyncPeriod have timers.
\* The work queue is first in, first out: no policy waits for ever.
Fairness ==
  /\ WF_vars(MonitorNext)
  /\ WF_vars(ControllerNext)
  /\ \A c \in Clusters : WF_vars(Heartbeat(c)) /\ WF_vars(~cluster[c].alive /\ Expire(c))
  /\ \A p \in Names : SF_vars(StartReconcile(p)) /\ WF_vars(Retry(p)) /\ WF_vars(Resync(p))

FairSpec == Spec /\ Fairness

-----------------------------------------------------------------------------
(* Properties *)

\* A cluster is set offline only after the policies that name it and have a
\* failover policy were told to schedule again, except those whose update was
\* refused, because somebody else has written them since the monitor listed
\* them or by an error: the order of checkClusterStatus.
ToldBeforeOffline ==
  [][\A c \in Clusters, p \in Names :
       /\ cluster[c].status = "online" /\ cluster'[c].status = "offline"
       /\ Policies[p].spares # <<>> /\ ShouldReSchedule(p, c)
       => policy[p].reschedule \/ p \notin monitor.accepted]_vars

\* Once Reschedule is set and the statuses of the clusters stay as they are, the
\* binding ends up as they demand.  Nothing wakes the controller when a cluster
\* goes offline after the order; the periodic resync makes up for it.
OrderedIsServed ==
  \A p \in Names :
    /\ <>[](policy[p].reschedule /\ ~Short(p, Online))
    /\ <>[][UNCHANGED cluster]_vars
    => <>[](~Short(p, Online) /\ binding[p] = Placement(p, Online))

\* The controller writes its own object in each Reconcile and so wakes itself;
\* this dies out, unless the policy cannot be scheduled.
Settles == \A p \in Names : []<>(AtRest(p) \/ Short(p, Online))

=============================================================================
