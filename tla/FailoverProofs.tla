---------------------------- MODULE FailoverProofs -----------------------------
(***************************************************************************)
(* Theorems about Failover, for any clusters, policies and faults.         *)
(*                                                                         *)
(* The monitor's round is a list, an order to each policy, and a write of  *)
(* the cluster, with everybody else in between.  The invariant OrderTold   *)
(* carries what the orders have achieved from one step to the next.        *)
(***************************************************************************)
EXTENDS Failover, TLAPS

USE FailoverAssumption

-----------------------------------------------------------------------------
(* The inductive invariant *)

\* Of the policies the monitor is done with, those that concern the cluster
\* and did take its update are to schedule again.
OrderTold ==
  monitor.pc = "order" =>
    \A p \in Names :
      /\ Policies[p].spares # <<>> /\ ShouldReSchedule(p, monitor.on)
      /\ p \notin monitor.policies /\ p \in monitor.accepted
      => policy[p].reschedule

IInv == TypeOK /\ OrderTold

-----------------------------------------------------------------------------
(* Lemmas about the records and the helpers *)

LEMMA MonitorField ==
  ASSUME NEW m \in Monitor
  PROVE  /\ \A x \in {"check", "policies", "order"} : [m EXCEPT !.pc = x] \in Monitor
         /\ \A x \in Clusters : [m EXCEPT !.on = x] \in Monitor
         /\ \A x \in SUBSET Clusters : [m EXCEPT !.listed = x] \in Monitor
         /\ \A x \in SUBSET Clusters : [m EXCEPT !.old = x] \in Monitor
         /\ \A x \in SUBSET Clusters : [m EXCEPT !.fresh = x] \in Monitor
         /\ \A x \in SUBSET Names : [m EXCEPT !.policies = x] \in Monitor
         /\ \A x \in SUBSET Names : [m EXCEPT !.accepted = x] \in Monitor
BY DEF Monitor

LEMMA ControllerField ==
  ASSUME NEW c \in Controller
  PROVE  /\ \A x \in {"idle", "modify", "check", "bind", "finish"} : [c EXCEPT !.pc = x] \in Controller
         /\ \A x \in SUBSET Clusters : [c EXCEPT !.plan = x] \in Controller
         /\ \A x \in BOOLEAN : [c EXCEPT !.fresh = x] \in Controller
BY DEF Controller

LEMMA ClusterField ==
  ASSUME NEW o \in Cluster
  PROVE  /\ \A x \in BOOLEAN : [o EXCEPT !.alive = x] \in Cluster
         /\ \A x \in BOOLEAN : [o EXCEPT !.expired = x] \in Cluster
         /\ \A x \in {"online", "offline"} : [o EXCEPT !.status = x] \in Cluster
BY DEF Cluster

LEMMA PolicyField ==
  ASSUME NEW o \in PolicyObj
  PROVE  /\ \A x \in BOOLEAN : [o EXCEPT !.reschedule = x] \in PolicyObj
         /\ \A x \in SUBSET Dates : [o EXCEPT !.stamped = x] \in PolicyObj
BY DEF PolicyObj

\* The zero values have the types of their variables.
LEMMA ZeroTypes == Idle \in Controller /\ Resting \in Monitor
<1>1. (CHOOSE p \in Names : TRUE) \in Names /\ (CHOOSE c \in Clusters : TRUE) \in Clusters
  BY DEF FailoverAssumption, Names
<1>2. Idle \in Controller
  BY <1>1 DEF Idle, Controller
<1>3. Resting \in Monitor
  BY <1>1 DEF Resting, Monitor
<1>4. QED
  BY <1>2, <1>3

\* Scheduling puts only clusters in a binding.
LEMMA PlacementType ==
  ASSUME NEW p \in Names, NEW seen \in SUBSET Clusters
  PROVE  Placement(p, seen) \in SUBSET Clusters
<1>1. Policies[p] \in Policy
  BY DEF FailoverAssumption, Names
<1>2. Policies[p].targets \subseteq Clusters /\ Policies[p].spares \in Seq(Clusters)
  BY <1>1 DEF Policy
<1>3. \A j \in DOMAIN Policies[p].spares : Policies[p].spares[j] \in Clusters
  BY <1>2
<1>4. QED
  BY <1>2, <1>3 DEF Placement, Usable

LEMMA EndOfItemType ==
  ASSUME NEW m \in Monitor
  PROVE  EndOfItem(m) \in Monitor /\ EndOfItem(m).pc = "check"
BY DEF EndOfItem, Monitor

LEMMA FaultType ==
  ASSUME faults \in 0..MaxFaults, NEW kind, Fault(kind)
  PROVE  faults' \in 0..MaxFaults
BY DEF Fault

\* A cluster or a policy of which one field is written.
LEMMA ClusterUpdate ==
  ASSUME TypeOK, NEW c \in Clusters
  PROVE  /\ \A x \in BOOLEAN : [cluster EXCEPT ![c].alive = x] \in [Clusters -> Cluster]
         /\ \A x \in BOOLEAN : [cluster EXCEPT ![c].expired = x] \in [Clusters -> Cluster]
         /\ \A x \in {"online", "offline"} : [cluster EXCEPT ![c].status = x] \in [Clusters -> Cluster]
<1>1. cluster \in [Clusters -> Cluster]
  BY DEF TypeOK
<1>2. \A x \in BOOLEAN : [cluster EXCEPT ![c].alive = x] \in [Clusters -> Cluster]
  BY <1>1, ClusterField
<1>3. \A x \in BOOLEAN : [cluster EXCEPT ![c].expired = x] \in [Clusters -> Cluster]
  BY <1>1, ClusterField
<1>4. \A x \in {"online", "offline"} : [cluster EXCEPT ![c].status = x] \in [Clusters -> Cluster]
  BY <1>1, ClusterField
<1>5. QED
  BY <1>2, <1>3, <1>4

LEMMA PolicyUpdate ==
  ASSUME TypeOK, NEW p \in Names
  PROVE  /\ \A x \in BOOLEAN : [policy EXCEPT ![p].reschedule = x] \in [Names -> PolicyObj]
         /\ \A x \in SUBSET Dates : [policy EXCEPT ![p].stamped = x] \in [Names -> PolicyObj]
<1>1. policy \in [Names -> PolicyObj]
  BY DEF TypeOK
<1>2. \A x \in BOOLEAN : [policy EXCEPT ![p].reschedule = x] \in [Names -> PolicyObj]
  BY <1>1, PolicyField
<1>3. \A x \in SUBSET Dates : [policy EXCEPT ![p].stamped = x] \in [Names -> PolicyObj]
  BY <1>1, PolicyField
<1>4. QED
  BY <1>2, <1>3

-----------------------------------------------------------------------------
(* Type correctness *)

LEMMA TypeInit == Init => TypeOK
<1> SUFFICES ASSUME Init PROVE TypeOK
  OBVIOUS
<1>1. cluster \in [Clusters -> Cluster]
  BY DEF Init, Cluster
<1>2. policy \in [Names -> PolicyObj]
  <2>1. [reschedule: BOOLEAN, stamped: {{}}] \subseteq PolicyObj
    BY DEF PolicyObj
  <2>2. policy \in [Names -> [reschedule: BOOLEAN, stamped: {{}}]]
    BY DEF Init
  <2>3. QED
    BY <2>1, <2>2
<1>3. binding \in [Names -> SUBSET Clusters] /\ queue \subseteq Names /\ retry \subseteq Names
  BY DEF Init
<1>4. controller \in Controller /\ monitor \in Monitor
  BY ZeroTypes DEF Init
<1>5. faults \in 0..MaxFaults
  <2>1. faults = MaxFaults /\ MaxFaults \in Nat
    BY Zenon DEF Init, FailoverAssumption
  <2>2. QED
    BY <2>1
<1>6. QED
  BY <1>1, <1>2, <1>3, <1>4, <1>5 DEF TypeOK

LEMMA TypeMonitor == TypeOK /\ MonitorNext => TypeOK'
<1> SUFFICES ASSUME TypeOK, MonitorNext PROVE TypeOK'
  OBVIOUS
<1>a. /\ cluster \in [Clusters -> Cluster] /\ policy \in [Names -> PolicyObj]
      /\ controller \in Controller /\ monitor \in Monitor /\ faults \in 0..MaxFaults
      /\ queue \subseteq Names
  BY DEF TypeOK
<1>b. /\ monitor.on \in Clusters /\ monitor.listed \subseteq Clusters
      /\ monitor.old \subseteq Clusters /\ monitor.fresh \subseteq Clusters
      /\ monitor.policies \subseteq Names /\ monitor.accepted \subseteq Names
  BY <1>a DEF Monitor
<1>1. CASE ListClusters
  <2>1. Online \in SUBSET Clusters /\ {c \in Online : cluster[c].expired} \in SUBSET Clusters
    BY DEF Online
  <2>2. monitor' \in Monitor
    BY <1>1, <1>a, <2>1, MonitorField, Zenon DEF ListClusters
  <2>3. QED
    BY <1>1, <2>2 DEF ListClusters, TypeOK
<1>2. CASE ListPolicies
  <2>1. {p \in Names : Policies[p].spares # <<>>} \in SUBSET Names
    OBVIOUS
  <2>2. monitor' \in Monitor
    <3> DEFINE some == {p \in Names : Policies[p].spares # <<>>}
    <3>1. [monitor EXCEPT !.pc = "order", !.policies = some, !.accepted = some] \in Monitor
      BY <1>a, <2>1, MonitorField, Zenon
    <3>2. QED
      BY <1>2, <1>a, <3>1, EndOfItemType, Zenon DEF ListPolicies
  <2>3. faults' \in 0..MaxFaults
    BY <1>2, <1>a, FaultType DEF ListPolicies
  <2>4. QED
    BY <1>2, <2>2, <2>3 DEF ListPolicies, TypeOK
<1>3. CASE OfflineCluster
  <2>1. cluster' \in [Clusters -> Cluster]
    <3>1. [cluster EXCEPT ![monitor.on].status = "offline"] \in [Clusters -> Cluster]
      BY <1>b, ClusterUpdate
    <3>2. QED
      BY <1>3, <1>a, <3>1, Zenon DEF OfflineCluster
  <2>2. monitor' \in Monitor
    BY <1>3, <1>a, EndOfItemType DEF OfflineCluster
  <2>3. faults' \in 0..MaxFaults
    BY <1>3, <1>a, FaultType DEF OfflineCluster
  <2>4. QED
    BY <1>3, <2>1, <2>2, <2>3 DEF OfflineCluster, TypeOK
<1>4. ASSUME NEW c \in Clusters, PassCluster(c) \/ ExpiredCluster(c) PROVE TypeOK'
  <2>1. monitor' \in Monitor
    <3>1. monitor.listed \ {c} \in SUBSET Clusters /\ monitor.fresh \ {c} \in SUBSET Clusters
      BY <1>b
    <3>2. [monitor EXCEPT !.listed = monitor.listed \ {c}, !.fresh = monitor.fresh \ {c}] \in Monitor
      BY <1>a, <3>1, MonitorField, Zenon
    <3>3. [monitor EXCEPT !.pc = "policies", !.on = c] \in Monitor
      BY <1>a, MonitorField, Zenon
    <3>4. QED
      BY <1>4, <3>2, <3>3, Zenon DEF PassCluster, ExpiredCluster
  <2>2. QED
    BY <1>4, <2>1 DEF PassCluster, ExpiredCluster, TypeOK
<1>5. ASSUME NEW p \in Names, OrderReschedule(p) PROVE TypeOK'
  <2>1. monitor' \in Monitor
    <3>1. monitor.policies \ {p} \in SUBSET Names /\ monitor.accepted \ {p} \in SUBSET Names
      BY <1>b
    <3>2. [monitor EXCEPT !.policies = monitor.policies \ {p}] \in Monitor
      BY <1>a, <3>1, MonitorField
    <3>3. [monitor EXCEPT !.policies = monitor.policies \ {p},
                          !.accepted = monitor.accepted \ {p}] \in Monitor
      BY <1>a, <3>1, MonitorField, Zenon
    <3>4. QED
      BY <1>5, <3>2, <3>3 DEF OrderReschedule
  <2>2. policy' \in [Names -> PolicyObj]
    BY <1>5, <1>a, PolicyUpdate, Zenon DEF OrderReschedule
  <2>3. queue' \subseteq Names /\ controller' \in Controller
    BY <1>5, <1>a, ControllerField DEF OrderReschedule, StaleController
  <2>4. faults' \in 0..MaxFaults
    BY <1>5, <1>a, FaultType DEF OrderReschedule
  <2>5. QED
    BY <1>5, <2>1, <2>2, <2>3, <2>4 DEF OrderReschedule, TypeOK
<1>6. QED
  BY <1>1, <1>2, <1>3, <1>4, <1>5 DEF MonitorNext

\* The write of a date, and the write that is refused.
LEMMA StampType ==
  ASSUME TypeOK, NEW date \in Dates, Stamp(date) \/ StampRefused
  PROVE  /\ policy' \in [Names -> PolicyObj]
         /\ queue' \subseteq Names
         /\ monitor' \in Monitor
<1>a. /\ policy \in [Names -> PolicyObj] /\ queue \subseteq Names /\ monitor \in Monitor
      /\ controller.on \in Names /\ monitor.accepted \subseteq Names
  BY DEF TypeOK, Controller, Monitor
<1>1. policy[controller.on].stamped \cup {date} \in SUBSET Dates
  BY <1>a DEF PolicyObj
<1>2. [policy EXCEPT ![controller.on].stamped = @ \cup {date}] \in [Names -> PolicyObj]
  BY <1>a, <1>1, PolicyField
<1>3. [monitor EXCEPT !.accepted = @ \ {controller.on}] \in Monitor
  BY <1>a, MonitorField
<1>4. QED
  BY <1>a, <1>2, <1>3 DEF Stamp, StampRefused

LEMMA RequeueType ==
  ASSUME TypeOK, Requeue
  PROVE  retry' \subseteq Names /\ controller' \in Controller
BY ZeroTypes DEF TypeOK, Requeue, Controller

LEMMA TypeController == TypeOK /\ ControllerNext => TypeOK'
<1> SUFFICES ASSUME TypeOK, ControllerNext PROVE TypeOK'
  OBVIOUS
<1>a. /\ binding \in [Names -> SUBSET Clusters] /\ retry \subseteq Names
      /\ controller \in Controller /\ faults \in 0..MaxFaults
      /\ controller.on \in Names /\ controller.plan \in SUBSET Clusters
  BY DEF TypeOK, Controller
<1>b. StampRefused => /\ retry' \subseteq Names /\ controller' \in Controller
                      /\ faults' \in 0..MaxFaults
  BY <1>a, RequeueType, FaultType DEF StampRefused
<1>1. CASE UpdateLastModifyTime
  <2>1. policy' \in [Names -> PolicyObj] /\ queue' \subseteq Names /\ monitor' \in Monitor
    BY <1>1, StampType DEF UpdateLastModifyTime, Dates
  <2>2. controller' \in Controller /\ retry' \subseteq Names /\ faults' \in 0..MaxFaults
    BY <1>1, <1>a, <1>b, ControllerField, ZeroTypes, Zenon DEF UpdateLastModifyTime
  <2>3. QED
    BY <1>1, <2>1, <2>2 DEF UpdateLastModifyTime, TypeOK
<1>2. CASE CheckClusters
  <2>1. Placement(controller.on, Online) \in SUBSET Clusters
    BY <1>a, PlacementType DEF Online
  <2>2. [controller EXCEPT !.pc = "bind", !.plan = Placement(controller.on, Online)] \in Controller
    BY <1>a, <2>1, ControllerField, Zenon
  <2>a. controller' \in Controller /\ retry' \subseteq Names
    BY <1>2, <1>a, <2>2, RequeueType, Zenon DEF CheckClusters
  <2>3. faults' \in 0..MaxFaults
    BY <1>2, <1>a, FaultType DEF CheckClusters
  <2>4. QED
    BY <1>2, <2>a, <2>3 DEF CheckClusters, TypeOK
<1>3. CASE CreateOrUpdateBinding
  <2>1. binding' \in [Names -> SUBSET Clusters]
    BY <1>3, <1>a DEF CreateOrUpdateBinding
  <2>a. [controller EXCEPT !.pc = "finish", !.plan = {}] \in Controller
    BY <1>a DEF Controller
  <2>2. controller' \in Controller /\ retry' \subseteq Names
    BY <1>3, <1>a, <2>a, RequeueType, Zenon DEF CreateOrUpdateBinding
  <2>3. faults' \in 0..MaxFaults
    BY <1>3, <1>a, FaultType DEF CreateOrUpdateBinding
  <2>4. QED
    BY <1>3, <2>1, <2>2, <2>3 DEF CreateOrUpdateBinding, TypeOK
<1>4. CASE UpdateLastScheduleTime
  <2>1. policy' \in [Names -> PolicyObj] /\ queue' \subseteq Names /\ monitor' \in Monitor
    BY <1>4, StampType DEF UpdateLastScheduleTime, Dates
  <2>2. controller' \in Controller /\ retry' \subseteq Names /\ faults' \in 0..MaxFaults
    BY <1>4, <1>a, <1>b, ZeroTypes, Zenon DEF UpdateLastScheduleTime
  <2>3. QED
    BY <1>4, <2>1, <2>2 DEF UpdateLastScheduleTime, TypeOK
<1>5. QED
  BY <1>1, <1>2, <1>3, <1>4 DEF ControllerNext

LEMMA TypeEnvironment == TypeOK /\ Environment => TypeOK'
<1> SUFFICES ASSUME TypeOK, Environment PROVE TypeOK'
  OBVIOUS
<1>a. /\ cluster \in [Clusters -> Cluster] /\ policy \in [Names -> PolicyObj]
      /\ controller \in Controller /\ monitor \in Monitor /\ faults \in 0..MaxFaults
      /\ monitor.old \subseteq Clusters /\ monitor.listed \subseteq Clusters
      /\ monitor.accepted \subseteq Names
  BY DEF TypeOK, Monitor
<1>1. CASE RestartCore
  BY <1>1, <1>a, ZeroTypes, FaultType DEF RestartCore, TypeOK
<1>2. ASSUME NEW c \in Clusters, Die(c) \/ Revive(c) PROVE TypeOK'
  <2>1. cluster' \in [Clusters -> Cluster]
    <3>1. \A x \in BOOLEAN : [cluster EXCEPT ![c].alive = x] \in [Clusters -> Cluster]
      BY ClusterUpdate
    <3>2. QED
      BY <1>2, <3>1, Zenon DEF Die, Revive
  <2>2. faults' \in 0..MaxFaults
    BY <1>2, <1>a, FaultType DEF Die, Revive
  <2>3. QED
    BY <1>2, <2>1, <2>2 DEF Die, Revive, TypeOK
<1>3. ASSUME NEW c \in Clusters, Expire(c) \/ ExpireListed(c) PROVE TypeOK'
  <2>1. cluster' \in [Clusters -> Cluster]
    <3>1. [cluster EXCEPT ![c].expired = TRUE] \in [Clusters -> Cluster]
      BY ClusterUpdate
    <3>2. QED
      BY <1>3, <1>a, <3>1, Zenon DEF Expire, ExpireListed
  <2>2. monitor' \in Monitor
    <3>1. monitor.old \cup ({c} \cap monitor.listed) \in SUBSET Clusters
          /\ monitor.old \cup {c} \in SUBSET Clusters
      BY <1>a
    <3>2. [monitor EXCEPT !.old = monitor.old \cup ({c} \cap monitor.listed)] \in Monitor
          /\ [monitor EXCEPT !.old = monitor.old \cup {c}] \in Monitor
      BY <1>a, <3>1, MonitorField
    <3>3. QED
      BY <1>3, <3>2 DEF Expire, ExpireListed
  <2>3. faults' \in 0..MaxFaults
    BY <1>3, <1>a, FaultType DEF Expire, ExpireListed
  <2>4. QED
    BY <1>3, <2>1, <2>2, <2>3 DEF Expire, ExpireListed, TypeOK
<1>4. ASSUME NEW p \in Names, NextSecond(p) PROVE TypeOK'
  BY <1>4, <1>a, PolicyField, FaultType DEF NextSecond, TypeOK
<1>5. ASSUME NEW p \in Names, EditPolicy(p) PROVE TypeOK'
  <2>1. policy' \in [Names -> PolicyObj]
    BY <1>5, <1>a DEF EditPolicy, PolicyObj
  <2>2. monitor' \in Monitor /\ controller' \in Controller
    BY <1>5, <1>a, MonitorField, ControllerField DEF EditPolicy, StaleController
  <2>3. faults' \in 0..MaxFaults
    BY <1>5, <1>a, FaultType DEF EditPolicy
  <2>4. QED
    BY <1>5, <2>1, <2>2, <2>3 DEF EditPolicy, TypeOK
<1>6. QED
  BY <1>1, <1>2, <1>3, <1>4, <1>5 DEF Environment

LEMMA TypeStep == TypeOK /\ [Next]_vars => TypeOK'
<1> SUFFICES ASSUME TypeOK, [Next]_vars PROVE TypeOK'
  OBVIOUS
<1>1. CASE UNCHANGED vars
  BY <1>1 DEF vars, TypeOK
<1>2. ASSUME NEW c \in Clusters, Heartbeat(c) PROVE TypeOK'
  <2>1. cluster' \in [Clusters -> Cluster] /\ monitor' \in Monitor
    BY <1>2 DEF Heartbeat, TypeOK, Cluster, Monitor
  <2>2. QED
    BY <1>2, <2>1 DEF Heartbeat, TypeOK
<1>3. ASSUME NEW p \in Names, StartReconcile(p) \/ Retry(p) \/ Resync(p) PROVE TypeOK'
  <2>1. CASE StartReconcile(p)
    <3>1. policy[p].reschedule \in BOOLEAN
      BY DEF TypeOK, PolicyObj
    <3>2. [pc |-> "modify", on |-> p, reschedule |-> policy[p].reschedule, plan |-> {},
           fresh |-> TRUE] \in Controller
      BY <3>1 DEF Controller
    <3>3. QED
      BY <2>1, <3>2 DEF StartReconcile, TypeOK
  <2>2. CASE Retry(p) \/ Resync(p)
    BY <2>2 DEF Retry, Resync, TypeOK
  <2>3. QED
    BY <1>3, <2>1, <2>2
<1>4. QED
  BY <1>1, <1>2, <1>3, TypeMonitor, TypeController, TypeEnvironment DEF Next

\* The variables keep their types in every behaviour.
THEOREM TypeCorrect == Spec => []TypeOK
BY TypeInit, TypeStep, PTL DEF Spec

-----------------------------------------------------------------------------
(* The orders of the monitor *)

\* A step that leaves the monitor's order and the policies it has accepted.
LEMMA OrderElsewhere ==
  ASSUME OrderTold,
         monitor'.pc = monitor.pc, monitor'.on = monitor.on,
         monitor'.policies = monitor.policies, monitor'.accepted \subseteq monitor.accepted,
         \A p \in Names : p \in monitor'.accepted => policy'[p].reschedule = policy[p].reschedule
  PROVE  OrderTold'
BY DEF OrderTold, ShouldReSchedule

LEMMA OrderStep == TypeOK /\ OrderTold /\ [Next]_vars => OrderTold'
<1> SUFFICES ASSUME TypeOK, OrderTold, [Next]_vars PROVE OrderTold'
  OBVIOUS
<1>a. /\ monitor \in Monitor /\ policy \in [Names -> PolicyObj]
      /\ controller \in Controller /\ controller.on \in Names
  BY DEF TypeOK, Controller
<1>1. CASE UNCHANGED <<monitor, policy>>
  BY <1>1, OrderElsewhere
<1>2. CASE monitor'.pc # "order"
  BY <1>2 DEF OrderTold
<1>3. CASE ListPolicies
  <2>1. CASE monitor' = EndOfItem(monitor)
    BY <2>1, <1>2, <1>a, EndOfItemType
  <2>2. CASE monitor'.policies = {p \in Names : Policies[p].spares # <<>>}
    BY <2>2 DEF OrderTold
  <2>3. QED
    BY <1>3, <1>a, <2>1, <2>2 DEF ListPolicies, Monitor
<1>4. ASSUME NEW p \in Names, OrderReschedule(p) PROVE OrderTold'
  <2>1. monitor.pc = "order" /\ monitor'.pc = "order" /\ monitor'.on = monitor.on
        /\ monitor'.policies = monitor.policies \ {p}
        /\ monitor'.accepted \subseteq monitor.accepted
    BY <1>4, <1>a DEF OrderReschedule, Monitor
  <2>2. \A q \in Names : policy[q].reschedule => policy'[q].reschedule
    BY <1>4, <1>a DEF OrderReschedule, PolicyObj
  <2>3. ShouldReSchedule(p, monitor.on) /\ p \in monitor'.accepted => policy'[p].reschedule
    <3>1. CASE policy' = [policy EXCEPT ![p].reschedule = TRUE]
      BY <3>1, <1>a DEF PolicyObj
    <3>2. CASE ~ShouldReSchedule(p, monitor.on) \/ p \notin monitor.accepted
      BY <3>2, <2>1
    <3>3. CASE monitor' = [monitor EXCEPT !.policies = @ \ {p}, !.accepted = @ \ {p}]
      BY <3>3, <1>a DEF Monitor
    <3>4. QED
      BY <1>4, <3>1, <3>2, <3>3 DEF OrderReschedule
  <2>4. QED
    BY <2>1, <2>2, <2>3 DEF OrderTold, ShouldReSchedule
<1>5. ASSUME NEW c \in Clusters, Heartbeat(c) \/ Expire(c) \/ ExpireListed(c) PROVE OrderTold'
  <2>1. policy' = policy
    BY <1>5, Zenon DEF Heartbeat, Expire, ExpireListed
  <2>2. /\ monitor'.pc = monitor.pc /\ monitor'.on = monitor.on
        /\ monitor'.policies = monitor.policies /\ monitor'.accepted = monitor.accepted
    BY <1>5, <1>a DEF Heartbeat, Expire, ExpireListed, Monitor
  <2>3. QED
    BY <2>1, <2>2, OrderElsewhere
<1>6. ASSUME NEW date, Stamp(date) \/ StampRefused PROVE OrderTold'
  <2>1. \A p \in Names : policy'[p].reschedule = policy[p].reschedule
    BY <1>6, <1>a DEF Stamp, StampRefused, PolicyObj
  <2>2. /\ monitor'.pc = monitor.pc /\ monitor'.on = monitor.on
        /\ monitor'.policies = monitor.policies /\ monitor'.accepted \subseteq monitor.accepted
    BY <1>6, <1>a DEF Stamp, StampRefused, Monitor
  <2>3. QED
    BY <2>1, <2>2, OrderElsewhere
<1>7. ASSUME NEW p \in Names, NextSecond(p) PROVE OrderTold'
  <2>1. monitor' = monitor /\ \A q \in Names : policy'[q].reschedule = policy[q].reschedule
    BY <1>7, <1>a DEF NextSecond, PolicyObj
  <2>2. QED
    BY <2>1, OrderElsewhere
<1>8. ASSUME NEW p \in Names, EditPolicy(p) PROVE OrderTold'
  <2>1. /\ monitor'.pc = monitor.pc /\ monitor'.on = monitor.on
        /\ monitor'.policies = monitor.policies /\ monitor'.accepted = monitor.accepted \ {p}
    BY <1>8, <1>a DEF EditPolicy, Monitor
  <2>2. \A q \in Names \ {p} : policy'[q].reschedule = policy[q].reschedule
    BY <1>8, <1>a DEF EditPolicy
  <2>3. QED
    BY <2>1, <2>2, OrderElsewhere
<1>9. CASE MonitorNext
  <2>1. CASE OfflineCluster
    BY <2>1, <1>a, <1>2, EndOfItemType DEF OfflineCluster
  <2>2. CASE ListClusters
    BY <2>2, <1>a, <1>2 DEF ListClusters, Monitor
  <2>3. ASSUME NEW c \in Clusters, PassCluster(c) \/ ExpiredCluster(c) PROVE OrderTold'
    BY <2>3, <1>a, <1>2 DEF PassCluster, ExpiredCluster, Monitor
  <2>4. QED
    BY <1>9, <1>3, <1>4, <2>1, <2>2, <2>3 DEF MonitorNext
<1>10. CASE ControllerNext
  BY <1>10, <1>1, <1>6, Zenon
     DEF ControllerNext, UpdateLastModifyTime, CheckClusters, CreateOrUpdateBinding,
         UpdateLastScheduleTime
<1>11. CASE Environment
  <2>1. CASE RestartCore
    BY <2>1, <1>2 DEF RestartCore, Resting
  <2>2. ASSUME NEW c \in Clusters, Die(c) \/ Revive(c) PROVE OrderTold'
    BY <2>2, <1>1 DEF Die, Revive
  <2>3. QED
    BY <1>11, <1>5, <1>7, <1>8, <2>1, <2>2 DEF Environment
<1>12. ASSUME NEW p \in Names, StartReconcile(p) \/ Retry(p) \/ Resync(p) PROVE OrderTold'
  BY <1>12, <1>1 DEF StartReconcile, Retry, Resync
<1>13. QED
  BY <1>1, <1>5, <1>9, <1>10, <1>11, <1>12 DEF Next, vars

\* The invariant holds in every behaviour.
THEOREM Invariance == Spec => []IInv
<1>1. Init => IInv
  <2>1. Init => OrderTold
    BY DEF Init, Resting, OrderTold
  <2>2. QED
    BY <2>1, TypeInit DEF IInv
<1>2. IInv /\ [Next]_vars => IInv'
  BY TypeStep, OrderStep DEF IInv
<1>3. QED
  BY <1>1, <1>2, PTL DEF Spec

\* The policies that name a cluster are told before it is set offline, except
\* those whose update was refused (monitor.go:48-61, 80-87).
THEOREM PoliciesTold == Spec => ToldBeforeOffline
<1> DEFINE Falls(c)   == cluster[c].status = "online" /\ cluster'[c].status = "offline"
           Minds(p,c) == Policies[p].spares # <<>> /\ ShouldReSchedule(p, c)
           Told(p)    == policy[p].reschedule \/ p \notin monitor.accepted
<1>1. ASSUME IInv, Next, NEW c \in Clusters, NEW p \in Names, Falls(c), Minds(p, c)
      PROVE  Told(p)
  <2>a. cluster \in [Clusters -> Cluster]
    BY <1>1 DEF IInv, TypeOK
  <2>1. CASE OfflineCluster
    <3>1. monitor.pc = "order" /\ monitor.policies = {} /\ monitor.on = c
      BY <1>1, <2>1, <2>a DEF OfflineCluster, Cluster
    <3>2. QED
      BY <1>1, <3>1 DEF IInv, OrderTold
  <2>2. CASE UNCHANGED cluster
    BY <1>1, <2>2
  <2>3. ASSUME NEW d \in Clusters, Heartbeat(d) \/ Expire(d) \/ Die(d) \/ Revive(d)
        PROVE  FALSE
    BY <1>1, <2>3, <2>a DEF Heartbeat, Expire, Die, Revive, Cluster
  <2>4. QED
    BY <1>1, <2>1, <2>2, <2>3, Zenon
       DEF Next, MonitorNext, ControllerNext, Environment, ListClusters, ListPolicies, PassCluster,
           ExpiredCluster, OrderReschedule, UpdateLastModifyTime, CheckClusters,
           CreateOrUpdateBinding, UpdateLastScheduleTime, RestartCore, ExpireListed, NextSecond,
           EditPolicy, StartReconcile, Retry, Resync
<1>2. IInv /\ [Next]_vars
      => [\A c \in Clusters, p \in Names :
            /\ cluster[c].status = "online" /\ cluster'[c].status = "offline"
            /\ Policies[p].spares # <<>> /\ ShouldReSchedule(p, c)
            => policy[p].reschedule \/ p \notin monitor.accepted]_vars
  BY <1>1
<1>3. QED
  BY <1>2, Invariance, PTL DEF Spec, ToldBeforeOffline
=============================================================================
