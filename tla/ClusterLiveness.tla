--------------------------- MODULE ClusterLiveness ---------------------------
(***************************************************************************)
(* What the control plane promises about one member cluster, seen from     *)
(* outside: the Cluster object exists or not, carries a status, and        *)
(* remembers when the last heartbeat was received.  Nothing is said of     *)
(* goroutines, streams, resource versions or retries: ClusterSession shows *)
(* that the code implements this with them.                                *)
(*                                                                         *)
(* Time is kept as an age, not as a date: `silence' is the time since      *)
(* LastReceiveHeartBeatTimestamp, and it saturates at OnlineExpiration,    *)
(* beyond which the code makes no distinction (monitor.go:49).             *)
(***************************************************************************)
EXTENDS Naturals

CONSTANT OnlineExpiration   \* cfg.OnlineExpirationTime, in ticks

VARIABLES
  exists,    \* the Cluster object is in the API server
  status,    \* cluster.Status.Status
  silence    \* the age of cluster.Status.LastReceiveHeartBeatTimestamp

vars == <<exists, status, silence>>

Statuses == {"none", "initializing", "online", "offline"}
Ages     == 0..OnlineExpiration

TypeOK ==
  /\ exists \in BOOLEAN
  /\ status \in Statuses
  /\ silence \in Ages

\* An object without heartbeats has the zero timestamp: it is as old as can be.
Init ==
  /\ exists \in BOOLEAN
  /\ status = "none"
  /\ silence = OnlineExpiration

Create ==
  /\ ~exists
  /\ exists' = TRUE
  /\ status' = "none"
  /\ silence' = OnlineExpiration

Delete ==
  /\ exists
  /\ exists' = FALSE
  /\ status' = "none"
  /\ silence' = OnlineExpiration

\* The cluster controller starts deploying a proxy.
Initialize ==
  /\ exists
  /\ status = "none"
  /\ status' = "initializing"
  /\ UNCHANGED <<exists, silence>>

\* A message of the proxy is recorded.  It may have waited, but what is
\* recorded is never older than what was known.
Hear(age) ==
  /\ exists
  /\ age <= silence
  /\ status' = "online"
  /\ silence' = age
  /\ UNCHANGED exists

\* The monitor gives the cluster up: only one that has been silent too long.
Expire ==
  /\ exists
  /\ status = "online"
  /\ silence = OnlineExpiration
  /\ status' = "offline"
  /\ UNCHANGED <<exists, silence>>

Tick ==
  /\ silence < OnlineExpiration
  /\ silence' = silence + 1
  /\ UNCHANGED <<exists, status>>

Next ==
  \/ Create
  \/ Delete
  \/ Initialize
  \/ \E age \in Ages : Hear(age)
  \/ Expire
  \/ Tick

Spec == Init /\ [][Next]_vars
==============================================================================
