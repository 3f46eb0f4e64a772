------------------------------ MODULE MCFailover -------------------------------
EXTENDS Failover, TLC

CONSTANTS a, s

\* A policy for one cluster, with the other one to fail over to.
MCPolicies == "p" :> [entries |-> TRUE, targets |-> {a}, spares |-> <<s>>]
=============================================================================
