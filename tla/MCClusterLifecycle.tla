-------------------------- MODULE MCClusterLifecycle ---------------------------
EXTENDS ClusterLifecycle
=============================================================================
