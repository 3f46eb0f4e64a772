--------------------------- MODULE MCClusterSession ---------------------------
(* ClusterSession for TLC: symmetric streams and request goroutines.       *)
EXTENDS ClusterSession, TLC

Symmetry == Permutations(Streams) \cup Permutations(Workers)
===============================================================================
