----------------------------- MODULE MCProxyAddons -----------------------------
EXTENDS ProxyAddons

CONSTANTS p1, p2, n1, n2

\* A configuration names each plugin once, or one of them twice.
MCConfigs == {[p \in Plugins |-> IF p = p1 THEN n1 ELSE n2], [p \in Plugins |-> n1]}
=============================================================================
