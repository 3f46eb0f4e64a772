-------------------------- MODULE MCNamespaceMapping ---------------------------
EXTENDS NamespaceMapping

CONSTANTS m1, m2, k1, k2, n1, n2

MCRules(a, b) == [k \in Clusters |-> IF k = k1 THEN a ELSE b]

\* m1 has a rule for k1 and none or any for k2, for which m2 has one, if it has
\* been created yet.
MCInitial ==
  {[m \in Mappings |-> IF m = m1 THEN Created(MCRules(n1, a)) ELSE other] :
     a \in Namespaces \cup {None}, other \in {NoMapping, Created(MCRules(None, n2))}}
=============================================================================
