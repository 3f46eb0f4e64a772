SPECIFICATION FairSpec
CONSTANTS
  m1 = m1
  m2 = m2
  k1 = k1
  k2 = k2
  n1 = n1
  n2 = n2
  Mappings = {m1, m2}
  Clusters = {k1, k2}
  Namespaces = {n1, n2}
  None = None
  Initial <- MCInitial
  FaultKinds = {"edit", "create", "delete", "foreign", "api", "restart"}
  MaxFaults = 2
CHECK_DEADLOCK FALSE
INVARIANT TypeOK
PROPERTIES ForeignLabelsKept LabelsKept EventuallyMapped EventuallyReleased
