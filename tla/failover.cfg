SPECIFICATION FairSpec
CONSTANTS
  a = a
  s = s
  Clusters = {a, s}
  Policies <- MCPolicies
  FaultKinds = {"die", "revive", "late", "second", "edit", "api", "restart"}
  MaxFaults = 3
INVARIANT TypeOK
PROPERTIES ToldBeforeOffline OrderedIsServed Settles
