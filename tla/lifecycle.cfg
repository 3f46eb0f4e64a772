SPECIFICATION FairSpec
CONSTANTS
  Resources = {namespace, binding, deployment}
  Home = namespace
  Namespaced = {deployment}
  FaultKinds = {"create", "delete", "inputs", "api", "proxy", "late", "restart"}
  MaxFaults = 5
CHECK_DEADLOCK FALSE
INVARIANT TypeOK
PROPERTIES EventuallyDeployed EventuallyHome
