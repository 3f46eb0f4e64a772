SPECIFICATION FairSpec
CONSTANTS
  None = None
  Keys <- MCKeys
  Values <- MCValues
  Content <- MCContent
  Found <- MCFound
  Handlers = {h1}
  MaxWrites = 2
  MaxQueue = 2
  FaultKinds = {"break", "core", "proxy", "api"}
  MaxFaults = 1
CHECK_DEADLOCK FALSE
INVARIANTS TypeOK MemberOwned CompleteIsTrue
PROPERTIES NoResurrection EventuallySynced EventuallyReleased
