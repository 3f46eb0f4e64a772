SPECIFICATION FairSpec
CONSTANTS
  None = None
  Keys <- MCKeys
  Values <- MCValues
  Content <- MCContent
  Found = {}
  Handlers = {h1}
  MaxWrites = 2
  MaxQueue = 1
  FaultKinds = {"break"}
  MaxFaults = 0
CHECK_DEADLOCK FALSE
PROPERTIES EventuallyRemoved
