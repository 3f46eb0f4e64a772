SPECIFICATION FairSpec
CONSTANTS
  Streams = {s1, s2}
  None = None
  Workers = {w1}
  OnlineExpiration = 1
  EntryNeverExpires = TRUE
  FaultKinds = {"break"}
  MaxFaults = 1
PROPERTIES EventuallyReplaced
