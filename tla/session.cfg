SPECIFICATION Spec
CONSTANTS
  Streams = {s1, s2, s3}
  None = None
  Workers = {w1, w2}
  OnlineExpiration = 2
  EntryNeverExpires = TRUE
  FaultKinds = {"break", "api", "dial", "delete", "touch"}
  MaxFaults = 1
SYMMETRY Symmetry
INVARIANTS TypeOK ReaderHoldsStream SuccessMeansListed
PROPERTIES ImplementsLiveness
