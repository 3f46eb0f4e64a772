SPECIFICATION FairSpec
CONSTANTS
  Clusters = {c1, c2}
  None = None
  Overridden = {c2}
  Phases = {"Complete"}
  MaxEvents = 1
  MaxEntries = 3
CHECK_DEADLOCK FALSE
INVARIANTS TypeOK
PROPERTIES NoGoingBack EventuallyExact EventuallyGone EventuallyCleared
