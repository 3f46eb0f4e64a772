SPECIFICATION FairSpec
CONSTANTS
  Clusters <- MCClusters
  Inputs <- MCInputs
CHECK_DEADLOCK FALSE
INVARIANTS TypeOK WithinBounds NothingLost ExactOrExhausted ReplacementOnline
PROPERTIES Terminates
