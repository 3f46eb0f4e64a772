SPECIFICATION FairSpec
CONSTANTS
  p1 = p1
  p2 = p2
  n1 = n1
  n2 = n2
  Plugins = {p1, p2}
  Names = {n1, n2}
  Configs <- MCConfigs
  MaxRounds = 2
CHECK_DEADLOCK FALSE
INVARIANT TypeOK
PROPERTIES OwnAnswers EventuallyReturns
