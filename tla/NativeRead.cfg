CONSTANTS
  MaxReads = 3
  MaxFrags = 2
  Depth = 2
  MaxRetries = 2
  Confs <- MCConfs
SPECIFICATION FairSpec
INVARIANTS OkMeansRead AccountsExact
PROPERTIES ReadsSettle CleanRuns DestroyTerminates
CHECK_DEADLOCK FALSE
