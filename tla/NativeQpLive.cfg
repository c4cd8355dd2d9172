CONSTANTS
  Conf <- LiveConf
  Infinite = Infinite
  None = None
  PsnMod = 8
  FirstPsn = 7
  MaxWr = 2
  Window = 2
  History = 2
  RoCap = 3
  RqDepth = 2
  MaxRetries = 1
SPECIFICATION FairSpec
PROPERTY EveryPostSettles
CHECK_DEADLOCK FALSE
