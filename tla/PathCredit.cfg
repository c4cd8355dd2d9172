CONSTANTS
  RxRingSize = 9
  ControlReserve = 2
  Batch = 3
  MaxGroup = 6
  MaxLost = 2
  MaxRefused = 1
SPECIFICATION FairSpec
INVARIANTS
  CreditConservation
  NoRxOverrun
  NoCreditStall
PROPERTY
  GroupIsSent
CHECK_DEADLOCK FALSE
