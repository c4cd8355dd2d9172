CONSTANTS
  Conf <- MCConf
  MaxWr = 2
  MaxQp = 2
SPECIFICATION FairSpec
INVARIANTS
  PathHasOneOwner
  FreedQpQuiet
  OkMeansSent
  RxExact
PROPERTIES
  TimeoutStopsAdmission
  DestroyTerminates
  SendsComplete
CHECK_DEADLOCK FALSE
