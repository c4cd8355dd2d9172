CONSTANTS
  Node = {"a", "b"}
  Rail = {1}
  NoRail = NoRail
  NoMsg = NoMsg
  HelloRetries = 2
  TunnelRetries = 2
  ReadyRetries = 4
  SlowProbe = TRUE
  MaxLost = 1
  MaxLate = 0
  MaxTunnelFails = 1
  MaxEarly = 1
SPECIFICATION FairSpec
INVARIANTS
  ReadyIsPublished
  PublishedEndToEnd
PROPERTIES
  NoRefillInUse
  RailsComeUp
CHECK_DEADLOCK FALSE
