CONSTANTS
  n1 = n1
  n2 = n2
  a1 = a1
  q1 = q1
  q2 = q2
  Nobody = Nobody
  Native <- MCNative
  Apple <- MCApple
  Qps <- MCQps
  Confs <- MCConfs
SPECIFICATION FairSpec
INVARIANTS
  RailRefsSafe
  DevicesFollowRails
  NetdevReleased
PROPERTIES
  ReadyIsPublished
  TeardownTerminates
CHECK_DEADLOCK FALSE
