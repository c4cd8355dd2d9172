CONSTANTS
  c1 = c1
  r1 = r1
  s1 = s1
  p1 = p1
  a1 = a1
  a2 = a2
  NoMsg = NoMsg
  CreditBatch = 2
  MaxThreads = 2
  Rails <- LiveRails
SPECIFICATION FairSpec
PROPERTY
  QueueDrains
CHECK_DEADLOCK FALSE
