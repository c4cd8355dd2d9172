CONSTANTS
  c1 = c1
  r1 = r1
  s1 = s1
  p1 = p1
  a1 = a1
  a2 = a2
  NoMsg = NoMsg
  CreditBatch = 2
  MaxThreads = 2
  Rails <- MCRails
SPECIFICATION Spec
INVARIANTS
  CountersExact
  WireOrder
  DmaKeepsOwner
  QuiescedIsQuiet
PROPERTY
  RawStreamUnbroken
CHECK_DEADLOCK FALSE
