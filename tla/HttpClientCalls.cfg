SPECIFICATION FairSpec
CONSTANTS
  r1 = r1
  r2 = r2
  r3 = r3
  s1 = s1
  s2 = s2
  s3 = s3
  s4 = s4
  NoSlot = NoSlot
  Requests <- TwoRequests
  Slots <- ThreeSlots
  PoolSize = 1
  InFlight = {1, 2}
CHECK_DEADLOCK FALSE
INVARIANT
  NoneIsLost
  DefinedAlone
PROPERTY
  CallsEnd
