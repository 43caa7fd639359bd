SPECIFICATION Spec
CONSTANTS
  r1 = r1
  r2 = r2
  r3 = r3
  s1 = s1
  s2 = s2
  s3 = s3
  s4 = s4
  NoSlot = NoSlot
  Requests <- TwoRequests
  Slots <- ThreeSlots
  PoolSize = 2
  InFlight = {2}
CHECK_DEADLOCK FALSE
INVARIANT
  Defined
