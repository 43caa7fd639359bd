SPECIFICATION Spec
CONSTANTS
  r1 = r1
  r2 = r2
  r3 = r3
  s1 = s1
  s2 = s2
  s3 = s3
  s4 = s4
  NoSlot = NoSlot
  Requests <- ThreeRequests
  Slots <- FourSlots
  PoolSize = 2
  InFlight = {3}
SYMMETRY Symmetry
CHECK_DEADLOCK FALSE
INVARIANT
  TypeOK
  IdleIsClean
  OneUser
  PoolBounded
