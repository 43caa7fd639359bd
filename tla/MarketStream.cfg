SPECIFICATION FairSpec
CONSTANTS
  QueueCapacity = 2
  Methods <- SomeMethods
  AppMay <- Everything
  MaxMessages = 4
CHECK_DEADLOCK FALSE
INVARIANT
  InOrder
  
  GoneIsQuiet
PROPERTY
  KeptIsDelivered
  DestructionEnds
