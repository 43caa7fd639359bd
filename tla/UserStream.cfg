SPECIFICATION FairSpec
CONSTANTS
  QueueCapacity = 2
  Callbacks <- OnlyReports
  AppMay <- Everything
  MaxStarts = 2
  MaxMessages = 3
CHECK_DEADLOCK FALSE
INVARIANT
  RenewsLiveKey
  KeysAreReturned
  RestIsQuiet
  
  InOrder
PROPERTY
  StopEnds
