SPECIFICATION FairSpec
CONSTANTS
  MaxReconnectAttempts = 2
  ReconnectInterval = 25
  PingMayFail <- PingFails
  AppMay <- NoExtras
  MaxCalls = 2
  MaxLosses = 1
  MaxPosted = 0
  MaxDue = 1
CHECK_DEADLOCK FALSE
PROPERTY
  AlwaysSettles
