SPECIFICATION Spec
CONSTANTS
  MaxReconnectAttempts = 3
  ReconnectInterval = 25
  PingMayFail <- ReadFails
  AppMay <- Reuse
  MaxCalls = 3
  MaxLosses = 0
  MaxPosted = 0
  MaxDue = 1
CHECK_DEADLOCK FALSE
INVARIANT
  ConnectedIsServed
