SPECIFICATION Spec
CONSTANTS
  MaxReconnectAttempts = 3
  ReconnectInterval = 25
  PingMayFail <- PingFails
  AppMay <- Extras
  MaxCalls = 2
  MaxLosses = 2
  MaxPosted = 1
  MaxDue = 1
CHECK_DEADLOCK FALSE
INVARIANT
  TypeOK
  ConnectedIsOpen
  ConnectedIsServed
  BackoffSchedule
PROPERTY
  ImplementsSession
