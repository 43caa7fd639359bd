SPECIFICATION FairSpec
CONSTANTS
  MaxReconnectAttempts = 2
  ReconnectInterval = 25
  PingMayFail <- EitherFails
  AppMay <- NoExtras
  MaxCalls = 2
  MaxLosses = 2
  MaxPosted = 0
  MaxDue = 1
CHECK_DEADLOCK FALSE
INVARIANT
  OneLifeline
PROPERTY
  ConnectEnds
  DisconnectReturns
  LossIsHandled
  Settles
