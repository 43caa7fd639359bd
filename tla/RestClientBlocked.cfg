SPECIFICATION FairSpec
CONSTANTS
  c1 = c1
  c2 = c2
  Calls <- TwoCalls
  Does <- MarketData
  NewOrders <- Two
  Gateway <- Proxies
  Statuses = {"NEW", "FILLED"}
  Garbled = {}
  Rehashes = {1, 14}
  CopyKeeps = TRUE
  Funds = 1
  MaxFaults = 1
  MaxCalls = 2
CHECK_DEADLOCK FALSE
PROPERTY
  FuturesResolve
