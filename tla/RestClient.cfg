SPECIFICATION FairSpec
CONSTANTS
  c1 = c1
  c2 = c2
  Calls <- TwoCalls
  Does <- AnyAndAnOrder
  NewOrders <- Two
  Gateway <- Proxies
  Statuses = {"NEW", "FILLED"}
  Garbled = {"ping"}
  Rehashes = {1, 14}
  CopyKeeps = TRUE
  Funds = 2
  MaxFaults = 1
  MaxCalls = 2
CHECK_DEADLOCK FALSE
INVARIANT
  SequentialIsExact
  SignedIsAccepted
  OrdersAreAsRequested
  AnswersAreTrue
  ViewsAgree
PROPERTY
  OnlyNamedIsCancelled
  CallsEnd
