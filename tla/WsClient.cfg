SPECIFICATION ClientFairSpec
CONSTANTS
  Subs <- SharedSubs
  Name <- SharedName
  Normal <- SharedNormal
  FramesPerTurn = 2
  MaxCalls = 4
  MaxNews = 2
INVARIANTS
  ClientInv
  NoIdleSubscription
PROPERTIES
  RequestsSettle
CHECK_DEADLOCK FALSE
