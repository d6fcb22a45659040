SPECIFICATION BridgeSpec
CONSTANTS
  b1 = b1 b2 = b2 s1 = s1 p1 = p1
  None = None
  Calls <- AllCalls
  Streaming <- SomeStreams
  BridgeCalls <- Bridging
  Urls <- OneUrl
  Card <- Cards
  Routes <- SomeRoutes
  Words <- SomeWords
  Loads <- SomeLoads
  MaxWire = 2
  MaxParts = 2
  MaxCrash = 1
INVARIANTS OkIsCompleted EndIsTold ConfirmedIsHandled
PROPERTIES AllConfirmed
CHECK_DEADLOCK FALSE
