SPECIFICATION FairSpec
CONSTANTS
  FeeNum = 1
  FeeDen = 100
  FloatError = 0
  TargetBlocks = 10
  FallbackFee = 120
  MinAmount = 20000
  MaxAmount = 10000000
  h1 = h1
  h2 = h2
  Htlcs = {a1, a2}
  Nodes <- MCNodes
  Requests = {"swap", "normal", "old", "bad", "reply", "reply2"}
  Request <- MCRequest
  MaxHandled = 2
  MaxRestarts = 1
  Redelivery = FALSE
  Estimates <- MCEstimates
  Funds <- MCFunds
INVARIANTS
  TypeOK
  ReplyIsBacked
  PricesAddUp
PROPERTIES
  BufferedIsHanded
  Answered
  OffersComeBack
CHECK_DEADLOCK FALSE
