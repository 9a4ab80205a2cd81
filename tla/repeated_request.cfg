SPECIFICATION Spec
CONSTANTS
  FeeNum = 1
  FeeDen = 100
  FloatError = 0
  TargetBlocks = 10
  FallbackFee = 120
  MinAmount = 20000
  MaxAmount = 10000000
  h1 = h1
  h2 = h2
  Htlcs = {}
  Nodes <- MCNodes
  Requests = {"swap", "again", "small"}
  Request <- MCRequest
  MaxHandled = 2
  MaxRestarts = 0
  Redelivery = TRUE
  Estimates <- MCEstimates
  Funds <- MCFunds
INVARIANTS
  ReplyIsBacked
CHECK_DEADLOCK FALSE
