SPECIFICATION FairSpec
CONSTANTS
  Swaps = {s1}
  StartHeight = 2
  MaxHeight = 6
  LocktimeDelta = 3
  RedeemDelay = 0
  MaxSubmits = 1
  Faults = {"crash", "rpc"}
  MaxFaults = 1
  Prompt = TRUE
PROPERTIES
  FundedIsClaimed
  PaymentEnds
  WatchEnds
CHECK_DEADLOCK FALSE
