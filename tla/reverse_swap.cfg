SPECIFICATION Spec
CONSTANTS
  Swaps = {s1}
  StartHeight = 2
  MaxHeight = 6
  LocktimeDelta = 2
  RedeemDelay = 1
  MaxSubmits = 2
  Faults = {"crash", "rpc"}
  MaxFaults = 1
  Prompt = TRUE
INVARIANTS
  TypeOK
  RevealedForPayment
  NoProviderLoss
  OneCallPerSubmit
PROPERTY PaysOnlyStoredSwaps
CHECK_DEADLOCK FALSE
