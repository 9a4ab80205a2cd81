SPECIFICATION Spec
CONSTANTS
  m1 = m1
  m2 = m2
  m3 = m3
  p1 = p1
  n1 = n1
  q1 = q1
  InvoiceOf <- MCInvoiceOf
  Covering <- MCCovering
  NumSwaps = 1
  Htlcs = {m3, p1}
  MinFinalCltv = 3
  MaxHeight = 5
  StartHeight = 2
  LocktimeDelta = 1
  RedeemDelay = 1
  CltvDeltas = {2, 3}
  Faults = {"rpc"}
  MaxFaults = 1
  Prompt = FALSE
  ReplayFirst = TRUE
  MaxDowntime = 0
INVARIANTS
  KeepsWhatPays
PROPERTY ImplementsAtomicSwap
CHECK_DEADLOCK FALSE
