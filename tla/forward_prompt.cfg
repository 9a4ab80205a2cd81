SPECIFICATION Spec
CONSTANTS
  m1 = m1
  m2 = m2
  m3 = m3
  p1 = p1
  n1 = n1
  q1 = q1
  InvoiceOf <- MCInvoiceOf
  Covering <- MCCovering
  NumSwaps = 1
  Htlcs = {m1, m2, p1}
  MinFinalCltv = 4
  MaxHeight = 6
  StartHeight = 2
  LocktimeDelta = 2
  RedeemDelay = 1
  CltvDeltas = {3, 4}
  Faults = {"rpc"}
  MaxFaults = 1
  Prompt = TRUE
  ReplayFirst = TRUE
  MaxDowntime = 0
INVARIANTS
  TypeOK
  LockupWatched
  NoProviderLoss
  PrepayBuysSwap
  HtlcsOutliveLocktime
  RefundKeyStored
CHECK_DEADLOCK FALSE
