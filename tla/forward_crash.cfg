SPECIFICATION Spec
CONSTANTS
  m1 = m1
  m2 = m2
  m3 = m3
  p1 = p1
  n1 = n1
  q1 = q1
  InvoiceOf <- MCInvoiceOf
  Covering <- MCCovering
  NumSwaps = 1
  Htlcs = {m1, m3, p1}
  MinFinalCltv = 4
  MaxHeight = 4
  StartHeight = 2
  LocktimeDelta = 2
  RedeemDelay = 1
  CltvDeltas = {4}
  Faults = {"crash"}
  MaxFaults = 1
  Prompt = TRUE
  ReplayFirst = FALSE
  MaxDowntime = 0
INVARIANTS
  FundedOnce
  SettledBeforeFunded
  ResolvedOnlyIfClaimed
CHECK_DEADLOCK FALSE
