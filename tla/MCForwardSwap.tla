--------------------------- MODULE MCForwardSwap ----------------------------
(***************************************************************************)
(* Instances of ForwardSwap for TLC: the HTLCs, the hash each of them      *)
(* pays, and amounts from which the covering sets follow.                  *)
(***************************************************************************)
EXTENDS ForwardSwap, FiniteSetsExt

CONSTANTS m1, m2, m3, p1, n1, q1   \* HTLCs

\* m1, m2, m3 pay the first swap, p1 its prepay invoice; n1 and q1 those of
\* the second swap.
MCInvoiceOf == [h \in Htlcs |-> IF h \in {m1, m2, m3} THEN Main(1)
                                ELSE IF h = p1 THEN Prepay(1)
                                ELSE IF h = n1 THEN Main(2) ELSE Prepay(2)]

AmountMsat(h) == IF h \in {m1, m2} THEN 1 ELSE 2
InvoiceMsat(i) == 2

MCCovering == [i \in Hashes |-> {D \in SUBSET Htlcs :
                  MapThenSumSet(AmountMsat, {h \in D : MCInvoiceOf[h] = i}) >= InvoiceMsat(i)}]
=============================================================================
