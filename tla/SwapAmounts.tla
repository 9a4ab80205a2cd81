---------------------------- MODULE SwapAmounts -----------------------------
(***************************************************************************)
(* The arithmetic of a swap: chain fees, the two directions of the price,  *)
(* the split into swap and prepay invoice, and the capacity of the node.   *)
(* Python's None is NoAmount.  self.percentage is a float; what it         *)
(* deviates from the configured rate shows only where the exact fee is a   *)
(* whole number, and FloatError says in which direction it deviates.       *)
(***************************************************************************)
EXTENDS Integers, FiniteSetsExt

CONSTANTS
    FeeNum, FeeDen,  \* swapserver_fee_millionths / 1000000 in lowest terms
    FloatError,      \* sign of float(swapserver_fee_millionths) / 10000 - exact
    TargetBlocks,    \* confirmation_speed_target_blocks
    FallbackFee,     \* fallback_fee_sat_per_vb
    MinAmount,       \* SwapManager._min_amount
    MaxAmount        \* SwapManager._max_amount

ASSUME AmountsAssumption ==
    /\ FeeNum \in Nat /\ FeeDen \in Nat /\ FeeNum < FeeDen
    /\ FloatError \in {-1, 0, 1}
    /\ TargetBlocks \in 1..199 /\ FallbackFee \in 10..300
    /\ MinAmount \in Nat \ {0} /\ MaxAmount \in Nat

NoAmount == -1

\* math.ceil of a quotient that is exact, and of one that is off by the float.
CeilDiv(a, b) == -((-a) \div b)
FloatCeil(a, b) == CeilDiv(a, b) + IF FloatError = 1 /\ a > 0 /\ a % b = 0 THEN 1 ELSE 0

DustThreshold == CeilDiv(182 * 3 * 1000, 1000)

ClaimFeeSize == 136
LockupFeeSize == 153

\* The estimate for the largest number of blocks within the target, the first
\* of several; the configured fallback when lightningd has none or fails.
Usable(estimates) == {i \in DOMAIN estimates : estimates[i].blockcount \in 1..TargetBlocks}

FeePerKvb(estimates) ==
    IF Usable(estimates) = {} THEN 1000 * FallbackFee
    ELSE LET widest == Max({estimates[i].blockcount : i \in Usable(estimates)})
         IN  estimates[Min({i \in Usable(estimates) : estimates[i].blockcount = widest})].smoothed

ChainFee(feerate, size) == CeilDiv(feerate * size, 1000)

\* What the pairs of server_update_pairs are made of.
Quote(feerate) == [normal |-> ChainFee(feerate, ClaimFeeSize),
                   lockup |-> ChainFee(feerate, LockupFeeSize),
                   claim  |-> ChainFee(feerate, ClaimFeeSize)]

InRange(x) == MinAmount <= x /\ x <= MaxAmount

PercentageFee(x) == FloatCeil(x * FeeNum, FeeDen)

\* Mutant: the lockup transaction is paid by the provider.
RecvWithoutFee(lightning, quote) ==
    LET onchain == lightning - PercentageFee(lightning)
    IN  IF InRange(lightning) /\ onchain >= DustThreshold THEN onchain ELSE NoAmount

\* What the client gets on chain for an amount it pays over Lightning.
RecvReverse(lightning, quote) ==
    LET onchain == lightning - PercentageFee(lightning) - quote.lockup
    IN  IF InRange(lightning) /\ onchain >= DustThreshold THEN onchain ELSE NoAmount

\* What it must pay over Lightning to get an amount on chain.
SendReverse(onchain, quote) ==
    LET lightning == FloatCeil((onchain + quote.lockup) * FeeDen, FeeDen - FeeNum)
    IN  IF onchain # 0 /\ InRange(lightning) THEN lightning ELSE NoAmount

\* What the client gets over Lightning for an amount it pays on chain.
RecvForward(onchain, quote) ==
    LET left == onchain - quote.normal
        lightning == left - FloatCeil(left * FeeNum, FeeDen + FeeNum)
    IN  IF InRange(lightning) THEN lightning ELSE NoAmount

\* What it must pay on chain to get an amount over Lightning.
SendForward(lightning, quote) ==
    IF lightning # 0 /\ InRange(lightning)
    THEN lightning + PercentageFee(lightning) + quote.normal ELSE NoAmount

\* The amounts of the two invoices of a forward swap.
PrepayAmount(claimFee) == 2 * claimFee
InvoiceAmount(lightning, claimFee) == lightning - PrepayAmount(claimFee)

\* Capacity: nine tenths of the sums, in whole satoshis.
Receivable(channels) ==
    (MapThenSumSet(LAMBDA c : channels[c].total - channels[c].ours,
                  {c \in DOMAIN channels : channels[c].connected}) * 9) \div 10000
Sendable(channels) ==
    (MapThenSumSet(LAMBDA c : channels[c].ours,
                  {c \in DOMAIN channels : channels[c].connected}) * 9) \div 10000
BalanceSat(outputs) ==
    (MapThenSumSet(LAMBDA o : outputs[o].msat \div 1000,
                  {o \in DOMAIN outputs : outputs[o].confirmed /\ ~outputs[o].reserved}) * 9) \div 10

-----------------------------------------------------------------------------
(* Reference laws of the prices, for the quotes and amounts of an instance. *)

\* An amount the client is told to send buys at least what it asked for, and
\* is at most two satoshis more than the least amount that does: the ceilings
\* on both ways must not add up to a swap that is sold below its price.
BuysWanted(Send(_, _), Recv(_, _), quote, wanted, slack) ==
    LET sent == Send(wanted, quote)
    IN  sent # NoAmount /\ Recv(sent, quote) # NoAmount =>
            /\ Recv(sent, quote) >= wanted
            /\ Recv(sent - slack, quote) # NoAmount => Recv(sent - slack, quote) < wanted
=============================================================================
