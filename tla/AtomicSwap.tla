----------------------------- MODULE AtomicSwap -----------------------------
(***************************************************************************)
(* What a forward swap promises, seen from outside: the order in which the *)
(* two payments over Lightning and the two transactions on chain can       *)
(* happen.  No invoices, threads, polls or storage: only who holds what.   *)
(* ForwardSwap implements it as long as the plugin does not crash.         *)
(***************************************************************************)
CONSTANT Swaps

VARIABLES
    paid,     \* the provider holds HTLCs worth the swap invoice
    feePaid,  \* it has settled the prepayment of the mining fees
    locked,   \* the lockup output exists
    spentBy,  \* what spends it: "nobody", "claim", "refund"
    settled   \* it has released HTLCs of them with the preimage

vars == <<paid, feePaid, locked, spentBy, settled>>

Init ==
    /\ paid = [s \in Swaps |-> FALSE]
    /\ feePaid = [s \in Swaps |-> FALSE]
    /\ locked = [s \in Swaps |-> FALSE]
    /\ spentBy = [s \in Swaps |-> "nobody"]
    /\ settled = [s \in Swaps |-> FALSE]

\* The client pays, perhaps in parts; this is the part that completes it.
Pay(s) ==
    /\ ~paid[s]
    /\ paid' = [paid EXCEPT ![s] = TRUE]
    /\ UNCHANGED <<feePaid, locked, spentBy, settled>>

\* The provider may give the payment back as long as it has not taken the fees.
GiveBack(s) ==
    /\ paid[s] /\ ~feePaid[s]
    /\ paid' = [paid EXCEPT ![s] = FALSE]
    /\ UNCHANGED <<feePaid, locked, spentBy, settled>>

\* It takes the fees when it has the payment.
TakeFees(s) ==
    /\ paid[s] /\ ~feePaid[s]
    /\ feePaid' = [feePaid EXCEPT ![s] = TRUE]
    /\ UNCHANGED <<paid, locked, spentBy, settled>>

\* It locks its coins once, when it has payment and fees.
Lock(s) ==
    /\ paid[s] /\ feePaid[s] /\ ~locked[s]
    /\ locked' = [locked EXCEPT ![s] = TRUE]
    /\ UNCHANGED <<paid, feePaid, spentBy, settled>>

\* The client takes the coins and shows the preimage; while the refund is not
\* confirmed it may still replace it.
Claim(s) ==
    /\ locked[s] /\ spentBy[s] # "claim"
    /\ spentBy' = [spentBy EXCEPT ![s] = "claim"]
    /\ UNCHANGED <<paid, feePaid, locked, settled>>

\* The provider takes the coins back if nobody has them.
Refund(s) ==
    /\ locked[s] /\ spentBy[s] = "nobody"
    /\ spentBy' = [spentBy EXCEPT ![s] = "refund"]
    /\ UNCHANGED <<paid, feePaid, locked, settled>>

\* It releases the payment with the preimage of the claim.
Settle(s) ==
    /\ paid[s] /\ spentBy[s] = "claim" /\ ~settled[s]
    /\ settled' = [settled EXCEPT ![s] = TRUE]
    /\ UNCHANGED <<paid, feePaid, locked, spentBy>>

Next ==
    \E s \in Swaps :
       \/ Pay(s) \/ GiveBack(s) \/ TakeFees(s) \/ Lock(s)
       \/ Claim(s) \/ Refund(s) \/ Settle(s)

Spec == Init /\ [][Next]_vars
=============================================================================
