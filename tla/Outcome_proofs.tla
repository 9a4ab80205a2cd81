--------------------------- MODULE Outcome_proofs ---------------------------
(***************************************************************************)
(* What becomes of the lockup output of a forward swap, for every number   *)
(* of swaps and HTLCs and every amount, if the plugin does not crash and   *)
(* its callback thread does not fall behind the locktime (FundsInTime):    *)
(*   - the key of the refund is stored until the output is spent, however  *)
(*     many calls fail;                                                    *)
(*   - as long as none has failed, the output is watched until then;       *)
(*   - and if blocks are slower than the plugin, the HTLCs that pay for a  *)
(*     claimed output are fulfilled or can still be.                       *)
(* With one swap, FundsInTime follows from blocks slower than the plugin.  *)
(* With more it does not: an invoice that the expiry thread cannot remove  *)
(* (PrepayLookupRaises) keeps it from all that come later in the order of  *)
(* the keys, and they stay payable after their locktime.                   *)
(***************************************************************************)
EXTENDS Payment_proofs

\* The callback thread settles a prepay invoice, and funds the swap, only before
\* the locktime of the swap.
FundsInTime == \A e \in handling : height < swaps[e[1]].locktime

-----------------------------------------------------------------------------
(* The entry of a swap, and with it the refund key *)

\* The entry of an unspent lockup output is in memory and in the database.
EntryKept == \A s \in Swaps : Unspent(s) => swaps[s].known /\ diskSwaps[s].known

\* A swap that is about to be published has its entry; the write that stores its
\* prepay invoice has stored the entry too.
HandledStored ==
    \A e \in handling :
       /\ e[2] = "broadcast" => swaps[e[1]].known
       /\ e[2] # "save" /\ swaps[e[1]].known => diskSwaps[e[1]].known

\* What is spent is there, what is there was funded, and is_redeemed is set for
\* what is spent.
ChainOrder ==
    \A s \in Swaps :
       /\ Locked(s) => fundings[s] > 0
       /\ spender[s] # "none" => Locked(s)
       /\ swaps[s].redeemed => spender[s] # "none"

\* A read of _claim_swap is of the past: what it has seen spent is spent, and a
\* lockup output it has missed at or after the locktime never comes.
ReadsPast ==
    \A c \in claim :
       /\ c.height <= height
       /\ c.spender # "none" => spender[c.swap] # "none"
       /\ c.step = "cleanup" => c.spender = "claim"
       /\ c.lockup = "none" /\ c.height >= swaps[c.swap].locktime => ~Locked(c.swap)

StoredInv == EntryKept /\ HandledStored /\ ChainOrder /\ ReadsPast

\* The coroutine has just read the chain.
JustRead(c) ==
    /\ c.step = "act" /\ c.height = height
    /\ c.lockup = lockup[c.swap] /\ c.spender = spender[c.swap]
    /\ c.spentAt = spentAt[c.swap]

LEMMA HandledUnlocked ==
    ASSUME FundingInv, ChainOrder, NEW e \in handling, e[1] \in Swaps PROVE ~Locked(e[1])
  BY DEF FundingInv, HandlingOwns, ChainOrder

LEMMA HandlingType == ASSUME TypeOK PROVE \A e \in handling : e[1] \in Swaps /\ e[2] \in HandlerSteps
  BY DEF TypeOK, InvoiceTypeOK

LEMMA ClaimedType == ASSUME TypeOK PROVE \A c \in claim : c \in Reads /\ c.swap \in Swaps
  BY DEF TypeOK, SwapTypeOK, Reads

\* Steps that leave the entries in memory alone, and publish nothing.
LEMMA SameEntriesKeepStored ==
    ASSUME TypeOK, TypeOK', StoredInv, height' >= height,
           UNCHANGED <<swaps, fundings>>, diskSwaps' \in {swaps, diskSwaps},
           \A s \in Swaps : Locked(s)' <=> Locked(s),
           \A s \in Swaps : spender'[s] = spender[s] \/ (Locked(s) /\ spender'[s] # "none"),
           \A c \in claim' : c \in claim \/ JustRead(c),
           \A e \in handling' :
              \/ e \in handling
              \/ e[2] = "save"
              \/ e[2] = "call" /\ diskSwaps' = swaps
              \/ e[2] = "broadcast" /\ <<e[1], "call">> \in handling /\ swaps[e[1]].known
    PROVE  StoredInv'
<1>t. /\ height \in Nat /\ height' \in Nat
      /\ \A e \in handling' : e[1] \in Swaps
      /\ \A c \in claim' : c.swap \in Swaps /\ c.height \in Nat
  BY DEF TypeOK, InvoiceTypeOK, SwapTypeOK, Heights, Reads
<1>1. EntryKept'
  BY DEF StoredInv, EntryKept, Unspent, Locked
<1>2. HandledStored'
  <2> SUFFICES ASSUME NEW e \in handling'
               PROVE  /\ e[2] = "broadcast" => swaps[e[1]].known
                      /\ e[2] # "save" /\ swaps[e[1]].known => diskSwaps'[e[1]].known
    BY DEF HandledStored
  <2>1. CASE e \in handling
    BY <2>1 DEF StoredInv, HandledStored
  <2>2. CASE e[2] = "save" \/ (e[2] = "call" /\ diskSwaps' = swaps)
    BY <2>2
  <2>3. CASE e[2] = "broadcast" /\ <<e[1], "call">> \in handling /\ swaps[e[1]].known
    <3> DEFINE d == <<e[1], "call">>
    <3>1. d[1] = e[1] /\ d[2] = "call" /\ d \in handling
      BY <2>3
    <3> HIDE DEF d
    <3>2. diskSwaps[e[1]].known
      BY <2>3, <3>1 DEF StoredInv, HandledStored
    <3> QED
      BY <2>3, <3>2
  <2> QED
    BY <2>1, <2>2, <2>3
<1>3. ChainOrder'
  BY DEF StoredInv, ChainOrder
<1>4. ReadsPast'
  <2> SUFFICES ASSUME NEW c \in claim'
               PROVE  /\ c.height <= height'
                      /\ c.spender # "none" => spender'[c.swap] # "none"
                      /\ c.step = "cleanup" => c.spender = "claim"
                      /\ c.lockup = "none" /\ c.height >= swaps[c.swap].locktime
                            => ~Locked(c.swap)'
    BY DEF ReadsPast
  <2>1. CASE c \in claim
    BY <1>t, <2>1 DEF StoredInv, ReadsPast
  <2>2. CASE JustRead(c)
    BY <1>t, <2>2 DEF JustRead, Locked
  <2> QED
    BY <2>1, <2>2
<1> QED
  BY <1>1, <1>2, <1>3, <1>4 DEF StoredInv

-----------------------------------------------------------------------------
(* What the steps do to the entries *)

\* The lockup output is spent, or it never comes: the swap is over.
Ended(s) == spender[s] # "none" \/ (~Locked(s) /\ height >= swaps[s].locktime)

\* A _claim_swap past its reads drops the entry, and the chain callback, only of
\* a swap that is over, and it changes nothing for a swap that the callback
\* thread is about to fund.
ClaimEffect(c) ==
    /\ UNCHANGED <<height, created, creating, pass, handling, lockup, fundings, faults>>
    /\ callbacks' \subseteq callbacks
    /\ \A t \in Swaps : spender'[t] = spender[t] \/ (Locked(t) /\ spender'[t] # "none")
    /\ \A d \in claim' : d = [c EXCEPT !.step = "cleanup"] /\ c.spender = "claim"
    /\ \A t \in Swaps \ {c.swap} : swaps'[t] = swaps[t]
    /\ diskSwaps' \in {diskSwaps, swaps'}
    /\ swaps'[c.swap].locktime = swaps[c.swap].locktime
    /\ swaps'[c.swap].redeemed => swaps[c.swap].redeemed \/ spender[c.swap] # "none"
    /\ \/ watched' = watched /\ (swaps[c.swap].known => swaps'[c.swap].known)
       \/ watched' = watched \ {c.swap} /\ Ended(c.swap)
    /\ c.swap \in {e[1] : e \in handling} => swaps' = swaps

LEMMA FailSwapEntry ==
    ASSUME SwapTypeOK, NEW s \in Swaps, NEW sw \in SwapData, FailSwap(s, sw)
    PROVE  /\ watched' = watched \ {s}
           /\ \A t \in Swaps \ {s} : swaps'[t] = swaps[t]
           /\ diskSwaps' \in {diskSwaps, swaps'}
           /\ swaps'[s].locktime = sw.locktime /\ swaps'[s].redeemed = sw.redeemed
           /\ swaps'[s].known => sw.known
           /\ sw.known /\ sw.funded /\ ~sw.redeemed => swaps'[s].known
<1>1. watched' = watched \ {s} /\ diskSwaps' \in {diskSwaps, swaps'}
  BY DEF FailSwap, WriteAll
<1>2. swaps' = [swaps EXCEPT ![s] = [sw EXCEPT !.known = @ /\ (sw.funded /\ ~sw.redeemed)]]
  BY DEF FailSwap
<1>3. \A t \in Swaps \ {s} : swaps'[t] = swaps[t]
  BY <1>2 DEF SwapTypeOK
<1>4. swaps'[s] = [sw EXCEPT !.known = @ /\ (sw.funded /\ ~sw.redeemed)]
  BY <1>2 DEF SwapTypeOK
<1>5. /\ swaps'[s].locktime = sw.locktime /\ swaps'[s].redeemed = sw.redeemed
      /\ swaps'[s].known = (sw.known /\ (sw.funded /\ ~sw.redeemed))
  BY <1>4 DEF SwapData
<1> QED
  BY <1>1, <1>3, <1>5

\* What _claim_swap may set in an entry.
LEMMA EntryFields ==
    ASSUME SwapTypeOK, NEW s \in Swaps
    PROVE  /\ Funded(s).known /\ WithPreimage(s).known
           /\ Funded(s).redeemed = swaps[s].redeemed
           /\ WithPreimage(s).redeemed = swaps[s].redeemed
<1>1. swaps[s] \in SwapData
  BY DEF SwapTypeOK
<1> QED
  BY <1>1 DEF Funded, WithPreimage, SwapData

\* A step that only changes the entry in memory.
LEMMA KeptEntry ==
    ASSUME TypeOK, NEW s \in Swaps, NEW sw \in SwapData, swaps' = [swaps EXCEPT ![s] = sw]
    PROVE  swaps'[s] = sw /\ \A t \in Swaps \ {s} : swaps'[t] = swaps[t]
  BY DEF TypeOK, SwapTypeOK

LEMMA HandledTimely ==
    ASSUME FundingInv, PaymentInv, ChainOrder, FundsInTime, ReadsPast, TypeOK, NEW c \in claim,
           c.swap \in {e[1] : e \in handling}
    PROVE  /\ ~Locked(c.swap) /\ spender[c.swap] = "none"
           /\ c.lockup = "none" /\ c.step # "cleanup" /\ c.height < swaps[c.swap].locktime
<1>1. PICK e \in handling : e[1] = c.swap
  OBVIOUS
<1>2. c \in Reads /\ c.swap \in Swaps /\ height \in Nat /\ swaps[c.swap].locktime \in Nat
  BY DEF TypeOK, InvoiceTypeOK, SwapTypeOK, Reads, Heights, SwapData
<1>3. ~Locked(c.swap)
  BY <1>1, <1>2, HandledUnlocked
<1>4. spender[c.swap] = "none"
  BY <1>2, <1>3 DEF ChainOrder
<1>5. c.lockup = "none" /\ c.step # "cleanup"
  BY <1>2, <1>3 DEF PaymentInv, ClaimsLocked, Locked
<1>6. c.height <= height /\ height < swaps[c.swap].locktime
  BY <1>1 DEF ReadsPast, FundsInTime
<1>7. c.height \in Nat
  BY <1>2 DEF Reads, Heights
<1> QED
  BY <1>2, <1>3, <1>4, <1>5, <1>6, <1>7

LEMMA ClaimHasEffect ==
    ASSUME TypeOK, FundingInv, PaymentInv, StoredInv, FundsInTime, NEW c \in claim,
           \/ ClaimUnfunded(c.swap, c) \/ ClaimDrops(c.swap, c) \/ FinishSettles(c.swap, c)
           \/ FinishRaises(c.swap, c) \/ ClaimSeesRefund(c.swap, c)
           \/ ClaimRefunds(c.swap, c) \/ FinishCleansUp(c)
    PROVE  ClaimEffect(c)
<1> DEFINE s == c.swap
           handled == s \in {e[1] : e \in handling}
<1>0. /\ SwapTypeOK /\ s \in Swaps /\ swaps[s] \in SwapData
      /\ Funded(s) \in SwapData /\ WithPreimage(s) \in SwapData
      /\ [Funded(s) EXCEPT !.redeemed = TRUE] \in SwapData
  BY EntryType DEF TypeOK, SwapTypeOK, Reads
<1>l. /\ Funded(s).locktime = swaps[s].locktime
      /\ WithPreimage(s).locktime = swaps[s].locktime
      /\ [Funded(s) EXCEPT !.redeemed = TRUE].locktime = swaps[s].locktime
      /\ Funded(s).known /\ WithPreimage(s).known
      /\ Funded(s).redeemed = swaps[s].redeemed
      /\ WithPreimage(s).redeemed = swaps[s].redeemed
  BY <1>0, EntryLocktime, EntryFields
<1>h. handled => /\ c.lockup = "none" /\ c.step # "cleanup"
                 /\ c.height < swaps[s].locktime
  BY HandledTimely DEF StoredInv
<1>r. /\ c.spender # "none" => spender[s] # "none"
      /\ c.step = "cleanup" => c.spender = "claim"
      /\ c.lockup = "none" /\ c.height >= swaps[s].locktime => Ended(s)
  <2>1. /\ c.height \in Nat /\ height \in Nat /\ swaps[s].locktime \in Nat
    BY <1>0 DEF TypeOK, InvoiceTypeOK, SwapTypeOK, Reads, Heights, SwapData
  <2>2. /\ c.height <= height
        /\ c.spender # "none" => spender[s] # "none"
        /\ c.step = "cleanup" => c.spender = "claim"
        /\ c.lockup = "none" /\ c.height >= swaps[s].locktime => ~Locked(s)
    BY DEF StoredInv, ReadsPast
  <2> QED
    BY <2>1, <2>2 DEF Ended
<1> HIDE DEF handled, s
<1>f. ASSUME NEW sw \in SwapData, ClaimFails(s, sw), sw.locktime = swaps[s].locktime, Ended(s),
             sw.redeemed => swaps[s].redeemed \/ spender[s] # "none", ~handled
      PROVE  ClaimEffect(c)
  <2>1. /\ UNCHANGED <<height, created, creating, handling, lockup, fundings, spender, faults,
                       callbacks, pass>>
        /\ claim' = {} /\ FailSwap(s, sw)
    BY <1>f DEF ClaimFails, lock, requestVars, chainVars, faultVars
  <2>2. /\ watched' = watched \ {s}
        /\ \A t \in Swaps \ {s} : swaps'[t] = swaps[t]
        /\ diskSwaps' \in {diskSwaps, swaps'}
        /\ swaps'[s].locktime = sw.locktime /\ swaps'[s].redeemed = sw.redeemed
    BY <1>0, <2>1, FailSwapEntry
  <2> QED
    BY <1>f, <2>1, <2>2 DEF ClaimEffect, handled, s
<1>e. ASSUME NEW sw \in SwapData, ClaimEnds(s, sw), RefundBroadcast(s) \/ UNCHANGED chainVars,
             sw.locktime = swaps[s].locktime, sw.redeemed = swaps[s].redeemed,
             swaps[s].known => sw.known, handled => sw = swaps[s]
      PROVE  ClaimEffect(c)
  <2>1. /\ UNCHANGED <<height, created, creating, handling, lockup, fundings, faults,
                       callbacks, pass>>
        /\ claim' = {} /\ diskSwaps' = diskSwaps /\ watched' = watched
        /\ swaps' = [swaps EXCEPT ![s] = sw]
    BY <1>e DEF ClaimEnds, RefundBroadcast, invoiceVars, requestVars, chainVars, faultVars
  <2>2. \A t \in Swaps : spender'[t] = spender[t] \/ (Locked(t) /\ spender'[t] # "none")
    BY <1>0, <1>e DEF RefundBroadcast, chainVars, SwapTypeOK, Locked
  <2>3. swaps'[s] = sw /\ \A t \in Swaps \ {s} : swaps'[t] = swaps[t]
    BY <1>0, <2>1, KeptEntry
  <2>4. handled => swaps' = swaps
    BY <1>0, <1>e, <2>1 DEF SwapTypeOK
  <2> QED
    BY <1>e, <2>1, <2>2, <2>3, <2>4 DEF ClaimEffect, handled, s
<1>p. ASSUME swaps' = [swaps EXCEPT ![s] = WithPreimage(s)], ~handled,
             UNCHANGED <<height, created, creating, handling, lockup, fundings, spender, faults,
                         diskSwaps, watched, callbacks, pass>>,
             claim' = {} \/ (claim' = {[c EXCEPT !.step = "cleanup"]} /\ c.spender = "claim")
      PROVE  ClaimEffect(c)
  <2>1. swaps'[s] = WithPreimage(s) /\ \A t \in Swaps \ {s} : swaps'[t] = swaps[t]
    BY <1>0, <1>p, KeptEntry
  <2> QED
    BY <1>l, <1>p, <2>1 DEF ClaimEffect, handled, s
<1>1. CASE ClaimUnfunded(s, c)
  <2>1. CASE c.height >= swaps[s].locktime /\ ClaimFails(s, swaps[s])
    <3>1. ~handled
      <4>1. c.height \in Nat /\ swaps[s].locktime \in Nat
        BY <1>0 DEF TypeOK, SwapTypeOK, Reads, Heights, SwapData
      <4> QED
        BY <1>h, <2>1, <4>1
    <3> QED
      BY <1>0, <1>1, <1>f, <1>r, <2>1, <3>1 DEF ClaimUnfunded
  <2>2. CASE ClaimEnds(s, swaps[s]) /\ UNCHANGED chainVars
    BY <1>0, <1>e, <2>2
  <2> QED
    BY <1>1, <2>1, <2>2 DEF ClaimUnfunded
<1>2. CASE ClaimDrops(s, c)
  <2>1. c.lockup # "none" /\ c.spender # "none" /\ ClaimFails(s, [Funded(s) EXCEPT !.redeemed = TRUE])
    BY <1>2 DEF ClaimDrops, LongSpent
  <2> QED
    BY <1>0, <1>f, <1>h, <1>l, <1>r, <2>1 DEF Ended
<1>3. CASE ClaimSeesRefund(s, c)
  <2>1. c.lockup # "none" /\ c.spender # "none"
    BY <1>3 DEF ClaimSeesRefund
  <2>2. CASE ClaimFails(s, [Funded(s) EXCEPT !.redeemed = TRUE])
    BY <1>0, <1>f, <1>h, <1>l, <1>r, <2>1, <2>2 DEF Ended
  <2>3. CASE ClaimEnds(s, Funded(s)) /\ UNCHANGED chainVars
    BY <1>0, <1>e, <1>h, <1>l, <2>1, <2>3
  <2> QED
    BY <1>3, <2>2, <2>3 DEF ClaimSeesRefund
<1>4. CASE ClaimRefunds(s, c)
  <2>1. c.lockup # "none" /\ ClaimEnds(s, Funded(s)) /\ (RefundBroadcast(s) \/ UNCHANGED chainVars)
    BY <1>4 DEF ClaimRefunds
  <2> QED
    BY <1>0, <1>e, <1>h, <1>l, <2>1
<1>5. CASE FinishSettles(s, c) \/ FinishRaises(s, c)
  <2>1. /\ c.lockup # "none" /\ c.spender = "claim"
        /\ swaps' = [swaps EXCEPT ![s] = WithPreimage(s)]
        /\ UNCHANGED <<height, created, creating, handling, lockup, fundings, spender, faults,
                       diskSwaps, watched, callbacks, pass>>
        /\ claim' = {} \/ claim' = {[c EXCEPT !.step = "cleanup"]}
    BY <1>5 DEF FinishSettles, FinishRaises, Extracts, lock, requestVars, chainVars, faultVars
  <2> QED
    BY <1>h, <1>p, <2>1
<1>6. CASE FinishCleansUp(c)
  <2>1. /\ c.step = "cleanup" /\ claim' = {}
        /\ UNCHANGED <<height, created, creating, pass, handling, lockup, fundings, spender, faults>>
        /\ callbacks' \subseteq callbacks
        /\ watched' = watched \ {s} /\ diskSwaps' = swaps'
        /\ swaps' = [swaps EXCEPT ![s] = [swaps[s] EXCEPT !.known = FALSE]]
    BY <1>6 DEF FinishCleansUp, WriteAll, lock, requestVars, chainVars, faultVars, s
  <2>2. /\ [swaps[s] EXCEPT !.known = FALSE] \in SwapData
        /\ [swaps[s] EXCEPT !.known = FALSE].locktime = swaps[s].locktime
        /\ [swaps[s] EXCEPT !.known = FALSE].redeemed = swaps[s].redeemed
    <3>1. swaps[s] \in SwapData
      BY <1>0
    <3>2. [swaps[s] EXCEPT !.known = FALSE] \in SwapData
      BY <3>1, FieldsType
    <3> QED
      BY <3>1, <3>2 DEF SwapData
  <2>3. /\ swaps'[s] = [swaps[s] EXCEPT !.known = FALSE]
        /\ \A t \in Swaps \ {s} : swaps'[t] = swaps[t]
    BY <1>0, <2>1, <2>2, KeptEntry
  <2> QED
    BY <1>h, <1>r, <2>1, <2>2, <2>3 DEF ClaimEffect, Ended, handled, s
<1> QED
  BY <1>1, <1>2, <1>3, <1>4, <1>5, <1>6 DEF s

LEMMA ClaimKeepsStored ==
    ASSUME TypeOK, TypeOK', StoredInv, NEW c \in claim, ClaimEffect(c) PROVE StoredInv'
<1>t. c \in Reads /\ c.swap \in Swaps /\ \A e \in handling : e[1] \in Swaps
  BY DEF TypeOK, InvoiceTypeOK, SwapTypeOK, Reads
<1>1. UNCHANGED <<height, handling, lockup, fundings>>
  BY DEF ClaimEffect
<1>2. \A t \in Swaps : spender'[t] = spender[t] \/ (Locked(t) /\ spender'[t] # "none")
  BY DEF ClaimEffect
<1>3. \A t \in Swaps \ {c.swap} : swaps'[t] = swaps[t]
  BY DEF ClaimEffect
<1>4. diskSwaps' \in {diskSwaps, swaps'}
  BY DEF ClaimEffect
<1>5. EntryKept'
  <2> SUFFICES ASSUME NEW t \in Swaps, Unspent(t)' PROVE swaps'[t].known /\ diskSwaps'[t].known
    BY DEF EntryKept
  <2>1. Unspent(t) /\ swaps[t].known /\ diskSwaps[t].known
    BY <1>1, <1>2 DEF StoredInv, EntryKept, Unspent
  <2>2. swaps'[t].known
    <3>1. CASE t # c.swap
      BY <1>3, <2>1, <3>1
    <3>2. CASE t = c.swap
      <4>1. ~Ended(t)
        BY <2>1 DEF Ended, Unspent, Locked
      <4> QED
        BY <2>1, <3>2, <4>1 DEF ClaimEffect
    <3> QED
      BY <3>1, <3>2
  <2> QED
    BY <1>4, <2>1, <2>2
<1>6. HandledStored'
  <2> SUFFICES ASSUME NEW e \in handling
               PROVE  /\ e[2] = "broadcast" => swaps'[e[1]].known
                      /\ e[2] # "save" /\ swaps'[e[1]].known => diskSwaps'[e[1]].known
    BY <1>1 DEF HandledStored
  <2>1. swaps'[e[1]] = swaps[e[1]]
    <3>1. CASE e[1] # c.swap
      BY <1>t, <1>3, <3>1
    <3>2. CASE e[1] = c.swap
      BY <3>2 DEF ClaimEffect
    <3> QED
      BY <3>1, <3>2
  <2> QED
    BY <1>4, <2>1 DEF StoredInv, HandledStored
<1>7. ChainOrder'
  <2> SUFFICES ASSUME NEW t \in Swaps
               PROVE  /\ Locked(t)' => fundings'[t] > 0
                      /\ spender'[t] # "none" => Locked(t)'
                      /\ swaps'[t].redeemed => spender'[t] # "none"
    BY DEF ChainOrder
  <2>1. /\ Locked(t) => fundings[t] > 0
        /\ spender[t] # "none" => Locked(t)
        /\ swaps[t].redeemed => spender[t] # "none"
    BY DEF StoredInv, ChainOrder
  <2>2. swaps'[t].redeemed => swaps[t].redeemed \/ spender[t] # "none"
    BY <1>3 DEF ClaimEffect
  <2> QED
    BY <1>1, <1>2, <2>1, <2>2 DEF Locked
<1>8. ReadsPast'
  <2> SUFFICES ASSUME NEW d \in claim'
               PROVE  /\ d.height <= height
                      /\ d.spender # "none" => spender'[d.swap] # "none"
                      /\ d.step = "cleanup" => d.spender = "claim"
                      /\ d.lockup = "none" /\ d.height >= swaps'[d.swap].locktime
                            => ~Locked(d.swap)
    BY <1>1 DEF ReadsPast, Locked
  <2>1. d = [c EXCEPT !.step = "cleanup"] /\ c.spender = "claim"
    BY DEF ClaimEffect
  <2>2. /\ d.swap = c.swap /\ d.height = c.height /\ d.spender = c.spender
        /\ d.lockup = c.lockup
    BY <1>t, <2>1 DEF Reads
  <2>3. swaps'[c.swap].locktime = swaps[c.swap].locktime
    BY DEF ClaimEffect
  <2>4. /\ c.height <= height
        /\ c.spender # "none" => spender[c.swap] # "none"
        /\ c.lockup = "none" /\ c.height >= swaps[c.swap].locktime => ~Locked(c.swap)
    BY DEF StoredInv, ReadsPast
  <2> QED
    BY <1>t, <1>2, <2>1, <2>2, <2>3, <2>4
<1> QED
  BY <1>5, <1>6, <1>7, <1>8 DEF StoredInv

\* The entry of a new swap is not stored yet, and nothing is locked up for it.
LEMMA CreateKeepsStored ==
    ASSUME TypeOK, TypeOK', FundingInv, PaymentInv, StoredInv, NEW s \in Swaps, CreateInvoices(s)
    PROVE  StoredInv'
<1>1. /\ UNCHANGED <<height, handling, claim, lockup, fundings, spender>>
      /\ diskSwaps' = swaps
      /\ swaps' = [swaps EXCEPT ![s] = [NoSwap EXCEPT !.known = TRUE,
                                                      !.locktime = height + LocktimeDelta]]
  BY DEF CreateInvoices, lock, taskVars, chainVars
<1>2. ~Locked(s) /\ \A e \in handling : e[1] # s
  <2>1. s > created /\ created \in Nat /\ s \in Nat
    BY DEF CreateInvoices, TypeOK, SwapTypeOK, Swaps
  <2>2. ~Locked(s)
    BY <2>1 DEF PaymentInv, UnaskedUnsold, Sold, Locked
  <2>3. \A e \in handling : e[1] <= created
    BY DEF FundingInv, HandlingOwns
  <2> QED
    BY <2>1, <2>2, <2>3
<1>3. \A t \in Swaps \ {s} : swaps'[t] = swaps[t]
  BY <1>1 DEF TypeOK, SwapTypeOK
<1>4. swaps'[s].redeemed = FALSE
  BY <1>1 DEF TypeOK, SwapTypeOK, NoSwap
<1>5. /\ \A e \in handling : e[1] \in Swaps
      /\ \A c \in claim : c.swap \in Swaps
  BY DEF TypeOK, InvoiceTypeOK, SwapTypeOK, Reads
<1>6. EntryKept'
  BY <1>1, <1>2, <1>3 DEF StoredInv, EntryKept, Unspent, Locked
<1>7. HandledStored'
  BY <1>1, <1>2, <1>3, <1>5 DEF StoredInv, HandledStored
<1>8. ChainOrder'
  BY <1>1, <1>3, <1>4 DEF StoredInv, ChainOrder, Locked
<1>9. ReadsPast'
  BY <1>1, <1>2, <1>3, <1>5 DEF StoredInv, ReadsPast, Locked
<1> QED
  BY <1>6, <1>7, <1>8, <1>9 DEF StoredInv

\* The funding transaction is published, or may be: funding_txid is set, so a
\* failed broadcast does not drop the entry either.
CallbackEffect(s) ==
    /\ <<s, "broadcast">> \in handling /\ handling' = {}
    /\ UNCHANGED <<height, created, creating, claim, spender, spentAt>>
    /\ swaps[s].known /\ swaps'[s].known /\ swaps'[s].locktime = swaps[s].locktime
    /\ ~swaps[s].redeemed /\ ~swaps'[s].redeemed
    /\ \A t \in Swaps \ {s} : /\ swaps'[t] = swaps[t] /\ lockup'[t] = lockup[t]
                              /\ fundings'[t] = fundings[t]
    /\ diskSwaps' \in {diskSwaps, swaps'}
    /\ (lockup'[s] # "none" /\ fundings'[s] > 0) \/ (lockup' = lockup /\ fundings' = fundings)
    /\ callbacks' \subseteq callbacks /\ pass' \subseteq pass
    /\ faults' \in {faults, faults + 1} /\ (watched' = watched \/ faults' > 0)

LEMMA CallbackHasEffect ==
    ASSUME TypeOK, FundingInv, StoredInv, NEW s \in Swaps,
           CallbackBroadcasts(s) \/ CallbackBroadcastFails(s)
    PROVE  CallbackEffect(s)
<1> DEFINE e == <<s, "broadcast">>
           sw == [swaps[s] EXCEPT !.funded = TRUE]
<1>1. e \in handling /\ e[1] = s /\ e[2] = "broadcast"
  BY DEF CallbackBroadcasts, CallbackBroadcastFails
<1>2. /\ swaps \in [Swaps -> SwapData] /\ lockup \in [Swaps -> {"none", "mempool", "confirmed"}]
      /\ fundings \in [Swaps -> Nat] /\ faults \in Nat /\ swaps[s] \in SwapData
  BY DEF TypeOK, SwapTypeOK
<1> HIDE DEF e
<1>3. swaps[s].known /\ spender[s] = "none" /\ ~swaps[s].redeemed
  <2>1. ~Locked(s)
    BY <1>1, HandledUnlocked DEF StoredInv
  <2> QED
    BY <1>1, <2>1 DEF StoredInv, HandledStored, ChainOrder
<1>4. /\ sw \in SwapData /\ sw.locktime = swaps[s].locktime /\ sw.redeemed = swaps[s].redeemed
      /\ sw.known = swaps[s].known /\ sw.funded
  BY <1>2 DEF SwapData
<1> HIDE DEF sw
<1>p. ASSUME Publish(s)
      PROVE  /\ UNCHANGED <<spender, spentAt>>
             /\ \A t \in Swaps \ {s} : lockup'[t] = lockup[t] /\ fundings'[t] = fundings[t]
             /\ lockup'[s] # "none" /\ fundings'[s] > 0
  BY <1>p, <1>2 DEF Publish
<1>5. CASE CallbackBroadcasts(s)
  <2>1. swaps' = [swaps EXCEPT ![s] = sw]
    BY <1>5 DEF CallbackBroadcasts, sw
  <2>2. swaps'[s] = sw /\ \A t \in Swaps \ {s} : swaps'[t] = swaps[t]
    BY <1>4, <2>1, KeptEntry
  <2>3. /\ handling' = {} /\ Publish(s)
        /\ UNCHANGED <<height, created, creating, claim, diskSwaps, watched, faults>>
        /\ callbacks' \subseteq callbacks /\ pass' \subseteq pass
    BY <1>5 DEF CallbackBroadcasts, HandlerUnregisters, requestVars, taskVars, faultVars
  <2> QED
    BY <1>1, <1>3, <1>4, <1>p, <2>2, <2>3 DEF CallbackEffect, e
<1>6. CASE CallbackBroadcastFails(s)
  <2>1. /\ handling' = {} /\ FailSwap(s, sw) /\ (Publish(s) \/ UNCHANGED chainVars)
        /\ UNCHANGED <<height, created, creating, claim>>
        /\ faults' = faults + 1
        /\ callbacks' \subseteq callbacks /\ pass' \subseteq pass
    BY <1>6 DEF CallbackBroadcastFails, HandlerUnregisters, Fault, requestVars, taskVars, sw
  <2>2. /\ \A t \in Swaps \ {s} : swaps'[t] = swaps[t]
        /\ diskSwaps' \in {diskSwaps, swaps'}
        /\ swaps'[s].locktime = sw.locktime /\ swaps'[s].redeemed = sw.redeemed
        /\ swaps'[s].known
    BY <1>3, <1>4, <2>1, FailSwapEntry DEF TypeOK
  <2>3. faults' > 0
    BY <1>2, <2>1
  <2>4. CASE Publish(s)
    BY <1>1, <1>3, <1>4, <1>p, <2>1, <2>2, <2>3, <2>4 DEF CallbackEffect, e
  <2>5. CASE UNCHANGED chainVars
    BY <1>1, <1>3, <1>4, <2>1, <2>2, <2>3, <2>5 DEF CallbackEffect, e, chainVars
  <2> QED
    BY <2>1, <2>4, <2>5
<1> QED
  BY <1>5, <1>6

LEMMA CallbackKeepsStored ==
    ASSUME TypeOK, TypeOK', FundingInv, PaymentInv, StoredInv, FundsInTime, NEW s \in Swaps,
           CallbackEffect(s)
    PROVE  StoredInv'
<1> DEFINE e == <<s, "broadcast">>
<1>1. e \in handling /\ e[1] = s /\ e[2] = "broadcast"
  BY DEF CallbackEffect
<1> HIDE DEF e
<1>2. /\ UNCHANGED <<height, claim, spender>> /\ handling' = {}
      /\ \A t \in Swaps \ {s} : /\ swaps'[t] = swaps[t] /\ lockup'[t] = lockup[t]
                                /\ fundings'[t] = fundings[t]
      /\ diskSwaps' \in {diskSwaps, swaps'}
      /\ swaps[s].known /\ swaps'[s].known /\ swaps'[s].locktime = swaps[s].locktime
      /\ ~swaps'[s].redeemed
      /\ (lockup'[s] # "none" /\ fundings'[s] > 0) \/ (lockup' = lockup /\ fundings' = fundings)
  BY DEF CallbackEffect
<1>3. diskSwaps[s].known
  BY <1>1, <1>2 DEF StoredInv, HandledStored
<1>4. EntryKept'
  BY <1>2, <1>3 DEF StoredInv, EntryKept, Unspent
<1>5. HandledStored'
  BY <1>2 DEF HandledStored
<1>6. ChainOrder'
  BY <1>2 DEF StoredInv, ChainOrder, Locked
<1>7. ReadsPast'
  <2> SUFFICES ASSUME NEW c \in claim
               PROVE  /\ c.height <= height
                      /\ c.spender # "none" => spender[c.swap] # "none"
                      /\ c.step = "cleanup" => c.spender = "claim"
                      /\ c.lockup = "none" /\ c.height >= swaps'[c.swap].locktime
                            => ~Locked(c.swap)'
    BY <1>2 DEF ReadsPast
  <2>1. /\ c.height <= height
        /\ c.spender # "none" => spender[c.swap] # "none"
        /\ c.step = "cleanup" => c.spender = "claim"
        /\ c.lockup = "none" /\ c.height >= swaps[c.swap].locktime => ~Locked(c.swap)
    BY DEF StoredInv, ReadsPast
  <2>2. c.swap \in Swaps /\ swaps[c.swap].locktime \in Nat /\ c.height \in Nat
    BY ClaimedType DEF TypeOK, SwapTypeOK, Reads, SwapData, Heights
  <2>3. c.swap = s => c.height < swaps[s].locktime
    BY <1>1, HandledTimely DEF StoredInv
  <2> QED
    BY <1>2, <2>1, <2>2, <2>3 DEF Locked
<1> QED
  BY <1>4, <1>5, <1>6, <1>7 DEF StoredInv

-----------------------------------------------------------------------------
(* The refund key *)

LEMMA QuietKeepsStored ==
    ASSUME TypeOK, TypeOK', StoredInv, UNCHANGED height, Quiet \/ Writes,
           \A e \in handling' : \/ e \in handling
                                \/ e[2] = "save"
                                \/ e[2] = "call" /\ Writes
    PROVE  StoredInv'
<1>1. /\ UNCHANGED <<swaps, fundings, lockup, spender, claim>>
      /\ diskSwaps' \in {swaps, diskSwaps}
      /\ Writes => diskSwaps' = swaps
  BY DEF Quiet, Writes, ThreadWrites, swapVars, taskVars, chainVars
<1>2. height \in Nat
  BY DEF TypeOK, InvoiceTypeOK, Heights
<1>3. /\ \A e \in handling' : \/ e \in handling
                              \/ e[2] = "save"
                              \/ e[2] = "call" /\ diskSwaps' = swaps
                              \/ e[2] = "broadcast" /\ <<e[1], "call">> \in handling
                                    /\ swaps[e[1]].known
  BY <1>1
<1>4. \A s \in Swaps : (Locked(s)' <=> Locked(s)) /\ spender'[s] = spender[s]
  BY <1>1 DEF Locked
<1> QED
  BY <1>1, <1>2, <1>3, <1>4, SameEntriesKeepStored

\* The threads and lightningd hand nothing to the callback.
LEMMA HandlingUntouched ==
    ASSUME HookMoves \/ MonitorMoves \/ ClnMoves
              \/ (\E s \in Swaps : InvoicesExpire(s) /\ Quiet) \/ (PassStarts /\ Quiet)
    PROVE  /\ UNCHANGED <<height, handling>> /\ (Quiet \/ Writes)
           /\ callbacks' \subseteq callbacks /\ pass' \subseteq pass \cup callbacks
<1>1. CASE HookMoves
  BY <1>1 DEF HookMoves, HookContinues, HookReplaces, HookRejects, HookAccepts, HookSaves,
     HookSaveRaises, lock
<1>2. CASE MonitorMoves
  BY <1>2 DEF MonitorMoves, MonitorCancels, MonitorCancelRaises, MonitorDeletes, lock
<1>3. CASE ClnMoves
  BY <1>3 DEF ClnMoves, HtlcArrives, HtlcReplayed, ClnCommits, HtlcTimesOut, lock
<1>4. CASE (\E s \in Swaps : InvoicesExpire(s) /\ Quiet) \/ (PassStarts /\ Quiet)
  BY <1>4 DEF InvoicesExpire, PassStarts, lock
<1> QED
  BY <1>1, <1>2, <1>3, <1>4

LEMMA HandlerKeepsStored ==
    ASSUME TypeOK, TypeOK', StoredInv, NEW s \in Swaps,
           \/ /\ \/ HandlerForgets(s) \/ HandlerSkips(s) \/ HandlerRaises(s)
                 \/ HandlerSettles(s) \/ HandlerSettleRaises(s)
              /\ Quiet
           \/ HandlerSaves(s) /\ Writes
    PROVE  StoredInv'
<1>1. CASE HandlerSettles(s) /\ Quiet
  <2>1. UNCHANGED height /\ \A e \in handling' : e[2] = "save"
    BY <1>1 DEF HandlerSettles
  <2> QED
    BY <1>1, <2>1, QuietKeepsStored
<1>2. CASE HandlerSaves(s) /\ Writes
  <2>1. UNCHANGED height /\ \A e \in handling' : e[2] = "call"
    BY <1>2 DEF HandlerSaves
  <2> QED
    BY <1>2, <2>1, QuietKeepsStored
<1>3. CASE (HandlerForgets(s) \/ HandlerSkips(s) \/ HandlerRaises(s) \/ HandlerSettleRaises(s)) /\ Quiet
  <2>1. UNCHANGED <<height, handling>>
    BY <1>3 DEF HandlerForgets, HandlerSkips, HandlerRaises, HandlerSettleRaises, lock
  <2> QED
    BY <1>3, <2>1, QuietKeepsStored
<1> QED
  BY <1>1, <1>2, <1>3

\* The funding callback before it publishes.
LEMMA BeforeBroadcastKeepsStored ==
    ASSUME TypeOK, TypeOK', StoredInv, NEW s \in Swaps,
           CallbackReturns(s) \/ CallbackCreatesTx(s) \/ CallbackRaises(s)
    PROVE  StoredInv'
<1>1. UNCHANGED <<height, swaps, diskSwaps, fundings, lockup, spender, claim>>
  BY DEF CallbackReturns, CallbackCreatesTx, CallbackRaises, swapVars, taskVars, chainVars
<1>2. height \in Nat
  BY DEF TypeOK, InvoiceTypeOK, Heights
<1>3. \A e \in handling' : e[2] = "broadcast" /\ <<e[1], "call">> \in handling /\ swaps[e[1]].known
  BY DEF CallbackReturns, CallbackCreatesTx, CallbackRaises, HandlerUnregisters, HandlerAborts
<1>4. \A t \in Swaps : (Locked(t)' <=> Locked(t)) /\ spender'[t] = spender[t]
  BY <1>1 DEF Locked
<1> QED
  BY <1>1, <1>2, <1>3, <1>4, SameEntriesKeepStored

\* Chain, client, and the loop up to the reads of _claim_swap.
LEMMA RestKeepsStored ==
    ASSUME TypeOK, TypeOK', StoredInv,
           \/ MonitorPolls \/ \E s \in Swaps : ClaimReads(s) \/ ClaimSkips(s)
           \/ \E s \in Swaps : CreateRegisters(s)
           \/ \E s \in Swaps : ClientClaims(s)
           \/ BlockMined \/ UNCHANGED vars
    PROVE  StoredInv'
<1>0. height \in Nat
  BY DEF TypeOK, InvoiceTypeOK, Heights
<1>1. UNCHANGED <<swaps, diskSwaps, fundings, handling>> /\ (height' = height \/ height' = height + 1)
  BY DEF MonitorPolls, ClaimReads, ClaimSkips, CreateRegisters, ClientClaims, BlockMined, vars,
     invoiceVars, swapVars, chainVars, lock
<1>2. height' >= height
  BY <1>0, <1>1
<1>3. \A s \in Swaps : Locked(s)' <=> Locked(s)
  <2>1. UNCHANGED lockup \/ BlockMined
    BY DEF MonitorPolls, ClaimReads, ClaimSkips, CreateRegisters, ClientClaims, vars, chainVars
  <2> QED
    BY <2>1 DEF BlockMined, Locked
<1>4. \A s \in Swaps : spender'[s] = spender[s] \/ (Locked(s) /\ spender'[s] # "none")
  <2>1. UNCHANGED spender \/ \E s \in Swaps : ClientClaims(s)
    BY DEF MonitorPolls, ClaimReads, ClaimSkips, CreateRegisters, BlockMined, vars, chainVars
  <2>2. spender \in [Swaps -> {"none", "claim", "refund"}]
    BY DEF TypeOK, SwapTypeOK
  <2> QED
    BY <2>1, <2>2 DEF ClientClaims, Locked
<1>5. \A c \in claim' : c \in claim \/ JustRead(c)
  <2>1. UNCHANGED claim \/ \E s \in Swaps : ClaimReads(s)
    BY DEF MonitorPolls, ClaimSkips, CreateRegisters, ClientClaims, BlockMined, vars, taskVars
  <2> QED
    BY <2>1 DEF ClaimReads, JustRead
<1> QED
  BY <1>1, <1>2, <1>3, <1>4, <1>5, SameEntriesKeepStored

LEMMA NextStored ==
    ASSUME NoCrash, TypeOK, TypeOK', FundingInv, PaymentInv, StoredInv, FundsInTime, [Next]_vars
    PROVE  StoredInv'
<1>1. CASE CreateMoves
  BY <1>1, CreateKeepsStored, RestKeepsStored DEF CreateMoves
<1>2. CASE HookMoves \/ MonitorMoves \/ ClnMoves \/ (\E s \in Swaps : InvoicesExpire(s) /\ Quiet)
  BY <1>2, HandlingUntouched, QuietKeepsStored
<1>3. CASE HandlerMoves
  <2>1. CASE PassStarts /\ Quiet
    BY <2>1, HandlingUntouched, QuietKeepsStored
  <2>2. CASE \E s \in Swaps : CallbackBroadcasts(s) \/ CallbackBroadcastFails(s)
    BY <2>2, CallbackHasEffect, CallbackKeepsStored
  <2> QED
    BY <1>3, <2>1, <2>2, HandlerKeepsStored, BeforeBroadcastKeepsStored DEF HandlerMoves
<1>4. CASE ClaimMoves
  BY <1>4, ClaimHasEffect, ClaimKeepsStored, RestKeepsStored DEF ClaimMoves
<1>5. ~Crash /\ ~RestartLightning /\ ~RestartSwaps
  BY DEF NoCrash, Crash, Fault, RestartLightning, RestartSwaps, PaymentInv
<1> QED
  BY <1>1, <1>2, <1>3, <1>4, <1>5, RestKeepsStored DEF Next

LEMMA InitStored == Init => StoredInv
  BY DEF Init, StoredInv, EntryKept, HandledStored, ChainOrder, ReadsPast, Unspent, Locked, NoSwap

LEMMA StoredInvariant == ASSUME NoCrash PROVE Spec /\ []FundsInTime => []StoredInv
<1>1. TypeOK /\ TypeOK' /\ FundingInv /\ PaymentInv /\ StoredInv /\ FundsInTime /\ [Next]_vars
         => StoredInv'
  BY NextStored
<1> QED
  BY <1>1, InitStored, TypeCorrect, FundingInvariant, PaymentInvariant, PTL DEF Spec

\* The entry of a swap, and with it the key of the refund, is in the database as
\* long as its lockup output is unspent: no failing call, no old read and no
\* order of the threads drops it, if the swap was funded before its locktime.
THEOREM RefundKeyKept == ASSUME NoCrash PROVE Spec /\ []FundsInTime => []RefundKeyStored
<1>1. StoredInv => RefundKeyStored
  BY DEF StoredInv, EntryKept, RefundKeyStored
<1> QED
  BY <1>1, StoredInvariant, PTL

-----------------------------------------------------------------------------
(* The chain callback *)

Handled(s) == s \in {e[1] : e \in handling}

\* A swap whose creation is not finished is with no thread.
CreationApart ==
    /\ creating \subseteq {created}
    /\ \A s \in creating : s \notin callbacks \cup pass /\ ~Handled(s) /\ ~Locked(s)
    /\ \A s \in callbacks \cup pass : s <= created

\* As long as no call has failed, every swap is watched from the end of its
\* creation until it is over.
WatchedInv ==
    faults = 0 => \A s \in Swaps : s <= created /\ s \notin creating => s \in watched \/ Ended(s)

\* What every step but the creation of a swap does to the callbacks.
CallbacksMove ==
    /\ created' = created /\ creating' \subseteq creating
    /\ callbacks' \subseteq callbacks \cup (creating \ creating')
    /\ pass' \subseteq pass \cup callbacks
    /\ creating \ creating' \subseteq watched'
    /\ \A s \in Swaps : /\ Handled(s)' => Handled(s) \/ s \in pass
                        /\ Locked(s)' => Locked(s) \/ Handled(s)
    /\ faults' = 0 =>
          faults = 0 /\ \A s \in Swaps : s \in watched => s \in watched' \/ Ended(s)

\* To time, and to the spending transactions.
ChainMoves ==
    /\ height' >= height
    /\ \A s \in Swaps : /\ swaps'[s].locktime = swaps[s].locktime
                        /\ spender[s] # "none" => spender'[s] # "none"
                        /\ Locked(s)' => Locked(s) \/ Handled(s)

LEMMA EndedStays ==
    ASSUME TypeOK, TypeOK', FundsInTime, ChainMoves, NEW s \in Swaps, Ended(s)
    PROVE  Ended(s)'
<1>1. height \in Nat /\ height' \in Nat /\ swaps[s].locktime \in Nat
  BY DEF TypeOK, InvoiceTypeOK, SwapTypeOK, Heights, SwapData
<1>2. CASE spender[s] # "none"
  BY <1>2 DEF ChainMoves, Ended
<1>3. CASE ~Locked(s) /\ height >= swaps[s].locktime
  <2>1. ~Handled(s)
    BY <1>1, <1>3 DEF FundsInTime, Handled
  <2> QED
    BY <1>1, <1>3, <2>1 DEF ChainMoves, Ended
<1> QED
  BY <1>2, <1>3 DEF Ended

LEMMA MovesKeepWatched ==
    ASSUME TypeOK, TypeOK', FundsInTime, CallbacksMove, ChainMoves, CreationApart, WatchedInv
    PROVE  CreationApart' /\ WatchedInv'
<1>1. CreationApart'
  <2>1. creating' \subseteq Swaps /\ creating \subseteq Swaps
    BY DEF TypeOK, SwapTypeOK
  <2>2. creating' \subseteq {created'}
    BY DEF CallbacksMove, CreationApart
  <2>3. \A s \in callbacks' \cup pass' : s <= created'
    <3>1. created \in Nat /\ created <= created
      BY DEF TypeOK, SwapTypeOK
    <3> QED
      BY <3>1 DEF CallbacksMove, CreationApart
  <2>4. ASSUME NEW s \in creating'
        PROVE  s \notin callbacks' \cup pass' /\ ~Handled(s)' /\ ~Locked(s)'
    BY <2>1, <2>4 DEF CallbacksMove, CreationApart
  <2> QED
    BY <2>2, <2>3, <2>4 DEF CreationApart
<1>2. WatchedInv'
  <2> SUFFICES ASSUME faults' = 0, NEW s \in Swaps, s <= created', s \notin creating'
               PROVE  s \in watched' \/ Ended(s)'
    BY DEF WatchedInv
  <2>1. CASE s \in creating
    BY <2>1 DEF CallbacksMove
  <2>2. CASE s \notin creating
    BY <2>2, EndedStays DEF CallbacksMove, WatchedInv
  <2> QED
    BY <2>1, <2>2
<1> QED
  BY <1>1, <1>2

\* The new swap is the only one in creation.
LEMMA CreateKeepsWatched ==
    ASSUME TypeOK, TypeOK', FundingInv, PaymentInv, CreationApart, WatchedInv,
           NEW s \in Swaps, CreateInvoices(s)
    PROVE  CreationApart' /\ WatchedInv'
<1>t. created \in Nat /\ \A t \in Swaps : t \in Nat
  BY DEF TypeOK, SwapTypeOK, Swaps
<1>1. /\ s = created + 1 /\ created' = s /\ creating = {} /\ creating' = {s}
      /\ UNCHANGED <<height, callbacks, pass, handling, watched, lockup, spender, faults>>
      /\ swaps' = [swaps EXCEPT ![s] = [NoSwap EXCEPT !.known = TRUE,
                                                      !.locktime = height + LocktimeDelta]]
  BY DEF CreateInvoices, lock, taskVars, chainVars, faultVars
<1>2. ~Locked(s)
  BY <1>t, <1>1 DEF PaymentInv, UnaskedUnsold, Sold, Locked
<1>3. CreationApart'
  <2>1. \A t \in callbacks \cup pass : t <= created /\ t # s /\ t \in Swaps
    BY <1>t, <1>1 DEF CreationApart, TypeOK, InvoiceTypeOK
  <2>2. ~Handled(s)
    BY <1>t, <1>1 DEF FundingInv, HandlingOwns, Handled
  <2> QED
    BY <1>t, <1>1, <1>2, <2>1, <2>2 DEF CreationApart, Handled, Locked
<1>4. WatchedInv'
  <2> SUFFICES ASSUME faults = 0, NEW t \in Swaps, t <= s, t # s
               PROVE  t \in watched \/ Ended(t)'
    BY <1>1 DEF WatchedInv
  <2>1. t <= created
    BY <1>t, <1>1
  <2>2. swaps'[t] = swaps[t]
    BY <1>1 DEF TypeOK, SwapTypeOK
  <2> QED
    BY <1>1, <2>1, <2>2 DEF WatchedInv, Ended, Locked
<1> QED
  BY <1>3, <1>4

LEMMA QuietMoves ==
    ASSUME TypeOK, Quiet \/ Writes, UNCHANGED height,
           callbacks' \subseteq callbacks, pass' \subseteq pass \cup callbacks,
           \A s \in Swaps : Handled(s)' => Handled(s) \/ s \in pass
    PROVE  CallbacksMove /\ ChainMoves
<1>1. UNCHANGED <<swaps, watched, created, creating, lockup, spender, faults>>
  BY DEF Quiet, Writes, ThreadWrites, swapVars, requestVars, chainVars, faultVars
<1>2. height \in Nat
  BY DEF TypeOK, InvoiceTypeOK, Heights
<1> QED
  BY <1>1, <1>2 DEF CallbacksMove, ChainMoves, Locked

LEMMA HandlerWaitsMoves ==
    ASSUME TypeOK, NEW s \in Swaps,
           \/ /\ \/ HandlerForgets(s) \/ HandlerSkips(s) \/ HandlerRaises(s)
                 \/ HandlerSettles(s) \/ HandlerSettleRaises(s)
              /\ Quiet
           \/ HandlerSaves(s) /\ Writes
    PROVE  CallbacksMove /\ ChainMoves
<1>1. UNCHANGED height /\ callbacks' \subseteq callbacks /\ pass' \subseteq pass
  BY DEF HandlerForgets, HandlerSkips, HandlerRaises, HandlerSettles, HandlerSettleRaises,
     HandlerSaves
<1>2. \A t \in Swaps : Handled(t)' => Handled(t) \/ t \in pass
  <2>1. CASE HandlerSettles(s)
    BY <2>1 DEF HandlerSettles, Visits, Handled
  <2>2. CASE HandlerSaves(s)
    <3>1. <<s, "save">> \in handling /\ handling' = {<<s, "call">>}
      BY <2>2 DEF HandlerSaves
    <3> QED
      BY <3>1 DEF Handled
  <2>3. CASE UNCHANGED handling
    BY <2>3 DEF Handled
  <2> QED
    BY <2>1, <2>2, <2>3 DEF HandlerForgets, HandlerSkips, HandlerRaises, HandlerSettleRaises, lock
<1> QED
  BY <1>1, <1>2, QuietMoves

LEMMA BeforeBroadcastMoves ==
    ASSUME TypeOK, NEW s \in Swaps,
           CallbackReturns(s) \/ CallbackCreatesTx(s) \/ CallbackRaises(s)
    PROVE  CallbacksMove /\ ChainMoves
<1>1. /\ UNCHANGED <<height, swaps, watched, created, creating, lockup, spender>>
      /\ callbacks' \subseteq callbacks /\ pass' \subseteq pass
      /\ faults' \in {faults, faults + 1}
  BY DEF CallbackReturns, CallbackCreatesTx, CallbackRaises, HandlerUnregisters, HandlerAborts,
     Fault, swapVars, requestVars, chainVars, faultVars
<1>2. height \in Nat /\ faults \in Nat
  BY DEF TypeOK, InvoiceTypeOK, SwapTypeOK, Heights
<1>3. \A t \in Swaps : Handled(t)' => Handled(t)
  <2>1. <<s, "call">> \in handling /\ (handling' = {} \/ handling' = {<<s, "broadcast">>})
    BY DEF CallbackReturns, CallbackCreatesTx, CallbackRaises, HandlerUnregisters, HandlerAborts
  <2> QED
    BY <2>1 DEF Handled
<1> QED
  BY <1>1, <1>2, <1>3 DEF CallbacksMove, ChainMoves, Locked

LEMMA CallbackMoves ==
    ASSUME TypeOK, NEW s \in Swaps, CallbackEffect(s) PROVE CallbacksMove /\ ChainMoves
<1> DEFINE e == <<s, "broadcast">>
<1>1. e \in handling /\ e[1] = s
  BY DEF CallbackEffect
<1> HIDE DEF e
<1>2. Handled(s) /\ \A t \in Swaps : ~Handled(t)'
  BY <1>1 DEF CallbackEffect, Handled
<1>3. height \in Nat /\ faults \in Nat
  BY DEF TypeOK, InvoiceTypeOK, SwapTypeOK, Heights
<1>4. \A t \in Swaps : Locked(t)' => Locked(t) \/ Handled(t)
  BY <1>2 DEF CallbackEffect, Locked
<1> QED
  BY <1>2, <1>3, <1>4 DEF CallbackEffect, CallbacksMove, ChainMoves

LEMMA ClaimStepMoves ==
    ASSUME TypeOK, NEW c \in claim, ClaimEffect(c) PROVE CallbacksMove /\ ChainMoves
<1>1. c.swap \in Swaps /\ height \in Nat
  BY ClaimedType DEF TypeOK, InvoiceTypeOK, Heights
<1>2. /\ UNCHANGED <<height, created, creating, pass, handling, lockup, faults>>
      /\ callbacks' \subseteq callbacks
  BY DEF ClaimEffect
<1>3. \A t \in Swaps : swaps'[t].locktime = swaps[t].locktime
  BY DEF ClaimEffect
<1>4. \A t \in Swaps : spender[t] # "none" => spender'[t] # "none"
  BY DEF ClaimEffect
<1>5. \A t \in Swaps : t \in watched => t \in watched' \/ Ended(t)
  BY DEF ClaimEffect
<1> QED
  BY <1>1, <1>2, <1>3, <1>4, <1>5 DEF CallbacksMove, ChainMoves, Handled, Locked

LEMMA RestMoves ==
    ASSUME TypeOK, CreationApart,
           \/ MonitorPolls \/ \E s \in Swaps : ClaimReads(s) \/ ClaimSkips(s)
           \/ \E s \in Swaps : CreateRegisters(s)
           \/ \E s \in Swaps : ClientClaims(s)
           \/ BlockMined \/ UNCHANGED vars
    PROVE  CallbacksMove /\ ChainMoves
<1>0. height \in Nat /\ faults \in Nat /\ creating \subseteq Swaps
  BY DEF TypeOK, InvoiceTypeOK, SwapTypeOK, Heights
<1>1. /\ UNCHANGED <<swaps, created, pass, handling>>
      /\ height' = height \/ height' = height + 1
      /\ faults' = faults \/ faults' = faults + 1
  BY DEF MonitorPolls, ClaimReads, ClaimSkips, CreateRegisters, ClientClaims, BlockMined, Fault,
     vars, invoiceVars, swapVars, requestVars, faultVars, lock
<1>2. \/ UNCHANGED <<creating, callbacks, watched>>
      \/ \E s \in creating : /\ creating' = {} /\ watched' = watched \cup {s}
                             /\ callbacks' = callbacks \cup {s}
  BY DEF MonitorPolls, ClaimReads, ClaimSkips, CreateRegisters, ClientClaims, BlockMined,
     vars, invoiceVars, swapVars, requestVars
<1>3. creating' \subseteq creating /\ watched \subseteq watched'
  BY <1>2
<1>4. creating \ creating' \subseteq watched' /\ callbacks' \subseteq callbacks \cup (creating \ creating')
  BY <1>2 DEF CreationApart
<1>5. \A s \in Swaps : Locked(s)' <=> Locked(s)
  <2>1. UNCHANGED lockup \/ BlockMined
    BY DEF MonitorPolls, ClaimReads, ClaimSkips, CreateRegisters, ClientClaims, vars, chainVars
  <2> QED
    BY <2>1 DEF BlockMined, Locked
<1>6. \A s \in Swaps : spender[s] # "none" => spender'[s] # "none"
  <2>1. UNCHANGED spender \/ \E s \in Swaps : ClientClaims(s)
    BY DEF MonitorPolls, ClaimReads, ClaimSkips, CreateRegisters, BlockMined, vars, chainVars
  <2>2. spender \in [Swaps -> {"none", "claim", "refund"}]
    BY DEF TypeOK, SwapTypeOK
  <2> QED
    BY <2>1, <2>2 DEF ClientClaims
<1> QED
  BY <1>0, <1>1, <1>3, <1>4, <1>5, <1>6 DEF CallbacksMove, ChainMoves, Handled

LEMMA NextMoves ==
    ASSUME NoCrash, TypeOK, FundingInv, PaymentInv, StoredInv, FundsInTime, CreationApart,
           [Next]_vars
    PROVE  (CallbacksMove /\ ChainMoves) \/ \E s \in Swaps : CreateInvoices(s)
<1>1. CASE CreateMoves
  BY <1>1, RestMoves DEF CreateMoves
<1>2. CASE \/ HookMoves \/ MonitorMoves \/ ClnMoves
           \/ (\E s \in Swaps : InvoicesExpire(s) /\ Quiet) \/ (PassStarts /\ Quiet)
  <2>1. /\ UNCHANGED <<height, handling>> /\ (Quiet \/ Writes)
        /\ callbacks' \subseteq callbacks /\ pass' \subseteq pass \cup callbacks
    BY <1>2, HandlingUntouched
  <2> QED
    BY <2>1, QuietMoves DEF Handled
<1>3. CASE HandlerMoves
  BY <1>2, <1>3, HandlerWaitsMoves, BeforeBroadcastMoves, CallbackHasEffect, CallbackMoves
  DEF HandlerMoves
<1>4. CASE ClaimMoves
  BY <1>4, ClaimHasEffect, ClaimStepMoves, RestMoves DEF ClaimMoves
<1>5. ~Crash /\ ~RestartLightning /\ ~RestartSwaps
  BY DEF NoCrash, Crash, Fault, RestartLightning, RestartSwaps, PaymentInv
<1> QED
  BY <1>1, <1>2, <1>3, <1>4, <1>5, RestMoves DEF Next

LEMMA WatchedInvariant ==
    ASSUME NoCrash PROVE Spec /\ []FundsInTime => [](CreationApart /\ WatchedInv)
<1>1. Init => CreationApart /\ WatchedInv
  BY DEF Init, CreationApart, WatchedInv, Swaps
<1>2. TypeOK /\ TypeOK' /\ FundingInv /\ PaymentInv /\ StoredInv /\ FundsInTime /\ [Next]_vars
         /\ CreationApart /\ WatchedInv => (CreationApart /\ WatchedInv)'
  BY NextMoves, MovesKeepWatched, CreateKeepsWatched
<1> QED
  BY <1>1, <1>2, TypeCorrect, FundingInvariant, PaymentInvariant, StoredInvariant, PTL DEF Spec

\* The chain callback of a swap is not unregistered before the swap is over, so
\* an unspent lockup output is looked at with every block, if no call has failed
\* and the swap was funded before its locktime.
THEOREM LockupStaysWatched == ASSUME NoCrash PROVE Spec /\ []FundsInTime => []LockupWatched
<1>1. FundingInv /\ StoredInv /\ CreationApart /\ WatchedInv => LockupWatched
  <2> SUFFICES ASSUME FundingInv, StoredInv, CreationApart, WatchedInv, faults = 0,
                      NEW s \in Swaps, Unspent(s)
               PROVE  s \in watched
    BY DEF LockupWatched
  <2>1. Locked(s) /\ spender[s] = "none"
    BY DEF Unspent, Locked
  <2>2. s <= created /\ s \notin creating
    BY <2>1 DEF StoredInv, ChainOrder, FundingInv, PublishedOnce, CreationApart
  <2> QED
    BY <2>1, <2>2 DEF WatchedInv, Ended
<1> QED
  BY <1>1, FundingInvariant, StoredInvariant, WatchedInvariant, PTL

-----------------------------------------------------------------------------
(* The HTLCs that pay for a claimed lockup output *)

\* The swap invoice is settled, and may be deleted since.
Finished(s) == hold.status[Main(s)] \in {"SETTLED", "absent"}

\* lightningd has the preimage in time for the HTLC.
Delivered(s) == {h \in HtlcsOf(Main(s)) : Fulfilling(h)}

\* An HTLC times out at its CLTV only, and it is settled only with its invoice.
HtlcsInTime ==
    \A h \in Htlcs : /\ cln[h] = "timedout" => height >= cltv[h]
                     /\ hold.htlcs[h] = "SETTLED" => hold.status[InvoiceOf[h]] = "SETTLED"

\* What every step but _finish_normal_swap does to the swap invoices that are
\* not for sale any more, and to the HTLCs that were answered in time.
FundedStays ==
    \A s \in Swaps : Sold(s) /\ hold.status[Main(s)] = "FUNDED" => hold'.status[Main(s)] = "FUNDED"

\* And what every step does.
BooksMove ==
    /\ HtlcsInTime'
    /\ \A s \in Swaps : /\ Sold(s) /\ hold'.status[Main(s)] = "FUNDED" => hold.status[Main(s)] = "FUNDED"
                        /\ Sold(s) /\ Finished(s) => Finished(s)'
    /\ \A h \in Htlcs : Fulfilling(h) => Fulfilling(h)'

LEMMA SameBooksMove ==
    ASSUME TypeOK, HtlcsInTime, UNCHANGED <<hold, cln, cltv, request>>,
           height' = height \/ height' = height + 1
    PROVE  BooksMove /\ FundedStays
<1>1. height \in Nat /\ cltv \in [Htlcs -> Nat]
  BY DEF TypeOK, InvoiceTypeOK, Heights
<1> QED
  BY <1>1 DEF BooksMove, FundedStays, HtlcsInTime, Finished, Fulfilling

\* lightningd leaves the books alone, and an answer that it acts upon fulfils
\* the HTLC if it is still there.
LEMMA LightningBooks ==
    ASSUME TypeOK, PaymentInv, HtlcsInTime, NEW h \in Htlcs,
           \/ \E d \in CltvDeltas : HtlcArrives(h, d)
           \/ HtlcReplayed(h) \/ ClnCommits(h) \/ HtlcTimesOut(h)
    PROVE  BooksMove /\ FundedStays
<1>1. /\ cln \in [Htlcs -> ClnStates] /\ request \in [Htlcs -> Requests]
      /\ cltv \in [Htlcs -> Nat]
      /\ UNCHANGED <<hold, height>>
  BY DEF TypeOK, InvoiceTypeOK, HtlcArrives, HtlcReplayed, ClnCommits, HtlcTimesOut, book
<1>2. /\ \A g \in Htlcs \ {h} : /\ cln'[g] = cln[g] /\ request'[g] = request[g]
                                /\ cltv'[g] = cltv[g]
      /\ Fulfilling(h) => Fulfilling(h)'
      /\ cln'[h] = "timedout" =>
            height >= cltv'[h] \/ (cln[h] = "timedout" /\ cltv'[h] = cltv[h])
  <2>1. CASE \E d \in CltvDeltas : HtlcArrives(h, d)
    BY <1>1, <2>1 DEF HtlcArrives, Fulfilling
  <2>2. CASE HtlcReplayed(h)
    BY <1>1, <2>2 DEF HtlcReplayed, Fulfilling
  <2>3. CASE ClnCommits(h)
    BY <1>1, <2>3 DEF ClnCommits, Resolution, Fulfilling
  <2>4. CASE HtlcTimesOut(h)
    BY <1>1, <2>4 DEF HtlcTimesOut, Fulfilling
  <2> QED
    BY <2>1, <2>2, <2>3, <2>4
<1>3. HtlcsInTime'
  BY <1>1, <1>2 DEF HtlcsInTime
<1>4. \A g \in Htlcs : Fulfilling(g) => Fulfilling(g)'
  BY <1>2 DEF Fulfilling
<1> QED
  BY <1>1, <1>3, <1>4 DEF BooksMove, FundedStays, Finished

\* The hook decides about HTLCs of invoices that are not paid yet.
LEMMA HookBooks ==
    ASSUME TypeOK, PaymentInv, HtlcsInTime, NEW h \in Htlcs,
           \/ HookContinues(h) \/ HookReplaces(h) \/ HookRejects(h) \/ HookAccepts(h)
           \/ HookSaves(h) \/ HookSaveRaises(h)
    PROVE  BooksMove /\ FundedStays
<1>1. CASE HookSaves(h) \/ HookSaveRaises(h)
  BY <1>1, SameBooksMove DEF HookSaves, HookSaveRaises, UpdateInvoice, book
<1>2. CASE HookContinues(h) \/ HookReplaces(h) \/ HookRejects(h) \/ HookAccepts(h)
  <2>1. /\ request[h] = "asked" /\ UNCHANGED <<height, cln, cltv>>
        /\ InvoiceOf[h] \in Hashes
        /\ request \in [Htlcs -> Requests] /\ hold \in Books
    BY <1>2, HtlcsAssumption DEF HookContinues, HookReplaces, HookRejects, HookAccepts, HookStarts,
       TypeOK, InvoiceTypeOK
  <2>2. /\ \A g \in Htlcs \ {h} : request'[g] = request[g] /\ hold'.htlcs[g] = hold.htlcs[g]
        /\ hold'.htlcs[h] = "SETTLED" => hold.htlcs[h] = "SETTLED"
        /\ \A i \in Hashes : \/ hold'.status[i] = hold.status[i]
                             \/ hold.status[i] = "UNFUNDED" /\ hold'.status[i] = "FUNDED"
    <3>1. CASE HookContinues(h) \/ HookReplaces(h)
      BY <2>1, <3>1 DEF HookContinues, HookReplaces, book
    <3>2. CASE HookRejects(h)
      BY <2>1, <3>2 DEF HookRejects, Answer, Books
    <3>3. CASE HookAccepts(h)
      BY <2>1, <3>3 DEF HookAccepts, Acceptable, Books
    <3> QED
      BY <1>2, <3>1, <3>2, <3>3
  <2>3. HtlcsInTime'
    <3> SUFFICES ASSUME NEW g \in Htlcs
                 PROVE  /\ cln'[g] = "timedout" => height' >= cltv'[g]
                        /\ hold'.htlcs[g] = "SETTLED" => hold'.status[InvoiceOf[g]] = "SETTLED"
      BY DEF HtlcsInTime
    <3>1. hold'.htlcs[g] = "SETTLED" => hold.htlcs[g] = "SETTLED"
      BY <2>2
    <3>2. InvoiceOf[g] \in Hashes
      BY HtlcsAssumption
    <3> QED
      BY <2>1, <2>2, <3>1, <3>2 DEF HtlcsInTime
  <2>4. \A g \in Htlcs : Fulfilling(g) => Fulfilling(g)'
    BY <2>1, <2>2 DEF Fulfilling
  <2>5. ASSUME NEW s \in Swaps, Sold(s)
        PROVE  hold'.status[Main(s)] = hold.status[Main(s)]
    BY <2>2, <2>5, MainPrepayType DEF PaymentInv, SoldSecured
  <2> QED
    BY <2>3, <2>4, <2>5 DEF BooksMove, FundedStays, Finished
<1> QED
  BY <1>1, <1>2

\* A sweep settles the HTLCs of the invoice it settles, and answers none twice.
LEMMA SweepBooks ==
    ASSUME TypeOK, PaymentInv, HtlcsInTime, NEW i \in Hashes, NEW st \in Statuses, NEW hs, NEW a,
           Sweep(i, st, hs, a), UNCHANGED <<height, cln, cltv>>,
           st = "SETTLED" \/ (hs # "SETTLED" /\ hold.status[i] # "SETTLED")
    PROVE  /\ HtlcsInTime'
           /\ \A h \in Htlcs : Fulfilling(h) => Fulfilling(h)'
           /\ hold'.status[i] = st
           /\ \A j \in Hashes \ {i} : hold'.status[j] = hold.status[j]
<1>1. /\ hold'.status[i] = st
      /\ \A j \in Hashes \ {i} : hold'.status[j] = hold.status[j]
  BY DEF Sweep, TypeOK, InvoiceTypeOK, Books
<1>2. \A h \in Htlcs : \/ h \notin Accepted(i) /\ hold'.htlcs[h] = hold.htlcs[h]
                                               /\ request'[h] = request[h]
                       \/ h \in Accepted(i) /\ hold'.htlcs[h] = hs /\ InvoiceOf[h] = i
                                            /\ request[h] = "waiting" /\ hold.htlcs[h] = "ACCEPTED"
  BY DEF Sweep, Accepted, HtlcsOf, PaymentInv, HtlcTracked
<1>3. HtlcsInTime'
  <2> SUFFICES ASSUME NEW h \in Htlcs
               PROVE  /\ cln'[h] = "timedout" => height' >= cltv'[h]
                      /\ hold'.htlcs[h] = "SETTLED" => hold'.status[InvoiceOf[h]] = "SETTLED"
    BY DEF HtlcsInTime
  <2>1. InvoiceOf[h] \in Hashes
    BY HtlcsAssumption
  <2>2. hold.htlcs[h] = "SETTLED" => hold.status[InvoiceOf[h]] = "SETTLED"
    BY DEF HtlcsInTime
  <2>3. hold'.htlcs[h] = "SETTLED" => hold'.status[InvoiceOf[h]] = "SETTLED"
    <3>1. CASE InvoiceOf[h] = i
      BY <1>1, <1>2, <2>2, <3>1
    <3>2. CASE InvoiceOf[h] # i
      BY <1>1, <1>2, <2>1, <2>2, <3>2
    <3> QED
      BY <3>1, <3>2
  <2> QED
    BY <2>3 DEF HtlcsInTime
<1>4. \A h \in Htlcs : Fulfilling(h) => Fulfilling(h)'
  BY <1>2 DEF Fulfilling
<1> QED
  BY <1>1, <1>3, <1>4

\* Deleting invoices does not touch the answers.
LEMMA WithoutBooks ==
    ASSUME TypeOK, HtlcsInTime, NEW I, hold' = Without(I), UNCHANGED <<height, cln, cltv, request>>
    PROVE  /\ HtlcsInTime'
           /\ \A h \in Htlcs : Fulfilling(h) => Fulfilling(h)'
           /\ \A j \in Hashes : hold'.status[j] = IF j \in I THEN "absent" ELSE hold.status[j]
<1>1. \A j \in Hashes : hold'.status[j] = IF j \in I THEN "absent" ELSE hold.status[j]
  BY DEF Without
<1>2. \A h \in Htlcs : InvoiceOf[h] \in Hashes
                       /\ hold'.htlcs[h] = IF InvoiceOf[h] \in I THEN "none" ELSE hold.htlcs[h]
  BY HtlcsAssumption DEF Without
<1> QED
  BY <1>1, <1>2 DEF HtlcsInTime, Fulfilling

LEMMA MonitorBooks ==
    ASSUME TypeOK, PaymentInv, HtlcsInTime, NEW i \in Hashes,
           MonitorCancels(i) \/ MonitorCancelRaises(i) \/ MonitorDeletes(i)
    PROVE  BooksMove /\ FundedStays
<1>1. CASE MonitorCancels(i)
  <2>1. /\ hold.status[i] \in {"UNFUNDED", "FAILED"}
        /\ Sweep(i, "FAILED", "CANCELLED", "fail") /\ UNCHANGED <<height, cln, cltv>>
    BY <1>1 DEF MonitorCancels, ScanStops, Expirable
  <2>2. /\ HtlcsInTime'
        /\ \A h \in Htlcs : Fulfilling(h) => Fulfilling(h)'
        /\ \A j \in Hashes \ {i} : hold'.status[j] = hold.status[j]
    BY <2>1, SweepBooks DEF Statuses
  <2>3. \A s \in Swaps : Sold(s) => Main(s) # i
    BY <2>1 DEF PaymentInv, SoldSecured
  <2> QED
    BY <2>2, <2>3, MainPrepayType DEF BooksMove, FundedStays, Finished
<1>2. CASE MonitorCancelRaises(i)
  BY <1>2, NoSweepRaises DEF MonitorCancelRaises, PaymentInv
<1>3. CASE MonitorDeletes(i)
  <2>1. /\ i \in expiring /\ hold' = Without({i})
        /\ UNCHANGED <<height, cln, cltv, request>>
    BY <1>3 DEF MonitorDeletes
  <2>2. /\ HtlcsInTime'
        /\ \A h \in Htlcs : Fulfilling(h) => Fulfilling(h)'
        /\ \A j \in Hashes : hold'.status[j] = IF j \in {i} THEN "absent" ELSE hold.status[j]
    BY <2>1, WithoutBooks
  <2>3. hold.status[i] # "FUNDED"
    BY <2>1 DEF PaymentInv, RemovedOver
  <2> QED
    BY <2>2, <2>3, MainPrepayType DEF BooksMove, FundedStays, Finished
<1> QED
  BY <1>1, <1>2, <1>3

LEMMA HandlerBooks ==
    ASSUME TypeOK, PaymentInv, HtlcsInTime, NEW s \in Swaps,
           \/ HandlerForgets(s) \/ HandlerSkips(s) \/ HandlerRaises(s)
           \/ HandlerSettles(s) \/ HandlerSettleRaises(s) \/ HandlerSaves(s)
           \/ CallbackReturns(s) \/ CallbackCreatesTx(s) \/ CallbackRaises(s)
           \/ CallbackBroadcasts(s) \/ CallbackBroadcastFails(s)
    PROVE  BooksMove /\ FundedStays
<1>1. CASE HandlerSettles(s)
  <2>1. /\ Sweep(Prepay(s), "SETTLED", "SETTLED", "resolve") /\ UNCHANGED <<height, cln, cltv>>
        /\ Prepay(s) \in Hashes
    BY <1>1, MainPrepayType DEF HandlerSettles
  <2>2. /\ HtlcsInTime'
        /\ \A h \in Htlcs : Fulfilling(h) => Fulfilling(h)'
        /\ \A j \in Hashes \ {Prepay(s)} : hold'.status[j] = hold.status[j]
    BY <2>1, SweepBooks DEF Statuses
  <2>3. \A t \in Swaps : Main(t) \in Hashes \ {Prepay(s)}
    BY MainPrepayType, HashesDiffer
  <2> QED
    BY <2>2, <2>3 DEF BooksMove, FundedStays, Finished
<1>2. CASE HandlerSettleRaises(s)
  BY <1>2, NoSweepRaises DEF HandlerSettleRaises, PaymentInv
<1>3. CASE \/ HandlerForgets(s) \/ HandlerSkips(s) \/ HandlerRaises(s) \/ HandlerSaves(s)
           \/ CallbackReturns(s) \/ CallbackCreatesTx(s) \/ CallbackRaises(s)
           \/ CallbackBroadcasts(s) \/ CallbackBroadcastFails(s)
  <2>1. UNCHANGED <<hold, height, cln, cltv, request>>
    BY <1>3 DEF HandlerForgets, HandlerSkips, HandlerRaises, HandlerSaves, UpdateInvoice,
       CallbackReturns, CallbackCreatesTx, CallbackRaises, CallbackBroadcasts,
       CallbackBroadcastFails, FailSwap, book
  <2> QED
    BY <2>1, SameBooksMove
<1> QED
  BY <1>1, <1>2, <1>3

\* swap.preimage is set, and _finish_normal_swap goes on to its clean-up, only
\* when the client has claimed and the swap invoice is settled.
PreimageKnown ==
    /\ \A s \in Swaps : swaps[s].preimage => Sold(s) /\ Finished(s) /\ spender[s] = "claim"
    /\ \A c \in claim : c.step = "cleanup" => Finished(c.swap)

\* The preimage has been read from the chain, so there is something to settle.
LEMMA ExtractsSold ==
    ASSUME TypeOK, PaymentInv, ClaimPublicInv, NEW c \in claim, Extracts(c.swap, c)
    PROVE  /\ Locked(c.swap) /\ Sold(c.swap) /\ spender[c.swap] = "claim"
           /\ hold.status[Main(c.swap)] \in {"FUNDED", "SETTLED", "absent"}
           /\ hold.status[Main(c.swap)] = "FUNDED" =>
                 Present(Main(c.swap)) /\ FullyFunded(Main(c.swap))
<1>1. c.swap \in Swaps /\ Main(c.swap) \in Hashes
  BY ClaimedType, MainPrepayType
<1>2. c.lockup # "none" /\ c.spender = "claim"
  BY DEF Extracts
<1>3. Locked(c.swap) /\ Sold(c.swap) /\ spender[c.swap] = "claim"
  BY <1>2 DEF PaymentInv, ClaimsLocked, Locked, Sold, ClaimPublicInv, ReadsArePublic
<1>4. hold.status[Main(c.swap)] \in {"FUNDED", "SETTLED", "absent"}
  BY <1>1, <1>3 DEF PaymentInv, SoldSecured, TypeOK, InvoiceTypeOK, Books, Statuses
<1> QED
  BY <1>1, <1>3, <1>4 DEF PaymentInv, FundedCovered, Present

\* settle does not raise but for an invoice that is settled already, or gone.
LEMMA RaisesFinished ==
    ASSUME TypeOK, PaymentInv, ClaimPublicInv, NEW c \in claim, FinishRaises(c.swap, c)
    PROVE  Finished(c.swap) /\ UNCHANGED <<hold, request>>
<1>1. ~SweepRaises(Main(c.swap), "SETTLED", "resolve")
  BY NoSweepRaises DEF PaymentInv
<1> QED
  BY <1>1, ExtractsSold DEF FinishRaises, Finished

LEMMA ClaimBooks ==
    ASSUME TypeOK, PaymentInv, ClaimPublicInv, HtlcsInTime, PreimageKnown, NEW c \in claim,
           \/ ClaimUnfunded(c.swap, c) \/ ClaimDrops(c.swap, c) \/ FinishSettles(c.swap, c)
           \/ FinishRaises(c.swap, c) \/ ClaimSeesRefund(c.swap, c)
           \/ ClaimRefunds(c.swap, c) \/ FinishCleansUp(c)
    PROVE  BooksMove /\ (FundedStays \/ FinishSettles(c.swap, c))
<1> DEFINE s == c.swap
<1>0. s \in Swaps /\ Main(s) \in Hashes
  BY ClaimedType, MainPrepayType
<1>1. CASE FinishSettles(s, c)
  <2>1. /\ Sweep(Main(s), "SETTLED", "SETTLED", "resolve") /\ UNCHANGED <<height, cln, cltv>>
    BY <1>1 DEF FinishSettles
  <2>2. /\ HtlcsInTime'
        /\ \A h \in Htlcs : Fulfilling(h) => Fulfilling(h)'
        /\ hold'.status[Main(s)] = "SETTLED"
        /\ \A j \in Hashes \ {Main(s)} : hold'.status[j] = hold.status[j]
    BY <1>0, <2>1, SweepBooks DEF Statuses
  <2>3. \A t \in Swaps : Main(t) \in Hashes
    BY MainPrepayType
  <2>4. BooksMove
    BY <2>2, <2>3 DEF BooksMove, Finished
  <2> QED
    BY <1>1, <2>4
<1>2. CASE FinishCleansUp(c)
  <2>1. /\ hold' = Without({Main(s), Prepay(s)}) /\ UNCHANGED <<height, cln, cltv, request>>
        /\ c.step = "cleanup"
    BY <1>2 DEF FinishCleansUp
  <2>2. /\ HtlcsInTime'
        /\ \A h \in Htlcs : Fulfilling(h) => Fulfilling(h)'
        /\ \A j \in Hashes : hold'.status[j] =
              IF j \in {Main(s), Prepay(s)} THEN "absent" ELSE hold.status[j]
    BY <2>1, WithoutBooks
  <2>3. Finished(s)
    BY <2>1 DEF PreimageKnown
  <2>4. \A t \in Swaps : Main(t) \in Hashes /\ (t # s => Main(t) \notin {Main(s), Prepay(s)})
    BY <1>0, MainPrepayType, HashesDiffer
  <2> QED
    BY <1>0, <2>2, <2>3, <2>4 DEF BooksMove, FundedStays, Finished
<1>3. CASE FinishRaises(s, c)
  BY <1>3, RaisesFinished, SameBooksMove DEF FinishRaises
<1>f. ASSUME NEW sw, ClaimFails(s, sw) PROVE BooksMove /\ FundedStays
  BY <1>f, SameBooksMove DEF ClaimFails, FailSwap
<1>e. ASSUME NEW sw, ClaimEnds(s, sw) PROVE BooksMove /\ FundedStays
  BY <1>e, SameBooksMove DEF ClaimEnds, invoiceVars
<1>4. CASE ClaimUnfunded(s, c) \/ ClaimDrops(s, c) \/ ClaimSeesRefund(s, c) \/ ClaimRefunds(s, c)
  BY <1>4, <1>e, <1>f DEF ClaimUnfunded, ClaimDrops, ClaimSeesRefund, ClaimRefunds
<1> QED
  BY <1>1, <1>2, <1>3, <1>4

LEMMA CreateBooks ==
    ASSUME TypeOK, PaymentInv, HtlcsInTime, NEW s \in Swaps, CreateInvoices(s)
    PROVE  BooksMove /\ FundedStays
<1>t. created \in Nat /\ s = created + 1
  BY DEF CreateInvoices, TypeOK, SwapTypeOK
<1>1. UNCHANGED <<height, cln, cltv, request>> /\ hold'.htlcs = hold.htlcs
  BY DEF CreateInvoices, TypeOK, InvoiceTypeOK, Books
<1>2. \A i \in Hashes : hold'.status[i] = IF i[1] = s THEN "UNFUNDED" ELSE hold.status[i]
  BY DEF CreateInvoices, TypeOK, InvoiceTypeOK, Books
<1>3. \A i \in Hashes : i[1] = s => hold.status[i] = "absent"
  <2>1. ~Present(Main(s)) /\ ~Present(Prepay(s))
    BY <1>t DEF PaymentInv, UnaskedUnsold
  <2> QED
    BY <2>1 DEF Present, Hashes, Main, Prepay
<1>4. \A t \in Swaps : Sold(t) => t # s
  BY <1>t DEF PaymentInv, UnaskedUnsold
<1>5. \A t \in Swaps : Main(t) \in Hashes /\ Main(t)[1] = t
  BY MainPrepayType DEF Main
<1>6. HtlcsInTime'
  BY <1>1, <1>2, <1>3, HtlcsAssumption DEF HtlcsInTime
<1>7. \A t \in Swaps : Sold(t) => hold'.status[Main(t)] = hold.status[Main(t)]
  BY <1>2, <1>4, <1>5
<1> QED
  BY <1>1, <1>6, <1>7 DEF BooksMove, FundedStays, Finished, Fulfilling

LEMMA RestBooks ==
    ASSUME TypeOK, HtlcsInTime,
           \/ MonitorPolls \/ \E s \in Swaps : ClaimReads(s) \/ ClaimSkips(s)
           \/ \E s \in Swaps : CreateRegisters(s)
           \/ \E s \in Swaps : InvoicesExpire(s)
           \/ \E s \in Swaps : ClientClaims(s)
           \/ PassStarts \/ BlockMined \/ UNCHANGED vars
    PROVE  BooksMove /\ FundedStays
<1>1. UNCHANGED <<hold, cln, cltv, request>> /\ (height' = height \/ height' = height + 1)
  BY DEF MonitorPolls, ClaimReads, ClaimSkips, CreateRegisters, InvoicesExpire, ClientClaims,
     PassStarts, BlockMined, vars, invoiceVars, book
<1> QED
  BY <1>1, SameBooksMove

LEMMA NextBooks ==
    ASSUME NoCrash, TypeOK, PaymentInv, ClaimPublicInv, HtlcsInTime, PreimageKnown, [Next]_vars
    PROVE  BooksMove /\ (FundedStays \/ \E c \in claim : FinishSettles(c.swap, c))
<1>1. CASE CreateMoves
  BY <1>1, CreateBooks, RestBooks DEF CreateMoves
<1>2. CASE HookMoves
  BY <1>2, HookBooks DEF HookMoves
<1>3. CASE MonitorMoves
  BY <1>3, MonitorBooks DEF MonitorMoves
<1>4. CASE HandlerMoves
  BY <1>4, HandlerBooks, RestBooks DEF HandlerMoves
<1>5. CASE ClaimMoves
  BY <1>5, ClaimBooks, RestBooks DEF ClaimMoves
<1>6. CASE ClnMoves
  BY <1>6, LightningBooks DEF ClnMoves
<1>7. ~Crash /\ ~RestartLightning /\ ~RestartSwaps
  BY DEF NoCrash, Crash, Fault, RestartLightning, RestartSwaps, PaymentInv
<1> QED
  BY <1>1, <1>2, <1>3, <1>4, <1>5, <1>6, <1>7, RestBooks DEF Next

-----------------------------------------------------------------------------
(* When the preimage is known *)

\* A step that sets swap.preimage is one of _finish_normal_swap.
PreimageFrom(c) == FinishSettles(c.swap, c) \/ FinishRaises(c.swap, c)
PreimageMoves ==
    /\ \A s \in Swaps : swaps'[s].preimage =>
          swaps[s].preimage \/ \E c \in claim : c.swap = s /\ PreimageFrom(c)
    /\ \A d \in claim' : d.step = "cleanup" =>
          d \in claim \/ \E c \in claim : c.swap = d.swap /\ FinishSettles(c.swap, c)

LEMMA SamePreimages ==
    ASSUME TypeOK,
           \A s \in Swaps : swaps'[s].preimage => swaps[s].preimage,
           \A d \in claim' : d \in claim \/ d.step = "act"
    PROVE  PreimageMoves
  BY DEF PreimageMoves

LEMMA EntryPreimage ==
    ASSUME SwapTypeOK, NEW s \in Swaps
    PROVE  /\ Funded(s).preimage = swaps[s].preimage
           /\ [Funded(s) EXCEPT !.redeemed = TRUE].preimage = swaps[s].preimage
           /\ [swaps[s] EXCEPT !.funded = TRUE].preimage = swaps[s].preimage
           /\ [swaps[s] EXCEPT !.known = FALSE].preimage = swaps[s].preimage
<1>1. swaps[s] \in SwapData
  BY DEF SwapTypeOK
<1> QED
  BY <1>1 DEF Funded, SwapData

LEMMA FailSwapPreimage ==
    ASSUME SwapTypeOK, NEW s \in Swaps, NEW sw \in SwapData, FailSwap(s, sw),
           sw.preimage = swaps[s].preimage
    PROVE  \A t \in Swaps : swaps'[t].preimage = swaps[t].preimage
<1>1. swaps' = [swaps EXCEPT ![s] = [sw EXCEPT !.known = @ /\ (sw.funded /\ ~sw.redeemed)]]
  BY DEF FailSwap
<1>2. [sw EXCEPT !.known = @ /\ (sw.funded /\ ~sw.redeemed)].preimage = sw.preimage
  BY DEF SwapData
<1> QED
  BY <1>1, <1>2 DEF SwapTypeOK

LEMMA ClaimPreimages ==
    ASSUME TypeOK, NEW c \in claim,
           \/ ClaimUnfunded(c.swap, c) \/ ClaimDrops(c.swap, c) \/ FinishSettles(c.swap, c)
           \/ FinishRaises(c.swap, c) \/ ClaimSeesRefund(c.swap, c)
           \/ ClaimRefunds(c.swap, c) \/ FinishCleansUp(c)
    PROVE  PreimageMoves
<1> DEFINE s == c.swap
<1>0. /\ s \in Swaps /\ SwapTypeOK /\ c \in Reads
      /\ swaps[s] \in SwapData /\ Funded(s) \in SwapData /\ WithPreimage(s) \in SwapData
      /\ [Funded(s) EXCEPT !.redeemed = TRUE] \in SwapData
  BY ClaimedType, EntryType DEF TypeOK
<1>p. /\ Funded(s).preimage = swaps[s].preimage
      /\ [Funded(s) EXCEPT !.redeemed = TRUE].preimage = swaps[s].preimage
      /\ [swaps[s] EXCEPT !.known = FALSE].preimage = swaps[s].preimage
  BY <1>0, EntryPreimage
<1> HIDE DEF s
<1>f. ASSUME NEW sw \in SwapData, ClaimFails(s, sw), sw.preimage = swaps[s].preimage
      PROVE  PreimageMoves
  <2>1. claim' = {} /\ \A t \in Swaps : swaps'[t].preimage = swaps[t].preimage
    BY <1>0, <1>f, FailSwapPreimage DEF ClaimFails
  <2> QED
    BY <2>1, SamePreimages
<1>e. ASSUME NEW sw \in SwapData, claim' = {}, swaps' = [swaps EXCEPT ![s] = sw],
             sw.preimage = swaps[s].preimage
      PROVE  PreimageMoves
  <2>1. \A t \in Swaps : swaps'[t].preimage = swaps[t].preimage
    BY <1>0, <1>e, KeptEntry
  <2> QED
    BY <1>e, <2>1, SamePreimages
<1>1. CASE \/ ClaimUnfunded(s, c) \/ ClaimDrops(s, c) \/ ClaimSeesRefund(s, c) \/ ClaimRefunds(s, c)
  BY <1>0, <1>1, <1>e, <1>f, <1>p
  DEF ClaimUnfunded, ClaimDrops, ClaimSeesRefund, ClaimRefunds, ClaimEnds
<1>2. CASE FinishSettles(s, c) \/ FinishRaises(s, c)
  <2>1. /\ swaps' = [swaps EXCEPT ![s] = WithPreimage(s)]
        /\ claim' = {} \/ (FinishSettles(s, c) /\ claim' = {[c EXCEPT !.step = "cleanup"]})
    BY <1>2 DEF FinishSettles, FinishRaises
  <2>2. \A t \in Swaps \ {s} : swaps'[t] = swaps[t]
    BY <1>0, <2>1, KeptEntry
  <2>3. [c EXCEPT !.step = "cleanup"].swap = s
    BY <1>0 DEF Reads, s
  <2> QED
    BY <1>2, <2>1, <2>2, <2>3 DEF PreimageMoves, PreimageFrom, s
<1>3. CASE FinishCleansUp(c)
  <2>1. [swaps[s] EXCEPT !.known = FALSE] \in SwapData
    BY <1>0, FieldsType
  <2> QED
    BY <1>3, <1>e, <1>p, <2>1 DEF FinishCleansUp, s
<1> QED
  BY <1>1, <1>2, <1>3 DEF s

LEMMA CallbackPreimages ==
    ASSUME TypeOK, NEW s \in Swaps,
           \/ CallbackReturns(s) \/ CallbackCreatesTx(s) \/ CallbackRaises(s)
           \/ CallbackBroadcasts(s) \/ CallbackBroadcastFails(s)
    PROVE  PreimageMoves
<1>0. SwapTypeOK /\ [swaps[s] EXCEPT !.funded = TRUE] \in SwapData
  <2>1. swaps[s] \in SwapData
    BY DEF TypeOK, SwapTypeOK
  <2> QED
    BY <2>1 DEF TypeOK, SwapData
<1>p. [swaps[s] EXCEPT !.funded = TRUE].preimage = swaps[s].preimage
  BY <1>0, EntryPreimage
<1>1. UNCHANGED claim
  BY DEF CallbackReturns, CallbackCreatesTx, CallbackRaises, CallbackBroadcasts,
     CallbackBroadcastFails, taskVars
<1>2. \A t \in Swaps : swaps'[t].preimage = swaps[t].preimage
  <2>1. CASE CallbackReturns(s) \/ CallbackCreatesTx(s) \/ CallbackRaises(s)
    BY <2>1 DEF CallbackReturns, CallbackCreatesTx, CallbackRaises, swapVars
  <2>2. CASE CallbackBroadcasts(s)
    <3>1. swaps' = [swaps EXCEPT ![s] = [swaps[s] EXCEPT !.funded = TRUE]]
      BY <2>2 DEF CallbackBroadcasts
    <3> QED
      BY <1>0, <1>p, <3>1, KeptEntry
  <2>3. CASE CallbackBroadcastFails(s)
    BY <1>0, <1>p, <2>3, FailSwapPreimage DEF CallbackBroadcastFails
  <2> QED
    BY <2>1, <2>2, <2>3
<1> QED
  BY <1>1, <1>2, SamePreimages

LEMMA NextPreimages ==
    ASSUME NoCrash, TypeOK, PaymentInv, [Next]_vars PROVE PreimageMoves
<1>q. ASSUME Quiet \/ Writes PROVE PreimageMoves
  <2>1. UNCHANGED <<swaps, claim>>
    BY <1>q DEF Quiet, Writes, ThreadWrites, swapVars, taskVars
  <2> QED
    BY <2>1, SamePreimages
<1>1. CASE CreateMoves
  <2>1. CASE \E s \in Swaps : CreateInvoices(s)
    <3>1. PICK s \in Swaps : CreateInvoices(s)
      BY <2>1
    <3>2. /\ UNCHANGED claim
          /\ swaps' = [swaps EXCEPT ![s] = [NoSwap EXCEPT !.known = TRUE,
                                                          !.locktime = height + LocktimeDelta]]
      BY <3>1 DEF CreateInvoices, taskVars
    <3>3. \A t \in Swaps : swaps'[t].preimage => swaps[t].preimage
      BY <3>2 DEF TypeOK, SwapTypeOK, NoSwap
    <3> QED
      BY <3>2, <3>3, SamePreimages
  <2>2. CASE \E s \in Swaps : CreateRegisters(s)
    <3>1. UNCHANGED <<swaps, claim>>
      BY <2>2 DEF CreateRegisters, taskVars
    <3> QED
      BY <3>1, SamePreimages
  <2> QED
    BY <1>1, <2>1, <2>2 DEF CreateMoves
<1>2. CASE HookMoves
  BY <1>2, <1>q DEF HookMoves
<1>3. CASE MonitorMoves
  BY <1>3, <1>q DEF MonitorMoves
<1>4. CASE HandlerMoves
  BY <1>4, <1>q, CallbackPreimages DEF HandlerMoves
<1>r. ASSUME \/ MonitorPolls \/ \E s \in Swaps : ClaimReads(s) \/ ClaimSkips(s)
             \/ \E s \in Swaps : ClientClaims(s)
             \/ BlockMined \/ UNCHANGED vars
      PROVE  PreimageMoves
  <2>1. UNCHANGED swaps
    BY <1>r DEF MonitorPolls, ClaimReads, ClaimSkips, ClientClaims, BlockMined, vars, swapVars
  <2>2. UNCHANGED claim \/ \E s \in Swaps : ClaimReads(s)
    BY <1>r DEF MonitorPolls, ClaimSkips, ClientClaims, BlockMined, vars, taskVars
  <2>3. \A d \in claim' : d \in claim \/ d.step = "act"
    BY <2>2 DEF ClaimReads
  <2> QED
    BY <2>1, <2>3, SamePreimages
<1>5. CASE ClaimMoves
  BY <1>5, <1>r, ClaimPreimages DEF ClaimMoves
<1>6. CASE ClnMoves
  BY <1>6, <1>q DEF ClnMoves
<1>7. ~Crash /\ ~RestartLightning /\ ~RestartSwaps
  BY DEF NoCrash, Crash, Fault, RestartLightning, RestartSwaps, PaymentInv
<1> QED
  BY <1>1, <1>2, <1>3, <1>4, <1>5, <1>6, <1>7, <1>q, <1>r DEF Next

\* A swap that is sold stays so.
LEMMA SoldForGood ==
    ASSUME TypeOK, SameSold \/ \E s \in Swaps : HandlerSettles(s), NEW t \in Swaps, Sold(t),
           UNCHANGED lockup \/ SameSold
    PROVE  Sold(t)'
<1>1. CASE SameSold
  BY <1>1 DEF SameSold
<1>2. CASE UNCHANGED lockup /\ \E s \in Swaps : HandlerSettles(s)
  <2>1. PICK s \in Swaps : Sweep(Prepay(s), "SETTLED", "SETTLED", "resolve")
    BY <1>2 DEF HandlerSettles
  <2>2. Prepay(t) \in Hashes /\ hold.status \in [Hashes -> Statuses]
    BY MainPrepayType DEF TypeOK, InvoiceTypeOK, Books
  <2> QED
    BY <1>2, <2>1, <2>2 DEF Sweep, Sold
<1> QED
  BY <1>1, <1>2

LEMMA NextPreimageKnown ==
    ASSUME NoCrash, TypeOK, TypeOK', PaymentInv, PaymentInv', ClaimPublicInv, HtlcsInTime,
           PreimageKnown, [Next]_vars
    PROVE  HtlcsInTime' /\ PreimageKnown'
<1>1. BooksMove /\ PreimageMoves /\ ReadsTrue
  BY NextBooks, NextPreimages, NextReleases
<1>2. \A t \in Swaps : Sold(t) => Sold(t)'
  <2>1. SameSold \/ \E s \in Swaps : HandlerSettles(s) /\ Quiet
    BY NextPayment
  <2> QED
    BY <2>1, SoldForGood DEF Quiet, chainVars
<1>3. \A c \in claim : c.swap \in Swaps
  BY ClaimedType
<1>4. ASSUME NEW c \in claim, PreimageFrom(c)
      PROVE  Sold(c.swap) /\ Finished(c.swap)' /\ spender[c.swap] = "claim"
  <2>1. Sold(c.swap) /\ spender[c.swap] = "claim"
    BY <1>4, ExtractsSold DEF PreimageFrom, FinishSettles, FinishRaises
  <2>2. CASE FinishSettles(c.swap, c)
    <3>1. Main(c.swap) \in Hashes /\ Sweep(Main(c.swap), "SETTLED", "SETTLED", "resolve")
      BY <1>3, <2>2, MainPrepayType DEF FinishSettles
    <3>2. hold'.status[Main(c.swap)] = "SETTLED"
      BY <3>1 DEF Sweep, TypeOK, InvoiceTypeOK, Books
    <3> QED
      BY <2>1, <3>2 DEF Finished
  <2>3. CASE FinishRaises(c.swap, c)
    BY <2>1, <2>3, RaisesFinished DEF Finished
  <2> QED
    BY <1>4, <2>2, <2>3 DEF PreimageFrom
<1>5. ASSUME NEW s \in Swaps, swaps'[s].preimage
      PROVE  Sold(s)' /\ Finished(s)' /\ spender'[s] = "claim"
  <2>1. CASE swaps[s].preimage
    BY <1>1, <1>2, <2>1 DEF PreimageKnown, BooksMove, ReadsTrue
  <2>2. CASE \E c \in claim : c.swap = s /\ PreimageFrom(c)
    BY <1>1, <1>2, <1>4, <2>2 DEF ReadsTrue
  <2> QED
    BY <1>1, <1>5, <2>1, <2>2 DEF PreimageMoves
<1>6. ASSUME NEW d \in claim', d.step = "cleanup" PROVE Finished(d.swap)'
  <2>1. CASE d \in claim
    <3>1. Finished(d.swap) /\ Sold(d.swap)
      BY <1>6, <2>1 DEF PreimageKnown, PaymentInv, ClaimsLocked, Sold
    <3> QED
      BY <1>1, <1>3, <2>1, <3>1 DEF BooksMove
  <2>2. CASE \E c \in claim : c.swap = d.swap /\ FinishSettles(c.swap, c)
    <3>1. PICK c \in claim : c.swap = d.swap /\ FinishSettles(c.swap, c)
      BY <2>2
    <3>2. Finished(c.swap)'
      BY <1>4, <3>1 DEF PreimageFrom
    <3> QED
      BY <3>1, <3>2 DEF Finished
  <2> QED
    BY <1>1, <1>6, <2>1, <2>2 DEF PreimageMoves
<1> QED
  BY <1>1, <1>5, <1>6 DEF PreimageKnown, BooksMove

LEMMA PreimageInvariant ==
    ASSUME NoCrash PROVE Spec => [](HtlcsInTime /\ PreimageKnown)
<1>1. Init => HtlcsInTime /\ PreimageKnown
  BY DEF Init, HtlcsInTime, PreimageKnown, NoSwap
<1>2. TypeOK /\ TypeOK' /\ PaymentInv /\ PaymentInv' /\ ClaimPublicInv
         /\ HtlcsInTime /\ PreimageKnown /\ [Next]_vars => (HtlcsInTime /\ PreimageKnown)'
  BY NextPreimageKnown
<1> QED
  BY <1>1, <1>2, TypeCorrect, PaymentInvariant, ClaimPublicInvariant, PTL DEF Spec

-----------------------------------------------------------------------------
(* When the claim is seen *)

\* The asyncio loop is yet to act on swap s at this height.
Pending(s) == lastHeight < height \/ s \in due \/ \E c \in claim : c.swap = s /\ c.step = "act"

Unsettled(s) == Locked(s) /\ hold.status[Main(s)] = "FUNDED"

\* What the one _claim_swap in progress has read can differ from the chain only
\* in what is not in a block yet.
ReadsNow ==
    \A c \in claim :
       /\ \A d \in claim : d = c
       /\ c.height = height /\ c.spentAt = spentAt[c.swap]
       /\ spentAt[c.swap] # 0 => c.spender = spender[c.swap]
       /\ lockup[c.swap] = "confirmed" => c.lockup = "confirmed"

\* The lockup output is confirmed before the locktime; at the locktime it is
\* spent, or about to be, and one block later that is in a block. A claim in a
\* block is acted upon before the next one, so it is watched until then.
InTime(s) ==
    /\ lockup[s] = "mempool" => height < swaps[s].locktime
    /\ Locked(s) /\ height > swaps[s].locktime => spentAt[s] # 0
    /\ Unspent(s) /\ height = swaps[s].locktime => Pending(s)
    /\ spentAt[s] # 0 => /\ spender[s] # "none" /\ lockup[s] = "confirmed"
                         /\ spentAt[s] <= swaps[s].locktime + 1
    /\ Unsettled(s) /\ spender[s] = "claim" /\ spentAt[s] # 0 => height = spentAt[s] /\ Pending(s)
    /\ Unsettled(s) /\ (spentAt[s] = 0 \/ spender[s] = "claim") => s \in watched

InTimeInv == faults = 0 => lastHeight <= height /\ ReadsNow /\ \A s \in Swaps : InTime(s)

LEMMA TimesType ==
    ASSUME TypeOK
    PROVE  /\ height \in Nat /\ lastHeight \in Nat /\ faults \in Nat
           /\ \A s \in Swaps : swaps[s].locktime \in Nat /\ spentAt[s] \in Nat
  BY DEF TypeOK, InvoiceTypeOK, SwapTypeOK, Heights, SwapData

\* A sold swap does not become FUNDED, so what is unsettled was so before.
LEMMA UnsettledBefore ==
    ASSUME BooksMove, NEW s \in Swaps, Locked(s), Unsettled(s)' PROVE Unsettled(s)
  BY DEF BooksMove, Unsettled, Sold, Locked

\* Steps that leave the chain and the loop alone.
LEMMA SameTimes ==
    ASSUME TypeOK, TypeOK', BooksMove, InTimeInv, faults = 0,
           UNCHANGED <<height, lastHeight, lockup, spender, spentAt, due, claim>>,
           watched \subseteq watched',
           \A s \in Swaps : Locked(s) => swaps'[s].locktime = swaps[s].locktime
    PROVE  InTimeInv'
<1>1. lastHeight <= height /\ ReadsNow /\ \A s \in Swaps : InTime(s)
  BY DEF InTimeInv
<1>2. ReadsNow'
  BY <1>1 DEF ReadsNow
<1>3. ASSUME NEW s \in Swaps PROVE InTime(s)'
  <2>1. CASE ~Locked(s)
    BY <1>1, <2>1 DEF InTime, Locked, Unspent, Unsettled
  <2>2. CASE Locked(s)
    <3>1. /\ Unsettled(s)' => Unsettled(s)
          /\ swaps'[s].locktime = swaps[s].locktime
          /\ Pending(s)' <=> Pending(s)
          /\ Unspent(s)' <=> Unspent(s)
          /\ Locked(s)'
      BY <2>2, UnsettledBefore DEF Pending, Unspent, Locked
    <3>2. InTime(s)
      BY <1>1
    <3> QED
      BY <3>1, <3>2 DEF InTime, Locked
  <2> QED
    BY <2>1, <2>2
<1> QED
  BY <1>1, <1>2, <1>3 DEF InTimeInv

\* A poll of the monitor calls every callback there is.
LEMMA PollTimes ==
    ASSUME TypeOK, TypeOK', BooksMove, InTimeInv, LockupWatched, stage = "up", faults = 0, MonitorPolls
    PROVE  InTimeInv'
<1>1. lastHeight <= height /\ ReadsNow /\ \A s \in Swaps : InTime(s)
  BY DEF InTimeInv
<1>2. /\ UNCHANGED <<height, lockup, spender, spentAt, claim, watched, swaps>>
      /\ claim = {} /\ lastHeight' = height /\ due' = watched
  BY DEF MonitorPolls, invoiceVars, swapVars, chainVars
<1>3. ReadsNow'
  BY <1>2 DEF ReadsNow
<1>4. ASSUME NEW s \in Swaps PROVE InTime(s)'
  <2>1. CASE ~Locked(s)
    BY <1>1, <1>2, <2>1 DEF InTime, Locked, Unspent, Unsettled
  <2>2. CASE Locked(s)
    <3>1. /\ Unsettled(s)' => Unsettled(s)
          /\ s \in watched => Pending(s)'
          /\ Unspent(s)' <=> Unspent(s)
          /\ Locked(s)'
      BY <1>2, <2>2, UnsettledBefore DEF Pending, Unspent, Locked
    <3>2. InTime(s) /\ (Unspent(s) => s \in watched)
      BY <1>1 DEF LockupWatched
    <3> QED
      BY <1>2, <3>1, <3>2 DEF InTime, Locked
  <2> QED
    BY <2>1, <2>2
<1>5. lastHeight' <= height'
  BY <1>2, TimesType
<1> QED
  BY <1>3, <1>4, <1>5 DEF InTimeInv

\* _claim_swap starts.
LEMMA ReadTimes ==
    ASSUME TypeOK, TypeOK', BooksMove, InTimeInv, faults = 0, NEW t \in Swaps, ClaimReads(t)
    PROVE  InTimeInv'
<1>1. lastHeight <= height /\ ReadsNow /\ \A s \in Swaps : InTime(s)
  BY DEF InTimeInv
<1>2. /\ UNCHANGED <<height, lastHeight, lockup, spender, spentAt, watched, swaps>>
      /\ claim = {} /\ due' = due \ {t}
      /\ claim' = {[swap |-> t, step |-> "act", height |-> height, lockup |-> lockup[t],
                    spender |-> spender[t], spentAt |-> spentAt[t]]}
  BY DEF ClaimReads, invoiceVars, swapVars, chainVars
<1>3. ReadsNow'
  BY <1>2 DEF ReadsNow
<1>4. ASSUME NEW s \in Swaps PROVE InTime(s)'
  <2>1. CASE ~Locked(s)
    BY <1>1, <1>2, <2>1 DEF InTime, Locked, Unspent, Unsettled
  <2>2. CASE Locked(s)
    <3>1. Pending(s) => Pending(s)'
      BY <1>2 DEF Pending
    <3>2. /\ Unsettled(s)' => Unsettled(s)
          /\ Unspent(s)' <=> Unspent(s)
          /\ Locked(s)'
      BY <1>2, <2>2, UnsettledBefore DEF Unspent, Locked
    <3>3. InTime(s)
      BY <1>1
    <3> QED
      BY <1>2, <3>1, <3>2, <3>3 DEF InTime, Locked
  <2> QED
    BY <2>1, <2>2
<1> QED
  BY <1>1, <1>2, <1>3, <1>4 DEF InTimeInv

\* The client claims what is not spent in a block yet.
LEMMA ClientTimes ==
    ASSUME TypeOK, TypeOK', BooksMove, InTimeInv, faults = 0, NEW t \in Swaps, ClientClaims(t)
    PROVE  InTimeInv'
<1>1. lastHeight <= height /\ ReadsNow /\ \A s \in Swaps : InTime(s)
  BY DEF InTimeInv
<1>2. /\ UNCHANGED <<height, lastHeight, lockup, spentAt, watched, swaps, hold, due, claim>>
      /\ spentAt[t] = 0 /\ spender'[t] = "claim"
      /\ \A s \in Swaps \ {t} : spender'[s] = spender[s]
  BY DEF ClientClaims, invoiceVars, swapVars, taskVars, book, TypeOK, SwapTypeOK
<1>3. \A c \in claim : c.swap \in Swaps
  BY ClaimedType
<1>4. ReadsNow'
  BY <1>1, <1>2, <1>3 DEF ReadsNow
<1>5. ASSUME NEW s \in Swaps PROVE InTime(s)'
  <2>1. /\ Unsettled(s)' <=> Unsettled(s)
        /\ Pending(s)' <=> Pending(s)
        /\ Locked(s)' <=> Locked(s)
        /\ Unspent(s)' => Unspent(s)
    BY <1>2 DEF Unsettled, Pending, Locked, Unspent
  <2>2. InTime(s)
    BY <1>1
  <2> QED
    BY <1>2, <2>1, <2>2 DEF InTime
<1> QED
  BY <1>1, <1>2, <1>4, <1>5 DEF InTimeInv

\* The next block confirms what was sent before it. It finds nothing pending.
LEMMA BlockTimes ==
    ASSUME Prompt, TypeOK, TypeOK', stage = "up", ChainOrder, InTimeInv, faults = 0, BlockMined
    PROVE  InTimeInv'
<1>1. lastHeight <= height /\ ReadsNow /\ \A s \in Swaps : InTime(s)
  BY DEF InTimeInv
<1>2. /\ height' = height + 1 /\ lastHeight = height /\ due = {} /\ claim = {}
      /\ UNCHANGED <<lastHeight, spender, watched, swaps, hold, due, claim>>
      /\ \A s \in Swaps :
            /\ lockup'[s] = IF lockup[s] = "mempool" THEN "confirmed" ELSE lockup[s]
            /\ spentAt'[s] = IF spender[s] # "none" /\ spentAt[s] = 0
                             THEN height + 1 ELSE spentAt[s]
  BY DEF BlockMined, BlockIsDue, LoopIdle, swapVars, taskVars, book
<1>t. /\ height \in Nat
      /\ \A s \in Swaps : /\ swaps[s].locktime \in Nat /\ spentAt[s] \in Nat
                          /\ lockup[s] \in {"none", "mempool", "confirmed"}
  BY TimesType DEF TypeOK, SwapTypeOK
<1>3. ReadsNow'
  BY <1>2 DEF ReadsNow
<1>4. ASSUME NEW s \in Swaps PROVE InTime(s)'
  <2>1. /\ Unsettled(s)' <=> Unsettled(s)
        /\ ~Pending(s) /\ Pending(s)'
        /\ Locked(s)' <=> Locked(s)
    BY <1>2, <1>t DEF Unsettled, Pending, Locked
  <2>2. InTime(s) /\ (spender[s] # "none" => Locked(s))
    BY <1>1 DEF ChainOrder
  <2>3. lockup'[s] # "mempool"
    BY <1>2
  <2>4. Locked(s) /\ height >= swaps[s].locktime => spender[s] # "none"
    <3>1. Locked(s) /\ height > swaps[s].locktime => spender[s] # "none"
      BY <2>2 DEF InTime
    <3>2. Locked(s) /\ height = swaps[s].locktime => spender[s] # "none"
      BY <2>1, <2>2 DEF InTime, Unspent, Locked
    <3> QED
      BY <1>t, <3>1, <3>2
  <2>5. spender[s] # "none" => spentAt'[s] # 0 /\ spentAt'[s] <= swaps[s].locktime + 1
    <3>1. spentAt[s] = 0 /\ spender[s] # "none" => height <= swaps[s].locktime
      BY <1>t, <2>2 DEF InTime
    <3> QED
      BY <1>2, <1>t, <2>2, <3>1 DEF InTime
  <2>6. /\ spentAt'[s] # 0 => spender[s] # "none"
        /\ spender[s] # "none" => lockup'[s] = "confirmed"
        /\ spentAt'[s] # spentAt[s] => spentAt'[s] = height'
    BY <1>2, <1>t, <2>2 DEF InTime, Locked
  <2>7. Locked(s) /\ height' > swaps[s].locktime => spentAt'[s] # 0
    BY <1>2, <1>t, <2>4, <2>5
  <2>8. Unsettled(s) /\ spender[s] = "claim" /\ spentAt'[s] # 0 => height' = spentAt'[s]
    BY <2>1, <2>2, <2>6 DEF InTime
  <2>9. Unsettled(s) /\ (spentAt'[s] = 0 \/ spender[s] = "claim") => s \in watched
    BY <1>2, <2>2, <2>5 DEF InTime
  <2> QED
    BY <1>2, <2>1, <2>3, <2>5, <2>6, <2>7, <2>8, <2>9 DEF InTime
<1>5. lastHeight' <= height'
  BY <1>2, <1>t
<1> QED
  BY <1>3, <1>4, <1>5 DEF InTimeInv

\* A lockup output is published while there is time, and watched.
LEMMA PublishTimes ==
    ASSUME TypeOK, TypeOK', FundingInv, ChainOrder, FundsInTime, CreationApart, WatchedInv,
           BooksMove, InTimeInv, faults = 0, NEW t \in Swaps, CallbackEffect(t),
           CallbackBroadcasts(t)
    PROVE  InTimeInv'
<1>1. lastHeight <= height /\ ReadsNow /\ \A s \in Swaps : InTime(s)
  BY DEF InTimeInv
<1> DEFINE e == <<t, "broadcast">>
<1>2. e \in handling /\ e[1] = t
  BY DEF CallbackEffect
<1> HIDE DEF e
<1>3. /\ UNCHANGED <<height, lastHeight, spender, spentAt, watched, hold, due, claim>>
      /\ \A s \in Swaps \ {t} : swaps'[s] = swaps[s] /\ lockup'[s] = lockup[s]
      /\ swaps'[t].locktime = swaps[t].locktime
  BY DEF CallbackBroadcasts, CallbackEffect, book, taskVars
<1>t. /\ height \in Nat /\ swaps[t].locktime \in Nat
      /\ lockup \in [Swaps -> {"none", "mempool", "confirmed"}]
  BY TimesType DEF TypeOK, SwapTypeOK
<1>4. ~Locked(t) /\ spender[t] = "none" /\ spentAt[t] = 0 /\ height < swaps[t].locktime
  <2>1. ~Locked(t)
    BY <1>2, HandledUnlocked
  <2>2. spender[t] = "none"
    BY <2>1 DEF ChainOrder
  <2> QED
    BY <1>1, <1>2, <2>1, <2>2 DEF InTime, FundsInTime
<1>5. lockup'[t] = "mempool"
  BY <1>4, <1>t DEF CallbackBroadcasts, Publish, Locked
<1>6. t \in watched
  <2>1. t <= created
    BY <1>2 DEF FundingInv, HandlingOwns
  <2>2. Handled(t)
    BY <1>2 DEF Handled
  <2>3. t \notin creating /\ ~Ended(t)
    BY <1>4, <1>t, <2>2 DEF CreationApart, Ended
  <2> QED
    BY <2>1, <2>3 DEF WatchedInv
<1>7. ReadsNow'
  BY <1>1, <1>3, <1>5, ClaimedType DEF ReadsNow
<1>8. ASSUME NEW s \in Swaps PROVE InTime(s)'
  <2>1. Pending(s)' <=> Pending(s)
    BY <1>3 DEF Pending
  <2>2. CASE s # t
    <3>1. /\ Unsettled(s)' <=> Unsettled(s)
          /\ Locked(s)' <=> Locked(s)
          /\ Unspent(s)' <=> Unspent(s)
      BY <1>3, <2>2 DEF Unsettled, Locked, Unspent
    <3>2. InTime(s)
      BY <1>1
    <3> QED
      BY <1>3, <2>1, <2>2, <3>1, <3>2 DEF InTime
  <2>3. CASE s = t
    BY <1>3, <1>4, <1>5, <1>6, <1>t, <2>3 DEF InTime
  <2> QED
    BY <2>2, <2>3
<1> QED
  BY <1>1, <1>3, <1>7, <1>8 DEF InTimeInv

\* What _claim_swap leaves of the swap that it has read: a callback only if it is
\* not needed any more, no unspent lockup output at the locktime, and no claim
\* in a block that is not settled.
ClaimDecides(c) ==
    /\ UNCHANGED <<height, lastHeight, due, lockup, spentAt>>
    /\ claim' \subseteq {[c EXCEPT !.step = "cleanup"]}
    /\ \A s \in Swaps :
          /\ swaps'[s].locktime = swaps[s].locktime
          /\ \/ spender'[s] = spender[s]
             \/ s = c.swap /\ spender[s] = "none" /\ spender'[s] = "refund"
    /\ \/ watched' = watched
       \/ /\ watched' = watched \ {c.swap}
          /\ ~(Unsettled(c.swap)' /\ (spentAt[c.swap] = 0 \/ spender[c.swap] = "claim"))
    /\ Unspent(c.swap)' => height # swaps[c.swap].locktime
    /\ Unsettled(c.swap)' => ~(spender[c.swap] = "claim" /\ spentAt[c.swap] # 0)

LEMMA ClaimDecidesNow ==
    ASSUME TypeOK, PaymentInv, ClaimPublicInv, StoredInv, PreimageKnown, InTimeInv, faults = 0,
           NEW c \in claim, ClaimEffect(c),
           \/ ClaimUnfunded(c.swap, c) \/ ClaimDrops(c.swap, c) \/ FinishSettles(c.swap, c)
           \/ FinishRaises(c.swap, c) \/ ClaimSeesRefund(c.swap, c)
           \/ ClaimRefunds(c.swap, c) \/ FinishCleansUp(c)
    PROVE  ClaimDecides(c)
<1> DEFINE s == c.swap
<1>0. /\ s \in Swaps /\ Main(s) \in Hashes /\ SwapTypeOK
      /\ height \in Nat /\ spentAt[s] \in Nat /\ swaps[s].locktime \in Nat
      /\ lockup[s] \in {"none", "mempool", "confirmed"} /\ RedeemDelay \in Nat
      /\ hold.status \in [Hashes -> Statuses]
      /\ spender \in [Swaps -> {"none", "claim", "refund"}]
  BY ClaimedType, MainPrepayType, TimesType, ForwardAssumption
  DEF TypeOK, SwapTypeOK, InvoiceTypeOK, Books
<1>1. ReadsNow /\ InTime(s)
  BY <1>0 DEF InTimeInv
<1>2. /\ c.height = height /\ c.spentAt = spentAt[s]
      /\ spentAt[s] # 0 => c.spender = spender[s] /\ c.lockup = "confirmed" /\ lockup[s] = "confirmed"
      /\ lockup[s] = "confirmed" => c.lockup = "confirmed"
      /\ c.spender # "none" => spender[s] # "none"
      /\ c.step = "cleanup" => c.spender = "claim"
      /\ c.lockup = "none" /\ height >= swaps[s].locktime => ~Locked(s)
  BY <1>0, <1>1 DEF ReadsNow, InTime, StoredInv, ReadsPast
<1>3. /\ UNCHANGED <<height, lockup>>
      /\ \A t \in Swaps : swaps'[t].locktime = swaps[t].locktime
      /\ claim' \subseteq {[c EXCEPT !.step = "cleanup"]}
      /\ watched' = watched \/ watched' = watched \ {s}
  BY DEF ClaimEffect
<1>u. UNCHANGED hold => (Unsettled(s)' <=> Unsettled(s))
  BY <1>3 DEF Unsettled, Locked
<1>k. ~Locked(s) => ~Unsettled(s)' /\ ~Unspent(s)'
  BY <1>3 DEF Unsettled, Locked, Unspent
<1> HIDE DEF s
<1>g. ASSUME UNCHANGED <<lastHeight, due, chainVars>>,
             \/ watched' = watched
             \/ ~(Unsettled(s)' /\ (spentAt[s] = 0 \/ spender[s] = "claim")),
             Unspent(s)' => height # swaps[s].locktime,
             Unsettled(s)' => ~(spender[s] = "claim" /\ spentAt[s] # 0)
      PROVE  ClaimDecides(c)
  BY <1>3, <1>g DEF ClaimDecides, chainVars, s
<1>f. ASSUME NEW sw, ClaimFails(s, sw) PROVE UNCHANGED <<hold, lastHeight, due, chainVars>>
  BY <1>f DEF ClaimFails, FailSwap
<1>e. ASSUME NEW sw, ClaimEnds(s, sw) PROVE UNCHANGED <<hold, lastHeight, due, watched>>
  BY <1>e DEF ClaimEnds, invoiceVars, book
<1>4. CASE ClaimUnfunded(s, c)
  <2>1. CASE c.height >= swaps[s].locktime /\ ClaimFails(s, swaps[s])
    <3>1. ~Unsettled(s)' /\ ~Unspent(s)'
      BY <1>2, <1>4, <1>k, <2>1 DEF ClaimUnfunded
    <3> QED
      BY <1>f, <1>g, <2>1, <3>1
  <2>2. CASE c.height < swaps[s].locktime /\ ClaimEnds(s, swaps[s]) /\ UNCHANGED chainVars
    <3>1. spentAt[s] = 0 /\ height # swaps[s].locktime
      BY <1>0, <1>2, <1>4, <2>2 DEF ClaimUnfunded
    <3> QED
      BY <1>e, <1>g, <2>2, <3>1
  <2> QED
    BY <1>4, <2>1, <2>2 DEF ClaimUnfunded
<1>5. CASE ClaimDrops(s, c)
  <2>1. /\ UNCHANGED <<hold, lastHeight, due, chainVars>>
        /\ spentAt[s] # 0 /\ height # spentAt[s] /\ spender[s] # "none"
    BY <1>0, <1>2, <1>5, <1>f DEF ClaimDrops, LongSpent
  <2>2. ~Unspent(s)'
    BY <2>1 DEF Unspent, chainVars
  <2>3. Unsettled(s)' => spender[s] # "claim"
    BY <1>1, <1>u, <2>1 DEF InTime
  <2> QED
    BY <1>g, <2>1, <2>2, <2>3
<1>6. CASE FinishSettles(s, c)
  <2>1. /\ UNCHANGED <<lastHeight, due, chainVars>> /\ hold'.status[Main(s)] = "SETTLED"
    BY <1>0, <1>6 DEF FinishSettles, Sweep, TypeOK, InvoiceTypeOK, Books
  <2>2. spender[s] = "claim"
    BY <1>6, ExtractsSold DEF FinishSettles, s
  <2>3. ~Unsettled(s)' /\ ~Unspent(s)'
    BY <2>1, <2>2 DEF Unsettled, Unspent, chainVars
  <2> QED
    BY <1>g, <2>1, <2>3
<1>7. CASE FinishRaises(s, c)
  <2>1. UNCHANGED <<lastHeight, due, chainVars, hold>> /\ Finished(s)
    BY <1>7, RaisesFinished DEF FinishRaises, s
  <2>2. spender[s] = "claim"
    BY <1>7, ExtractsSold DEF FinishRaises, s
  <2>3. ~Unsettled(s)' /\ ~Unspent(s)'
    BY <1>u, <2>1, <2>2 DEF Unsettled, Unspent, chainVars, Finished
  <2> QED
    BY <1>g, <2>1, <2>3
<1>8. CASE ClaimSeesRefund(s, c)
  <2>1. c.spender = "refund" /\ UNCHANGED <<hold, lastHeight, due, chainVars>>
    BY <1>8, <1>e, <1>f DEF ClaimSeesRefund
  <2>2. watched' = watched \/ spentAt[s] # 0
    BY <1>2, <1>8, <1>e DEF ClaimSeesRefund
  <2>3. spentAt[s] # 0 => spender[s] # "claim"
    BY <1>2, <2>1
  <2>4. ~Unspent(s)'
    BY <1>2, <2>1 DEF Unspent, chainVars
  <2> QED
    BY <1>g, <2>1, <2>2, <2>3, <2>4
<1>9. CASE ClaimRefunds(s, c)
  <2>1. /\ UNCHANGED <<hold, lastHeight, due, watched>> /\ UNCHANGED <<lockup, spentAt>>
        /\ \/ UNCHANGED spender
           \/ spender[s] = "none" /\ spender' = [spender EXCEPT ![s] = "refund"]
    BY <1>9, <1>e DEF ClaimRefunds, RefundBroadcast, chainVars
  <2>2. \A t \in Swaps : \/ spender'[t] = spender[t]
                         \/ t = s /\ spender[t] = "none" /\ spender'[t] = "refund"
    BY <1>0, <2>1
  <2>3. Unsettled(s)' => ~(spender[s] = "claim" /\ spentAt[s] # 0)
    <3>1. Unsettled(s)' => ~swaps[s].preimage
      BY <1>0, <1>u, <2>1 DEF PreimageKnown, Finished, Unsettled
    <3>2. c.spender = "none" \/ swaps[s].preimage
      BY <1>9 DEF ClaimRefunds
    <3> QED
      BY <1>2, <3>1, <3>2
  <2>4. Unspent(s)' => height # swaps[s].locktime
    <3> SUFFICES ASSUME Unspent(s)', height = swaps[s].locktime PROVE FALSE
      OBVIOUS
    <3>1. lockup[s] # "none" /\ spender[s] = "none" /\ spender'[s] = "none"
      BY <1>0, <2>1, <2>2 DEF Unspent
    <3>2. lockup[s] = "confirmed" /\ c.lockup = "confirmed"
      BY <1>0, <1>1, <1>2, <3>1 DEF InTime
    <3>3. ~swaps[s].preimage
      BY <1>0, <3>1 DEF PreimageKnown
    <3>4. RefundBroadcast(s)
      BY <1>0, <1>2, <1>9, <3>2, <3>3 DEF ClaimRefunds, PastLocktime
    <3> QED
      BY <1>0, <3>1, <3>2, <3>4 DEF RefundBroadcast
  <2> QED
    BY <1>3, <2>1, <2>2, <2>3, <2>4 DEF ClaimDecides, s
<1>10. CASE FinishCleansUp(c)
  <2>1. /\ UNCHANGED <<lastHeight, due, chainVars>> /\ c.step = "cleanup"
        /\ hold' = Without({Main(s), Prepay(s)})
    BY <1>10 DEF FinishCleansUp, s
  <2>2. hold'.status[Main(s)] = "absent"
    BY <1>0, <2>1 DEF Without
  <2>3. spender[s] # "none"
    BY <1>2, <2>1
  <2>4. ~Unsettled(s)' /\ ~Unspent(s)'
    BY <2>1, <2>2, <2>3 DEF Unsettled, Unspent, chainVars
  <2> QED
    BY <1>g, <2>1, <2>4
<1> QED
  BY <1>4, <1>5, <1>6, <1>7, <1>8, <1>9, <1>10 DEF s

LEMMA ClaimTimes ==
    ASSUME TypeOK, TypeOK', BooksMove, InTimeInv, faults = 0, NEW c \in claim, ClaimDecides(c)
    PROVE  InTimeInv'
<1>0. c.swap \in Swaps /\ c \in Reads
  BY ClaimedType
<1>1. lastHeight <= height /\ ReadsNow /\ \A s \in Swaps : InTime(s)
  BY DEF InTimeInv
<1>2. /\ UNCHANGED <<height, lastHeight, due, lockup, spentAt>>
      /\ \A s \in Swaps : swaps'[s].locktime = swaps[s].locktime
  BY DEF ClaimDecides
<1>3. \A s \in Swaps : spentAt[s] # 0 => spender'[s] = spender[s]
  BY <1>1 DEF ClaimDecides, InTime
<1>4. \A d \in claim' : /\ d = [c EXCEPT !.step = "cleanup"]
                        /\ d.swap = c.swap /\ d.height = c.height /\ d.spentAt = c.spentAt
                        /\ d.spender = c.spender /\ d.lockup = c.lockup /\ d.step = "cleanup"
  BY <1>0 DEF ClaimDecides, Reads
<1>5. ReadsNow'
  BY <1>0, <1>1, <1>2, <1>3, <1>4 DEF ReadsNow
<1>6. ASSUME NEW s \in Swaps PROVE InTime(s)'
  <2>1. /\ Locked(s)' <=> Locked(s)
        /\ Unspent(s)' => Unspent(s)
        /\ Unsettled(s)' => Unsettled(s)
    <3>1. Locked(s)' <=> Locked(s)
      BY <1>2 DEF Locked
    <3>2. Unspent(s)' => Unspent(s)
      BY <1>2 DEF ClaimDecides, Unspent
    <3>3. Unsettled(s)' => Unsettled(s)
      BY <3>1, UnsettledBefore DEF Unsettled, Locked
    <3> QED
      BY <3>1, <3>2, <3>3
  <2>2. InTime(s)
    BY <1>1
  <2>3. CASE s # c.swap
    <3>1. Pending(s) => Pending(s)'
      BY <1>1, <1>2, <2>3 DEF Pending, ReadsNow
    <3>2. spender'[s] = spender[s] /\ (s \in watched => s \in watched')
      BY <2>3 DEF ClaimDecides
    <3> QED
      BY <1>2, <2>1, <2>2, <3>1, <3>2 DEF InTime
  <2>4. CASE s = c.swap
    <3>1. spender'[s] = "claim" => spender[s] = "claim"
      BY DEF ClaimDecides
    <3>2. /\ Unspent(s)' => height # swaps[s].locktime
          /\ Unsettled(s)' => ~(spender[s] = "claim" /\ spentAt[s] # 0)
          /\ Unsettled(s)' /\ (spentAt[s] = 0 \/ spender[s] = "claim") => s \in watched'
      BY <2>1, <2>2, <2>4 DEF ClaimDecides, InTime
    <3> QED
      BY <1>2, <1>3, <2>1, <2>2, <3>1, <3>2 DEF InTime
  <2> QED
    BY <2>3, <2>4
<1> QED
  BY <1>1, <1>2, <1>5, <1>6 DEF InTimeInv

\* The threads of CLNLightning and lightningd.
LEMMA QuietTimes ==
    ASSUME TypeOK, TypeOK', BooksMove, InTimeInv, faults = 0, UNCHANGED height, Quiet \/ Writes
    PROVE  InTimeInv'
<1>1. UNCHANGED <<height, lastHeight, lockup, spender, spentAt, due, claim, watched, swaps>>
  BY DEF Quiet, Writes, ThreadWrites, swapVars, taskVars, chainVars
<1> QED
  BY <1>1, SameTimes

LEMMA CreateTimes ==
    ASSUME TypeOK, TypeOK', PaymentInv, BooksMove, InTimeInv, faults = 0, CreateMoves
    PROVE  InTimeInv'
<1>1. /\ UNCHANGED <<height, lastHeight, lockup, spender, spentAt, due, claim>>
      /\ watched \subseteq watched'
  BY DEF CreateMoves, CreateInvoices, CreateRegisters, taskVars, chainVars
<1>2. \A t \in Swaps : Locked(t) => swaps'[t].locktime = swaps[t].locktime
  <2>1. CASE \E s \in Swaps : CreateInvoices(s)
    <3>1. PICK s \in Swaps : CreateInvoices(s)
      BY <2>1
    <3>2. \A t \in Swaps : t # s => swaps'[t] = swaps[t]
      BY <3>1 DEF CreateInvoices, TypeOK, SwapTypeOK
    <3>3. s = created + 1 /\ created \in Nat
      BY <3>1 DEF CreateInvoices, TypeOK, SwapTypeOK
    <3>4. ~Locked(s)
      BY <3>3 DEF PaymentInv, UnaskedUnsold, Sold, Locked
    <3> QED
      BY <3>2, <3>4
  <2>2. CASE \E s \in Swaps : CreateRegisters(s)
    BY <2>2 DEF CreateRegisters
  <2> QED
    BY <2>1, <2>2 DEF CreateMoves
<1> QED
  BY <1>1, <1>2, SameTimes

LEMMA HandlerTimes ==
    ASSUME TypeOK, TypeOK', FundingInv, StoredInv, FundsInTime, CreationApart, WatchedInv,
           BooksMove, InTimeInv, faults = 0, faults' = 0, HandlerMoves
    PROVE  InTimeInv'
<1>1. CASE PassStarts /\ Quiet
  BY <1>1, HandlingUntouched, QuietTimes
<1>2. CASE \E s \in Swaps : \/ /\ \/ HandlerForgets(s) \/ HandlerSkips(s) \/ HandlerRaises(s)
                                  \/ HandlerSettles(s) \/ HandlerSettleRaises(s)
                               /\ Quiet
                            \/ HandlerSaves(s) /\ Writes
  <2>1. UNCHANGED height /\ (Quiet \/ Writes)
    BY <1>2 DEF HandlerForgets, HandlerSkips, HandlerRaises, HandlerSettles, HandlerSettleRaises,
       HandlerSaves
  <2> QED
    BY <2>1, QuietTimes
<1>3. CASE \E s \in Swaps : CallbackReturns(s) \/ CallbackCreatesTx(s)
  <2>1. UNCHANGED <<height, lastHeight, lockup, spender, spentAt, due, claim, watched, swaps>>
    BY <1>3 DEF CallbackReturns, CallbackCreatesTx, swapVars, taskVars, chainVars
  <2> QED
    BY <2>1, SameTimes
<1>4. CASE \E s \in Swaps : CallbackBroadcasts(s)
  BY <1>4, CallbackHasEffect, PublishTimes DEF StoredInv
<1>5. CASE \E s \in Swaps : CallbackRaises(s) \/ CallbackBroadcastFails(s)
  BY <1>5 DEF CallbackRaises, CallbackBroadcastFails, Fault
<1> QED
  BY <1>1, <1>2, <1>3, <1>4, <1>5 DEF HandlerMoves

LEMMA ClaimMovesTimes ==
    ASSUME TypeOK, TypeOK', FundingInv, PaymentInv, ClaimPublicInv, StoredInv, FundsInTime,
           LockupWatched, PreimageKnown, BooksMove, InTimeInv, faults = 0, faults' = 0, ClaimMoves
    PROVE  InTimeInv'
<1>1. CASE MonitorPolls
  BY <1>1, PollTimes DEF MonitorPolls
<1>2. CASE \E s \in Swaps : ClaimReads(s)
  BY <1>2, ReadTimes
<1>3. CASE \E s \in Swaps : ClaimSkips(s)
  BY <1>3 DEF ClaimSkips, Fault
<1>4. CASE \E c \in claim :
              \/ ClaimUnfunded(c.swap, c) \/ ClaimDrops(c.swap, c) \/ FinishSettles(c.swap, c)
              \/ FinishRaises(c.swap, c) \/ ClaimSeesRefund(c.swap, c)
              \/ ClaimRefunds(c.swap, c) \/ FinishCleansUp(c)
  BY <1>4, ClaimHasEffect, ClaimDecidesNow, ClaimTimes
<1> QED
  BY <1>1, <1>2, <1>3, <1>4 DEF ClaimMoves

\* The failures that a step counts.
LEMMA FaultsGrow == ASSUME NoCrash, TypeOK, PaymentInv, [Next]_vars, faults' = 0 PROVE faults = 0
<1>1. faults \in Nat
  BY TimesType
<1>2. UNCHANGED faults \/ faults' = faults + 1
  <2>1. CASE CreateMoves \/ BlockMined \/ (\E s \in Swaps : ClientClaims(s)) \/ UNCHANGED vars
    BY <2>1 DEF CreateMoves, CreateInvoices, CreateRegisters, BlockMined, ClientClaims, vars,
       faultVars
  <2>2. CASE HookMoves \/ MonitorMoves \/ ClnMoves \/ (\E s \in Swaps : InvoicesExpire(s) /\ Quiet)
    BY <2>2 DEF HookMoves, MonitorMoves, ClnMoves, Quiet, Writes, faultVars
  <2>3. CASE HandlerMoves
    BY <2>3 DEF HandlerMoves, Quiet, Writes, CallbackReturns, CallbackCreatesTx, CallbackRaises,
       CallbackBroadcasts, CallbackBroadcastFails, Fault, faultVars
  <2>4. CASE ClaimMoves
    BY <2>4 DEF ClaimMoves, MonitorPolls, ClaimReads, ClaimSkips, ClaimUnfunded, ClaimDrops,
       FinishSettles, FinishRaises, ClaimSeesRefund, ClaimRefunds, FinishCleansUp, ClaimEnds,
       ClaimFails, Fault, faultVars
  <2>5. ~Crash /\ ~RestartLightning /\ ~RestartSwaps
    BY DEF NoCrash, Crash, Fault, RestartLightning, RestartSwaps, PaymentInv
  <2> QED
    BY <2>1, <2>2, <2>3, <2>4, <2>5 DEF Next
<1> QED
  BY <1>1, <1>2

LEMMA NextTimes ==
    ASSUME NoCrash, Prompt, TypeOK, TypeOK', FundingInv, PaymentInv, ClaimPublicInv, StoredInv,
           CreationApart, WatchedInv, LockupWatched, HtlcsInTime, PreimageKnown, FundsInTime,
           InTimeInv, [Next]_vars
    PROVE  InTimeInv'
<1> SUFFICES ASSUME faults' = 0 PROVE InTimeInv'
  BY DEF InTimeInv
<1>0. faults = 0 /\ BooksMove /\ stage = "up"
  BY FaultsGrow, NextBooks DEF PaymentInv
<1>1. CASE CreateMoves
  BY <1>0, <1>1, CreateTimes
<1>2. CASE HookMoves \/ MonitorMoves \/ ClnMoves \/ (\E s \in Swaps : InvoicesExpire(s) /\ Quiet)
  <2>1. UNCHANGED height /\ (Quiet \/ Writes)
    BY <1>2, HandlingUntouched
  <2> QED
    BY <1>0, <2>1, QuietTimes
<1>3. CASE HandlerMoves
  BY <1>0, <1>3, HandlerTimes
<1>4. CASE ClaimMoves
  BY <1>0, <1>4, ClaimMovesTimes
<1>5. CASE \E s \in Swaps : ClientClaims(s)
  BY <1>0, <1>5, ClientTimes
<1>6. CASE BlockMined
  BY <1>0, <1>6, BlockTimes DEF StoredInv
<1>7. CASE UNCHANGED vars
  <2>1. UNCHANGED <<height, lastHeight, lockup, spender, spentAt, due, claim, watched, swaps>>
    BY <1>7 DEF vars, invoiceVars, swapVars, taskVars, chainVars
  <2> QED
    BY <1>0, <2>1, SameTimes
<1>8. ~Crash /\ ~RestartLightning /\ ~RestartSwaps
  BY DEF NoCrash, Crash, Fault, RestartLightning, RestartSwaps, PaymentInv
<1> QED
  BY <1>1, <1>2, <1>3, <1>4, <1>5, <1>6, <1>7, <1>8 DEF Next

LEMMA InTimeInvariant ==
    ASSUME NoCrash, Prompt PROVE Spec /\ []FundsInTime => []InTimeInv
<1>1. Init => InTimeInv
  BY ForwardAssumption DEF Init, InTimeInv, ReadsNow, InTime, Unspent, Unsettled, Locked
<1>2. TypeOK /\ TypeOK' /\ FundingInv /\ PaymentInv /\ ClaimPublicInv /\ StoredInv
         /\ CreationApart /\ WatchedInv /\ LockupWatched /\ HtlcsInTime /\ PreimageKnown
         /\ FundsInTime /\ InTimeInv /\ [Next]_vars => InTimeInv'
  BY NextTimes
<1> QED
  BY <1>1, <1>2, TypeCorrect, FundingInvariant, PaymentInvariant, ClaimPublicInvariant,
     StoredInvariant, WatchedInvariant, LockupStaysWatched, PreimageInvariant, PTL DEF Spec

-----------------------------------------------------------------------------
(* The provider does not lose *)

\* The HTLCs outlive the locktime by the block that confirms a claim made at the
\* locktime and one more. In the code the margin is 144 - 70.
Margin == LocktimeDelta + 2 <= MinFinalCltv

\* What is settled has been answered with the preimage in time.
DeliveredInv ==
    faults = 0 => \A s \in Swaps :
       Sold(s) /\ hold.status[Main(s)] # "FUNDED" => Delivered(s) \in Covering[Main(s)]

\* As long as the swap invoice of a claimed swap is not settled, no HTLC that
\* pays it has timed out.
LEMMA HeldUntilSettled ==
    ASSUME Margin, TypeOK, PaymentInv, StoredInv, LastingInv, HtlcsInTime, InTimeInv, faults = 0,
           NEW s \in Swaps, hold.status[Main(s)] = "FUNDED", spender[s] = "claim"
    PROVE  \A h \in Counted(Main(s)) : h \in Accepted(Main(s)) /\ cln[h] = "held"
<1>t. /\ height \in Nat /\ swaps[s].locktime \in Nat /\ spentAt[s] \in Nat
      /\ LocktimeDelta \in Nat /\ MinFinalCltv \in Nat
  BY TimesType, ForwardAssumption, HeightAssumption
<1>1. height <= swaps[s].locktime + 1
  <2>1. InTime(s) /\ Locked(s)
    BY DEF InTimeInv, StoredInv, ChainOrder
  <2>2. CASE spentAt[s] = 0
    BY <1>t, <2>1, <2>2 DEF InTime
  <2>3. CASE spentAt[s] # 0
    BY <1>t, <2>1, <2>3 DEF InTime, Unsettled
  <2> QED
    BY <2>2, <2>3
<1> SUFFICES ASSUME NEW h \in Counted(Main(s))
             PROVE  h \in Accepted(Main(s)) /\ cln[h] = "held"
  OBVIOUS
<1>2. /\ h \in Htlcs /\ InvoiceOf[h] = Main(s) /\ hold.htlcs[h] = "ACCEPTED"
      /\ h \in Accepted(Main(s)) /\ h \in EverAccepted(s)
  BY DEF Counted, Accepted, EverAccepted, HtlcsOf, HtlcsInTime
<1>3. cltv[h] + LocktimeDelta >= swaps[s].locktime + MinFinalCltv
  BY <1>2 DEF LastingInv, AcceptedLast, Locktimes
<1>4. cltv[h] \in Nat /\ HtlcTracked(h)
  BY <1>2 DEF TypeOK, InvoiceTypeOK, PaymentInv
<1>5. ~(height >= cltv[h])
  BY <1>1, <1>3, <1>4, <1>t DEF Margin
<1>6. cln[h] # "timedout"
  BY <1>2, <1>5 DEF HtlcsInTime
<1> QED
  BY <1>2, <1>4, <1>6 DEF HtlcTracked

\* So all of them are fulfilled when it is settled.
LEMMA SettlesInTime ==
    ASSUME Margin, TypeOK, PaymentInv, ClaimPublicInv, StoredInv, LastingInv, HtlcsInTime,
           InTimeInv, faults = 0, NEW c \in claim, FinishSettles(c.swap, c),
           hold.status[Main(c.swap)] = "FUNDED"
    PROVE  Delivered(c.swap)' \in Covering[Main(c.swap)]
<1> DEFINE s == c.swap
<1>1. s \in Swaps /\ Main(s) \in Hashes /\ Main(s) \in DOMAIN Covering
  BY ClaimedType, MainPrepayType, CoveringAssumption
<1>2. spender[s] = "claim" /\ Counted(Main(s)) \in Covering[Main(s)]
  BY ExtractsSold DEF FinishSettles, FullyFunded
<1>3. /\ UNCHANGED cln
      /\ request' = [h \in Htlcs |-> IF h \in Accepted(Main(s)) THEN "resolve" ELSE request[h]]
  BY DEF FinishSettles, Sweep
<1>4. \A h \in Counted(Main(s)) : h \in Accepted(Main(s)) /\ cln[h] = "held"
  BY <1>1, <1>2, HeldUntilSettled
<1>5. Counted(Main(s)) \subseteq Delivered(s)'
  BY <1>3, <1>4 DEF Delivered, Fulfilling, Counted, HtlcsOf
<1>6. Counted(Main(s)) \in SUBSET Htlcs /\ Delivered(s)' \in SUBSET Htlcs
  BY DEF Counted, Delivered, HtlcsOf
<1> QED
  BY <1>1, <1>2, <1>5, <1>6, CoveringGrows

LEMMA NextDelivered ==
    ASSUME NoCrash, Margin, TypeOK, TypeOK', PaymentInv, ClaimPublicInv, StoredInv, LastingInv,
           HtlcsInTime, PreimageKnown, InTimeInv, DeliveredInv, [Next]_vars
    PROVE  DeliveredInv'
<1> SUFFICES ASSUME faults' = 0, NEW s \in Swaps, Sold(s)', hold'.status[Main(s)] # "FUNDED"
             PROVE  Delivered(s)' \in Covering[Main(s)]
  BY DEF DeliveredInv
<1>0. faults = 0 /\ Main(s) \in Hashes /\ hold.status \in [Hashes -> Statuses]
  BY FaultsGrow, MainPrepayType DEF TypeOK, InvoiceTypeOK, Books
<1>1. BooksMove /\ (FundedStays \/ \E c \in claim : FinishSettles(c.swap, c))
  BY NextBooks
<1>2. CASE Sold(s) /\ hold.status[Main(s)] # "FUNDED"
  <2>1. Delivered(s) \in Covering[Main(s)]
    BY <1>0, <1>2 DEF DeliveredInv
  <2>2. Delivered(s) \subseteq Delivered(s)'
    BY <1>1 DEF BooksMove, Delivered, HtlcsOf
  <2>3. Delivered(s) \in SUBSET Htlcs /\ Delivered(s)' \in SUBSET Htlcs
    BY DEF Delivered, HtlcsOf
  <2> QED
    BY <1>0, <2>1, <2>2, <2>3, CoveringGrows
<1>3. CASE Sold(s) /\ hold.status[Main(s)] = "FUNDED"
  <2>1. PICK c \in claim : FinishSettles(c.swap, c)
    BY <1>1, <1>3 DEF FundedStays
  <2>2. \A j \in Hashes \ {Main(c.swap)} : hold'.status[j] = hold.status[j]
    BY <1>0, <2>1 DEF FinishSettles, Sweep
  <2>3. c.swap = s
    BY <1>0, <1>3, <2>2 DEF Main
  <2> QED
    BY <1>0, <1>3, <2>1, <2>3, SettlesInTime
<1>4. CASE ~Sold(s)
  <2>1. PICK t \in Swaps : HandlerSettles(t) /\ Quiet
    BY <1>4, NextPayment DEF SameSold
  <2>2. /\ BothFunded(t) /\ UNCHANGED lockup
        /\ hold'.status = [hold.status EXCEPT ![Prepay(t)] = "SETTLED"]
    BY <2>1 DEF HandlerSettles, Sweep, Quiet, chainVars
  <2>3. Prepay(s) \in Hashes /\ Prepay(t) \in Hashes
    BY MainPrepayType
  <2>4. t = s
    BY <1>0, <1>4, <2>2, <2>3 DEF Sold, Prepay
  <2>5. hold'.status[Main(s)] = "FUNDED"
    BY <1>0, <2>2, <2>3, <2>4 DEF BothFunded, Main, Prepay
  <2> QED
    BY <2>5
<1> QED
  BY <1>2, <1>3, <1>4

LEMMA DeliveredInvariant ==
    ASSUME NoCrash, Prompt, Margin PROVE Spec /\ []FundsInTime => []DeliveredInv
<1>1. Init => DeliveredInv
  BY MainPrepayType DEF Init, DeliveredInv, Sold
<1>2. TypeOK /\ TypeOK' /\ PaymentInv /\ ClaimPublicInv /\ StoredInv /\ LastingInv
         /\ HtlcsInTime /\ PreimageKnown /\ InTimeInv /\ DeliveredInv /\ [Next]_vars
         => DeliveredInv'
  BY NextDelivered
<1> QED
  BY <1>1, <1>2, TypeCorrect, PaymentInvariant, ClaimPublicInvariant, StoredInvariant,
     LastingInvariant, PreimageInvariant, InTimeInvariant, PTL DEF Spec

\* The provider does not lose: once the client has claimed the lockup output,
\* HTLCs worth the swap are fulfilled or can still be, for every number of swaps
\* and every order of the steps, if no call fails, blocks are slower than the
\* plugin and swaps are funded before their locktime.
THEOREM ProviderDoesNotLose ==
    ASSUME NoCrash, Prompt, Margin PROVE Spec /\ []FundsInTime => []NoProviderLoss
<1>1. TypeOK /\ PaymentInv /\ StoredInv /\ LastingInv /\ HtlcsInTime /\ InTimeInv /\ DeliveredInv
         => NoProviderLoss
  <2> SUFFICES ASSUME TypeOK, PaymentInv, StoredInv, LastingInv, HtlcsInTime, InTimeInv,
                      DeliveredInv, faults = 0, NEW s \in Swaps, spender[s] = "claim"
               PROVE  {h \in HtlcsOf(Main(s)) : cln[h] \in {"held", "fulfilled"}}
                         \in Covering[Main(s)]
    BY DEF NoProviderLoss
  <2> DEFINE worth == {h \in HtlcsOf(Main(s)) : cln[h] \in {"held", "fulfilled"}}
  <2>1. Main(s) \in Hashes /\ Sold(s) /\ worth \in SUBSET Htlcs
    BY MainPrepayType DEF StoredInv, ChainOrder, Sold, Locked, HtlcsOf
  <2>2. CASE hold.status[Main(s)] = "FUNDED"
    <3>1. Counted(Main(s)) \in Covering[Main(s)] /\ Counted(Main(s)) \in SUBSET Htlcs
      BY <2>1, <2>2 DEF PaymentInv, FundedCovered, FullyFunded, Counted, HtlcsOf
    <3>2. Counted(Main(s)) \subseteq worth
      BY <2>2, HeldUntilSettled DEF Counted
    <3> QED
      BY <2>1, <3>1, <3>2, CoveringGrows
  <2>3. CASE hold.status[Main(s)] # "FUNDED"
    <3>1. Delivered(s) \in Covering[Main(s)] /\ Delivered(s) \in SUBSET Htlcs
      BY <2>1, <2>3 DEF DeliveredInv, Delivered, HtlcsOf
    <3>2. Delivered(s) \subseteq worth
      BY DEF Delivered, Fulfilling
    <3> QED
      BY <2>1, <3>1, <3>2, CoveringGrows
  <2> QED
    BY <2>2, <2>3
<1> QED
  BY <1>1, TypeCorrect, PaymentInvariant, StoredInvariant, LastingInvariant, PreimageInvariant,
     InTimeInvariant, DeliveredInvariant, PTL

-----------------------------------------------------------------------------
(* One swap is funded in time *)

\* One of the two invoices is paid out, cancelled or deleted, so the callback
\* thread does not fund the swap any more.
OneOver(s) ==
    \/ hold.status[Main(s)] \in {"SETTLED", "FAILED", "absent"}
    \/ hold.status[Prepay(s)] \in {"SETTLED", "FAILED", "absent"}

InKeyOrder(i, j) == <<i, j>> \in older \/ <<j, i>> \in older

\* The locktime does not pass before the invoices do; until then the invoice
\* callback is registered and the scan finds one of the invoices first.
TimelyInv ==
    \A s \in Swaps : s <= created =>
       /\ height >= swaps[s].locktime => OneOver(s)
       /\ s \in callbacks \cup creating \/ OneOver(s)
       /\ InKeyOrder(Main(s), Prepay(s))

\* What every step but the creation of a swap does to the invoices, their order,
\* the invoice callbacks and what is with the callback thread.
InvoicesMove ==
    /\ \A i \in Hashes : \/ hold'.status[i] = hold.status[i]
                         \/ hold'.status[i] \in {"SETTLED", "FAILED", "absent"}
                         \/ hold.status[i] = "UNFUNDED" /\ hold'.status[i] = "FUNDED"
    /\ \A i, j \in Hashes : i # j /\ InKeyOrder(i, j) => InKeyOrder(i, j)'
    /\ \A s \in callbacks \cup creating : s \in callbacks' \cup creating' \/ OneOver(s)'
    /\ \A s \in Swaps : Handled(s)' => Handled(s) \/ BothFunded(s)

LEMMA SameInvoicesMove ==
    ASSUME UNCHANGED <<hold, older, callbacks, creating>>,
           \A s \in Swaps : Handled(s)' => Handled(s)
    PROVE  InvoicesMove
  BY DEF InvoicesMove, InKeyOrder

\* update_invoice moves an invoice behind all others.
LEMMA MovedLastOrder ==
    ASSUME NEW k \in Hashes, older' = MovedLast(k), NEW i \in Hashes, NEW j \in Hashes, i # j,
           InKeyOrder(i, j)
    PROVE  InKeyOrder(i, j)'
<1>1. CASE i = k \/ j = k
  BY <1>1 DEF MovedLast, InKeyOrder
<1>2. CASE i # k /\ j # k
  <2>1. \A a, b \in Hashes : <<a, b>>[1] = a
    OBVIOUS
  <2> QED
    BY <1>2, <2>1 DEF MovedLast, InKeyOrder
<1> QED
  BY <1>1, <1>2

LEMMA HookInvoicesMove ==
    ASSUME TypeOK, NEW h \in Htlcs,
           \/ /\ \/ HookContinues(h) \/ HookReplaces(h) \/ HookRejects(h) \/ HookAccepts(h)
                 \/ HookSaveRaises(h)
              /\ Quiet
           \/ HookSaves(h) /\ Writes
    PROVE  InvoicesMove
<1>1. UNCHANGED <<callbacks, handling, creating>>
  BY DEF HookContinues, HookReplaces, HookRejects, HookAccepts, HookSaves, HookSaveRaises, lock,
     Quiet, Writes, ThreadWrites, swapVars, requestVars
<1>2. InvoiceOf[h] \in Hashes /\ hold \in Books
  BY HtlcsAssumption DEF TypeOK, InvoiceTypeOK
<1>3. CASE HookContinues(h) \/ HookReplaces(h) \/ HookSaveRaises(h)
  BY <1>1, <1>3, SameInvoicesMove DEF HookContinues, HookReplaces, HookSaveRaises, book, Handled
<1>4. CASE HookRejects(h) \/ HookAccepts(h)
  <2>1. UNCHANGED older
    BY <1>4 DEF HookRejects, HookAccepts
  <2>2. \A i \in Hashes : \/ hold'.status[i] = hold.status[i]
                          \/ hold.status[i] = "UNFUNDED" /\ hold'.status[i] = "FUNDED"
    BY <1>2, <1>4 DEF HookRejects, Answer, HookAccepts, Acceptable, Books
  <2> QED
    BY <1>1, <2>1, <2>2 DEF InvoicesMove, InKeyOrder, Handled
<1>5. CASE HookSaves(h)
  <2>1. hold' = hold /\ older' = MovedLast(InvoiceOf[h])
    BY <1>5 DEF HookSaves, UpdateInvoice
  <2> QED
    BY <1>1, <1>2, <2>1, MovedLastOrder DEF InvoicesMove, Handled
<1> QED
  BY <1>3, <1>4, <1>5

LEMMA MonitorInvoicesMove ==
    ASSUME TypeOK, PaymentInv, NEW i \in Hashes,
           \/ (MonitorCancels(i) \/ MonitorCancelRaises(i)) /\ Quiet
           \/ MonitorDeletes(i) /\ Writes
    PROVE  InvoicesMove
<1>0. UNCHANGED <<handling, creating, older>> /\ hold \in Books
  BY DEF MonitorCancels, MonitorCancelRaises, MonitorDeletes, lock, Quiet, Writes, ThreadWrites,
     swapVars, requestVars, TypeOK, InvoiceTypeOK
<1>1. CASE MonitorCancels(i)
  <2>1. UNCHANGED callbacks /\ hold'.status = [hold.status EXCEPT ![i] = "FAILED"]
    BY <1>1 DEF MonitorCancels, Sweep
  <2> QED
    BY <1>0, <2>1 DEF InvoicesMove, InKeyOrder, Handled, Books
<1>2. CASE MonitorCancelRaises(i)
  BY <1>2, NoSweepRaises DEF MonitorCancelRaises, PaymentInv
<1>3. CASE MonitorDeletes(i)
  <2>1. hold' = Without({i}) /\ callbacks' = callbacks \ {s \in Swaps : Main(s) = i}
    BY <1>3 DEF MonitorDeletes
  <2>2. \A j \in Hashes : hold'.status[j] = IF j = i THEN "absent" ELSE hold.status[j]
    BY <2>1 DEF Without
  <2>3. \A s \in callbacks : s \in callbacks' \/ OneOver(s)'
    BY <2>1, <2>2 DEF OneOver
  <2> QED
    BY <1>0, <2>2, <2>3 DEF InvoicesMove, InKeyOrder, Handled
<1> QED
  BY <1>1, <1>2, <1>3

LEMMA HandlerInvoicesMove ==
    ASSUME TypeOK, PaymentInv, NEW s \in Swaps,
           \/ /\ \/ HandlerForgets(s) \/ HandlerSkips(s) \/ HandlerRaises(s)
                 \/ HandlerSettles(s) \/ HandlerSettleRaises(s)
              /\ Quiet
           \/ HandlerSaves(s) /\ Writes
    PROVE  InvoicesMove
<1>0. UNCHANGED creating /\ hold \in Books /\ Main(s) \in Hashes /\ Prepay(s) \in Hashes
  BY MainPrepayType DEF Quiet, Writes, ThreadWrites, swapVars, requestVars, TypeOK, InvoiceTypeOK
<1>1. CASE HandlerForgets(s)
  <2>1. UNCHANGED <<hold, older, handling>> /\ callbacks' = callbacks \ {s} /\ ~Present(Main(s))
    BY <1>1 DEF HandlerForgets, book, lock
  <2> QED
    BY <1>0, <2>1 DEF InvoicesMove, InKeyOrder, OneOver, Present, Handled
<1>2. CASE HandlerSkips(s) \/ HandlerRaises(s)
  BY <1>0, <1>2, SameInvoicesMove DEF HandlerSkips, HandlerRaises, book, lock, Handled
<1>3. CASE HandlerSettles(s)
  <2>1. /\ UNCHANGED <<older, callbacks>> /\ BothFunded(s) /\ handling' = {<<s, "save">>}
        /\ hold'.status = [hold.status EXCEPT ![Prepay(s)] = "SETTLED"]
    BY <1>3 DEF HandlerSettles, Sweep
  <2>2. \A t \in Swaps : Handled(t)' => BothFunded(t)
    BY <2>1 DEF Handled
  <2> QED
    BY <1>0, <2>1, <2>2 DEF InvoicesMove, InKeyOrder, Books
<1>4. CASE HandlerSettleRaises(s)
  BY <1>4, NoSweepRaises DEF HandlerSettleRaises, PaymentInv
<1>5. CASE HandlerSaves(s)
  <2>1. /\ <<s, "save">> \in handling /\ handling' = {<<s, "call">>} /\ UNCHANGED callbacks
        /\ hold' = hold /\ older' = MovedLast(Prepay(s))
    BY <1>5 DEF HandlerSaves, UpdateInvoice
  <2>2. \A t \in Swaps : Handled(t)' => Handled(t)
    BY <2>1 DEF Handled
  <2> QED
    BY <1>0, <2>1, <2>2, MovedLastOrder DEF InvoicesMove
<1> QED
  BY <1>1, <1>2, <1>3, <1>4, <1>5

\* The prepay invoice of a swap that is with the callback thread is settled.
LEMMA CallbackInvoicesMove ==
    ASSUME TypeOK, FundingInv, NEW s \in Swaps,
           \/ CallbackReturns(s) \/ CallbackCreatesTx(s) \/ CallbackRaises(s)
           \/ CallbackBroadcasts(s) \/ CallbackBroadcastFails(s)
    PROVE  InvoicesMove
<1>1. PICK e \in handling : e[1] = s
  <2>1. <<s, "call">> \in handling \/ <<s, "broadcast">> \in handling
    BY DEF CallbackReturns, CallbackCreatesTx, CallbackRaises, CallbackBroadcasts,
       CallbackBroadcastFails
  <2> QED
    BY <2>1
<1>2. OneOver(s)
  BY <1>1 DEF FundingInv, HandlingOwns, Over, OneOver
<1>3. /\ UNCHANGED <<hold, older, creating>> /\ callbacks \ {s} \subseteq callbacks'
      /\ handling' \subseteq {<<s, "broadcast">>}
  BY DEF CallbackReturns, CallbackCreatesTx, CallbackRaises, CallbackBroadcasts,
     CallbackBroadcastFails, HandlerUnregisters, HandlerAborts, FailSwap, book, swapVars,
     requestVars
<1>4. \A t \in Swaps : Handled(t)' => Handled(t)
  BY <1>1, <1>3 DEF Handled
<1>5. \A t \in callbacks \cup creating : t \in callbacks' \cup creating' \/ OneOver(t)'
  BY <1>2, <1>3 DEF OneOver
<1> QED
  BY <1>3, <1>4, <1>5 DEF InvoicesMove, InKeyOrder

LEMMA ClaimInvoicesMove ==
    ASSUME TypeOK, PaymentInv, ClaimPublicInv, NEW c \in claim,
           \/ ClaimUnfunded(c.swap, c) \/ ClaimDrops(c.swap, c) \/ FinishSettles(c.swap, c)
           \/ FinishRaises(c.swap, c) \/ ClaimSeesRefund(c.swap, c)
           \/ ClaimRefunds(c.swap, c) \/ FinishCleansUp(c)
    PROVE  InvoicesMove
<1> DEFINE s == c.swap
<1>0. s \in Swaps /\ Main(s) \in Hashes /\ hold \in Books
  BY ClaimedType, MainPrepayType DEF TypeOK, InvoiceTypeOK
<1>1. CASE FinishSettles(s, c)
  <2>1. /\ UNCHANGED <<older, callbacks, creating, handling>>
        /\ hold'.status = [hold.status EXCEPT ![Main(s)] = "SETTLED"]
    BY <1>1 DEF FinishSettles, Sweep, lock, requestVars
  <2> QED
    BY <1>0, <2>1 DEF InvoicesMove, InKeyOrder, Books, Handled
<1>2. CASE FinishRaises(s, c)
  BY <1>2, RaisesFinished, SameInvoicesMove DEF FinishRaises, lock, requestVars, Handled
<1>3. CASE FinishCleansUp(c)
  <2>1. /\ UNCHANGED <<older, creating, handling>> /\ callbacks' = callbacks \ {s}
        /\ \A j \in Hashes : hold'.status[j] =
              IF j \in {Main(s), Prepay(s)} THEN "absent" ELSE hold.status[j]
    BY <1>3 DEF FinishCleansUp, Without, lock, requestVars
  <2>2. OneOver(s)'
    BY <1>0, <2>1 DEF OneOver
  <2> QED
    BY <2>1, <2>2 DEF InvoicesMove, InKeyOrder, Handled
<1>f. ASSUME NEW sw, ClaimFails(s, sw) PROVE InvoicesMove
  BY <1>f, SameInvoicesMove DEF ClaimFails, FailSwap, lock, requestVars, Handled
<1>e. ASSUME NEW sw, ClaimEnds(s, sw) PROVE InvoicesMove
  BY <1>e, SameInvoicesMove DEF ClaimEnds, invoiceVars, book, lock, requestVars, Handled
<1>4. CASE ClaimUnfunded(s, c) \/ ClaimDrops(s, c) \/ ClaimSeesRefund(s, c) \/ ClaimRefunds(s, c)
  BY <1>4, <1>e, <1>f DEF ClaimUnfunded, ClaimDrops, ClaimSeesRefund, ClaimRefunds
<1> QED
  BY <1>1, <1>2, <1>3, <1>4

LEMMA RestInvoicesMove ==
    ASSUME TypeOK, CreationApart,
           \/ MonitorPolls \/ \E s \in Swaps : ClaimReads(s) \/ ClaimSkips(s)
           \/ \E s \in Swaps : CreateRegisters(s)
           \/ \E s \in Swaps : InvoicesExpire(s) /\ Quiet
           \/ \E s \in Swaps : ClientClaims(s)
           \/ (PassStarts /\ Quiet) \/ ClnMoves \/ BlockMined \/ UNCHANGED vars
    PROVE  InvoicesMove
<1>1. CASE \E s \in Swaps : CreateRegisters(s)
  <2>1. /\ UNCHANGED <<hold, older, handling>>
        /\ callbacks \cup creating \subseteq callbacks' \cup creating'
    BY <1>1 DEF CreateRegisters, CreationApart, book, lock
  <2> QED
    BY <2>1 DEF InvoicesMove, InKeyOrder, Handled
<1>2. CASE \/ MonitorPolls \/ \E s \in Swaps : ClaimReads(s) \/ ClaimSkips(s)
           \/ \E s \in Swaps : ClientClaims(s)
           \/ BlockMined \/ UNCHANGED vars
  <2>1. UNCHANGED <<hold, older, callbacks, creating, handling>>
    BY <1>2 DEF MonitorPolls, ClaimReads, ClaimSkips, ClientClaims, BlockMined, vars,
       invoiceVars, swapVars, requestVars, book, lock
  <2> QED
    BY <2>1, SameInvoicesMove DEF Handled
<1>3. CASE (\E s \in Swaps : InvoicesExpire(s) /\ Quiet) \/ (PassStarts /\ Quiet) \/ ClnMoves
  <2>1. UNCHANGED <<hold, older, callbacks, handling>> /\ Quiet
    BY <1>3 DEF InvoicesExpire, PassStarts, ClnMoves, HtlcArrives, HtlcReplayed, ClnCommits,
       HtlcTimesOut, book, lock
  <2> QED
    BY <2>1, SameInvoicesMove DEF Quiet, swapVars, requestVars, Handled
<1> QED
  BY <1>1, <1>2, <1>3

LEMMA NextInvoicesMove ==
    ASSUME NoCrash, TypeOK, FundingInv, PaymentInv, ClaimPublicInv, CreationApart, [Next]_vars
    PROVE  InvoicesMove \/ \E s \in Swaps : CreateInvoices(s)
<1>1. CASE CreateMoves
  BY <1>1, RestInvoicesMove DEF CreateMoves
<1>2. CASE HookMoves
  BY <1>2, HookInvoicesMove DEF HookMoves
<1>3. CASE MonitorMoves
  BY <1>3, MonitorInvoicesMove DEF MonitorMoves
<1>4. CASE HandlerMoves
  BY <1>4, HandlerInvoicesMove, CallbackInvoicesMove, RestInvoicesMove DEF HandlerMoves
<1>5. CASE ClaimMoves
  BY <1>5, ClaimInvoicesMove, RestInvoicesMove DEF ClaimMoves
<1>6. ~Crash /\ ~RestartLightning /\ ~RestartSwaps
  BY DEF NoCrash, Crash, Fault, RestartLightning, RestartSwaps, PaymentInv
<1> QED
  BY <1>1, <1>2, <1>3, <1>4, <1>5, <1>6, RestInvoicesMove DEF Next

LEMMA OneOverStays == ASSUME InvoicesMove, NEW s \in Swaps, OneOver(s) PROVE OneOver(s)'
  BY MainPrepayType DEF InvoicesMove, OneOver

LEMMA TimePasses ==
    ASSUME NoCrash, PaymentInv, [Next]_vars PROVE height' = height \/ BlockMined
<1>1. CASE CreateMoves \/ (\E s \in Swaps : ClientClaims(s)) \/ UNCHANGED vars
  BY <1>1 DEF CreateMoves, CreateInvoices, CreateRegisters, ClientClaims, vars, invoiceVars
<1>2. CASE HookMoves \/ MonitorMoves \/ ClnMoves \/ (\E s \in Swaps : InvoicesExpire(s) /\ Quiet)
  BY <1>2, HandlingUntouched
<1>3. CASE HandlerMoves
  BY <1>3 DEF HandlerMoves, PassStarts, HandlerForgets, HandlerSkips, HandlerRaises,
     HandlerSettles, HandlerSettleRaises, HandlerSaves, CallbackReturns, CallbackCreatesTx,
     CallbackRaises, CallbackBroadcasts, CallbackBroadcastFails
<1>4. CASE ClaimMoves
  BY <1>4 DEF ClaimMoves, MonitorPolls, ClaimReads, ClaimSkips, ClaimUnfunded, ClaimDrops,
     FinishSettles, FinishRaises, ClaimSeesRefund, ClaimRefunds, FinishCleansUp, ClaimEnds,
     ClaimFails, invoiceVars
<1>5. ~Crash /\ ~RestartLightning /\ ~RestartSwaps
  BY DEF NoCrash, Crash, Fault, RestartLightning, RestartSwaps, PaymentInv
<1> QED
  BY <1>1, <1>2, <1>3, <1>4, <1>5 DEF Next

\* The block before the locktime finds the invoices of the swap expired. If the
\* expiry thread has nothing left to do then, it has cancelled one of them, or
\* both are paid and the callback thread has had its pass.
LEMMA LocktimeFindsOver ==
    ASSUME NumSwaps = 1, Prompt, TypeOK, PaymentInv, TimelyInv, BlockMined, NEW s \in Swaps,
           s <= created, height' >= swaps[s].locktime
    PROVE  OneOver(s)
<1> SUFFICES ASSUME ~OneOver(s) PROVE FALSE
  OBVIOUS
<1>t. /\ height \in Nat /\ swaps[s].locktime \in Nat /\ created \in Nat /\ s \in 1..created
      /\ Main(s) \in Hashes /\ Prepay(s) \in Hashes /\ Main(s) # Prepay(s)
      /\ hold.status \in [Hashes -> Statuses]
  BY TimesType, MainPrepayType DEF TypeOK, InvoiceTypeOK, SwapTypeOK, Books, Swaps, Main, Prepay
<1>1. /\ hold.status[Main(s)] \in {"UNFUNDED", "FUNDED"}
      /\ hold.status[Prepay(s)] \in {"UNFUNDED", "FUNDED"}
  BY <1>t DEF OneOver, Statuses
<1>2. height' = height + 1 /\ height < swaps[s].locktime
  <2>1. ~(height >= swaps[s].locktime)
    BY DEF TimelyInv
  <2> QED
    BY <1>t, <2>1 DEF BlockMined
<1>3. /\ LockFree /\ ScanIdle /\ PassIdle /\ creating = {}
      /\ s \in expired
  <2>1. BlockIsDue /\ stage = "up"
    BY DEF BlockMined, PaymentInv
  <2>2. s \in expired \/ height + 1 < swaps[s].locktime
           \/ ~(Present(Main(s)) \/ Present(Prepay(s)))
    BY <1>t, <2>1 DEF BlockIsDue
  <2> QED
    BY <1>1, <1>2, <1>t, <2>1, <2>2 DEF BlockIsDue, LoopIdle, Present
<1>4. \A i : AllAnswerable(i)
  BY AllTrackedAnswerable DEF PaymentInv
<1>5. \A t \in Swaps : t = s
  BY DEF Swaps
<1>6. CASE BothFunded(s)
  <2>1. s \in callbacks
    BY <1>3 DEF TimelyInv
  <2>2. PICK t \in callbacks : VisitRaises(t)
    BY <1>3, <1>6, <2>1 DEF PassIdle
  <2>3. t = s
    BY <1>5 DEF TypeOK, InvoiceTypeOK
  <2> QED
    BY <1>1, <1>4, <2>2, <2>3 DEF VisitRaises, Present
<1>7. CASE ~BothFunded(s)
  <2>1. \A i \in Hashes : i = Main(s) \/ i = Prepay(s)
    BY <1>5 DEF Hashes, Main, Prepay
  <2>2. \A i \in Hashes : i[1] = s /\ (Expirable(i) <=> hold.status[i] = "UNFUNDED")
    BY <1>1, <1>3, <2>1 DEF Expirable, Main, Prepay
  <2>3. Expirable(Main(s)) \/ Expirable(Prepay(s))
    BY <1>1, <1>7, <1>t, <2>2 DEF BothFunded
  <2>4. InKeyOrder(Main(s), Prepay(s))
    BY DEF TimelyInv
  <2>5. PICK i \in Hashes : /\ Expirable(i)
                            /\ \A j \in Hashes \ {i} : Expirable(j) => <<i, j>> \in older
    BY <1>t, <2>1, <2>3, <2>4 DEF InKeyOrder
  <2>6. ScanStops(i)
    BY <1>3, <2>5 DEF ScanStops, Running, PaymentInv
  <2>7. hold.status[i] = "FAILED"
    BY <1>3, <1>4, <2>6 DEF ScanIdle
  <2> QED
    BY <2>2, <2>5, <2>7
<1> QED
  BY <1>6, <1>7

\* A new swap has its two invoices in the order of creation, and time.
LEMMA CreateTimely ==
    ASSUME LocktimeDelta > 0, TypeOK, FundingInv, FundsInTime, TimelyInv, NEW s \in Swaps,
           CreateInvoices(s)
    PROVE  FundsInTime' /\ TimelyInv'
<1>1. /\ s = created + 1 /\ created' = s /\ creating = {} /\ creating' = {s}
      /\ UNCHANGED <<height, callbacks, handling>>
      /\ swaps' = [swaps EXCEPT ![s] = [NoSwap EXCEPT !.known = TRUE,
                                                      !.locktime = height + LocktimeDelta]]
  BY DEF CreateInvoices, lock
<1>t. /\ height \in Nat /\ LocktimeDelta \in Nat /\ created \in Nat /\ swaps \in [Swaps -> SwapData]
      /\ \A t \in Swaps : t \in Nat /\ Main(t) \in Hashes /\ Prepay(t) \in Hashes
                          /\ Main(t)[1] = t /\ Prepay(t)[1] = t /\ Main(t) # Prepay(t)
  BY TimesType, ForwardAssumption, MainPrepayType DEF TypeOK, SwapTypeOK, Swaps, Main, Prepay
<1>2. /\ swaps'[s].locktime = height + LocktimeDelta
      /\ \A t \in Swaps \ {s} : swaps'[t] = swaps[t]
  BY <1>1, <1>t DEF NoSwap
<1>3. \A i \in Hashes : i[1] # s => hold'.status[i] = hold.status[i]
  BY DEF CreateInvoices, TypeOK, InvoiceTypeOK, Books
<1>4. <<Prepay(s), Main(s)>> \in older'
        /\ \A i, j \in Hashes : i[1] # s /\ <<i, j>> \in older => <<i, j>> \in older'
  <2>1. older' = {p \in older : p[1][1] # s}
                \cup {<<i, Prepay(s)>> : i \in {j \in Hashes : j[1] # s}}
                \cup {<<i, Main(s)>> : i \in Hashes \ {Main(s)}}
    BY DEF CreateInvoices
  <2>2. \A i, j \in Hashes : <<i, j>>[1] = i
    OBVIOUS
  <2> QED
    BY <1>t, <2>1, <2>2
<1>5. FundsInTime'
  <2> SUFFICES ASSUME NEW e \in handling PROVE height < swaps'[e[1]].locktime
    BY <1>1 DEF FundsInTime
  <2>1. e[1] \in Swaps /\ e[1] <= created
    BY HandlingType DEF FundingInv, HandlingOwns
  <2>2. e[1] # s
    BY <1>1, <1>t, <2>1
  <2> QED
    BY <1>2, <2>1, <2>2 DEF FundsInTime
<1>6. ASSUME NEW t \in Swaps, t <= created'
      PROVE  /\ height' >= swaps'[t].locktime => OneOver(t)'
             /\ t \in callbacks' \cup creating' \/ OneOver(t)'
             /\ InKeyOrder(Main(t), Prepay(t))'
  <2>1. CASE t = s
    BY <1>1, <1>2, <1>4, <1>t, <2>1 DEF InKeyOrder
  <2>2. CASE t # s
    <3>1. t <= created
      BY <1>1, <1>6, <1>t, <2>2
    <3>2. /\ height >= swaps[t].locktime => OneOver(t)
          /\ t \in callbacks \/ OneOver(t)
          /\ InKeyOrder(Main(t), Prepay(t))
      BY <1>1, <3>1 DEF TimelyInv
    <3>3. OneOver(t) => OneOver(t)'
      BY <1>3, <1>t, <2>2 DEF OneOver
    <3> QED
      BY <1>1, <1>2, <1>4, <1>t, <2>2, <3>2, <3>3 DEF InKeyOrder
  <2> QED
    BY <2>1, <2>2
<1> QED
  BY <1>5, <1>6 DEF TimelyInv

\* The callback thread starts with a swap when both invoices are funded, which
\* is before the locktime, and no block comes before it has finished.
LEMMA NextTimely ==
    ASSUME NoCrash, Prompt, NumSwaps = 1, LocktimeDelta > 0, TypeOK, TypeOK', FundingInv,
           PaymentInv, ClaimPublicInv, StoredInv, CreationApart, FundsInTime, TimelyInv,
           [Next]_vars
    PROVE  FundsInTime' /\ TimelyInv'
<1>1. CASE \E s \in Swaps : CreateInvoices(s)
  BY <1>1, CreateTimely
<1>2. CASE ~ \E s \in Swaps : CreateInvoices(s)
  <2>1. InvoicesMove /\ CallbacksMove /\ ChainMoves /\ (height' = height \/ BlockMined)
    BY <1>2, NextInvoicesMove, NextMoves, TimePasses
  <2>2. \A s \in Swaps : /\ swaps'[s].locktime = swaps[s].locktime
                         /\ OneOver(s) => OneOver(s)'
                         /\ Main(s) \in Hashes /\ Prepay(s) \in Hashes /\ Main(s) # Prepay(s)
    BY <2>1, OneOverStays, MainPrepayType DEF ChainMoves, Main, Prepay
  <2>3. created' = created
    BY <2>1 DEF CallbacksMove
  <2>4. TimelyInv'
    <3> SUFFICES ASSUME NEW s \in Swaps, s <= created
                 PROVE  /\ height' >= swaps'[s].locktime => OneOver(s)'
                        /\ s \in callbacks' \cup creating' \/ OneOver(s)'
                        /\ InKeyOrder(Main(s), Prepay(s))'
      BY <2>3 DEF TimelyInv
    <3>1. height' >= swaps'[s].locktime => OneOver(s)
      BY <2>1, <2>2, LocktimeFindsOver DEF TimelyInv
    <3>2. s \in callbacks' \cup creating' \/ OneOver(s)'
      BY <2>1, <2>2 DEF TimelyInv, InvoicesMove
    <3>3. InKeyOrder(Main(s), Prepay(s))'
      BY <2>1, <2>2 DEF TimelyInv, InvoicesMove
    <3> QED
      BY <2>2, <3>1, <3>2, <3>3
  <2>5. FundsInTime'
    <3> SUFFICES ASSUME NEW e \in handling' PROVE height' < swaps'[e[1]].locktime
      BY DEF FundsInTime
    <3>1. e[1] \in Swaps /\ Handled(e[1])'
      BY DEF TypeOK, InvoiceTypeOK, Handled
    <3>2. CASE BlockMined
      <4>1. handling' = handling /\ handling = {}
        BY <3>2 DEF BlockMined, BlockIsDue, LockFree, lock, PaymentInv
      <4> QED
        BY <4>1
    <3>3. CASE height' = height
      <4>1. CASE Handled(e[1])
        BY <2>2, <3>1, <3>3, <4>1 DEF Handled, FundsInTime
      <4>2. CASE BothFunded(e[1])
        <5>1. e[1] <= created
          <6>1. e[1] \in Nat /\ created \in Nat
            BY <3>1 DEF Swaps, TypeOK, SwapTypeOK
          <6> QED
            BY <3>1, <4>2, <6>1 DEF PaymentInv, UnaskedUnsold, Present, BothFunded
        <5>2. ~OneOver(e[1])
          BY <4>2 DEF BothFunded, OneOver
        <5>3. ~(height >= swaps[e[1]].locktime)
          BY <3>1, <5>1, <5>2 DEF TimelyInv
        <5>4. height \in Nat /\ swaps[e[1]].locktime \in Nat
          BY <3>1, TimesType
        <5> QED
          BY <2>2, <3>1, <3>3, <5>3, <5>4
      <4> QED
        BY <2>1, <3>1, <4>1, <4>2 DEF InvoicesMove
    <3> QED
      BY <2>1, <3>2, <3>3
  <2> QED
    BY <2>4, <2>5
<1> QED
  BY <1>1, <1>2

\* With one swap, the swap is funded before its locktime or never: a plugin that
\* keeps up with the blocks has expired or settled the invoices by then. The
\* theorems above hold of it without a hypothesis about funding.
THEOREM OneSwapFundsInTime ==
    ASSUME NoCrash, Prompt, NumSwaps = 1, LocktimeDelta > 0 PROVE Spec => []FundsInTime
<1> DEFINE Inv == FundsInTime /\ StoredInv /\ CreationApart /\ WatchedInv /\ TimelyInv
<1>1. Init => Inv
  <2>1. Init => FundsInTime /\ CreationApart /\ WatchedInv /\ TimelyInv
    BY DEF Init, FundsInTime, CreationApart, WatchedInv, TimelyInv, Swaps
  <2> QED
    BY <2>1, InitStored
<1>2. TypeOK /\ TypeOK' /\ FundingInv /\ PaymentInv /\ ClaimPublicInv /\ Inv /\ [Next]_vars => Inv'
  <2> SUFFICES ASSUME TypeOK, TypeOK', FundingInv, PaymentInv, ClaimPublicInv, Inv, [Next]_vars
               PROVE  Inv'
    OBVIOUS
  <2>1. StoredInv'
    BY NextStored
  <2>2. FundsInTime' /\ TimelyInv'
    BY NextTimely
  <2>3. CreationApart' /\ WatchedInv'
    BY NextMoves, MovesKeepWatched, CreateKeepsWatched
  <2> QED
    BY <2>1, <2>2, <2>3
<1>3. Inv => FundsInTime
  OBVIOUS
<1> QED
  BY <1>1, <1>2, <1>3, TypeCorrect, FundingInvariant, PaymentInvariant, ClaimPublicInvariant, PTL
  DEF Spec

\* With one swap the plugin keeps the refund key, watches the lockup output and
\* does not lose, whatever the amounts, the HTLCs, their CLTVs and the heights.
THEOREM OneSwapIsSafe ==
    ASSUME NoCrash, Prompt, Margin, NumSwaps = 1, LocktimeDelta > 0
    PROVE  Spec => [](RefundKeyStored /\ LockupWatched /\ NoProviderLoss)
  BY OneSwapFundsInTime, RefundKeyKept, LockupStaysWatched, ProviderDoesNotLose, PTL
=============================================================================
