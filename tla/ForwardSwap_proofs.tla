------------------------- MODULE ForwardSwap_proofs -------------------------
(***************************************************************************)
(* ForwardSwap for every number of swaps and HTLCs, every amount, height   *)
(* and timing, with any number of crashes and failing calls: its variables *)
(* keep their types, and no swap is funded twice.  Also the lemmas about   *)
(* the helpers of the model that the other proof modules use.              *)
(***************************************************************************)
EXTENDS ForwardSwap, TLAPS

-----------------------------------------------------------------------------
(* Types of the constants and of the helpers *)

LEMMA MainPrepayType ==
    ASSUME NEW s \in Swaps
    PROVE  Main(s) \in Hashes /\ Prepay(s) \in Hashes /\ Main(s) # Prepay(s)
  BY DEF Main, Prepay, Hashes

LEMMA WithoutType ==
    ASSUME hold \in Books, NEW I PROVE Without(I) \in Books
  BY DEF Without, Books, Statuses, HtlcStates

LEMMA PatchedType ==
    ASSUME hold' \in Books, diskHold \in Books, NEW I PROVE Patched(I) \in Books
  BY DEF Patched, Books, Statuses, HtlcStates

LEMMA WriteType ==
    ASSUME hold' \in Books, diskHold \in Books, NEW I, Write(I),
           older' \in SUBSET (Hashes \X Hashes)
    PROVE  diskHold' \in Books /\ diskOlder' \in SUBSET (Hashes \X Hashes)
  BY PatchedType DEF Write

LEMMA AnswerType ==
    ASSUME hold \in Books, request \in [Htlcs -> Requests],
           NEW D, NEW st \in HtlcStates, NEW a \in Requests, Answer(D, st, a)
    PROVE  hold' \in Books /\ request' \in [Htlcs -> Requests]
  BY DEF Answer, Books

LEMMA SweepType ==
    ASSUME hold \in Books, request \in [Htlcs -> Requests], NEW i \in Hashes,
           NEW s \in Statuses, NEW st \in HtlcStates, NEW a \in Requests, Sweep(i, s, st, a)
    PROVE  hold' \in Books /\ request' \in [Htlcs -> Requests]
  BY DEF Sweep, Books

LEMMA SweepRaisesType ==
    ASSUME hold \in Books, request \in [Htlcs -> Requests], NEW i \in Hashes,
           NEW st \in HtlcStates, NEW a \in Requests, SweepRaises(i, st, a)
    PROVE  hold' \in Books /\ request' \in [Htlcs -> Requests]
  BY AnswerType DEF SweepRaises

LEMMA MovedLastType ==
    ASSUME older \in SUBSET (Hashes \X Hashes), NEW i \in Hashes
    PROVE  MovedLast(i) \in SUBSET (Hashes \X Hashes)
  BY DEF MovedLast

LEMMA WriteAllType ==
    ASSUME hold' \in Books, diskHold \in Books, NEW I, WriteAll(I),
           older' \in SUBSET (Hashes \X Hashes), swaps' \in [Swaps -> SwapData]
    PROVE  /\ diskHold' \in Books /\ diskOlder' \in SUBSET (Hashes \X Hashes)
           /\ diskSwaps' \in [Swaps -> SwapData]
  BY WriteType DEF WriteAll

\* A swap entry with some of its fields set is a swap entry.
LEMMA FieldsType ==
    ASSUME NEW sw \in SwapData, NEW n \in Nat
    PROVE  /\ [sw EXCEPT !.known = FALSE] \in SwapData
           /\ [sw EXCEPT !.known = TRUE, !.locktime = n] \in SwapData
           /\ [sw EXCEPT !.known = TRUE, !.funded = TRUE] \in SwapData
           /\ [sw EXCEPT !.known = @ /\ sw.funded /\ ~sw.redeemed] \in SwapData
           /\ [sw EXCEPT !.funded = TRUE] \in SwapData
           /\ [sw EXCEPT !.preimage = TRUE] \in SwapData
           /\ [sw EXCEPT !.redeemed = TRUE] \in SwapData
  BY DEF SwapData

LEMMA FailSwapType ==
    ASSUME TypeOK, NEW s \in Swaps, NEW sw \in SwapData, FailSwap(s, sw)
    PROVE  /\ hold' \in Books /\ diskHold' \in Books
           /\ older' \in SUBSET (Hashes \X Hashes) /\ diskOlder' \in SUBSET (Hashes \X Hashes)
           /\ swaps' \in [Swaps -> SwapData] /\ diskSwaps' \in [Swaps -> SwapData]
           /\ watched' \in SUBSET Swaps
<1>1. [sw EXCEPT !.known = @ /\ sw.funded /\ ~sw.redeemed] \in SwapData
  BY FieldsType
<1>2. swaps' \in [Swaps -> SwapData] /\ watched' \in SUBSET Swaps
  BY <1>1 DEF FailSwap, TypeOK, SwapTypeOK
<1>3. hold' \in Books /\ older' \in SUBSET (Hashes \X Hashes)
  BY DEF FailSwap, TypeOK, InvoiceTypeOK
<1>4. CASE WriteAll({})
  BY <1>2, <1>3, <1>4, WriteAllType DEF TypeOK, InvoiceTypeOK
<1>5. CASE UNCHANGED <<diskHold, diskOlder, diskSwaps>>
  BY <1>2, <1>3, <1>5 DEF TypeOK, InvoiceTypeOK, SwapTypeOK
<1> QED
  BY <1>4, <1>5 DEF FailSwap

-----------------------------------------------------------------------------
(* TypeOK is inductive: one lemma per part of the system *)

LEMMA CreateType ==
    ASSUME TypeOK, NEW s \in Swaps, CreateInvoices(s) \/ CreateRegisters(s)
    PROVE  TypeOK'
<1>1. CASE CreateInvoices(s)
  <2>1. hold' \in Books
    BY <1>1 DEF CreateInvoices, TypeOK, InvoiceTypeOK, Books, Statuses
  <2>2. older' \in SUBSET (Hashes \X Hashes)
    BY <1>1, MainPrepayType DEF CreateInvoices, TypeOK, InvoiceTypeOK
  <2>3. diskHold' \in Books /\ diskOlder' \in SUBSET (Hashes \X Hashes)
    BY <1>1, <2>1, <2>2, WriteType DEF CreateInvoices, TypeOK, InvoiceTypeOK
  <2>4. InvoiceTypeOK'
    BY <1>1, <2>1, <2>2, <2>3
    DEF CreateInvoices, TypeOK, InvoiceTypeOK, lock
  <2>5. [NoSwap EXCEPT !.known = TRUE, !.locktime = height + LocktimeDelta] \in SwapData
    <3>1. NoSwap \in SwapData
      BY DEF NoSwap, SwapData
    <3>2. height + LocktimeDelta \in Nat
      BY HeightAssumption, ForwardAssumption DEF TypeOK, InvoiceTypeOK, Heights
    <3> QED
      BY <3>1, <3>2, FieldsType
  <2>6. SwapTypeOK'
    BY <1>1, <2>5, SwapsAssumption
    DEF CreateInvoices, TypeOK, SwapTypeOK, taskVars, chainVars, faultVars, Swaps
  <2> QED
    BY <2>4, <2>6 DEF TypeOK
<1>2. CASE CreateRegisters(s)
  BY <1>2 DEF CreateRegisters, TypeOK, InvoiceTypeOK, SwapTypeOK, book, lock, taskVars,
     chainVars, faultVars
<1> QED
  BY <1>1, <1>2

\* A thread of CLNLightning that does not write leaves the types of the
\* SwapManager's variables alone, and so does one that does.
LEMMA QuietType ==
    ASSUME SwapTypeOK, Quiet \/ Writes PROVE SwapTypeOK'
  BY DEF Quiet, Writes, ThreadWrites, SwapTypeOK, swapVars, requestVars, taskVars,
     chainVars, faultVars

LEMMA UpdateInvoiceType ==
    ASSUME InvoiceTypeOK, NEW i \in Hashes, UpdateInvoice(i)
    PROVE  /\ hold' \in Books /\ older' \in SUBSET (Hashes \X Hashes)
           /\ diskHold' \in Books /\ diskOlder' \in SUBSET (Hashes \X Hashes)
  BY MovedLastType, WriteType DEF UpdateInvoice, InvoiceTypeOK

LEMMA HookType ==
    ASSUME InvoiceTypeOK, NEW h \in Htlcs,
           \/ HookContinues(h) \/ HookReplaces(h) \/ HookRejects(h)
           \/ HookAccepts(h) \/ HookSaves(h) \/ HookSaveRaises(h)
    PROVE  InvoiceTypeOK'
<1> USE DEF InvoiceTypeOK, book, lock
<1>0. InvoiceOf[h] \in Hashes
  BY HtlcsAssumption
<1>1. CASE HookContinues(h)
  BY <1>1 DEF HookContinues, Requests
<1>2. CASE HookReplaces(h)
  BY <1>2 DEF HookReplaces, Requests
<1>3. CASE HookRejects(h)
  <2>1. hold' \in Books /\ request' \in [Htlcs -> Requests]
    BY <1>3, AnswerType DEF HookRejects, Requests, HtlcStates
  <2> QED
    BY <1>3, <2>1 DEF HookRejects
<1>4. CASE HookAccepts(h)
  <2>1. hold' \in Books
    BY <1>0, <1>4 DEF HookAccepts, Books, Statuses, HtlcStates
  <2> QED
    BY <1>4, <2>1 DEF HookAccepts, Requests
<1>5. CASE HookSaves(h)
  BY <1>0, <1>5, UpdateInvoiceType DEF HookSaves
<1>6. CASE HookSaveRaises(h)
  BY <1>6 DEF HookSaveRaises
<1> QED
  BY <1>1, <1>2, <1>3, <1>4, <1>5, <1>6

LEMMA MonitorType ==
    ASSUME InvoiceTypeOK, NEW i \in Hashes,
           MonitorCancels(i) \/ MonitorCancelRaises(i) \/ MonitorDeletes(i)
    PROVE  InvoiceTypeOK'
<1> USE DEF InvoiceTypeOK, book, lock
<1>1. CASE MonitorCancels(i)
  BY <1>1, SweepType DEF MonitorCancels, Requests, HtlcStates, Statuses
<1>2. CASE MonitorCancelRaises(i)
  BY <1>2, SweepRaisesType DEF MonitorCancelRaises, Requests, HtlcStates
<1>3. CASE MonitorDeletes(i)
  BY <1>3, WithoutType, WriteType DEF MonitorDeletes
<1> QED
  BY <1>1, <1>2, <1>3

LEMMA HandlerInvoiceType ==
    ASSUME InvoiceTypeOK, NEW s \in Swaps,
           \/ HandlerForgets(s) \/ HandlerSkips(s) \/ HandlerRaises(s)
           \/ HandlerSettles(s) \/ HandlerSettleRaises(s) \/ HandlerSaves(s)
    PROVE  InvoiceTypeOK'
<1> USE DEF InvoiceTypeOK, book, lock, HandlerSteps
<1>2. CASE HandlerForgets(s) \/ HandlerSkips(s) \/ HandlerRaises(s)
  BY <1>2 DEF HandlerForgets, HandlerSkips, HandlerRaises
<1>3. CASE HandlerSettles(s)
  <2>1. Sweep(Prepay(s), "SETTLED", "SETTLED", "resolve")
    BY <1>3 DEF HandlerSettles
  <2>2. hold' \in Books /\ request' \in [Htlcs -> Requests]
    BY <2>1, MainPrepayType, SweepType DEF Requests, HtlcStates, Statuses
  <2> QED
    BY <1>3, <2>2 DEF HandlerSettles
<1>4. CASE HandlerSettleRaises(s)
  BY <1>4, MainPrepayType, SweepRaisesType DEF HandlerSettleRaises, Requests, HtlcStates
<1>5. CASE HandlerSaves(s)
  BY <1>5, MainPrepayType, UpdateInvoiceType DEF HandlerSaves
<1> QED
  BY <1>2, <1>3, <1>4, <1>5

LEMMA FaultType ==
    ASSUME faults \in Nat, downtime \in Nat, NEW kind, Fault(kind)
    PROVE  faults' \in Nat /\ downtime' \in Nat
  BY DEF Fault

LEMMA PublishType ==
    ASSUME SwapTypeOK, NEW s \in Swaps, Publish(s) \/ UNCHANGED chainVars
    PROVE  /\ lockup' \in [Swaps -> {"none", "mempool", "confirmed"}]
           /\ fundings' \in [Swaps -> Nat]
           /\ spender' \in [Swaps -> {"none", "claim", "refund"}]
           /\ spentAt' \in [Swaps -> Heights]
  BY DEF Publish, SwapTypeOK, chainVars

LEMMA CallbackType ==
    ASSUME TypeOK, NEW s \in Swaps,
           \/ CallbackReturns(s) \/ CallbackCreatesTx(s) \/ CallbackRaises(s)
           \/ CallbackBroadcasts(s) \/ CallbackBroadcastFails(s)
    PROVE  TypeOK'
<1> USE DEF TypeOK, InvoiceTypeOK, book
<1>1. CASE CallbackReturns(s)
  BY <1>1 DEF CallbackReturns, HandlerUnregisters, SwapTypeOK, swapVars, requestVars,
     taskVars, chainVars, faultVars
<1>2. CASE CallbackCreatesTx(s)
  BY <1>2 DEF CallbackCreatesTx, HandlerSteps, SwapTypeOK, swapVars, requestVars,
     taskVars, chainVars, faultVars
<1>3. CASE CallbackRaises(s)
  BY <1>3, FaultType DEF CallbackRaises, HandlerAborts, SwapTypeOK, swapVars, requestVars,
     taskVars, chainVars
<1>4. CASE CallbackBroadcasts(s)
  <2>1. swaps' \in [Swaps -> SwapData]
    <3>1. swaps[s] \in SwapData
      BY DEF SwapTypeOK
    <3>2. [swaps[s] EXCEPT !.funded = TRUE] \in SwapData
      BY <3>1, FieldsType
    <3>3. swaps' = [swaps EXCEPT ![s] = [swaps[s] EXCEPT !.funded = TRUE]]
      BY <1>4 DEF CallbackBroadcasts
    <3> QED
      BY <3>2, <3>3 DEF SwapTypeOK
  <2> QED
    BY <1>4, <2>1, PublishType DEF CallbackBroadcasts, HandlerUnregisters, SwapTypeOK,
       requestVars, taskVars, faultVars
<1>5. CASE CallbackBroadcastFails(s)
  <2>1. [swaps[s] EXCEPT !.funded = TRUE] \in SwapData
    BY FieldsType DEF SwapTypeOK
  <2> QED
    BY <1>5, <2>1, FailSwapType, PublishType, FaultType
    DEF CallbackBroadcastFails, HandlerUnregisters, SwapTypeOK, requestVars, taskVars
<1> QED
  BY <1>1, <1>2, <1>3, <1>4, <1>5

LEMMA PollType ==
    ASSUME TypeOK, MonitorPolls \/ \E s \in Swaps : ClaimReads(s) \/ ClaimSkips(s)
    PROVE  TypeOK'
<1> USE DEF TypeOK, InvoiceTypeOK, SwapTypeOK, invoiceVars, swapVars, requestVars
<1>1. CASE MonitorPolls
  BY <1>1 DEF MonitorPolls, chainVars, faultVars
<1>2. CASE \E s \in Swaps : ClaimReads(s)
  BY <1>2 DEF ClaimReads, Reads, chainVars, faultVars
<1>3. CASE \E s \in Swaps : ClaimSkips(s)
  BY <1>3, FaultType DEF ClaimSkips, chainVars
<1> QED
  BY <1>1, <1>2, <1>3

\* What the branches of _claim_swap may set in a swap entry.
LEMMA EntryType ==
    ASSUME SwapTypeOK, NEW s \in Swaps
    PROVE  /\ swaps[s] \in SwapData
           /\ Funded(s) \in SwapData /\ WithPreimage(s) \in SwapData
           /\ [Funded(s) EXCEPT !.redeemed = TRUE] \in SwapData
<1>1. swaps[s] \in SwapData
  BY DEF SwapTypeOK
<1>2. Funded(s) \in SwapData
  BY <1>1, FieldsType DEF Funded
<1>3. WithPreimage(s) \in SwapData /\ [Funded(s) EXCEPT !.redeemed = TRUE] \in SwapData
  BY <1>2, FieldsType DEF WithPreimage
<1> QED
  BY <1>1, <1>2, <1>3

LEMMA ClaimEndsType ==
    ASSUME TypeOK, NEW s \in Swaps, NEW sw \in SwapData, ClaimEnds(s, sw),
           RefundBroadcast(s) \/ UNCHANGED chainVars
    PROVE  TypeOK'
  BY DEF ClaimEnds, RefundBroadcast, TypeOK, InvoiceTypeOK, SwapTypeOK, invoiceVars,
     requestVars, chainVars, faultVars

LEMMA ClaimFailsType ==
    ASSUME TypeOK, NEW s \in Swaps, NEW sw \in SwapData, ClaimFails(s, sw)
    PROVE  TypeOK'
<1>1. /\ hold' \in Books /\ diskHold' \in Books
      /\ older' \in SUBSET (Hashes \X Hashes) /\ diskOlder' \in SUBSET (Hashes \X Hashes)
      /\ swaps' \in [Swaps -> SwapData] /\ diskSwaps' \in [Swaps -> SwapData]
      /\ watched' \in SUBSET Swaps
  BY FailSwapType DEF ClaimFails
<1> QED
  BY <1>1 DEF ClaimFails, TypeOK, InvoiceTypeOK, SwapTypeOK, lock, requestVars, chainVars,
     faultVars

LEMMA ClaimType ==
    ASSUME TypeOK, NEW c \in claim,
           \/ ClaimUnfunded(c.swap, c) \/ ClaimDrops(c.swap, c) \/ FinishSettles(c.swap, c)
           \/ FinishRaises(c.swap, c) \/ ClaimSeesRefund(c.swap, c)
           \/ ClaimRefunds(c.swap, c) \/ FinishCleansUp(c)
    PROVE  TypeOK'
<1> DEFINE s == c.swap
<1>0. s \in Swaps /\ [c EXCEPT !.step = "cleanup"] \in Reads
  BY DEF TypeOK, SwapTypeOK, Reads
<1>e. /\ swaps[s] \in SwapData
      /\ Funded(s) \in SwapData /\ WithPreimage(s) \in SwapData
      /\ [Funded(s) EXCEPT !.redeemed = TRUE] \in SwapData
  BY <1>0, EntryType DEF TypeOK
<1>1. CASE ClaimUnfunded(s, c)
  BY <1>0, <1>1, <1>e, ClaimFailsType, ClaimEndsType DEF ClaimUnfunded
<1>2. CASE ClaimDrops(s, c)
  BY <1>0, <1>2, <1>e, ClaimFailsType DEF ClaimDrops
<1>3. CASE FinishSettles(s, c)
  <2>1. hold' \in Books /\ request' \in [Htlcs -> Requests]
    BY <1>0, <1>3, MainPrepayType, SweepType
    DEF FinishSettles, TypeOK, InvoiceTypeOK, Requests, HtlcStates, Statuses
  <2> QED
    BY <1>0, <1>3, <1>e, <2>1 DEF FinishSettles, TypeOK, InvoiceTypeOK, SwapTypeOK, lock,
       requestVars, chainVars, faultVars
<1>4. CASE FinishRaises(s, c)
  <2>1. hold' \in Books /\ request' \in [Htlcs -> Requests]
    BY <1>0, <1>4, MainPrepayType, SweepRaisesType
    DEF FinishRaises, TypeOK, InvoiceTypeOK, Requests, HtlcStates
  <2> QED
    BY <1>0, <1>4, <1>e, <2>1 DEF FinishRaises, TypeOK, InvoiceTypeOK, SwapTypeOK, lock,
       requestVars, chainVars, faultVars
<1>5. CASE ClaimSeesRefund(s, c)
  BY <1>0, <1>5, <1>e, ClaimFailsType, ClaimEndsType DEF ClaimSeesRefund
<1>6. CASE ClaimRefunds(s, c)
  BY <1>0, <1>6, <1>e, ClaimEndsType DEF ClaimRefunds
<1>7. CASE FinishCleansUp(c)
  <2>1. hold' \in Books /\ older' \in SUBSET (Hashes \X Hashes)
    BY <1>7, WithoutType DEF FinishCleansUp, TypeOK, InvoiceTypeOK
  <2>2. swaps' \in [Swaps -> SwapData]
    <3>1. [swaps[c.swap] EXCEPT !.known = FALSE] \in SwapData
      BY <1>0, <1>e, FieldsType
    <3> QED
      BY <1>0, <1>7, <3>1 DEF FinishCleansUp, TypeOK, SwapTypeOK
  <2>3. /\ diskHold' \in Books /\ diskOlder' \in SUBSET (Hashes \X Hashes)
        /\ diskSwaps' \in [Swaps -> SwapData]
    BY <1>7, <2>1, <2>2, WriteAllType DEF FinishCleansUp, TypeOK, InvoiceTypeOK
  <2> QED
    BY <1>7, <2>1, <2>2, <2>3 DEF FinishCleansUp, TypeOK, InvoiceTypeOK, SwapTypeOK, lock,
       requestVars, chainVars, faultVars
<1> QED
  BY <1>1, <1>2, <1>3, <1>4, <1>5, <1>6, <1>7

LEMMA LightningType ==
    ASSUME InvoiceTypeOK, NEW h \in Htlcs,
           \/ \E d \in CltvDeltas : HtlcArrives(h, d)
           \/ HtlcReplayed(h) \/ ClnCommits(h) \/ HtlcTimesOut(h)
    PROVE  InvoiceTypeOK'
<1> USE DEF InvoiceTypeOK, book, lock, ClnStates, Requests
<1>1. CASE \E d \in CltvDeltas : HtlcArrives(h, d)
  <2>1. \A d \in CltvDeltas : height + d \in Nat
    BY HeightAssumption, ForwardAssumption DEF Heights
  <2> QED
    BY <1>1, <2>1 DEF HtlcArrives
<1>2. CASE HtlcReplayed(h)
  BY <1>2 DEF HtlcReplayed
<1>3. CASE ClnCommits(h)
  BY <1>3 DEF ClnCommits, Resolution
<1>4. CASE HtlcTimesOut(h)
  BY <1>4 DEF HtlcTimesOut
<1> QED
  BY <1>1, <1>2, <1>3, <1>4

LEMMA EnvironmentType ==
    ASSUME TypeOK, BlockMined \/ \E s \in Swaps : ClientClaims(s)
    PROVE  TypeOK'
<1> USE DEF TypeOK, InvoiceTypeOK, SwapTypeOK, swapVars, requestVars, taskVars
<1>1. CASE \E s \in Swaps : ClientClaims(s)
  BY <1>1 DEF ClientClaims, invoiceVars, faultVars
<1>2. CASE BlockMined
  <2>1. height + 1 \in Heights
    BY <1>2, HeightAssumption DEF BlockMined, Heights
  <2> QED
    BY <1>2, <2>1 DEF BlockMined, book, lock
<1> QED
  BY <1>1, <1>2

LEMMA RestartType ==
    ASSUME TypeOK, Crash \/ RestartLightning \/ RestartSwaps
    PROVE  TypeOK'
<1>1. CASE Crash
  BY <1>1, FaultType DEF Crash, TypeOK, InvoiceTypeOK, SwapTypeOK, chainVars, Requests
<1>2. CASE RestartLightning
  BY <1>2 DEF RestartLightning, TypeOK, InvoiceTypeOK, SwapTypeOK, book, lock, swapVars,
     requestVars, taskVars, chainVars, faultVars
<1>3. CASE RestartSwaps
  <2>1. swaps' \in [Swaps -> SwapData]
    BY <1>3, FieldsType DEF RestartSwaps, TypeOK, SwapTypeOK
  <2> QED
    BY <1>3, <2>1 DEF RestartSwaps, TypeOK, InvoiceTypeOK, SwapTypeOK, book, lock,
       requestVars, chainVars, faultVars
<1> QED
  BY <1>1, <1>2, <1>3

LEMMA InitType == Init => TypeOK
<1> SUFFICES ASSUME Init PROVE TypeOK
  OBVIOUS
<1>1. InvoiceTypeOK
  BY HeightAssumption, ForwardAssumption
  DEF Init, InvoiceTypeOK, Heights, Books, Statuses, HtlcStates, ClnStates, Requests
<1>2. SwapTypeOK
  BY SwapsAssumption, HeightAssumption, ForwardAssumption
  DEF Init, SwapTypeOK, Heights, NoSwap, SwapData
<1> QED
  BY <1>1, <1>2 DEF TypeOK

LEMMA NextType == TypeOK /\ [Next]_vars => TypeOK'
<1> SUFFICES ASSUME TypeOK, [Next]_vars PROVE TypeOK'
  OBVIOUS
<1>0. InvoiceTypeOK /\ SwapTypeOK
  BY DEF TypeOK
<1>1. CASE CreateMoves
  BY <1>1, CreateType DEF CreateMoves
<1>2. CASE HookMoves
  BY <1>0, <1>2, HookType, QuietType DEF HookMoves, TypeOK
<1>3. CASE MonitorMoves
  BY <1>0, <1>3, MonitorType, QuietType DEF MonitorMoves, TypeOK
<1>4. CASE HandlerMoves
  <2>1. CASE PassStarts /\ Quiet
    BY <1>0, <2>1, QuietType DEF PassStarts, InvoiceTypeOK, TypeOK, book, lock
  <2>2. ASSUME NEW s \in Swaps,
               \/ (HandlerForgets(s) \/ HandlerSkips(s) \/ HandlerRaises(s)) /\ Quiet
               \/ (HandlerSettles(s) \/ HandlerSettleRaises(s)) /\ Quiet
               \/ HandlerSaves(s) /\ Writes
        PROVE  TypeOK'
    BY <1>0, <2>2, HandlerInvoiceType, QuietType DEF TypeOK
  <2> QED
    BY <1>4, <2>1, <2>2, CallbackType DEF HandlerMoves
<1>5. CASE ClaimMoves
  BY <1>5, PollType, ClaimType DEF ClaimMoves
<1>6. CASE ClnMoves
  BY <1>0, <1>6, LightningType, QuietType DEF ClnMoves, TypeOK
<1>7. CASE \E s \in Swaps : InvoicesExpire(s) /\ Quiet
  BY <1>0, <1>7, QuietType DEF InvoicesExpire, InvoiceTypeOK, TypeOK, book, lock
<1>8. CASE \E s \in Swaps : ClientClaims(s)
  BY <1>8, EnvironmentType
<1>9. CASE BlockMined
  BY <1>9, EnvironmentType
<1>10. CASE Crash \/ RestartLightning \/ RestartSwaps
  BY <1>10, RestartType
<1>11. CASE UNCHANGED vars
  BY <1>11 DEF vars, invoiceVars, swapVars, requestVars, taskVars, chainVars, faultVars,
     TypeOK, InvoiceTypeOK, SwapTypeOK
<1> QED
  BY <1>1, <1>2, <1>3, <1>4, <1>5, <1>6, <1>7, <1>8, <1>9, <1>10, <1>11 DEF Next

\* Every variable keeps its type, whatever crashes or fails.
THEOREM TypeCorrect == Spec => []TypeOK
<1>1. Init => TypeOK
  BY InitType
<1>2. TypeOK /\ [Next]_vars => TypeOK'
  BY NextType
<1> QED
  BY <1>1, <1>2, PTL DEF Spec

-----------------------------------------------------------------------------
(* No swap is funded twice.  funding_txid cannot carry the proof: it is    *)
(* set in memory and written later or never.  What does is the status of   *)
(* the prepay invoice.  Only an invoice that is FUNDED is settled, none    *)
(* goes back to FUNDED, and the settled one is stored before               *)
(* hold_invoice_callback is called: memory and database agree that the     *)
(* prepay invoice is SETTLED, or gone, before the first funding            *)
(* transaction and ever after.                                             *)

\* An invoice with such a status never becomes FUNDED.
Over(status) == status \in {"SETTLED", "absent"}

\* What holds of a swap before and after its funding: it is not published
\* twice, and from then on the prepay invoice is over for good.
PublishedOnce(s) ==
    fundings[s] > 0 =>
       /\ fundings[s] = 1
       /\ s <= created
       /\ Over(hold.status[Prepay(s)]) /\ Over(diskHold.status[Prepay(s)])
       /\ \A e \in handling : e[1] # s

\* What the callback thread relies on between its steps.
HandlingOwns ==
    \A e \in handling :
       /\ fundings[e[1]] = 0
       /\ e[1] <= created
       /\ Over(hold.status[Prepay(e[1])])
       /\ e[2] # "save" => Over(diskHold.status[Prepay(e[1])])

\* A swap nobody has asked for has no invoices.
NotYetCreated(s) ==
    s > created => hold.status[Prepay(s)] = "absent" /\ diskHold.status[Prepay(s)] = "absent"

FundingInv ==
    /\ \A s \in Swaps : PublishedOnce(s) /\ NotYetCreated(s)
    /\ HandlingOwns

-----------------------------------------------------------------------------
(* Steps that neither fund nor hand a swap to the callback thread *)

\* A book to which prepay invoices may become over, but never cease to be, and
\* in which none appears.
Advances(from, to) ==
    \A s \in Swaps : LET i == Prepay(s) IN
       /\ Over(from.status[i]) => Over(to.status[i])
       /\ from.status[i] = "absent" => to.status[i] = "absent"

\* The same of what is stored, which may also be what memory holds.
DiskAdvances ==
    \A s \in Swaps : LET i == Prepay(s) IN
       /\ Over(hold'.status[i]) /\ Over(diskHold.status[i]) => Over(diskHold'.status[i])
       /\ hold'.status[i] = "absent" /\ diskHold.status[i] = "absent"
             => diskHold'.status[i] = "absent"

LEMMA WriteAdvances ==
    ASSUME NEW I, Write(I) \/ UNCHANGED diskHold PROVE DiskAdvances
<1>1. CASE Write(I)
  BY <1>1, MainPrepayType DEF Write, Patched, DiskAdvances, Over
<1>2. CASE UNCHANGED diskHold
  BY <1>2 DEF DiskAdvances
<1> QED
  BY <1>1, <1>2

\* The invariant survives a step of this kind that publishes nothing and leaves
\* the callback thread where it is, or sends it back to the start.
LEMMA AdvanceKeepsFunding ==
    ASSUME FundingInv, Advances(hold, hold'), DiskAdvances,
           UNCHANGED fundings, UNCHANGED created, handling' \subseteq handling,
           handling \subseteq Swaps \X HandlerSteps
    PROVE  FundingInv'
<1> USE DEF Advances, DiskAdvances
<1>1. ASSUME NEW s \in Swaps PROVE PublishedOnce(s)'
  BY <1>1 DEF FundingInv, PublishedOnce
<1>2. ASSUME NEW s \in Swaps PROVE NotYetCreated(s)'
  BY <1>2 DEF FundingInv, NotYetCreated
<1>3. HandlingOwns'
  <2> SUFFICES ASSUME NEW e \in handling'
               PROVE  /\ fundings'[e[1]] = 0
                      /\ e[1] <= created'
                      /\ Over(hold'.status[Prepay(e[1])])
                      /\ e[2] # "save" => Over(diskHold'.status[Prepay(e[1])])
    BY DEF HandlingOwns
  <2>1. e \in handling /\ e[1] \in Swaps
    OBVIOUS
  <2> QED
    BY <2>1 DEF FundingInv, HandlingOwns
<1> QED
  BY <1>1, <1>2, <1>3 DEF FundingInv

LEMMA SweepAdvances ==
    ASSUME hold \in Books, NEW i \in Hashes, NEW st \in Statuses, NEW hs, NEW a,
           Sweep(i, st, hs, a), st # "absent",
           \/ st = "SETTLED" /\ hold.status[i] # "absent"
           \/ hold.status[i] \in {"UNFUNDED", "FUNDED", "FAILED"}
    PROVE  Advances(hold, hold')
  BY MainPrepayType DEF Sweep, Advances, Over, Books, Statuses

LEMMA AnswerAdvances ==
    ASSUME NEW D, NEW hs, NEW a, Answer(D, hs, a) PROVE Advances(hold, hold')
  BY DEF Answer, Advances

LEMMA WithoutAdvances ==
    ASSUME NEW I, hold' = Without(I) PROVE Advances(hold, hold')
  BY MainPrepayType DEF Without, Advances, Over

LEMMA SameAdvances ==
    ASSUME UNCHANGED hold PROVE Advances(hold, hold')
  BY DEF Advances

LEMMA HookAdvances ==
    ASSUME TypeOK, NEW h \in Htlcs,
           \/ HookContinues(h) \/ HookReplaces(h) \/ HookRejects(h)
           \/ HookAccepts(h) \/ HookSaves(h) \/ HookSaveRaises(h)
    PROVE  Advances(hold, hold') /\ DiskAdvances /\ UNCHANGED handling
<1>1. CASE HookContinues(h) \/ HookReplaces(h) \/ HookSaveRaises(h)
  BY <1>1, SameAdvances, WriteAdvances
  DEF HookContinues, HookReplaces, HookSaveRaises, book, lock
<1>2. CASE HookRejects(h)
  BY <1>2, AnswerAdvances, WriteAdvances DEF HookRejects
<1>3. CASE HookAccepts(h)
  <2>1. Advances(hold, hold')
    BY <1>3, MainPrepayType, HtlcsAssumption
    DEF HookAccepts, Acceptable, Advances, Over, TypeOK, InvoiceTypeOK, Books
  <2> QED
    BY <1>3, <2>1, WriteAdvances DEF HookAccepts
<1>4. CASE HookSaves(h)
  BY <1>4, SameAdvances, WriteAdvances DEF HookSaves, UpdateInvoice
<1> QED
  BY <1>1, <1>2, <1>3, <1>4

LEMMA MonitorAdvances ==
    ASSUME TypeOK, NEW i \in Hashes,
           MonitorCancels(i) \/ MonitorCancelRaises(i) \/ MonitorDeletes(i)
    PROVE  Advances(hold, hold') /\ DiskAdvances /\ UNCHANGED handling
<1>1. CASE MonitorCancels(i)
  BY <1>1, SweepAdvances, WriteAdvances
  DEF MonitorCancels, ScanStops, Expirable, TypeOK, InvoiceTypeOK, Statuses
<1>2. CASE MonitorCancelRaises(i)
  BY <1>2, AnswerAdvances, WriteAdvances DEF MonitorCancelRaises, SweepRaises, lock
<1>3. CASE MonitorDeletes(i)
  BY <1>3, WithoutAdvances, WriteAdvances DEF MonitorDeletes
<1> QED
  BY <1>1, <1>2, <1>3

\* HandlerSettles is the one quiet step of the callback thread that hands a
\* swap over; the others and the steps of the asyncio loop advance the books.
LEMMA HandlerAdvances ==
    ASSUME TypeOK, NEW s \in Swaps,
           \/ HandlerForgets(s) \/ HandlerSkips(s) \/ HandlerRaises(s)
           \/ HandlerSettleRaises(s)
    PROVE  Advances(hold, hold') /\ DiskAdvances /\ UNCHANGED handling
<1>1. CASE HandlerForgets(s) \/ HandlerSkips(s) \/ HandlerRaises(s)
  BY <1>1, SameAdvances, WriteAdvances
  DEF HandlerForgets, HandlerSkips, HandlerRaises, book, lock
<1>2. CASE HandlerSettleRaises(s)
  BY <1>2, AnswerAdvances, WriteAdvances DEF HandlerSettleRaises, SweepRaises, lock
<1> QED
  BY <1>1, <1>2

LEMMA FailSwapAdvances ==
    ASSUME NEW s, NEW sw, FailSwap(s, sw) PROVE Advances(hold, hold') /\ DiskAdvances
  BY SameAdvances, WriteAdvances DEF FailSwap, WriteAll

LEMMA ClaimAdvances ==
    ASSUME TypeOK, NEW c \in claim,
           \/ ClaimUnfunded(c.swap, c) \/ ClaimDrops(c.swap, c) \/ FinishSettles(c.swap, c)
           \/ FinishRaises(c.swap, c) \/ ClaimSeesRefund(c.swap, c)
           \/ ClaimRefunds(c.swap, c) \/ FinishCleansUp(c)
    PROVE  /\ Advances(hold, hold') /\ DiskAdvances
           /\ UNCHANGED <<handling, fundings, created>>
<1> DEFINE s == c.swap
<1>0. s \in Swaps
  BY DEF TypeOK, SwapTypeOK, Reads
<1>f. ASSUME NEW sw, ClaimFails(s, sw)
      PROVE  /\ Advances(hold, hold') /\ DiskAdvances
             /\ UNCHANGED <<handling, fundings, created>>
  BY <1>f, FailSwapAdvances DEF ClaimFails, lock, requestVars, chainVars
<1>e. ASSUME NEW sw, ClaimEnds(s, sw)
      PROVE  Advances(hold, hold') /\ DiskAdvances /\ UNCHANGED <<handling, created>>
  BY <1>e, SameAdvances, WriteAdvances DEF ClaimEnds, invoiceVars, requestVars
<1>1. CASE ClaimUnfunded(s, c)
  BY <1>1, <1>e, <1>f DEF ClaimUnfunded, chainVars
<1>2. CASE ClaimDrops(s, c)
  BY <1>2, <1>f DEF ClaimDrops
<1>3. CASE FinishSettles(s, c)
  BY <1>0, <1>3, MainPrepayType, SweepAdvances, WriteAdvances
  DEF FinishSettles, Present, TypeOK, InvoiceTypeOK, Statuses, lock, requestVars, chainVars
<1>4. CASE FinishRaises(s, c)
  BY <1>4, AnswerAdvances, SameAdvances, WriteAdvances
  DEF FinishRaises, SweepRaises, lock, requestVars, chainVars
<1>5. CASE ClaimSeesRefund(s, c)
  BY <1>5, <1>e, <1>f DEF ClaimSeesRefund, chainVars
<1>6. CASE ClaimRefunds(s, c)
  BY <1>6, <1>e DEF ClaimRefunds, RefundBroadcast, chainVars
<1>7. CASE FinishCleansUp(c)
  BY <1>7, WithoutAdvances, WriteAdvances
  DEF FinishCleansUp, WriteAll, lock, requestVars, chainVars
<1> QED
  BY <1>1, <1>2, <1>3, <1>4, <1>5, <1>6, <1>7

-----------------------------------------------------------------------------
(* The steps that ask for, hand over, and fund a swap *)

LEMMA CreateKeepsFunding ==
    ASSUME TypeOK, FundingInv, NEW s \in Swaps, CreateInvoices(s)
    PROVE  FundingInv'
<1>1. /\ created' = s /\ s = created + 1
      /\ UNCHANGED <<fundings, handling>>
      /\ \A t \in Swaps \ {s} : hold'.status[Prepay(t)] = hold.status[Prepay(t)]
  BY MainPrepayType DEF CreateInvoices, Prepay, TypeOK, InvoiceTypeOK, Books, lock, chainVars
<1>2. created \in Nat /\ \A t \in Swaps : t \in Nat
  BY DEF TypeOK, SwapTypeOK, Swaps
<1>n. \A n \in Nat : n <= created => n <= s
  BY <1>1, <1>2
<1>3. DiskAdvances
  BY WriteAdvances DEF CreateInvoices
<1>4. ASSUME NEW t \in Swaps PROVE PublishedOnce(t)'
  BY <1>1, <1>2, <1>3, <1>4 DEF FundingInv, PublishedOnce, DiskAdvances
<1>5. ASSUME NEW t \in Swaps PROVE NotYetCreated(t)'
  BY <1>1, <1>2, <1>3, <1>5 DEF FundingInv, NotYetCreated, DiskAdvances
<1>6. HandlingOwns'
  <2> SUFFICES ASSUME NEW e \in handling
               PROVE  /\ fundings[e[1]] = 0
                      /\ e[1] <= s
                      /\ Over(hold'.status[Prepay(e[1])])
                      /\ e[2] # "save" => Over(diskHold'.status[Prepay(e[1])])
    BY <1>1 DEF HandlingOwns
  <2>1. e[1] \in Swaps \ {s}
    BY <1>1, <1>2 DEF FundingInv, HandlingOwns, TypeOK, InvoiceTypeOK
  <2>2. fundings[e[1]] = 0 /\ e[1] <= created
    BY DEF FundingInv, HandlingOwns
  <2>3. Over(hold.status[Prepay(e[1])]) /\ Over(hold'.status[Prepay(e[1])])
    BY <1>1, <2>1 DEF FundingInv, HandlingOwns
  <2>4. e[2] # "save" => Over(diskHold.status[Prepay(e[1])])
    BY DEF FundingInv, HandlingOwns
  <2>5. e[1] <= s
    BY <1>n, <1>2, <2>1, <2>2
  <2>6. e[2] # "save" => Over(diskHold'.status[Prepay(e[1])])
    BY <1>3, <2>1, <2>3, <2>4 DEF DiskAdvances
  <2> QED
    BY <2>2, <2>3, <2>5, <2>6
<1> QED
  BY <1>4, <1>5, <1>6 DEF FundingInv

\* Only here does a swap get to the callback thread, and only with a FUNDED
\* prepay invoice: it has not been published.
LEMMA SettleKeepsFunding ==
    ASSUME TypeOK, FundingInv, NEW s \in Swaps, HandlerSettles(s), Quiet
    PROVE  FundingInv'
<1>1. /\ UNCHANGED <<fundings, created, diskHold>>
      /\ handling' = {<<s, "save">>} /\ handling = {}
  BY DEF HandlerSettles, Visits, LockFree, Quiet, swapVars, requestVars, chainVars
<1>2. hold.status[Prepay(s)] = "FUNDED"
  BY DEF HandlerSettles, BothFunded
<1>3. Advances(hold, hold') /\ DiskAdvances
  BY <1>1, <1>2, MainPrepayType, SweepAdvances, WriteAdvances
  DEF HandlerSettles, TypeOK, InvoiceTypeOK, Statuses
<1>4. hold'.status[Prepay(s)] = "SETTLED"
  BY MainPrepayType DEF HandlerSettles, Sweep, TypeOK, InvoiceTypeOK, Books
<1>5. s <= created /\ fundings[s] = 0
  BY <1>2 DEF FundingInv, PublishedOnce, NotYetCreated, Over, TypeOK, SwapTypeOK, Swaps
<1>6. ASSUME NEW t \in Swaps PROVE PublishedOnce(t)' /\ NotYetCreated(t)'
  BY <1>1, <1>3, <1>5, <1>6
  DEF FundingInv, PublishedOnce, NotYetCreated, Advances, DiskAdvances
<1>7. HandlingOwns'
  BY <1>1, <1>4, <1>5 DEF HandlingOwns, Over
<1> QED
  BY <1>6, <1>7 DEF FundingInv

\* Once the settled invoice is stored, memory and database agree.
LEMMA SaveKeepsFunding ==
    ASSUME TypeOK, FundingInv, NEW s \in Swaps, HandlerSaves(s), Writes
    PROVE  FundingInv'
<1>1. /\ UNCHANGED <<fundings, created, hold>>
      /\ handling' = {<<s, "call">>} /\ <<s, "save">> \in handling
  BY DEF HandlerSaves, UpdateInvoice, Writes, ThreadWrites, requestVars, chainVars
<1>2. Advances(hold, hold') /\ DiskAdvances
  BY <1>1, SameAdvances, WriteAdvances DEF HandlerSaves, UpdateInvoice
<1>3. fundings[s] = 0 /\ s <= created /\ Over(hold.status[Prepay(s)])
  BY <1>1 DEF FundingInv, HandlingOwns
<1>4. diskHold'.status[Prepay(s)] = hold.status[Prepay(s)]
  BY <1>1, MainPrepayType DEF HandlerSaves, UpdateInvoice, Write, Patched
<1>5. ASSUME NEW t \in Swaps PROVE PublishedOnce(t)' /\ NotYetCreated(t)'
  BY <1>1, <1>2, <1>3, <1>5
  DEF FundingInv, PublishedOnce, NotYetCreated, Advances, DiskAdvances
<1>6. HandlingOwns'
  BY <1>1, <1>3, <1>4 DEF HandlingOwns
<1> QED
  BY <1>5, <1>6 DEF FundingInv

LEMMA CallbackKeepsFunding ==
    ASSUME TypeOK, FundingInv, NEW s \in Swaps,
           \/ CallbackReturns(s) \/ CallbackCreatesTx(s) \/ CallbackRaises(s)
           \/ CallbackBroadcasts(s) \/ CallbackBroadcastFails(s)
    PROVE  FundingInv'
<1>t. handling \subseteq Swaps \X HandlerSteps
  BY DEF TypeOK, InvoiceTypeOK
<1>1. CASE CallbackReturns(s) \/ CallbackRaises(s)
  <2>1. Advances(hold, hold') /\ DiskAdvances
    BY <1>1, SameAdvances, WriteAdvances DEF CallbackReturns, CallbackRaises, book
  <2> QED
    BY <1>1, <1>t, <2>1, AdvanceKeepsFunding
    DEF CallbackReturns, CallbackRaises, HandlerUnregisters, HandlerAborts, swapVars,
        requestVars, chainVars
<1>2. CASE CallbackCreatesTx(s)
  <2>1. /\ UNCHANGED <<hold, diskHold, fundings, created>>
        /\ handling' = {<<s, "broadcast">>} /\ <<s, "call">> \in handling
    BY <1>2 DEF CallbackCreatesTx, book, swapVars, requestVars, chainVars
  <2>2. ASSUME NEW t \in Swaps PROVE PublishedOnce(t)' /\ NotYetCreated(t)'
    BY <2>1, <2>2 DEF FundingInv, HandlingOwns, PublishedOnce, NotYetCreated
  <2>3. HandlingOwns'
    BY <2>1 DEF FundingInv, HandlingOwns
  <2> QED
    BY <2>2, <2>3 DEF FundingInv
<1>3. CASE CallbackBroadcasts(s) \/ CallbackBroadcastFails(s)
  <2>1. /\ <<s, "broadcast">> \in handling /\ handling' = {}
        /\ UNCHANGED <<hold, created>>
        /\ Publish(s) \/ UNCHANGED fundings
    BY <1>3 DEF CallbackBroadcasts, CallbackBroadcastFails, HandlerUnregisters, FailSwap,
       book, requestVars, chainVars
  <2>2. Advances(hold, hold') /\ DiskAdvances
    BY <1>3, SameAdvances, WriteAdvances, FailSwapAdvances
    DEF CallbackBroadcasts, CallbackBroadcastFails, book
  <2>3. /\ fundings[s] = 0 /\ s <= created
        /\ Over(hold.status[Prepay(s)]) /\ Over(diskHold.status[Prepay(s)])
    BY <2>1 DEF FundingInv, HandlingOwns
  <2>4. /\ fundings'[s] \in {0, 1}
        /\ \A t \in Swaps \ {s} : fundings'[t] = fundings[t]
    BY <2>1, <2>3 DEF Publish, TypeOK, SwapTypeOK
  <2>5. PublishedOnce(s)'
    BY <2>1, <2>2, <2>3, <2>4 DEF PublishedOnce, DiskAdvances
  <2>6. ASSUME NEW t \in Swaps \ {s} PROVE PublishedOnce(t)'
    BY <2>1, <2>2, <2>4, <2>6 DEF FundingInv, PublishedOnce, DiskAdvances
  <2>7. ASSUME NEW t \in Swaps PROVE NotYetCreated(t)'
    BY <2>1, <2>2, <2>7 DEF FundingInv, NotYetCreated, DiskAdvances
  <2> QED
    BY <2>1, <2>5, <2>6, <2>7 DEF FundingInv, HandlingOwns
<1> QED
  BY <1>1, <1>2, <1>3

\* What was stored is what is read back; the callback thread starts anew.
LEMMA CrashKeepsFunding ==
    ASSUME TypeOK, FundingInv, Crash PROVE FundingInv'
  BY DEF FundingInv, PublishedOnce, NotYetCreated, HandlingOwns, Crash, chainVars

LEMMA RestKeepsFunding ==
    ASSUME TypeOK, FundingInv,
           \/ \E s \in Swaps : ClaimReads(s) \/ ClaimSkips(s) \/ CreateRegisters(s)
           \/ \E s \in Swaps : InvoicesExpire(s) /\ Quiet
           \/ \E s \in Swaps : ClientClaims(s)
           \/ PassStarts /\ Quiet
           \/ ClnMoves
           \/ MonitorPolls \/ BlockMined \/ RestartLightning \/ RestartSwaps \/ UNCHANGED vars
    PROVE  FundingInv'
<1>1. UNCHANGED <<hold, diskHold, handling, fundings, created>>
  BY DEF ClaimReads, ClaimSkips, CreateRegisters, InvoicesExpire, ClientClaims, PassStarts,
     ClnMoves, HtlcArrives, HtlcReplayed, ClnCommits, HtlcTimesOut, MonitorPolls, BlockMined,
     RestartLightning, RestartSwaps, Quiet, vars, invoiceVars, swapVars, requestVars,
     chainVars, book, lock
<1> QED
  BY <1>1 DEF FundingInv, PublishedOnce, NotYetCreated, HandlingOwns

-----------------------------------------------------------------------------
(* The invariant and the theorems *)

LEMMA InitFunding == Init => FundingInv
  BY MainPrepayType
  DEF Init, FundingInv, PublishedOnce, NotYetCreated, HandlingOwns

LEMMA NextFunding == TypeOK /\ FundingInv /\ [Next]_vars => FundingInv'
<1> SUFFICES ASSUME TypeOK, FundingInv, [Next]_vars PROVE FundingInv'
  OBVIOUS
<1>t. handling \subseteq Swaps \X HandlerSteps
  BY DEF TypeOK, InvoiceTypeOK
<1>q. ASSUME Advances(hold, hold'), DiskAdvances, UNCHANGED handling, Quiet \/ Writes
      PROVE  FundingInv'
  BY <1>q, <1>t, AdvanceKeepsFunding
  DEF Quiet, Writes, ThreadWrites, swapVars, requestVars, chainVars
<1>1. CASE CreateMoves
  BY <1>1, CreateKeepsFunding, RestKeepsFunding DEF CreateMoves
<1>2. CASE HookMoves
  BY <1>2, <1>q, HookAdvances DEF HookMoves
<1>3. CASE MonitorMoves
  BY <1>3, <1>q, MonitorAdvances DEF MonitorMoves
<1>4. CASE HandlerMoves
  <2>1. ASSUME NEW s \in Swaps,
               (HandlerForgets(s) \/ HandlerSkips(s) \/ HandlerRaises(s)
                  \/ HandlerSettleRaises(s)) /\ Quiet
        PROVE  FundingInv'
    BY <1>q, <2>1, HandlerAdvances
  <2> QED
    BY <1>4, <2>1, SettleKeepsFunding, SaveKeepsFunding, CallbackKeepsFunding,
       RestKeepsFunding DEF HandlerMoves
<1>5. CASE ClaimMoves
  <2>1. ASSUME NEW c \in claim,
               \/ ClaimUnfunded(c.swap, c) \/ ClaimDrops(c.swap, c)
               \/ FinishSettles(c.swap, c) \/ FinishRaises(c.swap, c)
               \/ ClaimSeesRefund(c.swap, c) \/ ClaimRefunds(c.swap, c)
               \/ FinishCleansUp(c)
        PROVE  FundingInv'
    BY <1>t, <2>1, ClaimAdvances, AdvanceKeepsFunding
  <2> QED
    BY <1>5, <2>1, RestKeepsFunding DEF ClaimMoves
<1>6. CASE Crash
  BY <1>6, CrashKeepsFunding
<1> QED
  BY <1>1, <1>2, <1>3, <1>4, <1>5, <1>6, RestKeepsFunding DEF Next

LEMMA FundingInvariant == Spec => []FundingInv
<1>1. Init => FundingInv
  BY InitFunding
<1>2. TypeOK /\ FundingInv /\ [Next]_vars => FundingInv'
  BY NextFunding
<1> QED
  BY <1>1, <1>2, TypeCorrect, PTL DEF Spec

\* create_funding_tx and broadcast_funding_tx spend the provider's coins for a
\* swap once, however often the plugin crashes and whatever it had not stored.
THEOREM NoSwapFundedTwice == Spec => []FundedOnce
<1>1. TypeOK /\ FundingInv => FundedOnce
  BY DEF FundingInv, PublishedOnce, FundedOnce, TypeOK, SwapTypeOK
<1> QED
  BY <1>1, TypeCorrect, FundingInvariant, PTL

\* The prepay invoice is SETTLED in the database, or deleted, whenever a funding
\* transaction has been published.
THEOREM PrepayStoredFirst == Spec => []SettledBeforeFunded
<1>1. FundingInv => SettledBeforeFunded
  BY DEF FundingInv, PublishedOnce, SettledBeforeFunded, Over
<1> QED
  BY <1>1, FundingInvariant, PTL
=============================================================================
