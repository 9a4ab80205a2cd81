---------------------------- MODULE ForwardSwap -----------------------------
(***************************************************************************)
(* SwapManager, forward ("normal") swaps: the client pays the hold invoice *)
(* and the prepay invoice, the provider funds a lockup output, the client  *)
(* claims it with the preimage, and the provider reads the preimage off    *)
(* the chain and settles; or the locktime passes and the provider takes    *)
(* the lockup output back.  The swap entries and the chain callbacks are   *)
(* used by two threads: the asyncio loop (creation, chain callbacks) and   *)
(* callback_handler, which runs hold_invoice_callback.                     *)
(*                                                                         *)
(* The module composes SwapManager, ChainMonitor's polling, the threads of *)
(* HoldInvoices, lightningd, the chain, the client, crashes and restarts.  *)
(***************************************************************************)
EXTENDS HoldInvoices

CONSTANTS
    StartHeight,    \* block height of the initial states
    LocktimeDelta,  \* LOCKTIME_DELTA_REFUND
    RedeemDelay,    \* REDEEM_AFTER_DOUBLE_SPENT_DELAY
    CltvDeltas,     \* relative CLTVs the senders of HTLCs choose from
    Faults,         \* which faults happen: a subset of {"crash", "rpc"}
    MaxFaults,      \* bound: faults in a run
    Prompt,         \* blocks are slower than the work of the plugin
    ReplayFirst,    \* lightningd replays HTLCs before SwapManager starts
    MaxDowntime     \* bound: blocks mined in a run while the plugin is down

ASSUME ForwardAssumption ==
    /\ StartHeight \in 1..MaxHeight /\ LocktimeDelta \in Nat /\ RedeemDelay \in Nat
    /\ CltvDeltas \subseteq Nat
    /\ Faults \subseteq {"crash", "rpc"} /\ MaxFaults \in Nat /\ MaxDowntime \in Nat
    /\ Prompt \in BOOLEAN /\ ReplayFirst \in BOOLEAN

VARIABLES
    swaps,      \* self.swaps: the SwapData objects and which of them are keys
    diskSwaps,  \* swaps, as stored
    created,    \* number of swaps requested so far
    creating,   \* swap whose create_normal_swap awaits register_address
    offered,    \* swaps whose invoices the client has been sent
    watched,    \* keys of ChainMonitor.callbacks
    due,        \* callbacks left to call in the running trigger_callbacks
    claim,      \* the _claim_swap in progress, past its reads
    lastHeight, \* last_height of monitoring_loop
    lockup,     \* the lockup output on chain: "none", "mempool", "confirmed"
    fundings,   \* funding transactions published for each swap
    spender,    \* the transaction spending the lockup output
    spentAt,    \* its block height, 0 in the mempool
    faults,     \* faults so far
    downtime    \* blocks mined while the plugin was down

requestVars == <<created, creating, offered>>
swapVars == <<swaps, diskSwaps, watched, requestVars>>
taskVars == <<due, claim, lastHeight>>
chainVars == <<lockup, fundings, spender, spentAt>>
faultVars == <<faults, downtime>>
vars == <<invoiceVars, swapVars, taskVars, chainVars, faultVars>>

SwapData == [known : BOOLEAN,        \* is a key of self.swaps
             locktime : Nat,
             funded : BOOLEAN,       \* funding_txid is set
             preimage : BOOLEAN,     \* preimage is set
             redeemed : BOOLEAN]     \* is_redeemed
NoSwap == [known |-> FALSE, locktime |-> 0, funded |-> FALSE,
           preimage |-> FALSE, redeemed |-> FALSE]
Reads == [swap : Swaps, step : {"act", "cleanup"}, height : Heights,
          lockup : {"none", "mempool", "confirmed"},
          spender : {"none", "claim", "refund"}, spentAt : Heights]

\* The types of the variables of this module.
SwapTypeOK ==
    /\ swaps \in [Swaps -> SwapData] /\ diskSwaps \in [Swaps -> SwapData]
    /\ created \in 0..NumSwaps
    /\ creating \in SUBSET Swaps /\ offered \in SUBSET Swaps
    /\ watched \in SUBSET Swaps /\ due \in SUBSET Swaps
    /\ claim \in SUBSET Reads /\ lastHeight \in Heights
    /\ lockup \in [Swaps -> {"none", "mempool", "confirmed"}]
    /\ fundings \in [Swaps -> Nat]
    /\ spender \in [Swaps -> {"none", "claim", "refund"}]
    /\ spentAt \in [Swaps -> Heights]
    /\ faults \in Nat /\ downtime \in Nat

-----------------------------------------------------------------------------
(* create_normal_swap and add_normal_swap, in the asyncio loop *)

\* The asyncio loop is at an await: _finish_normal_swap has none.
LoopFree == stage = "up" /\ \A c \in claim : c.step = "act"

\* Up to `await register_address`: both invoices are stored and bundled (the
\* swap invoice is popped and saved last), the swap entry is added but not
\* written.  Requests are handled one at a time.
CreateInvoices(s) ==
    /\ LoopFree
    /\ creating = {} /\ s = created + 1
    /\ creating' = {s} /\ created' = s
    /\ hold' = [hold EXCEPT !.status = [i \in Hashes |->
                   IF i[1] = s THEN "UNFUNDED" ELSE @[i]]]
    /\ older' = {p \in older : p[1][1] # s}
                \cup {<<i, Prepay(s)>> : i \in {j \in Hashes : j[1] # s}}
                \cup {<<i, Main(s)>> : i \in Hashes \ {Main(s)}}
    /\ Write({Main(s), Prepay(s)})
    /\ swaps' = [swaps EXCEPT ![s] = [NoSwap EXCEPT !.known = TRUE,
                                                    !.locktime = height + LocktimeDelta]]
    /\ diskSwaps' = swaps
    /\ UNCHANGED <<stage, height, cln, cltv, request, callbacks, expired, lock, pass,
                   offered, watched, taskVars, chainVars, faultVars>>

\* Mutants of CreateRegisters: one of the two callbacks is forgotten.
CreateRegistersUnwatched(s) ==
    /\ LoopFree
    /\ s \in creating
    /\ creating' = {}
    /\ callbacks' = callbacks \cup {s}
    /\ offered' = offered \cup {s}
    /\ UNCHANGED <<stage, height, book, cln, cltv, request, expired, lock, pass,
                   swaps, diskSwaps, watched, created, taskVars, chainVars, faultVars>>
CreateRegistersUncalled(s) ==
    /\ LoopFree
    /\ s \in creating
    /\ creating' = {}
    /\ watched' = watched \cup {s}
    /\ offered' = offered \cup {s}
    /\ UNCHANGED <<stage, height, book, cln, cltv, request, callbacks, expired, lock, pass,
                   swaps, diskSwaps, created, taskVars, chainVars, faultVars>>

\* After it: the chain callback, the invoice callback, and the reply.
CreateRegisters(s) ==
    /\ LoopFree
    /\ s \in creating
    /\ creating' = {}
    /\ watched' = watched \cup {s}
    /\ callbacks' = callbacks \cup {s}
    /\ offered' = offered \cup {s}
    /\ UNCHANGED <<stage, height, book, cln, cltv, request, expired, lock, pass,
                   swaps, diskSwaps, created, taskVars, chainVars, faultVars>>

-----------------------------------------------------------------------------
(* Failing, finishing and dropping a swap *)

\* The patches of the swap entries are pending until any thread writes.
WriteAll(I) == Write(I) /\ diskSwaps' = swaps'
ThreadWrites == diskSwaps' = swaps /\ UNCHANGED <<swaps, watched, requestVars>>

Fault(kind) ==
    /\ kind \in Faults /\ faults < MaxFaults
    /\ faults' = faults + 1
    /\ downtime' = downtime

\* Mutant of FailSwap: the entry is removed although the swap is funded.
FailSwapAlways(s, sw) ==
    /\ watched' = watched \ {s}
    /\ swaps' = [swaps EXCEPT ![s] = [sw EXCEPT !.known = FALSE]]
    /\ hold' = hold /\ older' = older
    /\ WriteAll({})

\* _fail_swap. The test `swap.payment_hash in _hold_invoice_callbacks` compares
\* bytes with hex strings and is never true, so for a forward swap, too, the
\* else branch is taken: hold invoices, HTLCs and callbacks stay as they are.
\* sw is the SwapData with the fields its caller has set. Popping an entry that
\* is gone raises, and nothing is written.
FailSwap(s, sw) ==
    LET stays == sw.funded /\ ~sw.redeemed IN
    /\ watched' = watched \ {s}
    /\ swaps' = [swaps EXCEPT ![s] = [sw EXCEPT !.known = @ /\ stays]]
    /\ hold' = hold /\ older' = older
    /\ IF sw.known \/ stays THEN WriteAll({})
       ELSE UNCHANGED <<diskHold, diskOlder, diskSwaps>>

-----------------------------------------------------------------------------
(* hold_invoice_callback, called by callback_handler *)

\* The client's swap is gone or already has a funding transaction.
CallbackReturns(s) ==
    /\ <<s, "call">> \in handling
    /\ ~swaps[s].known \/ swaps[s].funded
    /\ HandlerUnregisters(s)
    /\ UNCHANGED <<stage, height, book, cln, cltv, request, expired, hook, expiring,
                   swapVars, taskVars, chainVars, faultVars>>

\* create_funding_tx
CallbackCreatesTx(s) ==
    /\ <<s, "call">> \in handling
    /\ swaps[s].known /\ ~swaps[s].funded
    /\ handling' = {<<s, "broadcast">>}
    /\ UNCHANGED <<stage, height, book, cln, cltv, request, callbacks, expired, hook,
                   expiring, pass, swapVars, taskVars, chainVars, faultVars>>

\* fundpsbt or signpsbt fails; create_transaction then logs with an argument
\* too many, and the TypeError ends the pass.
CallbackRaises(s) ==
    /\ <<s, "call">> \in handling
    /\ swaps[s].known /\ ~swaps[s].funded
    /\ HandlerAborts
    /\ Fault("rpc")
    /\ UNCHANGED <<stage, height, book, cln, cltv, request, expired, hook, expiring,
                   swapVars, taskVars, chainVars>>

Publish(s) ==
    /\ fundings' = [fundings EXCEPT ![s] = @ + 1]
    /\ lockup' = [lockup EXCEPT ![s] = IF @ = "none" THEN "mempool" ELSE @]
    /\ UNCHANGED <<spender, spentAt>>

\* broadcast_funding_tx: funding_txid is set, not yet written, and sent.
CallbackBroadcasts(s) ==
    /\ <<s, "broadcast">> \in handling
    /\ swaps' = [swaps EXCEPT ![s].funded = TRUE]
    /\ Publish(s)
    /\ HandlerUnregisters(s)
    /\ UNCHANGED <<stage, height, book, cln, cltv, request, expired, hook, expiring,
                   diskSwaps, watched, requestVars, taskVars, faultVars>>

\* sendpsbt fails, or has sent the transaction and its answer is lost: the
\* swap is failed, with funding_txid set.
CallbackBroadcastFails(s) ==
    /\ <<s, "broadcast">> \in handling
    /\ Fault("rpc")
    /\ FailSwap(s, [swaps[s] EXCEPT !.funded = TRUE])
    /\ Publish(s) \/ UNCHANGED chainVars
    /\ HandlerUnregisters(s)
    /\ UNCHANGED <<stage, height, cln, cltv, request, expired, hook, expiring,
                   requestVars, taskVars>>

-----------------------------------------------------------------------------
(* ChainMonitor.monitoring_loop and trigger_callbacks, in the asyncio loop *)

\* A new block is seen and every chain callback is called, one at a time.
MonitorPolls ==
    /\ stage = "up"
    /\ due = {} /\ claim = {} /\ height > lastHeight
    /\ lastHeight' = height
    /\ due' = watched
    /\ UNCHANGED <<invoiceVars, swapVars, claim, chainVars, faultVars>>

\* _claim_swap up to its last read of the chain. The coroutine then awaits and
\* the world moves on.
ClaimReads(s) ==
    /\ stage = "up"
    /\ claim = {}
    /\ s \in due /\ \A t \in due : s <= t
    /\ due' = due \ {s}
    /\ claim' = {[swap |-> s, step |-> "act", height |-> height, lockup |-> lockup[s],
                  spender |-> spender[s], spentAt |-> spentAt[s]]}
    /\ UNCHANGED <<invoiceVars, swapVars, lastHeight, chainVars, faultVars>>

\* bitcoind does not answer, or is not up to date: the callback ends without
\* effect and is called again with the next block.
ClaimSkips(s) ==
    /\ stage = "up"
    /\ claim = {}
    /\ s \in due /\ \A t \in due : s <= t
    /\ due' = due \ {s}
    /\ Fault("rpc")
    /\ UNCHANGED <<invoiceVars, swapVars, claim, lastHeight, chainVars>>

-----------------------------------------------------------------------------
(* _claim_swap after its reads, for a forward swap *)

Acting(s, c) == stage = "up" /\ c \in claim /\ c.swap = s /\ c.step = "act"

\* The branch is left without a change that anything depends on.
ClaimEnds(s, sw) ==
    /\ claim' = {}
    /\ swaps' = [swaps EXCEPT ![s] = sw]
    /\ UNCHANGED <<invoiceVars, diskSwaps, watched, requestVars, due, lastHeight, faultVars>>

\* The swap is failed and the coroutine returns.
ClaimFails(s, sw) ==
    /\ claim' = {}
    /\ FailSwap(s, sw)
    /\ UNCHANGED <<stage, height, cln, cltv, request, callbacks, expired, lock, pass,
                   requestVars, due, lastHeight, chainVars, faultVars>>

\* No output was seen at the lockup address.
ClaimUnfunded(s, c) ==
    /\ Acting(s, c) /\ c.lockup = "none"
    /\ \/ /\ c.height >= swaps[s].locktime
          /\ ClaimFails(s, swaps[s])
       \/ /\ c.height < swaps[s].locktime
          /\ ClaimEnds(s, swaps[s])
          /\ UNCHANGED chainVars

\* An output was seen: funding_txid is updated, the entry re-added if need be.
Funded(s) == [swaps[s] EXCEPT !.known = TRUE, !.funded = TRUE]

\* Mutant of LongSpent: no delay.
LongSpentAtOnce(c) == c.spender # "none" /\ c.spentAt > 0

\* The output was spent more than RedeemDelay blocks ago.
LongSpent(c) == c.spender # "none" /\ c.spentAt > 0 /\ c.height - c.spentAt > RedeemDelay

\* delete_finished_reverse_swap, for a forward swap as well
ClaimDrops(s, c) ==
    /\ Acting(s, c) /\ c.lockup # "none"
    /\ LongSpent(c)
    /\ ClaimFails(s, [Funded(s) EXCEPT !.redeemed = TRUE])

\* Mutant of Extracts: any spending transaction will do.
ExtractsFromAny(s, c) ==
    /\ Acting(s, c) /\ c.lockup # "none"
    /\ ~LongSpent(c)
    /\ ~swaps[s].preimage /\ c.spender # "none"

\* The preimage is not known yet and the spending transaction reveals it.
Extracts(s, c) ==
    /\ Acting(s, c) /\ c.lockup # "none"
    /\ ~LongSpent(c)
    /\ ~swaps[s].preimage /\ c.spender = "claim"

WithPreimage(s) == [Funded(s) EXCEPT !.preimage = TRUE]

\* _finish_normal_swap up to hold_invoice.settle
FinishSettles(s, c) ==
    /\ Extracts(s, c)
    /\ Present(Main(s)) /\ FullyFunded(Main(s)) /\ AllAnswerable(Main(s))
    /\ Sweep(Main(s), "SETTLED", "SETTLED", "resolve")
    /\ swaps' = [swaps EXCEPT ![s] = WithPreimage(s)]
    /\ claim' = {[c EXCEPT !.step = "cleanup"]}
    /\ UNCHANGED <<stage, height, older, diskHold, diskOlder, cln, cltv, callbacks,
                   expired, lock, pass, diskSwaps, watched, requestVars, due, lastHeight,
                   chainVars, faultVars>>

\* settle raises: there is no hold invoice, it is not fully funded, or an HTLC
\* has no callback. swap.preimage stays set.
FinishRaises(s, c) ==
    /\ Extracts(s, c)
    /\ \/ Present(Main(s)) /\ FullyFunded(Main(s)) /\ SweepRaises(Main(s), "SETTLED", "resolve")
       \/ ~(Present(Main(s)) /\ FullyFunded(Main(s))) /\ UNCHANGED <<hold, request>>
    /\ swaps' = [swaps EXCEPT ![s] = WithPreimage(s)]
    /\ claim' = {}
    /\ UNCHANGED <<stage, height, older, diskHold, diskOlder, cln, cltv, callbacks,
                   expired, lock, pass, diskSwaps, watched, requestVars, due, lastHeight,
                   chainVars, faultVars>>

\* The rest of _finish_normal_swap
FinishCleansUp(c) ==
    /\ stage = "up" /\ c \in claim /\ c.step = "cleanup"
    /\ LET s == c.swap IN
       /\ hold' = Without({Main(s), Prepay(s)})
       /\ older' = older
       /\ callbacks' = callbacks \ {s}
       /\ watched' = watched \ {s}
       /\ swaps' = [swaps EXCEPT ![s].known = FALSE]
       /\ WriteAll({Main(s), Prepay(s)})
    /\ claim' = {}
    /\ UNCHANGED <<stage, height, cln, cltv, request, expired, lock, pass, requestVars,
                   due, lastHeight, chainVars, faultVars>>

\* Our own refund transaction is the spender: the swap is over once that is
\* confirmed. (Unconfirmed, the fee comparison raises and nothing happens.)
ClaimSeesRefund(s, c) ==
    /\ Acting(s, c) /\ c.lockup # "none"
    /\ ~LongSpent(c)
    /\ ~swaps[s].preimage /\ c.spender = "refund"
    /\ \/ /\ c.spentAt >= 2
          /\ ClaimFails(s, [Funded(s) EXCEPT !.redeemed = TRUE])
       \/ /\ c.spentAt = 0
          /\ ClaimEnds(s, Funded(s))
          /\ UNCHANGED chainVars

\* Mutant of PastLocktime: the comparison the other way round.
BeforeLocktime(s, h) == h < swaps[s].locktime

\* remaining_time <= 0, at the height that was read
PastLocktime(s, h) == h >= swaps[s].locktime

\* bitcoind takes the refund transaction if nothing else spends the output and
\* its nLockTime, the locktime, has come.
RefundBroadcast(s) ==
    IF lockup[s] = "confirmed" /\ spender[s] = "none" /\ height >= swaps[s].locktime
    THEN spender' = [spender EXCEPT ![s] = "refund"] /\ UNCHANGED <<lockup, fundings, spentAt>>
    ELSE UNCHANGED chainVars

\* Nobody has spent the output, or the preimage was known already.
ClaimRefunds(s, c) ==
    /\ Acting(s, c) /\ c.lockup # "none"
    /\ ~LongSpent(c)
    /\ c.spender = "none" \/ swaps[s].preimage
    /\ ClaimEnds(s, Funded(s))
    /\ IF /\ PastLocktime(s, c.height)
          /\ ~swaps[s].preimage
          /\ c.lockup = "confirmed"
       THEN RefundBroadcast(s)
       ELSE UNCHANGED chainVars

-----------------------------------------------------------------------------
(* Chain and client *)

\* The plugin has nothing left to do at this height.
HooksIdle == \A h \in Htlcs : request[h] \in {"none", "waiting"}
ScanIdle ==
    \A i \in Hashes :
       ScanStops(i) => ~AllAnswerable(i) \/ (hold.status[i] = "FAILED" /\ PrepayLookupRaises(i))
PassIdle ==
    \A s \in callbacks :
       BothFunded(s) => \E t \in callbacks : t <= s /\ VisitRaises(t)
LoopIdle == stage = "up" /\ creating = {} /\ due = {} /\ claim = {} /\ lastHeight = height

\* Ten minutes between blocks against polls of 5 and 10 seconds and invoices
\* that expire after 300 seconds: a block finds the plugin idle, and one short
\* of a locktime finds the invoices expired.
BlockIsDue ==
    \/ stage = "down"
    \/ /\ LockFree /\ HooksIdle /\ ScanIdle /\ PassIdle /\ LoopIdle
       /\ \A s \in 1..created : s \in expired \/ height + 1 < swaps[s].locktime
             \/ ~(Present(Main(s)) \/ Present(Prepay(s)))

\* A block confirms every transaction of the mempool.
BlockMined ==
    /\ height < MaxHeight
    /\ Prompt => BlockIsDue
    /\ height' = height + 1
    /\ lockup' = [s \in Swaps |-> IF lockup[s] = "mempool" THEN "confirmed" ELSE lockup[s]]
    /\ spentAt' = [s \in Swaps |-> IF spender[s] # "none" /\ spentAt[s] = 0
                                   THEN height + 1 ELSE spentAt[s]]
    /\ IF stage = "down"
       THEN downtime < MaxDowntime /\ downtime' = downtime + 1
       ELSE downtime' = downtime
    /\ UNCHANGED <<stage, book, cln, cltv, request, callbacks, expired, lock, pass,
                   swapVars, taskVars, fundings, spender, faults>>

\* The client claims the lockup output with the preimage, in time or late; its
\* transaction may replace a refund that is not confirmed.
ClientClaims(s) ==
    /\ lockup[s] # "none" /\ spentAt[s] = 0 /\ spender[s] # "claim"
    /\ spender' = [spender EXCEPT ![s] = "claim"]
    /\ UNCHANGED <<invoiceVars, swapVars, taskVars, lockup, fundings, spentAt, faultVars>>

-----------------------------------------------------------------------------
(* Crash and restart *)

\* The process ends; what it has not stored is lost, and so are answers that
\* lightningd has not acted upon.
Crash ==
    /\ Running
    /\ Fault("crash")
    /\ stage' = "down"
    /\ hold' = diskHold /\ older' = diskOlder /\ swaps' = diskSwaps
    /\ request' = [h \in Htlcs |-> "none"]
    /\ callbacks' = {} /\ watched' = {} /\ creating' = {} /\ due' = {} /\ claim' = {}
    /\ pass' = {} /\ hook' = {} /\ expiring' = {} /\ handling' = {}
    /\ UNCHANGED <<height, diskHold, diskOlder, cln, cltv, expired, diskSwaps, created,
                   offered, lastHeight, chainVars>>

\* CLNLightning.run: the expiry and callback threads start, then the hook.
RestartLightning ==
    /\ stage = "down"
    /\ stage' = "lightning"
    /\ UNCHANGED <<height, book, cln, cltv, request, callbacks, expired, lock, pass,
                   swapVars, taskVars, chainVars, faultVars>>

Replayed(h) == cln[h] = "held" => request[h] \notin {"none", "asked"}

\* SwapManager.__init__ and the start of main_loop: swaps whose hold invoice is
\* gone are dropped, the others get their callbacks, and all chain callbacks
\* are called once.
RestartSwaps ==
    /\ stage = "lightning"
    /\ ReplayFirst => \A h \in Htlcs : Replayed(h)
    /\ stage' = "up"
    /\ LET open == {s \in Swaps : swaps[s].known /\ ~swaps[s].redeemed}
           kept == {s \in open : Present(Main(s))} IN
       /\ swaps' = [s \in Swaps |-> IF s \in open \ kept THEN [swaps[s] EXCEPT !.known = FALSE]
                                                      ELSE swaps[s]]
       /\ callbacks' = kept
       /\ watched' = kept
       /\ due' = kept
    /\ lastHeight' = height
    /\ UNCHANGED <<height, book, cln, cltv, request, expired, lock, pass, diskSwaps,
                   requestVars, claim, chainVars, faultVars>>

-----------------------------------------------------------------------------
(* The system *)

\* A thread of CLNLightning moves and does not write.
Quiet == UNCHANGED <<swapVars, taskVars, chainVars, faultVars>>
\* It writes, and with its own patches the pending ones of the swap entries.
Writes == ThreadWrites /\ UNCHANGED <<taskVars, chainVars, faultVars>>

Init ==
    /\ stage = "up" /\ height = StartHeight /\ lastHeight = StartHeight
    /\ hold = [status |-> [i \in Hashes |-> "absent"], htlcs |-> [h \in Htlcs |-> "none"]]
    /\ diskHold = hold
    /\ older = {} /\ diskOlder = {}
    /\ cln = [h \in Htlcs |-> "none"]
    /\ cltv = [h \in Htlcs |-> 0]
    /\ request = [h \in Htlcs |-> "none"]
    /\ callbacks = {} /\ expired = {} /\ pass = {}
    /\ hook = {} /\ expiring = {} /\ handling = {}
    /\ swaps = [s \in Swaps |-> NoSwap] /\ diskSwaps = swaps
    /\ created = 0 /\ creating = {} /\ offered = {} /\ watched = {}
    /\ due = {} /\ claim = {}
    /\ lockup = [s \in Swaps |-> "none"] /\ fundings = [s \in Swaps |-> 0]
    /\ spender = [s \in Swaps |-> "none"] /\ spentAt = [s \in Swaps |-> 0]
    /\ faults = 0 /\ downtime = 0

HookMoves ==
    \E h \in Htlcs :
       \/ HookContinues(h) /\ Quiet
       \/ HookReplaces(h) /\ Quiet
       \/ HookRejects(h) /\ Quiet
       \/ HookAccepts(h) /\ Quiet
       \/ HookSaves(h) /\ Writes
       \/ HookSaveRaises(h) /\ Quiet

MonitorMoves ==
    \E i \in Hashes :
       \/ MonitorCancels(i) /\ Quiet
       \/ MonitorCancelRaises(i) /\ Quiet
       \/ MonitorDeletes(i) /\ Writes

HandlerMoves ==
    \/ PassStarts /\ Quiet
    \/ \E s \in Swaps :
          \/ HandlerForgets(s) /\ Quiet
          \/ HandlerSkips(s) /\ Quiet
          \/ HandlerRaises(s) /\ Quiet
          \/ HandlerSettles(s) /\ Quiet
          \/ HandlerSettleRaises(s) /\ Quiet
          \/ HandlerSaves(s) /\ Writes
          \/ CallbackReturns(s)
          \/ CallbackCreatesTx(s)
          \/ CallbackRaises(s)
          \/ CallbackBroadcasts(s)
          \/ CallbackBroadcastFails(s)

ClaimMoves ==
    \/ MonitorPolls
    \/ \E s \in Swaps : ClaimReads(s) \/ ClaimSkips(s)
    \/ \E c \in claim :
          \/ ClaimUnfunded(c.swap, c)
          \/ ClaimDrops(c.swap, c)
          \/ FinishSettles(c.swap, c)
          \/ FinishRaises(c.swap, c)
          \/ ClaimSeesRefund(c.swap, c)
          \/ ClaimRefunds(c.swap, c)
          \/ FinishCleansUp(c)

ClnMoves ==
    \E h \in Htlcs :
       \/ InvoiceOf[h][1] \in offered /\ (\E d \in CltvDeltas : HtlcArrives(h, d)) /\ Quiet
       \/ HtlcReplayed(h) /\ Quiet
       \/ ClnCommits(h) /\ Quiet
       \/ HtlcTimesOut(h) /\ Quiet

CreateMoves == \E s \in Swaps : CreateInvoices(s) \/ CreateRegisters(s)

Next ==
    \/ CreateMoves
    \/ HookMoves
    \/ MonitorMoves
    \/ HandlerMoves
    \/ ClaimMoves
    \/ ClnMoves
    \/ \E s \in Swaps : InvoicesExpire(s) /\ Quiet
    \/ \E s \in Swaps : ClientClaims(s)
    \/ BlockMined
    \/ Crash
    \/ RestartLightning
    \/ RestartSwaps

Spec == Init /\ [][Next]_vars

\* Each thread of the plugin and the asyncio loop keep running, lightningd acts
\* upon answers, blocks are mined and invoices expire. Senders and clients owe
\* nothing, and nothing has to fail.
Fairness ==
    /\ WF_vars(\E s \in Swaps : CreateRegisters(s))
    /\ WF_vars(HookMoves)
    /\ WF_vars(MonitorMoves)
    /\ WF_vars(HandlerMoves)
    /\ WF_vars(ClaimMoves)
    /\ \A h \in Htlcs : WF_vars(ClnCommits(h) /\ Quiet) /\ WF_vars(HtlcReplayed(h) /\ Quiet)
    /\ WF_vars(\E s \in Swaps : InvoicesExpire(s) /\ Quiet)
    /\ WF_vars(BlockMined)
    /\ WF_vars(RestartLightning)
    /\ WF_vars(RestartSwaps)

FairSpec == Spec /\ Fairness

-----------------------------------------------------------------------------
(* Properties *)

\* Every variable has its type.
TypeOK == InvoiceTypeOK /\ SwapTypeOK

\* The HTLCs of hash i that reached the node and that the provider has not
\* given back are worth the invoice.
Kept(i) == {h \in HtlcsOf(i) : /\ cln[h] \notin {"none", "failed"}
                              /\ request[h] \notin {"fail", "continue"}}
Unspent(s) == lockup[s] # "none" /\ spender[s] = "none"

\* As long as the client can still claim the lockup output, none of the three
\* threads of CLNLightning gives back the HTLCs that pay for it.
KeepsWhatPays == \A s \in Swaps : Unspent(s) => Kept(Main(s)) \in Covering[Main(s)]

\* A provider that has taken the mining fees has taken the swap payment too.
PrepayBuysSwap ==
    \A s \in Swaps, h \in Htlcs :
       InvoiceOf[h] = Prepay(s) /\ (request[h] = "resolve" \/ cln[h] = "fulfilled")
          => Kept(Main(s)) \in Covering[Main(s)]

\* No swap is funded twice, whatever is lost in a crash.
FundedOnce == \A s \in Swaps : fundings[s] <= 1

\* The settled prepay invoice is what keeps a restarted plugin from funding
\* again, so it is stored before the funding transaction is published.
SettledBeforeFunded ==
    \A s \in Swaps : fundings[s] > 0 => diskHold.status[Prepay(s)] \in {"SETTLED", "absent"}

\* The HTLCs of a swap are resolved only if the client's claim is public.
ResolvedOnlyIfClaimed ==
    \A s \in Swaps, h \in Htlcs :
       InvoiceOf[h] = Main(s) /\ (request[h] = "resolve" \/ cln[h] = "fulfilled")
          => spender[s] = "claim"

\* The key for the refund is stored as long as the lockup output is unspent.
RefundKeyStored == \A s \in Swaps : Unspent(s) => diskSwaps[s].known

\* As long as no call has failed, a running plugin watches an unspent lockup
\* output.
LockupWatched ==
    faults = 0 => \A s \in Swaps : stage = "up" /\ Unspent(s) => s \in watched

\* Every HTLC that pays a swap outlives its locktime by the margin the
\* constants leave.
HtlcsOutliveLocktime ==
    \A s \in Swaps : \A h \in Accepted(Main(s)) :
       swaps[s].known => cltv[h] - swaps[s].locktime >= MinFinalCltv - LocktimeDelta

\* As long as no call has failed the provider does not lose: once the client
\* has claimed, HTLCs worth the swap are fulfilled or can still be.
NoProviderLoss ==
    faults = 0 => \A s \in Swaps : spender[s] = "claim" =>
       {h \in HtlcsOf(Main(s)) : cln[h] \in {"held", "fulfilled"}} \in Covering[Main(s)]

-----------------------------------------------------------------------------
(* Refinement *)

Resolved(i) == \E h \in HtlcsOf(i) : request[h] = "resolve" \/ cln[h] = "fulfilled"

\* The provider has settled the prepay invoice of s; that of a funded swap may be
\* deleted already.
Sold(s) == hold.status[Prepay(s)] = "SETTLED" \/ lockup[s] # "none"

\* An HTLC of hash i is fulfilled, or the answer that fulfils it is on its way;
\* one that has timed out is not fulfilled by any answer.
Fulfils(i) ==
    \E h \in HtlcsOf(i) : cln[h] = "fulfilled" \/ (request[h] = "resolve" /\ cln[h] = "held")

Paid(s) == Kept(Main(s)) \in Covering[Main(s)]
FeePaid(s) == Resolved(Prepay(s)) \/ Sold(s)

Abstract == INSTANCE AtomicSwap WITH
    paid    <- [s \in Swaps |-> Paid(s)],
    feePaid <- [s \in Swaps |-> FeePaid(s)],
    locked  <- [s \in Swaps |-> lockup[s] # "none"],
    spentBy <- [s \in Swaps |-> IF spender[s] = "none" THEN "nobody" ELSE spender[s]],
    settled <- [s \in Swaps |-> Fulfils(Main(s))]

\* Seen from outside, threads, polls, failing calls and the order of blocks do
\* not change the order of the exchange: payment, fees, lockup, and then claim
\* and settlement or refund.
ImplementsAtomicSwap == Abstract!Spec

-----------------------------------------------------------------------------
(* Liveness, under FairSpec *)

MoreBlocks == height < MaxHeight

\* A claim that the chain shows ends with the HTLCs worth the swap fulfilled.
ClaimIsSettled ==
    \A s \in Swaps : (spender[s] = "claim" /\ MoreBlocks) ~>
       ({h \in HtlcsOf(Main(s)) : cln[h] = "fulfilled"} \in Covering[Main(s)])

\* A lockup output does not stay unspent past its locktime.
LockupIsSpent ==
    \A s \in Swaps : (Unspent(s) /\ height >= swaps[s].locktime /\ MoreBlocks) ~> ~Unspent(s)

\* A client who has paid both invoices gets the swap funded.
PaidIsFunded == \A s \in Swaps : BothFunded(s) ~> fundings[s] > 0
=============================================================================
