---------------------------- MODULE ReverseSwap -----------------------------
(***************************************************************************)
(* SwapManager, reverse swaps ("normal" for the client): the provider      *)
(* picks the preimage, the client sends a hold invoice with its hash, the  *)
(* provider pays it and retries until the invoice expires, the client      *)
(* funds the lockup output, the provider claims that with the preimage,    *)
(* and the client settles; or the locktime passes and the client takes     *)
(* the lockup output back.  Everything runs in the asyncio loop: tasks     *)
(* interleave where they await.  Client, lightningd and chain move on      *)
(* their own.                                                              *)
(***************************************************************************)
EXTENDS Naturals, FiniteSets

CONSTANTS
    Swaps,
    StartHeight,    \* block height of the initial states
    MaxHeight,      \* bound: block height
    LocktimeDelta,  \* LOCKTIME_DELTA_REFUND
    RedeemDelay,    \* REDEEM_AFTER_DOUBLE_SPENT_DELAY
    MaxSubmits,     \* bound: addswapinvoice requests of one swap
    Faults,         \* which faults happen: a subset of {"crash", "rpc"}
    MaxFaults,      \* bound: faults in a run
    Prompt          \* blocks are slower than the work of the plugin

Heights == 0..MaxHeight

ASSUME ReverseAssumption ==
    /\ StartHeight \in 1..MaxHeight /\ MaxHeight \in Nat
    /\ LocktimeDelta \in Nat /\ RedeemDelay \in Nat
    /\ MaxSubmits \in Nat /\ MaxFaults \in Nat
    /\ Faults \subseteq {"crash", "rpc"} /\ Prompt \in BOOLEAN

VARIABLES
    up,           \* the plugin runs
    listening,    \* check_direct_messages runs
    swaps,        \* self.swaps: the SwapData objects and which are keys
    invoices,     \* keys of CLNLightning._invoices
    diskSwaps,    \* swaps, as stored
    diskInvoices, \* invoices, as stored
    queue,        \* invoices_to_pay: "absent", "ready", "locked"
    paying,       \* calls of lightningd's pay in progress
    creating,     \* create_reverse_swap past its read of the height
    watched,      \* keys of ChainMonitor.callbacks
    due,          \* callbacks left to call in the running trigger_callbacks
    claim,        \* the _claim_swap in progress, past its reads
    lastHeight,   \* last_height of monitoring_loop
    offered,      \* locktime of the lockup script the client has been sent, or 0
    submits,      \* addswapinvoice requests so far
    expired,      \* swaps whose invoice has expired
    ln,           \* the payment of the invoice: "none", "pending", "complete"
    height,       \* height of the chain
    output,       \* the outputs at the lockup address
    revealed,     \* swaps whose preimage has been in a published transaction
    faults        \* faults so far

storeVars == <<swaps, invoices, diskSwaps, diskInvoices>>
taskVars == <<queue, paying, creating, watched, due, claim, lastHeight>>
lnVars == <<offered, submits, expired, ln>>
chainVars == <<height, output, revealed>>
vars == <<up, listening, storeVars, taskVars, lnVars, chainVars, faults>>

\* preimage and privkey are set from the start and never change.
SwapData == [known : BOOLEAN,      \* is a key of self.swaps
             locktime : Nat,
             funded : BOOLEAN,     \* funding_txid is set
             spent : BOOLEAN,      \* spending_txid is set
             redeemed : BOOLEAN]   \* is_redeemed
NoSwap == [known |-> FALSE, locktime |-> 0, funded |-> FALSE,
           spent |-> FALSE, redeemed |-> FALSE]

\* Outputs the client may make: below and at least swap.onchain_amount.
Values == {"low", "full"}
Outputs == [sent : BOOLEAN,        \* it exists
            minedAt : Heights,     \* its block, 0 in the mempool
            spender : {"none", "claim", "refund"},
            spentAt : Heights]     \* the block of its spender, 0 in the mempool
NoOutput == [sent |-> FALSE, minedAt |-> 0, spender |-> "none", spentAt |-> 0]

\* A task whose call of pay made the payment attempt, and one that found it made.
Roles == {"first", "later"}

\* _claim_swap after get_addr_outputs, and after get_tx_height.
Reads == [swap : Swaps, step : {"act", "spend"}, height : Heights,
          value : Values \cup {"none"},
          spender : {"none", "claim", "refund"}, spentAt : Heights]

TypeOK ==
    /\ up \in BOOLEAN /\ listening \in BOOLEAN
    /\ swaps \in [Swaps -> SwapData] /\ diskSwaps \in [Swaps -> SwapData]
    /\ invoices \in SUBSET Swaps /\ diskInvoices \in SUBSET Swaps
    /\ queue \in [Swaps -> {"absent", "ready", "locked"}]
    /\ paying \in [Swaps -> [Roles -> Nat]]
    /\ creating \in SUBSET (Swaps \X Heights)
    /\ watched \in SUBSET Swaps /\ due \in SUBSET Swaps
    /\ claim \in SUBSET Reads /\ lastHeight \in Heights
    /\ offered \in [Swaps -> Nat] /\ submits \in [Swaps -> Nat]
    /\ expired \in SUBSET Swaps
    /\ ln \in [Swaps -> {"none", "pending", "complete"}]
    /\ height \in Heights /\ output \in [Swaps -> [Values -> Outputs]]
    /\ revealed \in SUBSET Swaps /\ faults \in Nat

-----------------------------------------------------------------------------
(* Storage and faults *)

\* JsonDB.write, with all pending patches.
Write == diskSwaps' = swaps' /\ diskInvoices' = invoices'
NoWrite == UNCHANGED <<diskSwaps, diskInvoices>>

Fault(kind) ==
    /\ kind \in Faults /\ faults < MaxFaults
    /\ faults' = faults + 1

\* Mutant of FailSwap: the invoice stays.
FailSwapKeepsInvoice(s, sw) ==
    LET pops == ~sw.funded \/ sw.redeemed IN
    /\ invoices' = invoices
    /\ queue' = [queue EXCEPT ![s] = "absent"]
    /\ watched' = watched \ {s}
    /\ swaps' = [swaps EXCEPT ![s] = [sw EXCEPT !.known = @ /\ ~pops]]
    /\ IF pops /\ ~sw.known THEN NoWrite ELSE Write

\* _fail_swap, with the fields of the SwapData its caller has set. Popping an
\* entry that is gone raises, and nothing is written.
FailSwap(s, sw) ==
    LET pops == ~sw.funded \/ sw.redeemed IN
    /\ invoices' = invoices \ {s}
    /\ queue' = [queue EXCEPT ![s] = "absent"]
    /\ watched' = watched \ {s}
    /\ swaps' = [swaps EXCEPT ![s] = [sw EXCEPT !.known = @ /\ ~pops]]
    /\ IF pops /\ ~sw.known THEN NoWrite ELSE Write

-----------------------------------------------------------------------------
(* Requests *)

\* create_reverse_swap up to `await register_address`: the height is read.
CreateReads(s) ==
    /\ up /\ listening /\ creating = {}
    /\ offered[s] = 0 /\ ~swaps[s].known
    /\ creating' = {<<s, height>>}
    /\ UNCHANGED <<up, listening, storeVars, queue, paying, watched, due, claim,
                   lastHeight, lnVars, chainVars, faults>>

\* After it the swap is added and watched, and the client gets its data.
\* Nothing is written.
CreateRegisters(s) ==
    \E h \in Heights :
       /\ <<s, h>> \in creating
       /\ creating' = {}
       /\ swaps' = [swaps EXCEPT ![s] = [NoSwap EXCEPT !.known = TRUE,
                                                       !.locktime = h + LocktimeDelta]]
       /\ watched' = watched \cup {s}
       /\ offered' = [offered EXCEPT ![s] = h + LocktimeDelta]
       /\ UNCHANGED <<up, listening, invoices, diskSwaps, diskInvoices, queue, paying,
                      due, claim, lastHeight, submits, expired, ln, chainVars, faults>>

\* bitcoind does not answer: this exception, too, ends check_direct_messages.
CreateRaises ==
    /\ creating # {}
    /\ creating' = {} /\ listening' = FALSE
    /\ Fault("rpc")
    /\ UNCHANGED <<up, storeVars, queue, paying, watched, due, claim, lastHeight,
                   lnVars, chainVars>>

\* An addswapinvoice request of s reaches the handler; a client may repeat it.
Submitted(s) ==
    /\ up /\ listening /\ creating = {}
    /\ offered[s] > 0 /\ submits[s] < MaxSubmits
    /\ submits' = [submits EXCEPT ![s] = @ + 1]
    /\ UNCHANGED <<up, paying, creating, watched, due, claim, lastHeight,
                   offered, expired, ln, chainVars, faults>>

\* Mutant of AddInvoice: save_invoice does not write.
AddInvoiceUnwritten(s) ==
    /\ Submitted(s)
    /\ swaps[s].known /\ ~swaps[s].spent
    /\ invoices' = invoices \cup {s}
    /\ queue' = [queue EXCEPT ![s] = "ready"]
    /\ UNCHANGED <<listening, swaps, diskSwaps, diskInvoices>>

\* server_add_swap_invoice: save_invoice writes, and the payment is queued
\* even if it is queued, locked or in progress.
AddInvoice(s) ==
    /\ Submitted(s)
    /\ swaps[s].known /\ ~swaps[s].spent
    /\ invoices' = invoices \cup {s}
    /\ swaps' = swaps
    /\ Write
    /\ queue' = [queue EXCEPT ![s] = "ready"]
    /\ UNCHANGED listening

\* The lockup output is spent already. The assertion fails after the invoice
\* was saved; the exception ends check_direct_messages for good.
AddInvoiceLate(s) ==
    /\ Submitted(s)
    /\ swaps[s].known /\ swaps[s].spent
    /\ invoices' = invoices \cup {s}
    /\ swaps' = swaps
    /\ Write
    /\ listening' = FALSE
    /\ UNCHANGED queue

\* There is no such swap (any more): the same with the first assertion.
AddInvoiceUnknown(s) ==
    /\ Submitted(s)
    /\ ~swaps[s].known
    /\ listening' = FALSE
    /\ UNCHANGED <<storeVars, queue>>

-----------------------------------------------------------------------------
(* pay_pending_ln_invoices and pay_pending_ln_invoice *)

\* Mutant of LockQueue: the entry is not locked.
LeaveQueue(s) == queue' = queue

\* invoices_to_pay[key] = 1000000000000
LockQueue(s) == queue' = [queue EXCEPT ![s] = "locked"]

\* The time of an entry has come: the entry is locked and lightningd asked to
\* pay. (The look at listpays before that finds nothing: the answer has no key
\* "status", and the exception is dropped.) lightningd pays a hash once.
PayStarts(s) ==
    /\ up /\ queue[s] = "ready" /\ s \in invoices
    /\ LockQueue(s)
    /\ LET role == IF ln[s] = "none" THEN "first" ELSE "later" IN
       paying' = [paying EXCEPT ![s][role] = @ + 1]
    /\ ln' = [ln EXCEPT ![s] = IF @ = "none" THEN "pending" ELSE @]
    /\ UNCHANGED <<up, listening, storeVars, creating, watched, due, claim, lastHeight,
                   offered, submits, expired, chainVars, faults>>

\* InvoiceNotFoundError: the swap is failed if there still is one; if not, the
\* entry stays locked.
PayRaises(s) ==
    /\ up /\ queue[s] = "ready" /\ s \notin invoices
    /\ IF swaps[s].known THEN FailSwap(s, swaps[s])
       ELSE LockQueue(s) /\ UNCHANGED <<storeVars, watched>>
    /\ UNCHANGED <<up, listening, paying, creating, due, claim, lastHeight,
                   lnVars, chainVars, faults>>

\* Mutant of Waits: one answer too many.
WaitsLonger(s, r) == up /\ paying[s][r] >= 0

\* A task with this role waits for lightningd.
Waits(s, r) == up /\ paying[s][r] > 0

\* pay returns the preimage.
PaySucceeds(s, r) ==
    /\ Waits(s, r)
    /\ ln[s] = "complete"
    /\ paying' = [paying EXCEPT ![s][r] = @ - 1]
    /\ queue' = [queue EXCEPT ![s] = "absent"]
    /\ invoices' = invoices \ {s} /\ swaps' = swaps
    /\ IF s \in invoices THEN Write ELSE NoWrite
    /\ UNCHANGED <<up, listening, creating, watched, due, claim, lastHeight, lnVars,
                   chainVars, faults>>

\* The attempt has failed, or another call is making one.
PayRefused(s, r) ==
    \/ ln[s] = "none"
    \/ ln[s] = "pending" /\ (r = "later" \/ paying[s]["first"] > 1)

\* pay returns an error: the swap is failed if the invoice has expired, else the
\* payment is due again in a minute, even if the swap has been failed meanwhile.
PayFails(s, r) ==
    /\ Waits(s, r)
    /\ (PayRefused(s, r) /\ faults' = faults) \/ Fault("rpc")
    /\ paying' = [paying EXCEPT ![s][r] = @ - 1]
    /\ \/ /\ s \notin expired
          /\ queue' = [queue EXCEPT ![s] = "ready"]
          /\ UNCHANGED <<storeVars, watched>>
       \/ /\ s \in expired /\ swaps[s].known
          /\ FailSwap(s, swaps[s])
       \/ /\ s \in expired /\ ~swaps[s].known
          /\ UNCHANGED <<queue, storeVars, watched>>
    /\ UNCHANGED <<up, listening, creating, due, claim, lastHeight, lnVars, chainVars>>

-----------------------------------------------------------------------------
(* ChainMonitor.monitoring_loop, trigger_callbacks and _claim_swap *)

\* A new block is seen and every chain callback is called, one at a time.
MonitorPolls ==
    /\ up /\ due = {} /\ claim = {} /\ height > lastHeight
    /\ lastHeight' = height
    /\ due' = watched
    /\ UNCHANGED <<up, listening, storeVars, queue, paying, creating, watched, claim,
                   lnVars, chainVars, faults>>

\* Mutant of Enough: any output counts.
EnoughAny(s, v) == output[s][v].sent

\* The output is not below the amount, so that the preimage may be revealed for it.
Enough(s, v) == output[s][v].sent /\ v = "full"

\* The output _claim_swap goes by. Unspent outputs come first in
\* get_addr_outputs. Those of spent ones are in satoshi where bitcoin is
\* expected, so that every spent output has enough.
Chosen(s, v) ==
    LET unspent == {w \in Values : Enough(s, w) /\ output[s][w].spender = "none"}
        spent == {w \in Values : output[s][w].spender # "none"} IN
    \/ v \in unspent
    \/ unspent = {} /\ v \in spent
    \/ unspent \cup spent = {} /\ v = "none"

\* _claim_swap up to its first awaits after the height and the outputs.
ClaimReads(s) ==
    /\ up /\ claim = {} /\ s \in due
    /\ due' = due \ {s}
    /\ \E v \in Values \cup {"none"} :
          /\ Chosen(s, v)
          /\ claim' = {[swap |-> s, step |-> "act", height |-> height, value |-> v,
                        spender |-> IF v = "none" THEN "none" ELSE output[s][v].spender,
                        spentAt |-> IF v = "none" THEN 0 ELSE output[s][v].spentAt]}
    /\ UNCHANGED <<up, listening, storeVars, queue, paying, creating, watched, lastHeight,
                   lnVars, chainVars, faults>>

\* bitcoind does not answer: the callback is called again with the next block.
ClaimSkips(s) ==
    /\ up /\ claim = {} /\ s \in due
    /\ due' = due \ {s}
    /\ Fault("rpc")
    /\ UNCHANGED <<up, listening, storeVars, queue, paying, creating, watched, claim,
                   lastHeight, lnVars, chainVars>>

At(c, step) == up /\ c \in claim /\ c.step = step
ClaimEnds ==
    /\ claim' = {}
    /\ UNCHANGED <<up, listening, paying, creating, due, lastHeight, lnVars, height>>

\* No output: the swap is failed at its locktime.
ClaimUnfunded(c) ==
    /\ At(c, "act") /\ c.value = "none"
    /\ IF c.height >= swaps[c.swap].locktime
       THEN FailSwap(c.swap, swaps[c.swap])
       ELSE UNCHANGED <<storeVars, queue, watched>>
    /\ ClaimEnds
    /\ UNCHANGED <<output, revealed, faults>>

\* funding_txid is set and the entry added again if it is gone.
ClaimSeesOutput(c) ==
    /\ At(c, "act") /\ c.value # "none"
    /\ swaps' = [swaps EXCEPT ![c.swap].known = TRUE, ![c.swap].funded = TRUE]
    /\ claim' = {[c EXCEPT !.step = "spend"]}
    /\ UNCHANGED <<up, listening, invoices, diskSwaps, diskInvoices, queue, paying,
                   creating, watched, due, lastHeight, lnVars, chainVars, faults>>

\* bitcoind does not answer get_tx_height.
ClaimRaises(c) ==
    /\ At(c, "spend")
    /\ Fault("rpc")
    /\ ClaimEnds
    /\ UNCHANGED <<storeVars, queue, watched, output, revealed>>

\* The output was spent more than RedeemDelay blocks ago.
LongSpent(c) == c.spentAt > 0 /\ c.height - c.spentAt > RedeemDelay

\* Mutant of ClaimDrops: the callback stays.
ClaimDropsEntry(c) ==
    /\ At(c, "spend") /\ LongSpent(c)
    /\ invoices' = invoices \ {c.swap}
    /\ queue' = [queue EXCEPT ![c.swap] = "absent"]
    /\ swaps' = [swaps EXCEPT ![c.swap].spent = TRUE, ![c.swap].redeemed = TRUE,
                              ![c.swap].known = FALSE]
    /\ Write
    /\ ClaimEnds
    /\ UNCHANGED <<watched, output, revealed, faults>>

\* delete_finished_reverse_swap
ClaimDrops(c) ==
    /\ At(c, "spend") /\ LongSpent(c)
    /\ invoices' = invoices \ {c.swap}
    /\ watched' = watched \ {c.swap}
    /\ queue' = [queue EXCEPT ![c.swap] = "absent"]
    /\ swaps' = [swaps EXCEPT ![c.swap].spent = TRUE, ![c.swap].redeemed = TRUE,
                              ![c.swap].known = FALSE]
    /\ Write
    /\ ClaimEnds
    /\ UNCHANGED <<output, revealed, faults>>

\* spending_txid is set as soon as there is a spender.
SetsSpent(c) ==
    /\ swaps' = [swaps EXCEPT ![c.swap].spent = TRUE]
    /\ UNCHANGED <<invoices, diskSwaps, diskInvoices, queue, watched>>

ClaimSeesSpender(c) ==
    /\ At(c, "spend") /\ c.spender # "none" /\ ~LongSpent(c)
    /\ SetsSpent(c)
    /\ ClaimEnds
    /\ UNCHANGED <<output, revealed, faults>>

\* Mutant of Confirmed: the claim waits for one block more.
ConfirmedTwice(s, v) == output[s][v].minedAt > 0 /\ height > output[s][v].minedAt

\* funding_height.conf > 0
Confirmed(s, v) == output[s][v].minedAt > 0

\* The output is unspent: the claim transaction is signed, which sets
\* spending_txid, and sent when the output is confirmed. bitcoind takes it if
\* nothing else spends the output. The locktime is not looked at.
ClaimSpends(c) ==
    /\ At(c, "spend") /\ c.spender = "none"
    /\ SetsSpent(c)
    /\ ClaimEnds
    /\ IF Confirmed(c.swap, c.value) /\ output[c.swap][c.value].spender = "none"
       THEN \/ /\ output' = [output EXCEPT ![c.swap][c.value].spender = "claim"]
               /\ revealed' = revealed \cup {c.swap}
               /\ faults' = faults
            \/ Fault("rpc") /\ UNCHANGED <<output, revealed>>
       ELSE UNCHANGED <<output, revealed, faults>>

-----------------------------------------------------------------------------
(* Client, lightningd and chain *)

\* The client funds the lockup output, with enough or less, early or late.
ClientFunds(s, v) ==
    /\ offered[s] > 0 /\ ~output[s][v].sent
    /\ output' = [output EXCEPT ![s][v].sent = TRUE]
    /\ UNCHANGED <<up, listening, storeVars, taskVars, lnVars, height, revealed, faults>>

\* From the locktime on the client may take an output back; its transaction
\* may replace a claim that is not confirmed.
ClientRefunds(s, v) ==
    /\ output[s][v].minedAt > 0 /\ output[s][v].spentAt = 0
    /\ output[s][v].spender # "refund"
    /\ height >= offered[s]
    /\ output' = [output EXCEPT ![s][v].spender = "refund"]
    /\ UNCHANGED <<up, listening, storeVars, taskVars, lnVars, height, revealed, faults>>

\* The client settles the payment with the preimage it has seen.
ClientSettles(s) ==
    /\ ln[s] = "pending" /\ s \in revealed
    /\ ln' = [ln EXCEPT ![s] = "complete"]
    /\ UNCHANGED <<up, listening, storeVars, taskVars, offered, submits, expired,
                   chainVars, faults>>

\* There is no route, the client refuses, or the HTLC times out.
PaymentFails(s) ==
    /\ ln[s] = "pending"
    /\ ln' = [ln EXCEPT ![s] = "none"]
    /\ UNCHANGED <<up, listening, storeVars, taskVars, offered, submits, expired,
                   chainVars, faults>>

InvoiceExpires(s) ==
    /\ submits[s] > 0 /\ s \notin expired
    /\ expired' = expired \cup {s}
    /\ UNCHANGED <<up, listening, storeVars, taskVars, offered, submits, ln,
                   chainVars, faults>>

\* Ten minutes between blocks against polls of 10 seconds.
LoopIdle == creating = {} /\ due = {} /\ claim = {} /\ lastHeight = height

\* A block confirms every transaction of the mempool.
BlockMined ==
    /\ height < MaxHeight
    /\ Prompt => ~up \/ LoopIdle
    /\ height' = height + 1
    /\ output' = [s \in Swaps |-> [v \in Values |->
          [output[s][v] EXCEPT
             !.minedAt = IF output[s][v].sent /\ @ = 0 THEN height + 1 ELSE @,
             !.spentAt = IF output[s][v].spender # "none" /\ @ = 0 THEN height + 1 ELSE @]]]
    /\ UNCHANGED <<up, listening, storeVars, taskVars, lnVars, revealed, faults>>

-----------------------------------------------------------------------------
(* Crash and restart *)

\* lightningd goes on with the payments it has begun.
Crash ==
    /\ up
    /\ Fault("crash")
    /\ up' = FALSE /\ listening' = FALSE
    /\ swaps' = diskSwaps /\ invoices' = diskInvoices
    /\ queue' = [s \in Swaps |-> "absent"]
    /\ paying' = [s \in Swaps |-> [r \in Roles |-> 0]]
    /\ creating' = {} /\ watched' = {} /\ due' = {} /\ claim' = {}
    /\ UNCHANGED <<diskSwaps, diskInvoices, lastHeight, lnVars, chainVars>>

\* Mutant of Restart: only swaps with a funding transaction are watched.
RestartFunded ==
    /\ ~up
    /\ up' = TRUE /\ listening' = TRUE
    /\ watched' = {s \in Swaps : swaps[s].known /\ swaps[s].funded}
    /\ due' = watched'
    /\ lastHeight' = height
    /\ UNCHANGED <<storeVars, queue, paying, creating, claim, lnVars, chainVars, faults>>

\* SwapManager.__init__ and main_loop: every open swap is watched, all chain
\* callbacks are called once, and invoices_to_pay starts empty.
Restart ==
    /\ ~up
    /\ up' = TRUE /\ listening' = TRUE
    /\ watched' = {s \in Swaps : swaps[s].known /\ ~swaps[s].redeemed}
    /\ due' = watched'
    /\ lastHeight' = height
    /\ UNCHANGED <<storeVars, queue, paying, creating, claim, lnVars, chainVars, faults>>

-----------------------------------------------------------------------------
(* The system *)

Init ==
    /\ up = TRUE /\ listening = TRUE
    /\ swaps = [s \in Swaps |-> NoSwap] /\ diskSwaps = swaps
    /\ invoices = {} /\ diskInvoices = {}
    /\ queue = [s \in Swaps |-> "absent"]
    /\ paying = [s \in Swaps |-> [r \in Roles |-> 0]]
    /\ creating = {} /\ watched = {} /\ due = {} /\ claim = {}
    /\ height = StartHeight /\ lastHeight = StartHeight
    /\ offered = [s \in Swaps |-> 0] /\ submits = [s \in Swaps |-> 0] /\ expired = {}
    /\ ln = [s \in Swaps |-> "none"]
    /\ output = [s \in Swaps |-> [v \in Values |-> NoOutput]]
    /\ revealed = {} /\ faults = 0

RequestMoves ==
    \/ \E s \in Swaps :
          CreateReads(s) \/ AddInvoice(s) \/ AddInvoiceLate(s) \/ AddInvoiceUnknown(s)
    \/ CreateRaises
PayMoves(s) ==
    \/ PayStarts(s)
    \/ PayRaises(s)
    \/ \E r \in Roles : PaySucceeds(s, r) \/ PayFails(s, r)
ClaimMoves ==
    \/ MonitorPolls
    \/ \E s \in Swaps : ClaimReads(s) \/ ClaimSkips(s)
    \/ \E c \in claim :
          \/ ClaimUnfunded(c)
          \/ ClaimSeesOutput(c)
          \/ ClaimRaises(c)
          \/ ClaimDrops(c)
          \/ ClaimSeesSpender(c)
          \/ ClaimSpends(c)
ClientMoves(s) ==
    \/ \E v \in Values : ClientFunds(s, v) \/ ClientRefunds(s, v)
    \/ ClientSettles(s)
    \/ PaymentFails(s)
    \/ InvoiceExpires(s)

Next ==
    \/ RequestMoves
    \/ \E s \in Swaps : CreateRegisters(s)
    \/ \E s \in Swaps : PayMoves(s)
    \/ ClaimMoves
    \/ \E s \in Swaps : ClientMoves(s)
    \/ BlockMined
    \/ Crash
    \/ Restart

Spec == Init /\ [][Next]_vars

\* The asyncio loop runs, blocks are mined, a pending payment is settled or
\* fails at the latest when its HTLC times out, and invoices expire. Clients
\* need not ask for, submit or fund anything.
Fairness ==
    /\ WF_vars(\E s \in Swaps : CreateRegisters(s))
    /\ \A s \in Swaps : WF_vars(PayMoves(s))
    /\ WF_vars(ClaimMoves)
    /\ WF_vars(BlockMined)
    /\ WF_vars(Restart)
    /\ \A s \in Swaps : /\ WF_vars(ClientSettles(s) \/ PaymentFails(s))
                        /\ WF_vars(InvoiceExpires(s))

FairSpec == Spec /\ Fairness

-----------------------------------------------------------------------------
(* Properties *)

\* The preimage is shown only for a confirmed output that is worth it,
\* whatever else is paid to the lockup address or spent from it.
RevealedForPayment == \A s \in revealed : output[s]["full"].minedAt > 0

Timely(s) == output[s]["full"].minedAt \in 1..(offered[s] - 1)

\* If the client funds in time, a preimage once shown is paid for: the client
\* cannot take the output back and settle the payment too.
NoProviderLoss ==
    faults = 0 => \A s \in revealed : Timely(s) => output[s]["full"].spender = "claim"

Tasks(s) == paying[s]["first"] + paying[s]["later"]

\* The lock of invoices_to_pay: retries never add calls of pay, each one goes
\* back to a request of the client.
OneCallPerSubmit ==
    \A s \in Swaps : Tasks(s) + (IF queue[s] = "ready" THEN 1 ELSE 0) <= submits[s]

\* A payment is only begun when a crash cannot lose the preimage and the key
\* that claim what the client will lock for it.
PaysOnlyStoredSwaps ==
    [][\A s \in Swaps : ln[s] = "none" /\ ln'[s] = "pending" => diskSwaps[s].known]_vars

\* Once a client whose invoice is being paid funds in time, the output is
\* claimed, crash or not, unless the swap was failed with the invoice.
FundedIsClaimed ==
    \A s \in Swaps :
       /\ ln[s] = "pending" /\ submits[s] = 1 /\ output[s]["full"].sent
       /\ height + 2 < offered[s] /\ height + 2 < MaxHeight
       ~> output[s]["full"].spender # "none" \/ s \notin invoices

\* The payment of an accepted invoice comes to an end: it is paid, or given up
\* when the invoice has expired.
PaymentEnds ==
    \A s \in Swaps :
       queue[s] # "absent" /\ submits[s] = 1 ~> s \notin invoices \/ faults > 0

Over(s) ==
    /\ \E v \in Values : output[s][v].sent
    /\ \A v \in Values :
          output[s][v].sent => output[s][v].spentAt > 0
                               /\ height - output[s][v].spentAt > RedeemDelay

\* A swap all of whose outputs were spent long ago is watched no more, unless
\* the client makes another one.
WatchEnds == \A s \in Swaps : s \in watched /\ Over(s) /\ height < MaxHeight
                                 ~> s \notin watched \/ ~Over(s)
=============================================================================
