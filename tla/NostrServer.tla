---------------------------- MODULE NostrServer -----------------------------
(***************************************************************************)
(* NostrTransport and the request handlers of SwapManager, on top of the   *)
(* start-up: the loop that updates the prices and publishes them as an     *)
(* offer, the listener that takes one request after the other, and the     *)
(* awaits at which a handler, the loop and a restart of the transport      *)
(* interleave.  Payment and settlement are ForwardSwap and ReverseSwap;    *)
(* here a swap ends where the client has its reply.                        *)
(*                                                                         *)
(* lightningd's answers (fee estimates, channels, outputs) may be any of   *)
(* the instance at every call.                                             *)
(***************************************************************************)
EXTENDS SwapAmounts, HtlcHook

CONSTANTS
    Requests,     \* events clients send
    Request,      \* Requests -> [kind, hash, amount]
    MaxHandled,   \* bound: requests the listener takes
    MaxRestarts,  \* bound: restarts of the transport
    Redelivery,   \* a relay may deliver an event again
    Estimates,    \* answers of lightning-feerates
    Funds         \* answers of lightning-listfunds: [channels, outputs]

Kinds == {"createswap", "createnormalswap", "submarine", "unknown", "malformed", "reply"}
Handled == 1..MaxHandled

ASSUME ServerAssumption ==
    /\ \A r \in Requests : Request[r].kind \in Kinds /\ Request[r].amount \in Nat
    /\ \A r \in Requests : Request[r].hash \notin Handled
    /\ MaxHandled \in Nat /\ MaxRestarts \in Nat /\ Redelivery \in BOOLEAN
    /\ \A estimates \in Estimates : estimates \in Seq([blockcount : Nat, smoothed : Nat \ {0}])

VARIABLES
    server,       \* where run_nostr_server awaits
    restarts,     \* transports given up so far
    initialized,  \* the event is_initialized of SwapManager
    quote,        \* normal_fee, lockup_fee and claim_fee of the last update
    listener,     \* check_direct_messages: "off", "idle", "busy", "ended"
    inbox,        \* events delivered and not taken yet
    sent,         \* events relays have delivered
    handled,      \* requests taken so far
    handler,      \* the request in handle_request and where it awaits
    resolved,     \* dm_replies that have a result
    swaps,        \* self.swaps
    invoices,     \* CLNLightning._hold_invoices of swaps, with the prepay amount
    watched,      \* handlings whose lockup address has its chain callback
    callbacks,    \* keys of _hold_invoice_callbacks
    replies       \* what clients have been sent

loopVars == <<server, restarts, initialized, quote>>
listenVars == <<listener, inbox, sent, handled, handler, resolved>>
bookVars == <<swaps, invoices, watched, callbacks>>
serverVars == <<loopVars, listenVars, bookVars, replies>>
vars == <<startVars, hookVars, serverVars>>

NoQuote == [normal |-> 0, lockup |-> 0, claim |-> 0]

\* What is agreed: the SwapData, the invoices' total, the handling it is from.
NoDeal == [kind |-> "error", token |-> 0, key |-> "none", lightning |-> 0,
           onchain |-> NoAmount, quote |-> NoQuote, price |-> 0]
Idle == [req |-> "none", at |-> "none", deal |-> NoDeal]

ServerInit ==
    /\ server = "off" /\ restarts = 0 /\ initialized = FALSE
    /\ quote = NoQuote
    /\ listener = "off" /\ inbox = {} /\ sent = {} /\ handled = 0
    /\ handler = Idle /\ resolved = {}
    /\ swaps = <<>> /\ invoices = <<>> /\ watched = {} /\ callbacks = {}
    /\ replies = {}

Running == startup = "running"

-----------------------------------------------------------------------------
(* run_nostr_server *)

\* Bound: it runs on from the start-ups that left no HTLC behind, since it
\* shares nothing with the hook but the start-up.
HtlcsThrough == handed = Htlcs

ServerStarts ==
    /\ Running /\ server = "off" /\ HtlcsThrough
    /\ server' = "connecting"
    /\ UNCHANGED <<restarts, initialized, quote, listenVars, bookVars, replies>>

\* The relays answer; the event wakes the loop, and check_direct_messages starts.
Connects ==
    /\ Running /\ server = "connecting"
    /\ server' = "updating"
    /\ listener' = "idle"
    /\ UNCHANGED <<restarts, initialized, quote, inbox, sent, handled, handler, resolved,
                   bookVars, replies>>

\* server_update_pairs, up to the await of publish_offer.
UpdatesPairs ==
    /\ Running /\ server \in {"updating", "resting"}
    /\ \E estimates \in Estimates : quote' = Quote(FeePerKvb(estimates))
    /\ server' = "publishing"
    /\ UNCHANGED <<restarts, initialized, listenVars, bookVars, replies>>

\* Mutant: the event is set by the first transport only.
PublishesOnce ==
    /\ Running /\ server = "publishing"
    /\ initialized' = (restarts = 0)
    /\ server' = "resting"
    /\ UNCHANGED <<restarts, quote, listenVars, bookVars, replies>>

Publishes ==
    /\ Running /\ server = "publishing"
    /\ initialized' = TRUE
    /\ server' = "resting"
    /\ UNCHANGED <<restarts, quote, listenVars, bookVars, replies>>

PublishTimesOut ==
    /\ Running /\ server = "publishing" /\ restarts < MaxRestarts
    /\ restarts' = restarts + 1
    /\ server' = "stopping"
    /\ UNCHANGED <<initialized, quote, listenVars, bookVars, replies>>

\* The stop task of the old transport, done before the new one connects 15
\* seconds later: the handler is cancelled where it awaits.
Stops ==
    /\ Running /\ server = "stopping"
    /\ initialized' = FALSE
    /\ listener' = "off" /\ inbox' = {} /\ handler' = Idle
    /\ server' = "off"
    /\ UNCHANGED <<restarts, quote, sent, handled, resolved, bookVars, replies>>

\* Any other exception leaves main_loop, and with it main.
PublishRaises ==
    /\ Running /\ server = "publishing"
    /\ startup' = "failed"
    /\ server' = "off" /\ initialized' = FALSE
    /\ listener' = "off" /\ inbox' = {} /\ handler' = Idle
    /\ UNCHANGED <<node, restarts, quote, sent, handled, resolved, bookVars, replies>>

-----------------------------------------------------------------------------
(* Clients and relays *)

\* Only new events are delivered: one that is sent without a listener is lost.
\* A relay that repeats one finds nothing that remembers it.
ClientSends(r) ==
    /\ listener \in {"idle", "busy"}
    /\ r \notin inbox /\ Cardinality(inbox) + handled < MaxHandled
    /\ r \in sent => Redelivery
    /\ inbox' = inbox \cup {r}
    /\ sent' = sent \cup {r}
    /\ UNCHANGED <<loopVars, listener, handled, handler, resolved, bookVars, replies>>

-----------------------------------------------------------------------------
(* check_direct_messages and handle_request *)

Takes(r) ==
    /\ Running /\ listener = "idle"
    /\ r \in inbox
    /\ inbox' = inbox \ {r}
    /\ handled' = handled + 1

\* An exception ends the listener, not the transport: offers go on.
Ends ==
    /\ listener' = "ended"
    /\ handler' = Idle

GoesTo(r, at, deal) ==
    /\ listener' = "busy"
    /\ handler' = [req |-> r, at |-> at, deal |-> deal]

TakesReply(r) ==
    /\ Takes(r) /\ Request[r].kind = "reply"
    /\ resolved' = resolved \cup {Request[r].hash}
    /\ IF Request[r].hash \in resolved THEN Ends ELSE UNCHANGED <<listener, handler>>
    /\ UNCHANGED <<loopVars, sent, bookVars, replies>>

TakesMalformed(r) ==
    /\ Takes(r) /\ Request[r].kind = "malformed"
    /\ Ends
    /\ UNCHANGED <<loopVars, sent, resolved, bookVars, replies>>

\* Mutant: an unknown method is left without an answer.
TakesSilently(r) ==
    /\ Takes(r) /\ Request[r].kind \in {"submarine", "unknown"}
    /\ UNCHANGED <<loopVars, listener, handler, sent, resolved, bookVars, replies>>

TakesUnsupported(r) ==
    /\ Takes(r) /\ Request[r].kind \in {"submarine", "unknown"}
    /\ GoesTo(r, "reply", NoDeal)
    /\ UNCHANGED <<loopVars, sent, resolved, bookVars, replies>>

\* The capacity is compared once; what has been agreed before is not deducted.
HasCapacity(r) ==
    \E funds \in Funds :
        IF Request[r].kind = "createswap"
        THEN /\ Receivable(funds.channels) >= Request[r].amount
             /\ BalanceSat(funds.outputs) >= Request[r].amount
        ELSE Sendable(funds.channels) >= Request[r].amount

LacksCapacity(r) ==
    \E funds \in Funds :
        IF Request[r].kind = "createswap"
        THEN \/ Receivable(funds.channels) < Request[r].amount
             \/ BalanceSat(funds.outputs) < Request[r].amount
        ELSE Sendable(funds.channels) < Request[r].amount

TakesSwap(r) ==
    /\ Takes(r) /\ Request[r].kind \in {"createswap", "createnormalswap"}
    /\ HasCapacity(r)
    /\ GoesTo(r, "height", NoDeal)
    /\ UNCHANGED <<loopVars, sent, resolved, bookVars, replies>>

Rejects(r) ==
    /\ Takes(r) /\ Request[r].kind \in {"createswap", "createnormalswap"}
    /\ LacksCapacity(r)
    /\ GoesTo(r, "reply", NoDeal)
    /\ UNCHANGED <<loopVars, sent, resolved, bookVars, replies>>

-----------------------------------------------------------------------------
(* create_normal_swap and create_reverse_swap, between their awaits *)

Awaits(at) == Running /\ handler.at = at

Kind == Request[handler.req].kind
Hash == Request[handler.req].hash
Amount == Request[handler.req].amount

\* lightningd is not in sync for ten minutes, or does not answer.
HeightRaises ==
    /\ Awaits("height") /\ Ends
    /\ UNCHANGED <<loopVars, inbox, sent, handled, resolved, bookVars, replies>>

HoldInvoice(claimFee) ==
    [token |-> handled, amount |-> InvoiceAmount(Amount, claimFee), prepay |-> PrepayAmount(claimFee)]

With(book, key, entry) == [k \in DOMAIN book \cup {key} |-> IF k = key THEN entry ELSE book[k]]

SavesInvoice(claimFee) == invoices' = With(invoices, Hash, HoldInvoice(claimFee))

ClaimFees == {ChainFee(FeePerKvb(estimates), ClaimFeeSize) : estimates \in Estimates}

\* Mutant: without the assertion in b11invoice_from_hash.
PayableAlways(claimFee) == claimFee > 0

Payable(claimFee) == InvoiceAmount(Amount, claimFee) > 0

\* b11invoice_from_hash asserts an amount, or signinvoice fails.
InvoiceRaises ==
    /\ Awaits("height") /\ Kind = "createswap" /\ Ends
    /\ UNCHANGED <<loopVars, inbox, sent, handled, resolved, bookVars, replies>>

\* A call after that fails: the swap invoice is stored, and there is no swap.
PrepayRaises ==
    /\ Awaits("height") /\ Kind = "createswap" /\ Ends
    /\ \E claimFee \in ClaimFees : Payable(claimFee) /\ SavesInvoice(claimFee)
    /\ UNCHANGED <<loopVars, inbox, sent, handled, resolved, swaps, watched, callbacks, replies>>

Deal(key, onchain, price) ==
    [kind |-> Kind, token |-> handled, key |-> key, lightning |-> Amount,
     onchain |-> onchain, quote |-> quote, price |-> price]

\* _add_or_reindex_swap keeps the SwapData a key has.
AddsSwap(deal) ==
    swaps' = IF deal.key \in DOMAIN swaps THEN swaps ELSE With(swaps, deal.key, deal)

CreatesForward ==
    /\ Awaits("height") /\ Kind = "createswap"
    /\ \E claimFee \in ClaimFees :
          LET deal == Deal(Hash, RecvReverse(Amount, quote),
                           InvoiceAmount(Amount, claimFee) + PrepayAmount(claimFee))
          IN  /\ Payable(claimFee)
              /\ SavesInvoice(claimFee)
              /\ AddsSwap(deal)
              /\ GoesTo(handler.req, "register", deal)
    /\ UNCHANGED <<loopVars, inbox, sent, handled, resolved, watched, callbacks, replies>>

\* The provider draws a new preimage: no two normal swaps have one key.
PricesReverse ==
    /\ Awaits("height") /\ Kind = "createnormalswap"
    /\ GoesTo(handler.req, "register", Deal(handled, SendForward(Amount, quote), Amount))
    /\ UNCHANGED <<loopVars, inbox, sent, handled, resolved, bookVars, replies>>

\* Mutant: the hold invoice's callback is registered after the answer.
RegistersLate ==
    /\ Awaits("register") /\ Kind = "createswap"
    /\ watched' = watched \cup {handler.deal.token}
    /\ GoesTo(handler.req, "reply", handler.deal)
    /\ UNCHANGED <<loopVars, inbox, sent, handled, resolved, swaps, invoices, callbacks, replies>>

\* bitcoind has the lockup address; the callbacks of the chain and of the
\* hold invoice are added before the next await.
RegistersForward ==
    /\ Awaits("register") /\ Kind = "createswap"
    /\ watched' = watched \cup {handler.deal.token}
    /\ callbacks' = callbacks \cup {Hash}
    /\ GoesTo(handler.req, "reply", handler.deal)
    /\ UNCHANGED <<loopVars, inbox, sent, handled, resolved, swaps, invoices, replies>>

\* A reverse swap becomes an entry only here.
RegistersReverse ==
    /\ Awaits("register") /\ Kind = "createnormalswap"
    /\ AddsSwap(handler.deal)
    /\ watched' = watched \cup {handler.deal.token}
    /\ GoesTo(handler.req, "reply", handler.deal)
    /\ UNCHANGED <<loopVars, inbox, sent, handled, resolved, invoices, callbacks, replies>>

RegisterRaises ==
    /\ Awaits("register") /\ Ends
    /\ UNCHANGED <<loopVars, inbox, sent, handled, resolved, bookVars, replies>>

Replies ==
    /\ Awaits("reply")
    /\ replies' = replies \cup {[req |-> handler.req, deal |-> handler.deal]}
    /\ listener' = "idle" /\ handler' = Idle
    /\ UNCHANGED <<loopVars, inbox, sent, handled, resolved, bookVars>>

\* A timeout of the relays here is not run_nostr_server's: the listener ends.
ReplyRaises ==
    /\ Awaits("reply") /\ Ends
    /\ UNCHANGED <<loopVars, inbox, sent, handled, resolved, bookVars, replies>>

-----------------------------------------------------------------------------
Loop == ServerStarts \/ Connects \/ UpdatesPairs \/ Publishes \/ PublishTimesOut \/ Stops

Listener ==
    \/ \E r \in Requests :
          \/ TakesReply(r) \/ TakesMalformed(r) \/ TakesUnsupported(r)
          \/ TakesSwap(r) \/ Rejects(r)
    \/ HeightRaises \/ InvoiceRaises \/ PrepayRaises \/ CreatesForward \/ PricesReverse
    \/ RegistersForward \/ RegistersReverse \/ RegisterRaises \/ Replies \/ ReplyRaises

Clients == \E r \in Requests : ClientSends(r)

ServerNext ==
    \/ (Loop \/ Listener \/ Clients) /\ UNCHANGED <<startVars, hookVars>>
    \/ PublishRaises /\ UNCHANGED hookVars

Init == HookInit /\ ServerInit

Next == (HookNext /\ UNCHANGED serverVars) \/ ServerNext

Spec == Init /\ [][Next]_vars

FairSpec ==
    /\ Spec /\ HookFairness
    /\ WF_vars(Loop /\ UNCHANGED <<startVars, hookVars>>)
    /\ WF_vars(Listener /\ UNCHANGED <<startVars, hookVars>>)
-----------------------------------------------------------------------------
(* Properties *)

Quotes == {Quote(FeePerKvb(estimates)) : estimates \in Estimates} \cup {NoQuote}

IsDeal(deal) ==
    /\ deal.kind \in {"createswap", "createnormalswap"} /\ deal.token \in Handled
    /\ deal.lightning \in Nat /\ deal.onchain \in Nat \cup {NoAmount}
    /\ deal.quote \in Quotes /\ deal.price \in Nat

\* Every variable has its type; an entry is under the key of its swap.
TypeOK ==
    /\ HookTypeOK
    /\ server \in {"off", "connecting", "updating", "publishing", "resting", "stopping"}
    /\ restarts \in 0..MaxRestarts /\ initialized \in BOOLEAN
    /\ quote \in Quotes
    /\ listener \in {"off", "idle", "busy", "ended"}
    /\ inbox \subseteq sent /\ sent \subseteq Requests /\ handled \in 0..MaxHandled
    /\ handler.at \in {"none", "height", "register", "reply"}
    /\ handler.deal = NoDeal \/ IsDeal(handler.deal)
    /\ (listener = "busy") <=> (handler # Idle)
    /\ \A key \in DOMAIN swaps : IsDeal(swaps[key]) /\ swaps[key].key = key
    /\ \A key \in DOMAIN invoices :
          invoices[key].token \in Handled /\ invoices[key].amount > 0 /\ invoices[key].prepay > 0
    /\ watched \subseteq Handled
    /\ \A reply \in replies : reply.deal = NoDeal \/ IsDeal(reply.deal)

\* A client that has been told of a forward swap can rely on all of it: the
\* entry the provider will fund from is the one whose script, locktime and
\* price it was sent, the two invoices stored under the hash are those it was
\* sent and add up to that price, and the callbacks that fund the swap and
\* watch its lockup address are in place.  Handlers are cancelled or raise at
\* any await, and prices change between the awaits (server_create_swap).
ReplyIsBacked ==
    \A reply \in replies : LET deal == reply.deal IN
        deal.kind = "createswap" =>
            /\ deal.key \in DOMAIN swaps /\ swaps[deal.key] = deal
            /\ deal.key \in DOMAIN invoices /\ invoices[deal.key].token = deal.token
            /\ invoices[deal.key].amount + invoices[deal.key].prepay = deal.price
            /\ deal.token \in watched /\ deal.key \in callbacks

\* The prices leave the provider its fees: what it is paid for a forward swap
\* covers the lockup output, the configured rate and the lockup transaction at
\* the price of the quote, though the prepayment is split off at a later fee
\* rate; the output of a normal swap covers what it pays, the rate and the
\* claim; and an amount computed back and forth is never sold short.
PricesAddUp ==
    /\ \A key \in DOMAIN swaps : LET deal == swaps[key] IN
          deal.onchain # NoAmount =>
              IF deal.kind = "createswap"
              THEN /\ (deal.price - deal.onchain - deal.quote.lockup) * FeeDen >= deal.price * FeeNum
                   /\ deal.onchain >= DustThreshold
              ELSE (deal.onchain - deal.lightning - deal.quote.claim) * FeeDen >= deal.lightning * FeeNum
    /\ \A r \in Requests :
          /\ BuysWanted(SendReverse, RecvReverse, quote, Request[r].amount, 2)
          /\ BuysWanted(SendForward, RecvForward, quote, Request[r].amount, 2)

\* An HTLC that waits in the buffer before the hook is ready reaches it,
\* whatever arrives meanwhile (CLNPlugin.__replay_buffered_htlcs).
BufferedIsHanded ==
    \A h \in Htlcs :
        (~ready /\ \E i \in DOMAIN buffer : buffer[i] = h)
            ~> (startup = "failed" \/ h \in handed)

\* A request that reaches a listener is taken and answered, unless a handler
\* that raises ends the listener or the transport is restarted.
Answered ==
    \A r \in Requests :
        r \in inbox ~> \/ \E reply \in replies : reply.req = r
                      \/ (Request[r].kind = "reply" /\ Request[r].hash \in resolved)
                      \/ listener \in {"off", "ended"}

\* After a timeout of the relays offers are published again.
OffersComeBack ==
    (server = "stopping") ~> ((initialized /\ server = "resting") \/ startup = "failed")
=============================================================================
