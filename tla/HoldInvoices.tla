---------------------------- MODULE HoldInvoices ----------------------------
(***************************************************************************)
(* CLNLightning: the hold invoices of the provider, the HTLCs that pay     *)
(* them, and the three threads that share them under `_invoice_lock`:      *)
(*   - the plugin thread, which runs the htlc_accepted hook;               *)
(*   - the expiry thread (monitor_expiries), a scan every 10 seconds;      *)
(*   - the callback thread (callback_handler), a pass every 5 seconds.     *)
(* A fourth thread, the asyncio loop of the SwapManager, changes invoices  *)
(* too and does not take the lock; ForwardSwap composes it with these.     *)
(*                                                                         *)
(* A thread holds the lock from the step that takes it to the step that    *)
(* lets it go; the steps between are separate actions so that a crash or   *)
(* the asyncio loop can fall in between.                                   *)
(***************************************************************************)
EXTENDS Integers, FiniteSets

CONSTANTS
    NumSwaps,       \* forward swaps the clients ask for
    Htlcs,          \* HTLCs that can reach the node
    InvoiceOf,      \* the payment hash each HTLC carries
    Covering,       \* for each hash, the HTLC sets worth its amount_msat
    MinFinalCltv,   \* least relative CLTV accepted for an HTLC
    MaxHeight       \* bound: last block height of a run

Swaps == 1..NumSwaps

Main(s) == <<s, "swap">>      \* hash of the swap invoice (the client's)
Prepay(s) == <<s, "prepay">>  \* hash of its prepay invoice (the provider's)

Hashes == Swaps \X {"swap", "prepay"}

HtlcsOf(i) == {h \in Htlcs : InvoiceOf[h] = i}

ASSUME SwapsAssumption == NumSwaps \in Nat
ASSUME HtlcsAssumption == InvoiceOf \in [Htlcs -> Hashes]
ASSUME CoveringAssumption ==
    /\ Covering \in [Hashes -> SUBSET SUBSET Htlcs]
    /\ \A i \in Hashes, C \in SUBSET Htlcs :
         \A D \in SUBSET Htlcs : C \in Covering[i] /\ C \subseteq D => D \in Covering[i]
\* b11invoice_from_hash asserts that the amount is positive.
ASSUME AmountAssumption == \A i \in Hashes : {} \notin Covering[i]
ASSUME HeightAssumption == MinFinalCltv \in Nat /\ MaxHeight \in Nat

VARIABLES
    stage,      \* how far the plugin has started: "down", "lightning", "up"
    height,     \* block height, as the node and bitcoind see it
    hold,       \* self._hold_invoices: status of each hash, state of each HTLC
    older,      \* key order of self._hold_invoices: <<i, j>> if i comes first
    diskHold,   \* hold, as stored
    diskOlder,  \* older, as stored
    cln,        \* what lightningd has made of each HTLC
    cltv,       \* absolute CLTV of each HTLC
    request,    \* the htlc_accepted request of each HTLC and its answer
    callbacks,  \* keys of self._hold_invoice_callbacks
    expired,    \* swaps whose invoices are past created_at + expiry
    hook,       \* HTLC whose hook call holds the lock
    expiring,   \* hash whose removal by monitor_expiries holds the lock
    handling,   \* swap, and step, of the callback_handler entry with the lock
    pass        \* entries left in the running pass of callback_handler

book == <<hold, older, diskHold, diskOlder>>
lock == <<hook, expiring, handling>>
invoiceVars == <<stage, height, hold, older, diskHold, diskOlder, cln, cltv,
                 request, callbacks, expired, hook, expiring, handling, pass>>

Statuses == {"absent", "UNFUNDED", "FUNDED", "SETTLED", "FAILED"}
HtlcStates == {"none", "ACCEPTED", "SETTLED", "CANCELLED"}
Books == [status : [Hashes -> Statuses], htlcs : [Htlcs -> HtlcStates]]

\* "held": offered to the node and neither fulfilled, failed nor timed out.
ClnStates == {"none", "held", "fulfilled", "failed", "timedout"}
\* "asked": the request has been sent; "waiting": Htlc.request_callback is set;
\* the others are answers that lightningd has not acted upon yet.
Requests == {"none", "asked", "waiting", "resolve", "fail", "continue"}
HandlerSteps == {"save", "call", "broadcast"}

Heights == 0..MaxHeight

\* The types of the variables of this module.
InvoiceTypeOK ==
    /\ stage \in {"down", "lightning", "up"} /\ height \in Heights
    /\ hold \in Books /\ diskHold \in Books
    /\ older \in SUBSET (Hashes \X Hashes) /\ diskOlder \in SUBSET (Hashes \X Hashes)
    /\ cln \in [Htlcs -> ClnStates] /\ request \in [Htlcs -> Requests]
    /\ cltv \in [Htlcs -> Nat]
    /\ callbacks \in SUBSET Swaps /\ expired \in SUBSET Swaps /\ pass \in SUBSET Swaps
    /\ hook \in SUBSET Htlcs /\ expiring \in SUBSET Hashes
    /\ handling \in SUBSET (Swaps \X HandlerSteps)

Running == stage # "down"
LockFree == hook = {} /\ expiring = {} /\ handling = {}

-----------------------------------------------------------------------------
(* Htlc and HoldInvoice *)

Present(i) == hold.status[i] # "absent"
Accepted(i) == {h \in HtlcsOf(i) : hold.htlcs[h] = "ACCEPTED"}
Counted(i) == {h \in HtlcsOf(i) : hold.htlcs[h] \in {"ACCEPTED", "SETTLED"}}

\* HoldInvoice.is_fully_funded: every stored HTLC counts, CLN is not asked.
FullyFunded(i) == Counted(i) \in Covering[i]

\* Htlc.fail and Htlc.settle assert that the request callback is there; it is
\* None for an HTLC read from the database that CLN has not replayed yet.
Answerable(i) == {h \in Accepted(i) : request[h] = "waiting"}
AllAnswerable(i) == Accepted(i) \subseteq Answerable(i)

\* Mutant of Answer: state and answer swapped.
AnswerSwapped(D, st, a) ==
    /\ hold' = [hold EXCEPT !.htlcs = [h \in Htlcs |-> IF h \in D THEN a ELSE @[h]]]
    /\ request' = [h \in Htlcs |-> IF h \in D THEN st ELSE request[h]]

\* The HTLCs of D get state st, and their requests the answer a.
Answer(D, st, a) ==
    /\ hold' = [hold EXCEPT !.htlcs = [h \in Htlcs |-> IF h \in D THEN st ELSE @[h]]]
    /\ request' = [h \in Htlcs |-> IF h \in D THEN a ELSE request[h]]

\* The same, and invoice i gets status s (the end of a sweep that did not raise).
Sweep(i, s, st, a) ==
    /\ hold' = [status |-> [hold.status EXCEPT ![i] = s],
                htlcs  |-> [h \in Htlcs |-> IF h \in Accepted(i) THEN st ELSE hold.htlcs[h]]]
    /\ request' = [h \in Htlcs |-> IF h \in Accepted(i) THEN a ELSE request[h]]

\* A sweep that raises at an HTLC without a callback: the set of HTLCs has no
\* order, so any of the others may have been answered before it.
SweepRaises(i, st, a) ==
    /\ ~AllAnswerable(i)
    /\ \E D \in SUBSET Answerable(i) : Answer(D, st, a)

-----------------------------------------------------------------------------
(* The database: JsonDB.write *)

\* Popping a key and setting it again moves it behind all others.
MovedLast(i) == {p \in older : p[1] # i} \cup {<<j, i>> : j \in Hashes \ {i}}

\* Removing hashes I from the dict, with the HTLCs of their invoices.
Without(I) == [status |-> [i \in Hashes |-> IF i \in I THEN "absent" ELSE hold.status[i]],
               htlcs  |-> [h \in Htlcs |-> IF InvoiceOf[h] \in I THEN "none" ELSE hold.htlcs[h]]]

\* What is stored when the patches are those of the hashes I: HoldInvoice is
\* not a StoredObject, so a change in memory makes no patch of its own.
Patched(I) ==
    [status |-> [i \in Hashes |-> IF i \in I THEN hold'.status[i] ELSE diskHold.status[i]],
     htlcs  |-> [h \in Htlcs |-> IF InvoiceOf[h] \in I THEN hold'.htlcs[h] ELSE diskHold.htlcs[h]]]

\* JsonDB.write appends the pending patches, or dumps the whole document when
\* the stored text has doubled (needs_consolidation): it may be either.
Write(I) ==
    /\ diskHold' \in {Patched(I), hold'}
    /\ diskOlder' = older'

\* CLNLightning.update_invoice
UpdateInvoice(i) ==
    /\ hold' = hold
    /\ older' = MovedLast(i)
    /\ Write({i})

-----------------------------------------------------------------------------
(* lightningd *)

\* A payment part arrives, with a CLTV of the sender's choice, and lightningd
\* calls the hook.
HtlcArrives(h, delta) ==
    /\ Running
    /\ cln[h] = "none"
    /\ cln' = [cln EXCEPT ![h] = "held"]
    /\ cltv' = [cltv EXCEPT ![h] = height + delta]
    /\ request' = [request EXCEPT ![h] = "asked"]
    /\ UNCHANGED <<stage, height, book, callbacks, expired, lock, pass>>

\* After a restart lightningd calls the hook once more for an unresolved HTLC.
HtlcReplayed(h) ==
    /\ Running
    /\ cln[h] = "held" /\ request[h] = "none"
    /\ request' = [request EXCEPT ![h] = "asked"]
    /\ UNCHANGED <<stage, height, book, cln, cltv, callbacks, expired, lock, pass>>

Resolution == [resolve |-> "fulfilled", fail |-> "failed", continue |-> "failed"]

\* lightningd acts upon an answer. No invoice of its own has the hash, so an
\* HTLC it is told to continue with fails.
ClnCommits(h) ==
    /\ request[h] \in DOMAIN Resolution
    /\ cln' = [cln EXCEPT ![h] = IF @ = "held" THEN Resolution[request[h]] ELSE @]
    /\ request' = [request EXCEPT ![h] = "none"]
    /\ UNCHANGED <<stage, height, book, cltv, callbacks, expired, lock, pass>>

\* The HTLC reaches its CLTV without an answer and goes back to the sender.
HtlcTimesOut(h) ==
    /\ cln[h] = "held" /\ height >= cltv[h]
    /\ request[h] \in {"none", "asked", "waiting"}
    /\ cln' = [cln EXCEPT ![h] = "timedout"]
    /\ UNCHANGED <<stage, height, book, cltv, request, callbacks, expired, lock, pass>>

\* 300 seconds have gone by since the two invoices of s were made.
InvoicesExpire(s) ==
    /\ s \notin expired
    /\ Present(Main(s)) \/ Present(Prepay(s))
    /\ expired' = expired \cup {s}
    /\ UNCHANGED <<stage, height, book, cln, cltv, request, callbacks, lock, pass>>

-----------------------------------------------------------------------------
(* plugin_htlc_accepted_hook, in the plugin thread *)

HookStarts(h) == Running /\ LockFree /\ request[h] = "asked"

\* No invoice with this hash is known (any more).
HookContinues(h) ==
    /\ HookStarts(h)
    /\ ~Present(InvoiceOf[h])
    /\ request' = [request EXCEPT ![h] = "continue"]
    /\ UNCHANGED <<stage, height, book, cln, cltv, callbacks, expired, lock, pass>>

\* find_htlc: a replayed HTLC only gets its new callback, whatever its state.
HookReplaces(h) ==
    /\ HookStarts(h)
    /\ Present(InvoiceOf[h]) /\ hold.htlcs[h] # "none"
    /\ request' = [request EXCEPT ![h] = "waiting"]
    /\ UNCHANGED <<stage, height, book, cln, cltv, callbacks, expired, lock, pass>>

\* decodepay may fail and the payment secret may be wrong, so any new HTLC may
\* be refused; the refused HTLC is stored all the same.
HookRejects(h) ==
    /\ HookStarts(h)
    /\ Present(InvoiceOf[h]) /\ hold.htlcs[h] = "none"
    /\ Answer({h}, "CANCELLED", "fail")
    /\ hook' = {h}
    /\ UNCHANGED <<stage, height, older, diskHold, diskOlder, cln, cltv, callbacks,
                   expired, expiring, handling, pass>>

\* Mutant of Acceptable: one block too few.
AcceptableShort(h) ==
    /\ hold.status[InvoiceOf[h]] = "UNFUNDED"
    /\ cltv[h] - height >= MinFinalCltv - 1

\* What handle_htlc demands of an HTLC before it takes it.
Acceptable(h) ==
    /\ hold.status[InvoiceOf[h]] = "UNFUNDED"
    /\ cltv[h] - height >= MinFinalCltv

HookAccepts(h) ==
    /\ HookStarts(h)
    /\ hold.htlcs[h] = "none"
    /\ Acceptable(h)
    /\ LET i == InvoiceOf[h] IN
       hold' = [status |-> [hold.status EXCEPT
                   ![i] = IF Counted(i) \cup {h} \in Covering[i] THEN "FUNDED" ELSE @],
                htlcs  |-> [hold.htlcs EXCEPT ![h] = "ACCEPTED"]]
    /\ request' = [request EXCEPT ![h] = "waiting"]
    /\ hook' = {h}
    /\ UNCHANGED <<stage, height, older, diskHold, diskOlder, cln, cltv, callbacks,
                   expired, expiring, handling, pass>>

\* update_invoice, at the end of the hook
HookSaves(h) ==
    /\ h \in hook
    /\ Present(InvoiceOf[h])
    /\ UpdateInvoice(InvoiceOf[h])
    /\ hook' = {}
    /\ UNCHANGED <<stage, height, cln, cltv, request, callbacks, expired, expiring,
                   handling, pass>>

\* The asyncio loop has deleted the invoice meanwhile: the pop raises, nothing
\* is stored, and the second answer to the request has no effect.
HookSaveRaises(h) ==
    /\ h \in hook
    /\ ~Present(InvoiceOf[h])
    /\ hook' = {}
    /\ UNCHANGED <<stage, height, book, cln, cltv, request, callbacks, expired, expiring,
                   handling, pass>>

-----------------------------------------------------------------------------
(* monitor_expiries, in its own thread *)

\* Mutant of Expirable: paid invoices expire as well.
ExpirablePaid(i) == i[1] \in expired /\ hold.status[i] \in {"UNFUNDED", "FUNDED", "FAILED"}

\* The condition of check_invoice_expiry.
Expirable(i) == i[1] \in expired /\ hold.status[i] \in {"UNFUNDED", "FAILED"}

\* A scan visits the invoices in key order and ends at the first expired one:
\* check_invoice_expiry removes it and the scan restarts, or it raises.
ScanStops(i) ==
    /\ Running /\ LockFree
    /\ Expirable(i)
    /\ \A j \in Hashes \ {i} : Expirable(j) => <<i, j>> \in older

\* In `prepay_invoice := get_hold_invoice(..) is not None` the comparison binds
\* first, so with a prepay invoice there True.cancel_all_htlcs() raises.
PrepayLookupRaises(i) == i[2] = "swap" /\ Present(Prepay(i[1]))

\* cancel_all_htlcs, and what follows it when it did not raise.
MonitorCancels(i) ==
    /\ ScanStops(i)
    /\ AllAnswerable(i)
    /\ Sweep(i, "FAILED", "CANCELLED", "fail")
    /\ expiring' = IF PrepayLookupRaises(i) THEN {} ELSE {i}
    /\ UNCHANGED <<stage, height, older, diskHold, diskOlder, cln, cltv, callbacks,
                   expired, hook, handling, pass>>

MonitorCancelRaises(i) ==
    /\ ScanStops(i)
    /\ SweepRaises(i, "CANCELLED", "fail")
    /\ UNCHANGED <<stage, height, older, diskHold, diskOlder, cln, cltv, callbacks,
                   expired, lock, pass>>

\* delete_hold_invoice
MonitorDeletes(i) ==
    /\ i \in expiring
    /\ expiring' = {}
    /\ hold' = Without({i})
    /\ older' = older
    /\ Write({i})
    /\ callbacks' = callbacks \ {s \in Swaps : Main(s) = i}
    /\ UNCHANGED <<stage, height, cln, cltv, request, expired, hook, handling, pass>>

-----------------------------------------------------------------------------
(* callback_handler, in its own thread *)

\* A pass works on a copy of the registered callbacks, oldest first.
PassStarts ==
    /\ Running
    /\ pass = {} /\ handling = {} /\ callbacks # {}
    /\ pass' = callbacks
    /\ UNCHANGED <<stage, height, book, cln, cltv, request, callbacks, expired, lock>>

Visits(s) ==
    /\ Running /\ LockFree
    /\ s \in pass /\ \A t \in pass : s <= t

\* A visit to s raises, whatever the rest of the program does meanwhile.
VisitRaises(s) ==
    /\ hold.status[Main(s)] = "FUNDED"
    /\ \/ ~Present(Prepay(s))
       \/ hold.status[Prepay(s)] = "FUNDED" /\ ~AllAnswerable(Prepay(s))

\* The invoice is gone. Popping a callback that is gone too raises, which ends
\* the pass.
HandlerForgets(s) ==
    /\ Visits(s)
    /\ ~Present(Main(s))
    /\ callbacks' = callbacks \ {s}
    /\ pass' = IF s \in callbacks THEN pass \ {s} ELSE {}
    /\ UNCHANGED <<stage, height, book, cln, cltv, request, expired, lock>>

\* Not paid yet, or its prepay invoice is not FUNDED.
HandlerSkips(s) ==
    /\ Visits(s)
    /\ \/ hold.status[Main(s)] \in {"UNFUNDED", "SETTLED", "FAILED"}
       \/ /\ hold.status[Main(s)] = "FUNDED"
          /\ hold.status[Prepay(s)] \in {"UNFUNDED", "SETTLED", "FAILED"}
    /\ pass' = pass \ {s}
    /\ UNCHANGED <<stage, height, book, cln, cltv, request, callbacks, expired, lock>>

\* Paid, and the prepay invoice is gone: None.funding_status raises.
HandlerRaises(s) ==
    /\ Visits(s)
    /\ hold.status[Main(s)] = "FUNDED" /\ ~Present(Prepay(s))
    /\ pass' = {}
    /\ UNCHANGED <<stage, height, book, cln, cltv, request, callbacks, expired, lock>>

\* Mutants of BothFunded: the swap invoice is not looked at; a settled prepay
\* invoice is taken for a funded one.
BothFundedEarly(s) == hold.status[Main(s)] # "absent" /\ hold.status[Prepay(s)] = "FUNDED"
BothFundedAgain(s) ==
    hold.status[Main(s)] = "FUNDED" /\ hold.status[Prepay(s)] \in {"FUNDED", "SETTLED"}

BothFunded(s) == hold.status[Main(s)] = "FUNDED" /\ hold.status[Prepay(s)] = "FUNDED"

\* Both are paid: the prepay invoice is settled first.
HandlerSettles(s) ==
    /\ Visits(s)
    /\ BothFunded(s)
    /\ FullyFunded(Prepay(s)) /\ AllAnswerable(Prepay(s))
    /\ Sweep(Prepay(s), "SETTLED", "SETTLED", "resolve")
    /\ handling' = {<<s, "save">>}
    /\ UNCHANGED <<stage, height, older, diskHold, diskOlder, cln, cltv, callbacks,
                   expired, hook, expiring, pass>>

HandlerSettleRaises(s) ==
    /\ Visits(s)
    /\ BothFunded(s)
    /\ SweepRaises(Prepay(s), "SETTLED", "resolve")
    /\ pass' = {}
    /\ UNCHANGED <<stage, height, older, diskHold, diskOlder, cln, cltv, callbacks,
                   expired, lock>>

\* Mutant of HandlerSaves: the settled prepay invoice is not stored.
HandlerSavesNothing(s) ==
    /\ <<s, "save">> \in handling
    /\ handling' = {<<s, "call">>}
    /\ UNCHANGED <<stage, height, book, cln, cltv, request, callbacks, expired, hook,
                   expiring, pass>>

\* update_invoice(prepay_invoice)
HandlerSaves(s) ==
    /\ <<s, "save">> \in handling
    /\ UpdateInvoice(Prepay(s))
    /\ handling' = {<<s, "call">>}
    /\ UNCHANGED <<stage, height, cln, cltv, request, callbacks, expired, hook,
                   expiring, pass>>

\* unregister_hold_invoice_callback, after the callback has returned.
HandlerUnregisters(s) ==
    /\ callbacks' = callbacks \ {s}
    /\ pass' = pass \ {s}
    /\ handling' = {}

\* The callback raised: the pass ends and the callback stays.
HandlerAborts ==
    /\ pass' = {}
    /\ handling' = {}
    /\ callbacks' = callbacks
=============================================================================
