--------------------------- MODULE Payment_proofs ---------------------------
(***************************************************************************)
(* What a running plugin does with the HTLCs that pay for a forward swap,  *)
(* for every number of swaps and HTLCs, every amount, with blocks at any   *)
(* time and any number of failing calls, as long as it does not crash:     *)
(*   - none of its threads gives them back once the prepay invoice is      *)
(*     settled, and so not as long as the lockup output can be claimed;    *)
(*   - ForwardSwap implements AtomicSwap.                                  *)
(* A crash loses the status of the prepay invoice and the HTLCs that came  *)
(* after the last write; what may happen then is in the README.            *)
(***************************************************************************)
EXTENDS Settlement_proofs

\* The hypothesis of the theorems of this module.
NoCrash == "crash" \notin Faults

-----------------------------------------------------------------------------
(* The invariant *)

\* The hook's request, the HTLC in the book and the HTLC at lightningd agree:
\* an accepted HTLC can be answered, and one that is settled has been answered
\* with the preimage, in time or not.
HtlcTracked(h) ==
    /\ cln[h] = "none" => request[h] = "none" /\ hold.htlcs[h] = "none"
    /\ cln[h] = "held" => request[h] # "none"
    /\ request[h] # "none" => cln[h] \in {"held", "timedout"}
    /\ request[h] = "asked" => hold.htlcs[h] = "none"
    /\ hold.htlcs[h] = "ACCEPTED" => request[h] = "waiting"
    /\ hold.htlcs[h] = "SETTLED" =>
          request[h] \in {"resolve", "none"} /\ cln[h] \in {"held", "fulfilled", "timedout"}

\* The HTLCs that pay swap s and that no thread can give back but the one that
\* expires the invoice: they are not to be decided by the hook any more.
Secured(s) == {h \in HtlcsOf(Main(s)) : /\ cln[h] \notin {"none", "failed"}
                                        /\ request[h] \notin {"fail", "continue", "asked"}}

\* What every step does but the one that settles a prepay invoice.
SameSold == \A s \in Swaps : Sold(s)' <=> Sold(s)

FundedCovered == \A i \in Hashes : hold.status[i] = "FUNDED" => FullyFunded(i)

\* The invoice that pays a swap that is sold is none that expires.
SoldSecured ==
    \A s \in Swaps : Sold(s) =>
       /\ Secured(s) \in Covering[Main(s)]
       /\ hold.status[Main(s)] \notin {"UNFUNDED", "FAILED"}

\* Only what is sold is with the callback thread, or has its prepay HTLCs
\* resolved.
SoldBefore ==
    /\ \A e \in handling : Sold(e[1])
    /\ \A s \in Swaps : Resolved(Prepay(s)) => Sold(s)

UnaskedUnsold ==
    \A s \in Swaps : s > created => ~Present(Main(s)) /\ ~Present(Prepay(s)) /\ ~Sold(s)

\* An invoice that the expiry thread is about to delete was cancelled.
RemovedOver ==
    \A i \in expiring :
       /\ hold.status[i] \notin {"UNFUNDED", "FUNDED"}
       /\ i[2] = "prepay" => hold.status[i] # "SETTLED"
       /\ i[1] <= created

\* A _claim_swap past its reads has seen a lockup output only if there is one.
ClaimsLocked ==
    \A c \in claim : c.step = "cleanup" \/ c.lockup # "none" => lockup[c.swap] # "none"

PaymentInv ==
    /\ stage = "up"
    /\ \A h \in Htlcs : HtlcTracked(h)
    /\ FundedCovered /\ SoldSecured /\ SoldBefore /\ UnaskedUnsold
    /\ RemovedOver /\ ClaimsLocked

-----------------------------------------------------------------------------
(* What follows from it in one state *)

LEMMA CoveringGrows ==
    ASSUME NEW i \in Hashes, NEW C \in SUBSET Htlcs, NEW D \in SUBSET Htlcs,
           C \in Covering[i], C \subseteq D
    PROVE  D \in Covering[i]
  BY CoveringAssumption

LEMMA AllTrackedAnswerable ==
    ASSUME \A h \in Htlcs : HtlcTracked(h), NEW i PROVE AllAnswerable(i)
  BY DEF HtlcTracked, AllAnswerable, Answerable, Accepted, HtlcsOf

\* So no sweep raises.
LEMMA NoSweepRaises ==
    ASSUME \A h \in Htlcs : HtlcTracked(h), NEW i, NEW st, NEW a PROVE ~SweepRaises(i, st, a)
  BY AllTrackedAnswerable DEF SweepRaises

LEMMA CountedSecured ==
    ASSUME \A h \in Htlcs : HtlcTracked(h), NEW s \in Swaps
    PROVE  Counted(Main(s)) \subseteq Secured(s)
  BY DEF HtlcTracked, Counted, Secured, HtlcsOf

LEMMA SecuredKept ==
    ASSUME NEW s \in Swaps PROVE Secured(s) \subseteq Kept(Main(s))
  BY DEF Secured, Kept

-----------------------------------------------------------------------------
(* Steps that leave the books and the HTLCs alone *)

LEMMA SameBooksKeepPayment ==
    ASSUME TypeOK, TypeOK', PaymentInv, UNCHANGED <<stage, hold, cln, request, created>>,
           expiring' \subseteq expiring,
           \A e \in handling' : \E d \in handling : d[1] = e[1],
           \A s \in Swaps : lockup[s] # "none" => lockup'[s] # "none",
           \A s \in Swaps : lockup'[s] # "none" =>
              lockup[s] # "none" \/ \E e \in handling : e[1] = s,
           \A c \in claim' : c \in claim \/ (c.step = "act" /\ c.lockup = lockup[c.swap])
    PROVE  PaymentInv' /\ SameSold
<1>1. \A s \in Swaps : Sold(s)' <=> Sold(s)
  BY DEF PaymentInv, SoldBefore, Sold
<1>2. \A e \in handling : e[1] \in Swaps
  BY DEF TypeOK, InvoiceTypeOK
<1>3. \A c \in claim' : c.swap \in Swaps
  BY DEF TypeOK, SwapTypeOK, Reads
<1>4. stage' = "up" /\ (\A h \in Htlcs : HtlcTracked(h)') /\ FundedCovered'
  BY DEF PaymentInv, HtlcTracked, FundedCovered, FullyFunded, Counted, HtlcsOf
<1>5. SoldSecured'
  BY <1>1 DEF PaymentInv, SoldSecured, Secured
<1>6. SoldBefore'
  BY <1>1, <1>2 DEF PaymentInv, SoldBefore, Resolved
<1>7. UnaskedUnsold'
  BY <1>1 DEF PaymentInv, UnaskedUnsold, Present
<1>8. RemovedOver'
  BY DEF PaymentInv, RemovedOver
<1>9. ClaimsLocked'
  BY <1>3 DEF PaymentInv, ClaimsLocked
<1> QED
  BY <1>1, <1>4, <1>5, <1>6, <1>7, <1>8, <1>9 DEF PaymentInv, SameSold

LEMMA RestKeepsPayment ==
    ASSUME TypeOK, TypeOK', PaymentInv,
           \/ MonitorPolls \/ \E s \in Swaps : ClaimReads(s) \/ ClaimSkips(s)
           \/ \E s \in Swaps : CreateRegisters(s)
           \/ \E s \in Swaps : InvoicesExpire(s) /\ Quiet
           \/ \E s \in Swaps : ClientClaims(s)
           \/ PassStarts /\ Quiet
           \/ BlockMined \/ UNCHANGED vars
    PROVE  PaymentInv' /\ SameSold
<1>1. UNCHANGED <<stage, hold, cln, request, created, expiring, handling>>
  BY DEF ClaimReads, ClaimSkips, CreateRegisters, InvoicesExpire, ClientClaims, PassStarts,
     MonitorPolls, BlockMined, Quiet, vars, invoiceVars, book, lock, swapVars, requestVars
<1>2. UNCHANGED lockup \/ BlockMined
  BY DEF ClaimReads, ClaimSkips, CreateRegisters, InvoicesExpire, ClientClaims, PassStarts,
     MonitorPolls, Quiet, vars, chainVars
<1>3. \A s \in Swaps : lockup'[s] # "none" <=> lockup[s] # "none"
  BY <1>2 DEF BlockMined
<1>4. UNCHANGED claim \/ \E s \in Swaps : ClaimReads(s)
  BY DEF ClaimSkips, CreateRegisters, InvoicesExpire, ClientClaims, PassStarts,
     MonitorPolls, BlockMined, Quiet, vars, taskVars
<1>5. \A c \in claim' : c \in claim \/ (c.step = "act" /\ c.lockup = lockup[c.swap])
  BY <1>4 DEF ClaimReads
<1> QED
  BY <1>1, <1>3, <1>5, SameBooksKeepPayment

LEMMA HandlerWaitsKeepsPayment ==
    ASSUME TypeOK, TypeOK', PaymentInv, NEW s \in Swaps,
           \/ (HandlerForgets(s) \/ HandlerSkips(s) \/ HandlerRaises(s)) /\ Quiet
           \/ HandlerSaves(s) /\ Writes
           \/ CallbackReturns(s) \/ CallbackCreatesTx(s) \/ CallbackRaises(s)
           \/ CallbackBroadcasts(s) \/ CallbackBroadcastFails(s)
    PROVE  PaymentInv' /\ SameSold
<1>1. CASE (HandlerForgets(s) \/ HandlerSkips(s) \/ HandlerRaises(s)) /\ Quiet
  <2>1. UNCHANGED <<stage, hold, cln, request, created, expiring, handling, lockup, claim>>
    BY <1>1 DEF HandlerForgets, HandlerSkips, HandlerRaises, Quiet, book, lock, swapVars,
       requestVars, chainVars, taskVars
  <2> QED
    BY <2>1, SameBooksKeepPayment
<1>2. CASE HandlerSaves(s) /\ Writes
  <2>1. /\ UNCHANGED <<stage, hold, cln, request, created, expiring, lockup, claim>>
        /\ <<s, "save">> \in handling /\ handling' = {<<s, "call">>}
    BY <1>2 DEF HandlerSaves, UpdateInvoice, Writes, ThreadWrites, requestVars, chainVars,
       taskVars
  <2> QED
    BY <2>1, SameBooksKeepPayment
<1>3. CASE CallbackReturns(s) \/ CallbackRaises(s)
  <2>1. /\ UNCHANGED <<stage, hold, cln, request, created, expiring, lockup, claim>>
        /\ handling' = {}
    BY <1>3 DEF CallbackReturns, CallbackRaises, HandlerUnregisters, HandlerAborts, book,
       swapVars, requestVars, chainVars, taskVars
  <2> QED
    BY <2>1, SameBooksKeepPayment
<1>4. CASE CallbackCreatesTx(s)
  <2>1. /\ UNCHANGED <<stage, hold, cln, request, created, expiring, lockup, claim>>
        /\ <<s, "call">> \in handling /\ handling' = {<<s, "broadcast">>}
    BY <1>4 DEF CallbackCreatesTx, book, swapVars, requestVars, chainVars, taskVars
  <2> QED
    BY <2>1, SameBooksKeepPayment
<1>5. CASE CallbackBroadcasts(s) \/ CallbackBroadcastFails(s)
  <2>1. /\ UNCHANGED <<stage, hold, cln, request, created, expiring, claim>>
        /\ <<s, "broadcast">> \in handling /\ handling' = {}
        /\ Publish(s) \/ UNCHANGED lockup
    BY <1>5 DEF CallbackBroadcasts, CallbackBroadcastFails, HandlerUnregisters, FailSwap,
       book, requestVars, chainVars, taskVars
  <2>2. \A t \in Swaps : /\ lockup[t] # "none" => lockup'[t] # "none"
                         /\ lockup'[t] # "none" => lockup[t] # "none" \/ t = s
    BY <2>1 DEF Publish, TypeOK, SwapTypeOK
  <2> QED
    BY <2>1, <2>2, SameBooksKeepPayment
<1> QED
  BY <1>1, <1>2, <1>3, <1>4, <1>5

-----------------------------------------------------------------------------
(* Steps that move one HTLC *)

\* Everything but one HTLC stays, and the invoice of that HTLC may become
\* FUNDED: nothing that is sold loses an HTLC.
LEMMA HtlcMoveKeepsPayment ==
    ASSUME TypeOK, TypeOK', PaymentInv,
           UNCHANGED <<stage, created, expiring, handling, lockup, claim>>,
           \A g \in Htlcs : HtlcTracked(g)', FundedCovered',
           \A i \in Hashes : \/ hold'.status[i] = hold.status[i]
                             \/ hold.status[i] = "UNFUNDED" /\ hold'.status[i] = "FUNDED",
           \A s \in Swaps : Secured(s) \subseteq Secured(s)',
           \A g \in Htlcs : Released(g)' => Released(g)
    PROVE  PaymentInv' /\ SameSold
<1>1. \A s \in Swaps : Sold(s)' <=> Sold(s)
  BY MainPrepayType DEF Sold
<1>2. SoldSecured'
  <2> SUFFICES ASSUME NEW s \in Swaps, Sold(s)
               PROVE  /\ Secured(s)' \in Covering[Main(s)]
                      /\ hold'.status[Main(s)] \notin {"UNFUNDED", "FAILED"}
    BY <1>1 DEF SoldSecured
  <2>1. /\ Secured(s) \in Covering[Main(s)]
        /\ hold.status[Main(s)] \notin {"UNFUNDED", "FAILED"}
    BY DEF PaymentInv, SoldSecured
  <2>2. Secured(s) \in SUBSET Htlcs /\ Secured(s)' \in SUBSET Htlcs
    BY DEF Secured, HtlcsOf
  <2> QED
    BY <2>1, <2>2, CoveringGrows, MainPrepayType
<1>3. SoldBefore'
  BY <1>1 DEF PaymentInv, SoldBefore, Resolved, Released, HtlcsOf, TypeOK, InvoiceTypeOK
<1>4. UnaskedUnsold'
  BY <1>1, MainPrepayType DEF PaymentInv, UnaskedUnsold, Present
<1>5. RemovedOver'
  BY DEF PaymentInv, RemovedOver, TypeOK, InvoiceTypeOK
<1>6. ClaimsLocked'
  BY DEF PaymentInv, ClaimsLocked
<1> QED
  BY <1>1, <1>2, <1>3, <1>4, <1>5, <1>6 DEF PaymentInv, SameSold

\* lightningd: an HTLC that arrives was not there, one that fails or times out
\* was given back or has not been answered, and none is asked about again.
LEMMA LightningKeepsPayment ==
    ASSUME TypeOK, TypeOK', PaymentInv, NEW h \in Htlcs, Quiet,
           \/ \E d \in CltvDeltas : HtlcArrives(h, d)
           \/ HtlcReplayed(h) \/ ClnCommits(h) \/ HtlcTimesOut(h)
    PROVE  PaymentInv' /\ SameSold
<1>1. UNCHANGED <<stage, hold, created, expiring, handling, lockup, claim>>
  BY DEF HtlcArrives, HtlcReplayed, ClnCommits, HtlcTimesOut, Quiet, book, lock, swapVars,
     requestVars, chainVars, taskVars
<1>2. /\ HtlcTracked(h)
      /\ cln \in [Htlcs -> ClnStates] /\ request \in [Htlcs -> Requests]
  BY DEF PaymentInv, TypeOK, InvoiceTypeOK
<1>3. /\ \A g \in Htlcs \ {h} : cln'[g] = cln[g] /\ request'[g] = request[g]
      /\ HtlcTracked(h)'
      /\ Released(h)' => Released(h)
      /\ cln[h] \notin {"none", "failed"} /\ request[h] \notin {"fail", "continue", "asked"}
            => cln'[h] \notin {"none", "failed"} /\ request'[h] \notin {"fail", "continue", "asked"}
  <2>1. CASE \E d \in CltvDeltas : HtlcArrives(h, d)
    BY <1>1, <1>2, <2>1 DEF HtlcArrives, HtlcTracked, Released
  <2>2. CASE HtlcReplayed(h)
    BY <1>1, <1>2, <2>2 DEF HtlcReplayed, HtlcTracked
  <2>3. CASE ClnCommits(h)
    BY <1>1, <1>2, <2>3 DEF ClnCommits, Resolution, HtlcTracked, Released
  <2>4. CASE HtlcTimesOut(h)
    BY <1>1, <1>2, <2>4 DEF HtlcTimesOut, HtlcTracked, Released
  <2> QED
    BY <2>1, <2>2, <2>3, <2>4
<1>4. \A g \in Htlcs : HtlcTracked(g)'
  BY <1>1, <1>3 DEF PaymentInv, HtlcTracked
<1>5. FundedCovered'
  BY <1>1 DEF PaymentInv, FundedCovered, FullyFunded, Counted, HtlcsOf
<1>6. \A s \in Swaps : Secured(s) \subseteq Secured(s)'
  BY <1>3 DEF Secured, HtlcsOf
<1>7. \A g \in Htlcs : Released(g)' => Released(g)
  BY <1>3 DEF Released
<1> QED
  BY <1>1, <1>4, <1>5, <1>6, <1>7, HtlcMoveKeepsPayment

\* The hook decides about HTLCs that count for nothing yet.
LEMMA HookKeepsPayment ==
    ASSUME TypeOK, TypeOK', PaymentInv, NEW h \in Htlcs,
           \/ (HookContinues(h) \/ HookReplaces(h) \/ HookRejects(h) \/ HookAccepts(h)) /\ Quiet
           \/ HookSaveRaises(h) /\ Quiet
           \/ HookSaves(h) /\ Writes
    PROVE  PaymentInv' /\ SameSold
<1>0. HtlcTracked(h) /\ InvoiceOf[h] \in Hashes
  BY HtlcsAssumption DEF PaymentInv
<1>1. CASE (HookContinues(h) \/ HookReplaces(h) \/ HookRejects(h) \/ HookAccepts(h)) /\ Quiet
  <2>1. /\ UNCHANGED <<stage, created, expiring, handling, lockup, claim, cln>>
        /\ request[h] = "asked" /\ hold.htlcs[h] = "none"
        /\ cln[h] \in {"held", "timedout"}
    BY <1>0, <1>1 DEF HookContinues, HookReplaces, HookRejects, HookAccepts, HookStarts,
       HtlcTracked, Quiet, lock, swapVars, requestVars, chainVars, taskVars
  <2>2. /\ \A g \in Htlcs \ {h} : request'[g] = request[g] /\ hold'.htlcs[g] = hold.htlcs[g]
        /\ \/ request'[h] \in {"fail", "continue"} /\ hold'.htlcs[h] \in {"none", "CANCELLED"}
           \/ request'[h] = "waiting" /\ hold'.htlcs[h] = "ACCEPTED"
        /\ \A i \in Hashes : \/ hold'.status[i] = hold.status[i]
                             \/ /\ hold.status[i] = "UNFUNDED" /\ hold'.status[i] = "FUNDED"
                                /\ Counted(i) \cup {h} \in Covering[i]
                                /\ i = InvoiceOf[h] /\ hold'.htlcs[h] = "ACCEPTED"
    <3>1. CASE HookContinues(h)
      BY <2>1, <3>1 DEF HookContinues, TypeOK, InvoiceTypeOK, book
    <3>2. CASE HookReplaces(h)
      BY <2>1, <3>2 DEF HookReplaces
    <3>3. CASE HookRejects(h)
      BY <2>1, <3>3 DEF HookRejects, Answer, TypeOK, InvoiceTypeOK, Books
    <3>4. CASE HookAccepts(h)
      BY <1>0, <2>1, <3>4 DEF HookAccepts, Acceptable, TypeOK, InvoiceTypeOK, Books
    <3> QED
      BY <1>1, <3>1, <3>2, <3>3, <3>4
  <2>3. \A g \in Htlcs : HtlcTracked(g)'
    BY <2>1, <2>2 DEF PaymentInv, HtlcTracked
  <2>4. \A i \in Hashes : Counted(i) \subseteq Counted(i)' /\ Counted(i)' \in SUBSET Htlcs
    BY <2>1, <2>2 DEF Counted, HtlcsOf
  <2>5. FundedCovered'
    <3> SUFFICES ASSUME NEW i \in Hashes, hold'.status[i] = "FUNDED"
                 PROVE  Counted(i)' \in Covering[i]
      BY DEF FundedCovered, FullyFunded
    <3>1. CASE hold.status[i] = "FUNDED"
      BY <2>4, <3>1, CoveringGrows DEF PaymentInv, FundedCovered, FullyFunded, Counted
    <3>2. CASE hold.status[i] # "FUNDED"
      <4>1. Counted(i) \cup {h} \in Covering[i] /\ h \in Counted(i)'
        BY <2>2, <3>2 DEF Counted, HtlcsOf
      <4> QED
        BY <2>4, <4>1, CoveringGrows
    <3> QED
      BY <3>1, <3>2
  <2>6. \A s \in Swaps : Secured(s) \subseteq Secured(s)'
    BY <2>1, <2>2 DEF Secured, HtlcsOf
  <2>7. \A g \in Htlcs : Released(g)' => Released(g)
    BY <2>1, <2>2 DEF Released
  <2> QED
    BY <2>1, <2>2, <2>3, <2>5, <2>6, <2>7, HtlcMoveKeepsPayment
<1>2. CASE HookSaveRaises(h) /\ Quiet
  <2>1. UNCHANGED <<stage, hold, cln, request, created, expiring, handling, lockup, claim>>
    BY <1>2 DEF HookSaveRaises, Quiet, book, swapVars, requestVars, chainVars, taskVars
  <2> QED
    BY <2>1, SameBooksKeepPayment
<1>3. CASE HookSaves(h) /\ Writes
  <2>1. UNCHANGED <<stage, hold, cln, request, created, expiring, handling, lockup, claim>>
    BY <1>3 DEF HookSaves, UpdateInvoice, Writes, ThreadWrites, requestVars, chainVars, taskVars
  <2> QED
    BY <2>1, SameBooksKeepPayment
<1> QED
  BY <1>1, <1>2, <1>3

-----------------------------------------------------------------------------
(* Sweeps: cancelling and settling an invoice *)

\* A sweep of invoice i touches no HTLC of another one, and answers only HTLCs
\* that wait for an answer.
LEMMA SweepMoves ==
    ASSUME TypeOK, \A h \in Htlcs : HtlcTracked(h), NEW i \in Hashes, NEW st \in Statuses,
           NEW hs, NEW a, Sweep(i, st, hs, a), UNCHANGED cln,
           <<hs, a>> \in {<<"CANCELLED", "fail">>, <<"SETTLED", "resolve">>}
    PROVE  /\ \A h \in Htlcs : HtlcTracked(h)'
           /\ hold'.status[i] = st
           /\ \A j \in Hashes \ {i} : hold'.status[j] = hold.status[j]
           /\ st # "FUNDED" /\ FundedCovered => FundedCovered'
           /\ \A s \in Swaps : Main(s) # i \/ a = "resolve" => Secured(s) \subseteq Secured(s)'
           /\ \A h \in Htlcs : Released(h)' =>
                 Released(h) \/ (a = "resolve" /\ InvoiceOf[h] = i)
<1>1. /\ hold'.status[i] = st
      /\ \A j \in Hashes \ {i} : hold'.status[j] = hold.status[j]
  BY DEF Sweep, TypeOK, InvoiceTypeOK, Books
<1>2. \A h \in Htlcs : \/ h \notin Accepted(i) /\ hold'.htlcs[h] = hold.htlcs[h]
                                               /\ request'[h] = request[h]
                       \/ h \in Accepted(i) /\ hold'.htlcs[h] = hs /\ request'[h] = a
                                            /\ request[h] = "waiting" /\ InvoiceOf[h] = i
  BY DEF Sweep, Accepted, HtlcsOf, HtlcTracked
<1>3. \A h \in Htlcs : HtlcTracked(h)'
  BY <1>2 DEF HtlcTracked, Accepted
<1>4. st # "FUNDED" /\ FundedCovered => FundedCovered'
  <2> SUFFICES ASSUME st # "FUNDED", FundedCovered, NEW j \in Hashes, hold'.status[j] = "FUNDED"
               PROVE  Counted(j)' \in Covering[j]
    BY DEF FundedCovered, FullyFunded
  <2>1. j # i /\ Counted(j) \in Covering[j]
    BY <1>1 DEF FundedCovered, FullyFunded
  <2>2. Counted(j)' = Counted(j)
    BY <1>2, <2>1 DEF Counted, HtlcsOf
  <2> QED
    BY <2>1, <2>2
<1>5. \A s \in Swaps : Main(s) # i \/ a = "resolve" => Secured(s) \subseteq Secured(s)'
  BY <1>2 DEF Secured, HtlcsOf
<1>6. \A h \in Htlcs : Released(h)' => Released(h) \/ (a = "resolve" /\ InvoiceOf[h] = i)
  BY <1>2 DEF Released
<1> QED
  BY <1>1, <1>3, <1>4, <1>5, <1>6

\* monitor_expiries cancels only invoices whose swap is not sold.
LEMMA MonitorCancelsKeepsPayment ==
    ASSUME TypeOK, TypeOK', PaymentInv, NEW i \in Hashes, MonitorCancels(i), Quiet
    PROVE  PaymentInv' /\ SameSold
<1>1. /\ UNCHANGED <<stage, created, handling, lockup, claim, cln>>
      /\ Sweep(i, "FAILED", "CANCELLED", "fail")
      /\ expiring' \in {{}, {i}}
      /\ hold.status[i] \in {"UNFUNDED", "FAILED"}
  BY DEF MonitorCancels, ScanStops, Expirable, Quiet, swapVars, requestVars, chainVars, taskVars
<1>2. /\ \A h \in Htlcs : HtlcTracked(h)'
      /\ hold'.status[i] = "FAILED"
      /\ \A j \in Hashes \ {i} : hold'.status[j] = hold.status[j]
      /\ FundedCovered'
      /\ \A s \in Swaps : Main(s) # i => Secured(s) \subseteq Secured(s)'
      /\ \A h \in Htlcs : Released(h)' => Released(h)
  BY <1>1, SweepMoves DEF PaymentInv, Statuses
<1>3. \A s \in Swaps : Sold(s)' <=> Sold(s)
  BY <1>1, <1>2, MainPrepayType DEF Sold
<1>4. SoldSecured'
  <2> SUFFICES ASSUME NEW s \in Swaps, Sold(s)
               PROVE  /\ Secured(s)' \in Covering[Main(s)]
                      /\ hold'.status[Main(s)] \notin {"UNFUNDED", "FAILED"}
    BY <1>3 DEF SoldSecured
  <2>1. Secured(s) \in Covering[Main(s)] /\ hold.status[Main(s)] \notin {"UNFUNDED", "FAILED"}
    BY DEF PaymentInv, SoldSecured
  <2>2. Main(s) \in Hashes \ {i}
    BY <1>1, <2>1, MainPrepayType
  <2>3. Secured(s) \in SUBSET Htlcs /\ Secured(s)' \in SUBSET Htlcs
    BY DEF Secured, HtlcsOf
  <2> QED
    BY <1>2, <2>1, <2>2, <2>3, CoveringGrows
<1>5. SoldBefore'
  BY <1>1, <1>2, <1>3 DEF PaymentInv, SoldBefore, Resolved, Released, HtlcsOf, TypeOK,
     InvoiceTypeOK
<1>6. UnaskedUnsold'
  BY <1>1, <1>2, <1>3, MainPrepayType DEF PaymentInv, UnaskedUnsold, Present
<1>7. RemovedOver'
  <2>1. i \in {Main(i[1]), Prepay(i[1])} /\ i[1] \in Swaps
    BY DEF Hashes, Main, Prepay
  <2>2. i[1] <= created
    BY <1>1, <2>1 DEF PaymentInv, UnaskedUnsold, Present, TypeOK, SwapTypeOK, Swaps
  <2> QED
    BY <1>1, <1>2, <2>2 DEF RemovedOver
<1>8. ClaimsLocked' /\ stage' = "up"
  BY <1>1 DEF PaymentInv, ClaimsLocked
<1> QED
  BY <1>3, <1>2, <1>4, <1>5, <1>6, <1>7, <1>8 DEF PaymentInv, SameSold

\* Deleting invoices touches no HTLC at lightningd; the settled prepay invoice
\* of a swap goes only when the lockup output is there.
LEMMA WithoutKeepsPayment ==
    ASSUME TypeOK, TypeOK', PaymentInv, NEW I \in SUBSET Hashes, hold' = Without(I),
           UNCHANGED <<stage, created, handling, lockup, cln, request>>,
           expiring' \subseteq expiring, claim' \subseteq claim,
           \A s \in Swaps : Prepay(s) \in I =>
              hold.status[Prepay(s)] # "SETTLED" \/ lockup[s] # "none"
    PROVE  PaymentInv' /\ SameSold
<1>1. /\ \A i \in Hashes : hold'.status[i] = IF i \in I THEN "absent" ELSE hold.status[i]
      /\ \A h \in Htlcs : hold'.htlcs[h] = IF InvoiceOf[h] \in I THEN "none" ELSE hold.htlcs[h]
  BY DEF Without
<1>2. \A h \in Htlcs : HtlcTracked(h)'
  BY <1>1 DEF PaymentInv, HtlcTracked
<1>3. FundedCovered'
  <2> SUFFICES ASSUME NEW j \in Hashes, hold'.status[j] = "FUNDED"
               PROVE  Counted(j)' \in Covering[j]
    BY DEF FundedCovered, FullyFunded
  <2>1. j \notin I /\ Counted(j) \in Covering[j]
    BY <1>1 DEF PaymentInv, FundedCovered, FullyFunded
  <2>2. Counted(j)' = Counted(j)
    BY <1>1, <2>1 DEF Counted, HtlcsOf
  <2> QED
    BY <2>1, <2>2
<1>4. \A s \in Swaps : Sold(s)' <=> Sold(s)
  BY <1>1, MainPrepayType DEF Sold
<1>5. SoldSecured'
  BY <1>1, <1>4, MainPrepayType DEF PaymentInv, SoldSecured, Secured
<1>6. SoldBefore'
  BY <1>4 DEF PaymentInv, SoldBefore, Resolved, TypeOK, InvoiceTypeOK
<1>7. UnaskedUnsold'
  BY <1>1, <1>4, MainPrepayType DEF PaymentInv, UnaskedUnsold, Present
<1>8. RemovedOver'
  BY <1>1 DEF PaymentInv, RemovedOver, TypeOK, InvoiceTypeOK
<1>9. ClaimsLocked' /\ stage' = "up"
  BY DEF PaymentInv, ClaimsLocked
<1> QED
  BY <1>4, <1>2, <1>3, <1>5, <1>6, <1>7, <1>8, <1>9 DEF PaymentInv, SameSold

LEMMA MonitorKeepsPayment ==
    ASSUME TypeOK, TypeOK', PaymentInv, NEW i \in Hashes,
           \/ (MonitorCancels(i) \/ MonitorCancelRaises(i)) /\ Quiet
           \/ MonitorDeletes(i) /\ Writes
    PROVE  PaymentInv' /\ SameSold
<1>1. CASE MonitorDeletes(i) /\ Writes
  <2>1. /\ UNCHANGED <<stage, created, handling, lockup, claim, cln, request>>
        /\ hold' = Without({i}) /\ i \in expiring /\ expiring' = {}
    BY <1>1 DEF MonitorDeletes, Writes, ThreadWrites, requestVars, chainVars, taskVars
  <2>2. \A s \in Swaps : Prepay(s) = i => hold.status[Prepay(s)] # "SETTLED"
    BY <2>1 DEF PaymentInv, RemovedOver, Prepay
  <2> QED
    BY <2>1, <2>2, WithoutKeepsPayment
<1>2. CASE MonitorCancelRaises(i)
  BY <1>2, NoSweepRaises DEF MonitorCancelRaises, PaymentInv
<1> QED
  BY <1>1, <1>2, MonitorCancelsKeepsPayment

\* callback_handler settles the prepay invoice of a swap whose invoice is
\* FUNDED: from here on the swap is sold.
LEMMA HandlerSettlesKeepsPayment ==
    ASSUME TypeOK, TypeOK', PaymentInv, NEW s \in Swaps, HandlerSettles(s), Quiet
    PROVE  PaymentInv'
<1>h. Main(s) \in Hashes /\ Prepay(s) \in Hashes /\ Main(s) # Prepay(s)
  BY MainPrepayType
<1>1. /\ UNCHANGED <<stage, created, expiring, lockup, claim, cln>>
      /\ Sweep(Prepay(s), "SETTLED", "SETTLED", "resolve")
      /\ handling' = {<<s, "save">>} /\ expiring = {}
      /\ hold.status[Main(s)] = "FUNDED"
  BY DEF HandlerSettles, Visits, LockFree, BothFunded, Quiet, swapVars, requestVars,
     chainVars, taskVars
<1>2. /\ \A h \in Htlcs : HtlcTracked(h)'
      /\ hold'.status[Prepay(s)] = "SETTLED"
      /\ \A j \in Hashes \ {Prepay(s)} : hold'.status[j] = hold.status[j]
      /\ FundedCovered'
      /\ \A t \in Swaps : Secured(t) \subseteq Secured(t)'
      /\ \A h \in Htlcs : Released(h)' => Released(h) \/ InvoiceOf[h] = Prepay(s)
  BY <1>1, <1>h, SweepMoves DEF PaymentInv, Statuses
<1>3. \A t \in Swaps : Sold(t)' <=> Sold(t) \/ t = s
  BY <1>1, <1>2, MainPrepayType, HashesDiffer DEF Sold
<1>4. SoldSecured'
  <2> SUFFICES ASSUME NEW t \in Swaps, Sold(t) \/ t = s
               PROVE  /\ Secured(t)' \in Covering[Main(t)]
                      /\ hold'.status[Main(t)] \notin {"UNFUNDED", "FAILED"}
    BY <1>3 DEF SoldSecured
  <2>1. /\ Main(t) \in Hashes /\ Main(t) # Prepay(s)
        /\ Counted(Main(t)) \in SUBSET Htlcs
        /\ Secured(t) \in SUBSET Htlcs /\ Secured(t)' \in SUBSET Htlcs
    BY MainPrepayType, HashesDiffer DEF Counted, Secured, HtlcsOf
  <2>2. CASE t = s
    <3>1. Counted(Main(s)) \in Covering[Main(s)] /\ Counted(Main(s)) \subseteq Secured(s)
      BY <1>1, <1>h, CountedSecured DEF PaymentInv, FundedCovered, FullyFunded
    <3> QED
      BY <1>1, <1>2, <2>1, <2>2, <3>1, CoveringGrows
  <2>3. CASE Sold(t)
    <3>1. Secured(t) \in Covering[Main(t)] /\ hold.status[Main(t)] \notin {"UNFUNDED", "FAILED"}
      BY <2>3 DEF PaymentInv, SoldSecured
    <3> QED
      BY <1>2, <2>1, <3>1, CoveringGrows
  <2> QED
    BY <2>2, <2>3
<1>5. SoldBefore'
  <2>1. ASSUME NEW t \in Swaps, NEW h \in HtlcsOf(Prepay(t)), Released(h)' PROVE Sold(t)'
    BY <1>2, <1>3, <2>1, HashesDiffer DEF PaymentInv, SoldBefore, Resolved, Released, HtlcsOf
  <2> QED
    BY <1>1, <1>3, <2>1 DEF SoldBefore, Resolved, Released
<1>6. UnaskedUnsold'
  BY <1>1, <1>2, <1>3, <1>h, MainPrepayType, HashesDiffer
  DEF PaymentInv, UnaskedUnsold, Present
<1>7. RemovedOver' /\ ClaimsLocked' /\ stage' = "up"
  BY <1>1 DEF PaymentInv, RemovedOver, ClaimsLocked
<1> QED
  BY <1>2, <1>4, <1>5, <1>6, <1>7 DEF PaymentInv

\* _finish_normal_swap settles the swap invoice of a swap with a lockup output.
LEMMA FinishSettlesKeepsPayment ==
    ASSUME TypeOK, TypeOK', PaymentInv, NEW c \in claim, FinishSettles(c.swap, c)
    PROVE  PaymentInv' /\ SameSold
<1> DEFINE s == c.swap
<1>h. s \in Swaps /\ Main(s) \in Hashes
  BY MainPrepayType DEF TypeOK, SwapTypeOK, Reads
<1>1. /\ UNCHANGED <<stage, created, expiring, handling, lockup, cln>>
      /\ Sweep(Main(s), "SETTLED", "SETTLED", "resolve")
      /\ claim' = {[c EXCEPT !.step = "cleanup"]}
      /\ c.lockup # "none" /\ Present(Main(s))
  BY DEF FinishSettles, Extracts, lock, requestVars, chainVars
<1>2. /\ \A h \in Htlcs : HtlcTracked(h)'
      /\ hold'.status[Main(s)] = "SETTLED"
      /\ \A j \in Hashes \ {Main(s)} : hold'.status[j] = hold.status[j]
      /\ FundedCovered'
      /\ \A t \in Swaps : Secured(t) \subseteq Secured(t)'
      /\ \A h \in Htlcs : Released(h)' => Released(h) \/ InvoiceOf[h] = Main(s)
  BY <1>1, <1>h, SweepMoves DEF PaymentInv, Statuses
<1>3. \A t \in Swaps : Sold(t)' <=> Sold(t)
  BY <1>h, <1>1, <1>2, MainPrepayType, HashesDiffer DEF Sold
<1>4. SoldSecured'
  <2> SUFFICES ASSUME NEW t \in Swaps, Sold(t)
               PROVE  /\ Secured(t)' \in Covering[Main(t)]
                      /\ hold'.status[Main(t)] \notin {"UNFUNDED", "FAILED"}
    BY <1>3 DEF SoldSecured
  <2>1. /\ Main(t) \in Hashes
        /\ Secured(t) \in SUBSET Htlcs /\ Secured(t)' \in SUBSET Htlcs
    BY MainPrepayType DEF Secured, HtlcsOf
  <2>2. Secured(t) \in Covering[Main(t)] /\ hold.status[Main(t)] \notin {"UNFUNDED", "FAILED"}
    BY DEF PaymentInv, SoldSecured
  <2> QED
    BY <1>2, <2>1, <2>2, CoveringGrows
<1>5. SoldBefore'
  <2>1. ASSUME NEW t \in Swaps, NEW h \in HtlcsOf(Prepay(t)), Released(h)' PROVE Sold(t)'
    BY <1>h, <1>2, <1>3, <2>1, HashesDiffer
    DEF PaymentInv, SoldBefore, Resolved, Released, HtlcsOf
  <2> QED
    BY <1>1, <1>3, <2>1 DEF PaymentInv, SoldBefore, Resolved, Released, TypeOK, InvoiceTypeOK
<1>6. UnaskedUnsold'
  BY <1>h, <1>1, <1>2, <1>3, MainPrepayType, HashesDiffer
  DEF PaymentInv, UnaskedUnsold, Present
<1>7. RemovedOver'
  BY <1>h, <1>1, <1>2 DEF PaymentInv, RemovedOver, TypeOK, InvoiceTypeOK, Main
<1>8. ClaimsLocked' /\ stage' = "up"
  <2>1. lockup[s] # "none" /\ [c EXCEPT !.step = "cleanup"].swap = s
    BY <1>1 DEF PaymentInv, ClaimsLocked, TypeOK, SwapTypeOK, Reads
  <2> QED
    BY <1>1, <2>1 DEF PaymentInv, ClaimsLocked
<1> QED
  BY <1>3, <1>2, <1>4, <1>5, <1>6, <1>7, <1>8 DEF PaymentInv, SameSold

LEMMA ClaimKeepsPayment ==
    ASSUME TypeOK, TypeOK', PaymentInv, NEW c \in claim,
           \/ ClaimUnfunded(c.swap, c) \/ ClaimDrops(c.swap, c) \/ FinishSettles(c.swap, c)
           \/ FinishRaises(c.swap, c) \/ ClaimSeesRefund(c.swap, c)
           \/ ClaimRefunds(c.swap, c) \/ FinishCleansUp(c)
    PROVE  PaymentInv' /\ SameSold
<1> DEFINE s == c.swap
<1>h. s \in Swaps /\ Main(s) \in Hashes /\ Prepay(s) \in Hashes
  BY MainPrepayType DEF TypeOK, SwapTypeOK, Reads
<1>s. ASSUME UNCHANGED <<stage, hold, cln, request, created, expiring, handling, lockup>>,
             claim' = {}
      PROVE  PaymentInv' /\ SameSold
  BY <1>s, SameBooksKeepPayment
<1>f. ASSUME NEW sw, ClaimFails(s, sw) PROVE PaymentInv' /\ SameSold
  BY <1>f, <1>s DEF ClaimFails, FailSwap, lock, requestVars, chainVars
<1>e. ASSUME NEW sw, ClaimEnds(s, sw), UNCHANGED lockup PROVE PaymentInv' /\ SameSold
  BY <1>e, <1>s DEF ClaimEnds, invoiceVars, requestVars
<1>1. CASE ClaimUnfunded(s, c) \/ ClaimDrops(s, c) \/ ClaimSeesRefund(s, c)
  BY <1>1, <1>e, <1>f DEF ClaimUnfunded, ClaimDrops, ClaimSeesRefund, chainVars
<1>2. CASE ClaimRefunds(s, c)
  BY <1>2, <1>e DEF ClaimRefunds, RefundBroadcast, chainVars
<1>3. CASE FinishRaises(s, c)
  <2>1. ~SweepRaises(Main(s), "SETTLED", "resolve")
    BY NoSweepRaises DEF PaymentInv
  <2> QED
    BY <1>3, <1>s, <2>1 DEF FinishRaises, lock, requestVars, chainVars
<1>4. CASE FinishCleansUp(c)
  <2>1. lockup[s] # "none"
    BY <1>4 DEF FinishCleansUp, PaymentInv, ClaimsLocked
  <2>2. /\ UNCHANGED <<stage, created, handling, expiring, lockup, cln, request>>
        /\ hold' = Without({Main(s), Prepay(s)}) /\ claim' = {}
    BY <1>4 DEF FinishCleansUp, lock, requestVars, chainVars
  <2> QED
    BY <1>h, <2>1, <2>2, WithoutKeepsPayment, HashesDiffer
<1> QED
  BY <1>1, <1>2, <1>3, <1>4, FinishSettlesKeepsPayment

\* The invoices of a new swap are UNFUNDED.
LEMMA CreateKeepsPayment ==
    ASSUME TypeOK, TypeOK', PaymentInv, NEW s \in Swaps, CreateInvoices(s) PROVE PaymentInv' /\ SameSold
<1>t. created \in Nat /\ \A t \in Swaps : t \in Nat
  BY DEF TypeOK, SwapTypeOK, Swaps
<1>1. /\ UNCHANGED <<stage, cln, request, expiring, handling, lockup, claim>>
      /\ s = created + 1 /\ created' = s
  BY DEF CreateInvoices, lock, taskVars, chainVars
<1>2. /\ hold'.htlcs = hold.htlcs
      /\ \A i \in Hashes : hold'.status[i] = IF i[1] = s THEN "UNFUNDED" ELSE hold.status[i]
  BY DEF CreateInvoices, TypeOK, InvoiceTypeOK, Books
<1>3. \A t \in Swaps : /\ hold'.status[Main(t)] = IF t = s THEN "UNFUNDED" ELSE hold.status[Main(t)]
                       /\ hold'.status[Prepay(t)] = IF t = s THEN "UNFUNDED" ELSE hold.status[Prepay(t)]
  BY <1>2, MainPrepayType DEF Main, Prepay
<1>4. ~Sold(s)
  BY <1>1, <1>t DEF PaymentInv, UnaskedUnsold
<1>5. \A t \in Swaps : Sold(t)' <=> Sold(t)
  BY <1>1, <1>3, <1>4 DEF Sold
<1>6. \A h \in Htlcs : HtlcTracked(h)'
  BY <1>1, <1>2 DEF PaymentInv, HtlcTracked
<1>7. FundedCovered'
  BY <1>2 DEF PaymentInv, FundedCovered, FullyFunded, Counted, HtlcsOf
<1>8. SoldSecured'
  BY <1>1, <1>3, <1>4, <1>5 DEF PaymentInv, SoldSecured, Secured
<1>9. SoldBefore'
  BY <1>1, <1>5 DEF PaymentInv, SoldBefore, Resolved, TypeOK, InvoiceTypeOK
<1>10. UnaskedUnsold'
  <2> SUFFICES ASSUME NEW t \in Swaps, t > s
               PROVE  /\ hold'.status[Main(t)] = "absent" /\ hold'.status[Prepay(t)] = "absent"
                      /\ ~Sold(t)
    BY <1>1, <1>5 DEF UnaskedUnsold, Present
  <2>1. t > created /\ t # s
    BY <1>1, <1>t
  <2> QED
    BY <1>3, <2>1 DEF PaymentInv, UnaskedUnsold, Present
<1>11. RemovedOver'
  <2>1. expiring' = expiring /\ created' = s
    BY <1>1
  <2>2. ASSUME NEW i \in expiring
        PROVE  /\ hold'.status[i] \notin {"UNFUNDED", "FUNDED"}
               /\ i[2] = "prepay" => hold'.status[i] # "SETTLED"
               /\ i[1] <= s
    <3>1. i \in Hashes /\ i[1] <= created /\ i[1] \in Nat
      BY <1>t DEF PaymentInv, RemovedOver, TypeOK, InvoiceTypeOK, Hashes
    <3> QED
      BY <1>1, <1>2, <1>t, <3>1 DEF PaymentInv, RemovedOver
  <2> QED
    BY <2>1, <2>2 DEF RemovedOver
<1>12. ClaimsLocked' /\ stage' = "up"
  BY <1>1 DEF PaymentInv, ClaimsLocked
<1> QED
  BY <1>5, <1>6, <1>7, <1>8, <1>9, <1>10, <1>11, <1>12 DEF PaymentInv, SameSold

-----------------------------------------------------------------------------
(* The theorems about the HTLCs that pay *)

LEMMA InitPayment == Init => PaymentInv
<1> SUFFICES ASSUME Init PROVE PaymentInv
  OBVIOUS
<1>1. \A i \in Hashes : hold.status[i] = "absent"
  BY DEF Init
<1>2. \A s \in Swaps : ~Sold(s) /\ ~Present(Main(s)) /\ ~Present(Prepay(s))
  BY <1>1, MainPrepayType DEF Init, Sold, Present
<1>3. SoldBefore
  BY DEF Init, SoldBefore, Resolved, HtlcsOf
<1> QED
  BY <1>1, <1>2, <1>3 DEF Init, PaymentInv, HtlcTracked, FundedCovered, SoldSecured,
     UnaskedUnsold, RemovedOver, ClaimsLocked

LEMMA NextPayment ==
    ASSUME NoCrash, TypeOK, TypeOK', PaymentInv, [Next]_vars
    PROVE  PaymentInv' /\ (SameSold \/ \E s \in Swaps : HandlerSettles(s) /\ Quiet)
<1>1. CASE CreateMoves
  BY <1>1, CreateKeepsPayment, RestKeepsPayment DEF CreateMoves
<1>2. CASE HookMoves
  BY <1>2, HookKeepsPayment DEF HookMoves
<1>3. CASE MonitorMoves
  BY <1>3, MonitorKeepsPayment DEF MonitorMoves
<1>4. CASE HandlerMoves
  <2>1. \A s \in Swaps : ~HandlerSettleRaises(s)
    BY NoSweepRaises DEF HandlerSettleRaises, PaymentInv
  <2> QED
    BY <1>4, <2>1, HandlerWaitsKeepsPayment, HandlerSettlesKeepsPayment, RestKeepsPayment
    DEF HandlerMoves
<1>5. CASE ClaimMoves
  BY <1>5, ClaimKeepsPayment, RestKeepsPayment DEF ClaimMoves
<1>6. CASE ClnMoves
  BY <1>6, LightningKeepsPayment DEF ClnMoves
<1>7. ~Crash /\ ~RestartLightning /\ ~RestartSwaps
  BY DEF NoCrash, Crash, Fault, RestartLightning, RestartSwaps, PaymentInv
<1> QED
  BY <1>1, <1>2, <1>3, <1>4, <1>5, <1>6, <1>7, RestKeepsPayment DEF Next

LEMMA PaymentInvariant == ASSUME NoCrash PROVE Spec => []PaymentInv
<1>1. Init => PaymentInv
  BY InitPayment
<1>2. TypeOK /\ TypeOK' /\ PaymentInv /\ [Next]_vars => PaymentInv'
  BY NextPayment
<1> QED
  BY <1>1, <1>2, TypeCorrect, PTL DEF Spec

LEMMA SoldKept ==
    ASSUME PaymentInv, NEW s \in Swaps, Sold(s) PROVE Kept(Main(s)) \in Covering[Main(s)]
<1>1. Secured(s) \in Covering[Main(s)] /\ Secured(s) \subseteq Kept(Main(s))
  BY SecuredKept DEF PaymentInv, SoldSecured
<1>2. Secured(s) \in SUBSET Htlcs /\ Kept(Main(s)) \in SUBSET Htlcs
  BY DEF Secured, Kept, HtlcsOf
<1> QED
  BY <1>1, <1>2, CoveringGrows, MainPrepayType

\* The hook, the expiry thread and the callback thread keep the HTLCs that pay
\* for a lockup output the client can claim, whatever the asyncio loop is doing
\* and however old the reads are it acts on.
THEOREM ThreadsKeepWhatPays == ASSUME NoCrash PROVE Spec => []KeepsWhatPays
<1>1. PaymentInv => KeepsWhatPays
  BY SoldKept DEF KeepsWhatPays, Unspent, Sold
<1> QED
  BY <1>1, PaymentInvariant, PTL

\* hold_invoice.settle of the prepay invoice comes only when the swap invoice is
\* paid, and what paid it is not given back afterwards.
THEOREM FeesBuySwap == ASSUME NoCrash PROVE Spec => []PrepayBuysSwap
<1>1. PaymentInv => PrepayBuysSwap
  BY SoldKept DEF PrepayBuysSwap, PaymentInv, SoldBefore, Resolved, HtlcsOf
<1> QED
  BY <1>1, PaymentInvariant, PTL
-----------------------------------------------------------------------------
(* ForwardSwap implements AtomicSwap *)

\* The variables of AtomicSwap, at swap s.
Locked(s) == lockup[s] # "none"
Settled(s) == Fulfils(Main(s))

\* What AtomicSwap sees of swap s stays the same, but for one of its variables.
ButPaid(s) ==
    /\ Sold(s)' = Sold(s) /\ Locked(s)' = Locked(s)
    /\ spender'[s] = spender[s] /\ Settled(s)' = Settled(s)
ButSold(s) ==
    /\ Paid(s)' = Paid(s) /\ Locked(s)' = Locked(s)
    /\ spender'[s] = spender[s] /\ Settled(s)' = Settled(s)
ButLocked(s) ==
    /\ Paid(s)' = Paid(s) /\ Sold(s)' = Sold(s)
    /\ spender'[s] = spender[s] /\ Settled(s)' = Settled(s)
ButSpent(s) ==
    /\ Paid(s)' = Paid(s) /\ Sold(s)' = Sold(s)
    /\ Locked(s)' = Locked(s) /\ Settled(s)' = Settled(s)
ButSettled(s) ==
    /\ Paid(s)' = Paid(s) /\ Sold(s)' = Sold(s)
    /\ Locked(s)' = Locked(s) /\ spender'[s] = spender[s]
SameOutside(s) == ButPaid(s) /\ Paid(s)' = Paid(s)

\* The changes that AtomicSwap allows.
OutsideStep(s) ==
    \/ SameOutside(s)
    \/ ButPaid(s) /\ (Sold(s) => Paid(s) /\ Paid(s)')
    \/ ButSold(s) /\ Paid(s) /\ ~Sold(s) /\ Sold(s)'
    \/ ButLocked(s) /\ Paid(s) /\ Sold(s) /\ Locked(s)'
    \/ /\ ButSpent(s) /\ Locked(s) /\ spender[s] # "claim"
       /\ spender'[s] = "claim" \/ (spender[s] = "none" /\ spender'[s] = "refund")
    \/ ButSettled(s) /\ Paid(s) /\ spender[s] = "claim" /\ Settled(s)'

LEMMA OutsideBooleans ==
    \A s \in Swaps : /\ Paid(s) \in BOOLEAN /\ FeePaid(s) \in BOOLEAN /\ Sold(s) \in BOOLEAN
                     /\ Locked(s) \in BOOLEAN /\ Settled(s) \in BOOLEAN
  BY DEF Paid, FeePaid, Sold, Locked, Settled, Fulfils

LEMMA FeePaidIsSold ==
    ASSUME PaymentInv, NEW s \in Swaps PROVE FeePaid(s) = Sold(s)
<1>1. FeePaid(s) <=> Sold(s)
  BY DEF PaymentInv, SoldBefore, FeePaid
<1> QED
  BY <1>1, OutsideBooleans

\* One swap makes such a change, and the others none.
AllowedStep ==
    \/ \A t \in Swaps : SameOutside(t)
    \/ \E s \in Swaps : OutsideStep(s) /\ \A t \in Swaps \ {s} : SameOutside(t)

LEMMA AllowedStepImplements ==
    ASSUME PaymentInv, PaymentInv', AllowedStep PROVE [Abstract!Next]_(Abstract!vars)
<1> DEFINE paid == [t \in Swaps |-> Paid(t)]
           fee == [t \in Swaps |-> FeePaid(t)]
           locked == [t \in Swaps |-> lockup[t] # "none"]
           spentBy == [t \in Swaps |-> IF spender[t] = "none" THEN "nobody" ELSE spender[t]]
           settled == [t \in Swaps |-> Fulfils(Main(t))]
<1>b. \A t \in Swaps : /\ Paid(t)' \in BOOLEAN /\ Sold(t)' \in BOOLEAN
                       /\ Locked(t)' \in BOOLEAN /\ Settled(t)' \in BOOLEAN
  BY DEF Paid, Sold, Locked, Settled, Fulfils
<1>f. \A t \in Swaps : FeePaid(t) = Sold(t)
  BY FeePaidIsSold
<1>g. \A t \in Swaps : FeePaid(t)' = Sold(t)'
  <2>1. \A t \in Swaps : FeePaid(t)' <=> Sold(t)'
    BY DEF PaymentInv, SoldBefore, FeePaid
  <2>2. \A t \in Swaps : FeePaid(t)' \in BOOLEAN
    BY DEF FeePaid, Sold
  <2> QED
    BY <1>b, <2>1, <2>2
\* Each function changes as its values do.
<1>1. ASSUME \A t \in Swaps : Paid(t)' = Paid(t) PROVE paid' = paid
  BY <1>1
<1>2. ASSUME \A t \in Swaps : Sold(t)' = Sold(t) PROVE fee' = fee
  BY <1>2, <1>f, <1>g
<1>3. ASSUME \A t \in Swaps : Locked(t)' = Locked(t) PROVE locked' = locked
  BY <1>3 DEF Locked
<1>4. ASSUME \A t \in Swaps : spender'[t] = spender[t] PROVE spentBy' = spentBy
  BY <1>4
<1>5. ASSUME \A t \in Swaps : Settled(t)' = Settled(t) PROVE settled' = settled
  BY <1>5 DEF Settled
<1>6. ASSUME NEW s \in Swaps, NEW v, Paid(s)' = v,
             \A t \in Swaps \ {s} : Paid(t)' = Paid(t)
      PROVE  paid' = [paid EXCEPT ![s] = v]
  BY <1>6
<1>7. ASSUME NEW s \in Swaps, NEW v, Sold(s)' = v,
             \A t \in Swaps \ {s} : Sold(t)' = Sold(t)
      PROVE  fee' = [fee EXCEPT ![s] = v]
  BY <1>7, <1>f, <1>g
<1>8. ASSUME NEW s \in Swaps, NEW v, Locked(s)' = v,
             \A t \in Swaps \ {s} : Locked(t)' = Locked(t)
      PROVE  locked' = [locked EXCEPT ![s] = v]
  BY <1>8 DEF Locked
<1>9. ASSUME NEW s \in Swaps, NEW v, v # "none", spender'[s] = v,
             \A t \in Swaps \ {s} : spender'[t] = spender[t]
      PROVE  spentBy' = [spentBy EXCEPT ![s] = v]
  BY <1>9
<1>10. ASSUME NEW s \in Swaps, NEW v, Settled(s)' = v,
             \A t \in Swaps \ {s} : Settled(t)' = Settled(t)
       PROVE  settled' = [settled EXCEPT ![s] = v]
  BY <1>10 DEF Settled
<1>11. CASE \A t \in Swaps : SameOutside(t)
  <2>1. paid' = paid /\ fee' = fee /\ locked' = locked /\ spentBy' = spentBy /\ settled' = settled
    BY <1>1, <1>2, <1>3, <1>4, <1>5, <1>11 DEF SameOutside, ButPaid
  <2> QED
    BY <2>1 DEF Abstract!vars
<1> SUFFICES ASSUME NEW s \in Swaps, OutsideStep(s), \A t \in Swaps \ {s} : SameOutside(t)
             PROVE  [Abstract!Next]_(Abstract!vars)
  BY <1>11 DEF AllowedStep
<1>e. /\ Paid(s)' \in BOOLEAN /\ Sold(s)' \in BOOLEAN /\ Locked(s)' \in BOOLEAN
      /\ Settled(s)' \in BOOLEAN /\ Paid(s) \in BOOLEAN /\ Settled(s) \in BOOLEAN
      /\ Sold(s) \in BOOLEAN /\ Locked(s) \in BOOLEAN
      /\ FeePaid(s) = Sold(s)
  BY <1>b, <1>f, OutsideBooleans
<1>s. CASE SameOutside(s)
  BY <1>11, <1>s
<1>12. CASE ~SameOutside(s) /\ ButPaid(s) /\ (Sold(s) => Paid(s) /\ Paid(s)')
  <2>1. fee' = fee /\ locked' = locked /\ spentBy' = spentBy /\ settled' = settled
    BY <1>2, <1>3, <1>4, <1>5, <1>12 DEF SameOutside, ButPaid
  <2>2. \A t \in Swaps \ {s} : Paid(t)' = Paid(t)
    BY DEF SameOutside
  <2>3. CASE Paid(s)
    <3>1. Paid(s)' = FALSE /\ ~Sold(s)
      BY <1>e, <1>12, <2>3 DEF SameOutside
    <3>2. paid' = [paid EXCEPT ![s] = FALSE]
      BY <1>6, <2>2, <3>1
    <3>3. paid[s] /\ ~fee[s]
      BY <1>e, <2>3, <3>1
    <3>4. Abstract!GiveBack(s)
      BY <2>1, <3>2, <3>3 DEF Abstract!GiveBack
    <3> QED
      BY <3>4 DEF Abstract!Next
  <2>4. CASE ~Paid(s)
    <3>1. Paid(s)' = TRUE
      BY <1>e, <1>12, <2>4 DEF SameOutside
    <3>2. paid' = [paid EXCEPT ![s] = TRUE]
      BY <1>6, <2>2, <3>1
    <3>3. ~paid[s]
      BY <2>4
    <3>4. Abstract!Pay(s)
      BY <2>1, <3>2, <3>3 DEF Abstract!Pay
    <3> QED
      BY <3>4 DEF Abstract!Next
  <2> QED
    BY <2>3, <2>4
<1>13. CASE ButSold(s) /\ Paid(s) /\ ~Sold(s) /\ Sold(s)'
  <2>1. paid' = paid /\ locked' = locked /\ spentBy' = spentBy /\ settled' = settled
    BY <1>1, <1>3, <1>4, <1>5, <1>13 DEF SameOutside, ButPaid, ButSold
  <2>2. fee' = [fee EXCEPT ![s] = TRUE]
    BY <1>7, <1>e, <1>13 DEF SameOutside, ButPaid
  <2>3. paid[s] /\ ~fee[s]
    BY <1>e, <1>13
  <2>4. Abstract!TakeFees(s)
    BY <2>1, <2>2, <2>3 DEF Abstract!TakeFees
  <2> QED
    BY <2>4 DEF Abstract!Next
<1>14. CASE ~SameOutside(s) /\ ButLocked(s) /\ Paid(s) /\ Sold(s) /\ Locked(s)'
  <2>1. paid' = paid /\ fee' = fee /\ spentBy' = spentBy /\ settled' = settled
    BY <1>1, <1>2, <1>4, <1>5, <1>14 DEF SameOutside, ButPaid, ButLocked
  <2>2. locked' = [locked EXCEPT ![s] = TRUE]
    BY <1>8, <1>e, <1>14 DEF SameOutside, ButPaid
  <2>3. paid[s] /\ fee[s] /\ ~locked[s]
    BY <1>e, <1>14 DEF SameOutside, ButPaid, ButLocked, Locked
  <2>4. Abstract!Lock(s)
    BY <2>1, <2>2, <2>3 DEF Abstract!Lock
  <2> QED
    BY <2>4 DEF Abstract!Next
<1>15. CASE ButSpent(s) /\ Locked(s) /\ spender[s] # "claim" /\ spender'[s] = "claim"
  <2>1. paid' = paid /\ fee' = fee /\ locked' = locked /\ settled' = settled
    BY <1>1, <1>2, <1>3, <1>5, <1>15 DEF SameOutside, ButPaid, ButSpent
  <2>2. spentBy' = [spentBy EXCEPT ![s] = "claim"]
    BY <1>9, <1>15 DEF SameOutside, ButPaid
  <2>3. locked[s] /\ spentBy[s] # "claim"
    BY <1>15 DEF Locked
  <2>4. Abstract!Claim(s)
    BY <2>1, <2>2, <2>3 DEF Abstract!Claim
  <2> QED
    BY <2>4 DEF Abstract!Next
<1>16. CASE ButSpent(s) /\ Locked(s) /\ spender[s] = "none" /\ spender'[s] = "refund"
  <2>1. paid' = paid /\ fee' = fee /\ locked' = locked /\ settled' = settled
    BY <1>1, <1>2, <1>3, <1>5, <1>16 DEF SameOutside, ButPaid, ButSpent
  <2>2. spentBy' = [spentBy EXCEPT ![s] = "refund"]
    BY <1>9, <1>16 DEF SameOutside, ButPaid
  <2>3. locked[s] /\ spentBy[s] = "nobody"
    BY <1>16 DEF Locked
  <2>4. Abstract!Refund(s)
    BY <2>1, <2>2, <2>3 DEF Abstract!Refund
  <2> QED
    BY <2>4 DEF Abstract!Next
<1>17. CASE ~SameOutside(s) /\ ButSettled(s) /\ Paid(s) /\ spender[s] = "claim" /\ Settled(s)'
  <2>1. paid' = paid /\ fee' = fee /\ locked' = locked /\ spentBy' = spentBy
    BY <1>1, <1>2, <1>3, <1>4, <1>17 DEF SameOutside, ButPaid, ButSettled
  <2>2. settled' = [settled EXCEPT ![s] = TRUE]
    BY <1>10, <1>e, <1>17 DEF SameOutside, ButPaid
  <2>3. paid[s] /\ spentBy[s] = "claim" /\ ~settled[s]
    BY <1>e, <1>17 DEF SameOutside, ButPaid, ButSettled, Settled
  <2>4. Abstract!Settle(s)
    BY <2>1, <2>2, <2>3 DEF Abstract!Settle
  <2> QED
    BY <2>4 DEF Abstract!Next
<1> QED
  BY <1>s, <1>12, <1>13, <1>14, <1>15, <1>16, <1>17 DEF OutsideStep

-----------------------------------------------------------------------------
(* Every step is one that AtomicSwap allows *)

LEMMA SoldPaid == ASSUME PaymentInv, NEW s \in Swaps, Sold(s) PROVE Paid(s)
  BY SoldKept DEF Paid

\* The same of the state after a step.
LEMMA SoldPaidNext == ASSUME PaymentInv', NEW s \in Swaps, Sold(s)' PROVE Paid(s)'
<1>1. Secured(s)' \in Covering[Main(s)]
  BY DEF PaymentInv, SoldSecured
<1>2. Secured(s)' \subseteq Kept(Main(s))'
  BY DEF Secured, Kept
<1>3. Secured(s)' \in SUBSET Htlcs /\ Kept(Main(s))' \in SUBSET Htlcs
  BY DEF Secured, Kept, HtlcsOf
<1> QED
  BY <1>1, <1>2, <1>3, CoveringGrows, MainPrepayType DEF Paid

LEMMA SoldStays == ASSUME SameSold PROVE \A s \in Swaps : Sold(s)' = Sold(s)
<1>1. \A s \in Swaps : Sold(s) \in BOOLEAN /\ Sold(s)' \in BOOLEAN
  BY DEF Sold
<1> QED
  BY <1>1 DEF SameSold

\* What is seen of a swap depends on the HTLCs of its invoice.
LEMMA SameHtlcs ==
    ASSUME NEW s \in Swaps,
           \A h \in HtlcsOf(Main(s)) : cln'[h] = cln[h] /\ request'[h] = request[h]
    PROVE  Paid(s)' = Paid(s) /\ Settled(s)' = Settled(s)
<1>1. Kept(Main(s))' = Kept(Main(s))
  BY DEF Kept, HtlcsOf
<1>2. Settled(s)' <=> Settled(s)
  BY DEF Settled, Fulfils, HtlcsOf
<1>3. Settled(s)' \in BOOLEAN /\ Settled(s) \in BOOLEAN
  BY DEF Settled, Fulfils
<1> QED
  BY <1>1, <1>2, <1>3 DEF Paid

\* Steps that move no HTLC.
LEMMA NothingSeen ==
    ASSUME SameSold, UNCHANGED <<cln, request, spender>>,
           \A s \in Swaps : lockup'[s] # "none" <=> lockup[s] # "none"
    PROVE  AllowedStep
<1>1. \A s \in Swaps : Paid(s)' = Paid(s) /\ Settled(s)' = Settled(s)
  BY SameHtlcs
<1>2. \A s \in Swaps : Locked(s)' = Locked(s)
  BY DEF Locked
<1> QED
  BY <1>1, <1>2, SoldStays DEF AllowedStep, SameOutside, ButPaid

Fulfilling(h) == cln[h] = "fulfilled" \/ (request[h] = "resolve" /\ cln[h] = "held")

\* Steps that move the HTLCs of one invoice and fulfil none: what a thread gives
\* back has not been sold.
LEMMA HtlcsSeen ==
    ASSUME PaymentInv, PaymentInv', SameSold, UNCHANGED <<lockup, spender>>, NEW i \in Hashes,
           \A h \in Htlcs : InvoiceOf[h] # i => cln'[h] = cln[h] /\ request'[h] = request[h],
           \A h \in Htlcs : Fulfilling(h)' <=> Fulfilling(h)
    PROVE  AllowedStep
<1> DEFINE s == i[1]
<1>0. s \in Swaps /\ \A t \in Swaps \ {s} : Main(t) # i
  BY DEF Hashes, Main
<1>1. \A t \in Swaps : Settled(t)' = Settled(t)
  <2>1. \A t \in Swaps : Settled(t)' <=> Settled(t)
    BY DEF Settled, Fulfils, Fulfilling, HtlcsOf
  <2> QED
    BY <2>1 DEF Settled, Fulfils
<1>2. \A t \in Swaps : ButPaid(t)
  BY <1>1, SoldStays DEF ButPaid, Locked
<1>3. \A t \in Swaps \ {s} : Paid(t)' = Paid(t)
  BY <1>0, SameHtlcs DEF HtlcsOf
<1>4. Sold(s) => Paid(s) /\ Paid(s)'
  BY <1>0, SoldPaid, SoldPaidNext, SoldStays
<1>5. OutsideStep(s)
  BY <1>0, <1>2, <1>4 DEF OutsideStep
<1> QED
  BY <1>0, <1>2, <1>3, <1>5 DEF AllowedStep, SameOutside

LEMMA LightningSeen ==
    ASSUME TypeOK, PaymentInv, PaymentInv', SameSold, NEW h \in Htlcs, Quiet,
           \/ \E d \in CltvDeltas : HtlcArrives(h, d)
           \/ HtlcReplayed(h) \/ ClnCommits(h) \/ HtlcTimesOut(h)
    PROVE  AllowedStep
<1>1. UNCHANGED <<lockup, spender>> /\ InvoiceOf[h] \in Hashes
  BY HtlcsAssumption DEF Quiet, chainVars
<1>2. cln \in [Htlcs -> ClnStates] /\ request \in [Htlcs -> Requests]
  BY DEF TypeOK, InvoiceTypeOK
<1>3. /\ \A g \in Htlcs \ {h} : cln'[g] = cln[g] /\ request'[g] = request[g]
      /\ Fulfilling(h)' <=> Fulfilling(h)
  <2>1. CASE \E d \in CltvDeltas : HtlcArrives(h, d)
    BY <1>2, <2>1 DEF HtlcArrives, Fulfilling
  <2>2. CASE HtlcReplayed(h)
    BY <1>2, <2>2 DEF HtlcReplayed, Fulfilling
  <2>3. CASE ClnCommits(h)
    BY <1>2, <2>3 DEF ClnCommits, Resolution, Fulfilling
  <2>4. CASE HtlcTimesOut(h)
    BY <1>2, <2>4 DEF HtlcTimesOut, Fulfilling
  <2> QED
    BY <2>1, <2>2, <2>3, <2>4
<1> QED
  <2>1. \A g \in Htlcs : Fulfilling(g)' <=> Fulfilling(g)
    BY <1>3 DEF Fulfilling
  <2> QED
    BY <1>1, <1>3, <2>1, HtlcsSeen

LEMMA HookSeen ==
    ASSUME TypeOK, PaymentInv, PaymentInv', SameSold, NEW h \in Htlcs,
           \/ (HookContinues(h) \/ HookReplaces(h) \/ HookRejects(h) \/ HookAccepts(h)) /\ Quiet
           \/ HookSaveRaises(h) /\ Quiet
           \/ HookSaves(h) /\ Writes
    PROVE  AllowedStep
<1>1. UNCHANGED <<lockup, spender, cln>> /\ InvoiceOf[h] \in Hashes
  BY HtlcsAssumption DEF Quiet, Writes, chainVars, HookContinues, HookReplaces, HookRejects,
     HookAccepts, HookSaves, HookSaveRaises
<1>2. CASE HookSaves(h) \/ HookSaveRaises(h)
  BY <1>1, <1>2, NothingSeen DEF HookSaves, HookSaveRaises
<1>3. CASE HookContinues(h) \/ HookReplaces(h) \/ HookRejects(h) \/ HookAccepts(h)
  <2>1. request[h] = "asked"
    BY <1>3 DEF HookContinues, HookReplaces, HookRejects, HookAccepts, HookStarts
  <2>2. /\ \A g \in Htlcs \ {h} : request'[g] = request[g]
        /\ request'[h] # "resolve"
    BY <1>3 DEF HookContinues, HookReplaces, HookRejects, HookAccepts, Answer, TypeOK,
       InvoiceTypeOK
  <2> QED
    BY <1>1, <2>1, <2>2, HtlcsSeen DEF Fulfilling
<1> QED
  BY <1>2, <1>3

LEMMA MonitorSeen ==
    ASSUME TypeOK, PaymentInv, PaymentInv', SameSold, NEW i \in Hashes,
           \/ (MonitorCancels(i) \/ MonitorCancelRaises(i)) /\ Quiet
           \/ MonitorDeletes(i) /\ Writes
    PROVE  AllowedStep
<1>1. UNCHANGED <<lockup, spender, cln>>
  BY DEF Quiet, Writes, chainVars, MonitorCancels, MonitorCancelRaises, MonitorDeletes
<1>2. CASE MonitorDeletes(i)
  BY <1>1, <1>2, NothingSeen DEF MonitorDeletes
<1>3. CASE MonitorCancelRaises(i)
  BY <1>3, NoSweepRaises DEF MonitorCancelRaises, PaymentInv
<1>4. CASE MonitorCancels(i)
  <2>1. \A h \in Htlcs : /\ request'[h] = IF h \in Accepted(i) THEN "fail" ELSE request[h]
                         /\ h \in Accepted(i) => request[h] = "waiting" /\ InvoiceOf[h] = i
    BY <1>4 DEF MonitorCancels, Sweep, Accepted, HtlcsOf, PaymentInv, HtlcTracked
  <2> QED
    BY <1>1, <2>1, HtlcsSeen DEF Fulfilling
<1> QED
  BY <1>2, <1>3, <1>4

\* callback_handler takes the fees of a swap that is paid.
LEMMA HandlerSettlesSeen ==
    ASSUME TypeOK, PaymentInv, PaymentInv', NEW s \in Swaps, HandlerSettles(s), Quiet
    PROVE  AllowedStep
<1>1. /\ UNCHANGED <<lockup, spender, cln>>
      /\ Sweep(Prepay(s), "SETTLED", "SETTLED", "resolve")
  BY DEF HandlerSettles, Quiet, chainVars
<1>2. \A t \in Swaps : \A h \in HtlcsOf(Main(t)) : request'[h] = request[h]
  BY <1>1, HashesDiffer DEF Sweep, Accepted, HtlcsOf
<1>3. \A t \in Swaps : ButSold(t)
  BY <1>1, <1>2, SameHtlcs DEF ButSold, Locked
<1>4. /\ hold'.status[Prepay(s)] = "SETTLED"
      /\ \A t \in Swaps \ {s} : hold'.status[Prepay(t)] = hold.status[Prepay(t)]
  BY <1>1, MainPrepayType, HashesDiffer DEF Sweep, TypeOK, InvoiceTypeOK, Books
<1>5. Sold(s)' = TRUE /\ \A t \in Swaps \ {s} : Sold(t)' = Sold(t)
  BY <1>1, <1>4 DEF Sold
<1>6. Paid(s)
  BY <1>3, <1>5, SoldPaidNext DEF ButSold
<1>7. \A t \in Swaps \ {s} : SameOutside(t)
  BY <1>3, <1>5 DEF SameOutside, ButSold, ButPaid
<1>8. OutsideStep(s)
  <2>1. CASE Sold(s)
    <3>1. Sold(s)' = Sold(s)
      BY <1>5, <2>1 DEF Sold
    <3> QED
      BY <1>3, <3>1 DEF OutsideStep, SameOutside, ButPaid, ButSold
  <2> QED
    BY <1>3, <1>5, <1>6, <2>1 DEF OutsideStep
<1> QED
  BY <1>7, <1>8 DEF AllowedStep

\* It publishes the funding transaction of a swap it has sold.
LEMMA HandlerSeen ==
    ASSUME TypeOK, PaymentInv, PaymentInv', SameSold, NEW s \in Swaps,
           \/ (HandlerForgets(s) \/ HandlerSkips(s) \/ HandlerRaises(s)) /\ Quiet
           \/ HandlerSaves(s) /\ Writes
           \/ CallbackReturns(s) \/ CallbackCreatesTx(s) \/ CallbackRaises(s)
           \/ CallbackBroadcasts(s) \/ CallbackBroadcastFails(s)
    PROVE  AllowedStep
<1>1. UNCHANGED <<cln, request, spender>>
  BY DEF HandlerForgets, HandlerSkips, HandlerRaises, HandlerSaves, CallbackReturns,
     CallbackCreatesTx, CallbackRaises, CallbackBroadcasts, CallbackBroadcastFails, Publish,
     Quiet, Writes, chainVars
<1>2. CASE UNCHANGED lockup
  BY <1>1, <1>2, NothingSeen
<1>3. CASE <<s, "broadcast">> \in handling /\ Publish(s)
  <2>1. \A t \in Swaps : Paid(t)' = Paid(t) /\ Sold(t)' = Sold(t) /\ Settled(t)' = Settled(t)
    BY <1>1, SameHtlcs, SoldStays
  <2>2. Sold(s) /\ Paid(s)
    BY <1>3, SoldPaid DEF PaymentInv, SoldBefore
  <2>3. /\ \A t \in Swaps \ {s} : lockup'[t] = lockup[t]
        /\ lockup'[s] # "none"
    BY <1>3 DEF Publish, TypeOK, SwapTypeOK
  <2>4. OutsideStep(s)
    BY <1>1, <2>1, <2>2, <2>3 DEF OutsideStep, ButLocked, Locked
  <2> QED
    BY <1>1, <2>1, <2>3, <2>4 DEF AllowedStep, SameOutside, ButPaid, Locked
<1> QED
  BY <1>2, <1>3 DEF HandlerForgets, HandlerSkips, HandlerRaises, HandlerSaves,
     CallbackReturns, CallbackCreatesTx, CallbackRaises, CallbackBroadcasts,
     CallbackBroadcastFails, Quiet, Writes, chainVars

\* A transaction spends the lockup output.
LEMMA SpendingSeen ==
    ASSUME TypeOK, SameSold, NEW s \in Swaps, UNCHANGED <<cln, request, lockup>>,
           lockup[s] # "none",
           \/ spender[s] # "claim" /\ spender' = [spender EXCEPT ![s] = "claim"]
           \/ spender[s] = "none" /\ spender' = [spender EXCEPT ![s] = "refund"]
    PROVE  AllowedStep
<1>1. \A t \in Swaps : /\ Paid(t)' = Paid(t) /\ Sold(t)' = Sold(t)
                       /\ Settled(t)' = Settled(t) /\ Locked(t)' = Locked(t)
  BY SameHtlcs, SoldStays DEF Locked
<1>2. /\ \A t \in Swaps \ {s} : spender'[t] = spender[t]
      /\ \/ spender[s] # "claim" /\ spender'[s] = "claim"
         \/ spender[s] = "none" /\ spender'[s] = "refund"
  BY DEF TypeOK, SwapTypeOK
<1>3. OutsideStep(s)
  BY <1>1, <1>2 DEF OutsideStep, ButSpent, Locked
<1> QED
  BY <1>1, <1>2, <1>3 DEF AllowedStep, SameOutside, ButPaid

\* _finish_normal_swap releases HTLCs of a swap that is paid, and that the
\* client has claimed.
LEMMA FinishSettlesSeen ==
    ASSUME TypeOK, PaymentInv, PaymentInv', ClaimPublicInv, SameSold,
           NEW c \in claim, FinishSettles(c.swap, c)
    PROVE  AllowedStep
<1> DEFINE s == c.swap
<1>0. s \in Swaps
  BY DEF TypeOK, SwapTypeOK, Reads
<1>1. /\ UNCHANGED <<lockup, spender, cln>>
      /\ Sweep(Main(s), "SETTLED", "SETTLED", "resolve")
      /\ c.lockup # "none" /\ c.spender = "claim"
  BY DEF FinishSettles, Extracts, chainVars
<1>2. Paid(s) /\ spender[s] = "claim"
  BY <1>0, <1>1, SoldPaid DEF PaymentInv, ClaimsLocked, Sold, ClaimPublicInv, ReadsArePublic
<1>3. \A h \in Htlcs : /\ request'[h] = IF h \in Accepted(Main(s)) THEN "resolve" ELSE request[h]
                       /\ h \in Accepted(Main(s)) => request[h] = "waiting" /\ InvoiceOf[h] = Main(s)
  BY <1>1 DEF Sweep, Accepted, HtlcsOf, PaymentInv, HtlcTracked
<1>4. \A t \in Swaps \ {s} : SameOutside(t)
  <2>1. \A t \in Swaps \ {s} : \A h \in HtlcsOf(Main(t)) : request'[h] = request[h]
    BY <1>0, <1>3, HashesDiffer DEF HtlcsOf
  <2> QED
    BY <1>1, <2>1, SameHtlcs, SoldStays DEF SameOutside, ButPaid, Locked
<1>5. ButSettled(s)
  <2>1. Kept(Main(s))' = Kept(Main(s))
    BY <1>1, <1>3 DEF Kept, HtlcsOf
  <2> QED
    BY <1>0, <1>1, <2>1, SoldStays DEF ButSettled, Paid, Locked
<1>6. CASE Settled(s)'
  BY <1>0, <1>2, <1>4, <1>5, <1>6 DEF AllowedStep, OutsideStep
<1>7. CASE ~Settled(s)'
  <2>1. ~Settled(s)
    BY <1>1, <1>3, <1>7 DEF Settled, Fulfils, HtlcsOf
  <2>2. Settled(s)' = Settled(s)
    BY <1>7, <2>1 DEF Settled, Fulfils
  <2> QED
    BY <1>0, <1>4, <1>5, <2>2 DEF AllowedStep, SameOutside, ButPaid, ButSettled
<1> QED
  BY <1>6, <1>7

LEMMA ClaimSeen ==
    ASSUME TypeOK, PaymentInv, PaymentInv', ClaimPublicInv, SameSold, NEW c \in claim,
           \/ ClaimUnfunded(c.swap, c) \/ ClaimDrops(c.swap, c) \/ FinishSettles(c.swap, c)
           \/ FinishRaises(c.swap, c) \/ ClaimSeesRefund(c.swap, c)
           \/ ClaimRefunds(c.swap, c) \/ FinishCleansUp(c)
    PROVE  AllowedStep
<1> DEFINE s == c.swap
<1>0. s \in Swaps
  BY DEF TypeOK, SwapTypeOK, Reads
<1>f. ASSUME NEW sw, ClaimFails(s, sw) PROVE UNCHANGED <<cln, request, lockup, spender>>
  BY <1>f DEF ClaimFails, chainVars
<1>e. ASSUME NEW sw, ClaimEnds(s, sw) PROVE UNCHANGED <<cln, request>>
  BY <1>e DEF ClaimEnds, invoiceVars
<1>1. CASE ClaimUnfunded(s, c) \/ ClaimDrops(s, c) \/ ClaimSeesRefund(s, c)
  <2>1. UNCHANGED <<cln, request, lockup, spender>>
    BY <1>1, <1>e, <1>f DEF ClaimUnfunded, ClaimDrops, ClaimSeesRefund, chainVars
  <2> QED
    BY <2>1, NothingSeen
<1>2. CASE ClaimRefunds(s, c)
  <2>1. /\ UNCHANGED <<cln, request, lockup>>
        /\ \/ UNCHANGED spender
           \/ /\ lockup[s] # "none" /\ spender[s] = "none"
              /\ spender' = [spender EXCEPT ![s] = "refund"]
    BY <1>2, <1>e DEF ClaimRefunds, RefundBroadcast, chainVars
  <2> QED
    BY <1>0, <2>1, NothingSeen, SpendingSeen
<1>3. CASE FinishRaises(s, c)
  <2>1. ~SweepRaises(Main(s), "SETTLED", "resolve")
    BY NoSweepRaises DEF PaymentInv
  <2> QED
    BY <1>3, <2>1, NothingSeen DEF FinishRaises, chainVars
<1>4. CASE FinishCleansUp(c)
  BY <1>4, NothingSeen DEF FinishCleansUp, chainVars
<1> QED
  BY <1>1, <1>2, <1>3, <1>4, FinishSettlesSeen

LEMMA RestSeen ==
    ASSUME TypeOK, SameSold,
           \/ MonitorPolls \/ \E s \in Swaps : ClaimReads(s) \/ ClaimSkips(s)
           \/ \E s \in Swaps : CreateInvoices(s) \/ CreateRegisters(s)
           \/ \E s \in Swaps : InvoicesExpire(s) /\ Quiet
           \/ \E s \in Swaps : ClientClaims(s)
           \/ PassStarts /\ Quiet
           \/ BlockMined \/ UNCHANGED vars
    PROVE  AllowedStep
<1>1. UNCHANGED <<cln, request>>
  BY DEF ClaimReads, ClaimSkips, CreateInvoices, CreateRegisters, InvoicesExpire,
     ClientClaims, PassStarts, MonitorPolls, BlockMined, vars, invoiceVars
<1>2. CASE \E s \in Swaps : ClientClaims(s)
  BY <1>1, <1>2, SpendingSeen DEF ClientClaims
<1>3. CASE BlockMined
  <2>1. \A s \in Swaps : lockup'[s] # "none" <=> lockup[s] # "none"
    BY <1>3 DEF BlockMined
  <2> QED
    BY <1>1, <1>3, <2>1, NothingSeen DEF BlockMined
<1>4. UNCHANGED <<lockup, spender>> \/ (\E s \in Swaps : ClientClaims(s)) \/ BlockMined
  BY DEF ClaimReads, ClaimSkips, CreateInvoices, CreateRegisters, InvoicesExpire,
     PassStarts, MonitorPolls, Quiet, vars, chainVars
<1> QED
  BY <1>1, <1>2, <1>3, <1>4, NothingSeen

LEMMA NextSeen ==
    ASSUME NoCrash, TypeOK, TypeOK', PaymentInv, ClaimPublicInv, [Next]_vars
    PROVE  [Abstract!Next]_(Abstract!vars)
<1>0. PaymentInv' /\ (SameSold \/ \E s \in Swaps : HandlerSettles(s) /\ Quiet)
  BY NextPayment
<1> SUFFICES AllowedStep
  BY <1>0, AllowedStepImplements
<1>1. CASE \E s \in Swaps : HandlerSettles(s) /\ Quiet
  BY <1>0, <1>1, HandlerSettlesSeen
<1>2. CASE SameSold /\ ~\E s \in Swaps : HandlerSettles(s) /\ Quiet
  <2>1. CASE HookMoves
    BY <1>0, <1>2, <2>1, HookSeen DEF HookMoves
  <2>2. CASE MonitorMoves
    BY <1>0, <1>2, <2>2, MonitorSeen DEF MonitorMoves
  <2>3. CASE HandlerMoves
    <3>1. \A s \in Swaps : ~HandlerSettleRaises(s)
      BY NoSweepRaises DEF HandlerSettleRaises, PaymentInv
    <3> QED
      BY <1>0, <1>2, <2>3, <3>1, HandlerSeen, RestSeen DEF HandlerMoves
  <2>4. CASE ClaimMoves
    BY <1>0, <1>2, <2>4, ClaimSeen, RestSeen DEF ClaimMoves
  <2>5. CASE ClnMoves
    BY <1>0, <1>2, <2>5, LightningSeen DEF ClnMoves
  <2>6. ~Crash /\ ~RestartLightning /\ ~RestartSwaps
    BY DEF NoCrash, Crash, Fault, RestartLightning, RestartSwaps, PaymentInv
  <2> QED
    BY <1>2, <2>1, <2>2, <2>3, <2>4, <2>5, <2>6, RestSeen DEF Next, CreateMoves
<1> QED
  BY <1>0, <1>1, <1>2

LEMMA InitSeen == Init => Abstract!Init
<1> SUFFICES ASSUME Init PROVE Abstract!Init
  OBVIOUS
<1>1. ASSUME NEW s \in Swaps
      PROVE  ~Paid(s) /\ ~FeePaid(s) /\ lockup[s] = "none" /\ spender[s] = "none"
             /\ ~Fulfils(Main(s))
  <2>1. Kept(Main(s)) = {} /\ Main(s) \in Hashes /\ Prepay(s) \in Hashes
    BY MainPrepayType DEF Init, Kept, HtlcsOf
  <2>2. hold.status[Prepay(s)] = "absent"
    BY <2>1 DEF Init
  <2> QED
    BY <2>1, <2>2, AmountAssumption DEF Init, Paid, FeePaid, Sold, Resolved, Fulfils, HtlcsOf
<1>2. \A s \in Swaps : /\ Paid(s) = FALSE /\ FeePaid(s) = FALSE /\ Fulfils(Main(s)) = FALSE
                       /\ lockup[s] = "none" /\ spender[s] = "none"
  BY <1>1 DEF Paid, FeePaid, Fulfils
<1> QED
  BY <1>2 DEF Abstract!Init

\* A plugin that does not crash exchanges the two payments and the lockup output
\* in the order that AtomicSwap lays down, for every number of swaps and HTLCs.
THEOREM SwapsAreAtomic == ASSUME NoCrash PROVE Spec => ImplementsAtomicSwap
<1>1. Init => Abstract!Init
  BY InitSeen
<1>2. TypeOK /\ TypeOK' /\ PaymentInv /\ ClaimPublicInv /\ [Next]_vars
        => [Abstract!Next]_(Abstract!vars)
  BY NextSeen
<1> QED
  BY <1>1, <1>2, TypeCorrect, PaymentInvariant, ClaimPublicInvariant, PTL
  DEF Spec, ImplementsAtomicSwap, Abstract!Spec

=============================================================================
