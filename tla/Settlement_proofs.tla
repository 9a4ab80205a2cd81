------------------------- MODULE Settlement_proofs --------------------------
(***************************************************************************)
(* When the HTLCs of a forward swap are released, and how long they last,  *)
(* for every number of swaps and HTLCs, with any number of crashes and     *)
(* failing calls:                                                          *)
(*   - they are released only after the client's claim is public;          *)
(*   - they outlive the locktime by the margin the constants leave.        *)
(***************************************************************************)
EXTENDS ForwardSwap_proofs

-----------------------------------------------------------------------------
(* Releasing the HTLCs of a swap *)

\* The provider has told lightningd to fulfil the HTLC.
Released(h) == request[h] = "resolve" \/ cln[h] = "fulfilled"

\* What _claim_swap has read of a claim stays true: a transaction of the client
\* is replaced by no other.
ReadsArePublic == \A c \in claim : c.spender = "claim" => spender[c.swap] = "claim"

ClaimPublicInv == ResolvedOnlyIfClaimed /\ ReadsArePublic

\* What a step may do to the HTLCs that pay swaps: it releases none, except
\* that _finish_normal_swap releases those of the swap whose claim it has seen.
ReleasesSeen ==
    \A h \in Htlcs : Released(h)' =>
       \/ Released(h)
       \/ \E s \in Swaps : InvoiceOf[h] = Prepay(s)
       \/ \E c \in claim : InvoiceOf[h] = Main(c.swap) /\ c.spender = "claim"

\* What it may do to the reads and the chain: a read is new or an old one, and
\* a claim transaction stays.
ReadsTrue ==
    /\ \A s \in Swaps : spender[s] = "claim" => spender'[s] = "claim"
    /\ \A c \in claim' :
          \/ \E d \in claim : d.swap = c.swap /\ d.spender = c.spender
          \/ c.spender = spender[c.swap]

LEMMA HashesDiffer ==
    ASSUME NEW s \in Swaps, NEW t \in Swaps
    PROVE  /\ Main(s) # Prepay(t)
           /\ Main(s) = Main(t) => s = t
           /\ Prepay(s) = Prepay(t) => s = t
  BY DEF Main, Prepay

LEMMA SeenKeepsClaimPublic ==
    ASSUME TypeOK, TypeOK', ClaimPublicInv, ReleasesSeen, ReadsTrue
    PROVE  ClaimPublicInv'
<1>t. \A c \in claim : c.swap \in Swaps
  BY DEF TypeOK, SwapTypeOK, Reads
<1>u. \A c \in claim' : c.swap \in Swaps
  BY DEF TypeOK, SwapTypeOK, Reads
<1>1. ResolvedOnlyIfClaimed'
  <2> SUFFICES ASSUME NEW s \in Swaps, NEW h \in Htlcs, InvoiceOf[h] = Main(s), Released(h)'
               PROVE  spender'[s] = "claim"
    BY DEF ResolvedOnlyIfClaimed, Released
  <2>1. CASE Released(h)
    BY <2>1 DEF ClaimPublicInv, ResolvedOnlyIfClaimed, Released, ReadsTrue
  <2>2. CASE \E t \in Swaps : InvoiceOf[h] = Prepay(t)
    BY <2>2, HashesDiffer
  <2>3. CASE \E c \in claim : InvoiceOf[h] = Main(c.swap) /\ c.spender = "claim"
    BY <1>t, <2>3, HashesDiffer DEF ClaimPublicInv, ReadsArePublic, ReadsTrue
  <2> QED
    BY <2>1, <2>2, <2>3 DEF ReleasesSeen
<1>2. ReadsArePublic'
  BY <1>t, <1>u DEF ClaimPublicInv, ReadsArePublic, ReadsTrue
<1> QED
  BY <1>1, <1>2 DEF ClaimPublicInv

\* No step of lightningd, the hook or the expiry thread tells lightningd to
\* fulfil an HTLC; the callback thread does so for a prepay invoice.
LEMMA AnswerReleases ==
    ASSUME NEW D, NEW st, NEW a, Answer(D, st, a), a # "resolve"
    PROVE  \A h \in Htlcs : request'[h] = "resolve" => request[h] = "resolve"
  BY DEF Answer

LEMMA SweepReleases ==
    ASSUME NEW i, NEW s, NEW st, NEW a, Sweep(i, s, st, a)
    PROVE  \A h \in Htlcs : request'[h] = "resolve" => request[h] = "resolve" \/ InvoiceOf[h] = i
  BY DEF Sweep, Accepted, HtlcsOf

LEMMA SweepRaisesReleases ==
    ASSUME NEW i, NEW st, NEW a, SweepRaises(i, st, a)
    PROVE  \A h \in Htlcs : request'[h] = "resolve" =>
              \/ request[h] = "resolve"
              \/ a = "resolve" /\ InvoiceOf[h] = i
  BY DEF SweepRaises, Answer, Answerable, Accepted, HtlcsOf

LEMMA HookReleases ==
    ASSUME InvoiceTypeOK, NEW h \in Htlcs,
           \/ HookContinues(h) \/ HookReplaces(h) \/ HookRejects(h)
           \/ HookAccepts(h) \/ HookSaves(h) \/ HookSaveRaises(h)
    PROVE  ReleasesSeen
<1> USE DEF InvoiceTypeOK, ReleasesSeen, Released
<1>1. CASE HookContinues(h) \/ HookReplaces(h) \/ HookAccepts(h)
  BY <1>1 DEF HookContinues, HookReplaces, HookAccepts
<1>2. CASE HookRejects(h)
  BY <1>2, AnswerReleases DEF HookRejects
<1>3. CASE HookSaves(h) \/ HookSaveRaises(h)
  BY <1>3 DEF HookSaves, HookSaveRaises
<1> QED
  BY <1>1, <1>2, <1>3

LEMMA MonitorReleases ==
    ASSUME InvoiceTypeOK, NEW i \in Hashes,
           MonitorCancels(i) \/ MonitorCancelRaises(i) \/ MonitorDeletes(i)
    PROVE  ReleasesSeen
<1> USE DEF ReleasesSeen, Released
<1>1. CASE MonitorCancels(i)
  BY <1>1 DEF MonitorCancels, Sweep
<1>2. CASE MonitorCancelRaises(i)
  BY <1>2, SweepRaisesReleases DEF MonitorCancelRaises
<1>3. CASE MonitorDeletes(i)
  BY <1>3 DEF MonitorDeletes
<1> QED
  BY <1>1, <1>2, <1>3

LEMMA HandlerReleases ==
    ASSUME InvoiceTypeOK, NEW s \in Swaps,
           \/ HandlerForgets(s) \/ HandlerSkips(s) \/ HandlerRaises(s)
           \/ HandlerSettles(s) \/ HandlerSettleRaises(s) \/ HandlerSaves(s)
           \/ CallbackReturns(s) \/ CallbackCreatesTx(s) \/ CallbackRaises(s)
           \/ CallbackBroadcasts(s) \/ CallbackBroadcastFails(s)
    PROVE  ReleasesSeen
<1> USE DEF ReleasesSeen, Released
<1>1. CASE HandlerSettles(s)
  BY <1>1, SweepReleases DEF HandlerSettles
<1>2. CASE HandlerSettleRaises(s)
  BY <1>2, SweepRaisesReleases DEF HandlerSettleRaises
<1>3. CASE HandlerForgets(s) \/ HandlerSkips(s) \/ HandlerRaises(s) \/ HandlerSaves(s)
  BY <1>3 DEF HandlerForgets, HandlerSkips, HandlerRaises, HandlerSaves
<1>4. CASE CallbackReturns(s) \/ CallbackCreatesTx(s) \/ CallbackRaises(s)
  BY <1>4 DEF CallbackReturns, CallbackCreatesTx, CallbackRaises
<1>5. CASE CallbackBroadcasts(s) \/ CallbackBroadcastFails(s)
  BY <1>5 DEF CallbackBroadcasts, CallbackBroadcastFails
<1> QED
  BY <1>1, <1>2, <1>3, <1>4, <1>5

LEMMA LightningReleases ==
    ASSUME InvoiceTypeOK, NEW h \in Htlcs,
           \/ \E d \in CltvDeltas : HtlcArrives(h, d)
           \/ HtlcReplayed(h) \/ ClnCommits(h) \/ HtlcTimesOut(h)
    PROVE  ReleasesSeen
<1> USE DEF ReleasesSeen, Released, InvoiceTypeOK
<1>1. CASE \E d \in CltvDeltas : HtlcArrives(h, d)
  BY <1>1 DEF HtlcArrives
<1>2. CASE HtlcReplayed(h)
  BY <1>2 DEF HtlcReplayed
<1>3. CASE ClnCommits(h)
  BY <1>3 DEF ClnCommits, Resolution
<1>4. CASE HtlcTimesOut(h)
  BY <1>4 DEF HtlcTimesOut
<1> QED
  BY <1>1, <1>2, <1>3, <1>4

\* _finish_normal_swap answers only if the spending transaction it has read is
\* the client's claim.
LEMMA ClaimReleases ==
    ASSUME TypeOK, NEW c \in claim,
           \/ ClaimUnfunded(c.swap, c) \/ ClaimDrops(c.swap, c) \/ FinishSettles(c.swap, c)
           \/ FinishRaises(c.swap, c) \/ ClaimSeesRefund(c.swap, c)
           \/ ClaimRefunds(c.swap, c) \/ FinishCleansUp(c)
    PROVE  /\ ReleasesSeen
           /\ \A d \in claim' : d.swap = c.swap /\ d.spender = c.spender
           /\ \A s \in Swaps : spender[s] = "claim" => spender'[s] = "claim"
<1> DEFINE s == c.swap
<1> USE DEF ReleasesSeen, Released
<1>0. s \in Swaps /\ c.spender \in {"none", "claim", "refund"}
  BY DEF TypeOK, SwapTypeOK, Reads
<1>f. ASSUME NEW sw, ClaimFails(s, sw)
      PROVE  claim' = {} /\ UNCHANGED <<request, cln, spender>>
  BY <1>f DEF ClaimFails, chainVars
<1>e. ASSUME NEW sw, ClaimEnds(s, sw)
      PROVE  claim' = {} /\ UNCHANGED <<request, cln>>
  BY <1>e DEF ClaimEnds, invoiceVars
<1>1. CASE ClaimUnfunded(s, c) \/ ClaimDrops(s, c) \/ ClaimSeesRefund(s, c)
  BY <1>1, <1>e, <1>f DEF ClaimUnfunded, ClaimDrops, ClaimSeesRefund, chainVars
<1>2. CASE ClaimRefunds(s, c)
  BY <1>0, <1>2, <1>e DEF ClaimRefunds, RefundBroadcast, chainVars, TypeOK, SwapTypeOK
<1>3. CASE FinishSettles(s, c)
  <2>1. c.spender = "claim" /\ UNCHANGED <<cln, spender>>
    BY <1>3 DEF FinishSettles, Extracts, chainVars
  <2>2. \A d \in claim' : d.swap = c.swap /\ d.spender = c.spender
    BY <1>3 DEF FinishSettles, TypeOK, SwapTypeOK, Reads
  <2> QED
    BY <1>3, <2>1, <2>2, SweepReleases DEF FinishSettles
<1>4. CASE FinishRaises(s, c)
  BY <1>4, SweepRaisesReleases DEF FinishRaises, Extracts, chainVars
<1>5. CASE FinishCleansUp(c)
  BY <1>5 DEF FinishCleansUp, chainVars
<1> QED
  BY <1>1, <1>2, <1>3, <1>4, <1>5

LEMMA RestReleases ==
    ASSUME TypeOK,
           \/ MonitorPolls \/ \E s \in Swaps : ClaimReads(s) \/ ClaimSkips(s)
           \/ \E s \in Swaps : CreateInvoices(s) \/ CreateRegisters(s)
           \/ \E s \in Swaps : InvoicesExpire(s) /\ Quiet
           \/ \E s \in Swaps : ClientClaims(s)
           \/ PassStarts /\ Quiet
           \/ BlockMined \/ Crash \/ RestartLightning \/ RestartSwaps \/ UNCHANGED vars
    PROVE  ReleasesSeen /\ ReadsTrue
<1>1. \A h \in Htlcs : Released(h)' => Released(h)
  BY DEF Released, ClaimReads, ClaimSkips, CreateInvoices, CreateRegisters, InvoicesExpire,
     ClientClaims, PassStarts, MonitorPolls, BlockMined, Crash, RestartLightning,
     RestartSwaps, vars, invoiceVars
<1>2. claim' \subseteq claim \/ \E s \in Swaps : ClaimReads(s)
  BY DEF ClaimSkips, CreateInvoices, CreateRegisters, InvoicesExpire, ClientClaims,
     PassStarts, MonitorPolls, BlockMined, Crash, RestartLightning, RestartSwaps, Quiet,
     vars, taskVars
<1>c. \A c \in claim' : c \in claim \/ c.spender = spender[c.swap]
  BY <1>2 DEF ClaimReads
<1>3. UNCHANGED spender \/ \E s \in Swaps : ClientClaims(s)
  BY DEF ClaimReads, ClaimSkips, CreateInvoices, CreateRegisters, InvoicesExpire,
     PassStarts, MonitorPolls, BlockMined, Crash, RestartLightning, RestartSwaps, Quiet,
     vars, chainVars
<1>4. \A s \in Swaps : spender[s] = "claim" => spender'[s] = "claim"
  BY <1>3 DEF ClientClaims, TypeOK, SwapTypeOK
<1> QED
  BY <1>1, <1>c, <1>4 DEF ReleasesSeen, ReadsTrue

LEMMA NextReleases == TypeOK /\ [Next]_vars => ReleasesSeen /\ ReadsTrue
<1> SUFFICES ASSUME TypeOK, [Next]_vars PROVE ReleasesSeen /\ ReadsTrue
  OBVIOUS
<1>0. InvoiceTypeOK
  BY DEF TypeOK
<1>q. ASSUME Quiet \/ Writes PROVE ReadsTrue
  BY <1>q DEF Quiet, Writes, ReadsTrue, taskVars, chainVars
<1>1. CASE HookMoves
  BY <1>0, <1>1, <1>q, HookReleases DEF HookMoves
<1>2. CASE MonitorMoves
  BY <1>0, <1>2, <1>q, MonitorReleases DEF MonitorMoves
<1>3. CASE HandlerMoves
  <2>1. ASSUME NEW s \in Swaps,
               \/ CallbackReturns(s) \/ CallbackCreatesTx(s) \/ CallbackRaises(s)
               \/ CallbackBroadcasts(s) \/ CallbackBroadcastFails(s)
        PROVE  ReadsTrue
    BY <2>1 DEF CallbackReturns, CallbackCreatesTx, CallbackRaises, CallbackBroadcasts,
       CallbackBroadcastFails, Publish, ReadsTrue, taskVars, chainVars
  <2> QED
    BY <1>0, <1>3, <1>q, <2>1, HandlerReleases, RestReleases DEF HandlerMoves
<1>4. CASE ClaimMoves
  <2>1. ASSUME NEW c \in claim,
               \/ ClaimUnfunded(c.swap, c) \/ ClaimDrops(c.swap, c)
               \/ FinishSettles(c.swap, c) \/ FinishRaises(c.swap, c)
               \/ ClaimSeesRefund(c.swap, c) \/ ClaimRefunds(c.swap, c)
               \/ FinishCleansUp(c)
        PROVE  ReleasesSeen /\ ReadsTrue
    BY <2>1, ClaimReleases DEF ReadsTrue
  <2> QED
    BY <1>4, <2>1, RestReleases DEF ClaimMoves
<1>5. CASE ClnMoves
  BY <1>0, <1>5, <1>q, LightningReleases DEF ClnMoves
<1> QED
  BY <1>1, <1>2, <1>3, <1>4, <1>5, RestReleases DEF Next, CreateMoves

LEMMA ClaimPublicInvariant == Spec => []ClaimPublicInv
<1>1. Init => ClaimPublicInv
  BY DEF Init, ClaimPublicInv, ResolvedOnlyIfClaimed, ReadsArePublic
<1>2. TypeOK /\ ClaimPublicInv /\ [Next]_vars => ClaimPublicInv'
  BY NextType, NextReleases, SeenKeepsClaimPublic
<1> QED
  BY <1>1, <1>2, TypeCorrect, PTL DEF Spec

\* _finish_normal_swap answers lightningd with the preimage only when the
\* client's claim transaction is public, whatever was lost in a crash.
THEOREM SettledOnlyByClaim == Spec => []ResolvedOnlyIfClaimed
<1>1. ClaimPublicInv => ResolvedOnlyIfClaimed
  BY DEF ClaimPublicInv
<1> QED
  BY <1>1, ClaimPublicInvariant, PTL

-----------------------------------------------------------------------------
(* HTLCs that outlive the locktime *)

\* After a crash the plugin works with what it had stored, so the invariant is
\* about the locktimes and the accepted HTLCs of memory and of the database.
Locktimes(s) == {swaps[s].locktime, diskSwaps[s].locktime}
EverAccepted(s) == {h \in HtlcsOf(Main(s)) : "ACCEPTED" \in {hold.htlcs[h], diskHold.htlcs[h]}}

\* create_normal_swap sets the locktime once; handle_htlc compares the CLTV
\* with the height later than that.
LocktimesPassed == \A s \in Swaps : \A L \in Locktimes(s) : L <= height + LocktimeDelta

\* An accepted HTLC has arrived, so its CLTV is fixed, and it is late enough.
AcceptedLast ==
    \A s \in Swaps : \A h \in EverAccepted(s) :
       /\ cln[h] # "none"
       /\ \A L \in Locktimes(s) : cltv[h] + LocktimeDelta >= L + MinFinalCltv

\* Swaps that nobody has asked for have no invoices and so no accepted HTLCs.
NothingBefore ==
    \A s \in Swaps : s > created =>
       /\ hold.status[Main(s)] = "absent" /\ diskHold.status[Main(s)] = "absent"
       /\ EverAccepted(s) = {}

\* Only an HTLC that has arrived is asked about.
AskedArrived == \A h \in Htlcs : request[h] # "none" => cln[h] # "none"

LastingInv == LocktimesPassed /\ AcceptedLast /\ NothingBefore /\ AskedArrived

\* What all steps but the creation of a swap and the acceptance of an HTLC do to
\* the books: what is accepted or present in them was so before.
BooksShrink ==
    /\ \A s \in Swaps : EverAccepted(s)' \subseteq EverAccepted(s)
    /\ \A s \in Swaps : hold.status[Main(s)] = "absent" /\ diskHold.status[Main(s)] = "absent"
          => hold'.status[Main(s)] = "absent" /\ diskHold'.status[Main(s)] = "absent"

\* To the locktimes,
LocktimesKept == \A s \in Swaps : Locktimes(s)' \subseteq Locktimes(s)

\* and to the HTLCs at lightningd.
ArrivedStay ==
    \A h \in Htlcs :
       /\ cln[h] # "none" => cln'[h] # "none" /\ cltv'[h] = cltv[h]
       /\ request'[h] # "none" => request[h] # "none" \/ cln'[h] # "none"

LEMMA ShrinkKeepsLasting ==
    ASSUME TypeOK, TypeOK', LastingInv, BooksShrink, LocktimesKept, ArrivedStay,
           height' >= height, UNCHANGED created
    PROVE  LastingInv'
<1>t. /\ height \in Nat /\ height' \in Nat /\ LocktimeDelta \in Nat /\ MinFinalCltv \in Nat
      /\ \A s \in Swaps : \A L \in Locktimes(s) : L \in Nat
      /\ \A s \in Swaps : EverAccepted(s) \subseteq Htlcs
  BY HeightAssumption, ForwardAssumption
  DEF TypeOK, InvoiceTypeOK, SwapTypeOK, SwapData, Heights, Locktimes, EverAccepted, HtlcsOf
<1>1. LocktimesPassed'
  BY <1>t DEF LastingInv, LocktimesPassed, LocktimesKept
<1>2. AcceptedLast'
  BY <1>t DEF LastingInv, AcceptedLast, BooksShrink, LocktimesKept, ArrivedStay
<1>3. NothingBefore'
  BY DEF LastingInv, NothingBefore, BooksShrink
<1>4. AskedArrived'
  BY DEF LastingInv, AskedArrived, ArrivedStay
<1> QED
  BY <1>1, <1>2, <1>3, <1>4 DEF LastingInv

\* What is stored by a write comes from memory or was stored before.
LEMMA WriteStores ==
    ASSUME NEW I, Write(I)
    PROVE  /\ \A h \in Htlcs : diskHold'.htlcs[h] \in {hold'.htlcs[h], diskHold.htlcs[h]}
           /\ \A i \in Hashes : diskHold'.status[i] \in {hold'.status[i], diskHold.status[i]}
  BY DEF Write, Patched

LEMMA WriteShrinks ==
    ASSUME NEW I, Write(I) \/ UNCHANGED diskHold,
           \A h \in Htlcs : hold'.htlcs[h] = "ACCEPTED" => hold.htlcs[h] = "ACCEPTED",
           \A i \in Hashes : hold.status[i] = "absent" => hold'.status[i] = "absent"
    PROVE  BooksShrink
<1>1. CASE Write(I)
  BY <1>1, WriteStores, MainPrepayType DEF BooksShrink, EverAccepted, HtlcsOf
<1>2. CASE UNCHANGED diskHold
  BY <1>2, MainPrepayType DEF BooksShrink, EverAccepted, HtlcsOf
<1> QED
  BY <1>1, <1>2

LEMMA SameShrinks ==
    ASSUME UNCHANGED <<hold, diskHold>> PROVE BooksShrink
  BY WriteShrinks

LEMMA AnswerShrinks ==
    ASSUME InvoiceTypeOK, NEW I, Write(I) \/ UNCHANGED diskHold,
           NEW D, NEW st, NEW a, Answer(D, st, a), st # "ACCEPTED"
    PROVE  BooksShrink
<1>1. /\ \A h \in Htlcs : hold'.htlcs[h] = "ACCEPTED" => hold.htlcs[h] = "ACCEPTED"
      /\ UNCHANGED hold.status
  BY DEF Answer, InvoiceTypeOK, Books
<1> QED
  BY <1>1, WriteShrinks

LEMMA SweepShrinks ==
    ASSUME InvoiceTypeOK, UNCHANGED diskHold, NEW i \in Hashes, hold.status[i] # "absent",
           NEW s, NEW st, NEW a, Sweep(i, s, st, a), st # "ACCEPTED"
    PROVE  BooksShrink
<1>1. /\ \A h \in Htlcs : hold'.htlcs[h] = "ACCEPTED" => hold.htlcs[h] = "ACCEPTED"
      /\ \A j \in Hashes : hold.status[j] = "absent" => hold'.status[j] = "absent"
  BY DEF Sweep, InvoiceTypeOK, Books
<1> QED
  BY <1>1, WriteShrinks

LEMMA WithoutShrinks ==
    ASSUME NEW I, hold' = Without(I), NEW J, Write(J) PROVE BooksShrink
<1>1. /\ \A h \in Htlcs : hold'.htlcs[h] = "ACCEPTED" => hold.htlcs[h] = "ACCEPTED"
      /\ \A j \in Hashes : hold.status[j] = "absent" => hold'.status[j] = "absent"
  BY DEF Without
<1> QED
  BY <1>1, WriteShrinks

LEMMA HookShrinks ==
    ASSUME InvoiceTypeOK, NEW h \in Htlcs,
           \/ HookContinues(h) \/ HookReplaces(h) \/ HookRejects(h)
           \/ HookSaves(h) \/ HookSaveRaises(h)
    PROVE  BooksShrink /\ ArrivedStay /\ UNCHANGED height
<1> USE DEF InvoiceTypeOK
<1>1. CASE HookContinues(h) \/ HookReplaces(h)
  BY <1>1, SameShrinks DEF HookContinues, HookReplaces, HookStarts, ArrivedStay, book
<1>2. CASE HookRejects(h)
  BY <1>2, AnswerShrinks DEF HookRejects, HookStarts, Answer, ArrivedStay
<1>3. CASE HookSaves(h)
  BY <1>3, WriteShrinks DEF HookSaves, UpdateInvoice, ArrivedStay
<1>4. CASE HookSaveRaises(h)
  BY <1>4, SameShrinks DEF HookSaveRaises, ArrivedStay, book
<1> QED
  BY <1>1, <1>2, <1>3, <1>4

\* The HTLCs of a sweep have been asked about.
LEMMA SweepArrived ==
    ASSUME NEW i, NEW s, NEW st, NEW a, Sweep(i, s, st, a), AllAnswerable(i),
           UNCHANGED <<cln, cltv>>
    PROVE  ArrivedStay
  BY DEF Sweep, AllAnswerable, Answerable, ArrivedStay

LEMMA SweepRaisesArrived ==
    ASSUME NEW i, NEW st, NEW a, SweepRaises(i, st, a), UNCHANGED <<cln, cltv>>
    PROVE  ArrivedStay
  BY DEF SweepRaises, Answer, Answerable, ArrivedStay

LEMMA MonitorShrinks ==
    ASSUME InvoiceTypeOK, NEW i \in Hashes,
           MonitorCancels(i) \/ MonitorCancelRaises(i) \/ MonitorDeletes(i)
    PROVE  BooksShrink /\ ArrivedStay /\ UNCHANGED height
<1>1. CASE MonitorCancels(i)
  BY <1>1, SweepShrinks, SweepArrived DEF MonitorCancels, ScanStops, Expirable
<1>2. CASE MonitorCancelRaises(i)
  BY <1>2, AnswerShrinks, SweepRaisesArrived DEF MonitorCancelRaises, SweepRaises
<1>3. CASE MonitorDeletes(i)
  BY <1>3, WithoutShrinks DEF MonitorDeletes, ArrivedStay
<1> QED
  BY <1>1, <1>2, <1>3

LEMMA HandlerShrinks ==
    ASSUME InvoiceTypeOK, NEW s \in Swaps,
           \/ HandlerForgets(s) \/ HandlerSkips(s) \/ HandlerRaises(s)
           \/ HandlerSettles(s) \/ HandlerSettleRaises(s) \/ HandlerSaves(s)
    PROVE  BooksShrink /\ ArrivedStay /\ UNCHANGED height
<1>1. CASE HandlerSettles(s)
  <2>1. Prepay(s) \in Hashes /\ hold.status[Prepay(s)] # "absent"
    BY <1>1, MainPrepayType DEF HandlerSettles, BothFunded
  <2> QED
    BY <1>1, <2>1, SweepShrinks, SweepArrived DEF HandlerSettles
<1>2. CASE HandlerSettleRaises(s)
  BY <1>2, AnswerShrinks, SweepRaisesArrived DEF HandlerSettleRaises, SweepRaises
<1>3. CASE HandlerSaves(s)
  BY <1>3, WriteShrinks DEF HandlerSaves, UpdateInvoice, ArrivedStay
<1>4. CASE HandlerForgets(s) \/ HandlerSkips(s) \/ HandlerRaises(s)
  BY <1>4, SameShrinks DEF HandlerForgets, HandlerSkips, HandlerRaises, ArrivedStay, book
<1> QED
  BY <1>1, <1>2, <1>3, <1>4

\* _fail_swap writes the books as they are; the entry keeps its locktime.
LEMMA FailSwapShrinks ==
    ASSUME SwapTypeOK, NEW s \in Swaps, NEW sw \in SwapData, sw.locktime = swaps[s].locktime,
           FailSwap(s, sw)
    PROVE  BooksShrink /\ LocktimesKept
<1>1. BooksShrink
  BY WriteShrinks, SameShrinks DEF FailSwap, WriteAll
<1>2. \A t \in Swaps : swaps'[t].locktime = swaps[t].locktime
  BY DEF FailSwap, SwapTypeOK, SwapData
<1>3. diskSwaps' \in {swaps', diskSwaps}
  BY DEF FailSwap, WriteAll
<1> QED
  BY <1>1, <1>2, <1>3 DEF LocktimesKept, Locktimes

LEMMA CallbackShrinks ==
    ASSUME TypeOK, NEW s \in Swaps,
           \/ CallbackReturns(s) \/ CallbackCreatesTx(s) \/ CallbackRaises(s)
           \/ CallbackBroadcasts(s) \/ CallbackBroadcastFails(s)
    PROVE  BooksShrink /\ LocktimesKept /\ ArrivedStay /\ UNCHANGED <<height, created>>
<1>1. CASE CallbackReturns(s) \/ CallbackCreatesTx(s) \/ CallbackRaises(s)
  <2>1. UNCHANGED <<hold, diskHold, swaps, diskSwaps, created, cln, cltv, request, height>>
    BY <1>1 DEF CallbackReturns, CallbackCreatesTx, CallbackRaises, book, swapVars, requestVars
  <2> QED
    BY <2>1, SameShrinks DEF LocktimesKept, Locktimes, ArrivedStay
<1>2. CASE CallbackBroadcasts(s)
  <2>1. \A t \in Swaps : swaps'[t].locktime = swaps[t].locktime
    BY <1>2 DEF CallbackBroadcasts, TypeOK, SwapTypeOK, SwapData
  <2>2. UNCHANGED <<hold, diskHold, diskSwaps, created, cln, cltv, request, height>>
    BY <1>2 DEF CallbackBroadcasts, book, requestVars
  <2> QED
    BY <2>1, <2>2, SameShrinks DEF LocktimesKept, Locktimes, ArrivedStay
<1>3. CASE CallbackBroadcastFails(s)
  <2>1. /\ [swaps[s] EXCEPT !.funded = TRUE] \in SwapData
        /\ [swaps[s] EXCEPT !.funded = TRUE].locktime = swaps[s].locktime
    <3>1. swaps[s] \in SwapData
      BY DEF TypeOK, SwapTypeOK
    <3> QED
      BY <3>1 DEF SwapData
  <2>2. BooksShrink /\ LocktimesKept
    BY <1>3, <2>1, FailSwapShrinks DEF CallbackBroadcastFails, TypeOK
  <2> QED
    BY <1>3, <2>2 DEF CallbackBroadcastFails, ArrivedStay, requestVars
<1> QED
  BY <1>1, <1>2, <1>3

\* Whatever else _claim_swap sets in an entry, the locktime stays.
LEMMA EntryLocktime ==
    ASSUME SwapTypeOK, NEW s \in Swaps
    PROVE  /\ Funded(s).locktime = swaps[s].locktime
           /\ WithPreimage(s).locktime = swaps[s].locktime
           /\ [Funded(s) EXCEPT !.redeemed = TRUE].locktime = swaps[s].locktime
  BY DEF Funded, WithPreimage, SwapTypeOK, SwapData

LEMMA ClaimShrinks ==
    ASSUME TypeOK, NEW c \in claim,
           \/ ClaimUnfunded(c.swap, c) \/ ClaimDrops(c.swap, c) \/ FinishSettles(c.swap, c)
           \/ FinishRaises(c.swap, c) \/ ClaimSeesRefund(c.swap, c)
           \/ ClaimRefunds(c.swap, c) \/ FinishCleansUp(c)
    PROVE  BooksShrink /\ LocktimesKept /\ ArrivedStay /\ UNCHANGED <<height, created>>
<1> DEFINE s == c.swap
<1>0. InvoiceTypeOK /\ SwapTypeOK /\ s \in Swaps /\ Main(s) \in Hashes
  BY MainPrepayType DEF TypeOK, SwapTypeOK, Reads
<1>t. /\ swaps[s] \in SwapData
      /\ Funded(s) \in SwapData /\ WithPreimage(s) \in SwapData
      /\ [Funded(s) EXCEPT !.redeemed = TRUE] \in SwapData
  BY <1>0, EntryType
<1>l. /\ Funded(s).locktime = swaps[s].locktime
      /\ WithPreimage(s).locktime = swaps[s].locktime
      /\ [Funded(s) EXCEPT !.redeemed = TRUE].locktime = swaps[s].locktime
  BY <1>0, EntryLocktime
<1>f. ASSUME NEW sw \in SwapData, sw.locktime = swaps[s].locktime, ClaimFails(s, sw)
      PROVE  BooksShrink /\ LocktimesKept /\ ArrivedStay /\ UNCHANGED <<height, created>>
  BY <1>0, <1>f, FailSwapShrinks DEF ClaimFails, ArrivedStay, requestVars
<1>w. ASSUME NEW sw \in SwapData, sw.locktime = swaps[s].locktime,
             swaps' = [swaps EXCEPT ![s] = sw], UNCHANGED diskSwaps
      PROVE  LocktimesKept
  BY <1>0, <1>w DEF LocktimesKept, Locktimes, SwapTypeOK
<1>e. ASSUME NEW sw \in SwapData, sw.locktime = swaps[s].locktime, ClaimEnds(s, sw)
      PROVE  BooksShrink /\ LocktimesKept /\ ArrivedStay /\ UNCHANGED <<height, created>>
  BY <1>e, <1>w, SameShrinks DEF ClaimEnds, ArrivedStay, invoiceVars, requestVars
<1>1. CASE ClaimUnfunded(s, c)
  BY <1>1, <1>t, <1>e, <1>f DEF ClaimUnfunded
<1>2. CASE ClaimDrops(s, c)
  BY <1>2, <1>t, <1>l, <1>f DEF ClaimDrops
<1>3. CASE ClaimSeesRefund(s, c) \/ ClaimRefunds(s, c)
  BY <1>3, <1>t, <1>l, <1>e, <1>f DEF ClaimSeesRefund, ClaimRefunds
<1>4. CASE FinishSettles(s, c)
  <2>1. BooksShrink /\ ArrivedStay
    BY <1>0, <1>4, SweepShrinks, SweepArrived DEF FinishSettles, Present
  <2>2. LocktimesKept
    BY <1>4, <1>t, <1>l, <1>w DEF FinishSettles
  <2> QED
    BY <1>4, <2>1, <2>2 DEF FinishSettles, requestVars
<1>5. CASE FinishRaises(s, c)
  <2>1. BooksShrink /\ ArrivedStay
    BY <1>0, <1>5, AnswerShrinks, SameShrinks, SweepRaisesArrived
    DEF FinishRaises, SweepRaises, ArrivedStay
  <2>2. LocktimesKept
    BY <1>5, <1>t, <1>l, <1>w DEF FinishRaises
  <2> QED
    BY <1>5, <2>1, <2>2 DEF FinishRaises, requestVars
<1>6. CASE FinishCleansUp(c)
  <2>1. BooksShrink
    BY <1>6, WithoutShrinks DEF FinishCleansUp, WriteAll
  <2>2. \A t \in Swaps : swaps'[t].locktime = swaps[t].locktime
    BY <1>6 DEF FinishCleansUp, SwapTypeOK, TypeOK, SwapData
  <2>3. LocktimesKept
    BY <1>6, <2>2 DEF FinishCleansUp, WriteAll, LocktimesKept, Locktimes
  <2> QED
    BY <1>6, <2>1, <2>3 DEF FinishCleansUp, ArrivedStay, requestVars
<1> QED
  BY <1>1, <1>2, <1>3, <1>4, <1>5, <1>6

LEMMA LightningShrinks ==
    ASSUME InvoiceTypeOK, NEW h \in Htlcs,
           \/ \E d \in CltvDeltas : HtlcArrives(h, d)
           \/ HtlcReplayed(h) \/ ClnCommits(h) \/ HtlcTimesOut(h)
    PROVE  BooksShrink /\ ArrivedStay /\ UNCHANGED height
<1> USE DEF InvoiceTypeOK, ArrivedStay, book
<1>1. CASE \E d \in CltvDeltas : HtlcArrives(h, d)
  BY <1>1, SameShrinks DEF HtlcArrives
<1>2. CASE HtlcReplayed(h)
  BY <1>2, SameShrinks DEF HtlcReplayed
<1>3. CASE ClnCommits(h)
  BY <1>3, SameShrinks DEF ClnCommits, Resolution
<1>4. CASE HtlcTimesOut(h)
  BY <1>4, SameShrinks DEF HtlcTimesOut
<1> QED
  BY <1>1, <1>2, <1>3, <1>4

\* A new swap has no HTLCs yet, and its locktime is LocktimeDelta away.
LEMMA CreateKeepsLasting ==
    ASSUME TypeOK, TypeOK', LastingInv, NEW s \in Swaps, CreateInvoices(s) PROVE LastingInv'
<1>t. /\ height \in Nat /\ LocktimeDelta \in Nat /\ created \in Nat
      /\ \A t \in Swaps : t \in Nat
  BY HeightAssumption, ForwardAssumption
  DEF TypeOK, InvoiceTypeOK, SwapTypeOK, Heights, Swaps
<1>1. /\ s = created + 1 /\ created' = s
      /\ UNCHANGED <<height, cln, cltv, request>>
      /\ diskSwaps' = swaps
  BY DEF CreateInvoices
<1>2. EverAccepted(s) = {}
  BY <1>1, <1>t DEF LastingInv, NothingBefore
<1>3. /\ hold'.htlcs = hold.htlcs
      /\ \A t \in Swaps \ {s} : hold'.status[Main(t)] = hold.status[Main(t)]
  BY MainPrepayType DEF CreateInvoices, Main, TypeOK, InvoiceTypeOK, Books
<1>4. /\ \A h \in Htlcs : diskHold'.htlcs[h] \in {hold'.htlcs[h], diskHold.htlcs[h]}
      /\ \A t \in Swaps : diskHold'.status[Main(t)] \in {hold'.status[Main(t)],
                                                          diskHold.status[Main(t)]}
  BY MainPrepayType, WriteStores DEF CreateInvoices
<1>5. \A t \in Swaps : EverAccepted(t)' \subseteq EverAccepted(t)
  BY <1>3, <1>4 DEF EverAccepted, HtlcsOf
<1>6. /\ swaps'[s].locktime = height + LocktimeDelta
      /\ \A t \in Swaps \ {s} : swaps'[t] = swaps[t]
  BY DEF CreateInvoices, TypeOK, SwapTypeOK, NoSwap
<1>7. LocktimesPassed'
  BY <1>1, <1>6, <1>t DEF LastingInv, LocktimesPassed, Locktimes
<1>8. AcceptedLast'
  BY <1>1, <1>2, <1>5, <1>6 DEF LastingInv, AcceptedLast, Locktimes
<1>9. NothingBefore'
  BY <1>1, <1>3, <1>4, <1>5, <1>t DEF LastingInv, NothingBefore
<1>10. AskedArrived'
  BY <1>1 DEF LastingInv, AskedArrived
<1> QED
  BY <1>7, <1>8, <1>9, <1>10 DEF LastingInv

\* handle_htlc takes an HTLC whose CLTV is MinFinalCltv away, at a height that
\* the locktime of its swap is at most LocktimeDelta beyond.
LEMMA AcceptKeepsLasting ==
    ASSUME TypeOK, TypeOK', LastingInv, NEW h \in Htlcs, HookAccepts(h), Quiet
    PROVE  LastingInv'
<1>t. /\ height \in Nat /\ LocktimeDelta \in Nat /\ MinFinalCltv \in Nat
      /\ cltv[h] \in Nat /\ \A s \in Swaps : \A L \in Locktimes(s) : L \in Nat
  BY HeightAssumption, ForwardAssumption
  DEF TypeOK, InvoiceTypeOK, SwapTypeOK, SwapData, Heights, Locktimes
<1>1. /\ UNCHANGED <<height, cln, cltv, swaps, diskSwaps, created, diskHold>>
      /\ request' = [request EXCEPT ![h] = "waiting"]
      /\ request[h] = "asked"
      /\ hold.status[InvoiceOf[h]] = "UNFUNDED"
      /\ cltv[h] - height >= MinFinalCltv
  BY DEF HookAccepts, HookStarts, Acceptable, Quiet, swapVars, requestVars
<1>2. /\ \A g \in Htlcs \ {h} : hold'.htlcs[g] = hold.htlcs[g]
      /\ \A i \in Hashes : hold.status[i] = "absent" => hold'.status[i] = "absent"
  BY <1>1, HtlcsAssumption DEF HookAccepts, TypeOK, InvoiceTypeOK, Books
<1>3. cln[h] # "none"
  BY <1>1 DEF LastingInv, AskedArrived
<1>4. \A s \in Swaps : EverAccepted(s)' \subseteq EverAccepted(s) \cup {h}
  BY <1>1, <1>2 DEF EverAccepted, HtlcsOf
<1>5. \A s \in Swaps : h \in EverAccepted(s)' => ~(s > created)
  BY <1>1 DEF EverAccepted, HtlcsOf, LastingInv, NothingBefore
<1>6. LocktimesPassed'
  BY <1>1 DEF LastingInv, LocktimesPassed, Locktimes
<1>7. AcceptedLast'
  <2> SUFFICES ASSUME NEW s \in Swaps, NEW g \in EverAccepted(s)', NEW L \in Locktimes(s)
               PROVE  cln[g] # "none" /\ cltv[g] + LocktimeDelta >= L + MinFinalCltv
    BY <1>1 DEF AcceptedLast, Locktimes
  <2>1. CASE g = h
    BY <1>1, <1>3, <1>t, <2>1 DEF LastingInv, LocktimesPassed
  <2>2. CASE g # h
    BY <1>4, <2>2 DEF LastingInv, AcceptedLast
  <2> QED
    BY <2>1, <2>2
<1>8. NothingBefore'
  BY <1>1, <1>2, <1>4, <1>5, MainPrepayType DEF LastingInv, NothingBefore
<1>9. AskedArrived'
  BY <1>1, <1>3 DEF LastingInv, AskedArrived, TypeOK, InvoiceTypeOK
<1> QED
  BY <1>6, <1>7, <1>8, <1>9 DEF LastingInv

LEMMA CrashKeepsLasting ==
    ASSUME TypeOK, TypeOK', LastingInv, Crash PROVE LastingInv'
<1>1. BooksShrink /\ LocktimesKept
  BY DEF Crash, BooksShrink, EverAccepted, LocktimesKept, Locktimes
<1>2. ArrivedStay /\ UNCHANGED <<height, created>>
  BY DEF Crash, ArrivedStay
<1> QED
  BY <1>1, <1>2, ShrinkKeepsLasting, HeightAssumption DEF TypeOK, InvoiceTypeOK, Heights

LEMMA RestShrinks ==
    ASSUME TypeOK,
           \/ MonitorPolls \/ \E s \in Swaps : ClaimReads(s) \/ ClaimSkips(s)
           \/ \E s \in Swaps : CreateRegisters(s)
           \/ \E s \in Swaps : InvoicesExpire(s) /\ Quiet
           \/ \E s \in Swaps : ClientClaims(s)
           \/ PassStarts /\ Quiet
           \/ BlockMined \/ RestartLightning \/ RestartSwaps \/ UNCHANGED vars
    PROVE  BooksShrink /\ LocktimesKept /\ ArrivedStay /\ height' >= height /\ UNCHANGED created
<1>1. UNCHANGED <<hold, diskHold, cln, cltv, request, created, diskSwaps>>
  BY DEF ClaimReads, ClaimSkips, CreateRegisters, InvoicesExpire, ClientClaims, PassStarts,
     MonitorPolls, BlockMined, RestartLightning, RestartSwaps, Quiet, vars, invoiceVars,
     book, swapVars, requestVars
<1>2. UNCHANGED swaps \/ RestartSwaps
  BY DEF ClaimReads, ClaimSkips, CreateRegisters, InvoicesExpire, ClientClaims, PassStarts,
     MonitorPolls, BlockMined, RestartLightning, Quiet, vars, swapVars
<1>3. UNCHANGED height \/ BlockMined
  BY DEF ClaimReads, ClaimSkips, CreateRegisters, InvoicesExpire, ClientClaims, PassStarts,
     MonitorPolls, RestartSwaps, RestartLightning, vars, invoiceVars
<1>4. \A s \in Swaps : swaps'[s].locktime = swaps[s].locktime
  <2>1. \A sw \in SwapData : [sw EXCEPT !.known = FALSE].locktime = sw.locktime
    BY DEF SwapData
  <2>2. ASSUME NEW s \in Swaps PROVE swaps[s] \in SwapData
    BY DEF TypeOK, SwapTypeOK
  <2>3. ASSUME RestartSwaps, NEW s \in Swaps
        PROVE  swaps'[s] \in {swaps[s], [swaps[s] EXCEPT !.known = FALSE]}
    BY <2>3 DEF RestartSwaps
  <2> QED
    BY <1>2, <2>1, <2>2, <2>3
<1>5. height' >= height
  BY <1>3, HeightAssumption DEF BlockMined, TypeOK, InvoiceTypeOK, Heights
<1> QED
  BY <1>1, <1>4, <1>5, SameShrinks DEF LocktimesKept, Locktimes, ArrivedStay

LEMMA NextLasting == TypeOK /\ TypeOK' /\ LastingInv /\ [Next]_vars => LastingInv'
<1> SUFFICES ASSUME TypeOK, TypeOK', LastingInv, [Next]_vars PROVE LastingInv'
  OBVIOUS
<1>0. InvoiceTypeOK /\ \A x : height' = height => height' >= height
  BY HeightAssumption DEF TypeOK, InvoiceTypeOK, Heights
<1>q. ASSUME BooksShrink, ArrivedStay, UNCHANGED height, Quiet \/ Writes PROVE LastingInv'
  <2>1. LocktimesKept /\ UNCHANGED created
    BY <1>q DEF Quiet, Writes, ThreadWrites, swapVars, requestVars, LocktimesKept, Locktimes
  <2> QED
    BY <1>0, <1>q, <2>1, ShrinkKeepsLasting
<1>1. CASE HookMoves
  BY <1>0, <1>1, <1>q, HookShrinks, AcceptKeepsLasting DEF HookMoves
<1>2. CASE MonitorMoves
  BY <1>0, <1>2, <1>q, MonitorShrinks DEF MonitorMoves
<1>3. CASE HandlerMoves
  BY <1>0, <1>3, <1>q, HandlerShrinks, CallbackShrinks, RestShrinks, ShrinkKeepsLasting
  DEF HandlerMoves
<1>4. CASE ClaimMoves
  BY <1>0, <1>4, ClaimShrinks, RestShrinks, ShrinkKeepsLasting DEF ClaimMoves
<1>5. CASE ClnMoves
  BY <1>0, <1>5, <1>q, LightningShrinks DEF ClnMoves
<1>6. CASE CreateMoves
  BY <1>6, CreateKeepsLasting, RestShrinks, ShrinkKeepsLasting DEF CreateMoves
<1>7. CASE Crash
  BY <1>7, CrashKeepsLasting
<1> QED
  BY <1>1, <1>2, <1>3, <1>4, <1>5, <1>6, <1>7, RestShrinks, ShrinkKeepsLasting DEF Next

LEMMA LastingInvariant == Spec => []LastingInv
<1>1. Init => LastingInv
  BY HeightAssumption, ForwardAssumption, MainPrepayType
  DEF Init, LastingInv, LocktimesPassed, AcceptedLast, NothingBefore, AskedArrived,
      Locktimes, EverAccepted, HtlcsOf, NoSwap
<1>2. TypeOK /\ TypeOK' /\ LastingInv /\ [Next]_vars => LastingInv'
  BY NextLasting
<1> QED
  BY <1>1, <1>2, TypeCorrect, PTL DEF Spec

\* An HTLC that pays a swap keeps the provider's money claimable at least
\* MinFinalCltv - LocktimeDelta blocks after the locktime, also after the entry
\* and the HTLC were read back from the database at different ages.
THEOREM AcceptedHtlcsLast == Spec => []HtlcsOutliveLocktime
<1>1. TypeOK /\ LastingInv => HtlcsOutliveLocktime
  <2> SUFFICES ASSUME TypeOK, LastingInv, NEW s \in Swaps, NEW h \in Accepted(Main(s))
               PROVE  cltv[h] - swaps[s].locktime >= MinFinalCltv - LocktimeDelta
    BY DEF HtlcsOutliveLocktime
  <2>1. h \in EverAccepted(s) /\ h \in Htlcs /\ swaps[s].locktime \in Locktimes(s)
    BY DEF Accepted, EverAccepted, HtlcsOf, Locktimes
  <2>2. cltv[h] + LocktimeDelta >= swaps[s].locktime + MinFinalCltv
    BY <2>1 DEF LastingInv, AcceptedLast
  <2>3. /\ cltv[h] \in Nat /\ swaps[s].locktime \in Nat
        /\ MinFinalCltv \in Nat /\ LocktimeDelta \in Nat
    BY <2>1, HeightAssumption, ForwardAssumption
    DEF TypeOK, InvoiceTypeOK, SwapTypeOK, SwapData
  <2> QED
    BY <2>2, <2>3
<1> QED
  BY <1>1, LastingInvariant, TypeCorrect, PTL
=============================================================================
