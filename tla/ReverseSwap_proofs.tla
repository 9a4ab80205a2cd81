------------------------- MODULE ReverseSwap_proofs -------------------------
(***************************************************************************)
(* Proofs about ReverseSwap for every number of swaps, requests and        *)
(* faults, every height and delay:                                         *)
(*   - every variable keeps its type;                                      *)
(*   - the preimage is shown only for a confirmed output worth it;         *)
(*   - a payment is begun only for a swap that is stored;                  *)
(*   - payments in progress or due never exceed the client's requests;     *)
(*   - if the provider is prompt and nothing fails, a client that funds    *)
(*     in time cannot take the output back once the preimage is shown.     *)
(***************************************************************************)
EXTENDS ReverseSwap, TLAPS

-----------------------------------------------------------------------------
(* Types *)

StoreTypeOK ==
    /\ swaps \in [Swaps -> SwapData] /\ diskSwaps \in [Swaps -> SwapData]
    /\ invoices \in SUBSET Swaps /\ diskInvoices \in SUBSET Swaps

\* A swap entry with some of its fields set is a swap entry.
LEMMA FieldsType ==
    ASSUME NEW sw \in SwapData, NEW b \in BOOLEAN
    PROVE  /\ [sw EXCEPT !.known = b] \in SwapData
           /\ [sw EXCEPT !.known = TRUE, !.funded = TRUE] \in SwapData
           /\ [sw EXCEPT !.spent = TRUE] \in SwapData
           /\ [sw EXCEPT !.spent = TRUE, !.redeemed = TRUE, !.known = FALSE] \in SwapData
  BY DEF SwapData

LEMMA FailSwapType ==
    ASSUME TypeOK, NEW s \in Swaps, FailSwap(s, swaps[s])
    PROVE  /\ StoreTypeOK'
           /\ queue' \in [Swaps -> {"absent", "ready", "locked"}]
           /\ watched' \in SUBSET Swaps
<1> DEFINE sw == swaps[s]
           pops == ~sw.funded \/ sw.redeemed
<1>1. sw \in SwapData
  BY DEF TypeOK
<1>2. [sw EXCEPT !.known = @ /\ ~pops] \in SwapData
  BY <1>1 DEF SwapData
<1>3. swaps' = [swaps EXCEPT ![s] = [sw EXCEPT !.known = @ /\ ~pops]]
  BY DEF FailSwap
<1>4. swaps' \in [Swaps -> SwapData]
  BY <1>2, <1>3 DEF TypeOK
<1> QED
  BY <1>4 DEF FailSwap, TypeOK, StoreTypeOK, Write, NoWrite

LEMMA RequestType ==
    ASSUME TypeOK, RequestMoves PROVE TypeOK'
<1>1. ASSUME NEW s \in Swaps, CreateReads(s) PROVE TypeOK'
  BY <1>1 DEF CreateReads, TypeOK, storeVars, lnVars, chainVars
<1>2. CASE CreateRaises
  <2>1. listening' \in BOOLEAN
    BY <1>2 DEF CreateRaises
  <2>2. faults' \in Nat
    BY <1>2 DEF CreateRaises, Fault, TypeOK
  <2>3. creating' \in SUBSET (Swaps \X Heights)
    BY <1>2 DEF CreateRaises
  <2> QED
    BY <1>2, <2>1, <2>2, <2>3 DEF CreateRaises, TypeOK, storeVars, lnVars, chainVars
<1>3. ASSUME NEW s \in Swaps, AddInvoice(s) PROVE TypeOK'
  BY <1>3 DEF AddInvoice, Submitted, Write, TypeOK, chainVars
<1>4. ASSUME NEW s \in Swaps, AddInvoiceLate(s) PROVE TypeOK'
  <2>1. listening' \in BOOLEAN
    BY <1>4 DEF AddInvoiceLate
  <2>2. submits' \in [Swaps -> Nat]
    BY <1>4 DEF AddInvoiceLate, Submitted, TypeOK
  <2> QED
    BY <1>4, <2>1, <2>2 DEF AddInvoiceLate, Submitted, Write, TypeOK, chainVars
<1>5. ASSUME NEW s \in Swaps, AddInvoiceUnknown(s) PROVE TypeOK'
  <2>1. listening' \in BOOLEAN
    BY <1>5 DEF AddInvoiceUnknown
  <2>2. submits' \in [Swaps -> Nat]
    BY <1>5 DEF AddInvoiceUnknown, Submitted, TypeOK
  <2> QED
    BY <1>5, <2>1, <2>2 DEF AddInvoiceUnknown, Submitted, TypeOK, storeVars, chainVars
<1> QED
  BY <1>1, <1>2, <1>3, <1>4, <1>5 DEF RequestMoves

LEMMA RegisterType ==
    ASSUME TypeOK, NEW s \in Swaps, CreateRegisters(s) PROVE TypeOK'
<1>1. PICK h \in Heights :
        /\ creating' = {}
        /\ swaps' = [swaps EXCEPT ![s] = [NoSwap EXCEPT !.known = TRUE,
                                                        !.locktime = h + LocktimeDelta]]
        /\ watched' = watched \cup {s}
        /\ offered' = [offered EXCEPT ![s] = h + LocktimeDelta]
        /\ UNCHANGED <<up, listening, invoices, diskSwaps, diskInvoices, queue, paying,
                       due, claim, lastHeight, submits, expired, ln, chainVars, faults>>
  BY DEF CreateRegisters
<1>2. h + LocktimeDelta \in Nat
  BY ReverseAssumption DEF Heights
<1>3. [NoSwap EXCEPT !.known = TRUE, !.locktime = h + LocktimeDelta] \in SwapData
  BY <1>2 DEF NoSwap, SwapData
<1>4. swaps' \in [Swaps -> SwapData] /\ offered' \in [Swaps -> Nat]
  BY <1>1, <1>2, <1>3 DEF TypeOK
<1> QED
  BY <1>1, <1>4 DEF TypeOK, chainVars

LEMMA PayType ==
    ASSUME TypeOK, NEW s \in Swaps, PayMoves(s) PROVE TypeOK'
<1>1. CASE PayStarts(s)
  BY <1>1 DEF PayStarts, LockQueue, TypeOK, Roles, storeVars, chainVars
<1>2. CASE PayRaises(s)
  <2>1. CASE swaps[s].known
    BY <1>2, <2>1, FailSwapType DEF PayRaises, TypeOK, StoreTypeOK, lnVars, chainVars
  <2>2. CASE ~swaps[s].known
    BY <1>2, <2>2 DEF PayRaises, LockQueue, TypeOK, storeVars, lnVars, chainVars
  <2> QED
    BY <2>1, <2>2
<1>3. ASSUME NEW r \in Roles, Waits(s, r),
             paying' = [paying EXCEPT ![s][r] = @ - 1]
      PROVE  paying' \in [Swaps -> [Roles -> Nat]]
  BY <1>3 DEF Waits, TypeOK
<1>4. ASSUME NEW r \in Roles, PaySucceeds(s, r) PROVE TypeOK'
  BY <1>3, <1>4 DEF PaySucceeds, Write, NoWrite, TypeOK, lnVars, chainVars
<1>5. ASSUME NEW r \in Roles, PayFails(s, r) PROVE TypeOK'
  <2>1. paying' \in [Swaps -> [Roles -> Nat]] /\ faults' \in Nat
    <3>1. faults' \in Nat
      BY <1>5 DEF PayFails, Fault, TypeOK
    <3> QED
      BY <1>3, <1>5, <3>1 DEF PayFails
  <2>2. CASE s \in expired /\ swaps[s].known /\ FailSwap(s, swaps[s])
    BY <1>5, <2>1, <2>2, FailSwapType DEF PayFails, TypeOK, StoreTypeOK, lnVars, chainVars
  <2>3. CASE ~(s \in expired /\ swaps[s].known /\ FailSwap(s, swaps[s]))
    BY <1>5, <2>1, <2>3 DEF PayFails, TypeOK, storeVars, lnVars, chainVars
  <2> QED
    BY <2>2, <2>3
<1> QED
  BY <1>1, <1>2, <1>4, <1>5 DEF PayMoves

\* Setting one output of one swap keeps the type of them all; outside of
\* Values, as for the value "none", nothing is set.
LEMMA OutputType ==
    ASSUME TypeOK, NEW s \in Swaps, NEW v, NEW o, v \in Values => o \in Outputs
    PROVE  [output EXCEPT ![s][v] = o] \in [Swaps -> [Values -> Outputs]]
<1> DEFINE row == [output[s] EXCEPT ![v] = o]
<1>1. row \in [Values -> Outputs]
  <2>1. output[s] \in [Values -> Outputs]
    BY DEF TypeOK
  <2>2. CASE v \in Values
    BY <2>1, <2>2
  <2>3. CASE v \notin Values
    <3>1. \A w \in Values : row[w] = output[s][w]
      BY <2>1, <2>3
    <3>2. row = [w \in Values |-> row[w]]
      BY <2>1
    <3> HIDE DEF row
    <3> QED
      BY <2>1, <3>1, <3>2
  <2> QED
    BY <2>2, <2>3
<1>2. [output EXCEPT ![s][v] = o] = [output EXCEPT ![s] = row]
  BY DEF TypeOK
<1> HIDE DEF row
<1> QED
  BY <1>1, <1>2 DEF TypeOK

\* An output with some of its fields set is an output.
LEMMA OutputFields ==
    ASSUME NEW o \in Outputs
    PROVE  /\ [o EXCEPT !.sent = TRUE] \in Outputs
           /\ [o EXCEPT !.spender = "claim"] \in Outputs
           /\ [o EXCEPT !.spender = "refund"] \in Outputs
  BY DEF Outputs

LEMMA ClaimType ==
    ASSUME TypeOK, ClaimMoves PROVE TypeOK'
<1>1. CASE MonitorPolls
  BY <1>1 DEF MonitorPolls, TypeOK, storeVars, lnVars, chainVars
<1>2. ASSUME NEW s \in Swaps, ClaimReads(s) PROVE TypeOK'
  <2>1. PICK v \in Values \cup {"none"} :
          claim' = {[swap |-> s, step |-> "act", height |-> height, value |-> v,
                     spender |-> IF v = "none" THEN "none" ELSE output[s][v].spender,
                     spentAt |-> IF v = "none" THEN 0 ELSE output[s][v].spentAt]}
    BY <1>2 DEF ClaimReads
  <2>2. ASSUME v # "none" PROVE output[s][v] \in Outputs
    BY <2>2 DEF TypeOK
  <2>3. 0 \in Heights /\ height \in Heights
    BY ReverseAssumption DEF Heights, TypeOK
  <2>4. claim' \in SUBSET Reads
    BY <2>1, <2>2, <2>3 DEF Reads, Outputs
  <2> QED
    BY <1>2, <2>4 DEF ClaimReads, TypeOK, storeVars, lnVars, chainVars
<1>3. ASSUME NEW s \in Swaps, ClaimSkips(s) PROVE TypeOK'
  <2>1. faults' \in Nat
    BY <1>3 DEF ClaimSkips, Fault, TypeOK
  <2> QED
    BY <1>3, <2>1 DEF ClaimSkips, TypeOK, storeVars, lnVars, chainVars
<1>4. ASSUME NEW c \in claim PROVE c \in Reads /\ c.swap \in Swaps
  BY <1>4 DEF TypeOK, Reads
<1>5. ASSUME NEW c \in claim, ClaimUnfunded(c) PROVE TypeOK'
  <2>1. CASE c.height >= swaps[c.swap].locktime
    BY <1>4, <1>5, <2>1, FailSwapType
    DEF ClaimUnfunded, ClaimEnds, TypeOK, StoreTypeOK, lnVars
  <2>2. CASE ~(c.height >= swaps[c.swap].locktime)
    BY <1>5, <2>2 DEF ClaimUnfunded, ClaimEnds, TypeOK, storeVars, lnVars
  <2> QED
    BY <2>1, <2>2
<1>6. ASSUME NEW c \in claim, ClaimSeesOutput(c) PROVE TypeOK'
  <2>1. [swaps[c.swap] EXCEPT !.known = TRUE, !.funded = TRUE] \in SwapData
    BY <1>4, FieldsType DEF TypeOK
  <2>2. swaps' \in [Swaps -> SwapData]
    BY <1>4, <1>6, <2>1 DEF ClaimSeesOutput, TypeOK
  <2>3. [c EXCEPT !.step = "spend"] \in Reads
    BY <1>4 DEF Reads
  <2> QED
    BY <1>6, <2>2, <2>3 DEF ClaimSeesOutput, TypeOK, lnVars, chainVars
<1>7. ASSUME NEW c \in claim, ClaimDrops(c) PROVE TypeOK'
  <2>1. [swaps[c.swap] EXCEPT !.spent = TRUE, !.redeemed = TRUE, !.known = FALSE] \in SwapData
    BY <1>4, FieldsType DEF TypeOK
  <2>2. swaps' \in [Swaps -> SwapData]
    BY <1>4, <1>7, <2>1 DEF ClaimDrops, TypeOK
  <2> QED
    BY <1>7, <2>2 DEF ClaimDrops, ClaimEnds, Write, TypeOK, lnVars
<1>8. ASSUME NEW c \in claim, SetsSpent(c) PROVE swaps' \in [Swaps -> SwapData]
  <2>1. [swaps[c.swap] EXCEPT !.spent = TRUE] \in SwapData
    BY <1>4, FieldsType DEF TypeOK
  <2> QED
    BY <1>4, <1>8, <2>1 DEF SetsSpent, TypeOK
<1>9. ASSUME NEW c \in claim, ClaimSeesSpender(c) PROVE TypeOK'
  BY <1>8, <1>9 DEF ClaimSeesSpender, SetsSpent, ClaimEnds, TypeOK, lnVars
<1>10. ASSUME NEW c \in claim, ClaimSpends(c) PROVE TypeOK'
  <2>1. output' \in [Swaps -> [Values -> Outputs]]
    <3>1. CASE output' = output
      BY <3>1 DEF TypeOK
    <3>2. CASE output' = [output EXCEPT ![c.swap][c.value].spender = "claim"]
      <4> DEFINE o == [output[c.swap][c.value] EXCEPT !.spender = "claim"]
      <4>1. c.value \in Values => o \in Outputs
        BY <1>4, OutputFields DEF TypeOK
      <4>2. output' = [output EXCEPT ![c.swap][c.value] = o]
        BY <3>2
      <4> HIDE DEF o
      <4> QED
        BY <1>4, <4>1, <4>2, OutputType
    <3> QED
      BY <1>10, <3>1, <3>2 DEF ClaimSpends
  <2>2. revealed' \in SUBSET Swaps /\ faults' \in Nat
    BY <1>4, <1>10 DEF ClaimSpends, Fault, TypeOK
  <2> QED
    BY <1>8, <1>10, <2>1, <2>2 DEF ClaimSpends, SetsSpent, ClaimEnds, TypeOK, lnVars
<1>11. ASSUME NEW c \in claim, ClaimRaises(c) PROVE TypeOK'
  <2>1. faults' \in Nat
    BY <1>11 DEF ClaimRaises, Fault, TypeOK
  <2> QED
    BY <1>11, <2>1 DEF ClaimRaises, ClaimEnds, TypeOK, storeVars, lnVars
<1> QED
  BY <1>1, <1>2, <1>3, <1>5, <1>6, <1>7, <1>9, <1>10, <1>11 DEF ClaimMoves

LEMMA WorldType ==
    ASSUME TypeOK, (\E s \in Swaps : ClientMoves(s)) \/ BlockMined
    PROVE  TypeOK'
<1>1. ASSUME NEW s \in Swaps, NEW v \in Values, ClientFunds(s, v) PROVE TypeOK'
  <2> DEFINE o == [output[s][v] EXCEPT !.sent = TRUE]
  <2>1. o \in Outputs
    <3>1. output[s][v] \in Outputs
      BY DEF TypeOK
    <3> QED
      BY <3>1, OutputFields
  <2>2. output' = [output EXCEPT ![s][v] = o]
    BY <1>1 DEF ClientFunds
  <2> HIDE DEF o
  <2>3. output' \in [Swaps -> [Values -> Outputs]]
    BY <2>1, <2>2, OutputType
  <2> QED
    BY <1>1, <2>3 DEF ClientFunds, TypeOK, storeVars, taskVars, lnVars
<1>2. ASSUME NEW s \in Swaps, NEW v \in Values, ClientRefunds(s, v) PROVE TypeOK'
  <2> DEFINE o == [output[s][v] EXCEPT !.spender = "refund"]
  <2>1. o \in Outputs
    <3>1. output[s][v] \in Outputs
      BY DEF TypeOK
    <3> QED
      BY <3>1, OutputFields
  <2>2. output' = [output EXCEPT ![s][v] = o]
    BY <1>2 DEF ClientRefunds
  <2> HIDE DEF o
  <2>3. output' \in [Swaps -> [Values -> Outputs]]
    BY <2>1, <2>2, OutputType
  <2> QED
    BY <1>2, <2>3 DEF ClientRefunds, TypeOK, storeVars, taskVars, lnVars
<1>3. ASSUME NEW s \in Swaps, ClientSettles(s) \/ PaymentFails(s) PROVE TypeOK'
  BY <1>3 DEF ClientSettles, PaymentFails, TypeOK, storeVars, taskVars, chainVars
<1>4. ASSUME NEW s \in Swaps, InvoiceExpires(s) PROVE TypeOK'
  BY <1>4 DEF InvoiceExpires, TypeOK, storeVars, taskVars, chainVars
<1>5. CASE BlockMined
  <2>1. height \in Heights /\ height < MaxHeight /\ height' = height + 1
    BY <1>5 DEF BlockMined, TypeOK
  <2>2. height + 1 \in Heights
    BY <2>1, ReverseAssumption DEF Heights
  <2>3. ASSUME NEW o \in Outputs, NEW m \in Heights, NEW n \in Heights
        PROVE  [o EXCEPT !.minedAt = m, !.spentAt = n] \in Outputs
    BY <2>3 DEF Outputs
  <2>4. ASSUME NEW s \in Swaps, NEW v \in Values
        PROVE  [output[s][v] EXCEPT
                  !.minedAt = IF output[s][v].sent /\ @ = 0 THEN height + 1 ELSE @,
                  !.spentAt = IF output[s][v].spender # "none" /\ @ = 0
                              THEN height + 1 ELSE @] \in Outputs
    <3>1. output[s][v] \in Outputs
      BY DEF TypeOK
    <3>2. output[s][v].minedAt \in Heights /\ output[s][v].spentAt \in Heights
      BY <3>1 DEF Outputs
    <3> QED
      BY <2>2, <2>3, <3>1, <3>2
  <2>5. output' \in [Swaps -> [Values -> Outputs]]
    BY <1>5, <2>4 DEF BlockMined
  <2> QED
    BY <1>5, <2>1, <2>2, <2>5 DEF BlockMined, TypeOK, storeVars, taskVars, lnVars
<1> QED
  BY <1>1, <1>2, <1>3, <1>4, <1>5 DEF ClientMoves

LEMMA RestartType ==
    ASSUME TypeOK, Crash \/ Restart PROVE TypeOK'
<1>1. CASE Crash
  <2>1. up' \in BOOLEAN /\ listening' \in BOOLEAN
    BY <1>1 DEF Crash
  <2>2. faults' \in Nat
    BY <1>1 DEF Crash, Fault, TypeOK
  <2>3. paying' \in [Swaps -> [Roles -> Nat]]
    BY <1>1 DEF Crash
  <2> QED
    BY <1>1, <2>1, <2>2, <2>3 DEF Crash, TypeOK, lnVars, chainVars
<1>2. CASE Restart
  <2>1. up' \in BOOLEAN /\ listening' \in BOOLEAN
    BY <1>2 DEF Restart
  <2> QED
    BY <1>2, <2>1 DEF Restart, TypeOK, storeVars, lnVars, chainVars
<1> QED
  BY <1>1, <1>2

\* Every variable keeps its type in every behaviour: requests, payments, chain
\* callbacks, client, blocks, crashes.
THEOREM ReverseTypes == Spec => []TypeOK
<1>1. Init => TypeOK
  <2> SUFFICES ASSUME Init PROVE TypeOK
    OBVIOUS
  <2>1. NoSwap \in SwapData
    BY DEF NoSwap, SwapData
  <2>2. StartHeight \in Heights /\ 0 \in Heights
    BY ReverseAssumption DEF Heights
  <2>3. NoOutput \in Outputs
    BY <2>2 DEF NoOutput, Outputs
  <2>4. up \in BOOLEAN /\ listening \in BOOLEAN
    BY DEF Init
  <2> QED
    BY <2>1, <2>2, <2>3, <2>4 DEF Init, TypeOK
<1>2. TypeOK /\ [Next]_vars => TypeOK'
  <2> SUFFICES ASSUME TypeOK, [Next]_vars PROVE TypeOK'
    OBVIOUS
  <2>1. CASE UNCHANGED vars
    BY <2>1 DEF vars, storeVars, taskVars, lnVars, chainVars, TypeOK
  <2>2. CASE Next
    BY <2>2, RequestType, RegisterType, PayType, ClaimType, WorldType, RestartType DEF Next
  <2> QED
    BY <2>1, <2>2
<1> QED
  BY <1>1, <1>2, PTL DEF Spec

-----------------------------------------------------------------------------
(* The preimage is shown for a payment *)

\* What _claim_swap has read of a low output can only be its spender, and it
\* goes on to spend only when it has seen an output.
ClaimInv == \A c \in claim : /\ c.value = "low" => c.spender # "none"
                             /\ c.step = "spend" => c.value # "none"

RevealInv == TypeOK /\ ClaimInv /\ RevealedForPayment

\* A mined output stays mined.
LEMMA MinedStays ==
    ASSUME TypeOK, BlockMined, NEW s \in Swaps, output[s]["full"].minedAt > 0
    PROVE  output'[s]["full"].minedAt > 0
<1> DEFINE old == output[s]["full"]
           new(v) == [output[s][v] EXCEPT
                        !.minedAt = IF output[s][v].sent /\ @ = 0 THEN height + 1 ELSE @,
                        !.spentAt = IF output[s][v].spender # "none" /\ @ = 0
                                    THEN height + 1 ELSE @]
<1>1. old \in Outputs
  BY DEF TypeOK, Values
<1>2. old.minedAt # 0
  BY <1>1 DEF Outputs, Heights
<1>3. output'[s] = [v \in Values |-> new(v)]
  BY DEF BlockMined
<1>4. output'[s]["full"] = new("full")
  BY <1>3 DEF Values
<1>5. new("full").minedAt = old.minedAt
  BY <1>1, <1>2 DEF Outputs
<1> QED
  BY <1>4, <1>5

LEMMA RevealStep ==
    ASSUME RevealInv, Next PROVE ClaimInv' /\ RevealedForPayment'
<1> USE DEF RevealInv
<1>1. CASE RequestMoves
  BY <1>1 DEF RequestMoves, CreateReads, CreateRaises, AddInvoice, AddInvoiceLate,
     AddInvoiceUnknown, Submitted, ClaimInv, RevealedForPayment, chainVars
<1>2. CASE \E s \in Swaps : CreateRegisters(s) \/ PayMoves(s)
  BY <1>2 DEF CreateRegisters, PayMoves, PayStarts, PayRaises, PaySucceeds, PayFails,
     ClaimInv, RevealedForPayment, chainVars
<1>3. CASE MonitorPolls \/ (\E s \in Swaps : ClaimSkips(s))
  BY <1>3 DEF MonitorPolls, ClaimSkips, ClaimInv, RevealedForPayment, chainVars
<1>4. ASSUME NEW s \in Swaps, ClaimReads(s) PROVE ClaimInv' /\ RevealedForPayment'
  <2>1. PICK v \in Values \cup {"none"} :
          /\ Chosen(s, v)
          /\ claim' = {[swap |-> s, step |-> "act", height |-> height, value |-> v,
                        spender |-> IF v = "none" THEN "none" ELSE output[s][v].spender,
                        spentAt |-> IF v = "none" THEN 0 ELSE output[s][v].spentAt]}
    BY <1>4 DEF ClaimReads
  <2>2. v = "low" => output[s][v].spender # "none"
    BY <2>1 DEF Chosen, Enough
  <2>3. ASSUME NEW c \in claim'
        PROVE  /\ c.value = v /\ c.step = "act"
               /\ v = "low" => c.spender = output[s][v].spender
    BY <2>1
  <2>4. ClaimInv'
    BY <2>2, <2>3 DEF ClaimInv
  <2> QED
    BY <1>4, <2>4 DEF ClaimReads, RevealedForPayment, chainVars
<1>5. ASSUME NEW c \in claim,
             \/ ClaimUnfunded(c) \/ ClaimSeesOutput(c) \/ ClaimRaises(c)
             \/ ClaimDrops(c) \/ ClaimSeesSpender(c)
      PROVE  ClaimInv' /\ RevealedForPayment'
  <2>1. c \in Reads
    BY DEF TypeOK
  <2>2. CASE ClaimSeesOutput(c)
    <3>1. [c EXCEPT !.step = "spend"].value = c.value
          /\ [c EXCEPT !.step = "spend"].spender = c.spender
      BY <2>1 DEF Reads
    <3>2. c.value # "none" /\ claim' = {[c EXCEPT !.step = "spend"]}
      BY <2>2 DEF ClaimSeesOutput
    <3>3. ClaimInv'
      BY <3>1, <3>2 DEF ClaimInv
    <3> QED
      BY <2>2, <3>3 DEF ClaimSeesOutput, RevealedForPayment, chainVars
  <2>3. CASE claim' = {} /\ output' = output /\ revealed' = revealed
    BY <2>3 DEF ClaimInv, RevealedForPayment
  <2>4. ASSUME ~ClaimSeesOutput(c)
        PROVE  claim' = {} /\ output' = output /\ revealed' = revealed
    BY <1>5, <2>4 DEF ClaimUnfunded, ClaimRaises, ClaimDrops, ClaimSeesSpender, ClaimEnds
  <2> QED
    BY <2>2, <2>3, <2>4
<1>6. ASSUME NEW c \in claim, ClaimSpends(c) PROVE ClaimInv' /\ RevealedForPayment'
  <2>1. c \in Reads /\ c.swap \in Swaps
    BY DEF TypeOK, Reads
  <2>2. c.value = "full"
    BY <1>6, <2>1 DEF ClaimSpends, At, ClaimInv, Reads, Values
  <2>3. CASE /\ Confirmed(c.swap, c.value)
             /\ output' = [output EXCEPT ![c.swap][c.value].spender = "claim"]
             /\ revealed' = revealed \cup {c.swap}
    <3>1. \A s \in Swaps : output'[s]["full"].minedAt = output[s]["full"].minedAt
      BY <2>1, <2>2, <2>3 DEF TypeOK, Values, Outputs
    <3>2. output[c.swap]["full"].minedAt > 0
      BY <2>2, <2>3 DEF Confirmed
    <3>3. revealed \subseteq Swaps
      BY DEF TypeOK
    <3> QED
      BY <1>6, <2>1, <2>3, <3>1, <3>2, <3>3
      DEF ClaimSpends, ClaimEnds, ClaimInv, RevealedForPayment
  <2> QED
    BY <1>6, <2>3 DEF ClaimSpends, ClaimEnds, ClaimInv, RevealedForPayment
<1>7. ASSUME NEW s \in Swaps, ClientMoves(s) PROVE ClaimInv' /\ RevealedForPayment'
  <2>1. ASSUME NEW v \in Values, ClientFunds(s, v) \/ ClientRefunds(s, v)
        PROVE  ClaimInv' /\ RevealedForPayment'
    <3>1. ASSUME NEW t \in Swaps
          PROVE  output'[t]["full"].minedAt = output[t]["full"].minedAt
      <4>1. CASE ClientFunds(s, v)
        BY <4>1 DEF ClientFunds, TypeOK, Values, Outputs
      <4>2. CASE ClientRefunds(s, v)
        BY <4>2 DEF ClientRefunds, TypeOK, Values, Outputs
      <4> QED
        BY <2>1, <4>1, <4>2
    <3> QED
      BY <2>1, <3>1 DEF ClientFunds, ClientRefunds, ClaimInv, RevealedForPayment,
         TypeOK, taskVars
  <2> QED
    BY <1>7, <2>1 DEF ClientMoves, ClientSettles, PaymentFails, InvoiceExpires,
       ClaimInv, RevealedForPayment, taskVars, chainVars
<1>8. CASE BlockMined
  <2>1. \A s \in revealed : output'[s]["full"].minedAt > 0
    BY <1>8, MinedStays DEF RevealedForPayment, TypeOK
  <2> QED
    BY <1>8, <2>1 DEF BlockMined, ClaimInv, RevealedForPayment, taskVars
<1>9. CASE Crash \/ Restart
  BY <1>9 DEF Crash, Restart, ClaimInv, RevealedForPayment, chainVars
<1> QED
  BY <1>1, <1>2, <1>3, <1>4, <1>5, <1>6, <1>7, <1>8, <1>9 DEF Next, ClaimMoves

LEMMA RevealInvariant == Spec => []RevealInv
<1>1. Init => ClaimInv /\ RevealedForPayment
  BY DEF Init, ClaimInv, RevealedForPayment
<1>2. RevealInv /\ [Next]_vars => (ClaimInv /\ RevealedForPayment)'
  <2> SUFFICES ASSUME RevealInv, [Next]_vars PROVE (ClaimInv /\ RevealedForPayment)'
    OBVIOUS
  <2>1. CASE UNCHANGED vars
    BY <2>1 DEF RevealInv, ClaimInv, RevealedForPayment, vars, taskVars, chainVars
  <2> QED
    BY <2>1, RevealStep
<1> QED
  BY <1>1, <1>2, ReverseTypes, PTL DEF Spec, RevealInv

\* Whatever is paid to the lockup address and spent from it, and however tasks,
\* blocks, faults and crashes interleave, a claim transaction is published only
\* for a confirmed output that is worth the preimage.
THEOREM PreimageForPayment == Spec => []RevealedForPayment
<1>1. RevealInv => RevealedForPayment
  BY DEF RevealInv
<1> QED
  BY <1>1, RevealInvariant, PTL

-----------------------------------------------------------------------------
(* A payment is begun only for a swap that is stored *)

\* A known invoice has its swap in memory and on disk, and a stored invoice has
\* its swap stored.
InvoiceHasSwap ==
    /\ \A s \in invoices : swaps[s].known /\ diskSwaps[s].known
    /\ \A s \in diskInvoices : diskSwaps[s].known

\* An entry of which only other fields are set stays known.
LEMMA StaysKnown ==
    ASSUME NEW sw \in SwapData
    PROVE  /\ [sw EXCEPT !.known = TRUE, !.funded = TRUE].known
           /\ [sw EXCEPT !.spent = TRUE].known = sw.known
  BY DEF SwapData

LEMMA FailSwapStored ==
    ASSUME TypeOK, InvoiceHasSwap, NEW s \in Swaps, FailSwap(s, swaps[s])
    PROVE  InvoiceHasSwap'
<1> DEFINE pops == ~swaps[s].funded \/ swaps[s].redeemed
           entry == [swaps[s] EXCEPT !.known = @ /\ ~pops]
<1>1. swaps' = [swaps EXCEPT ![s] = entry] /\ invoices' = invoices \ {s}
  BY DEF FailSwap
<1> HIDE DEF entry
<1>2. \A t \in invoices' : swaps'[t] = swaps[t]
  BY <1>1 DEF TypeOK
<1>3. Write \/ NoWrite
  BY DEF FailSwap
<1> QED
  BY <1>1, <1>2, <1>3 DEF InvoiceHasSwap, Write, NoWrite

LEMMA StoredStep ==
    ASSUME TypeOK, InvoiceHasSwap, Next PROVE InvoiceHasSwap'
<1>1. CASE UNCHANGED storeVars
  BY <1>1 DEF InvoiceHasSwap, storeVars
<1>2. CASE RequestMoves
  <2>1. ASSUME NEW s \in Swaps, AddInvoice(s) \/ AddInvoiceLate(s) PROVE InvoiceHasSwap'
    BY <2>1 DEF AddInvoice, AddInvoiceLate, Write, InvoiceHasSwap
  <2> QED
    BY <1>1, <1>2, <2>1 DEF RequestMoves, CreateReads, CreateRaises, AddInvoiceUnknown
<1>3. ASSUME NEW s \in Swaps, CreateRegisters(s) PROVE InvoiceHasSwap'
  <2>1. PICK h \in Heights :
          swaps' = [swaps EXCEPT ![s] = [NoSwap EXCEPT !.known = TRUE,
                                                       !.locktime = h + LocktimeDelta]]
    BY <1>3 DEF CreateRegisters
  <2>2. \A t \in Swaps : swaps[t].known => swaps'[t].known
    BY <2>1 DEF TypeOK, NoSwap
  <2> QED
    BY <1>3, <2>2 DEF CreateRegisters, InvoiceHasSwap, TypeOK
<1>4. ASSUME NEW s \in Swaps, PayMoves(s) PROVE InvoiceHasSwap'
  <2>1. ASSUME NEW r \in Roles, PaySucceeds(s, r) PROVE InvoiceHasSwap'
    BY <2>1 DEF PaySucceeds, Write, NoWrite, InvoiceHasSwap
  <2>2. CASE FailSwap(s, swaps[s])
    BY <2>2, FailSwapStored
  <2> QED
    BY <1>1, <1>4, <2>1, <2>2 DEF PayMoves, PayStarts, PayRaises, PayFails, storeVars
<1>5. ASSUME NEW s \in Swaps, ClaimReads(s) \/ ClaimSkips(s) PROVE InvoiceHasSwap'
  BY <1>1, <1>5 DEF ClaimReads, ClaimSkips
<1>6. ASSUME NEW c \in claim, c.swap \in Swaps,
             \/ ClaimUnfunded(c) \/ ClaimSeesOutput(c) \/ ClaimRaises(c)
             \/ ClaimDrops(c) \/ ClaimSeesSpender(c) \/ ClaimSpends(c)
      PROVE  InvoiceHasSwap'
  <2>1. CASE ClaimUnfunded(c)
    BY <1>1, <1>6, <2>1, FailSwapStored DEF ClaimUnfunded
  <2>2. CASE ClaimSeesOutput(c)
    <3>1. \A t \in Swaps : swaps[t].known => swaps'[t].known
      <4>1. swaps' = [swaps EXCEPT ![c.swap] =
                        [swaps[c.swap] EXCEPT !.known = TRUE, !.funded = TRUE]]
        BY <1>6, <2>2 DEF ClaimSeesOutput, TypeOK
      <4>2. [swaps[c.swap] EXCEPT !.known = TRUE, !.funded = TRUE].known
        BY <1>6, StaysKnown DEF TypeOK
      <4> QED
        BY <1>6, <4>1, <4>2 DEF TypeOK
    <3> QED
      BY <2>2, <3>1 DEF ClaimSeesOutput, InvoiceHasSwap, TypeOK
  <2>3. CASE ClaimDrops(c)
    <3>1. \A t \in invoices' : t \in invoices /\ swaps'[t] = swaps[t]
      BY <1>6, <2>3 DEF ClaimDrops, TypeOK
    <3> QED
      BY <2>3, <3>1 DEF ClaimDrops, Write, InvoiceHasSwap
  <2>4. CASE SetsSpent(c)
    <3>1. \A t \in Swaps : swaps'[t].known = swaps[t].known
      BY <1>6, <2>4, StaysKnown DEF SetsSpent, TypeOK
    <3> QED
      BY <2>4, <3>1 DEF SetsSpent, InvoiceHasSwap, TypeOK
  <2> QED
    BY <1>1, <1>6, <2>1, <2>2, <2>3, <2>4 DEF ClaimRaises, ClaimSeesSpender, ClaimSpends
<1>7. ASSUME NEW s \in Swaps, ClientMoves(s) PROVE InvoiceHasSwap'
  BY <1>1, <1>7 DEF ClientMoves, ClientFunds, ClientRefunds, ClientSettles,
     PaymentFails, InvoiceExpires
<1>8. CASE MonitorPolls \/ BlockMined \/ Restart
  BY <1>1, <1>8 DEF MonitorPolls, BlockMined, Restart
<1>9. CASE Crash
  BY <1>9 DEF Crash, InvoiceHasSwap
<1>10. \A c \in claim : c.swap \in Swaps
  BY DEF TypeOK, Reads
<1> QED
  BY <1>2, <1>3, <1>4, <1>5, <1>6, <1>7, <1>8, <1>9, <1>10 DEF Next, ClaimMoves

\* When lightningd is asked to pay the invoice of the client, the file holds the
\* preimage and the key that claim what the client locks for it.
THEOREM PaysStored == Spec => PaysOnlyStoredSwaps
<1>1. Init => InvoiceHasSwap
  BY DEF Init, InvoiceHasSwap
<1>2. TypeOK /\ InvoiceHasSwap /\ [Next]_vars => InvoiceHasSwap'
  <2>1. UNCHANGED vars /\ InvoiceHasSwap => InvoiceHasSwap'
    BY DEF InvoiceHasSwap, vars, storeVars
  <2> QED
    BY <2>1, StoredStep
<1> DEFINE Stored == \A s \in Swaps : ln[s] = "none" /\ ln'[s] = "pending" => diskSwaps[s].known
<1>3. TypeOK /\ InvoiceHasSwap /\ [Next]_vars => [Stored]_vars
  <2> SUFFICES ASSUME TypeOK, InvoiceHasSwap, Next,
                      NEW s \in Swaps, ln[s] = "none", ln'[s] = "pending"
               PROVE  diskSwaps[s].known
    OBVIOUS
  <2>1. PayStarts(s)
    <3>1. ln' # ln
      OBVIOUS
    <3>2. PICK t \in Swaps : PayMoves(t) \/ ClientMoves(t)
      BY <3>1 DEF Next, RequestMoves, CreateReads, CreateRaises, AddInvoice,
         AddInvoiceLate, AddInvoiceUnknown, Submitted, CreateRegisters, ClaimMoves,
         MonitorPolls, ClaimReads, ClaimSkips, ClaimUnfunded, ClaimSeesOutput,
         ClaimRaises, ClaimDrops, ClaimSeesSpender, ClaimSpends, ClaimEnds, BlockMined, Crash,
         Restart, lnVars
    <3>3. PayStarts(t) \/ ClientSettles(t) \/ PaymentFails(t)
      BY <3>1, <3>2 DEF PayMoves, PayRaises, PaySucceeds, PayFails, ClientMoves,
         ClientFunds, ClientRefunds, InvoiceExpires, lnVars
    <3>4. ~ClientSettles(t) /\ ~PaymentFails(t)
      BY DEF ClientSettles, PaymentFails, TypeOK
    <3> QED
      BY <3>3, <3>4 DEF PayStarts, TypeOK
  <2> QED
    BY <2>1 DEF PayStarts, InvoiceHasSwap
<1> QED
  BY <1>1, <1>2, <1>3, ReverseTypes, PTL DEF Spec, PaysOnlyStoredSwaps

-----------------------------------------------------------------------------
(* Retries never add calls of pay *)

Ready(s) == IF queue[s] = "ready" THEN 1 ELSE 0

LEMMA Counts ==
    ASSUME TypeOK, NEW s \in Swaps
    PROVE  paying[s]["first"] \in Nat /\ paying[s]["later"] \in Nat /\ submits[s] \in Nat
  BY DEF TypeOK, Roles

\* Steps that begin and end no call and make no entry ready.
LEMMA NoCallAdded ==
    ASSUME TypeOK, OneCallPerSubmit, paying' = paying, submits' = submits,
           \A s \in Swaps : queue'[s] = "ready" => queue[s] = "ready"
    PROVE  OneCallPerSubmit'
<1> SUFFICES ASSUME NEW s \in Swaps PROVE Tasks(s)' + Ready(s)' <= submits'[s]
  BY DEF OneCallPerSubmit, Ready
<1>1. Tasks(s)' = Tasks(s) /\ Ready(s)' <= Ready(s) /\ Ready(s) \in Nat /\ Ready(s)' \in Nat
  BY DEF Tasks, Ready
<1>2. Tasks(s) + Ready(s) <= submits[s]
  BY DEF OneCallPerSubmit, Ready
<1> QED
  BY <1>1, <1>2, Counts DEF Tasks

LEMMA FailSwapQueue ==
    ASSUME TypeOK, NEW s \in Swaps, FailSwap(s, swaps[s])
    PROVE  \A t \in Swaps : queue'[t] = "ready" => queue[t] = "ready"
  BY DEF FailSwap, TypeOK

\* Steps of one swap s leave the count of every other as it is.
LEMMA OtherCounts ==
    ASSUME TypeOK, OneCallPerSubmit, NEW s \in Swaps,
           \A t \in Swaps \ {s} : /\ paying'[t] = paying[t] /\ queue'[t] = queue[t]
                                  /\ submits'[t] = submits[t],
           Tasks(s)' + Ready(s)' <= submits'[s]
    PROVE  OneCallPerSubmit'
  BY DEF OneCallPerSubmit, Ready, Tasks

LEMMA RequestCounts ==
    ASSUME TypeOK, OneCallPerSubmit, NEW s \in Swaps, Submitted(s),
           \/ queue' = queue
           \/ queue' = [queue EXCEPT ![s] = "ready"]
    PROVE  OneCallPerSubmit'
<1>1. paying' = paying /\ submits' = [submits EXCEPT ![s] = @ + 1]
  BY DEF Submitted
<1>2. submits'[s] = submits[s] + 1 /\ \A t \in Swaps \ {s} : submits'[t] = submits[t]
  BY <1>1 DEF TypeOK
<1>3. \A t \in Swaps \ {s} : queue'[t] = queue[t]
  BY DEF TypeOK
<1>4. Tasks(s)' = Tasks(s) /\ Ready(s)' \in {0, 1} /\ Ready(s) \in {0, 1}
  BY <1>1 DEF Tasks, Ready
<1>5. Tasks(s) + Ready(s) <= submits[s]
  BY DEF OneCallPerSubmit, Ready
<1>6. Tasks(s)' + Ready(s)' <= submits'[s]
  BY <1>2, <1>4, <1>5, Counts DEF Tasks
<1> QED
  BY <1>1, <1>2, <1>3, <1>6, OtherCounts

LEMMA PayCounts ==
    ASSUME TypeOK, OneCallPerSubmit, NEW s \in Swaps, PayMoves(s)
    PROVE  OneCallPerSubmit'
<1>1. Tasks(s) + Ready(s) <= submits[s] /\ Ready(s) \in {0, 1}
  BY DEF OneCallPerSubmit, Ready
<1>2. CASE PayStarts(s)
  <2> DEFINE role == IF ln[s] = "none" THEN "first" ELSE "later"
  <2>1. paying' = [paying EXCEPT ![s][role] = @ + 1] /\ submits' = submits
    BY <1>2 DEF PayStarts
  <2>2. Ready(s) = 1 /\ Ready(s)' = 0
    BY <1>2 DEF PayStarts, LockQueue, Ready, TypeOK
  <2>3. Tasks(s)' = Tasks(s) + 1
    BY <2>1, Counts DEF Tasks, TypeOK, Roles
  <2>4. \A t \in Swaps \ {s} : paying'[t] = paying[t] /\ queue'[t] = queue[t]
    BY <1>2, <2>1 DEF PayStarts, LockQueue, TypeOK
  <2>5. Tasks(s)' + Ready(s)' <= submits'[s]
    BY <1>1, <2>1, <2>2, <2>3, Counts DEF Tasks
  <2> QED
    BY <2>1, <2>4, <2>5, OtherCounts
<1>3. CASE PayRaises(s)
  <2>1. \A t \in Swaps : queue'[t] = "ready" => queue[t] = "ready"
    BY <1>3, FailSwapQueue DEF PayRaises, LockQueue, TypeOK
  <2> QED
    BY <1>3, <2>1, NoCallAdded DEF PayRaises, lnVars
<1>4. ASSUME NEW r \in Roles, PaySucceeds(s, r) \/ PayFails(s, r) PROVE OneCallPerSubmit'
  <2>1. paying' = [paying EXCEPT ![s][r] = @ - 1] /\ paying[s][r] > 0
    BY <1>4 DEF PaySucceeds, PayFails, Waits
  <2>2. submits' = submits
    BY <1>4 DEF PaySucceeds, PayFails, lnVars
  <2>3. Tasks(s)' = Tasks(s) - 1
    BY <2>1, Counts DEF Tasks, TypeOK, Roles
  <2>4. Ready(s)' \in {0, 1}
    BY DEF Ready
  <2>5. \A t \in Swaps \ {s} : paying'[t] = paying[t] /\ queue'[t] = queue[t]
    BY <1>4, <2>1 DEF PaySucceeds, PayFails, FailSwap, storeVars, TypeOK
  <2>6. Tasks(s)' + Ready(s)' <= submits'[s]
    BY <1>1, <2>2, <2>3, <2>4, Counts DEF Tasks
  <2> QED
    BY <2>2, <2>5, <2>6, OtherCounts
<1> QED
  BY <1>2, <1>3, <1>4 DEF PayMoves

LEMMA CountsStep ==
    ASSUME TypeOK, OneCallPerSubmit, Next PROVE OneCallPerSubmit'
<1>1. CASE paying' = paying /\ submits' = submits /\ queue' = queue
  BY <1>1, NoCallAdded
<1>2. CASE RequestMoves
  <2>1. ASSUME NEW s \in Swaps, AddInvoice(s) \/ AddInvoiceLate(s) \/ AddInvoiceUnknown(s)
        PROVE  OneCallPerSubmit'
    BY <2>1, RequestCounts DEF AddInvoice, AddInvoiceLate, AddInvoiceUnknown
  <2> QED
    BY <1>1, <1>2, <2>1 DEF RequestMoves, CreateReads, CreateRaises, lnVars
<1>3. ASSUME NEW s \in Swaps, CreateRegisters(s) PROVE OneCallPerSubmit'
  BY <1>1, <1>3 DEF CreateRegisters
<1>4. ASSUME NEW c \in claim,
             \/ ClaimUnfunded(c) \/ ClaimSeesOutput(c) \/ ClaimRaises(c)
             \/ ClaimDrops(c) \/ ClaimSeesSpender(c) \/ ClaimSpends(c)
      PROVE  OneCallPerSubmit'
  <2>1. paying' = paying /\ submits' = submits
    BY <1>4 DEF ClaimUnfunded, ClaimSeesOutput, ClaimRaises, ClaimDrops, ClaimSeesSpender,
       ClaimSpends, ClaimEnds, lnVars
  <2>2. c.swap \in Swaps
    BY DEF TypeOK, Reads
  <2>3. \A t \in Swaps : queue'[t] = "ready" => queue[t] = "ready"
    BY <1>4, <2>2, FailSwapQueue DEF ClaimUnfunded, ClaimSeesOutput, ClaimRaises,
       ClaimDrops, ClaimSeesSpender, ClaimSpends, SetsSpent, TypeOK
  <2> QED
    BY <2>1, <2>3, NoCallAdded
<1>5. CASE MonitorPolls \/ (\E s \in Swaps : ClaimReads(s) \/ ClaimSkips(s))
  BY <1>1, <1>5 DEF MonitorPolls, ClaimReads, ClaimSkips, lnVars
<1>6. CASE BlockMined \/ Restart \/ (\E s \in Swaps : ClientMoves(s))
  BY <1>1, <1>6 DEF BlockMined, Restart, ClientMoves, ClientFunds, ClientRefunds,
     ClientSettles, PaymentFails, InvoiceExpires, taskVars, lnVars
<1>7. CASE Crash
  <2> SUFFICES ASSUME NEW s \in Swaps PROVE Tasks(s)' + Ready(s)' <= submits'[s]
    BY DEF OneCallPerSubmit, Ready
  <2>1. Tasks(s)' = 0 /\ Ready(s)' = 0 /\ submits' = submits
    BY <1>7 DEF Crash, Tasks, Ready, Roles, lnVars
  <2> QED
    BY <2>1, Counts
<1> QED
  BY <1>2, <1>3, <1>4, <1>5, <1>6, <1>7, PayCounts DEF Next, ClaimMoves

\* The lock of invoices_to_pay works for any number of swaps, requests, retries
\* and faults: calls of pay in progress and payments that are due are never more
\* than the client's requests.
THEOREM PayLock == Spec => []OneCallPerSubmit
<1>1. Init => OneCallPerSubmit
  <2> SUFFICES ASSUME Init, NEW s \in Swaps
               PROVE  Tasks(s) + Ready(s) <= submits[s]
    BY DEF OneCallPerSubmit, Ready
  <2>1. Tasks(s) = 0 /\ Ready(s) = 0 /\ submits[s] = 0
    BY DEF Init, Tasks, Ready, Roles
  <2> QED
    BY <2>1
<1>2. TypeOK /\ OneCallPerSubmit /\ [Next]_vars => OneCallPerSubmit'
  <2>1. TypeOK /\ OneCallPerSubmit /\ UNCHANGED vars => OneCallPerSubmit'
    BY NoCallAdded DEF vars, taskVars, lnVars
  <2> QED
    BY <2>1, CountsStep
<1> QED
  BY <1>1, <1>2, ReverseTypes, PTL DEF Spec

-----------------------------------------------------------------------------
(* The provider does not lose a swap that is funded in time *)

\* The output that is worth the preimage.
Full(s) == output[s]["full"]

\* What the client has not been told of it cannot fund, and an output is sent,
\* then mined, and spent before its spender is.
OutputsInOrder ==
    \A s \in Swaps : /\ offered[s] = 0 => ~Full(s).sent
                     /\ Full(s).minedAt > 0 => Full(s).sent
                     /\ Full(s).spender = "none" => Full(s).spentAt = 0
                     /\ Full(s).minedAt <= height

\* The request in progress is for a swap the client has no data of; a callback
\* in progress is the only one, and no height goes with what is unspent.
OneAtATime ==
    /\ \A p \in creating : offered[p[1]] = 0
    /\ \A c, d \in claim : c = d
    /\ \A c \in claim : c.spender = "none" => c.spentAt = 0

\* An output is acted upon at the height at which it is mined, or never.
FreshOrIgnored ==
    \A s \in Swaps : Timely(s) /\ Full(s).spender = "none" =>
       \/ Full(s).minedAt = height
       \/ s \notin watched \cup due /\ \A c \in claim : c.swap # s

\* The callback of that height is still to come, or has read the output.
FreshIsDue ==
    \A s \in watched :
       Full(s).minedAt = height /\ lastHeight = height /\ Full(s).spender = "none" =>
          \/ s \in due
          \/ \E c \in claim : c.swap = s /\ c.value = "full" /\ c.spender = "none"

\* So the claim transaction was there before the client could take the output
\* back, and is mined when it can.
ClaimedFirst ==
    \A s \in revealed : Timely(s) =>
       /\ Full(s).spender = "claim"
       /\ Full(s).spentAt > 0 \/ Full(s).minedAt = height

\* What holds as long as no call has failed.
NoFaultInv ==
    /\ up /\ height > 0
    /\ OutputsInOrder /\ OneAtATime
    /\ FreshOrIgnored /\ FreshIsDue /\ ClaimedFirst

LossInv == faults = 0 => NoFaultInv

\* Steps of requests, payments, lightningd and the invoices.
LEMMA ElsewhereNoLoss ==
    ASSUME TypeOK, NoFaultInv,
           UNCHANGED <<up, height, lastHeight, output, offered, revealed, due, claim>>,
           watched' \subseteq watched,
           \A p \in creating' : p \in creating \/ offered[p[1]] = 0
    PROVE  NoFaultInv'
<1>1. OutputsInOrder' /\ ClaimedFirst'
  BY DEF NoFaultInv, OutputsInOrder, ClaimedFirst, Full, Timely
<1>2. OneAtATime'
  BY DEF NoFaultInv, OneAtATime
<1>3. FreshOrIgnored' /\ FreshIsDue'
  BY DEF NoFaultInv, FreshOrIgnored, FreshIsDue, Full, Timely
<1> QED
  BY <1>1, <1>2, <1>3 DEF NoFaultInv

\* Steps of the chain callbacks that publish nothing: whom they call was
\* watched, or called already.
LEMMA CallbackNoLoss ==
    ASSUME TypeOK, NoFaultInv,
           UNCHANGED <<up, height, output, offered, revealed, creating>>,
           watched' \subseteq watched,
           \A s \in due' : s \in watched \cup due,
           \A c \in claim' : c.swap \in due \/ \E d \in claim : d.swap = c.swap,
           \A c, d \in claim' : c = d,
           \A c \in claim' : c.spender = "none" => c.spentAt = 0,
           FreshIsDue'
    PROVE  NoFaultInv'
<1>1. OutputsInOrder' /\ ClaimedFirst'
  BY DEF NoFaultInv, OutputsInOrder, ClaimedFirst, Full, Timely
<1>2. OneAtATime'
  BY DEF NoFaultInv, OneAtATime
<1>3. FreshOrIgnored'
  BY DEF NoFaultInv, FreshOrIgnored, Full, Timely
<1> QED
  BY <1>1, <1>2, <1>3 DEF NoFaultInv

LEMMA PollNoLoss ==
    ASSUME TypeOK, NoFaultInv, MonitorPolls \/ \E s \in Swaps : ClaimReads(s)
    PROVE  NoFaultInv'
<1>1. CASE MonitorPolls
  <2>1. FreshIsDue'
    BY <1>1 DEF MonitorPolls, FreshIsDue
  <2> QED
    BY <1>1, <2>1, CallbackNoLoss DEF MonitorPolls, NoFaultInv, OneAtATime, lnVars, chainVars
<1>2. ASSUME NEW s \in Swaps, ClaimReads(s) PROVE NoFaultInv'
  <2>1. PICK v \in Values \cup {"none"} :
          /\ Chosen(s, v)
          /\ claim' = {[swap |-> s, step |-> "act", height |-> height, value |-> v,
                        spender |-> IF v = "none" THEN "none" ELSE output[s][v].spender,
                        spentAt |-> IF v = "none" THEN 0 ELSE output[s][v].spentAt]}
    BY <1>2 DEF ClaimReads
  <2>2. Full(s).sent /\ Full(s).spender = "none" => v = "full"
    BY <2>1 DEF Chosen, Enough, Full, Values
  <2>3. \A c \in claim' : /\ c.swap = s /\ c.value = v
                          /\ v = "full" => c.spender = Full(s).spender
    BY <2>1 DEF Full
  <2>4. FreshIsDue'
    <3> SUFFICES ASSUME NEW t \in watched, Full(t).minedAt = height, lastHeight = height,
                        Full(t).spender = "none"
                 PROVE  t \in due' \/ \E c \in claim' : c.swap = t /\ c.value = "full"
                                                     /\ c.spender = "none"
      BY <1>2 DEF ClaimReads, FreshIsDue, Full, lnVars, chainVars
    <3>1. CASE t = s
      <4>1. v = "full"
        BY <2>2, <3>1 DEF NoFaultInv, OutputsInOrder
      <4> QED
        BY <2>1, <2>3, <3>1, <4>1
    <3>2. CASE t # s
      BY <1>2, <3>2 DEF ClaimReads, NoFaultInv, FreshIsDue
    <3> QED
      BY <3>1, <3>2
  <2>5. \A c \in claim' : c.spender = "none" => c.spentAt = 0
    <3>1. CASE v = "none"
      BY <2>1, <3>1
    <3>2. CASE v = "full"
      BY <2>1, <3>2 DEF NoFaultInv, OutputsInOrder, Full
    <3>3. CASE v = "low"
      BY <2>1, <3>3 DEF Chosen, Enough
    <3> QED
      BY <3>1, <3>2, <3>3 DEF Values
  <2> QED
    BY <1>2, <2>1, <2>4, <2>5, CallbackNoLoss DEF ClaimReads, lnVars, chainVars
<1> QED
  BY <1>1, <1>2

\* A callback that ends without a claim transaction had not read an unspent
\* output, or the output is spent or not confirmed.
LEMMA EndNoLoss ==
    ASSUME TypeOK, NoFaultInv, NEW c \in claim, ClaimEnds, UNCHANGED <<output, revealed>>,
           watched' \subseteq watched,
           c.value = "full" /\ c.spender = "none" /\ c.swap \in Swaps =>
              Full(c.swap).spender # "none" \/ Full(c.swap).minedAt = 0
    PROVE  NoFaultInv'
<1>1. FreshIsDue'
  <2> SUFFICES ASSUME NEW s \in watched, Full(s).minedAt = height, lastHeight = height,
                      Full(s).spender = "none"
               PROVE  s \in due
    BY DEF FreshIsDue, Full, ClaimEnds
  <2>1. s \in due \/ \E d \in claim : d.swap = s /\ d.value = "full" /\ d.spender = "none"
    BY DEF NoFaultInv, FreshIsDue
  <2>2. s \in Swaps /\ height > 0 /\ \A d \in claim : d = c
    BY DEF NoFaultInv, OneAtATime, TypeOK
  <2> QED
    BY <2>1, <2>2
<1>2. UNCHANGED <<up, height, offered, creating, due>> /\ claim' = {}
  BY DEF ClaimEnds, lnVars
<1> QED
  BY <1>1, <1>2, CallbackNoLoss

\* The claim transaction is sent at the height at which the output is mined.
LEMMA SpendNoLoss ==
    ASSUME TypeOK, NoFaultInv, RevealInv, NEW c \in claim, ClaimSpends(c), faults' = faults
    PROVE  NoFaultInv'
<1> DEFINE s == c.swap
<1>0. s \in Swaps /\ c.spender = "none" /\ c.value = "full"
  BY DEF TypeOK, Reads, ClaimSpends, At, RevealInv, ClaimInv, Values
<1>1. ClaimEnds /\ UNCHANGED watched
  BY DEF ClaimSpends, SetsSpent
<1>2. CASE UNCHANGED <<output, revealed>>
  <2>1. ~(Confirmed(s, "full") /\ Full(s).spender = "none")
    <3>1. ASSUME Confirmed(s, "full"), Full(s).spender = "none" PROVE FALSE
      <4>1. \/ revealed' = revealed \cup {s}
               /\ output' = [output EXCEPT ![s]["full"].spender = "claim"]
            \/ Fault("rpc")
        BY <1>0, <3>1 DEF ClaimSpends, Full
      <4>2. ~Fault("rpc")
        BY DEF Fault, TypeOK
      <4>3. output'[s]["full"].spender = "claim"
        BY <1>0, <4>1, <4>2 DEF TypeOK, Values, Outputs
      <4> QED
        BY <1>2, <3>1, <4>3 DEF Full
    <3> QED
      BY <3>1
  <2>2. Full(s).minedAt \in Nat
    BY <1>0, ReverseAssumption DEF Full, TypeOK, Values, Outputs, Heights
  <2> QED
    BY <1>0, <1>1, <1>2, <2>1, <2>2, EndNoLoss DEF Confirmed, Full
<1>3. CASE ~UNCHANGED <<output, revealed>>
  <2>1. /\ output' = [output EXCEPT ![s]["full"].spender = "claim"]
        /\ revealed' = revealed \cup {s}
        /\ Full(s).minedAt > 0 /\ Full(s).spender = "none"
    BY <1>0, <1>3 DEF ClaimSpends, Confirmed, Full, Fault, TypeOK
  <2>2. /\ \A t \in Swaps \ {s} : Full(t)' = Full(t)
        /\ Full(s)'.spender = "claim" /\ Full(s)'.minedAt = Full(s).minedAt
        /\ Full(s)'.sent = Full(s).sent /\ Full(s)'.spentAt = Full(s).spentAt
    BY <1>0, <2>1 DEF Full, TypeOK, Values, Outputs
  <2>3. UNCHANGED <<up, height, lastHeight, offered, creating, due, watched>> /\ claim' = {}
    BY <1>1 DEF ClaimEnds, lnVars
  <2>4. \A t \in Swaps : Timely(t)' <=> Timely(t)
    BY <2>2, <2>3 DEF Timely, Full
  <2>5. OutputsInOrder' /\ OneAtATime'
    BY <2>2, <2>3 DEF NoFaultInv, OutputsInOrder, OneAtATime
  <2>6. FreshOrIgnored'
    BY <2>2, <2>3, <2>4 DEF NoFaultInv, FreshOrIgnored
  <2>7. FreshIsDue'
    <3> SUFFICES ASSUME NEW t \in watched, t # s, Full(t).minedAt = height,
                        lastHeight = height, Full(t).spender = "none"
                 PROVE  t \in due
      BY <2>2, <2>3 DEF FreshIsDue, TypeOK
    <3>1. \A d \in claim : d.swap # t
      BY DEF NoFaultInv, OneAtATime
    <3> QED
      BY <3>1 DEF NoFaultInv, FreshIsDue
  <2>8. ClaimedFirst'
    <3>1. Timely(s) => Full(s).minedAt = height
      BY <1>0, <2>1 DEF NoFaultInv, FreshOrIgnored
    <3> QED
      BY <1>0, <2>1, <2>2, <2>3, <2>4, <3>1 DEF NoFaultInv, ClaimedFirst, TypeOK
  <2> QED
    BY <2>3, <2>5, <2>6, <2>7, <2>8 DEF NoFaultInv
<1> QED
  BY <1>2, <1>3

LEMMA ClaimNoLoss ==
    ASSUME TypeOK, NoFaultInv, RevealInv, ClaimMoves, faults = 0, faults' = 0
    PROVE  NoFaultInv'
<1>0. \A c \in claim : c.swap \in Swaps
  BY DEF TypeOK, Reads
<1>1. ASSUME NEW s \in Swaps, ClaimSkips(s) PROVE FALSE
  BY <1>1 DEF ClaimSkips, Fault
<1>2. ASSUME NEW c \in claim, ClaimRaises(c) PROVE FALSE
  BY <1>2 DEF ClaimRaises, Fault
<1>3. ASSUME NEW c \in claim, ClaimUnfunded(c) PROVE NoFaultInv'
  <2>1. watched' \subseteq watched /\ c.value = "none"
    BY <1>3 DEF ClaimUnfunded, FailSwap, At
  <2> QED
    BY <1>3, <2>1, EndNoLoss DEF ClaimUnfunded
<1>4. ASSUME NEW c \in claim, ClaimDrops(c) \/ ClaimSeesSpender(c) PROVE NoFaultInv'
  <2>1. watched' \subseteq watched /\ UNCHANGED <<output, revealed>> /\ ClaimEnds
    BY <1>4 DEF ClaimDrops, ClaimSeesSpender, SetsSpent
  <2>2. c.spender # "none"
    BY <1>4 DEF ClaimDrops, ClaimSeesSpender, LongSpent, NoFaultInv, OneAtATime
  <2> QED
    BY <2>1, <2>2, EndNoLoss
<1>5. ASSUME NEW c \in claim, ClaimSeesOutput(c) PROVE NoFaultInv'
  <2>1. claim' = {[c EXCEPT !.step = "spend"]} /\ claim = {c}
    BY <1>5 DEF ClaimSeesOutput, NoFaultInv, OneAtATime
  <2>2. \A d \in claim' : /\ d.swap = c.swap /\ d.value = c.value
                          /\ d.spender = c.spender /\ d.spentAt = c.spentAt
    BY <2>1 DEF TypeOK, Reads
  <2>3. UNCHANGED <<up, height, lastHeight, output, offered, revealed, creating, watched, due>>
    BY <1>5 DEF ClaimSeesOutput, lnVars, chainVars
  <2>4. FreshIsDue'
    BY <2>1, <2>2, <2>3 DEF NoFaultInv, FreshIsDue, Full
  <2> QED
    BY <2>1, <2>2, <2>3, <2>4, CallbackNoLoss DEF NoFaultInv, OneAtATime
<1> QED
  BY <1>1, <1>2, <1>3, <1>4, <1>5, PollNoLoss, SpendNoLoss DEF ClaimMoves

\* The client funds outputs and takes them back.
LEMMA ClientNoLoss ==
    ASSUME TypeOK, NoFaultInv, RevealInv, NEW s \in Swaps, NEW v \in Values,
           ClientFunds(s, v) \/ ClientRefunds(s, v)
    PROVE  NoFaultInv'
<1>0. UNCHANGED <<up, height, lastHeight, offered, revealed, creating, watched, due, claim>>
  BY DEF ClientFunds, ClientRefunds, taskVars, lnVars
<1>1. \A t \in Swaps \ {s} : Full(t)' = Full(t)
  BY DEF ClientFunds, ClientRefunds, Full, TypeOK, Values
<1>2. \/ Full(s)' = Full(s)
      \/ /\ offered[s] > 0 /\ Full(s)'.sent
         /\ Full(s)'.minedAt = Full(s).minedAt
         /\ Full(s)'.spender = Full(s).spender /\ Full(s)'.spentAt = Full(s).spentAt
      \/ /\ Full(s)'.sent = Full(s).sent /\ Full(s)'.minedAt = Full(s).minedAt
         /\ Full(s)'.spender = "refund" /\ Full(s)'.spentAt = Full(s).spentAt
         /\ Full(s).spentAt = 0 /\ height >= offered[s]
  <2>1. CASE v # "full"
    BY <2>1 DEF ClientFunds, ClientRefunds, Full, TypeOK, Values
  <2>2. CASE v = "full" /\ ClientFunds(s, "full")
    <3>1. output' = [output EXCEPT ![s]["full"].sent = TRUE] /\ offered[s] > 0
      BY <2>2 DEF ClientFunds
    <3>2. output[s] \in [Values -> Outputs] /\ "full" \in Values
      BY DEF TypeOK, Values
    <3>3. Full(s)' = [Full(s) EXCEPT !.sent = TRUE] /\ Full(s) \in Outputs
      BY <3>1, <3>2 DEF TypeOK, Full
    <3> QED
      BY <3>1, <3>3 DEF Outputs
  <2>3. CASE v = "full" /\ ClientRefunds(s, "full")
    BY <2>3 DEF ClientRefunds, Full, TypeOK, Values, Outputs
  <2> QED
    BY <2>1, <2>2, <2>3
<1>3. \A t \in Swaps : Full(t)'.minedAt = Full(t).minedAt
  BY <1>1, <1>2
<1>4. \A t \in Swaps : Timely(t)' <=> Timely(t)
  BY <1>0, <1>3 DEF Timely, Full
<1>5. \A t \in Swaps : Full(t)'.spender = "none" => Full(t).spender = "none"
  BY <1>1, <1>2
<1>n. height \in Nat /\ offered[s] \in Nat /\ watched \subseteq Swaps /\ revealed \subseteq Swaps
  BY ReverseAssumption DEF TypeOK, Heights
<1>6. OutputsInOrder'
  <2> SUFFICES ASSUME NEW t \in Swaps
               PROVE  /\ offered[t] = 0 => ~Full(t)'.sent
                      /\ Full(t)'.minedAt > 0 => Full(t)'.sent
                      /\ Full(t)'.spender = "none" => Full(t)'.spentAt = 0
                      /\ Full(t)'.minedAt <= height
    BY <1>0 DEF OutputsInOrder
  <2>1. /\ offered[t] = 0 => ~Full(t).sent
        /\ Full(t).minedAt > 0 => Full(t).sent
        /\ Full(t).spender = "none" => Full(t).spentAt = 0
        /\ Full(t).minedAt <= height
    BY DEF NoFaultInv, OutputsInOrder
  <2>2. CASE t = s
    BY <1>2, <1>n, <2>1, <2>2
  <2> QED
    BY <1>1, <2>1, <2>2
<1>7. OneAtATime' /\ FreshOrIgnored'
  BY <1>0, <1>3, <1>4, <1>5 DEF NoFaultInv, OneAtATime, FreshOrIgnored
<1>8. FreshIsDue'
  BY <1>0, <1>3, <1>5, <1>n DEF NoFaultInv, FreshIsDue
<1>9. ClaimedFirst'
  <2>1. s \in revealed /\ Timely(s) => Full(s).spentAt > 0 \/ height < offered[s]
    BY DEF NoFaultInv, ClaimedFirst, Timely, Full, TypeOK
  <2> QED
    BY <1>0, <1>1, <1>2, <1>4, <1>n, <2>1 DEF NoFaultInv, ClaimedFirst
<1> QED
  BY <1>0, <1>6, <1>7, <1>8, <1>9 DEF NoFaultInv

\* The client gets the data of a swap that has no outputs yet.
LEMMA RegisterNoLoss ==
    ASSUME TypeOK, NoFaultInv, RevealInv, NEW s \in Swaps, CreateRegisters(s)
    PROVE  NoFaultInv'
<1>1. PICK h \in Heights :
        /\ <<s, h>> \in creating /\ creating' = {}
        /\ watched' = watched \cup {s}
        /\ offered' = [offered EXCEPT ![s] = h + LocktimeDelta]
        /\ UNCHANGED <<up, due, claim, lastHeight, height, output, revealed>>
  BY DEF CreateRegisters, chainVars
<1>2. \A t \in Swaps : Full(t)' = Full(t)
  BY <1>1 DEF Full
<1>3. ~Full(s).sent /\ ~(Full(s).minedAt > 0)
  BY <1>1 DEF NoFaultInv, OneAtATime, OutputsInOrder
<1>4. \A t \in Swaps : Full(t).minedAt \in Nat
  BY ReverseAssumption DEF Full, TypeOK, Values, Outputs, Heights
<1>5. \A t \in Swaps \ {s} : offered'[t] = offered[t]
  BY <1>1 DEF TypeOK
<1>6. ~Timely(s)' /\ \A t \in Swaps \ {s} : Timely(t)' <=> Timely(t)
  BY <1>1, <1>3, <1>5 DEF Timely, Full
<1>7. s \notin revealed /\ revealed \subseteq Swaps /\ watched \subseteq Swaps
  BY <1>3 DEF RevealInv, RevealedForPayment, Full, TypeOK
<1>8. OutputsInOrder'
  BY <1>1, <1>2, <1>3, <1>5 DEF NoFaultInv, OutputsInOrder
<1>9. OneAtATime' /\ FreshOrIgnored'
  BY <1>1, <1>2, <1>6 DEF NoFaultInv, OneAtATime, FreshOrIgnored
<1>10. FreshIsDue'
  BY <1>1, <1>2, <1>3, <1>7 DEF NoFaultInv, FreshIsDue
<1>11. ClaimedFirst'
  BY <1>1, <1>2, <1>6, <1>7 DEF NoFaultInv, ClaimedFirst
<1> QED
  BY <1>1, <1>8, <1>9, <1>10, <1>11 DEF NoFaultInv

\* A block finds the plugin idle: what was fresh at the old height was acted
\* upon, or is not watched.
LEMMA BlockNoLoss ==
    ASSUME Prompt, TypeOK, NoFaultInv, RevealInv, BlockMined PROVE NoFaultInv'
<1>1. /\ height' = height + 1 /\ creating = {} /\ due = {} /\ claim = {} /\ lastHeight = height
      /\ UNCHANGED <<up, offered, revealed, creating, watched, due, claim, lastHeight>>
  BY DEF BlockMined, LoopIdle, NoFaultInv, taskVars, lnVars
<1>n. height \in Nat /\ watched \subseteq Swaps /\ revealed \subseteq Swaps
  BY ReverseAssumption DEF TypeOK, Heights
<1>2. ASSUME NEW s \in Swaps
      PROVE  /\ Full(s)'.sent = Full(s).sent /\ Full(s)'.spender = Full(s).spender
             /\ Full(s)'.minedAt = IF Full(s).sent /\ Full(s).minedAt = 0
                                   THEN height + 1 ELSE Full(s).minedAt
             /\ Full(s)'.spentAt = IF Full(s).spender # "none" /\ Full(s).spentAt = 0
                                   THEN height + 1 ELSE Full(s).spentAt
             /\ Full(s).minedAt \in Nat /\ Full(s).spentAt \in Nat
  <2>1. Full(s) \in Outputs
    BY DEF Full, TypeOK, Values
  <2>2. Full(s)' = [Full(s) EXCEPT
               !.minedAt = IF Full(s).sent /\ @ = 0 THEN height + 1 ELSE @,
               !.spentAt = IF Full(s).spender # "none" /\ @ = 0 THEN height + 1 ELSE @]
    BY DEF BlockMined, Full, Values
  <2> QED
    BY <2>1, <2>2, ReverseAssumption DEF Outputs, Heights
<1>3. OutputsInOrder'
  BY <1>1, <1>2, <1>n DEF NoFaultInv, OutputsInOrder
<1>4. OneAtATime'
  BY <1>1 DEF OneAtATime
<1>5. FreshOrIgnored'
  <2> SUFFICES ASSUME NEW s \in Swaps, Timely(s)', Full(s).spender = "none",
                      Full(s)'.minedAt # height + 1
               PROVE  s \notin watched
    BY <1>1, <1>2 DEF FreshOrIgnored
  <2>1. Full(s)'.minedAt = Full(s).minedAt /\ Timely(s)
    BY <1>1, <1>2 DEF Timely, Full
  <2>2. Full(s).minedAt = height \/ s \notin watched
    BY <2>1 DEF NoFaultInv, FreshOrIgnored
  <2> QED
    BY <1>1, <2>2 DEF NoFaultInv, FreshIsDue
<1>6. FreshIsDue'
  BY <1>1, <1>n DEF FreshIsDue
<1>7. ClaimedFirst'
  <2> SUFFICES ASSUME NEW s \in revealed, Timely(s)'
               PROVE  Full(s).spender = "claim" /\ Full(s)'.spentAt > 0
    BY <1>1, <1>2, <1>n DEF ClaimedFirst
  <2>1. s \in Swaps /\ Full(s).minedAt > 0
    BY <1>n DEF RevealInv, RevealedForPayment, Full
  <2>2. Timely(s)
    BY <1>1, <1>2, <2>1 DEF Timely, Full
  <2>3. Full(s).spender = "claim" /\ Full(s).spentAt \in Nat
    BY <1>2, <2>1, <2>2 DEF NoFaultInv, ClaimedFirst
  <2> QED
    BY <1>2, <1>n, <2>1, <2>3
<1> QED
  BY <1>1, <1>n, <1>3, <1>4, <1>5, <1>6, <1>7 DEF NoFaultInv

LEMMA FaultsStay == TypeOK /\ [Next]_vars /\ faults' = 0 => faults = 0
<1> SUFFICES ASSUME TypeOK, [Next]_vars PROVE faults' = faults \/ \E kind : Fault(kind)
  BY DEF Fault, TypeOK
<1>1. CASE RequestMoves \/ \E s \in Swaps : CreateRegisters(s)
  BY <1>1 DEF RequestMoves, CreateReads, AddInvoice, AddInvoiceLate, AddInvoiceUnknown,
     Submitted, CreateRaises, CreateRegisters
<1>2. CASE \E s \in Swaps : PayMoves(s)
  BY <1>2 DEF PayMoves, PayStarts, PayRaises, PaySucceeds, PayFails
<1>3. CASE ClaimMoves
  BY <1>3 DEF ClaimMoves, MonitorPolls, ClaimReads, ClaimSkips, ClaimUnfunded,
     ClaimSeesOutput, ClaimRaises, ClaimDrops, ClaimSeesSpender, ClaimSpends
<1>4. CASE (\E s \in Swaps : ClientMoves(s)) \/ BlockMined \/ Crash \/ Restart \/ UNCHANGED vars
  BY <1>4 DEF ClientMoves, ClientFunds, ClientRefunds, ClientSettles, PaymentFails,
     InvoiceExpires, BlockMined, Crash, Restart, vars
<1> QED
  BY <1>1, <1>2, <1>3, <1>4 DEF Next

LEMMA LossStep ==
    ASSUME Prompt, TypeOK, TypeOK', NoFaultInv, RevealInv, faults = 0, faults' = 0, [Next]_vars
    PROVE  NoFaultInv'
<1>e. ASSUME UNCHANGED <<up, height, lastHeight, output, offered, revealed, due, claim>>,
             watched' \subseteq watched, UNCHANGED creating
      PROVE  NoFaultInv'
  BY <1>e, ElsewhereNoLoss
<1>1. CASE RequestMoves
  <2>1. ASSUME NEW s \in Swaps, CreateReads(s) PROVE NoFaultInv'
    <3>1. /\ UNCHANGED <<up, height, lastHeight, output, offered, revealed, due, claim, watched>>
          /\ creating' = {<<s, height>>} /\ offered[s] = 0
      BY <2>1 DEF CreateReads, lnVars, chainVars
    <3> QED
      BY <3>1, ElsewhereNoLoss
  <2>2. ASSUME NEW s \in Swaps, AddInvoice(s) \/ AddInvoiceLate(s) \/ AddInvoiceUnknown(s)
        PROVE  NoFaultInv'
    BY <1>e, <2>2 DEF AddInvoice, AddInvoiceLate, AddInvoiceUnknown, Submitted, chainVars
  <2>3. ~CreateRaises
    BY DEF CreateRaises, Fault
  <2> QED
    BY <1>1, <2>1, <2>2, <2>3 DEF RequestMoves
<1>2. ASSUME NEW s \in Swaps, PayMoves(s) PROVE NoFaultInv'
  <2>1. watched' \subseteq watched
    BY <1>2 DEF PayMoves, PayStarts, PayRaises, PaySucceeds, PayFails, FailSwap
  <2>2. UNCHANGED <<up, height, lastHeight, output, offered, revealed, due, claim, creating>>
    BY <1>2 DEF PayMoves, PayStarts, PayRaises, PaySucceeds, PayFails, lnVars, chainVars
  <2> QED
    BY <1>e, <2>1, <2>2
<1>3. ASSUME NEW s \in Swaps, ClientMoves(s) PROVE NoFaultInv'
  <2>1. CASE ClientSettles(s) \/ PaymentFails(s) \/ InvoiceExpires(s)
    BY <1>e, <2>1 DEF ClientSettles, PaymentFails, InvoiceExpires, taskVars, chainVars
  <2> QED
    BY <1>3, <2>1, ClientNoLoss DEF ClientMoves
<1>4. ~Crash /\ ~Restart
  BY DEF Crash, Fault, Restart, NoFaultInv
<1>5. CASE UNCHANGED vars
  BY <1>e, <1>5 DEF vars, taskVars, lnVars, chainVars
<1> QED
  BY <1>1, <1>2, <1>3, <1>4, <1>5, RegisterNoLoss, ClaimNoLoss, BlockNoLoss DEF Next

\* As long as no call has failed and blocks are slower than the polls, an output
\* that is mined before its locktime is claimed at once or not at all: a
\* preimage that was shown is paid for, for every number of swaps, requests and
\* outputs and every locktime.
THEOREM ShownIsPaid == ASSUME Prompt PROVE Spec => []NoProviderLoss
<1>1. Init => LossInv
  <2> SUFFICES ASSUME Init PROVE NoFaultInv
    BY DEF LossInv
  <2>1. \A s \in Swaps : Full(s) = NoOutput
    BY DEF Init, Full, Values
  <2>2. OutputsInOrder
    BY <2>1, ReverseAssumption DEF Init, OutputsInOrder, NoOutput
  <2> QED
    BY <2>2, ReverseAssumption DEF Init, NoFaultInv, OneAtATime, FreshOrIgnored, FreshIsDue,
       ClaimedFirst, Timely
<1>2. TypeOK /\ TypeOK' /\ RevealInv /\ LossInv /\ [Next]_vars => LossInv'
  <2> SUFFICES ASSUME TypeOK, TypeOK', RevealInv, LossInv, [Next]_vars, faults' = 0
               PROVE  NoFaultInv'
    BY DEF LossInv
  <2>1. faults = 0
    BY FaultsStay
  <2> QED
    BY <2>1, LossStep DEF LossInv
<1>3. LossInv => NoProviderLoss
  BY DEF LossInv, NoFaultInv, NoProviderLoss, ClaimedFirst, Full
<1> QED
  BY <1>1, <1>2, <1>3, ReverseTypes, RevealInvariant, PTL DEF Spec
=============================================================================
