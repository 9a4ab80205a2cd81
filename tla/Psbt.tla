-------------------------------- MODULE Psbt --------------------------------
(***************************************************************************)
(* The three ways a PartialTransaction is used.  "fund": lightningd picks  *)
(* the coins, the plugin adds the lockup output, lightningd signs and      *)
(* sends.  "claim": the plugin spends the lockup output of a swap, with    *)
(* the preimage or after the locktime.  "joint": two holders of keys build *)
(* one transaction and pass its texts around, which may come late, twice   *)
(* or in another order.                                                    *)
(***************************************************************************)
EXTENDS PartialTx

CONSTANTS
    NodeCoins,    \* the coins lightningd may pick for a funding transaction
    LockupTo, LockupAmount,      \* the output the plugin asks for
    ChangeTo,
    Fee,          \* of every transaction
    Dust,
    LockupCoins,  \* the lockup outputs there are to claim, with claimed: BOOLEAN
    ReceiveTo,
    JointCoins,   \* party -> the coins it brings
    Secrets,      \* party -> the keys it can sign with
    JointPay,     \* party -> the outputs it may add
    MergeDuplicates,  \* WALLET_MERGE_DUPLICATE_OUTPUTS
    SighashTypes, \* joint coin -> the sighash type its owner asks for
    MaxTexts,     \* texts of the joint transaction in circulation
    MaxEdits      \* changes of a joint transaction by its holders

Parties == {"plugin", "alice", "bob"}
Joiners == {"alice", "bob"}

\* A prevout is its place in the order of all outpoints.  Holders of keys share
\* coins that have a descriptor, and what is claimed is a lockup output.
CoinsAssumption ==
    /\ DOMAIN Coin \subseteq Nat
    /\ LockupCoins \subseteq DOMAIN Coin
    /\ \A c \in LockupCoins : Coin[c].desc.func = "swap"
    /\ \A p \in Joiners : JointCoins[p] \subseteq DOMAIN Coin
    /\ \A p \in Joiners : \A c \in JointCoins[p] :
          Coin[c].desc.func \in ScriptFuncs /\ Coin[c].desc.thresh \in Nat

ASSUME CoinsAssumption

VARIABLES
    mode,      \* which of the three
    tx,        \* party -> the transaction it holds, or NoTx
    step,      \* how far the plugin's funding or claiming is
    texts,     \* the texts on their way
    stored,    \* funding_txid or spending_txid in the database
    sent,      \* what has been published: a set of network transactions
    edits      \* how many edits there have been

vars == <<mode, tx, step, texts, stored, sent, edits>>

NoTx == [NewTx EXCEPT !.locktime = -1]

Out(to, value) == [to |-> to, value |-> value, fields |-> <<>>]

Init ==
    /\ mode \in {"fund", "claim", "joint"}
    /\ tx = [p \in Parties |-> NoTx]
    /\ step = "start"
    /\ texts = {}
    /\ stored = NoCache
    /\ sent = {}
    /\ edits = 0

Total(coins) == MapThenSumSet(LAMBDA c : Coin[c].amount, coins)

-----------------------------------------------------------------------------
(* The digest that a signature has to commit to, from the chain's view *)

ChainScript(prevout) ==
    IF Coin[prevout].desc.func = "swap" THEN Coin[prevout].desc.script ELSE ScriptCode(Coin[prevout].desc, 0)
ChainSegwit(prevout) == Coin[prevout].desc.func = "swap" \/ IsSegwit(Coin[prevout].desc)

Digest(u, i, type) ==
    LET c == u.ins[i].prevout
        others == ~ChainSegwit(c) \/ ~type.acp
    IN  [segwit    |-> ChainSegwit(c), type |-> type, locktime |-> u.locktime,
         own       |-> <<c, u.ins[i].nseq>>, script |-> ChainScript(c),
         amount    |-> IF ChainSegwit(c) THEN Coin[c].amount ELSE 0,
         prevouts  |-> IF others THEN <<"all", [k \in DOMAIN u.ins |-> u.ins[k].prevout]>> ELSE Zero,
         sequences |-> IF others /\ (type.base = "ALL" \/ ~ChainSegwit(c))
                       THEN <<"all", [k \in DOMAIN u.ins |-> u.ins[k].nseq]>> ELSE Zero,
         outputs   |-> IF type.base = "ALL" THEN <<"all", u.outs>>
                       ELSE IF i \in DOMAIN u.outs THEN <<"one", u.outs[i]>> ELSE Zero]

\* The script of a lockup output: [op, thresh: locktime, keys: <<claim key, refund key>>, inner: <<preimage>>].
SwapRuns(script, stack, u, i, valid) ==
    /\ Len(stack) = 2
    /\ \/ stack[2] = Item("preimage", script.inner[1]) /\ IsSigOf(stack[1], script.keys[1], valid)
       \/ /\ stack[2] = Item("num", 0) /\ IsSigOf(stack[1], script.keys[2], valid)
          /\ u.locktime >= script.thresh /\ u.ins[i].nseq > 0

InputAccepted(net, i) ==
    LET u == net[1]
        coin == Coin[u.ins[i].prevout]
        solution == [script_sig |-> net[2][i], witness |-> net[3][i]]
        sigs == {item[2] : item \in {x \in Range(net[2][i] \o net[3][i]) : x[1] = "sig"}}
        valid == {<<sig, sig.key>> : sig \in {s \in sigs : s.digest = Digest(u, i, s.digest.type)}}
    IN  IF coin.desc.func = "swap"
        THEN /\ solution.script_sig = <<>> /\ Len(solution.witness) = 3
             /\ Last(solution.witness) = Item("script", coin.desc.script)
             /\ SwapRuns(coin.desc.script, Front(solution.witness), u, i, valid)
        ELSE Accepts(ScriptOf(u.ins[i].prevout).output, solution, valid)

-----------------------------------------------------------------------------
(* Funding: create_transaction and broadcast_transaction *)

Start(p, t) == tx' = [tx EXCEPT ![p] = t]

\* lightningd's fundpsbt: the inputs with what a signer needs, and the change.
NodeInput(c) ==
    LET scripts == ScriptOf(c)
    IN  {Entry(Field("wutxo"), [script |-> scripts.output, amount |-> Coin[c].amount])}
            \cup (IF scripts.redeem # NoScript THEN {Entry(Field("redeem"), scripts.redeem)} ELSE {})

FundPsbt ==
    /\ mode = "fund" /\ step = "start"
    /\ \E coins \in SUBSET NodeCoins, nseq \in {0, 1, 2} :
          LET order == SetToSortSeq(coins, LAMBDA a, b : a < b)
              left == Total(coins) - LockupAmount - Fee
              change == IF left >= Dust THEN <<[to |-> ChangeTo, value |-> left]>> ELSE <<>>
          IN  /\ coins # {} /\ left >= 0
              /\ texts' = {[unsigned |-> [ins |-> [i \in DOMAIN order |-> [prevout |-> order[i], nseq |-> nseq]],
                                          outs |-> change, locktime |-> 0],
                            globals |-> {},
                            ins |-> [i \in DOMAIN order |-> NodeInput(order[i])],
                            outs |-> [i \in DOMAIN change |-> {}]]}
    /\ step' = "funded"
    /\ UNCHANGED <<mode, tx, stored, sent, edits>>

\* A text without outputs does not parse, and from_raw_psbt is outside of the try.
CreateTransaction ==
    /\ mode = "fund" /\ step = "funded"
    /\ \E text \in texts :
          LET funded == SetRbf(AddOutputs(FromText(text), <<Out(LockupTo, LockupAmount)>>, FALSE), TRUE)
          IN  IF TextParses(text)
              THEN step' = "assembled" /\ texts' = {ToText(FinalizePsbt(funded))}
              ELSE step' = "raised" /\ texts' = {}
    /\ UNCHANGED <<mode, tx, stored, sent, edits>>

\* lightningd's signpsbt adds its partial signatures, or fails.
SignPsbt ==
    /\ mode = "fund" /\ step = "assembled"
    /\ \E text \in texts :
          LET Sig(i) == [key |-> Pubkeys(Coin[text.unsigned.ins[i].prevout].desc, 0)[1],
                         digest |-> Digest(text.unsigned, i, SighashAll)]
          IN  texts' = {[text EXCEPT !.ins =
                  [i \in DOMAIN @ |-> @[i] \cup {Entry(<<"sig", Sig(i).key>>, Sig(i))}]]}
    /\ step' = "signed"
    /\ UNCHANGED <<mode, tx, stored, sent, edits>>

TakeSigned ==
    /\ mode = "fund" /\ step = "signed"
    /\ \E text \in texts : TextParses(text) /\ Start("plugin", FinalizePsbt(FromText(text)))
    /\ step' = "ready" /\ texts' = {}
    /\ UNCHANGED <<mode, stored, sent, edits>>

\* funding_txid is stored before lightningd is asked to send.  A transaction
\* that is complete is no PSBT any more, and sendpsbt does not take it.
BroadcastFundingTx ==
    /\ mode = "fund" /\ step = "ready"
    /\ stored' = Txid(tx["plugin"])
    /\ Start("plugin", CacheSer(CacheTxid(tx["plugin"])))
    /\ texts' = IF IsComplete(tx["plugin"]) THEN {} ELSE {ToText(FinalizePsbt(tx["plugin"]))}
    /\ step' = "sending"
    /\ UNCHANGED <<mode, sent, edits>>

\* sendpsbt finalises with the wallet's own knowledge, and publishes or fails.
SendPsbt ==
    /\ mode = "fund" /\ step = "sending"
    /\ \E text \in texts :
          LET Sigs(i) == SigsOf([fields |-> SectionMap(text.ins[i])])
              Solution(i) == Satisfy(Coin[text.unsigned.ins[i].prevout].desc, Sigs(i))
          IN  sent' \in {sent, sent \cup {<<text.unsigned,
                                [i \in DOMAIN text.ins |-> Solution(i).script_sig],
                                [i \in DOMAIN text.ins |-> Solution(i).witness]>>}}
    /\ texts' = {} /\ step' = "done"
    /\ UNCHANGED <<mode, tx, stored, edits>>

-----------------------------------------------------------------------------
(* Claiming a lockup output *)

\* get_addr_outputs: address and value are taken from the node.
ClaimInput(prevout) == [prevout |-> prevout, nseq |-> 1, desc |-> None, trusted |-> TRUE, fields |-> <<>>]

CreateClaimTx(prevout, locktime) ==
    LET txin == With(With(ClaimInput(prevout), "script_sig", <<>>), "wscript", Coin[prevout].desc.script)
        amount == Coin[prevout].amount - Fee
    IN  SetRbf(FromIo(<<txin>>, <<Out(ReceiveTo, amount)>>, locktime), TRUE)

\* The witness is put in by hand: there is no descriptor for this script.
SignTx(t, isReverse) ==
    LET script == Coin[t.inputs[1].prevout].desc.script
        key == IF isReverse THEN script.keys[1] ELSE script.keys[2]
        secret == IF isReverse THEN Item("preimage", script.inner[1]) ELSE Item("num", 0)
        witness == <<Item("sig", [key |-> key, digest |-> Preimage(t, 1)]), secret, Item("script", script)>>
    IN  [t EXCEPT !.inputs[1] = With(With(With(@, "script_sig", <<>>), "wscript", script), "witness", witness)]

CreateAndSignClaimTx ==
    /\ mode = "claim" /\ step = "start"
    /\ \E prevout \in LockupCoins :
          LET isReverse == Coin[prevout].desc.claimed
              script == Coin[prevout].desc.script
              made == CreateClaimTx(prevout, IF isReverse THEN 0 ELSE script.thresh)
          IN  IF Coin[prevout].amount - Fee < Dust THEN step' = "raised" /\ UNCHANGED <<tx, stored>>
              ELSE \E final \in {FinalizePsbt(SignTx(made, isReverse))} :
                   /\ CanPreimage(made, 1)
                   /\ Start("plugin", CacheTxid(final)) /\ stored' = Txid(final) /\ step' = "ready"
    /\ UNCHANGED <<mode, texts, sent, edits>>

\* Transaction.serialize fills the cache; the node takes the transaction or not.
BroadcastClaim ==
    /\ mode = "claim" /\ step = "ready"
    /\ \E t \in {CacheSer(tx["plugin"])} :
          Start("plugin", t) /\ sent' \in {sent, sent \cup {t.ser}}
    /\ step' = "done"
    /\ UNCHANGED <<mode, texts, stored, edits>>

-----------------------------------------------------------------------------
(* A joint transaction *)

\* A holder of keys describes the inputs it knows.
Knows(p, c) == Range(Pubkeys(Coin[c].desc, 0)) \cap Secrets[p] # {}
DescribeAll(p, t) ==
    [t EXCEPT !.inputs = [i \in DOMAIN @ |->
        IF Knows(p, @[i].prevout) THEN Described(@[i], Coin[@[i].prevout].desc) ELSE @[i]]]

OwnInput(c, type) ==
    LET plain == [prevout |-> c, nseq |-> 1, desc |-> None, trusted |-> FALSE, fields |-> <<>>]
        known == IF HasWrap(Coin[c].desc, "sh")
                 THEN With(plain, "wutxo", [script |-> ScriptOf(c).output, amount |-> Coin[c].amount])
                 ELSE With(plain, "utxo", [utxo |-> c])
    IN  Described(IF type = SighashAll THEN known ELSE With(known, "sighash", type), Coin[c].desc)

HasSigs(t) == \E i \in DOMAIN t.inputs : AlreadyHasSome(t.inputs[i])

\* One's own transaction; a legacy input needs the whole previous transaction.
Begin(p) ==
    /\ mode = "joint" /\ tx[p] = NoTx /\ p \in Joiners
    /\ \E c \in JointCoins[p], o \in JointPay[p] :
          Start(p, FromIo(<<OwnInput(c, SighashTypes[c])>>, <<o>>, 0))
    /\ UNCHANGED <<mode, step, texts, stored, sent, edits>>

\* Before it is given to anybody.
Edit(p) ==
    /\ mode = "joint" /\ tx[p] # NoTx /\ p \in Joiners /\ texts = {} /\ ~HasSigs(tx[p]) /\ edits < MaxEdits
    /\ \/ Start(p, SetRbf(tx[p], ~IsRbfEnabled(tx[p])))
       \/ Start(p, SetLocktime(tx[p], 1 - tx[p].locktime))
       \/ \E o \in JointPay[p] :
             /\ MapThenSumSet(LAMBDA i : tx[p].outputs[i].value, DOMAIN tx[p].outputs) + o.value + Fee
                    <= Total(Prevouts(tx[p]))
             /\ Start(p, AddOutputs(tx[p], <<o>>, FALSE))
    /\ edits' = edits + 1
    /\ UNCHANGED <<mode, step, texts, stored, sent>>

\* serialize_as_bytes as it is, or without what is private and, in a copy
\* for a QR code, without the previous transactions.
Export(p) ==
    /\ mode = "joint" /\ tx[p] # NoTx /\ p \in Joiners /\ Cardinality(texts) < MaxTexts
    /\ \E bare \in BOOLEAN :
          \E given \in {FinalizePsbt(IF bare THEN ForCoinjoin(tx[p]) ELSE tx[p])} :
              /\ texts' = texts \cup {ToText(IF bare THEN WithWitnessUtxos(given) ELSE given)}
              /\ Start(p, given)
    /\ UNCHANGED <<mode, step, stored, sent, edits>>

Load(p) ==
    /\ mode = "joint" /\ p \in Joiners
    /\ \E text \in texts :
          /\ TextParses(text) /\ tx[p] # NoTx => ~CanCombine(tx[p], FromText(text))
          /\ Start(p, DescribeAll(p, FromText(text)))
    /\ UNCHANGED <<mode, step, texts, stored, sent, edits>>

CombineWith(p) ==
    /\ mode = "joint" /\ tx[p] # NoTx /\ p \in Joiners
    /\ \E text \in texts :
          /\ TextParses(text) /\ CanCombine(tx[p], FromText(text))
          /\ Start(p, Combine(tx[p], FromText(text)))
    /\ UNCHANGED <<mode, step, texts, stored, sent, edits>>

JoinWith(p) ==
    /\ mode = "joint" /\ tx[p] # NoTx /\ p \in Joiners
    /\ \E text \in texts :
          /\ TextParses(text) /\ CanJoin(tx[p], FromText(text))
          /\ Start(p, Join(tx[p], DescribeAll(p, FromText(text)), MergeDuplicates))
    /\ UNCHANGED <<mode, step, texts, stored, sent, edits>>

Sign(p) ==
    /\ mode = "joint" /\ tx[p] # NoTx /\ p \in Joiners
    /\ \E chosen \in [DOMAIN tx[p].inputs -> SUBSET Secrets[p]] :
          /\ \A i \in DOMAIN chosen : chosen[i] \in ChosenKeys(tx[p].inputs[i], Secrets[p])
          /\ \A i \in DOMAIN chosen : chosen[i] # {} => CanPreimage(tx[p], i)
          /\ \E i \in DOMAIN chosen : chosen[i] # {}
          /\ Start(p, Signed(tx[p], chosen))
    /\ UNCHANGED <<mode, step, texts, stored, sent, edits>>

AskTxid(p) ==
    /\ mode = "joint" /\ tx[p] # NoTx /\ p \in Joiners
    /\ Start(p, CacheTxid(tx[p]))
    /\ UNCHANGED <<mode, step, texts, stored, sent, edits>>

Publish(p) ==
    /\ mode = "joint" /\ tx[p] # NoTx /\ p \in Joiners /\ IsComplete(tx[p])
    /\ \E t \in {CacheSer(tx[p])} : Start(p, t) /\ sent' = sent \cup {t.ser}
    /\ UNCHANGED <<mode, step, texts, stored, edits>>

\* Once it is published nobody works on it any more.
Joint ==
    /\ sent = {}
    /\ \E p \in Joiners :
        \/ Begin(p) \/ Edit(p) \/ Export(p) \/ Load(p)
        \/ CombineWith(p) \/ JoinWith(p) \/ Sign(p) \/ AskTxid(p) \/ Publish(p)

Next ==
    \/ FundPsbt \/ CreateTransaction \/ SignPsbt \/ TakeSigned \/ BroadcastFundingTx \/ SendPsbt
    \/ CreateAndSignClaimTx \/ BroadcastClaim
    \/ Joint

Spec == Init /\ [][Next]_vars

-----------------------------------------------------------------------------
(* Properties *)

IsTx(t) ==
    /\ \A i \in DOMAIN t.inputs :
          /\ t.inputs[i].prevout \in DOMAIN Coin /\ t.inputs[i].nseq \in 0..2
          /\ \A k \in DOMAIN t.inputs[i].fields : k[1] \in Single => k[2] = 0
    /\ \A i \in DOMAIN t.outputs : t.outputs[i].value \in Nat
    /\ Cardinality(Prevouts(t)) = Len(t.inputs)
    /\ t.locktime \in Nat

\* Nothing that is spent is spent twice, and whatever is passed on can be
\* read again, with the same meaning (from_raw_psbt of _serialize_psbt).
TypeOK ==
    /\ mode \in {"fund", "claim", "joint"}
    /\ step \in {"start", "funded", "assembled", "signed", "ready", "sending", "done", "raised"}
    /\ \A p \in Parties : tx[p] # NoTx => IsTx(tx[p])
    /\ \A text \in texts : TextParses(text) => ToText(FromText(text)) = text
    /\ mode = "joint" => \A text \in texts : TextParses(text)

\* txid() and serialize() answer from their caches: no change of the
\* transaction, however it comes about, leaves an answer behind that no
\* longer holds (invalidate_ser_cache).
CachesFresh ==
    \A p \in Parties : tx[p] # NoTx =>
        /\ tx[p].ser # NoCache => IsComplete(tx[p]) /\ tx[p].ser = NetworkTx(tx[p])
        /\ tx[p].txid # NoCache => HasTxid(tx[p]) /\ tx[p].txid = NetworkId(tx[p])

\* Whatever is published is valid: every signature commits to the
\* transaction as it ends up, every script is satisfied.  A funding pays the
\* lockup output in full and can be replaced; and the txid in the database is
\* the one of the published transaction, whoever finalised it.
SentIsAccepted ==
    \A net \in sent :
        /\ \A i \in DOMAIN net[1].ins : InputAccepted(net, i)
        /\ stored # NoCache => stored = <<net[1], net[2]>>
        /\ mode # "joint" => stored # NoCache
        /\ mode = "fund" =>
              /\ \E i \in DOMAIN net[1].outs : net[1].outs[i] = [to |-> LockupTo, value |-> LockupAmount]
              /\ \A i \in DOMAIN net[1].ins : net[1].ins[i].nseq = RbfSequence(TRUE)

\* What the texts and the holders have to offer to a holder.
Held == {ToText(tx[q]) : q \in {q \in Joiners : tx[q] # NoTx}}
Offers(p) == {FromText(text) : text \in {t \in texts \cup Held : CanCombine(tx[p], FromText(t))}}

\* One who collects starts from what it holds, or from the bare transaction.
BareText(t) == [ToText(t) EXCEPT !.globals = {}, !.ins = [i \in DOMAIN @ |-> {}], !.outs = [i \in DOMAIN @ |-> {}]]
Collectors(p) == {tx[p], DescribeAll(p, FromText(BareText(tx[p])))}

After(mine, s, t) == Combine(Combine(mine, s), t)
CompleteInputs(t) == {i \in DOMAIN t.inputs : IsCompleteInput(t.inputs[i])}

\* The signatures of the three together satisfy the script of the input.
Enough(mine, s, t, i) ==
    /\ mine.inputs[i].desc # None
    /\ Satisfiable(mine.inputs[i].desc, Over(Over(SigsOf(mine.inputs[i]), SigsOf(s.inputs[i])), SigsOf(t.inputs[i])))

\* st and ts are what mine becomes with s before t, and with t before s.
OrderIsFree(mine, s, t, st, ts) ==
    LET complete == CompleteInputs(st)
    IN  /\ complete = CompleteInputs(ts) /\ CompleteInputs(mine) \subseteq complete
        /\ \A i \in DOMAIN mine.inputs : Enough(mine, s, t, i) => i \in complete
        /\ (\A i \in DOMAIN mine.inputs : ChainSegwit(mine.inputs[i].prevout)) => Txid(st) = Txid(ts)

\* Whoever collects what there is, be it a holder or one that starts from the
\* bare transaction: the order in which the texts come in does not decide
\* whether an input gets complete; being complete is never lost by combining;
\* and signatures that are enough together are enough after combining.
CombinesInAnyOrder ==
    \A p \in {p \in Joiners : tx[p] # NoTx} : \A mine \in Collectors(p), s, t \in Offers(p) :
        OrderIsFree(mine, s, t, After(mine, s, t), After(mine, t, s))
=============================================================================
