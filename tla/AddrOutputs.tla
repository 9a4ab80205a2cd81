---------------------------- MODULE AddrOutputs -----------------------------
(***************************************************************************)
(* BitcoinCoreRPC.get_addr_outputs as a function of the wallet: the        *)
(* unspent outputs of an address, then the spent ones, which are looked    *)
(* for among the last transactions of the wallet, one call at a time.      *)
(* A transaction is [txid, inputs, outputs, height]: its inputs name a     *)
(* transaction and an output of it, its outputs an address and sats.       *)
(***************************************************************************)
EXTENDS Integers, Sequences, SequencesExt, FiniteSetsExt

CONSTANTS
    MaxListed,   \* how many entries of the wallet are looked at (200)
    Coin         \* sats in one bitcoin

ASSUME AddrOutputsAssumption == MaxListed \in Nat /\ Coin \in Nat \ {0}

-----------------------------------------------------------------------------
(* Bitcoin Core: the wallet is its transactions in their order, and the    *)
(* addresses it watches                                                    *)

Tx(wallet, txid) == wallet.txs[CHOOSE i \in DOMAIN wallet.txs : wallet.txs[i].txid = txid]
Outpoints(wallet) ==
    UNION {{<<wallet.txs[i].txid, n>> : n \in DOMAIN wallet.txs[i].outputs} : i \in DOMAIN wallet.txs}
OutputOf(wallet, outpoint) == Tx(wallet, outpoint[1]).outputs[outpoint[2]]

PaidTo(wallet, address) == {o \in Outpoints(wallet) : OutputOf(wallet, o).address = address}
SpentBy(wallet, outpoint) ==
    {i \in DOMAIN wallet.txs : \E n \in DOMAIN wallet.txs[i].inputs : wallet.txs[i].inputs[n] = outpoint}
Unspent(wallet, address) == {o \in PaidTo(wallet, address) : SpentBy(wallet, o) = {}}

Amount(wallet, outpoints) == MapThenSumSet(LAMBDA o : OutputOf(wallet, o).value, outpoints)

\* One entry for every output of a transaction that spends what is watched,
\* and one for every output that is.
Entries(wallet, tx) ==
    LET sends == \E n \in DOMAIN tx.inputs :
                    /\ tx.inputs[n] \in Outpoints(wallet)
                    /\ OutputOf(wallet, tx.inputs[n]).address \in wallet.watched
        Entry(category) == [txid |-> tx.txid, category |-> category, height |-> tx.height]
        Of(out) == (IF sends THEN <<Entry("send")>> ELSE <<>>)
                       \o (IF out.address \in wallet.watched THEN <<Entry("receive")>> ELSE <<>>)
    IN  FlattenSeq([n \in DOMAIN tx.outputs |-> Of(tx.outputs[n])])

\* listtransactions with a skip: the last ones first.
Listed(wallet) == Reverse(FlattenSeq([i \in DOMAIN wallet.txs |-> Entries(wallet, wallet.txs[i])]))

ReceivedTxids(wallet, address) == {o[1] : o \in PaidTo(wallet, address)}

-----------------------------------------------------------------------------
(* BitcoinCoreRPC *)

NotSpent == -1

\* _utxo_to_partial_txin takes the amount for bitcoins.
ToPartialTxin(wallet, outpoint, amount, spentTxid, spentHeight) ==
    [prevout |-> outpoint, value |-> amount * Coin, height |-> Tx(wallet, outpoint[1]).height,
     spent_txid |-> spentTxid, spent_height |-> spentHeight]

\* listunspent tells bitcoins: what it tells is the value again.
UnspentTxin(wallet, outpoint) ==
    [ToPartialTxin(wallet, outpoint, 0, NotSpent, NotSpent) EXCEPT !.value = OutputOf(wallet, outpoint).value]

\* Whoever the output of the receiving transaction paid.
SpentInAny(wallet, entry, address) ==
    LET spent == SelectSeq(Tx(wallet, entry.txid).inputs, LAMBDA o : o[1] \in ReceivedTxids(wallet, address))
    IN  [n \in DOMAIN spent |->
            ToPartialTxin(wallet, spent[n], OutputOf(wallet, spent[n]).value, entry.txid, entry.height)]

\* The inputs of one spending transaction that take from the address.
SpentIn(wallet, entry, address) ==
    LET inputs == Tx(wallet, entry.txid).inputs
        OfAddress(o) == o[1] \in ReceivedTxids(wallet, address) /\ OutputOf(wallet, o).address = address
        spent == SelectSeq(inputs, OfAddress)
    IN  [n \in DOMAIN spent |->
            ToPartialTxin(wallet, spent[n], OutputOf(wallet, spent[n]).value, entry.txid, entry.height)]

\* The loop ends with the entries, or once nothing is missing.
FetchSpentUtxos(wallet, amount, address) ==
    LET all == Listed(wallet)
        listed == SubSeq(all, 1, Min({MaxListed, Len(all)}))
        Look(s, entry) ==
            IF s.missing <= 0 \/ entry.category # "send" THEN s
            ELSE LET spent == SpentIn(wallet, entry, address)
                 IN  [missing |-> FoldLeft(LAMBDA left, t : left - t.value \div Coin, s.missing, spent),
                      found |-> s.found \o spent]
    IN  FoldLeft(Look, [missing |-> amount, found |-> <<>>], listed).found

Sats(txins) == FoldLeft(LAMBDA sum, t : sum + t.value, 0, txins)

UnknownAddress == "UnknownAddressError"
UtxosNotFound == "UtxosNotFoundError"
Found(txins) == [raises |-> "", txins |-> txins]
Raises(error) == [raises |-> error, txins |-> <<>>]

GetAddrOutputs(wallet, address) ==
    LET unspent == SetToSeq(Unspent(wallet, address))
        funding == [n \in DOMAIN unspent |-> UnspentTxin(wallet, unspent[n])]
        spentAmount == Amount(wallet, PaidTo(wallet, address)) - Sats(funding)
        spent == FetchSpentUtxos(wallet, spentAmount, address)
    IN  IF address \notin wallet.watched THEN Raises(UnknownAddress)
        ELSE IF spentAmount > 0 /\ spentAmount - Sats(spent) > 0 THEN Raises(UtxosNotFound)
        ELSE Found(funding \o (IF spentAmount > 0 THEN spent ELSE <<>>))
=============================================================================
