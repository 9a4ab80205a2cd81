----------------------------- MODULE PartialTx ------------------------------
(***************************************************************************)
(* PartialTransaction and its inputs: what a PSBT holds, when an input is  *)
(* complete, what a signature commits to, finalising, combining, joining,  *)
(* and the way into a text and back.  The key-value map of an input or an  *)
(* output is a function from <<type, key>> to a value; a field that is     *)
(* None is not in its domain.  A txid is the transaction without witness.  *)
(***************************************************************************)
EXTENDS Descriptors, Functions

CONSTANTS
    Coin    \* prevout -> [desc, amount]: the outputs there are on the chain

Single == {"utxo", "wutxo", "tap_sig", "tap_root", "sighash", "redeem", "wscript",
           "script_sig", "witness", "slip19"}
Field(type) == <<type, 0>>

None == [op |-> "none", wrap |-> <<>>, func |-> "none", keys |-> <<>>, thresh |-> 0]

\* Two maps as one, the first on top.
Over(top, below) ==
    [k \in DOMAIN top \cup DOMAIN below |-> IF k \in DOMAIN top THEN top[k] ELSE below[k]]

Has(in, type) == Field(type) \in DOMAIN in.fields
Get(in, type) == in.fields[Field(type)]
With(in, type, value) == [in EXCEPT !.fields = Over([k \in {Field(type)} |-> value], @)]
Drop(in, types) == [in EXCEPT !.fields = Restrict(@, {k \in DOMAIN @ : k[1] \notin types})]

SigsOf(in) == [k \in {f[2] : f \in {f \in DOMAIN in.fields : f[1] = "sig"}} |-> in.fields[<<"sig", k>>]]

-----------------------------------------------------------------------------
(* What an input knows of the coin it spends *)

\* The script of a swap's lockup output is the only one no descriptor has.
ScriptOf(prevout) ==
    IF Coin[prevout].desc.func = "swap"
    THEN [output |-> HashOf("wsh", Coin[prevout].desc.script), redeem |-> NoScript,
          witness |-> Coin[prevout].desc.script]
    ELSE Expand(Coin[prevout].desc, 0)

AddressKnown(in) == Has(in, "utxo") \/ in.trusted \/ Has(in, "wutxo")

Address(in) ==
    IF Has(in, "utxo") \/ in.trusted THEN ScriptOf(in.prevout).output ELSE Get(in, "wutxo").script

ValueSats(in) ==
    IF Has(in, "utxo") \/ in.trusted THEN Coin[in.prevout].amount ELSE Get(in, "wutxo").amount

\* The checks of validate_data.
IsConsistent(in) ==
    /\ Has(in, "utxo") => Get(in, "utxo") = [utxo |-> in.prevout]
    /\ Has(in, "utxo") /\ Has(in, "wutxo") =>
          Get(in, "wutxo") = [script |-> ScriptOf(in.prevout).output, amount |-> Coin[in.prevout].amount]
    /\ Has(in, "redeem") /\ AddressKnown(in) => Address(in) = HashOf("sh", Get(in, "redeem"))
    /\ Has(in, "wscript") =>
          LET program == HashOf("wsh", Get(in, "wscript"))
          IN  IF Has(in, "redeem") THEN Get(in, "redeem") = program
              ELSE AddressKnown(in) => Address(in) = program

Programs == {"wpkh", "wsh"}

IsNativeSegwit(in) == AddressKnown(in) /\ Address(in).op \in Programs \cup {"tr"}

IsP2shSegwit(in) ==
    /\ AddressKnown(in) /\ Has(in, "redeem")
    /\ Address(in) = HashOf("sh", Get(in, "redeem"))
    /\ Get(in, "redeem").op \in Programs

\* False negatives are possible while a redeem script is not known.
IsSegwitInput(in) ==
    \/ Has(in, "witness") /\ Get(in, "witness") # <<>>
    \/ IsNativeSegwit(in) \/ IsP2shSegwit(in)
    \/ /\ ~(AddressKnown(in) /\ Has(in, "redeem"))
       /\ Has(in, "wscript") \/ (in.desc # None /\ IsSegwit(in.desc))

\* The setter of script_descriptor fills in the scripts.
Described(in, desc) ==
    LET scripts == Expand(desc, 0)
        filled == [k \in {k \in {Field("redeem"), Field("wscript")} :
                             (IF k = Field("redeem") THEN scripts.redeem ELSE scripts.witness) # NoScript}
                   |-> IF k = Field("redeem") THEN scripts.redeem ELSE scripts.witness]
    IN  [in EXCEPT !.desc = desc, !.fields = Over(@, filled)]

-----------------------------------------------------------------------------
(* Completeness, scriptSig and witness *)

Solved(in) == in.desc # None /\ Satisfiable(in.desc, SigsOf(in))

IsCompleteInput(in) ==
    \/ Has(in, "script_sig") /\ (Has(in, "witness") \/ ~IsSegwitInput(in))
    \/ Solved(in)

\* Mutant: the redeem script is forgotten.
InputScriptOfNative(in) ==
    IF Has(in, "script_sig") THEN Get(in, "script_sig")
    ELSE IF IsSegwitInput(in) THEN <<>> ELSE Satisfy(in.desc, SigsOf(in)).script_sig

InputScript(in) ==
    IF Has(in, "script_sig") THEN Get(in, "script_sig")
    ELSE IF IsP2shSegwit(in) THEN <<Item("script", Get(in, "redeem"))>>
    ELSE IF IsNativeSegwit(in) THEN <<>>
    ELSE IF IsSegwit(in.desc)
         THEN (IF HasWrap(in.desc, "sh") THEN <<Item("script", Expand(in.desc, 0).redeem)>> ELSE <<>>)
    ELSE Satisfy(in.desc, SigsOf(in)).script_sig

\* input_script raises for an input of which nothing is known.
HasInputScript(in) ==
    Has(in, "script_sig") \/ IsP2shSegwit(in) \/ IsNativeSegwit(in) \/ in.desc # None

WitnessStack(in) ==
    IF Has(in, "witness") THEN Get(in, "witness")
    ELSE IF ~IsSegwitInput(in) THEN <<>>
    ELSE Satisfy(in.desc, SigsOf(in)).witness

\* "All other data except the UTXO and unknown fields should be cleared."
Cleared(in) == Drop(in, {"sig", "tap_sig", "tap_root", "sighash", "bip32", "redeem", "wscript"})

FinalizeInput(in) ==
    IF Has(in, "script_sig") /\ Has(in, "witness") THEN Cleared(in)
    ELSE IF IsCompleteInput(in)
         THEN Cleared(With(With(in, "script_sig", InputScript(in)), "witness", WitnessStack(in)))
    ELSE in

AlreadyHasSome(in) ==
    DOMAIN SigsOf(in) # {} \/ Has(in, "tap_sig") \/ Has(in, "script_sig") \/ Has(in, "witness")

\* Mutant: signatures are taken from the other, not added.
CombineInputReplaces(in, other) ==
    FinalizeInput([in EXCEPT !.fields = Over(Drop(other, {"slip19"}).fields, Drop(in, {"sig"}).fields)])

CombineInput(in, other) ==
    FinalizeInput([in EXCEPT !.fields = Over(Drop(other, {"slip19"}).fields, @)])

-----------------------------------------------------------------------------
(* The transaction and its two caches *)

NoCache == <<>>

\* Every change goes through invalidate_ser_cache.
Invalidated(tx) == [tx EXCEPT !.ser = NoCache, !.txid = NoCache]

Unsigned(tx) ==
    [ins |-> [i \in DOMAIN tx.inputs |-> [prevout |-> tx.inputs[i].prevout, nseq |-> tx.inputs[i].nseq]],
     outs |-> [i \in DOMAIN tx.outputs |-> [to |-> tx.outputs[i].to, value |-> tx.outputs[i].value]],
     locktime |-> tx.locktime]

IsComplete(tx) == \A i \in DOMAIN tx.inputs : IsCompleteInput(tx.inputs[i])

ScriptSigs(tx) == [i \in DOMAIN tx.inputs |-> InputScript(tx.inputs[i])]
Witnesses(tx) == [i \in DOMAIN tx.inputs |-> WitnessStack(tx.inputs[i])]

\* serialize_to_network with force_legacy, and in full.
NetworkId(tx) == <<Unsigned(tx), ScriptSigs(tx)>>
NetworkTx(tx) == <<Unsigned(tx), ScriptSigs(tx), Witnesses(tx)>>

HasTxid(tx) ==
    /\ (\A i \in DOMAIN tx.inputs : IsSegwitInput(tx.inputs[i])) \/ IsComplete(tx)
    /\ \A i \in DOMAIN tx.inputs : HasInputScript(tx.inputs[i])

\* txid() fills its cache, and is None where it cannot be known.
Txid(tx) == IF tx.txid # NoCache THEN tx.txid ELSE IF HasTxid(tx) THEN NetworkId(tx) ELSE NoCache
CacheTxid(tx) == [tx EXCEPT !.txid = Txid(tx)]

FinalizePsbt(tx) == [tx EXCEPT !.inputs = [i \in DOMAIN @ |-> FinalizeInput(@[i])]]

\* serialize() finalises; a complete transaction is cached in network form.
CacheFinal(final) ==
    IF IsComplete(final) /\ final.ser = NoCache THEN [final EXCEPT !.ser = NetworkTx(final)] ELSE final
CacheSer(tx) == CacheFinal(FinalizePsbt(tx))

-----------------------------------------------------------------------------
(* Edits *)

\* The i-th has i - 1 before it; what is equal keeps its order.
SortedBy(seq, LessEq(_, _)) ==
    LET Before(i, j) == LessEq(seq[i], seq[j]) /\ (LessEq(seq[j], seq[i]) => i < j)
        At(i) == CHOOSE j \in DOMAIN seq : Cardinality({k \in DOMAIN seq : Before(k, j)}) = i - 1
    IN  [i \in DOMAIN seq |-> seq[At(i)]]

SortInputs(ins) == SortedBy(ins, LAMBDA a, b : a.prevout <= b.prevout)
SortOutputs(outs) == SortedBy(outs, LAMBDA a, b : a.value < b.value \/ (a.value = b.value /\ a.to <= b.to))

\* merge_duplicate_tx_outputs: one output per script, at the place of its first.
Merged(outs) ==
    LET firsts == SelectSeq([i \in DOMAIN outs |-> i],
                            LAMBDA i : \A j \in 1..(i - 1) : outs[j].to # outs[i].to)
        Total(to) == MapThenSumSet(LAMBDA i : outs[i].value, {i \in DOMAIN outs : outs[i].to = to})
    IN  [i \in DOMAIN firsts |-> [outs[firsts[i]] EXCEPT !.value = Total(outs[firsts[i]].to)]]

AddInputs(tx, ins) == Invalidated([tx EXCEPT !.inputs = SortInputs(@ \o ins)])
AddOutputs(tx, outs, merge) ==
    Invalidated([tx EXCEPT !.outputs = SortOutputs(IF merge THEN Merged(@ \o outs) ELSE @ \o outs)])

\* 0xffffffff - 2 signals replaceability, 0xffffffff - 1 does not.
RbfSequence(rbf) == IF rbf THEN 2 ELSE 1
\* Mutant: the caches are kept.
SetRbfOnly(tx, rbf) ==
    [tx EXCEPT !.inputs = [i \in DOMAIN @ |-> [@[i] EXCEPT !.nseq = RbfSequence(rbf)]]]

SetRbf(tx, rbf) ==
    Invalidated([tx EXCEPT !.inputs = [i \in DOMAIN @ |-> [@[i] EXCEPT !.nseq = RbfSequence(rbf)]]])
IsRbfEnabled(tx) == \E i \in DOMAIN tx.inputs : tx.inputs[i].nseq > 1

SetLocktime(tx, locktime) == Invalidated([tx EXCEPT !.locktime = locktime])

NewTx == [inputs |-> <<>>, outputs |-> <<>>, locktime |-> 0, globals |-> {}, ser |-> NoCache, txid |-> NoCache]

FromIo(ins, outs, locktime) ==
    [NewTx EXCEPT !.inputs = SortInputs(ins), !.outputs = SortOutputs(outs), !.locktime = locktime]

RemoveSignatures(tx) ==
    Invalidated([tx EXCEPT !.inputs =
        [i \in DOMAIN @ |-> Drop(@[i], {"sig", "tap_sig", "script_sig", "witness"})]])

CombineOutput(out, other) == [out EXCEPT !.fields = Over(other.fields, @)]

CanCombine(tx, other) == Unsigned(tx) = Unsigned(other)

Combine(tx, other) ==
    Invalidated([tx EXCEPT
        !.inputs = [i \in DOMAIN @ |-> CombineInput(@[i], other.inputs[i])],
        !.outputs = [i \in DOMAIN @ |-> CombineOutput(@[i], other.outputs[i])],
        !.globals = @ \cup other.globals])

Prevouts(tx) == {tx.inputs[i].prevout : i \in DOMAIN tx.inputs}

\* Mutant: inputs are not compared.
CanJoinAny(tx, other) == Len(tx.inputs) + Len(other.inputs) <= Cardinality(DOMAIN Coin)

CanJoin(tx, other) ==
    /\ Prevouts(tx) \cap Prevouts(other) = {}
    /\ Cardinality(Prevouts(tx) \cup Prevouts(other)) = Len(tx.inputs) + Len(other.inputs)

Join(tx, other, merge) ==
    RemoveSignatures(AddOutputs(AddInputs([tx EXCEPT !.globals = @ \cup other.globals], other.inputs),
                                other.outputs, merge))

\* prepare_for_export_for_coinjoin, and the texts that fit into a QR code.
ForCoinjoin(tx) ==
    [tx EXCEPT !.globals = {},
               !.inputs = [i \in DOMAIN @ |-> Drop(@[i], {"bip32"})],
               !.outputs = [i \in DOMAIN @ |->
                   [to |-> @[i].to, value |-> @[i].value,
                    fields |-> Drop(@[i], {"redeem", "wscript", "bip32", "unknown"}).fields]]]

WitnessUtxo(in) ==
    IF Has(in, "utxo")
    THEN With(Drop(in, {"utxo"}), "wutxo",
              [script |-> ScriptOf(in.prevout).output, amount |-> Coin[in.prevout].amount])
    ELSE in
WithWitnessUtxos(tx) == [tx EXCEPT !.inputs = [i \in DOMAIN @ |-> WitnessUtxo(@[i])]]

-----------------------------------------------------------------------------
(* Signing: serialize_preimage and the digest of the reference *)

SighashAll == [base |-> "ALL", acp |-> FALSE]
SighashOf(in) == IF Has(in, "sighash") THEN Get(in, "sighash") ELSE SighashAll

\* What the script code is, for an input that knows it.
HasPreimageScript(in) == Has(in, "wscript") \/ (~IsSegwitInput(in) /\ Has(in, "redeem")) \/ in.desc # None
PreimageScript(in) ==
    IF Has(in, "wscript") THEN Get(in, "wscript")
    ELSE IF ~IsSegwitInput(in) /\ Has(in, "redeem") THEN Get(in, "redeem")
    ELSE ScriptCode(in.desc, 0)

Zero == <<"zero">>

CanPreimage(tx, i) ==
    LET in == tx.inputs[i]
    IN  /\ HasPreimageScript(in) /\ IsConsistent(in)
        /\ IF IsSegwitInput(in) THEN AddressKnown(in) ELSE SighashOf(in) = SighashAll

Preimage(tx, i) ==
    LET in == tx.inputs[i]
        type == SighashOf(in)
        u == Unsigned(tx)
        prevouts == <<"all", [k \in DOMAIN u.ins |-> u.ins[k].prevout]>>
        sequences == <<"all", [k \in DOMAIN u.ins |-> u.ins[k].nseq]>>
    IN  IF IsSegwitInput(in)
        THEN [segwit    |-> TRUE, type |-> type, locktime |-> u.locktime,
              own       |-> <<in.prevout, in.nseq>>, script |-> PreimageScript(in), amount |-> ValueSats(in),
              prevouts  |-> IF type.acp THEN Zero ELSE prevouts,
              sequences |-> IF type.acp \/ type.base # "ALL" THEN Zero ELSE sequences,
              outputs   |-> IF type.base = "ALL" THEN <<"all", u.outs>>
                            ELSE IF type.base = "SINGLE" /\ i <= Len(u.outs) THEN <<"one", u.outs[i]>>
                            ELSE Zero]
        ELSE [segwit    |-> FALSE, type |-> type, locktime |-> u.locktime,
              own       |-> <<in.prevout, in.nseq>>, script |-> PreimageScript(in), amount |-> 0,
              prevouts  |-> prevouts, sequences |-> sequences, outputs |-> <<"all", u.outs>>]

\* An input takes keys in any order until it is complete.
ChosenKeys(in, secrets) ==
    LET mine == IF in.desc = None THEN {} ELSE Range(Pubkeys(in.desc, 0)) \cap secrets
        have == DOMAIN SigsOf(in)
        enough == IF Cardinality(have \cup mine) < in.desc.thresh
                  THEN Cardinality(have \cup mine) ELSE in.desc.thresh
    IN  IF IsCompleteInput(in) THEN {{}}
        ELSE {keys \in SUBSET mine : Cardinality(have \cup keys) = enough}

SignedInput(tx, i, keys) ==
    LET bare == Drop(tx.inputs[i], {"script_sig", "witness"})
        sigs == [k \in {<<"sig", key>> : key \in keys} |-> [key |-> k[2], digest |-> Preimage(tx, i)]]
    IN  IF keys = {} THEN tx.inputs[i] ELSE [bare EXCEPT !.fields = Over(sigs, @)]

Signed(tx, chosen) ==
    Invalidated([tx EXCEPT !.inputs = [i \in DOMAIN @ |-> SignedInput(tx, i, chosen[i])]])

-----------------------------------------------------------------------------
(* The text of a PSBT: sections are sets of entries *)

Entry(k, value) == <<k[1], k[2], value>>

Section(map) == {Entry(k, map[k]) : k \in DOMAIN map}

ToText(tx) ==
    [unsigned |-> Unsigned(tx), globals |-> tx.globals,
     ins  |-> [i \in DOMAIN tx.inputs |-> Section(tx.inputs[i].fields)],
     outs |-> [i \in DOMAIN tx.outputs |-> Section(tx.outputs[i].fields)]]

\* No key twice, and none for a field that has one value.
SectionParses(section) ==
    /\ \A e, f \in section : e[1] = f[1] /\ e[2] = f[2] => e = f
    /\ \A e \in section : e[1] \in Single => e[2] = 0

SectionMap(section) ==
    [k \in {<<e[1], e[2]>> : e \in section} |-> (CHOOSE e \in section : <<e[1], e[2]>> = k)[3]]

ParsedInput(in, section) ==
    [prevout |-> in.prevout, nseq |-> in.nseq, desc |-> None, trusted |-> FALSE, fields |-> SectionMap(section)]

FromText(text) ==
    [NewTx EXCEPT
        !.inputs = [i \in DOMAIN text.ins |-> ParsedInput(text.unsigned.ins[i], text.ins[i])],
        !.outputs = [i \in DOMAIN text.outs |->
            [to |-> text.unsigned.outs[i].to, value |-> text.unsigned.outs[i].value,
             fields |-> SectionMap(text.outs[i])]],
        !.locktime = text.unsigned.locktime, !.globals = text.globals]

TextParses(text) ==
    /\ text.unsigned.ins # <<>> /\ text.unsigned.outs # <<>>
    /\ Len(text.ins) = Len(text.unsigned.ins) /\ Len(text.outs) = Len(text.unsigned.outs)
    /\ \A i \in DOMAIN text.ins : SectionParses(text.ins[i])
    /\ \A i \in DOMAIN text.outs : SectionParses(text.outs[i])
    /\ \A e \in text.globals : e[1] = "version" => e[3] = 0
    /\ \A i \in DOMAIN text.ins : IsConsistent(FromText(text).inputs[i])
=============================================================================
