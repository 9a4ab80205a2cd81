------------------------------ MODULE MCCodecs ------------------------------
(***************************************************************************)
(* The pure parts of the program over bounded inputs.  A behaviour picks   *)
(* one input; the invariants hold what the code computes of it against     *)
(* what it was made of, or against what the reader of it does.             *)
(***************************************************************************)
EXTENDS Scripts, Encodings, Bip32, Descriptors, AddrOutputs

VARIABLES
    kind,    \* what has been picked
    input
vars == <<kind, input>>

BoundedSeqs(S, n) == UNION {[1..k -> S] : k \in 0..n}

-----------------------------------------------------------------------------
(* Scripts: both sides of every boundary of a number or a length           *)

Numbers == {-256, -255, -128, -127, -1, 0, 1, 16, 17, 127, 128, 255, 256, 32767, 32768, 500000000}
Payloads == {<<>>, <<0>>, <<1>>, <<16>>, <<17>>, <<128>>, <<129>>, <<1, 0>>}
                \cup {Filled(len, 7) : len \in {75, 76, 255, 256, 520}}
Items == {Op(o) : o \in {OP.DUP, OP.CHECKSIG}} \cup {Num(n) : n \in Numbers} \cup {Data(d) : d \in Payloads}
ScriptInputs == BoundedSeqs(Items, 2)

AddressInputs ==
    {Address("segwit", v, Filled(len, 5)) : v \in 0..17, len \in {1, 2, 20, 31, 32, 33, 40, 41}}
        \cup {Address(k, 0, Filled(len, 5)) : k \in {"p2pkh", "p2sh"}, len \in {20, 32}}

\* What an interpreter finds: the bytes an opcode pushes, the others as they are.
Executed(op) ==
    CASE op.op <= OP.PUSHDATA4 -> Data(op.data)
      [] op.op = OP.NEGATE1 -> Data(<<129>>)
      [] op.op \in OP.ONE..OP.SIXTEEN -> Data(<<op.op - OP.ONE + 1>>)
      [] OTHER -> Op(op.op)

\* The number of bytes on the stack: little endian, the highest bit its sign.
ScriptNum(bytes) ==
    IF bytes = <<>> THEN 0
    ELSE LET top == Last(bytes)
             abs == NumberAt(Append(Front(bytes), top % 128), 1, Len(bytes))
         IN  IF top >= 128 THEN -abs ELSE abs

SameItem(item, executed) ==
    CASE item.kind = "op" -> executed = item
      [] item.kind = "num" -> executed.kind = "data" /\ ScriptNum(executed.value) = item.value
      [] item.kind = "data" -> executed = Data(IF item.value = <<0>> THEN <<>> ELSE item.value)

\* The items of a serialised witness: their number, then each with its length.
VarIntAt(bytes, i) ==
    CASE bytes[i] < 253 -> <<bytes[i], i + 1>>
      [] bytes[i] = 253 -> <<NumberAt(bytes, i + 1, 2), i + 3>>
      [] bytes[i] = 254 -> <<NumberAt(bytes, i + 1, 4), i + 5>>

RECURSIVE WitnessAt(_, _, _)
WitnessAt(bytes, i, n) ==
    IF n = 0 THEN <<>>
    ELSE LET len == VarIntAt(bytes, i)
             next == len[2] + len[1]
         IN  <<SubSeq(bytes, len[2], next - 1)>> \o WitnessAt(bytes, next, n - 1)

PlainItems(items) == [i \in DOMAIN items |-> WitnessItem(items[i])]

\* A script holds the items it was made of, and a witness does.  (construct_script, script_GetOp, construct_witness)
ItemsReadBack(items) ==
    LET ops == GetOps(ConstructScript(items), 1)
        witness == ConstructWitness(items)
    IN  /\ Len(ops) = Len(items)
        /\ \A i \in DOMAIN items : SameItem(items[i], Executed(ops[i]))
        /\ (\A i \in DOMAIN items : items[i].kind # "op") =>
              WitnessAt(witness, VarIntAt(witness, 1)[2], VarIntAt(witness, 1)[1]) = PlainItems(items)

\* Spending an output weighs at least the input's fixed bytes, a quarter of its witness.
SpendingSize(bytes) ==
    IF ScriptType(bytes) \in {"p2pkh", "p2sh"} THEN 148 ELSE 41 + VirtualSize(107) - 1

\* The script of an address leads back to it, and its dust limit is one the
\* network relays.  (address_to_script, get_address_from_output_script,
\* check_scriptpubkey_template_and_dust)
AddressReadsBack(a) ==
    LET script == ScriptOfAddress(a)
    IN  IsAddress(a) => /\ AddressOfScript(script) = a
                        /\ DustLimit(script) >= 3 * (OutputSize(script) + SpendingSize(script))
                        /\ a.kind = "segwit" /\ a.version > 0 => ScriptType(script) = "none"
                        /\ ScriptType(script) # "none" => Payload(a) = ScriptType(script)

-----------------------------------------------------------------------------
(* Texts *)

ByteInputs == BoundedSeqs({0, 1, 31, 32, 127, 128, 255}, 3)

Hrp == <<98, 99>>
SomeData == {<<>>, <<0>>, <<31, 1>>, <<0, 0, 5>>}
BechInputs == {[encoding |-> e, data |-> d] : e \in {"bech32", "bech32m"}, d \in SomeData}

ReadsBackBytes(bytes) ==
    LET quintets == ConvertBits(bytes, 8, 5, TRUE)
    IN  /\ ConvertBits(quintets, 5, 8, FALSE) = bytes
        /\ Len(bytes) % 5 # 0 => ConvertBits(Append(Front(quintets), Last(quintets) + 1), 5, 8, FALSE) = None
        /\ \A base \in {43, 58} : BaseDecode(BaseEncode(bytes, base), base) = bytes

\* One character that was changed is noticed, and so are capitals among small letters.
NoticesChange(b) ==
    LET text == Bech32Encode(b.encoding, Hrp, b.data)
        Changed(i, c) == [text EXCEPT !.data[i] = c]
    IN  /\ Bech32Decode(text, FALSE) = [encoding |-> b.encoding, hrp |-> Hrp, data |-> b.data]
        /\ \A i \in DOMAIN text.data, c \in 0..31 :
              c # text.data[i] => Bech32Decode(Changed(i, c), FALSE) = NotBech32
        /\ Bech32Decode([text EXCEPT !.case = "mixed"], FALSE) = NotBech32

\* The segwit addresses that can be written are the ones there are.
WritesSegwit(a) ==
    LET text == EncodeSegwitAddress(Hrp, a.version, a.hash)
    IN  IF IsSegwitAddress(a) THEN DecodeSegwitAddress(Hrp, text) = <<a.version, a.hash>> ELSE text = NoText

Amounts == {0, 10, 990, 1000, 123450, 1000000, 25000000, 1000000000, 2000000000}
T(k, v) == [kind |-> k, value |-> v]
RouteHop == [pubkey |-> Filled(33, 3), scid |-> Filled(8, 9), feebase |-> 1000, feerate |-> 70000, cltv |-> 144]
Fields == {T("d", <<104, 105>>), T("d", Filled(639, 65)), T("h", Filled(32, 200)), T("x", 3600), T("x", 0),
           T("c", 144), T("c", 31), T("nine", 0), T("nine", 131328), T("n", Filled(33, 2)),
           T("r", <<RouteHop>>), T("r", <<RouteHop, [RouteHop EXCEPT !.cltv = 9]>>),
           T("f", [version |-> 0, hash |-> Filled(20, 8)]), T("f", [version |-> 17, hash |-> Filled(20, 8)]),
           T("f", [version |-> 1, hash |-> Filled(32, 8)]),
           T("t", [pubkey |-> Filled(33, 3), feebase |-> 1, feerate |-> 2, cltv |-> 3])}

\* The clock of the program stands between 2^30 and 2^31.
Dates == {1073741824, 2147483647}
InvoiceInputs ==
    {[NewAddr EXCEPT !.amount = a, !.date = 1073741824, !.hash = Filled(32, 255), !.secret = <<>>,
                     !.tags = <<T("d", <<104, 105>>)>>] : a \in Amounts}
    \cup {[NewAddr EXCEPT !.amount = 1000, !.date = d, !.hash = Filled(32, 0), !.secret = Filled(32, 77), !.tags = tags]
            : d \in Dates, tags \in [1..2 -> Fields]}

\* A field as it is read: a trampoline hop in a list.
AsRead(tag) == IF tag.kind = "t" THEN T("t", <<tag.value>>) ELSE tag
IsWritten(tag) == ~(tag.kind = "nine" /\ tag.value = 0) /\ tag.kind # "n"
TagsAsRead(tags) == LET written == SelectSeq(tags, IsWritten) IN [i \in DOMAIN written |-> AsRead(written[i])]
NodeOf(addr) == LET n == SelectSeq(addr.tags, LAMBDA t : t.kind = "n") IN IF n = <<>> THEN <<>> ELSE n[1].value

\* An invoice that can be written is read as it was.  (lnencode_unsigned, lndecode)
InvoiceReadsBack(addr) ==
    Encodable(addr) => LnDecode(LnEncode(addr)) = [addr EXCEPT !.tags = TagsAsRead(addr.tags), !.node = NodeOf(addr)]

\* It expires with its clock, and an hour after its date when it does not say.
ExpiresInTime(addr) ==
    LET read == LnDecode(LnEncode(addr))
        Written(k, default) ==
            LET is == {i \in DOMAIN addr.tags : addr.tags[i].kind = k}
            IN  IF is = {} THEN default ELSE addr.tags[Min(is)].value
    IN  Encodable(addr) /\ addr.date = 1073741824 =>
            /\ MinFinalCltvDelta(read) = Written("c", 18)
            /\ \A after \in {0, 1, 3600, 3601} :
                  IsExpired(read, addr.date + after) <=> after > Written("x", 3600)

-----------------------------------------------------------------------------
(* Keys                                                                    *)

DerivationInputs == {[seed |-> s, path |-> p] : s \in 0..6, p \in BoundedSeqs(0..MaxIndex, 2)}
PathInputs ==
    {[m |-> m, parts |-> p] : m \in BOOLEAN,
        p \in BoundedSeqs({EmptyPart} \cup {Part(n, minus, mark) : n \in {0, 1, Prime - 1, Prime, MaxIndex, MaxIndex + 1},
                                                                    minus \in BOOLEAN, mark \in BOOLEAN}, 2)}

\* Who knows the public key alone derives what the owner of the private key
\* does, one index at a time or all together, and a node tells its origin.
\* (CKD_priv, CKD_pub, is_xkey_consistent_with_key_origin_info)
DerivesTheSame(i) ==
    LET root == Root(i.seed)
        owner == SubkeyAtPrivateDerivation(root, i.path)
        watcher == SubkeyAtPublicDerivation(root, i.path)
    IN  IsNode(root) =>
          /\ IF IsAllPublicDerivation(i.path) THEN ConvertToPublic(owner) = ConvertToPublic(watcher) ELSE ~IsNode(watcher)
          /\ \A k \in DOMAIN i.path :
                owner = SubkeyAtPrivateDerivation(SubkeyAtPrivateDerivation(root, SubSeq(i.path, 1, k)),
                                                  SubSeq(i.path, k + 1, Len(i.path)))
          /\ IsNode(owner) =>
                /\ FromXkey(ToXkey(owner), TRUE) = owner
                /\ XpubFromXprv(ToXkey(owner)) = ToXkey(ConvertToPublic(owner))
                /\ RootFpAndDerPrefix(owner) \in {<<>>, <<Fingerprint(root.key), i.path>>}
                /\ \A prefix \in BoundedSeqs(0..MaxIndex, 1) \cup {i.path} :
                      IsConsistentWithOrigin(owner, prefix, Fingerprint(root.key)) <=> prefix = i.path

\* A path is written as it was read, and read again the same.
PathReadsBack(strpath) ==
    LET path == StrpathToIntpath(strpath)
    IN  IsBip32Derivation(strpath) =>
            /\ StrpathToIntpath(IntpathToStrpath(path)) = path
            /\ NormalizeBip32Derivation(IntpathToStrpath(path)) = IntpathToStrpath(path)

-----------------------------------------------------------------------------
(* Descriptors                                                             *)

\* The order of the derived keys is not that of the extended keys.
MCPubkey(id, pos) == (7 * id + 5 * pos) % 23

PlainKey(id) == [id |-> id, extended |-> FALSE, path |-> <<>>, compressed |-> TRUE]
KeyForms(id) == {PlainKey(id), [PlainKey(id) EXCEPT !.compressed = FALSE],
                 [PlainKey(id) EXCEPT !.extended = TRUE, !.path = <<"0", "*">>],
                 [PlainKey(id) EXCEPT !.extended = TRUE, !.path = <<"*", "0">>],
                 [PlainKey(id) EXCEPT !.path = <<"*">>]}
Chains == {<<>>, <<"sh">>, <<"wsh">>, <<"sh", "wsh">>, <<"wsh", "sh">>, <<"sh", "sh">>}
Orders == {ids \in BoundedSeqs(1..3, 3) : ids # <<>> /\ \A i, j \in DOMAIN ids : ids[i] = ids[j] => i = j}
DescriptorInputs ==
    {[wrap |-> w, func |-> f, thresh |-> t, keys |-> [i \in DOMAIN ids |-> PlainKey(ids[i])]]
        : w \in Chains, f \in {"pk", "pkh", "wpkh", "multi", "sortedmulti", "tr"}, t \in 1..3, ids \in Orders}
    \cup {[wrap |-> w, func |-> f, thresh |-> 1, keys |-> <<k>>]
            : w \in Chains, f \in {"pk", "pkh", "wpkh", "multi", "tr"}, k \in KeyForms(1)}

\* The parser gives functions of one key the threshold one.
HasThreshold(d) == d.func \in Multisigs \/ d.thresh = 1

Signed(keys) == [k \in keys |-> <<"sig", k>>]

\* What the parser takes can be spent with as many signatures as it says and
\* with no fewer, whichever they are, and is complete when it says so.
\* (parse_descriptor, expand, satisfy, get_satisfaction_progress)
Solves(d) ==
    LET script == Expand(d, 0)
        keys == {Pubkeys(d, 0)[i] : i \in DOMAIN d.keys}
        valid == {<<<<"sig", k>>, k>> : k \in keys}
    IN  Parses(d) /\ HasThreshold(d) /\ ~IsTaproot(d) /\ (\A i \in DOMAIN d.keys : Derivable(d.keys[i])) =>
          \A have \in SUBSET keys :
              LET sigdata == Signed(have)
                  progress == Progress(d, sigdata)
              IN  /\ Satisfiable(d, sigdata) <=> progress[1] >= progress[2]
                  /\ Satisfiable(d, sigdata) <=> Cardinality(have) >= d.thresh
                  /\ Satisfiable(d, sigdata) => Accepts(script.output, Satisfy(d, sigdata), valid)
                  /\ Satisfiable(d, sigdata) /\ IsSegwit(d) => Satisfy(d, sigdata).witness # <<>>

\* sortedmulti() does not depend on the order of its keys, a range does on
\* the position, and a script type has the descriptor that has it.
NamesOneScript(d) ==
    /\ d.func = "sortedmulti" => Expand(d, 1) = Expand([d EXCEPT !.keys = Reverse(@)], 1)
    /\ Parses(d) => (IsRange(d) <=> Expand(d, 0) # Expand(d, 1))
    /\ Parses(d) /\ LegacyType(d) \in Singlesigs => FromLegacyLeaf(LegacyType(d), d.keys[1]) = [d EXCEPT !.thresh = 1]
    /\ Parses(d) /\ HasThreshold(d) /\ d.func # "tr" =>
          ScriptCode(d, 0).keys = Pubkeys(d, 0) /\ ScriptCode(d, 0).op \in {"pk", "pkh", "multi"}

-----------------------------------------------------------------------------
(* Wallets: two transactions that pay, two that spend                      *)

Out(address, value) == [address |-> address, value |-> value]
Spendable == {<<1, 1>>, <<1, 2>>, <<2, 1>>, <<9, 1>>}
Inputs == {<<>>} \cup {<<o>> : o \in Spendable} \cup {<<o, p>> : o \in Spendable, p \in Spendable}
Pays == {<<Out("A", 2)>>, <<Out("A", 2), Out("X", 1)>>, <<Out("B", 1), Out("A", 3)>>, <<Out("X", 1)>>}
SpendsTo == {<<Out("X", 1)>>, <<Out("X", 1), Out("X", 2)>>, <<Out("A", 1)>>}
Wallet(pay, with, to, watched) ==
    [watched |-> watched,
     txs |-> <<[txid |-> 9, inputs |-> <<>>, outputs |-> <<Out("B", 4)>>, height |-> 1],
               [txid |-> 1, inputs |-> <<>>, outputs |-> pay[1], height |-> 2],
               [txid |-> 2, inputs |-> <<>>, outputs |-> pay[2], height |-> 2]>>
             \o [n \in 1..2 |-> [txid |-> 2 + n, inputs |-> with[n], outputs |-> to[n], height |-> 2 + n]]]

\* Nothing is spent twice, and what is spent exists.
Consistent(wallet) ==
    \A i \in 4..5 : \A n \in DOMAIN wallet.txs[i].inputs :
        LET o == wallet.txs[i].inputs[n] IN
        /\ o \in Outpoints(wallet) /\ SpentBy(wallet, o) = {i}
        /\ \A k \in DOMAIN wallet.txs[i].inputs : wallet.txs[i].inputs[k] = o => k = n
WalletInputs ==
    {w \in {Wallet(pay, with, to, watched) : pay \in [1..2 -> Pays], with \in [1..2 -> Inputs], to \in [1..2 -> SpendsTo],
                                             watched \in {{"B"}, {"A", "B"}}} : Consistent(w)}

IsListed(wallet, txid) ==
    \E n \in 1..MaxListed :
        n <= Len(Listed(wallet)) /\ Listed(wallet)[n].txid = txid /\ Listed(wallet)[n].category = "send"

\* Every output to the address is found, once and for what it is, as far as
\* the listing goes and as long as what spends it has one output; what is
\* found always is an output to the address, spent by what spends it.
\* (get_addr_outputs, _fetch_spent_utxos, _utxo_to_partial_txin)
FindsOutputs(wallet) ==
    LET result == GetAddrOutputs(wallet, "A")
        txins == result.txins
        prevouts == [n \in DOMAIN txins |-> txins[n].prevout]
        Spenders == UNION {SpentBy(wallet, o) : o \in PaidTo(wallet, "A")}
    IN  /\ result.raises = UnknownAddress <=> "A" \notin wallet.watched
        /\ \A n \in DOMAIN txins :
              /\ prevouts[n] \in PaidTo(wallet, "A")
              /\ txins[n].value >= OutputOf(wallet, prevouts[n]).value
              /\ IF txins[n].spent_txid = NotSpent THEN prevouts[n] \in Unspent(wallet, "A")
                 ELSE \E i \in SpentBy(wallet, prevouts[n]) :
                        wallet.txs[i].txid = txins[n].spent_txid /\ wallet.txs[i].height = txins[n].spent_height
        /\ result.raises = "" => Unspent(wallet, "A") \subseteq {prevouts[n] : n \in DOMAIN txins}
        /\ /\ "A" \in wallet.watched
           /\ \A i \in Spenders : Len(wallet.txs[i].outputs) = 1 /\ IsListed(wallet, wallet.txs[i].txid)
           => /\ result.raises = ""
              /\ {prevouts[n] : n \in DOMAIN txins} = PaidTo(wallet, "A")
              /\ Len(txins) = Cardinality(PaidTo(wallet, "A"))

-----------------------------------------------------------------------------
Init == kind = "none" /\ input = <<>>

Pick(k, inputs) == kind = "none" /\ kind' = k /\ input' \in inputs

Next == \/ Pick("items", ScriptInputs)
        \/ Pick("address", AddressInputs)
        \/ Pick("bytes", ByteInputs)
        \/ Pick("bech32", BechInputs)
        \/ Pick("invoice", InvoiceInputs)
        \/ Pick("derivation", DerivationInputs)
        \/ Pick("path", PathInputs)
        \/ Pick("descriptor", DescriptorInputs)
        \/ Pick("wallet", WalletInputs)

Spec == Init /\ [][Next]_vars

\* What construct_script, construct_witness and address_to_script write is
\* what script_GetOp, an interpreter and the templates read.
ScriptsReadBack ==
    /\ kind = "items" => ItemsReadBack(input)
    /\ kind = "address" => AddressReadsBack(input)

\* What convertbits, base_encode, bech32_encode, encode_segwit_address and
\* lnencode_unsigned write is read back, and what was changed is refused.
TextsReadBack ==
    /\ kind = "bytes" => ReadsBackBytes(input)
    /\ kind = "bech32" => NoticesChange(input)
    /\ kind = "address" /\ input.kind = "segwit" => WritesSegwit(input)
    /\ kind = "invoice" => InvoiceReadsBack(input) /\ ExpiresInTime(input)

\* BIP32Node: the private and the public derivation agree, indexes that have
\* to be skipped included, and keys and paths are read back.
DerivationAgrees ==
    /\ kind = "derivation" => DerivesTheSame(input)
    /\ kind = "path" => PathReadsBack(input)

\* What the parser of descriptors accepts is satisfied with what Bitcoin accepts.
DescriptorsSolve == kind = "descriptor" => Solves(input) /\ NamesOneScript(input)

\* get_addr_outputs answers with the outputs to the address.
OutputsFound == kind = "wallet" => FindsOutputs(input)
=============================================================================
