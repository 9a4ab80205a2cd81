----------------------------- MODULE Psbt_proofs -----------------------------
(***************************************************************************)
(* What the caches of a PartialTransaction answer, for every set of coins, *)
(* keys and outputs, and for any number of texts and edits.  A cache is    *)
(* emptied by every edit but one: finalising, which throws away what the   *)
(* answers were computed from.  So the proof is about what finalising      *)
(* leaves: the inputs stay true to their coins, and an input that is       *)
(* complete keeps its solution.                                            *)
(***************************************************************************)
EXTENDS Psbt, FiniteSetTheorems, TLAPS

-----------------------------------------------------------------------------
(* The invariant *)

\* The fields of an input of coin c: its scripts are those of the coin, and a
\* scriptSig comes with a witness, which is empty unless the coin is of segwit.
FieldsOf(c, map) ==
    /\ map = [k \in DOMAIN map |-> map[k]]
    /\ \A k \in DOMAIN map : k = <<k[1], k[2]>>
    /\ Field("redeem") \in DOMAIN map =>
          map[Field("redeem")] = ScriptOf(c).redeem /\ ScriptOf(c).redeem # NoScript
    /\ Field("wscript") \in DOMAIN map => ChainSegwit(c)
    /\ Field("wutxo") \in DOMAIN map => map[Field("wutxo")].script = ScriptOf(c).output
    /\ Field("script_sig") \in DOMAIN map <=> Field("witness") \in DOMAIN map
    /\ Field("witness") \in DOMAIN map => (map[Field("witness")] # <<>> <=> ChainSegwit(c))

\* The input is what the chain says of its coin, as far as it says anything.
OfCoin(in) ==
    /\ in.prevout \in DOMAIN Coin
    /\ in.desc # None => in.desc = Coin[in.prevout].desc
    /\ FieldsOf(in.prevout, in.fields)

\* Of a coin of the holders there is a descriptor.
Shared(c) == Coin[c].desc.func \in ScriptFuncs /\ Coin[c].desc.thresh \in Nat

\* Nothing that would complete it.
Bare(in) == in.desc = None /\ \A k \in DOMAIN in.fields : k[1] \notin {"script_sig", "witness"}

\* The records.
IsInput(in) ==
    in = [prevout |-> in.prevout, nseq |-> in.nseq, desc |-> in.desc, trusted |-> in.trusted,
          fields |-> in.fields]

\* What lightningd puts into a text completes no input; what the plugin claims
\* and what holders share is true to its coin.
GoodInput(in) ==
    /\ IsInput(in)
    /\ mode = "fund" => Bare(in)
    /\ mode = "claim" => OfCoin(in) /\ in.desc = None /\ Coin[in.prevout].desc.func = "swap"
    /\ mode = "joint" => OfCoin(in) /\ Shared(in.prevout)

IsRecord(t) ==
    t = [inputs |-> t.inputs, outputs |-> t.outputs, locktime |-> t.locktime,
         globals |-> t.globals, ser |-> t.ser, txid |-> t.txid]

\* CachesFresh, of one transaction.
FreshCaches(t) ==
    /\ t.ser # NoCache => IsComplete(t) /\ t.ser = NetworkTx(t)
    /\ t.txid # NoCache => HasTxid(t) /\ t.txid = NetworkId(t)

\* Inputs that are concatenated and sorted have to be sequences.
GoodTx(t) ==
    /\ IsRecord(t)
    /\ mode # "fund" => t.inputs \in Seq(Range(t.inputs))
    /\ \A i \in DOMAIN t.inputs : GoodInput(t.inputs[i])

\* What is read of a text is as good as what was written.
GoodText(text) ==
    /\ text = [unsigned |-> text.unsigned, globals |-> text.globals, ins |-> text.ins, outs |-> text.outs]
    /\ mode # "fund" => text.ins \in Seq(Range(text.ins))
    /\ \A i \in DOMAIN text.ins : GoodInput(ParsedInput(text.unsigned.ins[i], text.ins[i]))

CachesInv ==
    /\ mode \in {"fund", "claim", "joint"}
    /\ tx = [p \in Parties |-> tx[p]]
    /\ \A p \in Parties : GoodTx(tx[p]) /\ FreshCaches(tx[p])
    /\ \A text \in texts : GoodText(text)

-----------------------------------------------------------------------------
(* Sorting *)

IsStrictOrder(R, n) ==
    /\ \A i \in 1..n : <<i, i>> \notin R
    /\ \A i, j \in 1..n : i # j => <<i, j>> \in R \/ <<j, i>> \in R
    /\ \A i, j, k \in 1..n : <<i, j>> \in R /\ <<j, k>> \in R => <<i, k>> \in R

\* In a strict order of 1..n every place is taken: that of the elements with as
\* many before them.
LEMMA PlacesTaken ==
    ASSUME NEW n \in Nat, NEW R, IsStrictOrder(R, n), NEW r \in 1..n
    PROVE  \E j \in 1..n : Cardinality({k \in 1..n : <<k, j>> \in R}) = r - 1
<1> DEFINE D == 1..n
           Pre(j) == {k \in D : <<k, j>> \in R}
           f == [j \in D |-> Cardinality(Pre(j)) + 1]
<1>0. /\ \A i \in D : <<i, i>> \notin R
      /\ \A i, j \in D : i # j => <<i, j>> \in R \/ <<j, i>> \in R
      /\ \A i, j, k \in D : <<i, j>> \in R /\ <<j, k>> \in R => <<i, k>> \in R
  BY DEF IsStrictOrder
<1>1. IsFiniteSet(D) /\ Cardinality(D) = n
  BY FS_Interval
<1>2. \A j \in D : IsFiniteSet(Pre(j)) /\ Cardinality(Pre(j)) \in Nat
  <2> TAKE j \in D
  <2>1. Pre(j) \in SUBSET D
    OBVIOUS
  <2> HIDE DEF Pre, D
  <2>2. IsFiniteSet(Pre(j))
    BY <1>1, <2>1, FS_Subset
  <2> QED
    BY <2>2, FS_CardinalityType
<1>3. \A j \in D : f[j] \in D
  <2> TAKE j \in D
  <2>1. IsFiniteSet(D \ {j}) /\ Cardinality(D \ {j}) = n - 1
    BY <1>1, FS_RemoveElement
  <2>2. Pre(j) \in SUBSET (D \ {j})
    BY <1>0
  <2>3. Cardinality(Pre(j)) \in Nat
    BY <1>2
  <2> HIDE DEF Pre, D
  <2>4. Cardinality(Pre(j)) <= Cardinality(D \ {j})
    BY <2>1, <2>2, FS_Subset
  <2> QED
    BY <2>1, <2>3, <2>4 DEF D
<1>4. ASSUME NEW i \in D, NEW j \in D, <<i, j>> \in R PROVE f[i] < f[j]
  <2>1. Pre(i) \in SUBSET Pre(j) /\ i \in Pre(j) \ Pre(i)
    BY <1>0, <1>4
  <2>2. /\ IsFiniteSet(Pre(j))
        /\ Cardinality(Pre(i)) \in Nat /\ Cardinality(Pre(j)) \in Nat
    BY <1>2
  <2> HIDE DEF Pre
  <2>3. Cardinality(Pre(i)) <= Cardinality(Pre(j)) /\ Cardinality(Pre(i)) # Cardinality(Pre(j))
    BY <2>1, <2>2, FS_Subset
  <2> QED
    BY <2>2, <2>3
<1>5. \A i, j \in D : i # j => f[i] # f[j]
  <2> TAKE i, j \in D
  <2> HAVE i # j
  <2>1. f[i] \in Int /\ f[j] \in Int
    BY <1>3
  <2> HIDE DEF f, D
  <2>2. CASE <<i, j>> \in R
    BY <1>4, <2>1, <2>2
  <2>3. CASE <<j, i>> \in R
    BY <1>4, <2>1, <2>3
  <2> QED
    BY <1>0, <2>2, <2>3
<1>6. SUFFICES ASSUME \A j \in D : f[j] # r PROVE FALSE
  <2>1. \A j \in D : f[j] = Cardinality(Pre(j)) + 1
    OBVIOUS
  <2>2. r \in Nat
    OBVIOUS
  <2> HIDE DEF f
  <2>3. \A j \in D : f[j] = r => Cardinality(Pre(j)) = r - 1
    <3> HIDE DEF Pre, D
    <3> QED
      BY <1>2, <2>1, <2>2
  <2> QED
    BY <2>3
<1>7. f \in [D -> D \ {r}]
  BY <1>3, <1>6
<1>8. IsFiniteSet(D \ {r}) /\ Cardinality(D \ {r}) = n - 1
  BY <1>1, FS_RemoveElement
<1>9. n - 1 < n
  OBVIOUS
<1> HIDE DEF f, D
<1> QED
  BY <1>1, <1>5, <1>7, <1>8, <1>9, FS_PigeonHole

\* BIP69_sort loses no input and makes none up.
LEMMA InputsSorted ==
    ASSUME NEW S, NEW ins \in Seq(S), \A in \in S : in.prevout \in Nat
    PROVE  SortInputs(ins) \in Seq(S) /\ Len(SortInputs(ins)) = Len(ins)
<1> DEFINE n == Len(ins)
           Before(i, j) == /\ ins[i].prevout <= ins[j].prevout
                           /\ ins[j].prevout <= ins[i].prevout => i < j
           R == {x \in (1..n) \X (1..n) : Before(x[1], x[2])}
           At(i) == CHOOSE j \in DOMAIN ins :
                       Cardinality({k \in DOMAIN ins : Before(k, j)}) = i - 1
<1>1. SortInputs(ins) = [i \in DOMAIN ins |-> ins[At(i)]]
  BY DEF SortInputs, SortedBy
<1>2. n \in Nat /\ DOMAIN ins = 1..n /\ \A i \in 1..n : ins[i] \in S /\ ins[i].prevout \in Nat
  OBVIOUS
<1>3. \A i, j \in 1..n : <<i, j>> \in R <=> Before(i, j)
  OBVIOUS
<1>4. \A r \in 1..n : \E j \in 1..n : Cardinality({k \in 1..n : <<k, j>> \in R}) = r - 1
  <2>1. \A i \in 1..n : <<i, i>> \notin R
    BY <1>2, <1>3
  <2>2. \A i, j \in 1..n : i # j => <<i, j>> \in R \/ <<j, i>> \in R
    BY <1>2, <1>3
  <2>3. \A i, j, k \in 1..n : <<i, j>> \in R /\ <<j, k>> \in R => <<i, k>> \in R
    BY <1>2, <1>3
  <2>4. n \in Nat
    BY <1>2
  <2> HIDE DEF R, n
  <2>5. IsStrictOrder(R, n)
    BY <2>1, <2>2, <2>3 DEF IsStrictOrder
  <2> QED
    BY <2>4, <2>5, PlacesTaken
<1>5. \A j \in 1..n : {k \in DOMAIN ins : Before(k, j)} = {k \in 1..n : <<k, j>> \in R}
  BY <1>2, <1>3
<1>6. \A r \in 1..n : At(r) \in 1..n
  <2> TAKE r \in 1..n
  <2> HIDE DEF R, Before
  <2>1. PICK j \in 1..n : Cardinality({k \in 1..n : <<k, j>> \in R}) = r - 1
    BY <1>4
  <2>2. j \in DOMAIN ins /\ Cardinality({k \in DOMAIN ins : Before(k, j)}) = r - 1
    BY <1>2, <1>5, <2>1
  <2> QED
    BY <1>2, <2>2
<1>7. \A r \in 1..n : ins[At(r)] \in S
  <2> HIDE DEF At
  <2> QED
    BY <1>2, <1>6
<1> HIDE DEF At
<1> QED
  BY <1>1, <1>2, <1>7

-----------------------------------------------------------------------------
(* Inputs and their coins *)

\* What a descriptor, or the lockup script, makes of its address.
HasScripts(c) == Coin[c].desc.func \in ScriptFuncs \cup {"swap"}

LEMMA ScriptsOfCoin ==
    ASSUME NEW c, HasScripts(c)
    PROVE  /\ ScriptOf(c).output.op \in Programs \cup {"tr"} => ChainSegwit(c)
           /\ ScriptOf(c).redeem # NoScript =>
                 /\ ScriptOf(c).output = HashOf("sh", ScriptOf(c).redeem)
                 /\ ScriptOf(c).redeem.op \in Programs => ChainSegwit(c)
                 /\ ChainSegwit(c) /\ Coin[c].desc.func # "tr" => ScriptOf(c).redeem.op \in Programs
<1> DEFINE d == Coin[c].desc
<1>1. CASE d.func = "swap"
  BY <1>1 DEF ScriptOf, ChainSegwit
<1>2. CASE d.func \in ScriptFuncs
  <2>1. d.func # "swap"
    BY <1>2 DEF ScriptFuncs, Multisigs
  <2>2. ScriptOf(c) = Wrapped(d, Inner(d, 0), Program(d, Inner(d, 0)))
    BY <2>1 DEF ScriptOf, Expand
  <2>3. ChainSegwit(c) <=> HasWrap(d, "wsh") \/ d.func \in {"wpkh", "tr"}
    BY <2>1 DEF ChainSegwit, IsSegwit
  <2>4. /\ HasWrap(d, "wsh") => Program(d, Inner(d, 0)).op = "wsh"
        /\ ~HasWrap(d, "wsh") => Program(d, Inner(d, 0)).op = IF d.func = "sortedmulti" THEN "multi" ELSE d.func
    BY DEF Program, HashOf, Inner, Script
  <2>5. /\ HasWrap(d, "sh") => /\ ScriptOf(c).output = HashOf("sh", Program(d, Inner(d, 0)))
                               /\ ScriptOf(c).redeem = Program(d, Inner(d, 0))
                               /\ ScriptOf(c).output.op = "sh"
        /\ ~HasWrap(d, "sh") => /\ ScriptOf(c).output = Program(d, Inner(d, 0))
                                /\ ScriptOf(c).redeem = NoScript
    BY <2>2 DEF Wrapped, HashOf
  <2>6. d.func \in {"pk", "pkh", "wpkh", "tr", "multi", "sortedmulti"}
    BY <1>2 DEF ScriptFuncs, Multisigs
  <2> HIDE DEF d
  <2>7. Program(d, Inner(d, 0)).op \in Programs \cup {"tr"} => ChainSegwit(c)
    BY <2>3, <2>4, <2>6 DEF Programs
  <2>8. ChainSegwit(c) /\ d.func # "tr" => Program(d, Inner(d, 0)).op \in Programs
    BY <2>3, <2>4, <2>6 DEF Programs
  <2>9. "sh" \notin Programs \cup {"tr"}
    BY DEF Programs
  <2> QED
    BY <2>5, <2>7, <2>8, <2>9 DEF d
<1> QED
  BY <1>1, <1>2 DEF HasScripts

\* What an input shows of segwit is so, and with a descriptor it shows it.
LEMMA SegwitShows ==
    ASSUME NEW in, OfCoin(in), HasScripts(in.prevout)
    PROVE  /\ IsSegwitInput(in) => ChainSegwit(in.prevout)
           /\ ChainSegwit(in.prevout) /\ in.desc # None /\ in.desc.func # "tr"
                 /\ in.desc.func # "swap" => IsSegwitInput(in)
<1> DEFINE c == in.prevout
           s == ScriptOf(c)
<1>1. /\ s.output.op \in Programs \cup {"tr"} => ChainSegwit(c)
      /\ s.redeem # NoScript =>
            /\ s.output = HashOf("sh", s.redeem)
            /\ s.redeem.op \in Programs => ChainSegwit(c)
            /\ ChainSegwit(c) /\ Coin[c].desc.func # "tr" => s.redeem.op \in Programs
  BY ScriptsOfCoin
<1>2. AddressKnown(in) => Address(in) = s.output
  BY DEF AddressKnown, Address, OfCoin, FieldsOf, Has, Get
<1>3. Has(in, "redeem") => Get(in, "redeem") = s.redeem /\ s.redeem # NoScript
  BY DEF OfCoin, FieldsOf, Has, Get
<1>4. ASSUME IsSegwitInput(in) PROVE ChainSegwit(c)
  <2>1. CASE Has(in, "witness") /\ Get(in, "witness") # <<>>
    BY <2>1 DEF OfCoin, FieldsOf, Has, Get
  <2>2. CASE IsNativeSegwit(in)
    BY <1>1, <1>2, <2>2 DEF IsNativeSegwit
  <2>3. CASE IsP2shSegwit(in)
    BY <1>1, <1>3, <2>3 DEF IsP2shSegwit
  <2>4. CASE Has(in, "wscript")
    BY <2>4 DEF OfCoin, FieldsOf, Has
  <2>5. CASE in.desc # None /\ IsSegwit(in.desc)
    BY <2>5 DEF OfCoin, ChainSegwit
  <2> QED
    BY <1>4, <2>1, <2>2, <2>3, <2>4, <2>5 DEF IsSegwitInput
<1>5. ASSUME ChainSegwit(c), in.desc # None, in.desc.func # "tr", in.desc.func # "swap"
      PROVE  IsSegwitInput(in)
  <2>1. in.desc = Coin[c].desc
    BY <1>5 DEF OfCoin
  <2>2. IsSegwit(in.desc)
    BY <1>5, <2>1 DEF ChainSegwit
  <2>3. ASSUME AddressKnown(in), Has(in, "redeem") PROVE IsP2shSegwit(in)
    BY <1>1, <1>2, <1>3, <1>5, <2>1, <2>3 DEF IsP2shSegwit
  <2> QED
    BY <1>5, <2>2, <2>3 DEF IsSegwitInput
<1> QED
  BY <1>4, <1>5

\* A solution has a witness exactly for a descriptor of segwit.
LEMMA SolutionShows ==
    ASSUME NEW d, d.func \in ScriptFuncs, d.func # "tr", d.thresh \in Nat, NEW sigdata
    PROVE  Satisfy(d, sigdata).witness # <<>> <=> IsSegwit(d)
<1> DEFINE sig(i) == Item("sig", SignaturesFor(d, sigdata)[i])
           sigs == [i \in 1..d.thresh |-> sig(i)]
           items == InnerItems(d, sigdata)
           scripts == Expand(d, 0)
           Items == {sigs[i] : i \in 1..d.thresh} \cup {Item("num", 0), Item("key", Pubkeys(d, 0)[1])}
<1>1. sigs \in Seq(Items)
  <2>1. d.thresh \in Nat /\ \A i \in 1..d.thresh : sigs[i] \in Items
    OBVIOUS
  <2> HIDE DEF sig, Items
  <2>2. sigs \in [1..d.thresh -> Items]
    BY <2>1
  <2> QED
    BY <2>1, <2>2
<1>2. items \in Seq(Items) /\ (d.func = "wpkh" => items # <<>>)
  <2>1. d.func \in {"pk", "pkh", "wpkh", "multi", "sortedmulti"}
    BY DEF ScriptFuncs, Multisigs
  <2>2. /\ d.func \in Multisigs => items = <<Item("num", 0)>> \o sigs
        /\ d.func = "pk" => items = sigs
        /\ d.func \in {"pkh", "wpkh"} => items = Append(sigs, Item("key", Pubkeys(d, 0)[1]))
    BY <2>1 DEF InnerItems, Multisigs
  <2>3. Item("num", 0) \in Items /\ Item("key", Pubkeys(d, 0)[1]) \in Items
    OBVIOUS
  <2> HIDE DEF sigs, items, Items
  <2>4. <<Item("num", 0)>> \o sigs \in Seq(Items)
    BY <1>1, <2>3
  <2>5. /\ Append(sigs, Item("key", Pubkeys(d, 0)[1])) \in Seq(Items)
        /\ Append(sigs, Item("key", Pubkeys(d, 0)[1])) # <<>>
    BY <1>1, <2>3
  <2> QED
    BY <1>1, <2>1, <2>2, <2>4, <2>5 DEF Multisigs
<1>3. Append(items, Item("script", scripts.witness)) # <<>>
  <2> HIDE DEF items, scripts, Items
  <2> QED
    BY <1>2
<1>4. Satisfy(d, sigdata).witness =
         IF IsSegwit(d)
         THEN IF HasWrap(d, "wsh") THEN Append(items, Item("script", scripts.witness)) ELSE items
         ELSE <<>>
  BY DEF Satisfy, SolutionOf
<1>5. IsSegwit(d) => HasWrap(d, "wsh") \/ d.func = "wpkh"
  BY DEF IsSegwit
<1> HIDE DEF items
<1> QED
  BY <1>2, <1>3, <1>4, <1>5

-----------------------------------------------------------------------------
(* The maps of an input *)

LEMMA DropFields ==
    ASSUME NEW in, IsInput(in), NEW T
    PROVE  /\ IsInput(Drop(in, T))
           /\ Drop(in, T).prevout = in.prevout /\ Drop(in, T).nseq = in.nseq
           /\ Drop(in, T).desc = in.desc /\ Drop(in, T).trusted = in.trusted
           /\ Drop(in, T).fields = [k \in {k \in DOMAIN in.fields : k[1] \notin T} |-> in.fields[k]]
  BY DEF IsInput, Drop, Restrict

LEMMA DropRest ==
    ASSUME NEW in, IsInput(in), NEW T PROVE Drop(in, T).nseq = in.nseq
  BY DEF IsInput, Drop

\* With one more field everything else stays.
LEMMA WithField ==
    ASSUME NEW in, IsInput(in), NEW type, NEW value
    PROVE  /\ IsInput(With(in, type, value))
           /\ With(in, type, value).prevout = in.prevout /\ With(in, type, value).nseq = in.nseq
           /\ With(in, type, value).desc = in.desc /\ With(in, type, value).trusted = in.trusted
           /\ DOMAIN With(in, type, value).fields = DOMAIN in.fields \cup {Field(type)}
           /\ With(in, type, value).fields = [k \in DOMAIN in.fields \cup {Field(type)} |->
                                                  IF k = Field(type) THEN value ELSE in.fields[k]]
  BY DEF IsInput, With, Over

IsMap(f) == f = [k \in DOMAIN f |-> f[k]]

LEMMA WithKeys ==
    ASSUME NEW in, IsInput(in), NEW type, NEW value
    PROVE  /\ IsInput(With(in, type, value))
           /\ With(in, type, value).prevout = in.prevout /\ With(in, type, value).desc = in.desc
           /\ DOMAIN With(in, type, value).fields = DOMAIN in.fields \cup {Field(type)}
           /\ IsMap(With(in, type, value).fields)
           /\ With(in, type, value).fields[Field(type)] = value
           /\ \A k \in DOMAIN in.fields :
                 k # Field(type) => With(in, type, value).fields[k] = in.fields[k]
<1> DEFINE out == With(in, type, value)
<1>1. IsInput(out)
  BY WithField
<1>2. /\ out.prevout = in.prevout /\ out.desc = in.desc
      /\ out.fields = [k \in DOMAIN in.fields \cup {Field(type)} |->
                           IF k = Field(type) THEN value ELSE in.fields[k]]
  BY WithField
<1> HIDE DEF out
<1>3. DOMAIN out.fields = DOMAIN in.fields \cup {Field(type)}
  BY <1>2
<1>4. IsMap(out.fields) /\ out.fields[Field(type)] = value
  BY <1>2 DEF IsMap
<1>5. \A k \in DOMAIN in.fields : k # Field(type) => out.fields[k] = in.fields[k]
  BY <1>2
<1> QED
  BY <1>1, <1>2, <1>3, <1>4, <1>5 DEF out

\* Two maps that are true to a coin are so together.
LEMMA OverFields ==
    ASSUME NEW c, NEW f, NEW g, FieldsOf(c, f), FieldsOf(c, g) PROVE FieldsOf(c, Over(f, g))
<1>1. /\ DOMAIN Over(f, g) = DOMAIN f \cup DOMAIN g
      /\ \A k \in DOMAIN f : Over(f, g)[k] = f[k]
      /\ \A k \in DOMAIN g \ DOMAIN f : Over(f, g)[k] = g[k]
      /\ Over(f, g) = [k \in DOMAIN Over(f, g) |-> Over(f, g)[k]]
  BY DEF Over
<1> QED
  BY <1>1 DEF FieldsOf

\* scriptSig and witness come and go together.
LEMMA DropGood ==
    ASSUME NEW in, GoodInput(in), NEW T, "script_sig" \in T <=> "witness" \in T
    PROVE  GoodInput(Drop(in, T))
<1> DEFINE out == Drop(in, T)
<1>1. /\ IsInput(out) /\ out.prevout = in.prevout /\ out.desc = in.desc
      /\ out.fields = [k \in {k \in DOMAIN in.fields : k[1] \notin T} |-> in.fields[k]]
  BY DropFields DEF GoodInput
<1>2. /\ \A type : Field(type) \in DOMAIN out.fields <=> Field(type) \in DOMAIN in.fields /\ type \notin T
      /\ \A k \in DOMAIN out.fields : k \in DOMAIN in.fields /\ out.fields[k] = in.fields[k]
  BY <1>1 DEF Field
<1> HIDE DEF out
<1>3. Bare(in) => Bare(out)
  BY <1>1, <1>2 DEF Bare
<1>4. OfCoin(in) => OfCoin(out)
  BY <1>1, <1>2 DEF OfCoin, FieldsOf
<1> QED
  BY <1>1, <1>3, <1>4 DEF GoodInput, out

-----------------------------------------------------------------------------
(* Finalising *)

\* What finalising makes of an input that is complete.
Final(in) == Cleared(With(With(in, "script_sig", InputScript(in)), "witness", WitnessStack(in)))

LEMMA FinalFields ==
    ASSUME NEW in, IsInput(in)
    PROVE  /\ IsInput(Final(in))
           /\ Final(in).prevout = in.prevout /\ Final(in).nseq = in.nseq
           /\ Final(in).desc = in.desc /\ Final(in).trusted = in.trusted
           /\ Has(Final(in), "script_sig") /\ Get(Final(in), "script_sig") = InputScript(in)
           /\ Has(Final(in), "witness") /\ Get(Final(in), "witness") = WitnessStack(in)
           /\ ~Has(Final(in), "redeem") /\ ~Has(Final(in), "wscript")
           /\ \A k \in DOMAIN Final(in).fields :
                 k \in DOMAIN in.fields \/ k = Field("script_sig") \/ k = Field("witness")
           /\ Has(in, "wutxo") => Has(Final(in), "wutxo")
           /\ Has(Final(in), "wutxo") =>
                 Has(in, "wutxo") /\ Get(Final(in), "wutxo") = Get(in, "wutxo")
           /\ Has(Final(in), "utxo") <=> Has(in, "utxo")
           /\ Final(in).fields = [k \in DOMAIN Final(in).fields |-> Final(in).fields[k]]
<1> DEFINE w1 == With(in, "script_sig", InputScript(in))
           w2 == With(w1, "witness", WitnessStack(in))
           T == {"sig", "tap_sig", "tap_root", "sighash", "bip32", "redeem", "wscript"}
<1>1. IsInput(w1)
  BY WithField
<1>2. /\ w1.prevout = in.prevout /\ w1.nseq = in.nseq /\ w1.desc = in.desc
      /\ w1.trusted = in.trusted
      /\ w1.fields = [k \in DOMAIN in.fields \cup {Field("script_sig")} |->
                         IF k = Field("script_sig") THEN InputScript(in) ELSE in.fields[k]]
  BY WithField
<1> HIDE DEF w1
<1>3. IsInput(w2)
  BY <1>1, WithField
<1>4. /\ w2.prevout = w1.prevout /\ w2.nseq = w1.nseq /\ w2.desc = w1.desc
      /\ w2.trusted = w1.trusted
      /\ w2.fields = [k \in DOMAIN w1.fields \cup {Field("witness")} |->
                         IF k = Field("witness") THEN WitnessStack(in) ELSE w1.fields[k]]
  BY <1>1, WithField
<1> HIDE DEF w2, T
<1>5. IsInput(Drop(w2, T))
  BY <1>3, DropFields
<1>6. /\ Drop(w2, T).prevout = w2.prevout /\ Drop(w2, T).nseq = w2.nseq
      /\ Drop(w2, T).desc = w2.desc /\ Drop(w2, T).trusted = w2.trusted
      /\ Drop(w2, T).fields = [k \in {k \in DOMAIN w2.fields : k[1] \notin T} |-> w2.fields[k]]
  BY <1>3, DropFields
<1>7. Final(in) = Drop(w2, T)
  BY DEF Final, Cleared, w1, w2, T
<1>8. /\ Field("script_sig")[1] \notin T /\ Field("witness")[1] \notin T
      /\ Field("redeem")[1] \in T /\ Field("wscript")[1] \in T
      /\ Field("utxo")[1] \notin T /\ Field("wutxo")[1] \notin T
      /\ Field("script_sig") # Field("witness")
      /\ Field("utxo") \notin {Field("script_sig"), Field("witness")}
      /\ Field("wutxo") \notin {Field("script_sig"), Field("witness")}
  BY DEF Field, T
<1> DEFINE out == Final(in)
           D == DOMAIN in.fields \cup {Field("script_sig"), Field("witness")}
<1>9. /\ out.fields = [k \in {k \in D : k[1] \notin T} |-> w2.fields[k]]
      /\ \A k \in D : w2.fields[k] = IF k = Field("witness") THEN WitnessStack(in)
                                    ELSE IF k = Field("script_sig") THEN InputScript(in)
                                    ELSE in.fields[k]
  <2>1. /\ DOMAIN w1.fields = DOMAIN in.fields \cup {Field("script_sig")}
        /\ \A k \in DOMAIN w1.fields :
              w1.fields[k] = IF k = Field("script_sig") THEN InputScript(in) ELSE in.fields[k]
    BY <1>2
  <2>2. /\ DOMAIN w2.fields = DOMAIN w1.fields \cup {Field("witness")}
        /\ \A k \in DOMAIN w2.fields :
              w2.fields[k] = IF k = Field("witness") THEN WitnessStack(in) ELSE w1.fields[k]
    BY <1>4
  <2>3. DOMAIN w2.fields = D
    BY <2>1, <2>2
  <2>4. out.fields = [k \in {k \in D : k[1] \notin T} |-> w2.fields[k]]
    BY <1>6, <1>7, <2>3
  <2> QED
    BY <2>1, <2>2, <2>3, <2>4
<1>10. /\ IsInput(out) /\ out.prevout = in.prevout /\ out.nseq = in.nseq
       /\ out.desc = in.desc /\ out.trusted = in.trusted
  BY <1>2, <1>4, <1>5, <1>6, <1>7
<1> HIDE DEF out
<1> QED
  BY <1>8, <1>9, <1>10 DEF Has, Get, out

\* What is complete without both fields is solved by its descriptor.
LEMMA CompleteIsSolved ==
    ASSUME mode \in {"fund", "claim", "joint"},
           NEW in, GoodInput(in), IsCompleteInput(in), ~(Has(in, "script_sig") /\ Has(in, "witness"))
    PROVE  /\ mode # "fund" /\ mode # "claim"
           /\ in.desc # None /\ in.desc.func # "tr" /\ ~Has(in, "script_sig") /\ ~Has(in, "witness")
<1>1. CASE mode = "fund"
  <2>1. ~Has(in, "script_sig") /\ in.desc = None
    BY <1>1 DEF GoodInput, Bare, Has, Field
  <2> QED
    BY <2>1 DEF IsCompleteInput, Solved
<1>2. CASE mode # "fund" /\ OfCoin(in)
  <2>1. Has(in, "script_sig") <=> Has(in, "witness")
    BY <1>2 DEF OfCoin, FieldsOf, Has
  <2>2. Solved(in)
    BY <2>1 DEF IsCompleteInput
  <2>3. in.desc # None /\ in.desc.func # "tr"
    BY <2>2 DEF Solved, Satisfiable
  <2> QED
    BY <1>2, <2>1, <2>3 DEF GoodInput
<1> QED
  BY <1>1, <1>2 DEF GoodInput

\* The witness that finalising puts in shows segwit exactly if the coin is.
LEMMA FinalGood ==
    ASSUME mode \in {"fund", "claim", "joint"},
           NEW in, GoodInput(in), IsCompleteInput(in), ~(Has(in, "script_sig") /\ Has(in, "witness"))
    PROVE  GoodInput(Final(in))
<1>1. /\ mode = "joint" /\ OfCoin(in) /\ IsInput(in) /\ Shared(in.prevout)
      /\ in.desc # None /\ in.desc.func # "tr" /\ ~Has(in, "script_sig") /\ ~Has(in, "witness")
  BY CompleteIsSolved DEF GoodInput
<1>2. WitnessStack(in) # <<>> <=> ChainSegwit(in.prevout)
  <2>1. in.desc = Coin[in.prevout].desc /\ in.desc.func \in ScriptFuncs /\ in.desc.thresh \in Nat
    BY <1>1 DEF OfCoin, Shared
  <2>2. in.desc.func # "swap" /\ HasScripts(in.prevout)
    BY <2>1 DEF HasScripts, ScriptFuncs, Multisigs
  <2>3. ChainSegwit(in.prevout) <=> IsSegwit(in.desc)
    BY <2>1, <2>2 DEF ChainSegwit
  <2>4. IsSegwitInput(in) <=> ChainSegwit(in.prevout)
    BY <1>1, <2>2, SegwitShows
  <2>5. Satisfy(in.desc, SigsOf(in)).witness # <<>> <=> IsSegwit(in.desc)
    BY <1>1, <2>1, SolutionShows
  <2> QED
    BY <1>1, <2>3, <2>4, <2>5 DEF WitnessStack
<1>3. /\ IsInput(Final(in))
      /\ Final(in).prevout = in.prevout /\ Final(in).desc = in.desc
      /\ Has(Final(in), "script_sig")
      /\ Has(Final(in), "witness") /\ Get(Final(in), "witness") = WitnessStack(in)
      /\ ~Has(Final(in), "redeem") /\ ~Has(Final(in), "wscript")
      /\ \A k \in DOMAIN Final(in).fields :
            k \in DOMAIN in.fields \/ k = Field("script_sig") \/ k = Field("witness")
      /\ Has(Final(in), "wutxo") =>
            Has(in, "wutxo") /\ Get(Final(in), "wutxo") = Get(in, "wutxo")
      /\ Final(in).fields = [k \in DOMAIN Final(in).fields |-> Final(in).fields[k]]
  BY <1>1, FinalFields
<1>4. FieldsOf(in.prevout, in.fields)
  BY <1>1 DEF OfCoin
<1> DEFINE out == Final(in)
<1> HIDE DEF out
<1>5. \A k \in DOMAIN out.fields : k = <<k[1], k[2]>>
  BY <1>3, <1>4 DEF FieldsOf, Field, out
<1>6. FieldsOf(in.prevout, out.fields)
  BY <1>2, <1>3, <1>4, <1>5 DEF FieldsOf, Has, Get, out
<1> QED
  BY <1>1, <1>3, <1>6 DEF GoodInput, OfCoin, out

\* Finalising an input takes nothing away that counts: it is complete if it was,
\* shows segwit if it did, and its solution stays the same.
LEMMA InputFinalized ==
    ASSUME mode \in {"fund", "claim", "joint"}, NEW in, GoodInput(in)
    PROVE  /\ GoodInput(FinalizeInput(in))
           /\ FinalizeInput(in).prevout = in.prevout /\ FinalizeInput(in).nseq = in.nseq
           /\ IsCompleteInput(FinalizeInput(in)) <=> IsCompleteInput(in)
           /\ IsSegwitInput(in) => IsSegwitInput(FinalizeInput(in))
           /\ HasInputScript(in) => HasInputScript(FinalizeInput(in))
           /\ InputScript(FinalizeInput(in)) = InputScript(in)
           /\ IsCompleteInput(in) => WitnessStack(FinalizeInput(in)) = WitnessStack(in)
<1> DEFINE fin == FinalizeInput(in)
<1>1. CASE Has(in, "script_sig") /\ Has(in, "witness")
  <2>1. fin = Cleared(in)
    BY <1>1 DEF FinalizeInput
  <2>2. GoodInput(fin)
    BY <2>1, DropGood DEF Cleared
  <2>3. /\ fin.prevout = in.prevout /\ fin.nseq = in.nseq
        /\ fin.fields = [k \in {k \in DOMAIN in.fields :
                              k[1] \notin {"sig", "tap_sig", "tap_root", "sighash", "bip32", "redeem", "wscript"}}
                            |-> in.fields[k]]
    BY <2>1, DropFields DEF Cleared, GoodInput
  <2>4. /\ Has(fin, "script_sig") /\ Get(fin, "script_sig") = Get(in, "script_sig")
        /\ Has(fin, "witness") /\ Get(fin, "witness") = Get(in, "witness")
    BY <1>1, <2>3 DEF Has, Get, Field
  <2> HIDE DEF fin
  <2>5. IsCompleteInput(fin) /\ IsCompleteInput(in) /\ HasInputScript(fin)
    BY <1>1, <2>4 DEF IsCompleteInput, HasInputScript
  <2>6. InputScript(fin) = InputScript(in) /\ WitnessStack(fin) = WitnessStack(in)
    BY <1>1, <2>4 DEF InputScript, WitnessStack
  <2>7. IsSegwitInput(in) => IsSegwitInput(fin)
    <3>1. CASE mode = "fund"
      BY <1>1, <3>1 DEF GoodInput, Bare, Has, Field
    <3>2. CASE OfCoin(in) /\ HasScripts(in.prevout)
      <4>1. IsSegwitInput(in) => ChainSegwit(in.prevout)
        BY <3>2, SegwitShows
      <4>2. ChainSegwit(in.prevout) => Get(in, "witness") # <<>>
        BY <1>1, <3>2 DEF OfCoin, FieldsOf, Has, Get
      <4> QED
        BY <2>4, <4>1, <4>2 DEF IsSegwitInput
    <3> QED
      BY <3>1, <3>2 DEF GoodInput, Shared, HasScripts
  <2> QED
    BY <2>2, <2>3, <2>5, <2>6, <2>7 DEF fin
<1>2. CASE ~(Has(in, "script_sig") /\ Has(in, "witness")) /\ IsCompleteInput(in)
  <2>1. fin = Final(in)
    BY <1>2 DEF FinalizeInput, Final
  <2>2. GoodInput(fin)
    BY <1>2, <2>1, FinalGood
  <2>3. /\ fin.prevout = in.prevout /\ fin.nseq = in.nseq
        /\ Has(fin, "script_sig") /\ Get(fin, "script_sig") = InputScript(in)
        /\ Has(fin, "witness") /\ Get(fin, "witness") = WitnessStack(in)
    BY <2>1, FinalFields DEF GoodInput
  <2> HIDE DEF fin
  <2>4. IsCompleteInput(fin) /\ HasInputScript(fin)
    BY <2>3 DEF IsCompleteInput, HasInputScript
  <2>5. InputScript(fin) = InputScript(in) /\ WitnessStack(fin) = WitnessStack(in)
    BY <2>3 DEF InputScript, WitnessStack
  <2>6. IsSegwitInput(in) => IsSegwitInput(fin)
    <3>1. mode = "joint"
      BY <1>2, CompleteIsSolved
    <3>2. OfCoin(in) /\ HasScripts(in.prevout) /\ OfCoin(fin)
      BY <2>2, <3>1 DEF GoodInput, Shared, HasScripts
    <3>3. IsSegwitInput(in) => ChainSegwit(in.prevout)
      BY <3>2, SegwitShows
    <3>4. ChainSegwit(in.prevout) => Get(fin, "witness") # <<>>
      BY <2>3, <3>2 DEF OfCoin, FieldsOf, Has, Get
    <3> QED
      BY <2>3, <3>3, <3>4 DEF IsSegwitInput
  <2> QED
    BY <1>2, <2>2, <2>3, <2>4, <2>5, <2>6 DEF fin
<1>3. CASE ~(Has(in, "script_sig") /\ Has(in, "witness")) /\ ~IsCompleteInput(in)
  <2>1. fin = in
    BY <1>3 DEF FinalizeInput
  <2> QED
    BY <2>1
<1> QED
  BY <1>1, <1>2, <1>3

-----------------------------------------------------------------------------
(* Transactions *)

\* A function on the places of a sequence is a sequence.
LEMMA IsSequence ==
    ASSUME NEW s, s \in Seq(Range(s)), NEW f, f = [i \in DOMAIN s |-> f[i]]
    PROVE  f \in Seq(Range(f)) /\ DOMAIN f = DOMAIN s
<1>1. DOMAIN s = 1..Len(s) /\ Len(s) \in Nat
  OBVIOUS
<1>2. DOMAIN f = 1..Len(s) /\ \A i \in DOMAIN f : f[i] \in Range(f)
  BY <1>1 DEF Range
<1> HIDE DEF Range
<1> QED
  BY <1>1, <1>2

\* Finalising changes neither what is complete nor the transaction.
LEMMA TxFinalized ==
    ASSUME mode \in {"fund", "claim", "joint"}, NEW t, GoodTx(t)
    PROVE  /\ GoodTx(FinalizePsbt(t))
           /\ FinalizePsbt(t).ser = t.ser /\ FinalizePsbt(t).txid = t.txid
           /\ IsComplete(FinalizePsbt(t)) <=> IsComplete(t)
           /\ HasTxid(t) => HasTxid(FinalizePsbt(t))
           /\ NetworkId(FinalizePsbt(t)) = NetworkId(t)
           /\ IsComplete(t) => NetworkTx(FinalizePsbt(t)) = NetworkTx(t)
<1> DEFINE u == FinalizePsbt(t)
<1>1. /\ IsRecord(u)
      /\ u.inputs = [i \in DOMAIN t.inputs |-> FinalizeInput(t.inputs[i])]
      /\ u.outputs = t.outputs /\ u.locktime = t.locktime /\ u.ser = t.ser /\ u.txid = t.txid
  BY DEF GoodTx, IsRecord, FinalizePsbt
<1> HIDE DEF u
<1>2. DOMAIN u.inputs = DOMAIN t.inputs /\ \A i \in DOMAIN t.inputs : u.inputs[i] = FinalizeInput(t.inputs[i])
  BY <1>1
<1>3. \A i \in DOMAIN t.inputs :
         /\ GoodInput(u.inputs[i])
         /\ u.inputs[i].prevout = t.inputs[i].prevout /\ u.inputs[i].nseq = t.inputs[i].nseq
         /\ IsCompleteInput(u.inputs[i]) <=> IsCompleteInput(t.inputs[i])
         /\ IsSegwitInput(t.inputs[i]) => IsSegwitInput(u.inputs[i])
         /\ HasInputScript(t.inputs[i]) => HasInputScript(u.inputs[i])
         /\ InputScript(u.inputs[i]) = InputScript(t.inputs[i])
         /\ IsCompleteInput(t.inputs[i]) => WitnessStack(u.inputs[i]) = WitnessStack(t.inputs[i])
  BY <1>2, InputFinalized DEF GoodTx
<1>4. GoodTx(u)
  <2>1. mode # "fund" => u.inputs \in Seq(Range(u.inputs))
    BY <1>1, IsSequence DEF GoodTx
  <2> QED
    BY <1>1, <1>2, <1>3, <2>1 DEF GoodTx
<1>5. IsComplete(u) <=> IsComplete(t)
  BY <1>2, <1>3 DEF IsComplete
<1>6. Unsigned(u) = Unsigned(t)
  BY <1>1, <1>2, <1>3 DEF Unsigned
<1>7. ScriptSigs(u) = ScriptSigs(t) /\ (IsComplete(t) => Witnesses(u) = Witnesses(t))
  BY <1>2, <1>3 DEF ScriptSigs, Witnesses, IsComplete
<1>8. HasTxid(t) => HasTxid(u)
  BY <1>2, <1>3, <1>5 DEF HasTxid
<1> QED
  BY <1>1, <1>4, <1>5, <1>6, <1>7, <1>8 DEF NetworkId, NetworkTx, u

\* The caches say of t what they say of a transaction that differs only in them.
LEMMA CachesApart ==
    ASSUME NEW t, NEW u, t.inputs = u.inputs, t.outputs = u.outputs, t.locktime = u.locktime
    PROVE  /\ IsComplete(t) <=> IsComplete(u)
           /\ HasTxid(t) <=> HasTxid(u)
           /\ NetworkId(t) = NetworkId(u) /\ NetworkTx(t) = NetworkTx(u)
  BY DEF IsComplete, HasTxid, NetworkId, NetworkTx, Unsigned, ScriptSigs, Witnesses

\* So the caches need not be emptied.
LEMMA TxFinalizedFresh ==
    ASSUME mode \in {"fund", "claim", "joint"}, NEW t, GoodTx(t), FreshCaches(t)
    PROVE  GoodTx(FinalizePsbt(t)) /\ FreshCaches(FinalizePsbt(t))
  BY TxFinalized DEF FreshCaches

\* txid() and serialize() put into a cache what is so.
LEMMA TxidCached ==
    ASSUME NEW t, GoodTx(t), FreshCaches(t)
    PROVE  GoodTx(CacheTxid(t)) /\ FreshCaches(CacheTxid(t))
<1> DEFINE u == CacheTxid(t)
<1>1. /\ IsRecord(u) /\ u.inputs = t.inputs /\ u.outputs = t.outputs /\ u.locktime = t.locktime
      /\ u.ser = t.ser /\ u.txid = Txid(t)
  BY DEF GoodTx, IsRecord, CacheTxid
<1> HIDE DEF u
<1>2. /\ IsComplete(u) <=> IsComplete(t)
      /\ HasTxid(u) <=> HasTxid(t)
      /\ NetworkId(u) = NetworkId(t) /\ NetworkTx(u) = NetworkTx(t)
  BY <1>1, CachesApart
<1>3. GoodTx(u)
  BY <1>1 DEF GoodTx
<1>4. FreshCaches(u)
  BY <1>1, <1>2 DEF FreshCaches, Txid
<1> QED
  BY <1>3, <1>4 DEF u

LEMMA SerCached ==
    ASSUME mode \in {"fund", "claim", "joint"}, NEW t, GoodTx(t), FreshCaches(t)
    PROVE  GoodTx(CacheSer(t)) /\ FreshCaches(CacheSer(t))
<1> DEFINE f == FinalizePsbt(t)
           u == CacheSer(t)
<1>1. GoodTx(f) /\ FreshCaches(f)
  BY TxFinalizedFresh
<1>2. u = IF IsComplete(f) /\ f.ser = NoCache THEN [f EXCEPT !.ser = NetworkTx(f)] ELSE f
  BY DEF CacheSer, CacheFinal
<1> HIDE DEF f, u
<1>3. CASE ~(IsComplete(f) /\ f.ser = NoCache)
  BY <1>1, <1>2, <1>3 DEF u
<1>4. CASE IsComplete(f) /\ f.ser = NoCache
  <2>1. /\ IsRecord(u) /\ u.inputs = f.inputs /\ u.outputs = f.outputs /\ u.locktime = f.locktime
        /\ u.ser = NetworkTx(f) /\ u.txid = f.txid
    BY <1>1, <1>2, <1>4 DEF GoodTx, IsRecord
  <2>2. /\ IsComplete(u) <=> IsComplete(f)
        /\ HasTxid(u) <=> HasTxid(f)
        /\ NetworkId(u) = NetworkId(f) /\ NetworkTx(u) = NetworkTx(f)
    BY <2>1, CachesApart
  <2> QED
    BY <1>1, <1>4, <2>1, <2>2 DEF GoodTx, FreshCaches, u
<1> QED
  BY <1>3, <1>4

-----------------------------------------------------------------------------
(* Edits: they all go through invalidate_ser_cache *)

Emptied(t) == t.ser = NoCache /\ t.txid = NoCache

\* Empty caches answer nothing.
LEMMA EmptyIsFresh == ASSUME NEW t, Emptied(t) PROVE FreshCaches(t)
  BY DEF Emptied, FreshCaches

LEMMA InvalidatedGood ==
    ASSUME NEW t, GoodTx(t) PROVE GoodTx(Invalidated(t)) /\ Emptied(Invalidated(t))
<1> DEFINE u == Invalidated(t)
<1>1. IsRecord(u) /\ u.inputs = t.inputs /\ u.ser = NoCache /\ u.txid = NoCache
  <2>1. DOMAIN t = {"inputs", "outputs", "locktime", "globals", "ser", "txid"}
    BY DEF GoodTx, IsRecord
  <2>2. u = [x \in DOMAIN t |-> IF x \in {"ser", "txid"} THEN NoCache ELSE t[x]]
    BY <2>1 DEF Invalidated
  <2> HIDE DEF u
  <2> QED
    BY <2>1, <2>2 DEF IsRecord
<1> HIDE DEF u
<1> QED
  BY <1>1 DEF GoodTx, Emptied, u

LEMMA OtherSequence ==
    ASSUME NEW in, GoodInput(in), NEW nseq
    PROVE  GoodInput([in EXCEPT !.nseq = nseq])
<1> DEFINE out == [in EXCEPT !.nseq = nseq]
<1>1. /\ IsInput(out) /\ out.prevout = in.prevout /\ out.desc = in.desc /\ out.fields = in.fields
  BY DEF GoodInput, IsInput
<1> HIDE DEF out
<1> QED
  BY <1>1 DEF GoodInput, OfCoin, Bare, out

LEMMA SetRbfGood ==
    ASSUME NEW t, GoodTx(t), NEW rbf PROVE GoodTx(SetRbf(t, rbf)) /\ Emptied(SetRbf(t, rbf))
<1> DEFINE u == [t EXCEPT !.inputs = [i \in DOMAIN @ |-> [@[i] EXCEPT !.nseq = RbfSequence(rbf)]]]
<1>1. /\ IsRecord(u)
      /\ u.inputs = [i \in DOMAIN t.inputs |-> [t.inputs[i] EXCEPT !.nseq = RbfSequence(rbf)]]
  BY DEF GoodTx, IsRecord
<1>2. SetRbf(t, rbf) = Invalidated(u)
  BY DEF SetRbf
<1> HIDE DEF u
<1>3. /\ DOMAIN u.inputs = DOMAIN t.inputs
      /\ \A i \in DOMAIN t.inputs : u.inputs[i] = [t.inputs[i] EXCEPT !.nseq = RbfSequence(rbf)]
      /\ u.inputs = [i \in DOMAIN t.inputs |-> u.inputs[i]]
  BY <1>1
<1>4. \A i \in DOMAIN u.inputs : GoodInput(u.inputs[i])
  <2>1. \A i \in DOMAIN t.inputs : GoodInput(t.inputs[i])
    BY DEF GoodTx
  <2>2. \A i \in DOMAIN t.inputs : GoodInput([t.inputs[i] EXCEPT !.nseq = RbfSequence(rbf)])
    BY <2>1, OtherSequence
  <2> QED
    BY <1>3, <2>2
<1>5. mode # "fund" => u.inputs \in Seq(Range(u.inputs))
  BY <1>3, IsSequence DEF GoodTx
<1> QED
  BY <1>1, <1>2, <1>4, <1>5, InvalidatedGood DEF GoodTx

LEMMA SetLocktimeGood ==
    ASSUME NEW t, GoodTx(t), NEW locktime
    PROVE  GoodTx(SetLocktime(t, locktime)) /\ Emptied(SetLocktime(t, locktime))
<1>1. GoodTx([t EXCEPT !.locktime = locktime])
  BY DEF GoodTx, IsRecord
<1> QED
  BY <1>1, InvalidatedGood DEF SetLocktime

LEMMA AddOutputsGood ==
    ASSUME NEW t, GoodTx(t), NEW outs, NEW merge
    PROVE  GoodTx(AddOutputs(t, outs, merge)) /\ Emptied(AddOutputs(t, outs, merge))
<1>1. \A new : GoodTx([t EXCEPT !.outputs = new])
  BY DEF GoodTx, IsRecord
<1> QED
  BY <1>1, InvalidatedGood DEF AddOutputs

\* BIP69_sort only moves inputs.
LEMMA SortedGood ==
    ASSUME CoinsAssumption, mode \in {"claim", "joint"}, NEW ins, ins \in Seq(Range(ins)),
           \A i \in DOMAIN ins : GoodInput(ins[i])
    PROVE  LET new == SortInputs(ins)
           IN  /\ new \in Seq(Range(new)) /\ Len(new) = Len(ins)
               /\ \A i \in DOMAIN new : GoodInput(new[i]) /\ new[i] \in Range(ins)
<1> DEFINE new == SortInputs(ins)
<1>1. \A in \in Range(ins) : GoodInput(in)
  BY DEF Range
<1>2. \A in \in Range(ins) : in.prevout \in Nat
  BY <1>1 DEF GoodInput, OfCoin, CoinsAssumption
<1>3. new \in Seq(Range(ins)) /\ Len(new) = Len(ins)
  <2> HIDE DEF Range
  <2> QED
    BY <1>2, InputsSorted
<1> HIDE DEF new
<1>4. \A i \in DOMAIN new : new[i] \in Range(ins)
  BY <1>3 DEF Range
<1>5. new = [i \in DOMAIN new |-> new[i]] /\ DOMAIN new = DOMAIN ins
  BY <1>3
<1>6. new \in Seq(Range(new))
  BY <1>5, IsSequence
<1> QED
  BY <1>1, <1>3, <1>4, <1>6 DEF new

LEMMA AddInputsGood ==
    ASSUME CoinsAssumption, mode = "joint", NEW t, GoodTx(t), NEW ins, ins \in Seq(Range(ins)),
           \A i \in DOMAIN ins : GoodInput(ins[i])
    PROVE  GoodTx(AddInputs(t, ins)) /\ Emptied(AddInputs(t, ins))
<1> DEFINE all == t.inputs \o ins
           new == SortInputs(all)
           u == [t EXCEPT !.inputs = new]
<1>1. all \in Seq(Range(t.inputs) \cup Range(ins))
  <2>1. t.inputs \in Seq(Range(t.inputs) \cup Range(ins)) /\ ins \in Seq(Range(t.inputs) \cup Range(ins))
    <3> HIDE DEF Range
    <3> QED
      BY DEF GoodTx
  <2> HIDE DEF Range
  <2> QED
    BY <2>1
<1>2. \A i \in DOMAIN all : GoodInput(all[i])
  <2>1. \A i \in DOMAIN all : all[i] \in Range(t.inputs) \cup Range(ins)
    BY <1>1
  <2> HIDE DEF all
  <2> QED
    BY <2>1 DEF Range, GoodTx
<1>3. all \in Seq(Range(all))
  <2>1. /\ all = [i \in DOMAIN all |-> all[i]]
        /\ DOMAIN all = 1..Len(all) /\ Len(all) \in Nat
    BY <1>1
  <2> HIDE DEF all
  <2>2. \A i \in 1..Len(all) : all[i] \in Range(all)
    BY <2>1 DEF Range
  <2> QED
    BY <2>1, <2>2
<1> HIDE DEF all
<1>4. new \in Seq(Range(new)) /\ \A i \in DOMAIN new : GoodInput(new[i])
  BY <1>2, <1>3, SortedGood
<1> HIDE DEF new
<1>5. GoodTx(u)
  BY <1>4 DEF GoodTx, IsRecord
<1>6. AddInputs(t, ins) = Invalidated(u)
  BY DEF AddInputs, u, new, all
<1> QED
  BY <1>5, <1>6, InvalidatedGood

\* What replaces every input by a good one leaves a good transaction.
LEMMA InputsReplaced ==
    ASSUME NEW t, GoodTx(t), NEW new, new = [i \in DOMAIN t.inputs |-> new[i]],
           \A i \in DOMAIN t.inputs : GoodInput(new[i])
    PROVE  GoodTx([t EXCEPT !.inputs = new])
<1> DEFINE u == [t EXCEPT !.inputs = new]
<1>1. IsRecord(u) /\ u.inputs = new
  BY DEF GoodTx, IsRecord
<1> HIDE DEF u
<1>2. DOMAIN new = DOMAIN t.inputs
  OBVIOUS
<1>3. mode # "fund" => new \in Seq(Range(new))
  BY IsSequence DEF GoodTx
<1> QED
  BY <1>1, <1>2, <1>3 DEF GoodTx, u

LEMMA RemoveSignaturesGood ==
    ASSUME NEW t, GoodTx(t)
    PROVE  GoodTx(RemoveSignatures(t)) /\ Emptied(RemoveSignatures(t))
<1> DEFINE new == [i \in DOMAIN t.inputs |->
                      Drop(t.inputs[i], {"sig", "tap_sig", "script_sig", "witness"})]
           u == [t EXCEPT !.inputs = new]
<1>1. new = [i \in DOMAIN t.inputs |-> new[i]]
  OBVIOUS
<1>2. \A i \in DOMAIN t.inputs : GoodInput(new[i])
  BY DropGood DEF GoodTx
<1>3. u = [t EXCEPT !.inputs =
              [i \in DOMAIN @ |-> Drop(@[i], {"sig", "tap_sig", "script_sig", "witness"})]]
  OBVIOUS
<1>4. RemoveSignatures(t) = Invalidated(u)
  BY <1>3 DEF RemoveSignatures
<1> HIDE DEF new
<1>5. GoodTx(u)
  BY <1>1, <1>2, InputsReplaced
<1> HIDE DEF u
<1> QED
  BY <1>4, <1>5, InvalidatedGood

LEMMA FromIoFields ==
    ASSUME NEW ins, NEW outs, NEW locktime
    PROVE  /\ IsRecord(FromIo(ins, outs, locktime)) /\ Emptied(FromIo(ins, outs, locktime))
           /\ FromIo(ins, outs, locktime).inputs = SortInputs(ins)
<1> DEFINE D == {"inputs", "outputs", "locktime", "globals", "ser", "txid"}
           u == FromIo(ins, outs, locktime)
           new == SortInputs(ins)
           newOuts == SortOutputs(outs)
<1>1. DOMAIN NewTx = D /\ NewTx.ser = NoCache /\ NewTx.txid = NoCache
  BY DEF NewTx
<1>2. u = [NewTx EXCEPT !.inputs = new, !.outputs = newOuts, !.locktime = locktime]
  BY DEF FromIo
<1> HIDE DEF u, new, newOuts
<1>3. u = [x \in D |-> IF x = "locktime" THEN locktime ELSE IF x = "outputs" THEN newOuts
                        ELSE IF x = "inputs" THEN new ELSE NewTx[x]]
  BY <1>1, <1>2
<1>4. IsRecord(u)
  BY <1>3 DEF IsRecord
<1>5. u.inputs = new /\ Emptied(u)
  BY <1>1, <1>3 DEF Emptied
<1> QED
  BY <1>4, <1>5 DEF u, new

LEMMA FromIoGood ==
    ASSUME CoinsAssumption, mode = "joint", NEW ins, ins \in Seq(Range(ins)),
           \A i \in DOMAIN ins : GoodInput(ins[i]), NEW outs, NEW locktime
    PROVE  GoodTx(FromIo(ins, outs, locktime)) /\ Emptied(FromIo(ins, outs, locktime))
<1> DEFINE u == FromIo(ins, outs, locktime)
           new == SortInputs(ins)
<1>1. IsRecord(u) /\ Emptied(u) /\ u.inputs = new
  BY FromIoFields
<1>2. new \in Seq(Range(new)) /\ \A i \in DOMAIN new : GoodInput(new[i])
  BY SortedGood
<1> HIDE DEF u, new
<1> QED
  BY <1>1, <1>2 DEF GoodTx, u

-----------------------------------------------------------------------------
(* Claiming *)

LEMMA ThreeFields ==
    ASSUME NEW in, IsInput(in), NEW a, NEW b, NEW c,
           NEW one, one = With(in, "script_sig", a), NEW two, two = With(one, "wscript", b),
           NEW out, out = With(two, "witness", c)
    PROVE  /\ IsInput(two) /\ two.prevout = in.prevout /\ two.desc = in.desc
           /\ DOMAIN two.fields = DOMAIN in.fields \cup {Field("script_sig"), Field("wscript")}
           /\ IsMap(two.fields)
           /\ IsInput(out) /\ out.prevout = in.prevout /\ out.desc = in.desc
           /\ DOMAIN out.fields = DOMAIN two.fields \cup {Field("witness")}
           /\ IsMap(out.fields)
           /\ out.fields[Field("witness")] = c
<1>1. /\ IsInput(one) /\ one.prevout = in.prevout /\ one.desc = in.desc
      /\ DOMAIN one.fields = DOMAIN in.fields \cup {Field("script_sig")}
  BY WithKeys
<1>2. /\ IsInput(two) /\ two.prevout = one.prevout /\ two.desc = one.desc
      /\ DOMAIN two.fields = DOMAIN one.fields \cup {Field("wscript")}
      /\ IsMap(two.fields)
  BY <1>1, WithKeys
<1>3. /\ IsInput(out) /\ out.prevout = two.prevout /\ out.desc = two.desc
      /\ DOMAIN out.fields = DOMAIN two.fields \cup {Field("witness")}
      /\ IsMap(out.fields) /\ out.fields[Field("witness")] = c
  BY <1>2, WithKeys
<1> QED
  BY <1>1, <1>2, <1>3

\* The one input keeps its place, and its witness shows segwit.
LEMMA ClaimGood ==
    ASSUME CoinsAssumption, mode = "claim", NEW c \in LockupCoins, NEW locktime, NEW isReverse
    PROVE  LET t == SignTx(CreateClaimTx(c, locktime), isReverse) IN GoodTx(t) /\ Emptied(t)
<1> DEFINE script == Coin[c].desc.script
           txin == With(With(ClaimInput(c), "script_sig", <<>>), "wscript", script)
           made == FromIo(<<txin>>, <<Out(ReceiveTo, Coin[c].amount - Fee)>>, locktime)
           rbf == SetRbf(made, TRUE)
           t == SignTx(rbf, isReverse)
<1>1. c \in DOMAIN Coin /\ c \in Nat /\ Coin[c].desc.func = "swap"
  BY DEF CoinsAssumption
<1>2. /\ IsInput(txin) /\ txin.prevout = c /\ txin.desc = None
      /\ DOMAIN txin.fields = {Field("script_sig"), Field("wscript")}
      /\ IsMap(txin.fields)
  <2> DEFINE plain == ClaimInput(c)
             one == With(plain, "script_sig", <<>>)
  <2>1. IsInput(plain) /\ plain.prevout = c /\ plain.desc = None /\ DOMAIN plain.fields = {}
    BY DEF ClaimInput, IsInput
  <2> HIDE DEF plain, one, txin, script
  <2>2. one = With(plain, "script_sig", <<>>) /\ txin = With(one, "wscript", script)
    BY DEF one, plain, txin
  <2>3. /\ IsInput(one) /\ one.prevout = plain.prevout /\ one.desc = plain.desc
        /\ DOMAIN one.fields = DOMAIN plain.fields \cup {Field("script_sig")}
    BY <2>1, <2>2, WithKeys
  <2>4. /\ IsInput(txin) /\ txin.prevout = one.prevout /\ txin.desc = one.desc
        /\ DOMAIN txin.fields = DOMAIN one.fields \cup {Field("wscript")}
        /\ IsMap(txin.fields)
    BY <2>2, <2>3, WithKeys
  <2> QED
    BY <2>1, <2>3, <2>4
<1> HIDE DEF txin
<1>3. IsRecord(made) /\ made.inputs = SortInputs(<<txin>>)
  BY FromIoFields
<1> HIDE DEF made
<1>4. made.inputs = <<txin>>
  <2> DEFINE S == {txin}
             ins == <<txin>>
  <2>1. ins \in Seq(S) /\ Len(ins) = 1 /\ \A x \in S : x.prevout \in Nat
    BY <1>1, <1>2
  <2>2. made.inputs = SortInputs(ins)
    BY <1>3
  <2> HIDE DEF S, ins
  <2>3. made.inputs \in Seq(S) /\ Len(made.inputs) = 1
    BY <2>1, <2>2, InputsSorted
  <2> QED
    BY <2>3 DEF S
<1> DEFINE in == [txin EXCEPT !.nseq = 2]
<1>5. IsInput(in) /\ in.prevout = c /\ in.desc = None /\ in.fields = txin.fields
  BY <1>2 DEF IsInput
<1>6. IsRecord(rbf) /\ rbf.inputs = <<in>> /\ Emptied(rbf)
  <2>1. DOMAIN made = {"inputs", "outputs", "locktime", "globals", "ser", "txid"}
    BY <1>3 DEF IsRecord
  <2>2. rbf = [x \in DOMAIN made |-> IF x \in {"ser", "txid"} THEN NoCache
                                     ELSE IF x = "inputs"
                                     THEN [i \in DOMAIN made.inputs |-> [made.inputs[i] EXCEPT !.nseq = 2]]
                                     ELSE made[x]]
    BY <2>1 DEF SetRbf, Invalidated, RbfSequence
  <2>3. /\ rbf.inputs = [i \in DOMAIN made.inputs |-> [made.inputs[i] EXCEPT !.nseq = 2]]
        /\ IsRecord(rbf) /\ rbf.ser = NoCache /\ rbf.txid = NoCache
    <3> HIDE DEF rbf
    <3> QED
      BY <2>1, <2>2 DEF IsRecord
  <2> HIDE DEF rbf
  <2> QED
    BY <1>4, <2>3 DEF Emptied
<1> HIDE DEF rbf, in
<1> DEFINE witness == <<Item("sig", [key |-> IF isReverse THEN script.keys[1] ELSE script.keys[2],
                                     digest |-> Preimage(rbf, 1)]),
                        IF isReverse THEN Item("preimage", script.inner[1]) ELSE Item("num", 0),
                        Item("script", script)>>
           done == With(With(With(in, "script_sig", <<>>), "wscript", script), "witness", witness)
<1>7. IsRecord(t) /\ t.inputs = <<done>> /\ Emptied(t)
  <2>1. rbf.inputs[1] = in /\ rbf.inputs[1].prevout = c
    BY <1>5, <1>6
  <2>2. t = [rbf EXCEPT !.inputs = [rbf.inputs EXCEPT ![1] = done]]
    BY <2>1 DEF SignTx
  <2> HIDE DEF t, done
  <2> QED
    BY <1>6, <2>2 DEF IsRecord, Emptied
<1>8. /\ IsInput(done) /\ done.prevout = c /\ done.desc = None
      /\ DOMAIN done.fields = {Field("script_sig"), Field("wscript"), Field("witness")}
      /\ done.fields[Field("witness")] = witness
      /\ IsMap(done.fields)
  <2> DEFINE two == With(With(in, "script_sig", <<>>), "wscript", script)
  <2> HIDE DEF done, witness, script, two
  <2>1. done = With(two, "witness", witness) /\ two = With(With(in, "script_sig", <<>>), "wscript", script)
    BY DEF done, two
  <2>2. DOMAIN two.fields = DOMAIN in.fields \cup {Field("script_sig"), Field("wscript")}
    BY <1>5, <2>1, ThreeFields
  <2>3. /\ IsInput(done) /\ done.prevout = in.prevout /\ done.desc = in.desc
        /\ DOMAIN done.fields = DOMAIN two.fields \cup {Field("witness")}
        /\ IsMap(done.fields)
        /\ done.fields[Field("witness")] = witness
    BY <1>5, <2>1, ThreeFields
  <2> QED
    BY <1>2, <1>5, <2>2, <2>3
<1>9. witness # <<>>
  OBVIOUS
<1> HIDE DEF done, witness
<1>10. OfCoin(done)
  <2>1. ChainSegwit(c)
    BY <1>1 DEF ChainSegwit
  <2>2. /\ Field("redeem") \notin DOMAIN done.fields /\ Field("wutxo") \notin DOMAIN done.fields
        /\ \A k \in DOMAIN done.fields : k = <<k[1], k[2]>>
    BY <1>8 DEF Field
  <2> QED
    BY <1>1, <1>8, <1>9, <2>1, <2>2 DEF OfCoin, FieldsOf, IsMap
<1>11. GoodInput(done)
  BY <1>1, <1>8, <1>10 DEF GoodInput
<1>12. GoodTx(t)
  BY <1>7, <1>11 DEF GoodTx, Range
<1>13. t = SignTx(CreateClaimTx(c, locktime), isReverse)
  BY DEF CreateClaimTx, rbf, made, txin
<1> QED
  BY <1>7, <1>12, <1>13

-----------------------------------------------------------------------------
(* Holders of keys *)

\* Other fields and a descriptor, of the same coin.
LEMMA OtherFieldsGood ==
    ASSUME mode = "joint", NEW in, GoodInput(in), NEW out, IsInput(out), out.prevout = in.prevout,
           out.desc # None => out.desc = Coin[in.prevout].desc, FieldsOf(in.prevout, out.fields)
    PROVE  GoodInput(out)
  BY DEF GoodInput, OfCoin

\* The scripts of its descriptor are those of the coin.
LEMMA DescribedGood ==
    ASSUME mode = "joint", NEW in, GoodInput(in), NEW desc, desc = Coin[in.prevout].desc
    PROVE  GoodInput(Described(in, desc))
<1> DEFINE c == in.prevout
           scripts == Expand(desc, 0)
           value(k) == IF k = Field("redeem") THEN scripts.redeem ELSE scripts.witness
           filled == [k \in {k \in {Field("redeem"), Field("wscript")} : value(k) # NoScript} |-> value(k)]
           out == Described(in, desc)
<1>1. IsInput(in) /\ OfCoin(in) /\ Shared(c) /\ FieldsOf(c, in.fields)
  BY DEF GoodInput, OfCoin
<1>2. IsInput(out) /\ out.prevout = c /\ out.desc = desc /\ out.fields = Over(in.fields, filled)
  <2>1. out = [in EXCEPT !.desc = desc, !.fields = Over(in.fields, filled)]
    BY <1>1 DEF Described, IsInput
  <2>2. DOMAIN in = {"prevout", "nseq", "desc", "trusted", "fields"}
    BY <1>1 DEF IsInput
  <2> HIDE DEF out, filled
  <2>3. out = [x \in DOMAIN in |-> IF x = "fields" THEN Over(in.fields, filled)
                                  ELSE IF x = "desc" THEN desc ELSE in[x]]
    BY <2>1, <2>2
  <2> QED
    BY <2>2, <2>3 DEF IsInput
<1>3. scripts = ScriptOf(c)
  BY <1>1 DEF ScriptOf, Shared, ScriptFuncs, Multisigs
<1>4. scripts.witness # NoScript => ChainSegwit(c)
  BY DEF Expand, Wrapped, ChainSegwit, IsSegwit
<1> HIDE DEF scripts
<1>5. FieldsOf(c, filled)
  <2>1. /\ filled = [k \in DOMAIN filled |-> filled[k]]
        /\ \A k \in DOMAIN filled : k \in {Field("redeem"), Field("wscript")} /\ filled[k] = value(k) /\ value(k) # NoScript
    OBVIOUS
  <2> HIDE DEF filled
  <2>2. /\ Field("wutxo") \notin DOMAIN filled /\ Field("script_sig") \notin DOMAIN filled
        /\ Field("witness") \notin DOMAIN filled
        /\ \A k \in DOMAIN filled : k = <<k[1], k[2]>>
        /\ Field("wscript") # Field("redeem")
    BY <2>1 DEF Field
  <2> QED
    BY <1>3, <1>4, <2>1, <2>2 DEF FieldsOf
<1> HIDE DEF filled, out
<1>6. FieldsOf(c, out.fields)
  BY <1>1, <1>2, <1>5, OverFields
<1> QED
  BY <1>2, <1>6, OtherFieldsGood DEF out

LEMMA DescribeAllGood ==
    ASSUME mode = "joint", NEW p, NEW t, GoodTx(t), Emptied(t)
    PROVE  GoodTx(DescribeAll(p, t)) /\ Emptied(DescribeAll(p, t))
<1> DEFINE new == [i \in DOMAIN t.inputs |->
                      IF Knows(p, t.inputs[i].prevout)
                      THEN Described(t.inputs[i], Coin[t.inputs[i].prevout].desc) ELSE t.inputs[i]]
           u == [t EXCEPT !.inputs = new]
<1>1. \A i \in DOMAIN t.inputs : GoodInput(new[i])
  BY DescribedGood DEF GoodTx
<1>2. DescribeAll(p, t) = u
  BY DEF DescribeAll
<1>3. u.ser = t.ser /\ u.txid = t.txid
  BY DEF GoodTx, IsRecord
<1>4. new = [i \in DOMAIN t.inputs |-> new[i]]
  OBVIOUS
<1> HIDE DEF new
<1>5. GoodTx(u)
  BY <1>1, <1>4, InputsReplaced
<1> QED
  BY <1>2, <1>3, <1>5 DEF Emptied

\* What a holder knows of its own coin comes from the chain.
LEMMA OwnInputGood ==
    ASSUME CoinsAssumption, mode = "joint", NEW p \in Joiners, NEW c \in JointCoins[p], NEW type
    PROVE  GoodInput(OwnInput(c, type))
<1> DEFINE plain == [prevout |-> c, nseq |-> 1, desc |-> None, trusted |-> FALSE, fields |-> <<>>]
           coin == [script |-> ScriptOf(c).output, amount |-> Coin[c].amount]
           known == IF HasWrap(Coin[c].desc, "sh") THEN With(plain, "wutxo", coin)
                    ELSE With(plain, "utxo", [utxo |-> c])
           in == IF type = SighashAll THEN known ELSE With(known, "sighash", type)
<1>1. c \in DOMAIN Coin /\ Shared(c)
  BY DEF CoinsAssumption, Shared
<1>2. IsInput(plain) /\ plain.prevout = c /\ plain.desc = None /\ DOMAIN plain.fields = {}
  BY DEF IsInput
<1> HIDE DEF plain, coin
<1>3. /\ IsInput(known) /\ known.prevout = c /\ known.desc = None /\ IsMap(known.fields)
      /\ DOMAIN known.fields \in {{Field("wutxo")}, {Field("utxo")}}
      /\ Field("wutxo") \in DOMAIN known.fields => known.fields[Field("wutxo")] = coin
  <2>1. CASE HasWrap(Coin[c].desc, "sh")
    <3>1. known = With(plain, "wutxo", coin)
      BY <2>1
    <3> HIDE DEF known
    <3>2. /\ IsInput(known) /\ known.prevout = plain.prevout /\ known.desc = plain.desc
          /\ IsMap(known.fields) /\ DOMAIN known.fields = DOMAIN plain.fields \cup {Field("wutxo")}
          /\ known.fields[Field("wutxo")] = coin
      BY <1>2, <3>1, WithKeys
    <3> QED
      BY <1>2, <3>2
  <2>2. CASE ~HasWrap(Coin[c].desc, "sh")
    <3> DEFINE whole == [utxo |-> c]
    <3>1. known = With(plain, "utxo", whole)
      BY <2>2
    <3>2. Field("utxo") # Field("wutxo")
      BY DEF Field
    <3> HIDE DEF known, whole
    <3>3. /\ IsInput(known) /\ known.prevout = plain.prevout /\ known.desc = plain.desc
          /\ IsMap(known.fields) /\ DOMAIN known.fields = DOMAIN plain.fields \cup {Field("utxo")}
      BY <1>2, <3>1, WithKeys
    <3> QED
      BY <1>2, <3>2, <3>3
  <2> QED
    BY <2>1, <2>2
<1> HIDE DEF known
<1>4. /\ IsInput(in) /\ in.prevout = c /\ in.desc = None /\ IsMap(in.fields)
      /\ DOMAIN in.fields \subseteq {Field("wutxo"), Field("utxo"), Field("sighash")}
      /\ Field("wutxo") \in DOMAIN in.fields => in.fields[Field("wutxo")] = coin
  <2>1. CASE type = SighashAll
    BY <1>3, <2>1
  <2>2. CASE type # SighashAll
    <3>1. in = With(known, "sighash", type)
      BY <2>2
    <3>2. Field("sighash") # Field("wutxo")
      BY DEF Field
    <3> HIDE DEF in
    <3>3. /\ IsInput(in) /\ in.prevout = known.prevout /\ in.desc = known.desc /\ IsMap(in.fields)
          /\ DOMAIN in.fields = DOMAIN known.fields \cup {Field("sighash")}
      BY <1>3, <3>1, WithKeys
    <3>4. \A k \in DOMAIN known.fields : k # Field("sighash") => in.fields[k] = known.fields[k]
      BY <1>3, <3>1, WithKeys
    <3> QED
      BY <1>3, <3>2, <3>3, <3>4
  <2> QED
    BY <2>1, <2>2
<1>5. OwnInput(c, type) = Described(in, Coin[c].desc)
  BY DEF OwnInput, in, known, coin, plain
<1> HIDE DEF in
<1>6. FieldsOf(c, in.fields)
  <2>1. \A k \in DOMAIN in.fields : k = <<k[1], k[2]>>
    BY <1>4 DEF Field
  <2>2. /\ Field("redeem") \notin DOMAIN in.fields /\ Field("wscript") \notin DOMAIN in.fields
        /\ Field("script_sig") \notin DOMAIN in.fields /\ Field("witness") \notin DOMAIN in.fields
    BY <1>4 DEF Field
  <2>3. coin.script = ScriptOf(c).output
    BY DEF coin
  <2> QED
    BY <1>4, <2>1, <2>2, <2>3 DEF FieldsOf, IsMap
<1>7. GoodInput(in)
  BY <1>1, <1>4, <1>6 DEF GoodInput, OfCoin
<1> QED
  BY <1>4, <1>5, <1>7, DescribedGood

LEMMA FieldsReplaced ==
    ASSUME mode = "joint", NEW in, GoodInput(in), NEW map, FieldsOf(in.prevout, map)
    PROVE  GoodInput([in EXCEPT !.fields = map])
<1> DEFINE out == [in EXCEPT !.fields = map]
<1>1. IsInput(out) /\ out.prevout = in.prevout /\ out.desc = in.desc /\ out.fields = map
  BY DEF GoodInput, IsInput
<1>2. out.desc # None => out.desc = Coin[in.prevout].desc
  BY <1>1 DEF GoodInput, OfCoin
<1> HIDE DEF out
<1> QED
  BY <1>1, <1>2, OtherFieldsGood DEF out

\* Signing takes scriptSig and witness away and adds signatures.
LEMMA SignedInputGood ==
    ASSUME mode = "joint", NEW t, GoodTx(t), NEW i \in DOMAIN t.inputs, NEW keys
    PROVE  GoodInput(SignedInput(t, i, keys))
<1> DEFINE bare == Drop(t.inputs[i], {"script_sig", "witness"})
           sigs == [k \in {<<"sig", key>> : key \in keys} |-> [key |-> k[2], digest |-> Preimage(t, i)]]
           signed == [bare EXCEPT !.fields = Over(sigs, bare.fields)]
<1>1. GoodInput(t.inputs[i])
  BY DEF GoodTx
<1>2. GoodInput(bare)
  BY <1>1, DropGood
<1>3. FieldsOf(bare.prevout, sigs)
  <2>1. \A k \in DOMAIN sigs : \E key : k = <<"sig", key>>
    OBVIOUS
  <2>2. sigs = [k \in DOMAIN sigs |-> sigs[k]]
    OBVIOUS
  <2> HIDE DEF sigs, bare
  <2>3. \A k \in DOMAIN sigs : k = <<k[1], k[2]>> /\ k[1] = "sig"
    BY <2>1
  <2>4. \A type : Field(type) \in DOMAIN sigs => type = "sig"
    BY <2>3 DEF Field
  <2> QED
    BY <2>2, <2>3, <2>4 DEF FieldsOf
<1>4. SignedInput(t, i, keys) = IF keys = {} THEN t.inputs[i] ELSE signed
  BY DEF SignedInput
<1> HIDE DEF bare, sigs
<1>5. FieldsOf(bare.prevout, Over(sigs, bare.fields))
  BY <1>2, <1>3, OverFields DEF GoodInput, OfCoin
<1>6. GoodInput(signed)
  BY <1>2, <1>5, FieldsReplaced
<1> HIDE DEF signed
<1> QED
  BY <1>1, <1>4, <1>6

LEMMA SignedGood ==
    ASSUME mode = "joint", NEW t, GoodTx(t), NEW chosen
    PROVE  GoodTx(Signed(t, chosen)) /\ Emptied(Signed(t, chosen))
<1> DEFINE new == [i \in DOMAIN t.inputs |-> SignedInput(t, i, chosen[i])]
           u == [t EXCEPT !.inputs = new]
<1>1. \A i \in DOMAIN t.inputs : GoodInput(new[i])
  BY SignedInputGood
<1>2. new = [i \in DOMAIN t.inputs |-> new[i]]
  OBVIOUS
<1>3. Signed(t, chosen) = Invalidated(u)
  BY DEF Signed
<1> HIDE DEF new
<1>4. GoodTx(u)
  BY <1>1, <1>2, InputsReplaced
<1> HIDE DEF u
<1> QED
  BY <1>3, <1>4, InvalidatedGood

\* Both say of an input what its coin is, so what they say together does.
LEMMA CombineInputGood ==
    ASSUME mode = "joint", NEW in, GoodInput(in), NEW other, GoodInput(other), other.prevout = in.prevout
    PROVE  GoodInput(CombineInput(in, other))
<1> DEFINE theirs == Drop(other, {"slip19"})
           both == [in EXCEPT !.fields = Over(theirs.fields, in.fields)]
<1>1. GoodInput(theirs)
  BY DropGood
<1>2. theirs.prevout = in.prevout
  BY DropFields DEF GoodInput
<1>3. CombineInput(in, other) = FinalizeInput(both)
  BY DEF CombineInput
<1> HIDE DEF theirs
<1>4. FieldsOf(in.prevout, theirs.fields) /\ FieldsOf(in.prevout, in.fields)
  BY <1>1, <1>2 DEF GoodInput, OfCoin
<1>5. GoodInput(both)
  BY <1>4, OverFields, FieldsReplaced
<1> HIDE DEF both
<1> QED
  BY <1>3, <1>5, InputFinalized

\* The same unsigned transaction has the same prevouts in the same places.
LEMMA CombineGood ==
    ASSUME mode = "joint", NEW t, GoodTx(t), NEW other, GoodTx(other), CanCombine(t, other)
    PROVE  GoodTx(Combine(t, other)) /\ Emptied(Combine(t, other))
<1> DEFINE new == [i \in DOMAIN t.inputs |-> CombineInput(t.inputs[i], other.inputs[i])]
           outs == [i \in DOMAIN t.outputs |-> CombineOutput(t.outputs[i], other.outputs[i])]
           globals == t.globals \cup other.globals
           u == [t EXCEPT !.inputs = new, !.outputs = outs, !.globals = globals]
           v == [t EXCEPT !.inputs = new]
<1>1. /\ DOMAIN t.inputs = DOMAIN other.inputs
      /\ \A i \in DOMAIN t.inputs : t.inputs[i].prevout = other.inputs[i].prevout
  <2> DEFINE mine == [i \in DOMAIN t.inputs |-> [prevout |-> t.inputs[i].prevout, nseq |-> t.inputs[i].nseq]]
             their == [i \in DOMAIN other.inputs |->
                          [prevout |-> other.inputs[i].prevout, nseq |-> other.inputs[i].nseq]]
  <2>1. mine = their
    BY DEF CanCombine, Unsigned
  <2>2. DOMAIN mine = DOMAIN t.inputs /\ DOMAIN their = DOMAIN other.inputs
    OBVIOUS
  <2>3. /\ \A i \in DOMAIN t.inputs : mine[i].prevout = t.inputs[i].prevout
        /\ \A i \in DOMAIN other.inputs : their[i].prevout = other.inputs[i].prevout
    OBVIOUS
  <2> HIDE DEF mine, their
  <2> QED
    BY <2>1, <2>2, <2>3
<1>2. \A i \in DOMAIN t.inputs : GoodInput(t.inputs[i]) /\ GoodInput(other.inputs[i])
  BY <1>1 DEF GoodTx
<1>3. \A i \in DOMAIN t.inputs : GoodInput(CombineInput(t.inputs[i], other.inputs[i]))
  BY <1>1, <1>2, CombineInputGood
<1>4. \A i \in DOMAIN t.inputs : GoodInput(new[i])
  BY <1>3
<1>5. new = [i \in DOMAIN t.inputs |-> new[i]]
  OBVIOUS
<1>6. Combine(t, other) = Invalidated(u)
  BY DEF Combine
<1> HIDE DEF new, outs, globals
<1>7. GoodTx(v)
  BY <1>4, <1>5, InputsReplaced
<1>8. IsRecord(u) /\ u.inputs = v.inputs
  <2>1. DOMAIN t = {"inputs", "outputs", "locktime", "globals", "ser", "txid"}
    BY DEF GoodTx, IsRecord
  <2>2. u = [x \in DOMAIN t |-> IF x = "globals" THEN globals ELSE IF x = "outputs" THEN outs
                                ELSE IF x = "inputs" THEN new ELSE t[x]]
    BY <2>1
  <2>3. v.inputs = new
    BY <2>1
  <2> HIDE DEF u, v
  <2> QED
    BY <2>1, <2>2, <2>3 DEF IsRecord
<1>9. GoodTx(u)
  BY <1>7, <1>8 DEF GoodTx
<1> HIDE DEF u
<1> QED
  BY <1>6, <1>9, InvalidatedGood

LEMMA JoinGood ==
    ASSUME CoinsAssumption, mode = "joint", NEW t, GoodTx(t), NEW other, GoodTx(other), NEW merge
    PROVE  GoodTx(Join(t, other, merge)) /\ Emptied(Join(t, other, merge))
<1> DEFINE v == [t EXCEPT !.globals = t.globals \cup other.globals]
           more == AddInputs(v, other.inputs)
           paid == AddOutputs(more, other.outputs, merge)
<1>1. GoodTx(v)
  <2> DEFINE both == t.globals \cup other.globals
  <2>1. IsRecord(t)
    BY DEF GoodTx
  <2>2. v = [t EXCEPT !.globals = both]
    BY DEF both
  <2> HIDE DEF both, v
  <2>3. IsRecord(v) /\ v.inputs = t.inputs
    BY <2>1, <2>2 DEF IsRecord
  <2> QED
    BY <2>3 DEF GoodTx
<1>2. Join(t, other, merge) = RemoveSignatures(paid)
  BY DEF Join
<1> HIDE DEF v
<1>3. GoodTx(more)
  BY <1>1, AddInputsGood DEF GoodTx
<1> HIDE DEF more
<1>4. GoodTx(paid)
  BY <1>3, AddOutputsGood
<1> HIDE DEF paid
<1> QED
  BY <1>2, <1>4, RemoveSignaturesGood

-----------------------------------------------------------------------------
(* What is left out of a text *)

\* Two inputs that agree on what completeness and the solution are made of.
Alike(in, out) ==
    /\ out.prevout = in.prevout /\ out.desc = in.desc /\ out.trusted = in.trusted
    /\ \A type \in {"utxo", "wutxo", "redeem", "wscript", "script_sig", "witness"} :
          /\ Has(out, type) <=> Has(in, type)
          /\ Has(in, type) => Get(out, type) = Get(in, type)
    /\ SigsOf(out) = SigsOf(in)

\* The solution is made of nothing else.
LEMMA AlikeSolved ==
    ASSUME NEW in, NEW out, Alike(in, out)
    PROVE  /\ IsCompleteInput(out) <=> IsCompleteInput(in)
           /\ IsSegwitInput(out) <=> IsSegwitInput(in)
           /\ HasInputScript(out) <=> HasInputScript(in)
           /\ InputScript(out) = InputScript(in) /\ WitnessStack(out) = WitnessStack(in)
<1>1. /\ Has(out, "utxo") <=> Has(in, "utxo")
      /\ Has(out, "wutxo") <=> Has(in, "wutxo")
      /\ Has(out, "redeem") <=> Has(in, "redeem")
      /\ Has(out, "wscript") <=> Has(in, "wscript")
      /\ Has(out, "script_sig") <=> Has(in, "script_sig")
      /\ Has(out, "witness") <=> Has(in, "witness")
      /\ out.desc = in.desc /\ SigsOf(out) = SigsOf(in)
  BY DEF Alike
<1>2. /\ Has(in, "wutxo") => Get(out, "wutxo") = Get(in, "wutxo")
      /\ Has(in, "redeem") => Get(out, "redeem") = Get(in, "redeem")
      /\ Has(in, "script_sig") => Get(out, "script_sig") = Get(in, "script_sig")
      /\ Has(in, "witness") => Get(out, "witness") = Get(in, "witness")
  BY DEF Alike
<1>3. /\ AddressKnown(out) <=> AddressKnown(in)
      /\ AddressKnown(in) => Address(out) = Address(in)
  BY <1>1, <1>2 DEF AddressKnown, Address, Alike
<1>4. IsNativeSegwit(out) <=> IsNativeSegwit(in)
  BY <1>3 DEF IsNativeSegwit
<1>5. IsP2shSegwit(out) <=> IsP2shSegwit(in)
  BY <1>1, <1>2, <1>3 DEF IsP2shSegwit
<1>6. IsSegwitInput(out) <=> IsSegwitInput(in)
  BY <1>1, <1>2, <1>3, <1>4, <1>5 DEF IsSegwitInput
<1>7. Solved(out) <=> Solved(in)
  BY <1>1 DEF Solved
<1>8. IsCompleteInput(out) <=> IsCompleteInput(in)
  BY <1>1, <1>6, <1>7 DEF IsCompleteInput
<1>9. HasInputScript(out) <=> HasInputScript(in)
  BY <1>1, <1>4, <1>5 DEF HasInputScript
<1>10. InputScript(out) = InputScript(in)
  <2>1. CASE Has(in, "script_sig")
    BY <1>1, <1>2, <2>1 DEF InputScript
  <2>2. CASE ~Has(in, "script_sig") /\ IsP2shSegwit(in)
    <3>1. Get(out, "redeem") = Get(in, "redeem")
      BY <1>2, <2>2 DEF IsP2shSegwit
    <3> QED
      BY <1>1, <1>5, <2>2, <3>1 DEF InputScript
  <2>3. CASE ~Has(in, "script_sig") /\ ~IsP2shSegwit(in)
    BY <1>1, <1>4, <1>5, <2>3 DEF InputScript
  <2> QED
    BY <2>1, <2>2, <2>3
<1>11. WitnessStack(out) = WitnessStack(in)
  BY <1>1, <1>2, <1>6 DEF WitnessStack
<1> QED
  BY <1>6, <1>8, <1>9, <1>10, <1>11

\* Without the paths of the keys an input stays what it is.
LEMMA PathsDropped ==
    ASSUME NEW in, GoodInput(in), mode = "joint"
    PROVE  Alike(in, Drop(in, {"bip32"})) /\ GoodInput(Drop(in, {"bip32"}))
<1> DEFINE out == Drop(in, {"bip32"})
<1>1. GoodInput(out)
  BY DropGood
<1>2. IsInput(in) /\ \A k \in DOMAIN in.fields : k = <<k[1], k[2]>>
  BY DEF GoodInput, OfCoin, FieldsOf
<1>3. /\ out.prevout = in.prevout /\ out.desc = in.desc /\ out.trusted = in.trusted
      /\ out.fields = [k \in {k \in DOMAIN in.fields : k[1] \notin {"bip32"}} |-> in.fields[k]]
  BY <1>2, DropFields
<1> HIDE DEF out
<1>4. /\ DOMAIN out.fields = {k \in DOMAIN in.fields : k[1] # "bip32"}
      /\ \A k \in DOMAIN out.fields : out.fields[k] = in.fields[k]
  BY <1>3
<1>5. \A type \in {"utxo", "wutxo", "redeem", "wscript", "script_sig", "witness"} :
         /\ Has(out, type) <=> Has(in, type)
         /\ Has(in, type) => Get(out, type) = Get(in, type)
  BY <1>4 DEF Has, Get, Field
<1>6. SigsOf(out) = SigsOf(in)
  <2>1. {f \in DOMAIN out.fields : f[1] = "sig"} = {f \in DOMAIN in.fields : f[1] = "sig"}
    BY <1>4
  <2> DEFINE keys == {f[2] : f \in {f \in DOMAIN in.fields : f[1] = "sig"}}
  <2>2. \A k \in keys : <<"sig", k>> \in DOMAIN out.fields
    <3> TAKE k \in keys
    <3>1. PICK f \in DOMAIN in.fields : f[1] = "sig" /\ k = f[2]
      OBVIOUS
    <3>2. f = <<"sig", k>> /\ f \in DOMAIN out.fields
      BY <1>2, <1>4, <3>1
    <3> QED
      BY <3>2
  <2>3. \A k \in keys : out.fields[<<"sig", k>>] = in.fields[<<"sig", k>>]
    BY <1>4, <2>2
  <2>4. SigsOf(in) = [k \in keys |-> in.fields[<<"sig", k>>]]
    BY DEF SigsOf
  <2>5. SigsOf(out) = [k \in keys |-> out.fields[<<"sig", k>>]]
    BY <2>1 DEF SigsOf
  <2> HIDE DEF keys
  <2> QED
    BY <2>3, <2>4, <2>5
<1> QED
  BY <1>1, <1>3, <1>5, <1>6 DEF Alike, out

\* prepare_for_export_for_coinjoin keeps the caches, and they stay right.
LEMMA ForCoinjoinGood ==
    ASSUME mode = "joint", NEW t, GoodTx(t), FreshCaches(t)
    PROVE  GoodTx(ForCoinjoin(t)) /\ FreshCaches(ForCoinjoin(t))
<1> DEFINE new == [i \in DOMAIN t.inputs |-> Drop(t.inputs[i], {"bip32"})]
           outs == [i \in DOMAIN t.outputs |->
                       [to |-> t.outputs[i].to, value |-> t.outputs[i].value,
                        fields |-> Drop(t.outputs[i], {"redeem", "wscript", "bip32", "unknown"}).fields]]
           u == ForCoinjoin(t)
           v == [t EXCEPT !.inputs = new]
<1>1. \A i \in DOMAIN t.inputs : GoodInput(new[i]) /\ Alike(t.inputs[i], new[i])
  BY PathsDropped DEF GoodTx
<1>2. new = [i \in DOMAIN t.inputs |-> new[i]] /\ DOMAIN new = DOMAIN t.inputs
  OBVIOUS
<1>3. /\ DOMAIN outs = DOMAIN t.outputs
      /\ \A i \in DOMAIN outs : outs[i].to = t.outputs[i].to /\ outs[i].value = t.outputs[i].value
  OBVIOUS
<1>4. u = [t EXCEPT !.globals = {}, !.inputs = new, !.outputs = outs]
  BY DEF ForCoinjoin
<1>5. \A i \in DOMAIN t.inputs : new[i].nseq = t.inputs[i].nseq
  <2> TAKE i \in DOMAIN t.inputs
  <2>1. IsInput(t.inputs[i])
    BY DEF GoodTx, GoodInput
  <2>2. new[i] = Drop(t.inputs[i], {"bip32"})
    OBVIOUS
  <2> HIDE DEF new
  <2> QED
    BY <2>1, <2>2, DropRest
<1> HIDE DEF new, outs, u
<1>6. GoodTx(v)
  BY <1>1, <1>2, InputsReplaced
<1>7. /\ IsRecord(u) /\ u.inputs = new /\ u.outputs = outs /\ v.inputs = new
      /\ u.locktime = t.locktime /\ u.ser = t.ser /\ u.txid = t.txid
  <2>1. DOMAIN t = {"inputs", "outputs", "locktime", "globals", "ser", "txid"}
    BY DEF GoodTx, IsRecord
  <2>2. u = [x \in DOMAIN t |-> IF x = "globals" THEN {} ELSE IF x = "outputs" THEN outs
                                ELSE IF x = "inputs" THEN new ELSE t[x]]
    BY <1>4, <2>1
  <2>3. v.inputs = new
    BY <2>1
  <2> HIDE DEF v
  <2> QED
    BY <2>1, <2>2, <2>3 DEF IsRecord
<1>8. GoodTx(u)
  BY <1>6, <1>7 DEF GoodTx
<1>9. \A i \in DOMAIN t.inputs :
         /\ u.inputs[i].prevout = t.inputs[i].prevout /\ u.inputs[i].nseq = t.inputs[i].nseq
         /\ IsCompleteInput(u.inputs[i]) <=> IsCompleteInput(t.inputs[i])
         /\ IsSegwitInput(u.inputs[i]) <=> IsSegwitInput(t.inputs[i])
         /\ HasInputScript(u.inputs[i]) <=> HasInputScript(t.inputs[i])
         /\ InputScript(u.inputs[i]) = InputScript(t.inputs[i])
         /\ WitnessStack(u.inputs[i]) = WitnessStack(t.inputs[i])
  <2> TAKE i \in DOMAIN t.inputs
  <2>1. u.inputs[i] = new[i] /\ Alike(t.inputs[i], new[i])
    BY <1>1, <1>7
  <2>2. new[i].prevout = t.inputs[i].prevout
    BY <2>1 DEF Alike
  <2> QED
    BY <1>5, <2>1, <2>2, AlikeSolved
<1>10. IsComplete(u) <=> IsComplete(t)
  BY <1>2, <1>7, <1>9 DEF IsComplete
<1>11. HasTxid(u) <=> HasTxid(t)
  BY <1>2, <1>7, <1>9, <1>10 DEF HasTxid
<1>12. Unsigned(u) = Unsigned(t)
  BY <1>2, <1>3, <1>7, <1>9 DEF Unsigned
<1>13. ScriptSigs(u) = ScriptSigs(t) /\ Witnesses(u) = Witnesses(t)
  BY <1>2, <1>7, <1>9 DEF ScriptSigs, Witnesses
<1>14. NetworkId(u) = NetworkId(t) /\ NetworkTx(u) = NetworkTx(t)
  BY <1>12, <1>13 DEF NetworkId, NetworkTx
<1>15. FreshCaches(u)
  BY <1>7, <1>10, <1>11, <1>14 DEF FreshCaches
<1> QED
  BY <1>8, <1>15 DEF u

\* The witness UTXO says of the coin what the previous transaction says.
LEMMA WitnessUtxoGood ==
    ASSUME mode = "joint", NEW in, GoodInput(in)
    PROVE  GoodInput(WitnessUtxo(in))
<1> DEFINE bare == Drop(in, {"utxo"})
           coin == [script |-> ScriptOf(in.prevout).output, amount |-> Coin[in.prevout].amount]
           out == With(bare, "wutxo", coin)
<1>1. GoodInput(bare)
  BY DropGood
<1>2. bare.prevout = in.prevout
  BY DropFields DEF GoodInput
<1>3. WitnessUtxo(in) = IF Has(in, "utxo") THEN out ELSE in
  BY DEF WitnessUtxo
<1>4. coin.script = ScriptOf(in.prevout).output
  OBVIOUS
<1> HIDE DEF bare, coin
<1>5. IsInput(bare) /\ OfCoin(bare)
  BY <1>1 DEF GoodInput
<1>6. /\ IsInput(out) /\ out.prevout = bare.prevout /\ out.desc = bare.desc
      /\ DOMAIN out.fields = DOMAIN bare.fields \cup {Field("wutxo")}
      /\ IsMap(out.fields) /\ out.fields[Field("wutxo")] = coin
      /\ \A k \in DOMAIN bare.fields : k # Field("wutxo") => out.fields[k] = bare.fields[k]
  BY <1>5, WithKeys
<1> HIDE DEF out
<1>7. FieldsOf(in.prevout, out.fields)
  <2>1. FieldsOf(in.prevout, bare.fields)
    BY <1>2, <1>5 DEF OfCoin
  <2>2. /\ \A k \in DOMAIN out.fields : k = <<k[1], k[2]>>
    BY <1>6, <2>1 DEF FieldsOf, Field
  <2>3. \A type \in {"redeem", "wscript", "script_sig", "witness"} :
           /\ Field(type) # Field("wutxo")
           /\ Field(type) \in DOMAIN out.fields <=> Field(type) \in DOMAIN bare.fields
           /\ Field(type) \in DOMAIN bare.fields => out.fields[Field(type)] = bare.fields[Field(type)]
    <3>1. \A type \in {"redeem", "wscript", "script_sig", "witness"} : Field(type) # Field("wutxo")
      BY DEF Field
    <3> QED
      BY <1>6, <3>1
  <2> QED
    BY <1>4, <1>6, <2>1, <2>2, <2>3 DEF FieldsOf, IsMap
<1>8. GoodInput(out)
  BY <1>1, <1>2, <1>6, <1>7 DEF GoodInput, OfCoin
<1> QED
  BY <1>3, <1>8

LEMMA WithWitnessUtxosGood ==
    ASSUME mode = "joint", NEW t, GoodTx(t) PROVE GoodTx(WithWitnessUtxos(t))
<1> DEFINE new == [i \in DOMAIN t.inputs |-> WitnessUtxo(t.inputs[i])]
<1>1. \A i \in DOMAIN t.inputs : GoodInput(new[i])
  BY WitnessUtxoGood DEF GoodTx
<1>2. new = [i \in DOMAIN t.inputs |-> new[i]]
  OBVIOUS
<1>3. WithWitnessUtxos(t) = [t EXCEPT !.inputs = new]
  BY DEF WithWitnessUtxos
<1> HIDE DEF new
<1> QED
  BY <1>1, <1>2, <1>3, InputsReplaced

-----------------------------------------------------------------------------
(* Texts *)

\* A section says what the map says, to one that reads it.
LEMMA SectionReadBack ==
    ASSUME NEW map, map = [k \in DOMAIN map |-> map[k]], \A k \in DOMAIN map : k = <<k[1], k[2]>>
    PROVE  SectionMap(Section(map)) = map
<1> DEFINE section == Section(map)
           keys == {<<e[1], e[2]>> : e \in section}
           Pick(k) == CHOOSE e \in section : <<e[1], e[2]>> = k
<1>1. \A k \in DOMAIN map : Entry(k, map[k]) = <<k[1], k[2], map[k]>> /\ Entry(k, map[k]) \in section
  BY DEF Entry, Section
<1>2. \A e \in section : \E k \in DOMAIN map : e = <<k[1], k[2], map[k]>> /\ k = <<e[1], e[2]>> /\ e[3] = map[k]
  BY DEF Entry, Section
<1> HIDE DEF section
<1>3. keys = DOMAIN map
  <2>1. \A k \in DOMAIN map : k \in keys
    <3> TAKE k \in DOMAIN map
    <3> DEFINE e == Entry(k, map[k])
    <3>1. e \in section /\ <<e[1], e[2]>> = <<k[1], k[2]>>
      BY <1>1
    <3>2. k = <<e[1], e[2]>>
      BY <3>1
    <3> HIDE DEF e
    <3> QED
      BY <3>1, <3>2
  <2>2. \A k \in keys : k \in DOMAIN map
    BY <1>2
  <2> QED
    BY <2>1, <2>2
<1>4. \A k \in DOMAIN map : Pick(k)[3] = map[k]
  <2> TAKE k \in DOMAIN map
  <2>1. \E e \in section : <<e[1], e[2]>> = k
    BY <1>3
  <2>2. Pick(k) \in section /\ <<Pick(k)[1], Pick(k)[2]>> = k
    BY <2>1
  <2> HIDE DEF Pick
  <2> QED
    BY <1>2, <2>2
<1>5. SectionMap(section) = [k \in keys |-> Pick(k)[3]]
  BY DEF SectionMap
<1> HIDE DEF keys, Pick
<1>6. SectionMap(section) = map
  BY <1>3, <1>4, <1>5
<1> QED
  BY <1>6 DEF section

\* The keys of what is read are those of the section.
LEMMA SectionKeys ==
    ASSUME NEW section, NEW k \in DOMAIN SectionMap(section)
    PROVE  \E e \in section : k = <<e[1], e[2]>>
  BY DEF SectionMap

\* Nothing is read that was not written.
LEMMA SectionBare ==
    ASSUME NEW map, \A k \in DOMAIN map : k[1] \notin {"script_sig", "witness"},
           NEW k \in DOMAIN SectionMap(Section(map))
    PROVE  k[1] \notin {"script_sig", "witness"}
<1>1. PICK e \in Section(map) : k = <<e[1], e[2]>>
  BY SectionKeys
<1>2. PICK j \in DOMAIN map : e = <<j[1], j[2], map[j]>>
  BY DEF Section, Entry
<1>3. k[1] = j[1]
  BY <1>1, <1>2
<1> QED
  BY <1>3

\* What is read of the text of an input is what it said, without its descriptor.
LEMMA InputReadBack ==
    ASSUME mode \in {"fund", "claim", "joint"}, NEW in, GoodInput(in),
           NEW place, place.prevout = in.prevout
    PROVE  GoodInput(ParsedInput(place, Section(in.fields)))
<1> DEFINE map == SectionMap(Section(in.fields))
           out == ParsedInput(place, Section(in.fields))
<1>1. IsInput(out) /\ out.prevout = in.prevout /\ out.desc = None /\ out.fields = map
  BY DEF ParsedInput, IsInput
<1> HIDE DEF out
<1>2. CASE mode = "fund"
  <2>1. \A k \in DOMAIN in.fields : k[1] \notin {"script_sig", "witness"}
    BY <1>2 DEF GoodInput, Bare
  <2>2. \A k \in DOMAIN map : k[1] \notin {"script_sig", "witness"}
    BY <2>1, SectionBare
  <2> HIDE DEF map
  <2> QED
    BY <1>1, <1>2, <2>2 DEF GoodInput, Bare, out
<1>3. CASE mode # "fund"
  <2>1. OfCoin(in)
    BY <1>3 DEF GoodInput
  <2>2. map = in.fields
    BY <2>1, SectionReadBack DEF OfCoin, FieldsOf
  <2> HIDE DEF map
  <2>3. OfCoin(out)
    BY <1>1, <2>1, <2>2 DEF OfCoin
  <2> QED
    BY <1>1, <1>3, <2>3 DEF GoodInput, out
<1> QED
  BY <1>2, <1>3

LEMMA ToTextGood ==
    ASSUME mode \in {"fund", "claim", "joint"}, NEW t, GoodTx(t) PROVE GoodText(ToText(t))
<1> DEFINE text == ToText(t)
           ins == [i \in DOMAIN t.inputs |-> Section(t.inputs[i].fields)]
<1>1. /\ text = [unsigned |-> text.unsigned, globals |-> text.globals, ins |-> text.ins, outs |-> text.outs]
      /\ text.ins = ins /\ text.unsigned = Unsigned(t)
  BY DEF ToText
<1>2. \A i \in DOMAIN t.inputs : text.unsigned.ins[i].prevout = t.inputs[i].prevout
  BY <1>1 DEF Unsigned
<1>3. ins = [i \in DOMAIN t.inputs |-> ins[i]] /\ DOMAIN ins = DOMAIN t.inputs
  OBVIOUS
<1>4. \A i \in DOMAIN t.inputs : ins[i] = Section(t.inputs[i].fields)
  OBVIOUS
<1> HIDE DEF text, ins
<1>5. mode # "fund" => ins \in Seq(Range(ins))
  BY <1>3, IsSequence DEF GoodTx
<1>6. \A i \in DOMAIN t.inputs : GoodInput(ParsedInput(text.unsigned.ins[i], Section(t.inputs[i].fields)))
  BY <1>2, InputReadBack DEF GoodTx
<1>7. \A i \in DOMAIN text.ins : GoodInput(ParsedInput(text.unsigned.ins[i], text.ins[i]))
  BY <1>1, <1>3, <1>4, <1>6
<1> QED
  BY <1>1, <1>5, <1>7 DEF GoodText, text

LEMMA FromTextGood ==
    ASSUME NEW text, GoodText(text) PROVE GoodTx(FromText(text)) /\ Emptied(FromText(text))
<1> DEFINE ins == [i \in DOMAIN text.ins |-> ParsedInput(text.unsigned.ins[i], text.ins[i])]
           outs == [i \in DOMAIN text.outs |->
                       [to |-> text.unsigned.outs[i].to, value |-> text.unsigned.outs[i].value,
                        fields |-> SectionMap(text.outs[i])]]
           u == FromText(text)
           D == {"inputs", "outputs", "locktime", "globals", "ser", "txid"}
<1>1. u = [NewTx EXCEPT !.inputs = ins, !.outputs = outs, !.locktime = text.unsigned.locktime,
                        !.globals = text.globals]
  BY DEF FromText
<1>2. DOMAIN NewTx = D /\ NewTx.ser = NoCache /\ NewTx.txid = NoCache
  BY DEF NewTx
<1>3. ins = [i \in DOMAIN text.ins |-> ins[i]] /\ DOMAIN ins = DOMAIN text.ins
  OBVIOUS
<1>4. \A i \in DOMAIN text.ins : GoodInput(ins[i])
  BY DEF GoodText
<1> HIDE DEF ins, outs, u
<1>5. u = [x \in D |-> IF x = "globals" THEN text.globals
                       ELSE IF x = "locktime" THEN text.unsigned.locktime
                       ELSE IF x = "outputs" THEN outs ELSE IF x = "inputs" THEN ins ELSE NewTx[x]]
  BY <1>1, <1>2
<1>6. IsRecord(u)
  BY <1>5 DEF IsRecord
<1>7. u.inputs = ins /\ Emptied(u)
  BY <1>2, <1>5 DEF Emptied
<1>8. mode # "fund" => ins \in Seq(Range(ins))
  BY <1>3, IsSequence DEF GoodText
<1>9. GoodTx(u)
  BY <1>3, <1>4, <1>6, <1>7, <1>8 DEF GoodTx
<1> QED
  BY <1>7, <1>9 DEF u

-----------------------------------------------------------------------------
(* Every step keeps the invariant *)

\* mode never changes.
LEMMA InvKept ==
    ASSUME mode \in {"fund", "claim", "joint"}, mode' = mode,
           tx' = [p \in Parties |-> tx'[p]],
           \A p \in Parties : GoodTx(tx'[p]) /\ FreshCaches(tx'[p]),
           \A text \in texts' : GoodText(text)
    PROVE  CachesInv'
<1>1. \A p \in Parties : GoodTx(tx[p])'
  BY DEF GoodTx, GoodInput
<1>2. \A p \in Parties : FreshCaches(tx[p])'
  BY DEF FreshCaches
<1>3. \A text \in texts' : GoodText(text)'
  BY DEF GoodText, GoodInput
<1> QED
  BY <1>1, <1>2, <1>3 DEF CachesInv

\* One transaction changes.
LEMMA OneChanges ==
    ASSUME CachesInv, NEW p \in Parties, NEW t, GoodTx(t), FreshCaches(t), Start(p, t),
           mode' = mode, \A text \in texts' : GoodText(text)
    PROVE  CachesInv'
<1>1. tx' = [tx EXCEPT ![p] = t] /\ tx = [q \in Parties |-> tx[q]]
  BY DEF Start, CachesInv
<1>2. /\ tx' = [q \in Parties |-> tx'[q]]
      /\ \A q \in Parties : tx'[q] = IF q = p THEN t ELSE tx[q]
  BY <1>1
<1>3. \A q \in Parties : GoodTx(tx'[q]) /\ FreshCaches(tx'[q])
  BY <1>2 DEF CachesInv
<1>4. mode \in {"fund", "claim", "joint"}
  BY DEF CachesInv
<1> QED
  BY <1>2, <1>3, <1>4, InvKept

\* None does.
LEMMA NoneChanges ==
    ASSUME CachesInv, UNCHANGED <<mode, tx>>, \A text \in texts' : GoodText(text)
    PROVE  CachesInv'
<1>1. mode \in {"fund", "claim", "joint"} /\ mode' = mode /\ tx' = [p \in Parties |-> tx'[p]]
  BY DEF CachesInv
<1>2. \A p \in Parties : GoodTx(tx'[p]) /\ FreshCaches(tx'[p])
  BY DEF CachesInv
<1> QED
  BY <1>1, <1>2, InvKept

LEMMA InitGood == ASSUME Init PROVE CachesInv
<1>1. /\ mode \in {"fund", "claim", "joint"} /\ texts = {}
      /\ tx = [p \in Parties |-> NoTx]
  BY DEF Init
<1>2. GoodTx(NoTx) /\ Emptied(NoTx)
  <2>1. NoTx = [inputs |-> <<>>, outputs |-> <<>>, locktime |-> -1, globals |-> {},
                ser |-> NoCache, txid |-> NoCache]
    BY DEF NoTx, NewTx
  <2>2. IsRecord(NoTx) /\ NoTx.inputs = <<>> /\ Emptied(NoTx)
    BY <2>1 DEF IsRecord, Emptied
  <2>3. <<>> \in Seq(Range(<<>>)) /\ DOMAIN <<>> = {}
    OBVIOUS
  <2> QED
    BY <2>2, <2>3 DEF GoodTx
<1>3. FreshCaches(NoTx)
  BY <1>2, EmptyIsFresh
<1>4. \A p \in Parties : tx[p] = NoTx
  BY <1>1
<1> QED
  BY <1>1, <1>2, <1>3, <1>4 DEF CachesInv

\* What a text of the node says of an input completes nothing.
LEMMA NodeText ==
    ASSUME mode = "fund", NEW place, NEW section,
           \A e \in section : e[1] \notin {"script_sig", "witness"}
    PROVE  GoodInput(ParsedInput(place, section))
<1>1. \A k \in DOMAIN SectionMap(section) : k[1] \notin {"script_sig", "witness"}
  BY SectionKeys
<1> QED
  BY <1>1 DEF GoodInput, Bare, ParsedInput, IsInput

LEMMA FundPsbtGood == ASSUME CachesInv, FundPsbt PROVE CachesInv'
<1>1. PICK coins \in SUBSET NodeCoins, nseq \in {0, 1, 2} :
         LET order == SetToSortSeq(coins, LAMBDA a, b : a < b)
             left == Total(coins) - LockupAmount - Fee
             change == IF left >= Dust THEN <<[to |-> ChangeTo, value |-> left]>> ELSE <<>>
         IN  texts' = {[unsigned |-> [ins |-> [i \in DOMAIN order |-> [prevout |-> order[i], nseq |-> nseq]],
                                      outs |-> change, locktime |-> 0],
                        globals |-> {},
                        ins |-> [i \in DOMAIN order |-> NodeInput(order[i])],
                        outs |-> [i \in DOMAIN change |-> {}]]}
  BY DEF FundPsbt
<1> DEFINE order == SetToSortSeq(coins, LAMBDA a, b : a < b)
           left == Total(coins) - LockupAmount - Fee
           change == IF left >= Dust THEN <<[to |-> ChangeTo, value |-> left]>> ELSE <<>>
           unsigned == [ins |-> [i \in DOMAIN order |-> [prevout |-> order[i], nseq |-> nseq]],
                        outs |-> change, locktime |-> 0]
           outs == [i \in DOMAIN change |-> {}]
           ins == [i \in DOMAIN order |-> NodeInput(order[i])]
           text == [unsigned |-> unsigned, globals |-> {}, ins |-> ins, outs |-> outs]
<1>2. texts' = {text}
  BY <1>1
<1> HIDE DEF order, unsigned, outs
<1>3. mode = "fund" /\ UNCHANGED <<mode, tx>>
  BY DEF FundPsbt
<1>4. \A c : \A e \in NodeInput(c) : e[1] \in {"wutxo", "redeem"}
  BY DEF NodeInput, Entry, Field
<1>5. \A i \in DOMAIN ins : \A e \in ins[i] : e[1] \notin {"script_sig", "witness"}
  BY <1>4
<1> HIDE DEF ins
<1>6. \A i \in DOMAIN ins : GoodInput(ParsedInput(unsigned.ins[i], ins[i]))
  BY <1>3, <1>5, NodeText
<1>7. GoodText(text)
  BY <1>3, <1>6 DEF GoodText
<1> QED
  BY <1>2, <1>3, <1>7, NoneChanges

LEMMA CreateTransactionGood == ASSUME CachesInv, CreateTransaction PROVE CachesInv'
<1>1. PICK text \in texts :
         LET funded == SetRbf(AddOutputs(FromText(text), <<Out(LockupTo, LockupAmount)>>, FALSE), TRUE)
         IN  texts' = {ToText(FinalizePsbt(funded))} \/ texts' = {}
  BY DEF CreateTransaction
<1> DEFINE new == <<Out(LockupTo, LockupAmount)>>
           more == AddOutputs(FromText(text), new, FALSE)
           funded == SetRbf(more, TRUE)
<1>2. texts' = {ToText(FinalizePsbt(funded))} \/ texts' = {}
  BY <1>1
<1>3. mode \in {"fund", "claim", "joint"} /\ GoodText(text)
  BY DEF CachesInv
<1>4. GoodTx(FromText(text))
  BY <1>3, FromTextGood
<1> HIDE DEF new
<1>5. GoodTx(more)
  BY <1>4, AddOutputsGood
<1> HIDE DEF more
<1>6. GoodTx(funded)
  BY <1>5, SetRbfGood
<1> HIDE DEF funded
<1>7. GoodTx(FinalizePsbt(funded))
  BY <1>3, <1>6, TxFinalized
<1>8. GoodText(ToText(FinalizePsbt(funded)))
  BY <1>3, <1>7, ToTextGood
<1>9. UNCHANGED <<mode, tx>>
  BY DEF CreateTransaction
<1> QED
  BY <1>2, <1>8, <1>9, NoneChanges

LEMMA SignPsbtGood == ASSUME CachesInv, SignPsbt PROVE CachesInv'
<1> DEFINE Sig(text, i) == [key |-> Pubkeys(Coin[text.unsigned.ins[i].prevout].desc, 0)[1],
                            digest |-> Digest(text.unsigned, i, SighashAll)]
           Added(text, i) == Entry(<<"sig", Sig(text, i).key>>, Sig(text, i))
<1>1. PICK text \in texts :
         texts' = {[text EXCEPT !.ins = [i \in DOMAIN text.ins |-> text.ins[i] \cup {Added(text, i)}]]}
  BY DEF SignPsbt
<1>2. \A i : Added(text, i)[1] = "sig"
  BY DEF Entry
<1> HIDE DEF Added
<1> DEFINE ins == [i \in DOMAIN text.ins |-> text.ins[i] \cup {Added(text, i)}]
           new == [text EXCEPT !.ins = ins]
<1>3. mode = "fund" /\ UNCHANGED <<mode, tx>> /\ GoodText(text)
  BY DEF SignPsbt, CachesInv
<1>4. \A i \in DOMAIN text.ins : \A k \in DOMAIN SectionMap(text.ins[i]) : k[1] \notin {"script_sig", "witness"}
  <2> TAKE i \in DOMAIN text.ins
  <2>1. GoodInput(ParsedInput(text.unsigned.ins[i], text.ins[i]))
    BY <1>3 DEF GoodText
  <2>2. Bare(ParsedInput(text.unsigned.ins[i], text.ins[i]))
    BY <1>3, <2>1 DEF GoodInput
  <2> QED
    BY <2>2 DEF Bare, ParsedInput
<1>5. \A i \in DOMAIN text.ins : \A e \in text.ins[i] : e[1] \notin {"script_sig", "witness"}
  <2> TAKE i \in DOMAIN text.ins
  <2> TAKE e \in text.ins[i]
  <2>1. <<e[1], e[2]>> \in DOMAIN SectionMap(text.ins[i])
    BY DEF SectionMap
  <2>2. <<e[1], e[2]>>[1] = e[1]
    OBVIOUS
  <2> QED
    BY <1>4, <2>1, <2>2
<1>6. DOMAIN ins = DOMAIN text.ins /\ \A i \in DOMAIN ins : \A e \in ins[i] : e[1] \notin {"script_sig", "witness"}
  BY <1>2, <1>5
<1>7. texts' = {new}
  BY <1>1
<1> HIDE DEF ins
<1>8. /\ new = [unsigned |-> new.unsigned, globals |-> new.globals, ins |-> new.ins, outs |-> new.outs]
      /\ new.ins = ins
  <2>1. DOMAIN text = {"unsigned", "globals", "ins", "outs"}
    BY <1>3 DEF GoodText
  <2> QED
    BY <2>1
<1> HIDE DEF new
<1>9. \A i \in DOMAIN ins : GoodInput(ParsedInput(new.unsigned.ins[i], ins[i]))
  BY <1>3, <1>6, NodeText
<1>10. GoodText(new)
  BY <1>3, <1>8, <1>9 DEF GoodText
<1> QED
  BY <1>3, <1>7, <1>10, NoneChanges

LEMMA TakeSignedGood == ASSUME CachesInv, TakeSigned PROVE CachesInv'
<1>1. PICK text \in texts : Start("plugin", FinalizePsbt(FromText(text)))
  BY DEF TakeSigned
<1> DEFINE t == FromText(text)
<1>2. mode \in {"fund", "claim", "joint"} /\ mode' = mode /\ texts' = {}
  BY DEF TakeSigned, CachesInv
<1>3. GoodTx(t) /\ Emptied(t)
  BY FromTextGood DEF CachesInv
<1>4. FreshCaches(t)
  BY <1>3, EmptyIsFresh
<1> HIDE DEF t
<1>5. GoodTx(FinalizePsbt(t)) /\ FreshCaches(FinalizePsbt(t))
  BY <1>2, <1>3, <1>4, TxFinalizedFresh
<1>6. "plugin" \in Parties /\ Start("plugin", FinalizePsbt(t))
  BY <1>1 DEF Parties, t
<1> QED
  BY <1>2, <1>5, <1>6, OneChanges

LEMMA BroadcastFundingTxGood == ASSUME CachesInv, BroadcastFundingTx PROVE CachesInv'
<1> DEFINE t == tx["plugin"]
           u == CacheTxid(t)
<1>1. /\ Start("plugin", CacheSer(u)) /\ mode' = mode
      /\ texts' = {} \/ texts' = {ToText(FinalizePsbt(t))}
  BY DEF BroadcastFundingTx
<1>2. mode \in {"fund", "claim", "joint"} /\ "plugin" \in Parties /\ GoodTx(t) /\ FreshCaches(t)
  BY DEF CachesInv, Parties
<1> HIDE DEF t
<1>3. GoodTx(u) /\ FreshCaches(u)
  BY <1>2, TxidCached
<1> HIDE DEF u
<1>4. GoodTx(CacheSer(u)) /\ FreshCaches(CacheSer(u))
  BY <1>2, <1>3, SerCached
<1>5. GoodTx(FinalizePsbt(t))
  BY <1>2, TxFinalized
<1>6. GoodText(ToText(FinalizePsbt(t)))
  BY <1>2, <1>5, ToTextGood
<1> QED
  BY <1>1, <1>2, <1>4, <1>6, OneChanges

LEMMA CreateAndSignClaimTxGood ==
    ASSUME CoinsAssumption, CachesInv, CreateAndSignClaimTx PROVE CachesInv'
<1>1. mode = "claim" /\ mode' = mode /\ texts' = texts
  BY DEF CreateAndSignClaimTx
<1>2. CASE tx' = tx
  BY <1>1, <1>2, NoneChanges DEF CachesInv
<1>3. CASE tx' # tx
  <2>1. PICK c \in LockupCoins :
           \E locktime, isReverse :
              Start("plugin", CacheTxid(FinalizePsbt(SignTx(CreateClaimTx(c, locktime), isReverse))))
    BY <1>3 DEF CreateAndSignClaimTx
  <2>2. PICK locktime, isReverse :
           Start("plugin", CacheTxid(FinalizePsbt(SignTx(CreateClaimTx(c, locktime), isReverse))))
    BY <2>1
  <2> DEFINE t == SignTx(CreateClaimTx(c, locktime), isReverse)
             f == FinalizePsbt(t)
  <2>3. GoodTx(t) /\ Emptied(t)
    BY <1>1, ClaimGood
  <2> HIDE DEF t
  <2>4. GoodTx(f) /\ FreshCaches(f)
    BY <1>1, <2>3, EmptyIsFresh, TxFinalizedFresh
  <2> HIDE DEF f
  <2>5. GoodTx(CacheTxid(f)) /\ FreshCaches(CacheTxid(f))
    BY <2>4, TxidCached
  <2>6. "plugin" \in Parties /\ Start("plugin", CacheTxid(f))
    BY <2>2 DEF Parties, f, t
  <2> QED
    BY <1>1, <2>5, <2>6, OneChanges DEF CachesInv
<1> QED
  BY <1>2, <1>3

LEMMA BroadcastClaimGood == ASSUME CachesInv, BroadcastClaim PROVE CachesInv'
<1>1. Start("plugin", CacheSer(tx["plugin"])) /\ mode' = mode /\ texts' = texts
  BY DEF BroadcastClaim
<1>2. mode \in {"fund", "claim", "joint"} /\ "plugin" \in Parties
  BY DEF CachesInv, Parties
<1>3. GoodTx(CacheSer(tx["plugin"])) /\ FreshCaches(CacheSer(tx["plugin"]))
  BY <1>2, SerCached DEF CachesInv
<1> QED
  BY <1>1, <1>2, <1>3, OneChanges DEF CachesInv

LEMMA SendPsbtGood == ASSUME CachesInv, SendPsbt PROVE CachesInv'
<1>1. texts' = {} /\ UNCHANGED <<mode, tx>>
  BY DEF SendPsbt
<1> QED
  BY <1>1, NoneChanges

LEMMA BeginGood ==
    ASSUME CoinsAssumption, CachesInv, NEW p \in Joiners, Begin(p) PROVE CachesInv'
<1>1. PICK c \in JointCoins[p], o \in JointPay[p] :
         Start(p, FromIo(<<OwnInput(c, SighashTypes[c])>>, <<o>>, 0))
  BY DEF Begin
<1> DEFINE in == OwnInput(c, SighashTypes[c])
           ins == <<in>>
           outs == <<o>>
           t == FromIo(ins, outs, 0)
<1>2. mode = "joint" /\ mode' = mode /\ texts' = texts /\ p \in Parties
  BY DEF Begin, Joiners, Parties
<1>3. GoodInput(in)
  BY <1>2, OwnInputGood
<1>4. Start(p, t)
  BY <1>1
<1> HIDE DEF in, outs
<1>5. ins \in Seq(Range(ins)) /\ \A i \in DOMAIN ins : GoodInput(ins[i])
  BY <1>3 DEF Range
<1> HIDE DEF ins
<1>6. GoodTx(t) /\ Emptied(t)
  BY <1>2, <1>5, FromIoGood
<1> HIDE DEF t
<1> QED
  BY <1>2, <1>4, <1>6, EmptyIsFresh, OneChanges DEF CachesInv

LEMMA EditGood == ASSUME CachesInv, NEW p \in Joiners, Edit(p) PROVE CachesInv'
<1>1. mode = "joint" /\ mode' = mode /\ texts' = texts /\ p \in Parties
  BY DEF Edit, Joiners, Parties
<1>2. GoodTx(tx[p])
  BY <1>1 DEF CachesInv
<1>3. PICK t : Start(p, t) /\ GoodTx(t) /\ Emptied(t)
  <2>1. CASE Start(p, SetRbf(tx[p], ~IsRbfEnabled(tx[p])))
    BY <1>2, <2>1, SetRbfGood
  <2>2. CASE Start(p, SetLocktime(tx[p], 1 - tx[p].locktime))
    BY <1>2, <2>2, SetLocktimeGood
  <2>3. CASE \E o \in JointPay[p] : Start(p, AddOutputs(tx[p], <<o>>, FALSE))
    <3>1. PICK o \in JointPay[p] : Start(p, AddOutputs(tx[p], <<o>>, FALSE))
      BY <2>3
    <3> DEFINE outs == <<o>>
    <3>2. Start(p, AddOutputs(tx[p], outs, FALSE))
      BY <3>1
    <3> HIDE DEF outs
    <3> QED
      BY <1>2, <3>2, AddOutputsGood
  <2> QED
    BY <2>1, <2>2, <2>3 DEF Edit
<1> QED
  BY <1>1, <1>3, EmptyIsFresh, OneChanges DEF CachesInv

LEMMA ExportGood == ASSUME CachesInv, NEW p \in Joiners, Export(p) PROVE CachesInv'
<1>1. mode = "joint" /\ mode' = mode /\ p \in Parties
  BY DEF Export, Joiners, Parties
<1>2. PICK bare \in BOOLEAN :
         LET given == FinalizePsbt(IF bare THEN ForCoinjoin(tx[p]) ELSE tx[p])
         IN  /\ texts' = texts \cup {ToText(IF bare THEN WithWitnessUtxos(given) ELSE given)}
             /\ Start(p, given)
  BY DEF Export
<1> DEFINE t == IF bare THEN ForCoinjoin(tx[p]) ELSE tx[p]
           given == FinalizePsbt(t)
           shown == IF bare THEN WithWitnessUtxos(given) ELSE given
<1>3. texts' = texts \cup {ToText(shown)} /\ Start(p, given)
  BY <1>2
<1>4. GoodTx(t) /\ FreshCaches(t)
  BY <1>1, ForCoinjoinGood DEF CachesInv
<1> HIDE DEF t
<1>5. GoodTx(given) /\ FreshCaches(given)
  BY <1>1, <1>4, TxFinalizedFresh
<1> HIDE DEF given
<1>6. GoodTx(shown)
  BY <1>1, <1>5, WithWitnessUtxosGood
<1> HIDE DEF shown
<1>7. GoodText(ToText(shown))
  BY <1>1, <1>6, ToTextGood
<1>8. \A text \in texts' : GoodText(text)
  BY <1>3, <1>7 DEF CachesInv
<1> QED
  BY <1>1, <1>3, <1>5, <1>8, OneChanges

\* Whatever text a holder takes in.
LEMMA TextTaken ==
    ASSUME CachesInv, NEW text \in texts PROVE GoodTx(FromText(text)) /\ Emptied(FromText(text))
  BY FromTextGood DEF CachesInv

LEMMA LoadGood == ASSUME CachesInv, NEW p \in Joiners, Load(p) PROVE CachesInv'
<1>1. mode = "joint" /\ mode' = mode /\ texts' = texts /\ p \in Parties
  BY DEF Load, Joiners, Parties
<1>2. PICK text \in texts : Start(p, DescribeAll(p, FromText(text)))
  BY DEF Load
<1>3. GoodTx(DescribeAll(p, FromText(text))) /\ Emptied(DescribeAll(p, FromText(text)))
  BY <1>1, TextTaken, DescribeAllGood
<1> QED
  BY <1>1, <1>2, <1>3, EmptyIsFresh, OneChanges DEF CachesInv

LEMMA CombineWithGood == ASSUME CachesInv, NEW p \in Joiners, CombineWith(p) PROVE CachesInv'
<1>1. mode = "joint" /\ mode' = mode /\ texts' = texts /\ p \in Parties
  BY DEF CombineWith, Joiners, Parties
<1>2. PICK text \in texts :
         CanCombine(tx[p], FromText(text)) /\ Start(p, Combine(tx[p], FromText(text)))
  BY DEF CombineWith
<1>3. GoodTx(tx[p]) /\ GoodTx(FromText(text))
  BY <1>1, TextTaken DEF CachesInv
<1>4. GoodTx(Combine(tx[p], FromText(text))) /\ Emptied(Combine(tx[p], FromText(text)))
  BY <1>1, <1>2, <1>3, CombineGood
<1> QED
  BY <1>1, <1>2, <1>4, EmptyIsFresh, OneChanges DEF CachesInv

LEMMA JoinWithGood ==
    ASSUME CoinsAssumption, CachesInv, NEW p \in Joiners, JoinWith(p) PROVE CachesInv'
<1>1. mode = "joint" /\ mode' = mode /\ texts' = texts /\ p \in Parties
  BY DEF JoinWith, Joiners, Parties
<1>2. PICK text \in texts : Start(p, Join(tx[p], DescribeAll(p, FromText(text)), MergeDuplicates))
  BY DEF JoinWith
<1> DEFINE other == DescribeAll(p, FromText(text))
           t == Join(tx[p], other, MergeDuplicates)
<1>3. GoodTx(tx[p]) /\ GoodTx(other)
  BY <1>1, TextTaken, DescribeAllGood DEF CachesInv
<1> HIDE DEF other
<1>4. GoodTx(t) /\ Emptied(t)
  BY <1>1, <1>3, JoinGood
<1>5. Start(p, t)
  BY <1>2 DEF other
<1> HIDE DEF t
<1> QED
  BY <1>1, <1>4, <1>5, EmptyIsFresh, OneChanges DEF CachesInv

LEMMA SignGood == ASSUME CachesInv, NEW p \in Joiners, Sign(p) PROVE CachesInv'
<1>1. mode = "joint" /\ mode' = mode /\ texts' = texts /\ p \in Parties
  BY DEF Sign, Joiners, Parties
<1>2. PICK chosen : Start(p, Signed(tx[p], chosen))
  BY DEF Sign
<1>3. GoodTx(Signed(tx[p], chosen)) /\ Emptied(Signed(tx[p], chosen))
  BY <1>1, SignedGood DEF CachesInv
<1> QED
  BY <1>1, <1>2, <1>3, EmptyIsFresh, OneChanges DEF CachesInv

LEMMA AskTxidGood == ASSUME CachesInv, NEW p \in Joiners, AskTxid(p) PROVE CachesInv'
<1>1. mode' = mode /\ texts' = texts /\ p \in Parties /\ Start(p, CacheTxid(tx[p]))
  BY DEF AskTxid, Joiners, Parties
<1>2. GoodTx(CacheTxid(tx[p])) /\ FreshCaches(CacheTxid(tx[p]))
  BY <1>1, TxidCached DEF CachesInv
<1> QED
  BY <1>1, <1>2, OneChanges DEF CachesInv

LEMMA PublishGood == ASSUME CachesInv, NEW p \in Joiners, Publish(p) PROVE CachesInv'
<1>1. mode = "joint" /\ mode' = mode /\ texts' = texts /\ p \in Parties /\ Start(p, CacheSer(tx[p]))
  BY DEF Publish, Joiners, Parties
<1>2. GoodTx(CacheSer(tx[p])) /\ FreshCaches(CacheSer(tx[p]))
  BY <1>1, SerCached DEF CachesInv
<1> QED
  BY <1>1, <1>2, OneChanges DEF CachesInv

\* The strengthening is inductive.
LEMMA InvNext == ASSUME CoinsAssumption, CachesInv, [Next]_vars PROVE CachesInv'
<1>1. CASE UNCHANGED vars
  BY <1>1, NoneChanges DEF vars, CachesInv
<1>2. CASE FundPsbt
  BY <1>2, FundPsbtGood
<1>3. CASE CreateTransaction
  BY <1>3, CreateTransactionGood
<1>4. CASE SignPsbt
  BY <1>4, SignPsbtGood
<1>5. CASE TakeSigned
  BY <1>5, TakeSignedGood
<1>6. CASE BroadcastFundingTx
  BY <1>6, BroadcastFundingTxGood
<1>7. CASE SendPsbt
  BY <1>7, SendPsbtGood
<1>8. CASE CreateAndSignClaimTx
  BY <1>8, CreateAndSignClaimTxGood
<1>9. CASE BroadcastClaim
  BY <1>9, BroadcastClaimGood
<1>10. ASSUME NEW p \in Joiners,
              \/ Begin(p) \/ Edit(p) \/ Export(p) \/ Load(p)
              \/ CombineWith(p) \/ JoinWith(p) \/ Sign(p) \/ AskTxid(p) \/ Publish(p)
       PROVE  CachesInv'
  BY <1>10, BeginGood, EditGood, ExportGood, LoadGood, CombineWithGood, JoinWithGood, SignGood,
     AskTxidGood, PublishGood
<1> QED
  BY <1>1, <1>2, <1>3, <1>4, <1>5, <1>6, <1>7, <1>8, <1>9, <1>10 DEF Next, Joint

-----------------------------------------------------------------------------

\* What the caches say.
LEMMA InvCaches == ASSUME CachesInv PROVE CachesFresh
<1>1. \A p \in Parties : FreshCaches(tx[p])
  BY DEF CachesInv
<1> QED
  BY <1>1 DEF CachesFresh, FreshCaches

\* The strengthening: the inputs say of their coins what the chain says, and a
\* scriptSig comes with its witness.
LEMMA InvHolds == Spec => []CachesInv
<1>1. Init => CachesInv
  BY InitGood
<1>2. CachesInv /\ [Next]_vars => CachesInv'
  BY CoinsAssumption, InvNext
<1> QED
  BY <1>1, <1>2, PTL DEF Spec

\* txid() and serialize() never answer what no longer holds: whatever becomes of
\* a transaction, a cached answer is the one that would be computed now
\* (Transaction.invalidate_ser_cache).
THEOREM CachesStayFresh == Spec => []CachesFresh
<1>1. CachesInv => CachesFresh
  BY InvCaches
<1> QED
  BY <1>1, InvHolds, PTL

\* Finalising is done by whoever passes a transaction on, with or without
\* signatures.  It is no edit: it neither completes an input nor undoes one, and
\* the transaction and its id are what they were.
FinalizingIsNoEdit ==
    \A p \in Parties :
        /\ IsComplete(FinalizePsbt(tx[p])) <=> IsComplete(tx[p])
        /\ HasTxid(tx[p]) => /\ HasTxid(FinalizePsbt(tx[p]))
                             /\ NetworkId(FinalizePsbt(tx[p])) = NetworkId(tx[p])
        /\ IsComplete(tx[p]) => NetworkTx(FinalizePsbt(tx[p])) = NetworkTx(tx[p])

\* finalize_psbt throws signatures, scripts and paths away, which completeness,
\* scriptSig and witness were computed from, and does not invalidate the caches:
\* it need not (PartialTransaction.finalize_psbt).
THEOREM FinalizingIsHarmless == Spec => []FinalizingIsNoEdit
<1>1. CachesInv => FinalizingIsNoEdit
  BY TxFinalized DEF CachesInv, FinalizingIsNoEdit
<1> QED
  BY <1>1, InvHolds, PTL

\* is_segwit "can be false-negative", as the code says where it returns False.
\* It is never the other way round: what a transaction shows as segwit, in the
\* hands of the plugin that claims or of holders of keys, spends a segwit output.
SegwitIsRight ==
    mode # "fund" =>
        \A p \in Parties : \A i \in DOMAIN tx[p].inputs :
            IsSegwitInput(tx[p].inputs[i]) => ChainSegwit(tx[p].inputs[i].prevout)

\* The id of an incomplete transaction is known when all its inputs show segwit,
\* and signatures take the digest of segwit from it (PartialTxInput.is_segwit).
THEOREM SegwitNeverMistaken == Spec => []SegwitIsRight
<1>1. ASSUME CachesInv, mode # "fund", NEW p \in Parties, NEW i \in DOMAIN tx[p].inputs,
             IsSegwitInput(tx[p].inputs[i])
      PROVE  ChainSegwit(tx[p].inputs[i].prevout)
  <2>1. GoodInput(tx[p].inputs[i])
    BY <1>1 DEF CachesInv, GoodTx
  <2>2. OfCoin(tx[p].inputs[i]) /\ HasScripts(tx[p].inputs[i].prevout)
    BY <1>1, <2>1 DEF CachesInv, GoodInput, Shared, HasScripts
  <2> QED
    BY <1>1, <2>2, SegwitShows
<1>2. CachesInv => SegwitIsRight
  BY <1>1 DEF SegwitIsRight
<1> QED
  BY <1>2, InvHolds, PTL
=============================================================================
