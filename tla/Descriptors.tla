---------------------------- MODULE Descriptors -----------------------------
(***************************************************************************)
(* Output descriptors: what the parser accepts, the scripts a descriptor   *)
(* expands to, and how signatures satisfy it.  A descriptor is its chain   *)
(* of wrappers, sh() and wsh(), around one function of keys.  A hash is    *)
(* the thing it is taken of; the order of derived public keys, which is    *)
(* that of their bytes, is a parameter.                                    *)
(***************************************************************************)
EXTENDS Integers, Sequences, FiniteSets, SequencesExt

CONSTANTS
    Pubkey(_, _)   \* the key of an extended key at a position: a number

\* A key expression: an extended or a plain key, its path suffix.
WildcardIsLast(path) == \A i \in DOMAIN path : path[i] = "*" => i = Len(path)

IsKey(k) == WildcardIsLast(k.path) /\ (k.path # <<>> => k.extended)

IsRangeKey(k) == k.path # <<>> /\ Last(k.path) = "*"

\* Hardened steps have no public derivation.
Derivable(k) == \A i \in DOMAIN k.path : k.path[i] # "h"

\* Without a wildcard the position is ignored.
PubkeyAt(k, pos) == Pubkey(k.id, IF IsRangeKey(k) THEN pos ELSE 0)

IsRange(d) == \E i \in DOMAIN d.keys : IsRangeKey(d.keys[i])

-----------------------------------------------------------------------------
(* parse_descriptor *)

Context(wrap) == CASE wrap = <<>> -> "TOP" [] Last(wrap) = "sh" -> "P2SH" [] Last(wrap) = "wsh" -> "P2WSH"

WrapsParse(wrap) ==
    \A i \in DOMAIN wrap :
        LET ctx == Context(SubSeq(wrap, 1, i - 1))
        IN  ctx = "TOP" \/ (ctx = "P2SH" /\ wrap[i] = "wsh")

Multisigs == {"multi", "sortedmulti"}
ScriptFuncs == Multisigs \cup {"pk", "pkh", "wpkh", "tr"}

KeyCountParses(d) ==
    IF d.func \in Multisigs
    THEN /\ 1 <= d.thresh /\ d.thresh <= Len(d.keys) /\ Len(d.keys) <= 15
         /\ d.wrap = <<>> => Len(d.keys) <= 3
    ELSE Len(d.keys) = 1

FunctionParses(d) ==
    LET ctx == Context(d.wrap) IN
    CASE d.func = "wpkh" -> ctx \in {"TOP", "P2SH"}
      [] d.func = "tr"   -> ctx = "TOP"
      [] OTHER           -> TRUE

\* The internal key of tr() is parsed in the context of the top level.
UncompressedParses(d) == Context(d.wrap) \in {"TOP", "P2SH"} /\ d.func # "wpkh"

Parses(d) ==
    /\ WrapsParse(d.wrap) /\ FunctionParses(d) /\ KeyCountParses(d)
    /\ \A i \in DOMAIN d.keys :
          /\ IsKey(d.keys[i])
          /\ d.keys[i].compressed \/ d.keys[i].extended \/ UncompressedParses(d)

-----------------------------------------------------------------------------
(* expand *)

\* A script is its operator over keys, or over the script that is hashed.
Script(op, thresh, keys) == [op |-> op, thresh |-> thresh, keys |-> keys, inner |-> <<>>]
HashOf(op, script) == [op |-> op, thresh |-> 0, keys |-> <<>>, inner |-> <<script>>]

\* sortedmulti sorts what has been derived, at every position.
Pubkeys(d, pos) ==
    LET keys == [i \in DOMAIN d.keys |-> PubkeyAt(d.keys[i], pos)]
    IN  IF d.func = "sortedmulti" THEN SortSeq(keys, LAMBDA a, b : a < b) ELSE keys

Inner(d, pos) == Script(IF d.func = "sortedmulti" THEN "multi" ELSE d.func, d.thresh, Pubkeys(d, pos))

HasWrap(d, wrap) == \E i \in DOMAIN d.wrap : d.wrap[i] = wrap

Program(d, script) == IF HasWrap(d, "wsh") THEN HashOf("wsh", script) ELSE script

NoScript == Script("none", 0, <<>>)

Wrapped(d, script, program) ==
    [output  |-> IF HasWrap(d, "sh") THEN HashOf("sh", program) ELSE program,
     redeem  |-> IF HasWrap(d, "sh") THEN program ELSE NoScript,
     witness |-> IF HasWrap(d, "wsh") THEN script ELSE NoScript]

Expand(d, pos) == Wrapped(d, Inner(d, pos), Program(d, Inner(d, pos)))

\* What the signatures commit to: the key hash script of wpkh(), else the innermost.
ScriptCode(d, pos) ==
    IF d.func = "wpkh" THEN Script("pkh", d.thresh, Pubkeys(d, pos)) ELSE Inner(d, pos)

IsSegwit(d) == HasWrap(d, "wsh") \/ d.func \in {"wpkh", "tr"}
IsTaproot(d) == d.func = "tr"

-----------------------------------------------------------------------------
(* satisfy; sigdata maps public keys to signatures *)

Item(kind, value) == <<kind, value>>

\* The first signatures in the order of the bytes of their keys.
SignaturesSorted(d, sigdata) ==
    LET have == SetToSortSeq(DOMAIN sigdata, LAMBDA a, b : a < b)
    IN  [i \in 1..(IF Len(have) < d.thresh THEN Len(have) ELSE d.thresh) |-> sigdata[have[i]]]

\* The first signatures in the order of the keys, no more than are needed.
SignaturesFor(d, sigdata) ==
    LET have == SelectSeq(Pubkeys(d, 0), LAMBDA k : k \in DOMAIN sigdata)
    IN  [i \in 1..(IF Len(have) < d.thresh THEN Len(have) ELSE d.thresh) |-> sigdata[have[i]]]

Satisfiable(d, sigdata) == d.func # "tr" /\ Len(SignaturesFor(d, sigdata)) >= d.thresh

InnerItems(d, sigdata) ==
    LET sigs == [i \in 1..d.thresh |-> Item("sig", SignaturesFor(d, sigdata)[i])]
    IN  CASE d.func \in Multisigs        -> <<Item("num", 0)>> \o sigs
          [] d.func = "pk"               -> sigs
          [] d.func \in {"pkh", "wpkh"}  -> Append(sigs, Item("key", Pubkeys(d, 0)[1]))

\* witness_items of the innermost function, and the scripts that are revealed.
SolutionOf(d, items, scripts) ==
    LET redeem == IF HasWrap(d, "sh") THEN <<Item("script", scripts.redeem)>> ELSE <<>>
        witness == IF HasWrap(d, "wsh") THEN Append(items, Item("script", scripts.witness)) ELSE items
    IN  IF IsSegwit(d) THEN [witness |-> witness, script_sig |-> redeem]
                       ELSE [witness |-> <<>>, script_sig |-> items \o redeem]

Satisfy(d, sigdata) == SolutionOf(d, InnerItems(d, sigdata), Expand(d, 0))

\* Every signature counts, whosever it is.
Progress(d, sigdata) ==
    IF d.func = "tr" THEN <<0, 0>> ELSE <<Cardinality(DOMAIN sigdata), d.thresh>>

-----------------------------------------------------------------------------
(* Script types of the wallet *)

LegacyType(d) ==
    CASE d.func = "pk" /\ d.wrap = <<>> -> "p2pk"
      [] d.func = "pkh" /\ d.wrap = <<>> -> "p2pkh"
      [] d.func = "wpkh" /\ d.wrap = <<>> -> "p2wpkh"
      [] d.func = "wpkh" /\ d.wrap = <<"sh">> -> "p2wpkh-p2sh"
      [] d.func \in Multisigs /\ d.wrap = <<"sh">> -> "p2sh"
      [] d.func \in Multisigs /\ d.wrap = <<"wsh">> -> "p2wsh"
      [] d.func \in Multisigs /\ d.wrap = <<"sh", "wsh">> -> "p2wsh-p2sh"
      [] OTHER -> "unknown"

Singlesigs == {"p2pk", "p2pkh", "p2wpkh", "p2wpkh-p2sh"}

FromLegacyLeaf(type, key) ==
    [wrap   |-> IF type = "p2wpkh-p2sh" THEN <<"sh">> ELSE <<>>,
     func   |-> CASE type = "p2pk" -> "pk" [] type = "p2pkh" -> "pkh" [] OTHER -> "wpkh",
     keys   |-> <<key>>, thresh |-> 1]

-----------------------------------------------------------------------------
(* What Bitcoin accepts: the reference the solutions are held against.  A  *)
(* script runs on a stack of items; valid has each signature with its key.   *)

IsSigOf(item, key, valid) == item[1] = "sig" /\ <<item[2], key>> \in valid

\* CHECKMULTISIG takes the keys in order and may skip some, but not go back.
MultisigRuns(script, stack, valid) ==
    LET m == script.thresh
        n == Len(script.keys)
    IN  /\ Len(stack) = m + 1
        /\ \E chosen \in SUBSET (1..n) :
              LET order == SetToSortSeq(chosen, LAMBDA a, b : a < b)
              IN  /\ Cardinality(chosen) = m
                  /\ \A i \in 1..m : IsSigOf(stack[i + 1], script.keys[order[i]], valid)

Runs(script, stack, valid) ==
    CASE script.op = "pk" -> Len(stack) = 1 /\ IsSigOf(stack[1], script.keys[1], valid)
      [] script.op = "pkh" -> /\ Len(stack) = 2 /\ stack[2] = Item("key", script.keys[1])
                              /\ IsSigOf(stack[1], script.keys[1], valid)
      [] script.op = "multi" -> MultisigRuns(script, stack, valid)
      [] OTHER -> FALSE

WitnessRuns(program, witness, valid) ==
    CASE program.op = "wpkh" -> Runs(Script("pkh", 1, program.keys), witness, valid)
      [] program.op = "wsh" -> /\ witness # <<>> /\ Last(witness) = Item("script", program.inner[1])
                               /\ Runs(program.inner[1], Front(witness), valid)

Accepts(output, solution, valid) ==
    LET script_sig == solution.script_sig
        revealed == output.inner[1]
    IN  CASE output.op \in {"wpkh", "wsh"} -> script_sig = <<>> /\ WitnessRuns(output, solution.witness, valid)
          [] output.op = "sh" ->
                /\ script_sig # <<>> /\ Last(script_sig) = Item("script", revealed)
                /\ IF revealed.op \in {"wpkh", "wsh"}
                   THEN Len(script_sig) = 1 /\ WitnessRuns(revealed, solution.witness, valid)
                   ELSE solution.witness = <<>> /\ Runs(revealed, Front(script_sig), valid)
          [] OTHER -> solution.witness = <<>> /\ Runs(output, script_sig, valid)
=============================================================================
