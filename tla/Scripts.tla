------------------------------ MODULE Scripts -------------------------------
(***************************************************************************)
(* Bytes of scripts and addresses: numbers and pushes, reading a script    *)
(* back, the templates of output scripts, the address of a script and the  *)
(* script of an address.  Bytes are numbers; a hash is any bytes of its    *)
(* length.  TLC's integers end below 2^31, so do the lengths.              *)
(***************************************************************************)
EXTENDS Integers, Sequences, SequencesExt, Functions

Filled(len, byte) == [i \in 1..len |-> byte]

LittleEndian(n, len) == [i \in 1..len |-> (n \div (256 ^ (i - 1))) % 256]

\* The bytes of a number, the lowest first, none for zero.
ByteCount(n) == CHOOSE len \in 0..4 : (len = 4 \/ n < 256 ^ len) /\ (len = 0 \/ n >= 256 ^ (len - 1))

ScriptNumToBytes(i) ==
    LET neg == i < 0
        abs == IF neg THEN -i ELSE i
        digits == LittleEndian(abs, ByteCount(abs))
        sign == IF neg THEN 128 ELSE 0
    IN  IF i = 0 THEN <<>>
        ELSE IF Last(digits) >= 128 THEN Append(digits, sign)
        ELSE Append(Front(digits), Last(digits) + sign)

VarInt(i) ==
    IF i < 253 THEN <<i>>
    ELSE IF i <= 65535 THEN <<253>> \o LittleEndian(i, 2)
    ELSE <<254>> \o LittleEndian(i, 4)

WitnessPush(item) == VarInt(Len(item)) \o item

-----------------------------------------------------------------------------
(* Opcodes and pushes *)

OP == [ZERO |-> 0, PUSHDATA1 |-> 76, PUSHDATA2 |-> 77, PUSHDATA4 |-> 78, NEGATE1 |-> 79, ONE |-> 81,
       SIXTEEN |-> 96, DUP |-> 118, EQUAL |-> 135, EQUALVERIFY |-> 136,
       HASH160 |-> 169, CHECKSIG |-> 172]

\* The first length that has an opcode of its own is pushed as itself.
OpPushDirect(len) ==
    IF len <= OP.PUSHDATA1 THEN <<len>>
    ELSE IF len <= 255 THEN <<OP.PUSHDATA1, len>>
    ELSE <<OP.PUSHDATA2>> \o LittleEndian(len, 2)

OpPush(len) ==
    IF len < OP.PUSHDATA1 THEN <<len>>
    ELSE IF len <= 255 THEN <<OP.PUSHDATA1, len>>
    ELSE IF len <= 65535 THEN <<OP.PUSHDATA2>> \o LittleEndian(len, 2)
    ELSE <<OP.PUSHDATA4>> \o LittleEndian(len, 4)

\* A single zero byte gets the opcode of the empty string.
PushScript(data) ==
    CASE data \in {<<>>, <<0>>} -> <<OP.ZERO>>
      [] Len(data) = 1 /\ data[1] \in 1..16 -> <<OP.ONE - 1 + data[1]>>
      [] data = <<129>> -> <<OP.NEGATE1>>
      [] OTHER -> OpPush(Len(data)) \o data

\* Items of a script or a witness: an opcode, a number or bytes.
Op(o) == [kind |-> "op", value |-> o]
Num(n) == [kind |-> "num", value |-> n]
Data(d) == [kind |-> "data", value |-> d]

ConstructScript(items) ==
    LET Piece(item) == CASE item.kind = "op" -> <<item.value>>
                         [] item.kind = "num" -> PushScript(ScriptNumToBytes(item.value))
                         [] item.kind = "data" -> PushScript(item.value)
    IN  FlattenSeq([i \in DOMAIN items |-> Piece(items[i])])

WitnessItem(item) == IF item.kind = "num" THEN ScriptNumToBytes(item.value) ELSE item.value

ConstructWitness(items) ==
    VarInt(Len(items)) \o FlattenSeq([i \in DOMAIN items |-> WitnessPush(WitnessItem(items[i]))])

-----------------------------------------------------------------------------
(* Reading a script: script_GetOp *)

Min2(a, b) == IF a < b THEN a ELSE b

\* How many bytes tell the length of a push.
LengthBytes(op) ==
    CASE op = OP.PUSHDATA1 -> 1 [] op = OP.PUSHDATA2 -> 2 [] op = OP.PUSHDATA4 -> 4 [] OTHER -> 0

NumberAt(bytes, i, len) == FoldFunctionOnSet(+, 0, [k \in 1..len |-> bytes[i + k - 1] * 256 ^ (k - 1)], 1..len)

Malformed == <<[op |-> -1, data |-> <<>>]>>

\* A push that runs over the end takes what there is.
RECURSIVE GetOps(_, _)
GetOps(bytes, i) ==
    LET op == bytes[i]
        lb == LengthBytes(op)
        size == IF lb > 0 THEN NumberAt(bytes, i + 1, lb) ELSE op
        from == i + 1 + lb
        next == from + size
        rest == IF next > Len(bytes) THEN <<>> ELSE GetOps(bytes, next)
    IN  IF i > Len(bytes) THEN <<>>
        ELSE IF op > OP.PUSHDATA4
             THEN LET after == GetOps(bytes, i + 1)
                  IN  IF after = Malformed THEN Malformed ELSE <<[op |-> op, data |-> <<>>]>> \o after
        ELSE IF i + lb > Len(bytes) THEN Malformed
        ELSE IF rest = Malformed THEN Malformed
        ELSE <<[op |-> op, data |-> SubSeq(bytes, from, Min2(next - 1, Len(bytes)))]>> \o rest

-----------------------------------------------------------------------------
(* Templates: at each place the opcodes that fit *)

P2PKH == <<{OP.DUP}, {OP.HASH160}, {20}, {OP.EQUALVERIFY}, {OP.CHECKSIG}>>
P2SH == <<{OP.HASH160}, {20}, {OP.EQUAL}>>
P2WPKH == <<{0}, {20}>>
P2WSH == <<{0}, {32}>>
WITNESS_V0 == <<{0}, {20, 32}>>
ANYSEGWIT == <<OP.ONE..OP.SIXTEEN, 2..40>>

Matches(ops, template) ==
    /\ ops # Malformed /\ Len(ops) = Len(template)
    /\ \A i \in DOMAIN ops : ops[i].op \in template[i]

MatchesScript(bytes, template) == Matches(GetOps(bytes, 1), template)

ScriptType(bytes) ==
    CASE MatchesScript(bytes, P2PKH) -> "p2pkh"
      [] MatchesScript(bytes, P2SH) -> "p2sh"
      [] MatchesScript(bytes, P2WPKH) -> "p2wpkh"
      [] MatchesScript(bytes, P2WSH) -> "p2wsh"
      [] OTHER -> "none"

\* check_scriptpubkey_template_and_dust: the limit, 0 where it raises.
DustLimit(bytes) ==
    CASE MatchesScript(bytes, P2PKH) -> 546
      [] MatchesScript(bytes, P2SH) -> 540
      [] MatchesScript(bytes, P2WSH) -> 330
      [] MatchesScript(bytes, P2WPKH) -> 294
      [] MatchesScript(bytes, ANYSEGWIT) -> 354
      [] OTHER -> 0

-----------------------------------------------------------------------------
(* Addresses: base58 with a type, segwit with a version *)

Address(kind, version, hash) == [kind |-> kind, version |-> version, hash |-> hash]
NoAddress == Address("none", 0, <<>>)
Raised == Address("raised", 0, <<>>)

\* decode_segwit_address, behind which encode_segwit_address looks as well.
IsSegwitAddress(a) ==
    /\ a.kind = "segwit" /\ a.version \in 0..16 /\ Len(a.hash) \in 2..40
    /\ a.version = 0 => Len(a.hash) \in {20, 32}
IsB58Address(a) == a.kind \in {"p2pkh", "p2sh"} /\ Len(a.hash) = 20
IsAddress(a) == IsSegwitAddress(a) \/ IsB58Address(a)

\* hash_to_segwit_addr asserts that there is such an address.
HashToSegwitAddr(hash, version) ==
    LET a == Address("segwit", version, hash) IN IF IsSegwitAddress(a) THEN a ELSE Raised

AddressOfScript(bytes) ==
    LET ops == GetOps(bytes, 1)
    IN  CASE Matches(ops, P2PKH) -> Address("p2pkh", 0, ops[3].data)
          [] Matches(ops, P2SH) -> Address("p2sh", 0, ops[2].data)
          [] Matches(ops, WITNESS_V0) -> HashToSegwitAddr(ops[2].data, 0)
          [] Matches(ops, ANYSEGWIT) -> HashToSegwitAddr(ops[2].data, ops[1].op - OP.ONE + 1)
          [] OTHER -> NoAddress

ScriptOfAddress(a) ==
    CASE a.kind = "segwit" -> ConstructScript(<<Num(a.version), Data(a.hash)>>)
      [] a.kind = "p2pkh" -> ConstructScript(<<Op(OP.DUP), Op(OP.HASH160), Data(a.hash), Op(OP.EQUALVERIFY), Op(OP.CHECKSIG)>>)
      [] a.kind = "p2sh" -> ConstructScript(<<Op(OP.HASH160), Data(a.hash), Op(OP.EQUAL)>>)

\* address_to_payload knows fewer segwit addresses than there are.
Payload(a) ==
    CASE a.kind = "segwit" /\ a.version = 0 /\ Len(a.hash) = 20 -> "p2wpkh"
      [] a.kind = "segwit" /\ a.version = 0 /\ Len(a.hash) = 32 -> "p2wsh"
      [] a.kind = "segwit" /\ a.version = 1 /\ Len(a.hash) = 32 -> "p2tr"
      [] a.kind \in {"p2pkh", "p2sh"} -> a.kind
      [] OTHER -> "raised"

-----------------------------------------------------------------------------
(* Sizes of outputs *)

OutputSize(bytes) == 8 + Len(VarInt(Len(bytes))) + Len(bytes)
VirtualSize(weight) == weight \div 4 + (IF weight % 4 > 0 THEN 1 ELSE 0)
=============================================================================
