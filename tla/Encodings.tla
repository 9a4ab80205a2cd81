----------------------------- MODULE Encodings ------------------------------
(***************************************************************************)
(* Regrouping bits, the checksum of bech32 and segwit addresses, numbers   *)
(* in base 58 and 43, and the tagged fields of a BOLT11 invoice.  A        *)
(* character of an alphabet is its number in it; a human-readable part is  *)
(* the sequence of its character codes.                                    *)
(***************************************************************************)
EXTENDS Integers, Sequences, SequencesExt, FiniteSets, Bitwise

\* What a codec answers, or raises, for what it does not take.
None == <<-1>>
IsNone(x) == x = None

-----------------------------------------------------------------------------
(* convertbits *)

\* The n-th bit of groups of so many bits, the highest of a group first; 0 behind the last.
Bit(data, size, n) ==
    IF n > size * Len(data) THEN 0
    ELSE (data[(n - 1) \div size + 1] \div 2 ^ (size - 1 - ((n - 1) % size))) % 2

\* The same bits in other groups, so many of them.
Regroup(data, from, to, count) ==
    LET Group(j) == FoldLeft(LAMBDA acc, k : 2 * acc + Bit(data, from, to * (j - 1) + k), 0, [k \in 1..to |-> k])
    IN  [j \in 1..count |-> Group(j)]

\* What is left over is dropped.
ConvertBitsLax(data, from, to, pad) ==
    LET bits == from * Len(data)
    IN  Regroup(data, from, to, bits \div to + (IF pad /\ bits % to > 0 THEN 1 ELSE 0))

\* Bits that are left over fill a group, or must be less than one and zero.
ConvertBits(data, from, to, pad) ==
    LET bits == from * Len(data)
        whole == bits \div to
    IN  IF \E i \in DOMAIN data : data[i] \notin 0..(2 ^ from - 1) THEN None
        ELSE IF pad THEN Regroup(data, from, to, whole + (IF bits % to > 0 THEN 1 ELSE 0))
        ELSE IF bits % to >= from \/ \E n \in (to * whole + 1)..bits : Bit(data, from, n) = 1 THEN None
        ELSE Regroup(data, from, to, whole)

-----------------------------------------------------------------------------
(* bech32 and bech32m *)

\* Sums without carry, of quintets and of the 30 bits of a checksum as six of them.
XorTable == [a \in 0..31, b \in 0..31 |-> a ^^ b]
Xor6(x, y) == [i \in 1..6 |-> XorTable[x[i], y[i]]]
Six(n) == [i \in 1..6 |-> (n \div 32 ^ (6 - i)) % 32]

Generator == <<996825010, 642813549, 513874426, 1027748829, 705979059>>
ChecksumConst == [bech32 |-> Six(1), bech32m |-> Six(734539939)]

\* What the bits that are shifted out bring in.
Reduction == [top \in 0..31 |->
    FoldLeft(LAMBDA acc, i : IF (top \div 2 ^ (i - 1)) % 2 = 1 THEN Xor6(acc, Six(Generator[i])) ELSE acc,
             Six(0), <<1, 2, 3, 4, 5>>)]

Polymod(values) ==
    FoldLeft(LAMBDA chk, value : Xor6(Append(Tail(chk), value), Reduction[chk[1]]), Six(1), values)

HrpExpand(hrp) ==
    [i \in DOMAIN hrp |-> hrp[i] \div 32] \o <<0>> \o [i \in DOMAIN hrp |-> hrp[i] % 32]

VerifyChecksum(hrp, data) ==
    LET check == Polymod(HrpExpand(hrp) \o data)
    IN  IF check = ChecksumConst.bech32 THEN "bech32"
        ELSE IF check = ChecksumConst.bech32m THEN "bech32m" ELSE "none"

CreateChecksum(encoding, hrp, data) ==
    Xor6(Polymod(HrpExpand(hrp) \o data \o <<0, 0, 0, 0, 0, 0>>), ChecksumConst[encoding])

\* A text in bech32: the case its letters have, its two parts.
Bech32Encode(encoding, hrp, data) ==
    [case |-> "lower", hrp |-> hrp, data |-> data \o CreateChecksum(encoding, hrp, data)]

\* No address has that text.
NoText == [case |-> "none", hrp |-> <<>>, data |-> <<>>]
NotBech32 == [encoding |-> "none", hrp |-> <<>>, data |-> <<>>]

Bech32Decode(text, ignoreLongLength) ==
    LET encoding == VerifyChecksum(text.hrp, text.data)
    IN  IF \/ text.case = "mixed" \/ text.hrp = <<>> \/ Len(text.data) < 6
           \/ (~ignoreLongLength /\ Len(text.hrp) + 1 + Len(text.data) > 90)
           \/ \E i \in DOMAIN text.hrp : text.hrp[i] \notin 33..126
           \/ encoding = "none"
        THEN NotBech32
        ELSE [encoding |-> encoding, hrp |-> text.hrp, data |-> SubSeq(text.data, 1, Len(text.data) - 6)]

NoWitness == <<-1, <<>>>>

DecodeSegwitAddress(hrp, text) ==
    LET d == Bech32Decode(text, FALSE)
        program == ConvertBits(Tail(d.data), 5, 8, FALSE)
    IN  IF \/ d.encoding = "none" \/ d.hrp # hrp
           \/ IsNone(program) \/ Len(program) \notin 2..40
           \/ d.data[1] > 16
           \/ d.data[1] = 0 /\ Len(program) \notin {20, 32}
           \/ d.encoding # (IF d.data[1] = 0 THEN "bech32" ELSE "bech32m")
        THEN NoWitness
        ELSE <<d.data[1], program>>

EncodeSegwitAddress(hrp, version, program) ==
    LET text == Bech32Encode(IF version = 0 THEN "bech32" ELSE "bech32m", hrp,
                             <<version>> \o ConvertBits(program, 8, 5, TRUE))
    IN  IF DecodeSegwitAddress(hrp, text) = NoWitness THEN NoText ELSE text

-----------------------------------------------------------------------------
(* base58 and base43: every leading zero byte is a first character *)

LeadingZeros(seq) == CHOOSE n \in 0..Len(seq) :
    (\A i \in 1..n : seq[i] = 0) /\ (n = Len(seq) \/ seq[n + 1] # 0)

ToNumber(digits, base) == FoldLeft(LAMBDA num, d : num * base + d, 0, digits)

RECURSIVE Digits(_, _)
Digits(num, base) == IF num = 0 THEN <<>> ELSE Append(Digits(num \div base, base), num % base)

Zeros(n) == [i \in 1..n |-> 0]

BaseEncode(bytes, base) == Zeros(LeadingZeros(bytes)) \o Digits(ToNumber(bytes, 256), base)
BaseDecode(chars, base) == Zeros(LeadingZeros(chars)) \o Digits(ToNumber(chars, base), 256)

-----------------------------------------------------------------------------
(* Amounts of invoices, in pico-bitcoin *)

Multipliers == <<"p", "n", "u", "m", "">>

RECURSIVE Shorten(_, _)
Shorten(amount, i) ==
    IF i < 5 /\ amount % 1000 = 0 THEN Shorten(amount \div 1000, i + 1) ELSE <<amount, Multipliers[i]>>
ShortenAmount(amount) == Shorten(amount, 1)

UnshortenAmount(short) ==
    short[1] * 1000 ^ ((CHOOSE i \in DOMAIN Multipliers : Multipliers[i] = short[2]) - 1)

\* The setter of LnAddr.amount refuses parts of a millisatoshi.
ReadableAmount(amount) == amount % 10 = 0

-----------------------------------------------------------------------------
(* Numbers and tagged fields in quintets *)

\* With a width, nothing is padded: what is missing in front stays missing.
IntToData5(val) == Digits(val, 32)
IntFromData5(data5) == ToNumber(data5, 32)

\* A field is its tag, its length in two quintets, its quintets.
Tagged5(tag, data5) == <<tag, Len(data5) \div 32, Len(data5) % 32>> \o data5
Tagged8(tag, data8) == Tagged5(tag, ConvertBits(data8, 8, 5, TRUE))

PullTagged(data5) ==
    LET length == data5[2] * 32 + data5[3]
    IN  IF Len(data5) < 3 \/ length > Len(data5) - 3 THEN None
        ELSE <<data5[1], SubSeq(data5, 4, 3 + length), SubSeq(data5, 4 + length, Len(data5))>>

\* The places of the tags in the alphabet.
Tag == [p |-> 1, s |-> 16, r |-> 3, t |-> 11, f |-> 9, d |-> 13, h |-> 23, x |-> 6, n |-> 19, c |-> 24, nine |-> 5]
Unique == {"d", "h", "n", "x", "nine"}

BigEndian(n, len) == [i \in 1..len |-> (n \div 256 ^ (len - i)) % 256]

Hop(step) == step.pubkey \o step.scid \o BigEndian(step.feebase, 4) \o BigEndian(step.feerate, 4)
                 \o BigEndian(step.cltv, 2)
\* A trampoline hop has no channel.
Trampoline(step) == step.pubkey \o BigEndian(step.feebase, 4) \o BigEndian(step.feerate, 4) \o BigEndian(step.cltv, 2)

\* A fallback address: its version, 17 and 18 being the ones of base58.
Fallback(a) == <<a.version>> \o ConvertBits(a.hash, 8, 5, TRUE)

\* Texts are at most 639 bytes; "h" is the hash of its text.
EncodeTag(tag) ==
    LET k == tag.kind v == tag.value IN
    CASE k = "r" -> Tagged8(Tag.r, FlattenSeq([i \in DOMAIN v |-> Hop(v[i])]))
      [] k = "t" -> Tagged8(Tag.t, Trampoline(v))
      [] k = "f" -> Tagged5(Tag.f, Fallback(v))
      [] k = "d" -> Tagged8(Tag.d, SubSeq(v, 1, IF Len(v) < 639 THEN Len(v) ELSE 639))
      [] k \in {"h", "n"} -> Tagged8(Tag[k], v)
      [] k \in {"x", "c"} -> Tagged5(Tag[k], IntToData5(v))
      [] k = "nine" -> IF v = 0 THEN <<>> ELSE Tagged5(Tag.nine, IntToData5(v))

Kinds(tags) == {tags[i].kind : i \in DOMAIN tags}

\* Where lnencode_unsigned raises: a field twice, not counting features that
\* are not written, or not one of "d" and "h".
Encodable(addr) ==
    /\ \A i, j \in DOMAIN addr.tags :
          i < j /\ addr.tags[i].kind = addr.tags[j].kind /\ addr.tags[i].kind \in Unique
          => addr.tags[i].kind = "nine" /\ addr.tags[i].value = 0
    /\ ("d" \in Kinds(addr.tags)) # ("h" \in Kinds(addr.tags))

DummySignature == [i \in 1..104 |-> 15]

LnEncode(addr) ==
    [amount |-> IF addr.amount = 0 THEN None ELSE ShortenAmount(addr.amount),
     data |-> IntToData5(addr.date) \o Tagged8(Tag.p, addr.hash)
                  \o (IF addr.secret = <<>> THEN <<>> ELSE Tagged8(Tag.s, addr.secret))
                  \o FlattenSeq([i \in DOMAIN addr.tags |-> EncodeTag(addr.tags[i])])
                  \o DummySignature]

-----------------------------------------------------------------------------
(* lndecode *)

FromBigEndian(bytes) == ToNumber(bytes, 256)

\* As many whole hops as there are.
Hops(bytes) ==
    LET Part(i, from, to) == SubSeq(bytes, 51 * (i - 1) + from, 51 * (i - 1) + to)
    IN  [i \in 1..(Len(bytes) \div 51) |->
            [pubkey |-> Part(i, 1, 33), scid |-> Part(i, 34, 41), feebase |-> FromBigEndian(Part(i, 42, 45)),
             feerate |-> FromBigEndian(Part(i, 46, 49)), cltv |-> FromBigEndian(Part(i, 50, 51))]]

TrampolineHop(bytes) ==
    [pubkey |-> SubSeq(bytes, 1, 33), feebase |-> FromBigEndian(SubSeq(bytes, 34, 37)),
     feerate |-> FromBigEndian(SubSeq(bytes, 38, 41)), cltv |-> FromBigEndian(SubSeq(bytes, 42, 43))]

NewAddr == [amount |-> 0, date |-> 0, hash |-> <<>>, secret |-> <<>>, node |-> <<>>, tags |-> <<>>, unknown |-> <<>>]

\* What lndecode raises for what is not an invoice.
NoInvoice == [NewAddr EXCEPT !.date = -1]

WithTag(addr, kind, value) == [addr EXCEPT !.tags = Append(@, [kind |-> kind, value |-> value])]
Unknown(addr, tag, data) == [addr EXCEPT !.unknown = Append(@, <<tag, data>>)]

\* A decoded trampoline field holds a list: of its hop, or of none.
TrampolineHops(bytes) == IF Len(bytes) < 43 THEN <<>> ELSE <<TrampolineHop(bytes)>>

\* An address of a version that is not known, or of a program that version
\* does not have.
NoFallback(f) == f.version > 18 \/ (f.version <= 16 /\ EncodeSegwitAddress(<<98, 99>>, f.version, f.hash) = NoText)

\* Fields of the wrong length and unknown fields are put aside; a text or a
\* hash that is not whole bytes raises.
DecodeTag(addr, tag, data) ==
    LET bytes == ConvertBits(data, 5, 8, FALSE)
        fallback == [version |-> data[1], hash |-> ConvertBits(Tail(data), 5, 8, FALSE)]
        Kept(length, kept) ==
            IF Len(data) # length THEN Unknown(addr, tag, data) ELSE IF IsNone(bytes) THEN NoInvoice ELSE kept
    IN
    CASE tag = Tag.r -> IF IsNone(bytes) \/ Hops(bytes) = <<>> THEN addr ELSE WithTag(addr, "r", Hops(bytes))
      [] tag = Tag.t -> IF IsNone(bytes) \/ bytes = <<>> THEN addr ELSE WithTag(addr, "t", TrampolineHops(bytes))
      [] tag = Tag.f -> IF data = <<>> \/ IsNone(fallback.hash) THEN NoInvoice
                        ELSE IF NoFallback(fallback) THEN Unknown(addr, tag, data) ELSE WithTag(addr, "f", fallback)
      [] tag = Tag.d -> Kept(Len(data), WithTag(addr, "d", bytes))
      [] tag = Tag.h -> Kept(52, WithTag(addr, "h", bytes))
      [] tag = Tag.x -> WithTag(addr, "x", IntFromData5(data))
      [] tag = Tag.c -> WithTag(addr, "c", IntFromData5(data))
      [] tag = Tag.nine -> WithTag(addr, "nine", IntFromData5(data))
      [] tag = Tag.p -> Kept(52, [addr EXCEPT !.hash = bytes])
      [] tag = Tag.s -> Kept(52, [addr EXCEPT !.secret = bytes])
      [] tag = Tag.n -> Kept(53, [addr EXCEPT !.node = bytes])
      [] OTHER -> Unknown(addr, tag, data)

RECURSIVE DecodeTags(_, _)
DecodeTags(addr, data5) ==
    IF addr = NoInvoice \/ data5 = <<>> THEN addr
    ELSE IF IsNone(PullTagged(data5)) THEN NoInvoice
    ELSE LET pulled == PullTagged(data5) IN DecodeTags(DecodeTag(addr, pulled[1], pulled[2]), pulled[3])

LnDecode(invoice) ==
    LET data5 == SubSeq(invoice.data, 1, Len(invoice.data) - 104)
        addr == [NewAddr EXCEPT !.amount = IF IsNone(invoice.amount) THEN 0 ELSE UnshortenAmount(invoice.amount),
                                !.date = IntFromData5(SubSeq(data5, 1, 7))]
    IN  IF Len(invoice.data) < 104 \/ ~ReadableAmount(addr.amount) THEN NoInvoice
        ELSE DecodeTags(addr, SubSeq(data5, 8, Len(data5)))

\* What a reader takes for fields that are not there.
GetTag(addr, kind, default) ==
    LET found == SelectSeq(addr.tags, LAMBDA t : t.kind = kind)
    IN  IF found = <<>> THEN default ELSE found[1].value
MinFinalCltvDelta(addr) == GetTag(addr, "c", 18)
Expiry(addr) == GetTag(addr, "x", 3600)
IsExpired(addr, now) == now > Expiry(addr) + addr.date
=============================================================================
