------------------------------- MODULE Bip32 --------------------------------
(***************************************************************************)
(* Hierarchical keys: the derivation of children, extended keys and their  *)
(* serialisation, derivation paths and the origin of a key.  A private key *)
(* is its number; a point is the number of its key, so that adding points  *)
(* is adding numbers modulo the order of the curve.                        *)
(***************************************************************************)
EXTENDS Integers, Sequences, SequencesExt

CONSTANTS
    Prime,        \* the bit of hardened indexes (2^31 in the code)
    CurveOrder    \* the number of points of the curve

ASSUME Bip32Assumption ==
    /\ Prime \in Nat \ {0}
    /\ CurveOrder \in Nat /\ CurveOrder > 2

MaxIndex == 2 * Prime - 1
IsHardened(index) == (index \div Prime) % 2 = 1

-----------------------------------------------------------------------------
(* hmac_oneshot and hash_160: a digest mixes all it is given.  A left half *)
(* of CurveOrder stands for all those that are no key; zero, one digest in *)
(* 2^256, is left out: there CKD_priv goes on and CKD_pub skips the index. *)

Hmac(chaincode, data, index) ==
    LET mix == 7 * chaincode + 5 * data + 3 * index * index
    IN  [left |-> 1 + (mix % CurveOrder), right |-> (mix + data) % 3]

\* The same bytes are not a private key and the encoding of a point.
OfSecret(key) == 2 * key
OfPoint(key) == 2 * key + 1

Fingerprint(key) == <<key>>
NoFingerprint == <<>>

-----------------------------------------------------------------------------
(* Children *)

NoKey == [key |-> 0, chaincode |-> 0]

\* protect_against_invalid_ecpoint goes on with the next index of its kind.
CanSkip(index) == IsHardened(index) = IsHardened(index + 1)

\* What is no key is reduced to one.
CKD_privStuck(key, chaincode, index) ==
    LET I == Hmac(chaincode, IF IsHardened(index) THEN OfSecret(key) ELSE OfPoint(key), index)
    IN  [key |-> 1 + ((I.left + key) % (CurveOrder - 1)), chaincode |-> I.right]

\* An index whose digest is no key, or leads to zero or to infinity, is skipped.
RECURSIVE CKD_priv(_, _, _)
CKD_priv(key, chaincode, index) ==
    LET I == Hmac(chaincode, IF IsHardened(index) THEN OfSecret(key) ELSE OfPoint(key), index)
        child == (I.left + key) % CurveOrder
    IN  IF I.left < CurveOrder /\ child # 0 THEN [key |-> child, chaincode |-> I.right]
        ELSE IF CanSkip(index) THEN CKD_priv(key, chaincode, index + 1) ELSE NoKey

\* The point of the digest's key plus the parent's.
RECURSIVE CKD_pub(_, _, _)
CKD_pub(point, chaincode, index) ==
    LET I == Hmac(chaincode, OfPoint(point), index)
        child == (I.left + point) % CurveOrder
    IN  IF IsHardened(index) THEN NoKey
        ELSE IF I.left < CurveOrder /\ child # 0 THEN [key |-> child, chaincode |-> I.right]
        ELSE IF CanSkip(index) THEN CKD_pub(point, chaincode, index + 1) ELSE NoKey

-----------------------------------------------------------------------------
(* BIP32Node: the number of a node is its index as it was asked for *)

Root(seed) ==
    LET I == Hmac(0, seed, 0)
    IN  [xtype |-> "standard", private |-> TRUE, key |-> I.left % CurveOrder, chaincode |-> I.right,
         depth |-> 0, fingerprint |-> NoFingerprint, number |-> 0]

NoNode == [Root(0) EXCEPT !.key = 0]
IsNode(node) == node.key # 0

ConvertToPublic(node) == [node EXCEPT !.private = FALSE]

ChildNode(node, index, child) ==
    IF ~IsNode(node) \/ child = NoKey THEN NoNode
    ELSE [node EXCEPT !.key = child.key, !.chaincode = child.chaincode, !.depth = @ + 1,
                      !.fingerprint = Fingerprint(node.key), !.number = index]

SubkeyAtPrivateDerivation(node, path) ==
    IF ~node.private THEN NoNode
    ELSE FoldLeft(LAMBDA n, index : ChildNode(n, index, CKD_priv(n.key, n.chaincode, index)), node, path)

SubkeyAtPublicDerivation(node, path) ==
    FoldLeft(LAMBDA n, index : ChildNode(n, index, CKD_pub(n.key, n.chaincode, index)), ConvertToPublic(node), path)

-----------------------------------------------------------------------------
(* Extended keys: 78 bytes, the header tells the kind of key and of script *)

Header(xtype, private) == <<xtype, private>>

ToXkey(node) ==
    [header |-> Header(node.xtype, node.private), depth |-> node.depth, fingerprint |-> node.fingerprint,
     child_number |-> node.number, chaincode |-> node.chaincode,
     key |-> IF node.private THEN OfSecret(node.key) ELSE OfPoint(node.key)]

FromXkey(xkey, allowCustomHeaders) ==
    IF ~allowCustomHeaders /\ xkey.header[1] # "standard" THEN NoNode
    ELSE [xtype |-> xkey.header[1], private |-> xkey.header[2],
          key |-> IF xkey.header[2] THEN xkey.key \div 2 ELSE (xkey.key - 1) \div 2,
          chaincode |-> xkey.chaincode, depth |-> xkey.depth, fingerprint |-> xkey.fingerprint,
          number |-> xkey.child_number]

XpubFromXprv(xprv) == ToXkey(ConvertToPublic(FromXkey(xprv, TRUE)))

-----------------------------------------------------------------------------
(* Paths: a leading "m" or none, then the parts between the slashes *)

NoPath == <<-1>>
Part(num, minus, mark) == [num |-> num, minus |-> minus, mark |-> mark]
EmptyPart == Part(0, TRUE, TRUE)

\* A number above 2^31 carries the bit itself.
IndexOfPart(part) ==
    IF (part.minus \/ part.mark) /\ ~IsHardened(part.num) THEN part.num + Prime ELSE part.num

StrpathToIntpath(strpath) ==
    LET parts == SelectSeq(strpath.parts, LAMBDA p : p # EmptyPart)
    IN  IF \E i \in DOMAIN parts : (parts[i].minus /\ parts[i].mark) \/ IndexOfPart(parts[i]) > MaxIndex
        THEN NoPath
        ELSE [i \in DOMAIN parts |-> IndexOfPart(parts[i])]

IntpathToStrpath(path) ==
    [m |-> TRUE, parts |-> [i \in DOMAIN path |-> Part(path[i] % Prime, FALSE, IsHardened(path[i]))]]

IsBip32Derivation(strpath) == strpath.m /\ StrpathToIntpath(strpath) # NoPath
NormalizeBip32Derivation(strpath) == IntpathToStrpath(StrpathToIntpath(strpath))
IsAllPublicDerivation(path) == \A i \in DOMAIN path : ~IsHardened(path[i])

-----------------------------------------------------------------------------
(* The origin of a key *)

\* What a node tells of its origin: everything at depth 0 and 1, else nothing.
RootFpAndDerPrefix(node) ==
    IF node.depth = 0 THEN <<Fingerprint(node.key), <<>>>>
    ELSE IF node.depth = 1 THEN <<node.fingerprint, <<node.number>>>>
    ELSE <<>>

IsConsistentWithOrigin(node, prefix, rootFingerprint) ==
    /\ Len(prefix) = node.depth
    /\ node.depth = 0 => rootFingerprint = Fingerprint(node.key) /\ node.number = 0
    /\ node.depth > 0 => node.number = prefix[Len(prefix)]
    /\ node.depth = 1 => rootFingerprint = node.fingerprint
=============================================================================
