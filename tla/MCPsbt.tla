------------------------------- MODULE MCPsbt -------------------------------
(***************************************************************************)
(* Coins of every kind: the node's p2wpkh and p2sh-p2wpkh, lockup outputs  *)
(* to claim, to get back and too small to spend, a 2-of-3 that Alice and   *)
(* Bob hold together with a third, and a legacy one of Bob's.              *)
(***************************************************************************)
EXTENDS Psbt

\* The order of the derived keys is not that of the extended keys.
MCPubkey(id, pos) == (7 * id + 5 * pos) % 11

Key(id) == [id |-> id, extended |-> FALSE, path |-> <<>>, compressed |-> TRUE]
Desc(wrap, func, thresh, ids) ==
    [wrap |-> wrap, func |-> func, thresh |-> thresh, keys |-> [i \in DOMAIN ids |-> Key(ids[i])]]
Lockup(locktime, claimed) ==
    [func |-> "swap", claimed |-> claimed,
     script |-> [Script("swap", locktime, <<MCPubkey(9, 0), MCPubkey(10, 0)>>)
                     EXCEPT !.inner = <<Script("preimage", 0, <<>>)>>]]

MCCoin == <<[desc |-> Desc(<<>>, "wpkh", 1, <<1>>), amount |-> 5],
            [desc |-> Desc(<<"sh">>, "wpkh", 1, <<2>>), amount |-> 4],
            [desc |-> Lockup(1, TRUE), amount |-> 6],
            [desc |-> Lockup(1, FALSE), amount |-> 6],
            [desc |-> Lockup(1, TRUE), amount |-> 2],
            [desc |-> Desc(<<"wsh">>, "sortedmulti", 2, <<3, 4, 5>>), amount |-> 6],
            [desc |-> Desc(<<>>, "pkh", 1, <<6>>), amount |-> 4]>>

MCNodeCoins == {1, 2}
MCLockupCoins == {3, 4, 5}
MCJointCoins == [p \in Joiners |-> IF p = "alice" THEN {6} ELSE {7}]
MCSecrets == [p \in Joiners |-> IF p = "alice" THEN {MCPubkey(3, 0)}
                                ELSE {MCPubkey(4, 0), MCPubkey(6, 0)}]
MCJointPay == [p \in Joiners |-> {Out(1, 2)}]
MCSighashTypes == 6 :> [base |-> "SINGLE", acp |-> TRUE] @@ 7 :> SighashAll
=============================================================================
