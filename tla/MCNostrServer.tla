--------------------------- MODULE MCNostrServer ----------------------------
(***************************************************************************)
(* Instances of NostrServer for TLC: requests, answers of lightningd and   *)
(* states of bitcoind.                                                     *)
(***************************************************************************)
EXTENDS NostrServer

CONSTANTS h1, h2

MCRequest == [r \in Requests |->
    CASE r = "swap"    -> [kind |-> "createswap", hash |-> h1, amount |-> 30000]
      [] r = "again"   -> [kind |-> "createswap", hash |-> h1, amount |-> 30000]
      [] r = "small"   -> [kind |-> "createswap", hash |-> h2, amount |-> 20000]
      [] r = "normal"  -> [kind |-> "createnormalswap", hash |-> h1, amount |-> 25000]
      [] r = "old"     -> [kind |-> "submarine", hash |-> h1, amount |-> 0]
      [] r = "bad"     -> [kind |-> "malformed", hash |-> h1, amount |-> 0]
      [] r \in {"reply", "reply2"}   -> [kind |-> "reply", hash |-> h1, amount |-> 0]]

\* No answer: 60 sat/vB.  The first of equal block counts counts, and none
\* beyond the target.
MCEstimates == {<<>>,
    <<[blockcount |-> 2, smoothed |-> 90000], [blockcount |-> 6, smoothed |-> 20000],
      [blockcount |-> 6, smoothed |-> 1000], [blockcount |-> 12, smoothed |-> 500]>>}

Channel(total, ours, connected) == [total |-> total, ours |-> ours, connected |-> connected]
Output(msat, reserved) == [msat |-> msat, confirmed |-> TRUE, reserved |-> reserved]

MCFunds == {
    [channels |-> <<Channel(90000000, 45000000, TRUE), Channel(9000000, 0, FALSE)>>,
     outputs  |-> <<Output(40000000, FALSE)>>],
    [channels |-> <<Channel(30000000, 0, TRUE)>>, outputs |-> <<Output(40000000, TRUE)>>]}

MCNodes == {[chain |-> "headers", txindex |-> TRUE, wallet |-> "none"],
            [chain |-> "short", txindex |-> TRUE, wallet |-> "stored"],
            [chain |-> "synced", txindex |-> TRUE, wallet |-> "foreign"]}
=============================================================================
