------------------------- MODULE NostrServer_proofs --------------------------
(***************************************************************************)
(* Proofs about NostrServer and the arithmetic of SwapAmounts for every    *)
(* set of requests, every fee rate and float error, all answers of         *)
(* lightningd and every bound:                                             *)
(*   - every variable keeps its type;                                      *)
(*   - the prices cover the rate and the transaction the provider pays     *)
(*     for, and an amount computed back and forth is not sold short;       *)
(*   - what a client has been told of a forward swap is in place, if       *)
(*     every request is made and delivered once.                           *)
(***************************************************************************)
EXTENDS NostrServer, FiniteSetTheorems, WellFoundedInduction, TLAPS

-----------------------------------------------------------------------------
(* The arithmetic of SwapAmounts *)

\* Rounding up: the least multiple of b that is not below a.
LEMMA CeilDivBounds ==
    ASSUME NEW a \in Int, NEW b \in Nat, b > 0
    PROVE  /\ CeilDiv(a, b) \in Int
           /\ a <= b * CeilDiv(a, b) /\ b * CeilDiv(a, b) < a + b
           /\ (a % b = 0) <=> (b * CeilDiv(a, b) = a)
<1>1. PICK q \in Int : q = (-a) \div b
  OBVIOUS
<1>2. b * q <= -a /\ -a < b * q + b
  BY <1>1
<1>3. CeilDiv(a, b) = -q
  BY <1>1 DEF CeilDiv
<1>4. b * (-q) = -(b * q)
  OBVIOUS
<1>5. (a % b = 0) <=> (b * q = -a)
  <2>1. PICK p \in Int, r \in 0..(b - 1) : p = a \div b /\ r = a % b /\ a = b * p + r
    OBVIOUS
  <2>2. ASSUME r = 0 PROVE b * q = -a
    <3>1. b * q <= b * (-p) /\ b * (-p) < b * (q + 1)
      BY <1>2, <2>1, <2>2
    <3>2. q <= -p /\ -p < q + 1
      BY <3>1
    <3>3. q = -p
      BY <3>2
    <3> QED
      BY <2>1, <2>2, <3>3
  <2>3. ASSUME b * q = -a PROVE r = 0
    <3>1. r = b * (-q - p)
      BY <2>1, <2>3
    <3>2. b * 0 <= b * (-q - p) /\ b * (-q - p) < b * 1
      BY <2>1, <3>1
    <3>3. -q - p = 0
      BY <3>2
    <3> QED
      BY <3>1, <3>3
  <2> QED
    BY <2>1, <2>2, <2>3
<1> QED
  BY <1>2, <1>3, <1>4, <1>5

\* Rounding up a float: above the exact value by at most one, and strictly
\* above it if the float is.
LEMMA FloatCeilBounds ==
    ASSUME NEW a \in Int, NEW b \in Nat, b > 0
    PROVE  /\ FloatCeil(a, b) \in Int
           /\ a <= b * FloatCeil(a, b) /\ b * FloatCeil(a, b) <= a + b
           /\ FloatError = 1 /\ a > 0 => a < b * FloatCeil(a, b)
<1>1. PICK c \in Int : c = CeilDiv(a, b)
  BY CeilDivBounds
<1>2. a <= b * c /\ b * c < a + b /\ ((a % b = 0) <=> (b * c = a))
  BY <1>1, CeilDivBounds
<1>3. CASE FloatError = 1 /\ a > 0 /\ a % b = 0
  <2>1. FloatCeil(a, b) = c + 1
    BY <1>1, <1>3 DEF FloatCeil
  <2>2. b * (c + 1) = b * c + b
    OBVIOUS
  <2> QED
    BY <1>2, <1>3, <2>1, <2>2
<1>4. CASE ~(FloatError = 1 /\ a > 0 /\ a % b = 0)
  <2>1. FloatCeil(a, b) = c
    BY <1>1, <1>4 DEF FloatCeil
  <2> QED
    BY <1>2, <1>4, <2>1
<1> QED
  BY <1>3, <1>4

\* No whole number that is at least the float, and above it if the float is
\* above the exact value, is less than the float rounded up.
LEMMA FloatCeilLeast ==
    ASSUME NEW a \in Int, NEW b \in Nat, b > 0, NEW x \in Int, a <= b * x,
           FloatError = 1 /\ a > 0 => a < b * x
    PROVE  FloatCeil(a, b) <= x
<1>1. PICK c \in Int : c = CeilDiv(a, b)
  BY CeilDivBounds
<1>2. a <= b * c /\ b * c < a + b /\ ((a % b = 0) <=> (b * c = a))
  BY <1>1, CeilDivBounds
<1>3. b * c < b * (x + 1)
  BY <1>2
<1>4. c <= x
  BY <1>3
<1>5. CASE FloatError = 1 /\ a > 0 /\ a % b = 0
  <2>1. FloatCeil(a, b) = c + 1
    BY <1>1, <1>5 DEF FloatCeil
  <2>2. b * c < b * x
    BY <1>2, <1>5
  <2>3. c < x
    BY <2>2
  <2> QED
    BY <2>1, <2>3
<1>6. CASE ~(FloatError = 1 /\ a > 0 /\ a % b = 0)
  BY <1>1, <1>4, <1>6 DEF FloatCeil
<1> QED
  BY <1>5, <1>6

\* The two directions of the price of a reverse swap: what is sent for an
\* amount buys it, and two satoshis less do not.
LEMMA ReverseBuys ==
    ASSUME NEW wanted \in Nat, NEW fee \in Nat,
           NEW price \in Int, price = FloatCeil((wanted + fee) * FeeDen, FeeDen - FeeNum)
    PROVE  /\ price - FloatCeil(price * FeeNum, FeeDen) - fee >= wanted
           /\ price - 2 - FloatCeil((price - 2) * FeeNum, FeeDen) - fee < wanted
<1>1. PICK D \in Nat, N \in Nat, M \in Nat : D = FeeDen /\ N = FeeNum /\ M = D - N /\ M > 0 /\ D > 0
  BY AmountsAssumption
<1>2. PICK A \in Nat : A = wanted + fee
  OBVIOUS
<1>3. price = FloatCeil(A * D, M)
  BY <1>1, <1>2
<1>4. A * D \in Nat
  OBVIOUS
<1>5. /\ A * D <= M * price /\ M * price <= A * D + M
      /\ FloatError = 1 /\ A * D > 0 => A * D < M * price
  BY <1>1, <1>3, <1>4, FloatCeilBounds
<1>6. M * price = D * price - price * N
  BY <1>1
<1>7. FloatCeil(price * N, D) <= price - A
  <2>1. price * N <= D * (price - A)
    BY <1>5, <1>6
  <2>2. ASSUME FloatError = 1, price * N > 0 PROVE price * N < D * (price - A)
    <3>1. A * D > 0
      <4>1. ASSUME A * D = 0 PROVE FALSE
        <5>1. M * price <= M * 1
          BY <1>5, <4>1
        <5>2. price <= 1 /\ price > 0
          BY <1>1, <2>2, <5>1
        <5>3. FloatCeil(0, M) <= 0
          BY <1>1, FloatCeilLeast
        <5> QED
          BY <1>3, <4>1, <5>2, <5>3
      <4> QED
        BY <1>4, <4>1
    <3> QED
      BY <1>5, <1>6, <2>2, <3>1
  <2> QED
    BY <1>1, <2>1, <2>2, FloatCeilLeast
<1>8. FloatCeil((price - 2) * N, D) > price - 2 - A
  <2>1. PICK a \in Int, x \in Int : a = (price - 2) * N /\ x = FloatCeil(a, D)
    <3>1. (price - 2) * N \in Int
      OBVIOUS
    <3> QED
      BY <1>1, <3>1, FloatCeilBounds
  <2>2. (price - 2) * N <= D * x
    BY <1>1, <2>1, FloatCeilBounds
  <2>3. ASSUME x <= price - 2 - A PROVE FALSE
    <3>1. D * x <= D * (price - 2 - A)
      BY <1>1, <2>3
    <3>2. (price - 2) * N <= D * (price - 2) - D * A
      BY <2>2, <3>1
    <3>3. M * (price - 2) = D * (price - 2) - (price - 2) * N
      BY <1>1
    <3>4. M * (price - 2) = M * price - 2 * M
      OBVIOUS
    <3> QED
      BY <1>1, <1>5, <3>2, <3>3, <3>4
  <2> QED
    BY <2>1, <2>3
<1>9. FloatCeil(price * N, D) \in Int /\ FloatCeil((price - 2) * N, D) \in Int
  <2>1. price * N \in Int /\ (price - 2) * N \in Int
    OBVIOUS
  <2> QED
    BY <1>1, <2>1, FloatCeilBounds
<1> QED
  BY <1>1, <1>2, <1>7, <1>8, <1>9

\* The two directions of the price of a normal swap.
LEMMA ForwardBuys ==
    ASSUME NEW wanted \in Nat,
           NEW left \in Int, left = wanted + FloatCeil(wanted * FeeNum, FeeDen)
    PROVE  /\ left - FloatCeil(left * FeeNum, FeeDen + FeeNum) >= wanted
           /\ left - 2 - FloatCeil((left - 2) * FeeNum, FeeDen + FeeNum) < wanted
<1>1. PICK D \in Nat, N \in Nat, P \in Nat : D = FeeDen /\ N = FeeNum /\ P = D + N /\ P > 0 /\ D > 0
  BY AmountsAssumption
<1>2. PICK G \in Int : G = FloatCeil(wanted * N, D)
  BY <1>1, FloatCeilBounds
<1>3. /\ wanted * N <= D * G /\ D * G <= wanted * N + D
      /\ FloatError = 1 /\ wanted * N > 0 => wanted * N < D * G
  BY <1>1, <1>2, FloatCeilBounds
<1>4. left = wanted + G
  BY <1>1, <1>2
<1>5. left * N = wanted * N + G * N /\ P * G = D * G + G * N
  BY <1>1, <1>4
<1>6. FloatCeil(left * N, P) <= G
  <2>1. left * N <= P * G
    BY <1>3, <1>5
  <2>2. ASSUME FloatError = 1, left * N > 0 PROVE left * N < P * G
    <3>1. wanted * N > 0
      <4>1. ASSUME wanted * N = 0 PROVE FALSE
        <5>1. FloatCeil(0, D) <= 0
          BY <1>1, FloatCeilLeast
        <5>2. G <= 0
          BY <1>2, <4>1, <5>1
        <5>3. wanted = 0 \/ N = 0
          BY <4>1
        <5> QED
          BY <1>4, <2>2, <5>2, <5>3
      <4> QED
        BY <4>1
    <3> QED
      BY <1>3, <1>5, <2>2, <3>1
  <2> QED
    BY <1>1, <2>1, <2>2, FloatCeilLeast
<1>7. FloatCeil((left - 2) * N, P) > G - 2
  <2>1. PICK a \in Int, x \in Int : a = (left - 2) * N /\ x = FloatCeil(a, P)
    <3>1. (left - 2) * N \in Int
      OBVIOUS
    <3> QED
      BY <1>1, <3>1, FloatCeilBounds
  <2>2. (left - 2) * N <= P * x
    BY <1>1, <2>1, FloatCeilBounds
  <2>3. ASSUME x <= G - 2 PROVE FALSE
    <3>1. P * x <= P * (G - 2)
      BY <1>1, <2>3
    <3>2. (left - 2) * N = wanted * N + G * N - 2 * N
      BY <1>4
    <3>3. P * (G - 2) = D * G - 2 * D + G * N - 2 * N
      BY <1>1
    <3> QED
      BY <1>1, <1>3, <2>2, <3>1, <3>2, <3>3
  <2> QED
    BY <2>1, <2>3
<1>8. FloatCeil(left * N, P) \in Int /\ FloatCeil((left - 2) * N, P) \in Int
  <2>1. left * N \in Int /\ (left - 2) * N \in Int
    OBVIOUS
  <2> QED
    BY <1>1, <2>1, FloatCeilBounds
<1> QED
  BY <1>1, <1>4, <1>6, <1>7, <1>8

\* The least of some numbers, and the greatest of some that are bounded.
LEMMA LeastNumber ==
    ASSUME NEW T, T \subseteq Nat, T # {}
    PROVE  Min(T) \in T /\ \A k \in T : Min(T) <= k
<1>1. PICK m \in T : \A k \in T : <<k, m>> \notin OpToRel(<, Nat)
  BY NatLessThanWellFounded, WFMin
<1>2. \A k \in T : ~(k < m)
  BY <1>1 DEF OpToRel
<1>3. \A k \in T : m <= k
  BY <1>2
<1> QED
  BY <1>3 DEF Min

LEMMA GreatestNumber ==
    ASSUME NEW b \in Nat, NEW T, T \subseteq 0..b, T # {}
    PROVE  Max(T) \in T
<1> DEFINE U == {b - k : k \in T}
<1>1. U \subseteq Nat /\ U # {}
  <2>1. \A k \in T : k \in Nat /\ b - k \in Nat
    OBVIOUS
  <2> QED
    BY <2>1
<1> HIDE DEF U
<1>2. Min(U) \in U /\ \A k \in U : Min(U) <= k
  BY <1>1, LeastNumber
<1>3. PICK m \in T : Min(U) = b - m
  BY <1>2 DEF U
<1>4. \A k \in T : m >= k
  <2> TAKE k \in T
  <2>1. b - k \in U
    BY DEF U
  <2> QED
    BY <1>2, <1>3, <2>1
<1> QED
  BY <1>4 DEF Max

LEMMA FeeRateType ==
    ASSUME NEW estimates \in Estimates PROVE FeePerKvb(estimates) \in Nat \ {0}
<1>1. 1000 * FallbackFee \in Nat \ {0}
  BY AmountsAssumption
<1>2. ASSUME Usable(estimates) # {} PROVE FeePerKvb(estimates) \in Nat \ {0}
  <2> DEFINE counts == {estimates[i].blockcount : i \in Usable(estimates)}
             widest == {i \in Usable(estimates) : estimates[i].blockcount = Max(counts)}
  <2>1. estimates \in Seq([blockcount : Nat, smoothed : Nat \ {0}])
    BY ServerAssumption
  <2>2. Usable(estimates) \subseteq Nat
        /\ \A i \in Usable(estimates) : /\ estimates[i].blockcount \in 0..TargetBlocks
                                        /\ estimates[i].smoothed \in Nat \ {0}
    <3>1. TargetBlocks \in Nat
      BY AmountsAssumption
    <3>2. ASSUME NEW i \in Usable(estimates)
          PROVE  /\ i \in Nat /\ estimates[i] \in [blockcount : Nat, smoothed : Nat \ {0}]
                 /\ estimates[i].blockcount \in 1..TargetBlocks
      <4>1. i \in DOMAIN estimates /\ estimates[i].blockcount \in 1..TargetBlocks
        BY <3>2 DEF Usable
      <4>2. i \in Nat /\ estimates[i] \in [blockcount : Nat, smoothed : Nat \ {0}]
        <5>1. ASSUME NEW R, estimates \in Seq(R) PROVE i \in Nat /\ estimates[i] \in R
          BY <4>1, <5>1
        <5> QED
          BY <2>1, <5>1
      <4> QED
        BY <4>1, <4>2
    <3> QED
      BY <3>1, <3>2
  <2>3. counts \subseteq 0..TargetBlocks /\ counts # {} /\ TargetBlocks \in Nat
    BY <1>2, <2>2, AmountsAssumption
  <2>4. Max(counts) \in counts
    BY <2>3, GreatestNumber
  <2>5. widest # {} /\ widest \subseteq Nat
    BY <2>2, <2>4
  <2>6. Min(widest) \in widest
    BY <2>5, LeastNumber
  <2>7. FeePerKvb(estimates) = estimates[Min(widest)].smoothed
    BY <1>2 DEF FeePerKvb
  <2> QED
    BY <2>2, <2>6, <2>7
<1> QED
  BY <1>1, <1>2 DEF FeePerKvb

LEMMA ChainFeeType ==
    ASSUME NEW feerate \in Nat \ {0}, NEW size \in Nat \ {0}
    PROVE  ChainFee(feerate, size) \in Nat \ {0}
<1>1. feerate * size \in Int /\ feerate * size > 0
  OBVIOUS
<1>2. CeilDiv(feerate * size, 1000) \in Int /\ feerate * size <= 1000 * CeilDiv(feerate * size, 1000)
  BY <1>1, CeilDivBounds
<1> QED
  BY <1>1, <1>2 DEF ChainFee

LEMMA ClaimFeesType == ClaimFees \subseteq Nat \ {0}
  BY FeeRateType, ChainFeeType DEF ClaimFees, ClaimFeeSize

LEMMA QuotesType ==
    Quotes \subseteq [normal : Nat, lockup : Nat, claim : Nat]
<1>1. ASSUME NEW estimates \in Estimates
      PROVE  Quote(FeePerKvb(estimates)) \in [normal : Nat, lockup : Nat, claim : Nat]
  <2>1. FeePerKvb(estimates) \in Nat \ {0} /\ 136 \in Nat \ {0} /\ 153 \in Nat \ {0}
    BY FeeRateType
  <2> QED
    BY <2>1, ChainFeeType DEF Quote, ClaimFeeSize, LockupFeeSize
<1> QED
  BY <1>1 DEF Quotes, NoQuote

\* The fee in per cent of an amount covers the configured rate of it.
LEMMA PercentageCovers ==
    ASSUME NEW x \in Nat
    PROVE  PercentageFee(x) \in Nat /\ PercentageFee(x) * FeeDen >= x * FeeNum
<1>1. PICK D \in Nat, N \in Nat : D = FeeDen /\ N = FeeNum /\ D > 0
  BY AmountsAssumption
<1>2. x * N \in Nat
  OBVIOUS
<1>3. FloatCeil(x * N, D) \in Int /\ x * N <= D * FloatCeil(x * N, D)
  BY <1>1, <1>2, FloatCeilBounds
<1>4. PICK c \in Int : c = PercentageFee(x) /\ x * N <= D * c
  BY <1>1, <1>3 DEF PercentageFee
<1>5. c >= 0
  BY <1>1, <1>2, <1>4
<1> QED
  BY <1>1, <1>4, <1>5

LEMMA DustIs == DustThreshold = 546
<1>1. PICK a \in Int, b \in Nat : a = 182 * 3 * 1000 /\ b = 1000 /\ b > 0
  OBVIOUS
<1>2. /\ CeilDiv(a, b) \in Int
      /\ a <= b * CeilDiv(a, b) /\ b * CeilDiv(a, b) < a + b
  BY <1>1, CeilDivBounds
<1>3. DustThreshold = CeilDiv(a, b)
  BY <1>1 DEF DustThreshold
<1> QED
  BY <1>1, <1>2, <1>3

\* Laws of the prices for every amount and every quote.
LEMMA PricesBuy ==
    ASSUME NEW q \in Quotes, NEW x \in Nat
    PROVE  /\ BuysWanted(SendReverse, RecvReverse, q, x, 2)
           /\ BuysWanted(SendForward, RecvForward, q, x, 2)
<1>1. q.normal \in Nat /\ q.lockup \in Nat
  BY QuotesType
<1>2. BuysWanted(SendReverse, RecvReverse, q, x, 2)
  <2>1. PICK a \in Int, M \in Nat : a = (x + q.lockup) * FeeDen /\ M = FeeDen - FeeNum /\ M > 0
    BY <1>1, AmountsAssumption
  <2>2. PICK s \in Int : s = FloatCeil((x + q.lockup) * FeeDen, FeeDen - FeeNum)
    BY <2>1, FloatCeilBounds
  <2>3. /\ s - FloatCeil(s * FeeNum, FeeDen) - q.lockup >= x
        /\ s - 2 - FloatCeil((s - 2) * FeeNum, FeeDen) - q.lockup < x
    BY <1>1, <2>2, ReverseBuys
  <2> QED
    BY <2>2, <2>3 DEF BuysWanted, SendReverse, RecvReverse, PercentageFee
<1>3. BuysWanted(SendForward, RecvForward, q, x, 2)
  <2>1. PICK a \in Int, D \in Nat : a = x * FeeNum /\ D = FeeDen /\ D > 0
    BY AmountsAssumption
  <2>2. PICK l \in Int : l = x + FloatCeil(x * FeeNum, FeeDen)
    BY <2>1, FloatCeilBounds
  <2>3. /\ l - FloatCeil(l * FeeNum, FeeDen + FeeNum) >= x
        /\ l - 2 - FloatCeil((l - 2) * FeeNum, FeeDen + FeeNum) < x
    BY <2>2, ForwardBuys
  <2>4. PICK n \in Nat : n = q.normal
    BY <1>1
  <2>5. l + n - n = l /\ l + n - 2 - n = l - 2
    OBVIOUS
  <2> QED
    BY <2>2, <2>3, <2>4, <2>5 DEF BuysWanted, SendForward, RecvForward, PercentageFee
<1> QED
  BY <1>2, <1>3 DEF BuysWanted

-----------------------------------------------------------------------------
(* The start-up and the buffer of HTLCs *)

HookInv ==
    /\ HookTypeOK
    /\ Len(buffer) + (IF arriving = Nothing THEN 0 ELSE 1) <= Cardinality(arrived)
    /\ next <= Len(buffer) + 1

\* What has arrived is counted, and no more than there is.
LEMMA ArrivedCounts ==
    ASSUME NEW A, A \subseteq Htlcs, NEW h \in Htlcs \ A
    PROVE  /\ Cardinality(A) \in Nat /\ Cardinality(A) <= Cardinality(Htlcs)
           /\ Cardinality(Htlcs) \in Nat
           /\ Cardinality(A \cup {h}) = Cardinality(A) + 1
  BY HtlcsAssumption, FS_Subset, FS_CardinalityType, FS_AddElement

LEMMA SomeCounts ==
    ASSUME NEW A, A \subseteq Htlcs
    PROVE  /\ Cardinality(A) \in Nat /\ Cardinality(A) <= Cardinality(Htlcs)
           /\ Cardinality(Htlcs) \in Nat
  BY HtlcsAssumption, FS_Subset, FS_CardinalityType

\* An HTLC that is between its test and its place in the list is no Nothing.
LEMMA ArrivingIs ==
    ASSUME HookTypeOK
    PROVE  arriving.list \in {"unread", "current", "replaced"} =>
               arriving # Nothing /\ arriving \in [htlc : Htlcs, list : {"unread", "current", "replaced"}]
  BY DEF HookTypeOK, Nothing

LEMMA HandlerHookInv ==
    ASSUME HookInv, Handler PROVE HookInv'
<1>1. ASSUME NEW h \in Htlcs, HandlerCalls(h) PROVE HookInv'
  BY <1>1, ArrivedCounts DEF HandlerCalls, Arrives, HookInv, HookTypeOK, startVars
<1>2. ASSUME NEW h \in Htlcs, HandlerTests(h) PROVE HookInv'
  <2>1. arriving' \in [htlc : Htlcs, list : {"unread", "current", "replaced"}]
    BY <1>2 DEF HandlerTests
  <2>2. arriving = Nothing /\ h \in Htlcs \ arrived /\ arrived' = arrived \cup {h}
    BY <1>2 DEF HandlerTests, Arrives
  <2>3. arrived \subseteq Htlcs /\ arrived' \subseteq Htlcs
    BY <2>2 DEF HookInv, HookTypeOK
  <2>4. Cardinality(arrived') = Cardinality(arrived) + 1 /\ Cardinality(arrived) \in Nat
    BY <2>2, <2>3, ArrivedCounts
  <2>5. Len(buffer) <= Cardinality(arrived) /\ Len(buffer) \in Nat
    BY <2>2 DEF HookInv, HookTypeOK
  <2> QED
    BY <1>2, <2>1, <2>3, <2>4, <2>5 DEF HandlerTests, HookInv, HookTypeOK, startVars
<1>3. CASE HandlerReads
  <2>1. arriving # Nothing /\ arriving \in [htlc : Htlcs, list : {"unread", "current", "replaced"}]
    BY <1>3, ArrivingIs DEF HandlerReads, HookInv
  <2>2. arriving' # Nothing /\ arriving' \in [htlc : Htlcs, list : {"unread", "current", "replaced"}]
    BY <1>3, <2>1 DEF HandlerReads, Nothing
  <2> QED
    BY <1>3, <2>1, <2>2 DEF HandlerReads, HookInv, HookTypeOK, startVars
<1>4. CASE HandlerAppends
  <2>1. arriving # Nothing /\ arriving \in [htlc : Htlcs, list : {"unread", "current", "replaced"}]
    BY <1>4, ArrivingIs DEF HandlerAppends, HookInv
  <2>2. buffer \in Seq(Htlcs) /\ Len(buffer) + 1 <= Cardinality(arrived)
    BY <2>1 DEF HookInv, HookTypeOK
  <2>3. buffer' \in Seq(Htlcs) /\ Len(buffer') \in Len(buffer)..(Len(buffer) + 1)
    BY <1>4, <2>1, <2>2 DEF HandlerAppends
  <2>4. arriving' = Nothing /\ Cardinality(arrived) \in Nat
    BY <1>4, SomeCounts DEF HandlerAppends, HookInv, HookTypeOK
  <2> QED
    BY <1>4, <2>2, <2>3, <2>4 DEF HandlerAppends, HookInv, HookTypeOK, startVars
<1> QED
  BY <1>1, <1>2, <1>3, <1>4 DEF Handler

LEMMA SetHookInv ==
    ASSUME HookInv, SetHook PROVE HookInv'
<1>1. Cardinality(arrived) \in Nat /\ Cardinality(arrived) <= Cardinality(Htlcs) /\ Cardinality(Htlcs) \in Nat
  BY SomeCounts DEF HookInv, HookTypeOK
<1>2. Len(buffer) \in Nat /\ Len(buffer) <= Cardinality(Htlcs)
  BY <1>1 DEF HookInv, HookTypeOK
<1>3. CASE SetReady
  BY <1>3 DEF SetReady, HookInv, HookTypeOK, startVars
<1>4. CASE ReplayNothing
  BY <1>4 DEF ReplayNothing, HookInv, HookTypeOK, hookVars, Steps
<1>5. CASE ReplayStarts
  BY <1>1, <1>2, <1>5 DEF ReplayStarts, HookInv, HookTypeOK, startVars
<1>6. CASE ReplayHands
  <2>1. next \in 1..Len(buffer) /\ buffer[next] \in Htlcs
    BY <1>6 DEF ReplayHands, HookInv, HookTypeOK
  <2>2. next' \in 0..(Cardinality(Htlcs) + 1) /\ next' <= Len(buffer) + 1
    BY <1>1, <1>2, <1>6, <2>1 DEF ReplayHands
  <2>3. handed' \subseteq Htlcs
    BY <1>6, <2>1 DEF ReplayHands, HookInv, HookTypeOK
  <2> QED
    BY <1>6, <2>2, <2>3 DEF ReplayHands, HookInv, HookTypeOK, startVars
<1>7. CASE ReplayEnds
  <2>1. /\ arriving' \in {Nothing} \cup [htlc : Htlcs, list : {"unread", "current", "replaced"}]
        /\ (arriving' = Nothing) <=> (arriving = Nothing)
    BY <1>7, ArrivingIs DEF ReplayEnds, HookInv, HookTypeOK, Nothing
  <2>2. buffer' \in Seq(Htlcs) /\ Len(buffer') = 0 /\ next' = 0
    BY <1>7 DEF ReplayEnds
  <2>3. (IF arriving = Nothing THEN 0 ELSE 1) <= Cardinality(arrived)
    BY <1>1, <1>2 DEF HookInv
  <2> QED
    BY <1>1, <1>7, <2>1, <2>2, <2>3 DEF ReplayEnds, HookInv, HookTypeOK, Steps
<1> QED
  BY <1>3, <1>4, <1>5, <1>6, <1>7 DEF SetHook

LEMMA HookInvStep ==
    ASSUME HookInv, HookNext PROVE HookInv'
<1>1. ASSUME UNCHANGED hookVars,
             startup' \in Steps \cup {"running", "failed"},
             node' \in [chain : Chains, txindex : BOOLEAN, wallet : Wallets]
      PROVE  HookInv'
  BY <1>1 DEF HookInv, HookTypeOK, hookVars
<1>2. CASE Initialize
  <2>1. startup' \in Steps \cup {"running", "failed"}
    BY <1>2 DEF Initialize, PluginAnswers, ConfigLoads, StorageLoads, NodeAnswers, WalletLoads,
                NodeSynced, ManagerStarts, StepRaises, StepsTo, Steps
  <2>2. node' \in [chain : Chains, txindex : BOOLEAN, wallet : Wallets]
    BY <1>2 DEF Initialize, PluginAnswers, ConfigLoads, StorageLoads, NodeAnswers, WalletLoads,
                NodeSynced, ManagerStarts, StepRaises, HookInv, HookTypeOK, Wallets
  <2>3. UNCHANGED hookVars
    BY <1>2 DEF Initialize, PluginAnswers, ConfigLoads, StorageLoads, NodeAnswers, WalletLoads,
                NodeSynced, ManagerStarts, StepRaises
  <2> QED
    BY <1>1, <2>1, <2>2, <2>3
<1>3. CASE NodeSyncs
  BY <1>1, <1>3 DEF NodeSyncs, HookInv, HookTypeOK, Chains
<1> QED
  BY <1>2, <1>3, HandlerHookInv, SetHookInv DEF HookNext

LEMMA HookInvInit ==
    ASSUME HookInit PROVE HookInv
<1>1. Cardinality({}) \in Nat /\ Cardinality({}) <= Cardinality(Htlcs) /\ Cardinality(Htlcs) \in Nat
  BY SomeCounts
<1>2. <<>> \in Seq(Htlcs) /\ Len(<<>>) = 0
  OBVIOUS
<1>3. node \in [chain : Chains, txindex : BOOLEAN, wallet : Wallets]
  BY NodesAssumption DEF HookInit
<1>4. buffer \in Seq(Htlcs) /\ Len(buffer) = 0 /\ next = 0 /\ arriving = Nothing /\ arrived = {}
  BY <1>2 DEF HookInit
<1>5. HookTypeOK
  <2>1. next \in 0..(Cardinality(Htlcs) + 1)
    BY <1>1, <1>4
  <2>2. startup \in Steps /\ ready \in BOOLEAN /\ arrived \subseteq Htlcs /\ handed \subseteq Htlcs
    BY DEF HookInit, Steps
  <2> QED
    BY <1>3, <1>4, <2>1, <2>2 DEF HookTypeOK
<1> QED
  BY <1>1, <1>4, <1>5 DEF HookInv

-----------------------------------------------------------------------------
(* The transport and the requests *)

\* What a price leaves the provider, see PricesAddUp.
Priced(deal) ==
    deal.onchain # NoAmount =>
        IF deal.kind = "createswap"
        THEN /\ (deal.price - deal.onchain - deal.quote.lockup) * FeeDen >= deal.price * FeeNum
             /\ deal.onchain >= DustThreshold
        ELSE (deal.onchain - deal.lightning - deal.quote.claim) * FeeDen >= deal.lightning * FeeNum

GoodDeal(deal) == IsDeal(deal) /\ Priced(deal)

LoopOK ==
    /\ server \in {"off", "connecting", "updating", "publishing", "resting", "stopping"}
    /\ restarts \in 0..MaxRestarts /\ initialized \in BOOLEAN
    /\ quote \in Quotes

InboxOK ==
    /\ inbox \subseteq sent /\ sent \subseteq Requests /\ handled \in 0..MaxHandled
    /\ IsFiniteSet(inbox) /\ Cardinality(inbox) + handled <= MaxHandled

\* A request that is handled is one of the instance; past the first await of a
\* swap there is a deal.
Handling(h) ==
    /\ h.req \in Requests /\ handled \in Handled
    /\ h.at \in {"height", "register", "reply"}
    /\ h.deal = NoDeal \/ GoodDeal(h.deal)
    /\ h.at \in {"height", "register"} => Request[h.req].kind \in {"createswap", "createnormalswap"}
    /\ h.at = "register" => GoodDeal(h.deal)

HandlerOK ==
    /\ listener \in {"off", "idle", "busy", "ended"}
    /\ (listener = "busy") <=> (handler # Idle)
    /\ server \in {"off", "connecting"} => listener = "off"
    /\ handler # Idle => Handling(handler)

BookOK ==
    /\ \A key \in DOMAIN swaps : GoodDeal(swaps[key]) /\ swaps[key].key = key
    /\ \A key \in DOMAIN invoices :
          invoices[key].token \in Handled /\ invoices[key].amount > 0 /\ invoices[key].prepay > 0
    /\ watched \subseteq Handled

RepliesOK == \A reply \in replies : reply.deal = NoDeal \/ GoodDeal(reply.deal)

ServerInv == LoopOK /\ InboxOK /\ HandlerOK /\ BookOK /\ RepliesOK

LEMMA RequestType ==
    ASSUME NEW r \in Requests
    PROVE  Request[r].kind \in Kinds /\ Request[r].amount \in Nat
  BY ServerAssumption

LEMMA LoopInv ==
    ASSUME ServerInv, Loop PROVE ServerInv'
<1>1. CASE ServerStarts
  BY <1>1 DEF ServerStarts, listenVars, bookVars, ServerInv, LoopOK, InboxOK, HandlerOK, BookOK,
              RepliesOK, Handling
<1>2. CASE Connects
  <2>1. handler = Idle
    BY <1>2 DEF Connects, ServerInv, HandlerOK
  <2> QED
    BY <1>2, <2>1 DEF Connects, bookVars, ServerInv, LoopOK, InboxOK, HandlerOK, BookOK, RepliesOK
<1>3. CASE UpdatesPairs
  <2>1. quote' \in Quotes
    BY <1>3 DEF UpdatesPairs, Quotes
  <2> QED
    BY <1>3, <2>1 DEF UpdatesPairs, listenVars, bookVars, ServerInv, LoopOK, InboxOK, HandlerOK,
                      BookOK, RepliesOK, Handling
<1>4. CASE Publishes
  BY <1>4 DEF Publishes, listenVars, bookVars, ServerInv, LoopOK, InboxOK, HandlerOK, BookOK,
              RepliesOK, Handling
<1>5. CASE PublishTimesOut
  <2>1. restarts' \in 0..MaxRestarts
    BY <1>5, ServerAssumption DEF PublishTimesOut, ServerInv, LoopOK
  <2> QED
    BY <1>5, <2>1 DEF PublishTimesOut, listenVars, bookVars, ServerInv, LoopOK, InboxOK, HandlerOK,
                      BookOK, RepliesOK, Handling
<1>6. CASE Stops
  <2>1. InboxOK'
    BY <1>6, FS_EmptySet, ServerAssumption DEF Stops, ServerInv, InboxOK
  <2> QED
    BY <1>6, <2>1 DEF Stops, bookVars, ServerInv, LoopOK, HandlerOK, BookOK, RepliesOK
<1> QED
  BY <1>1, <1>2, <1>3, <1>4, <1>5, <1>6 DEF Loop

LEMMA RaisesInv ==
    ASSUME ServerInv, PublishRaises PROVE ServerInv'
<1>1. InboxOK'
  BY FS_EmptySet, ServerAssumption DEF PublishRaises, ServerInv, InboxOK
<1> QED
  BY <1>1 DEF PublishRaises, bookVars, ServerInv, LoopOK, HandlerOK, BookOK, RepliesOK

LEMMA ClientInv ==
    ASSUME ServerInv, NEW r \in Requests, ClientSends(r) PROVE ServerInv'
<1>1. /\ IsFiniteSet(inbox) /\ handled \in Nat /\ MaxHandled \in Nat
      /\ inbox' = inbox \cup {r} /\ r \notin inbox /\ Cardinality(inbox) + handled < MaxHandled
  BY ServerAssumption DEF ClientSends, ServerInv, InboxOK
<1>2. IsFiniteSet(inbox') /\ Cardinality(inbox') = Cardinality(inbox) + 1 /\ Cardinality(inbox) \in Nat
  BY <1>1, FS_AddElement, FS_CardinalityType
<1>3. InboxOK'
  BY <1>1, <1>2 DEF ClientSends, ServerInv, InboxOK
<1> QED
  BY <1>3 DEF ClientSends, loopVars, bookVars, ServerInv, LoopOK, HandlerOK, BookOK, RepliesOK, Handling

\* The listener takes a request out of the inbox.
LEMMA TakesInbox ==
    ASSUME ServerInv, NEW r \in Requests, Takes(r), sent' = sent
    PROVE  InboxOK' /\ handled' \in Handled /\ handler = Idle /\ server \notin {"off", "connecting"}
<1>1. /\ IsFiniteSet(inbox) /\ handled \in Nat /\ MaxHandled \in Nat /\ r \in inbox
      /\ inbox' = inbox \ {r} /\ handled' = handled + 1 /\ Cardinality(inbox) + handled <= MaxHandled
  BY ServerAssumption DEF Takes, ServerInv, InboxOK
<1>2. /\ IsFiniteSet(inbox') /\ Cardinality(inbox') = Cardinality(inbox) - 1
      /\ Cardinality(inbox) \in Nat /\ Cardinality(inbox') \in Nat
  BY <1>1, FS_RemoveElement, FS_CardinalityType
<1>3. InboxOK' /\ handled' \in Handled
  BY <1>1, <1>2 DEF ServerInv, InboxOK, Handled
<1> QED
  BY <1>3 DEF Takes, ServerInv, HandlerOK

LEMMA GoesToKeeps ==
    ASSUME NEW r, NEW at, NEW deal, GoesTo(r, at, deal), at # "none",
           server' \notin {"off", "connecting"}, Handling([req |-> r, at |-> at, deal |-> deal])'
    PROVE  HandlerOK'
  BY DEF GoesTo, HandlerOK, Idle

LEMMA EndsKeeps ==
    ASSUME Ends, server' \notin {"off", "connecting"} PROVE HandlerOK'
  BY DEF Ends, HandlerOK

LEMMA TakesInv ==
    ASSUME ServerInv, NEW r \in Requests,
           \/ TakesReply(r) \/ TakesMalformed(r) \/ TakesUnsupported(r) \/ TakesSwap(r) \/ Rejects(r)
    PROVE  ServerInv'
<1>1. /\ Takes(r) /\ UNCHANGED <<loopVars, sent, bookVars, replies>>
      /\ UNCHANGED <<listener, handler>> \/ Ends \/ GoesTo(r, "reply", NoDeal)
         \/ (GoesTo(r, "height", NoDeal) /\ Request[r].kind \in {"createswap", "createnormalswap"})
  BY DEF TakesReply, TakesMalformed, TakesUnsupported, TakesSwap, Rejects
<1>2. InboxOK' /\ handled' \in Handled /\ handler = Idle /\ server \notin {"off", "connecting"}
  BY <1>1, TakesInbox
<1>3. server' \notin {"off", "connecting"}
  BY <1>1, <1>2 DEF loopVars
<1>4. HandlerOK'
  <2>1. CASE UNCHANGED <<listener, handler>>
    BY <1>2, <1>3, <2>1 DEF ServerInv, HandlerOK
  <2>2. CASE Ends
    BY <1>3, <2>2, EndsKeeps
  <2>3. CASE GoesTo(r, "reply", NoDeal)
    <3>1. Handling([req |-> r, at |-> "reply", deal |-> NoDeal])'
      BY <1>2 DEF Handling
    <3> QED
      BY <1>3, <2>3, <3>1, GoesToKeeps
  <2>4. CASE GoesTo(r, "height", NoDeal) /\ Request[r].kind \in {"createswap", "createnormalswap"}
    <3>1. Handling([req |-> r, at |-> "height", deal |-> NoDeal])'
      BY <1>2, <2>4 DEF Handling
    <3> QED
      BY <1>3, <2>4, <3>1, GoesToKeeps
  <2> QED
    BY <1>1, <2>1, <2>2, <2>3, <2>4
<1> QED
  BY <1>1, <1>2, <1>4 DEF loopVars, bookVars, ServerInv, LoopOK, BookOK, RepliesOK

\* What is known where a handler comes back from an await.
LEMMA AwaitsHandling ==
    ASSUME ServerInv, NEW at \in {"height", "register", "reply"}, Awaits(at)
    PROVE  /\ Handling(handler) /\ handler.at = at /\ server \notin {"off", "connecting"}
           /\ Amount \in Nat /\ handled \in Handled /\ quote \in Quotes
<1>1. handler # Idle /\ handler.at = at
  BY DEF Awaits, Idle
<1>2. Handling(handler) /\ server \notin {"off", "connecting"} /\ quote \in Quotes
  BY <1>1 DEF ServerInv, HandlerOK, LoopOK
<1> QED
  BY <1>1, <1>2, RequestType DEF Handling, Amount

LEMMA HandlerEndsInv ==
    ASSUME ServerInv, NEW at \in {"height", "register", "reply"}, Awaits(at), Ends,
           UNCHANGED <<loopVars, inbox, sent, handled, resolved, bookVars, replies>>
    PROVE  ServerInv'
<1>1. HandlerOK'
  BY AwaitsHandling, EndsKeeps DEF loopVars
<1> QED
  BY <1>1 DEF loopVars, bookVars, ServerInv, LoopOK, InboxOK, BookOK, RepliesOK

\* The invoices stay as they should when one is saved.
LEMMA SavesInvoiceKeeps ==
    ASSUME ServerInv, handled \in Handled, Amount \in Nat, NEW fee \in ClaimFees,
           Payable(fee), SavesInvoice(fee)
    PROVE  \A key \in DOMAIN invoices' :
              invoices'[key].token \in Handled /\ invoices'[key].amount > 0 /\ invoices'[key].prepay > 0
<1>1. fee \in Nat \ {0}
  BY ClaimFeesType
<1>2. HoldInvoice(fee).token \in Handled /\ HoldInvoice(fee).amount > 0 /\ HoldInvoice(fee).prepay > 0
  BY <1>1 DEF HoldInvoice, Payable, PrepayAmount
<1>3. \A key \in DOMAIN invoices' : \/ key \in DOMAIN invoices /\ invoices'[key] = invoices[key]
                                    \/ invoices'[key] = HoldInvoice(fee)
  BY DEF SavesInvoice, With
<1> QED
  BY <1>2, <1>3 DEF ServerInv, BookOK

LEMMA AddsSwapKeeps ==
    ASSUME ServerInv, NEW deal, GoodDeal(deal), AddsSwap(deal)
    PROVE  \A key \in DOMAIN swaps' : GoodDeal(swaps'[key]) /\ swaps'[key].key = key
<1>1. \A key \in DOMAIN swaps' : \/ key \in DOMAIN swaps /\ swaps'[key] = swaps[key]
                                 \/ key = deal.key /\ swaps'[key] = deal
  BY DEF AddsSwap, With
<1> QED
  BY <1>1 DEF ServerInv, BookOK

LEMMA QuoteClaims == \A q \in Quotes : q.normal = q.claim
  BY DEF Quotes, Quote, NoQuote

\* A forward swap is priced so that the provider has its fees, and so is a
\* normal swap, whatever the prices were when the client asked.
LEMMA ForwardDeal ==
    ASSUME ServerInv, Awaits("height"), Kind = "createswap", NEW fee \in ClaimFees,
           NEW deal, deal = Deal(Hash, RecvReverse(Amount, quote), InvoiceAmount(Amount, fee) + PrepayAmount(fee))
    PROVE  GoodDeal(deal) /\ deal.kind = "createswap" /\ deal.key = Hash /\ deal.token = handled
           /\ deal.price = InvoiceAmount(Amount, fee) + PrepayAmount(fee)
<1>1. PICK x \in Nat, c \in Nat, q \in Quotes : x = Amount /\ c = fee /\ q = quote
  BY AwaitsHandling, ClaimFeesType
<1>2. PICK p \in Nat : p = PercentageFee(x) /\ p * FeeDen >= x * FeeNum
  BY PercentageCovers
<1>3. InvoiceAmount(x, c) + PrepayAmount(c) = x
  BY DEF InvoiceAmount, PrepayAmount
<1>4. PICK l \in Nat : l = q.lockup
  BY QuotesType
<1>5. PICK o \in Int : /\ o = RecvReverse(x, q)
                       /\ o # NoAmount => o = x - p - l /\ o >= DustThreshold
  BY <1>2, <1>4 DEF RecvReverse, NoAmount
<1>6. deal = [kind |-> "createswap", token |-> handled, key |-> Hash, lightning |-> x,
              onchain |-> o, quote |-> q, price |-> x]
  BY <1>1, <1>3, <1>5 DEF Deal
<1>7. o \in Nat \cup {NoAmount}
  BY <1>5, DustIs
<1>8. IsDeal(deal)
  BY <1>6, <1>7, AwaitsHandling DEF IsDeal
<1>9. o # NoAmount => (x - o - l) * FeeDen >= x * FeeNum /\ o >= DustThreshold
  <2>1. o # NoAmount => x - o - l = p
    BY <1>5
  <2> QED
    BY <1>2, <1>5, <2>1
<1>10. Priced(deal)
  BY <1>4, <1>6, <1>9 DEF Priced
<1> QED
  BY <1>1, <1>3, <1>6, <1>8, <1>10 DEF GoodDeal

LEMMA NormalDeal ==
    ASSUME ServerInv, Awaits("height"), Kind = "createnormalswap",
           NEW deal, deal = Deal(handled, SendForward(Amount, quote), Amount)
    PROVE  GoodDeal(deal) /\ deal.kind = "createnormalswap" /\ deal.key = handled /\ deal.token = handled
<1>1. PICK x \in Nat, q \in Quotes : x = Amount /\ q = quote
  BY AwaitsHandling
<1>2. PICK p \in Nat : p = PercentageFee(x) /\ p * FeeDen >= x * FeeNum
  BY PercentageCovers
<1>3. PICK n \in Nat : n = q.normal /\ n = q.claim
  BY QuotesType, QuoteClaims
<1>4. PICK o \in Int : o = SendForward(x, q) /\ (o # NoAmount => o = x + p + n) /\ o \in Nat \cup {NoAmount}
  BY <1>2, <1>3 DEF SendForward, NoAmount
<1>5. deal = [kind |-> "createnormalswap", token |-> handled, key |-> handled, lightning |-> x,
              onchain |-> o, quote |-> q, price |-> x]
  BY <1>1, <1>4 DEF Deal
<1>6. IsDeal(deal)
  BY <1>4, <1>5, AwaitsHandling DEF IsDeal
<1>7. o # NoAmount => (o - x - n) * FeeDen >= x * FeeNum
  <2>1. o # NoAmount => o - x - n = p
    BY <1>4
  <2> QED
    BY <1>2, <2>1
<1>8. Priced(deal)
  BY <1>3, <1>5, <1>7 DEF Priced
<1> QED
  BY <1>5, <1>6, <1>8 DEF GoodDeal

\* The handler goes on with a deal, after a step that keeps the books in order.
LEMMA GoesOnKeeps ==
    ASSUME ServerInv, NEW at \in {"height", "register"}, Awaits(at),
           NEW to \in {"register", "reply"}, NEW deal, GoodDeal(deal), GoesTo(handler.req, to, deal),
           UNCHANGED <<loopVars, inbox, sent, handled, resolved, replies>>, BookOK'
    PROVE  ServerInv'
<1>1. Handling(handler) /\ server \notin {"off", "connecting"}
  BY AwaitsHandling
<1>2. Handling([req |-> handler.req, at |-> to, deal |-> deal])
  BY <1>1, AwaitsHandling DEF Handling
<1>3. handler' = [req |-> handler.req, at |-> to, deal |-> deal] /\ listener' = "busy"
  BY DEF GoesTo
<1>4. HandlerOK'
  BY <1>1, <1>2, <1>3 DEF HandlerOK, Handling, loopVars, Idle
<1> QED
  BY <1>4 DEF loopVars, ServerInv, LoopOK, InboxOK, RepliesOK

LEMMA HandlerInv ==
    ASSUME ServerInv,
           \/ HeightRaises \/ InvoiceRaises \/ PrepayRaises \/ CreatesForward \/ PricesReverse
           \/ RegistersForward \/ RegistersReverse \/ RegisterRaises \/ Replies \/ ReplyRaises
    PROVE  ServerInv'
<1>1. CASE HeightRaises
  BY <1>1, HandlerEndsInv DEF HeightRaises
<1>2. CASE InvoiceRaises
  BY <1>2, HandlerEndsInv DEF InvoiceRaises
<1>3. CASE RegisterRaises
  BY <1>3, HandlerEndsInv DEF RegisterRaises
<1>4. CASE ReplyRaises
  BY <1>4, HandlerEndsInv DEF ReplyRaises
<1>5. CASE PrepayRaises
  <2>1. PICK fee \in ClaimFees : Payable(fee) /\ SavesInvoice(fee)
    BY <1>5 DEF PrepayRaises
  <2>2. Awaits("height") /\ Ends
    BY <1>5 DEF PrepayRaises
  <2>3. HandlerOK'
    BY <1>5, <2>2, AwaitsHandling, EndsKeeps DEF PrepayRaises, loopVars
  <2>4. BookOK'
    BY <1>5, <2>1, <2>2, AwaitsHandling, SavesInvoiceKeeps DEF PrepayRaises, ServerInv, BookOK
  <2> QED
    BY <1>5, <2>3, <2>4 DEF PrepayRaises, loopVars, ServerInv, LoopOK, InboxOK, RepliesOK
<1>6. CASE CreatesForward
  <2>0. PICK fee \in ClaimFees : \E deal :
           /\ deal = Deal(Hash, RecvReverse(Amount, quote), InvoiceAmount(Amount, fee) + PrepayAmount(fee))
           /\ Payable(fee) /\ SavesInvoice(fee) /\ AddsSwap(deal) /\ GoesTo(handler.req, "register", deal)
    BY <1>6 DEF CreatesForward
  <2>1. PICK deal :
           /\ deal = Deal(Hash, RecvReverse(Amount, quote), InvoiceAmount(Amount, fee) + PrepayAmount(fee))
           /\ Payable(fee) /\ SavesInvoice(fee) /\ AddsSwap(deal) /\ GoesTo(handler.req, "register", deal)
    BY <2>0
  <2>2. Awaits("height") /\ Kind = "createswap"
    BY <1>6 DEF CreatesForward
  <2>3. GoodDeal(deal)
    BY <2>1, <2>2, ForwardDeal
  <2>4. BookOK'
    BY <1>6, <2>1, <2>2, <2>3, AwaitsHandling, SavesInvoiceKeeps, AddsSwapKeeps
       DEF CreatesForward, ServerInv, BookOK
  <2> QED
    BY <1>6, <2>1, <2>2, <2>3, <2>4, GoesOnKeeps DEF CreatesForward
<1>7. CASE PricesReverse
  <2>1. PICK deal : deal = Deal(handled, SendForward(Amount, quote), Amount)
                    /\ GoesTo(handler.req, "register", deal)
    BY <1>7 DEF PricesReverse
  <2>2. Awaits("height") /\ Kind = "createnormalswap"
    BY <1>7 DEF PricesReverse
  <2>3. GoodDeal(deal)
    BY <2>1, <2>2, NormalDeal
  <2>4. BookOK'
    BY <1>7 DEF PricesReverse, bookVars, ServerInv, BookOK
  <2> QED
    BY <1>7, <2>1, <2>2, <2>3, <2>4, GoesOnKeeps DEF PricesReverse, bookVars
<1>8. CASE RegistersForward \/ RegistersReverse
  <2>1. Awaits("register") /\ GoesTo(handler.req, "reply", handler.deal)
    BY <1>8 DEF RegistersForward, RegistersReverse
  <2>2. GoodDeal(handler.deal) /\ handler.deal.token \in Handled
    BY <2>1, AwaitsHandling DEF Handling, GoodDeal, IsDeal
  <2>3. watched' \subseteq Handled
    BY <1>8, <2>2 DEF RegistersForward, RegistersReverse, ServerInv, BookOK
  <2>4. \A key \in DOMAIN swaps' : GoodDeal(swaps'[key]) /\ swaps'[key].key = key
    BY <1>8, <2>2, AddsSwapKeeps DEF RegistersForward, RegistersReverse, ServerInv, BookOK
  <2>5. BookOK'
    BY <1>8, <2>3, <2>4 DEF RegistersForward, RegistersReverse, ServerInv, BookOK
  <2> QED
    BY <1>8, <2>1, <2>2, <2>5, GoesOnKeeps DEF RegistersForward, RegistersReverse
<1>9. CASE Replies
  <2>1. Handling(handler) /\ server \notin {"off", "connecting"}
    BY <1>9, AwaitsHandling DEF Replies
  <2>2. RepliesOK'
    BY <1>9, <2>1 DEF Replies, Handling, ServerInv, RepliesOK
  <2>3. HandlerOK'
    BY <1>9, <2>1 DEF Replies, HandlerOK, loopVars
  <2> QED
    BY <1>9, <2>2, <2>3 DEF Replies, loopVars, bookVars, ServerInv, LoopOK, InboxOK, BookOK
<1> QED
  BY <1>1, <1>2, <1>3, <1>4, <1>5, <1>6, <1>7, <1>8, <1>9

LEMMA ServerInvStep ==
    ASSUME ServerInv, [Next]_vars PROVE ServerInv'
<1>1. ASSUME UNCHANGED serverVars PROVE ServerInv'
  BY <1>1 DEF serverVars, loopVars, listenVars, bookVars, ServerInv, LoopOK, InboxOK, HandlerOK,
              BookOK, RepliesOK, Handling
<1>2. ASSUME Listener PROVE ServerInv'
  BY <1>2, TakesInv, HandlerInv DEF Listener
<1>3. ASSUME ServerNext PROVE ServerInv'
  BY <1>2, <1>3, LoopInv, ClientInv, RaisesInv DEF ServerNext, Clients
<1> QED
  BY <1>1, <1>3 DEF Next, vars

LEMMA ServerInvInit ==
    ASSUME ServerInit PROVE ServerInv
<1>1. IsFiniteSet({}) /\ Cardinality({}) = 0
  BY FS_EmptySet
<1>2. InboxOK
  BY <1>1, ServerAssumption DEF ServerInit, InboxOK
<1>3. LoopOK
  <2>1. NoQuote \in Quotes /\ 0 \in 0..MaxRestarts
    BY ServerAssumption DEF Quotes
  <2> QED
    BY <2>1 DEF ServerInit, LoopOK
<1>4. HandlerOK /\ RepliesOK /\ BookOK
  BY DEF ServerInit, HandlerOK, RepliesOK, BookOK
<1> QED
  BY <1>2, <1>3, <1>4 DEF ServerInv

LEMMA HookInvNext ==
    ASSUME HookInv, [Next]_vars PROVE HookInv'
<1>1. ASSUME UNCHANGED hookVars, node' = node, startup' = startup \/ startup' = "failed" PROVE HookInv'
  BY <1>1 DEF HookInv, HookTypeOK, hookVars
<1>2. ASSUME ServerNext PROVE HookInv'
  BY <1>1, <1>2 DEF ServerNext, PublishRaises, startVars
<1> QED
  BY <1>1, <1>2, HookInvStep DEF Next, vars, startVars

LEMMA SpecInv == Spec => [](HookInv /\ ServerInv)
<1>1. Init => HookInv /\ ServerInv
  BY HookInvInit, ServerInvInit DEF Init
<1>2. HookInv /\ ServerInv /\ [Next]_vars => (HookInv /\ ServerInv)'
  BY HookInvNext, ServerInvStep
<1> QED
  BY <1>1, <1>2, PTL DEF Spec

\* Every variable of the server and of the start-up has its type, every swap
\* is filed under its key, every invoice has an amount, and the listener is
\* busy exactly when a request is handled.
THEOREM ServerTypes == Spec => []TypeOK
<1>1. HookInv /\ ServerInv => TypeOK
  <2> SUFFICES ASSUME HookInv, ServerInv PROVE TypeOK
    OBVIOUS
  <2>1. handler.at \in {"none", "height", "register", "reply"}
        /\ (handler.deal = NoDeal \/ IsDeal(handler.deal))
    BY DEF ServerInv, HandlerOK, Handling, GoodDeal, Idle
  <2> QED
    BY <2>1 DEF TypeOK, HookInv, ServerInv, LoopOK, InboxOK, HandlerOK, BookOK, RepliesOK, GoodDeal
<1> QED
  BY <1>1, SpecInv, PTL

\* The prices leave the provider its fees: for every rate, every estimate of
\* the fees and every amount a client asks for, what is agreed covers the
\* configured rate and the transaction the provider pays for, and an amount
\* computed back and forth is never sold short.
THEOREM PricesLeaveFees == Spec => []PricesAddUp
<1>1. ServerInv => PricesAddUp
  <2> SUFFICES ASSUME ServerInv PROVE PricesAddUp
    OBVIOUS
  <2>1. \A key \in DOMAIN swaps : Priced(swaps[key])
    BY DEF ServerInv, BookOK, GoodDeal
  <2>2. \A r \in Requests : /\ BuysWanted(SendReverse, RecvReverse, quote, Request[r].amount, 2)
                            /\ BuysWanted(SendForward, RecvForward, quote, Request[r].amount, 2)
    BY PricesBuy, RequestType DEF ServerInv, LoopOK, BuysWanted
  <2> QED
    BY <2>1, <2>2 DEF PricesAddUp, Priced, BuysWanted
<1> QED
  BY <1>1, SpecInv, PTL

-----------------------------------------------------------------------------
(* What a client has been told of is in place *)

\* No relay delivers an event twice, and every client draws its own preimage.
OnceEach ==
    /\ ~Redelivery
    /\ \A r, s \in Requests :
          Request[r].kind = "createswap" /\ Request[s].kind = "createswap"
          /\ Request[r].hash = Request[s].hash => r = s

\* The entry and the two invoices of a deal.
Stored(deal) ==
    /\ deal.key \in DOMAIN swaps /\ swaps[deal.key] = deal
    /\ deal.key \in DOMAIN invoices /\ invoices[deal.key].token = deal.token
    /\ invoices[deal.key].amount + invoices[deal.key].prepay = deal.price

Backed(deal) == Stored(deal) /\ deal.token \in watched /\ deal.key \in callbacks

\* Nothing is filed under the hash of a forward swap that is still to be made.
Unmade(r) == r \notin sent \/ r \in inbox \/ (handler.at = "height" /\ handler.req = r)

FreshOK ==
    \A r \in Requests :
        Request[r].kind = "createswap" /\ Unmade(r) => Request[r].hash \notin DOMAIN swaps

\* What the handler has made so far.
MadeOK ==
    /\ handler # Idle => handler.req \in sent \ inbox
    /\ handler.at = "register" =>
          IF Kind = "createswap"
          THEN handler.deal.kind = "createswap" /\ handler.deal.key = Hash /\ Stored(handler.deal)
          ELSE handler.deal.kind = "createnormalswap" /\ handler.deal.key \in Handled
    /\ handler.at = "reply" /\ handler.deal.kind = "createswap" => Backed(handler.deal)

BackedInv == FreshOK /\ MadeOK /\ ReplyIsBacked

\* A deal that is filed stays so while entries are only added and no invoice
\* is saved over one of an entry.
BooksGrow ==
    /\ \A key \in DOMAIN swaps : key \in DOMAIN swaps' /\ swaps'[key] = swaps[key]
    /\ \A key \in DOMAIN invoices \cap DOMAIN swaps :
          key \in DOMAIN invoices' /\ invoices'[key] = invoices[key]
    /\ watched \subseteq watched' /\ callbacks \subseteq callbacks'

LEMMA BackedStays ==
    ASSUME BooksGrow, NEW deal
    PROVE  /\ Stored(deal) => /\ deal.key \in DOMAIN swaps' /\ swaps'[deal.key] = deal
                              /\ deal.key \in DOMAIN invoices' /\ invoices'[deal.key].token = deal.token
                              /\ invoices'[deal.key].amount + invoices'[deal.key].prepay = deal.price
           /\ Backed(deal) => deal.token \in watched' /\ deal.key \in callbacks'
  BY DEF BooksGrow, Stored, Backed

LEMMA RepliesStayBacked ==
    ASSUME BooksGrow, ReplyIsBacked, replies' = replies PROVE ReplyIsBacked'
  BY BackedStays DEF ReplyIsBacked, Stored, Backed

LEMMA AddsSwapGrows ==
    ASSUME NEW deal, AddsSwap(deal)
    PROVE  /\ \A key \in DOMAIN swaps : key \in DOMAIN swaps' /\ swaps'[key] = swaps[key]
           /\ DOMAIN swaps' = DOMAIN swaps \cup {deal.key}
           /\ deal.key \notin DOMAIN swaps => swaps'[deal.key] = deal
  BY DEF AddsSwap, With

LEMMA SavesInvoiceGrows ==
    ASSUME NEW fee, SavesInvoice(fee)
    PROVE  /\ Hash \in DOMAIN invoices' /\ invoices'[Hash] = HoldInvoice(fee)
           /\ \A key \in DOMAIN invoices : key # Hash => key \in DOMAIN invoices' /\ invoices'[key] = invoices[key]
  BY DEF SavesInvoice, With

\* A step that leaves the books and the replies alone, and handles nothing.
LEMMA BooksKeep ==
    ASSUME BackedInv, UNCHANGED <<bookVars, replies>>, MadeOK', \A r \in Requests : Unmade(r)' => Unmade(r)
    PROVE  BackedInv'
<1>1. BooksGrow
  BY DEF bookVars, BooksGrow
<1>2. FreshOK'
  BY DEF BackedInv, FreshOK, bookVars
<1> QED
  BY <1>1, <1>2, RepliesStayBacked DEF BackedInv

LEMMA IdleMade ==
    ASSUME handler' = Idle PROVE MadeOK'
  BY DEF MadeOK, Idle

\* The handler stays where it is while the books and what it handles do.
LEMMA SameMade ==
    ASSUME BackedInv, handler' = handler, UNCHANGED bookVars, handled' = handled,
           handler # Idle => handler.req \in sent' \ inbox'
    PROVE  MadeOK'
  BY DEF BackedInv, MadeOK, bookVars, Stored, Backed, Kind, Hash

LEMMA LoopBacked ==
    ASSUME BackedInv, Loop \/ PublishRaises \/ UNCHANGED serverVars PROVE BackedInv'
<1>1. /\ UNCHANGED <<sent, handled, bookVars, replies>>
      /\ \/ UNCHANGED <<inbox, handler>>
         \/ inbox' = {} /\ handler' = Idle
  BY DEF Loop, ServerStarts, Connects, UpdatesPairs, Publishes, PublishTimesOut, Stops,
         PublishRaises, listenVars, serverVars
<1>2. MadeOK'
  <2>1. handler # Idle => handler.req \in sent \ inbox
    BY DEF BackedInv, MadeOK
  <2> QED
    BY <1>1, <2>1, IdleMade, SameMade
<1>3. \A r \in Requests : Unmade(r)' => Unmade(r)
  BY <1>1 DEF Unmade, Idle
<1> QED
  BY <1>1, <1>2, <1>3, BooksKeep

LEMMA ClientBacked ==
    ASSUME BackedInv, OnceEach, NEW r \in Requests, ClientSends(r) PROVE BackedInv'
<1>1. r \notin sent /\ sent' = sent \cup {r} /\ inbox' = inbox \cup {r}
      /\ UNCHANGED <<handler, handled, bookVars, replies>>
  BY DEF ClientSends, OnceEach
<1>2. handler # Idle => handler.req \in sent \ inbox
  BY DEF BackedInv, MadeOK
<1>3. MadeOK'
  BY <1>1, <1>2, SameMade
<1>4. \A s \in Requests : Unmade(s)' => Unmade(s)
  BY <1>1 DEF Unmade
<1> QED
  BY <1>1, <1>3, <1>4, BooksKeep

LEMMA TakesBacked ==
    ASSUME BackedInv, ServerInv, NEW r \in Requests,
           \/ TakesReply(r) \/ TakesMalformed(r) \/ TakesUnsupported(r) \/ TakesSwap(r) \/ Rejects(r)
    PROVE  BackedInv'
<1>1. /\ Takes(r) /\ UNCHANGED <<sent, bookVars, replies>>
      /\ UNCHANGED <<listener, handler>> \/ Ends \/ GoesTo(r, "reply", NoDeal) \/ GoesTo(r, "height", NoDeal)
  BY DEF TakesReply, TakesMalformed, TakesUnsupported, TakesSwap, Rejects
<1>2. r \in inbox /\ inbox' = inbox \ {r} /\ inbox \subseteq sent /\ handler = Idle
  BY <1>1 DEF Takes, ServerInv, InboxOK, HandlerOK
<1>3. CASE UNCHANGED <<listener, handler>> \/ Ends
  <2>1. handler' = Idle
    BY <1>2, <1>3 DEF Ends
  <2>2. \A s \in Requests : Unmade(s)' => Unmade(s)
    BY <1>1, <1>2, <2>1 DEF Unmade, Idle
  <2> QED
    BY <1>1, <2>1, <2>2, IdleMade, BooksKeep
<1>4. ASSUME NEW at \in {"height", "reply"}, GoesTo(r, at, NoDeal) PROVE BackedInv'
  <2>1. handler' = [req |-> r, at |-> at, deal |-> NoDeal]
    BY <1>4 DEF GoesTo
  <2>2. MadeOK'
    BY <1>1, <1>2, <2>1 DEF MadeOK, NoDeal
  <2>3. \A s \in Requests : Unmade(s)' => Unmade(s)
    BY <1>1, <1>2, <2>1 DEF Unmade
  <2> QED
    BY <1>1, <2>2, <2>3, BooksKeep
<1> QED
  BY <1>1, <1>3, <1>4

\* A handler that raises leaves the books alone.
LEMMA EndsBacked ==
    ASSUME BackedInv, handler.at # "none", Ends, UNCHANGED <<inbox, sent, bookVars, replies>>
    PROVE  BackedInv'
<1>1. handler' = Idle
  BY DEF Ends
<1>2. \A s \in Requests : Unmade(s)' => Unmade(s)
  BY <1>1 DEF Unmade, Idle
<1> QED
  BY <1>1, <1>2, IdleMade, BooksKeep

\* What a handler knows where it makes a forward swap.
LEMMA HashIsFree ==
    ASSUME BackedInv, ServerInv, Awaits("height"), Kind = "createswap"
    PROVE  handler.req \in Requests /\ handler.req \in sent \ inbox /\ Hash \notin DOMAIN swaps
<1>1. handler.req \in Requests /\ handler.at = "height" /\ handler # Idle
  BY AwaitsHandling DEF Handling, Idle
<1> QED
  BY <1>1 DEF BackedInv, FreshOK, MadeOK, Unmade, Kind, Hash

LEMMA PrepayBacked ==
    ASSUME BackedInv, ServerInv, PrepayRaises PROVE BackedInv'
<1>1. PICK fee \in ClaimFees : SavesInvoice(fee)
  BY DEF PrepayRaises
<1>2. Hash \notin DOMAIN swaps
  BY HashIsFree DEF PrepayRaises
<1>3. handler' = Idle /\ UNCHANGED <<inbox, sent, swaps, watched, callbacks, replies>>
  BY DEF PrepayRaises, Ends
<1>4. BooksGrow
  BY <1>1, <1>2, <1>3, SavesInvoiceGrows DEF BooksGrow
<1>5. FreshOK'
  BY <1>3 DEF BackedInv, FreshOK, Unmade, Idle
<1> QED
  BY <1>3, <1>4, <1>5, IdleMade, RepliesStayBacked DEF BackedInv

LEMMA CreatesBacked ==
    ASSUME BackedInv, ServerInv, OnceEach, CreatesForward PROVE BackedInv'
<1>0. PICK fee \in ClaimFees : \E deal :
         /\ deal = Deal(Hash, RecvReverse(Amount, quote), InvoiceAmount(Amount, fee) + PrepayAmount(fee))
         /\ SavesInvoice(fee) /\ AddsSwap(deal) /\ GoesTo(handler.req, "register", deal)
  BY DEF CreatesForward
<1>1. PICK deal :
         /\ deal = Deal(Hash, RecvReverse(Amount, quote), InvoiceAmount(Amount, fee) + PrepayAmount(fee))
         /\ SavesInvoice(fee) /\ AddsSwap(deal) /\ GoesTo(handler.req, "register", deal)
  BY <1>0
<1>2. Awaits("height") /\ Kind = "createswap"
      /\ UNCHANGED <<inbox, sent, handled, watched, callbacks, replies>>
  BY DEF CreatesForward
<1>3. handler.req \in Requests /\ handler.req \in sent \ inbox /\ Hash \notin DOMAIN swaps
  BY <1>2, HashIsFree
<1>4. deal.kind = "createswap" /\ deal.key = Hash /\ deal.token = handled
      /\ deal.price = InvoiceAmount(Amount, fee) + PrepayAmount(fee)
  BY <1>1, <1>2, ForwardDeal
<1>5. DOMAIN swaps' = DOMAIN swaps \cup {Hash} /\ swaps'[Hash] = deal
  BY <1>1, <1>3, <1>4, AddsSwapGrows
<1>6. BooksGrow
  BY <1>1, <1>2, <1>3, AddsSwapGrows, SavesInvoiceGrows DEF BooksGrow
<1>7. handler' = [req |-> handler.req, at |-> "register", deal |-> deal]
  BY <1>1 DEF GoesTo
<1>8. /\ Hash \in DOMAIN invoices' /\ invoices'[Hash].token = handled
      /\ invoices'[Hash].amount + invoices'[Hash].prepay = deal.price
  <2>1. Hash \in DOMAIN invoices' /\ invoices'[Hash] = HoldInvoice(fee)
    BY <1>1, SavesInvoiceGrows
  <2>2. /\ HoldInvoice(fee).token = handled /\ HoldInvoice(fee).amount = InvoiceAmount(Amount, fee)
        /\ HoldInvoice(fee).prepay = PrepayAmount(fee)
    BY DEF HoldInvoice
  <2> QED
    BY <1>4, <2>1, <2>2
<1>9. MadeOK'
  <2>1. Kind' = Kind /\ Hash' = Hash
    BY <1>7 DEF Kind, Hash
  <2>2. handler'.at = "register" /\ handler'.deal = deal /\ handler'.req = handler.req
    BY <1>7
  <2>3. Stored(handler.deal)'
    BY <1>4, <1>5, <1>8, <2>2 DEF Stored
  <2> QED
    BY <1>2, <1>3, <1>4, <2>1, <2>2, <2>3 DEF MadeOK
<1>10. FreshOK'
  <2> SUFFICES ASSUME NEW r \in Requests, Request[r].kind = "createswap", Unmade(r)'
               PROVE  Request[r].hash \notin DOMAIN swaps'
    BY DEF FreshOK
  <2>1. r \notin sent \/ r \in inbox
    BY <1>2, <1>7 DEF Unmade
  <2>2. Request[r].hash \notin DOMAIN swaps
    BY <2>1 DEF BackedInv, FreshOK, Unmade
  <2>3. Request[r].hash # Hash
    BY <1>2, <1>3, <2>1 DEF OnceEach, Kind, Hash
  <2> QED
    BY <1>5, <2>2, <2>3
<1> QED
  BY <1>2, <1>6, <1>9, <1>10, RepliesStayBacked DEF BackedInv

LEMMA PricesBacked ==
    ASSUME BackedInv, ServerInv, PricesReverse PROVE BackedInv'
<1>1. PICK deal : deal = Deal(handled, SendForward(Amount, quote), Amount)
                  /\ GoesTo(handler.req, "register", deal)
  BY DEF PricesReverse
<1>2. Awaits("height") /\ Kind = "createnormalswap" /\ UNCHANGED <<inbox, sent, bookVars, replies>>
  BY DEF PricesReverse
<1>3. deal.kind = "createnormalswap" /\ deal.key \in Handled
  BY <1>1, <1>2, NormalDeal, AwaitsHandling
<1>4. handler' = [req |-> handler.req, at |-> "register", deal |-> deal] /\ handler # Idle
  BY <1>1, <1>2 DEF GoesTo, Awaits, Idle
<1>5. handler'.at = "register" /\ handler'.deal = deal /\ handler'.req = handler.req
  BY <1>4
<1>6. MadeOK'
  <2>1. Kind' = "createnormalswap" /\ handler'.req \in sent' \ inbox'
    BY <1>2, <1>4, <1>5 DEF Kind, BackedInv, MadeOK
  <2> QED
    BY <1>3, <1>5, <2>1 DEF MadeOK
<1>7. \A s \in Requests : Unmade(s)' => Unmade(s)
  BY <1>2, <1>5 DEF Unmade
<1> QED
  BY <1>2, <1>6, <1>7, BooksKeep

LEMMA RegistersForwardBacked ==
    ASSUME BackedInv, ServerInv, RegistersForward PROVE BackedInv'
<1>1. /\ handler.at = "register" /\ handler # Idle /\ Kind = "createswap"
      /\ watched' = watched \cup {handler.deal.token} /\ callbacks' = callbacks \cup {Hash}
      /\ handler' = [req |-> handler.req, at |-> "reply", deal |-> handler.deal]
      /\ UNCHANGED <<inbox, sent, swaps, invoices, replies>>
  BY DEF RegistersForward, Awaits, GoesTo, Idle
<1>2. BooksGrow
  BY <1>1 DEF BooksGrow
<1>3. handler'.at = "reply" /\ handler'.deal = handler.deal /\ handler'.req = handler.req
  BY <1>1
<1>4. handler.deal.key = Hash /\ Stored(handler.deal) /\ handler.req \in sent \ inbox
  BY <1>1 DEF BackedInv, MadeOK
<1>5. Backed(handler.deal)'
  BY <1>1, <1>3, <1>4 DEF Stored, Backed
<1>6. MadeOK'
  BY <1>1, <1>3, <1>4, <1>5 DEF MadeOK
<1>7. FreshOK'
  BY <1>1, <1>3 DEF BackedInv, FreshOK, Unmade
<1> QED
  BY <1>1, <1>2, <1>6, <1>7, RepliesStayBacked DEF BackedInv

LEMMA RegistersReverseBacked ==
    ASSUME BackedInv, ServerInv, RegistersReverse PROVE BackedInv'
<1>1. /\ handler.at = "register" /\ handler # Idle /\ Kind = "createnormalswap"
      /\ AddsSwap(handler.deal) /\ watched' = watched \cup {handler.deal.token}
      /\ handler' = [req |-> handler.req, at |-> "reply", deal |-> handler.deal]
      /\ UNCHANGED <<inbox, sent, invoices, callbacks, replies>>
  BY DEF RegistersReverse, Awaits, GoesTo, Idle
<1>2. BooksGrow
  BY <1>1, AddsSwapGrows DEF BooksGrow
<1>3. handler'.at = "reply" /\ handler'.deal = handler.deal /\ handler'.req = handler.req
  BY <1>1
<1>4. /\ handler.deal.kind = "createnormalswap" /\ handler.deal.key \in Handled
      /\ handler.req \in sent \ inbox
  BY <1>1 DEF BackedInv, MadeOK
<1>5. MadeOK'
  BY <1>1, <1>3, <1>4 DEF MadeOK
<1>6. FreshOK'
  <2>1. DOMAIN swaps' = DOMAIN swaps \cup {handler.deal.key}
    BY <1>1, AddsSwapGrows
  <2>2. \A r \in Requests : Request[r].hash # handler.deal.key
    BY <1>4, ServerAssumption
  <2>3. \A r \in Requests : Unmade(r)' => Unmade(r)
    BY <1>1, <1>3 DEF Unmade
  <2> QED
    BY <2>1, <2>2, <2>3 DEF BackedInv, FreshOK
<1> QED
  BY <1>1, <1>2, <1>5, <1>6, RepliesStayBacked DEF BackedInv

LEMMA RepliesBacked ==
    ASSUME BackedInv, ServerInv, Replies PROVE BackedInv'
<1>1. /\ handler.at = "reply" /\ handler' = Idle /\ UNCHANGED <<inbox, sent, bookVars>>
      /\ replies' = replies \cup {[req |-> handler.req, deal |-> handler.deal]}
  BY DEF Replies, Awaits
<1>2. handler.deal.kind = "createswap" => Backed(handler.deal)
  BY <1>1 DEF BackedInv, MadeOK
<1>3. ReplyIsBacked'
  BY <1>1, <1>2 DEF BackedInv, ReplyIsBacked, Backed, Stored, bookVars
<1>4. FreshOK'
  BY <1>1 DEF BackedInv, FreshOK, Unmade, Idle, bookVars
<1> QED
  BY <1>1, <1>3, <1>4, IdleMade DEF BackedInv

LEMMA BackedStep ==
    ASSUME OnceEach, BackedInv, ServerInv, [Next]_vars PROVE BackedInv'
<1>1. ASSUME HeightRaises \/ InvoiceRaises \/ RegisterRaises \/ ReplyRaises PROVE BackedInv'
  BY <1>1, EndsBacked DEF HeightRaises, InvoiceRaises, RegisterRaises, ReplyRaises, Awaits
<1>2. ASSUME Listener PROVE BackedInv'
  BY <1>1, <1>2, TakesBacked, PrepayBacked, CreatesBacked, PricesBacked, RegistersForwardBacked,
     RegistersReverseBacked, RepliesBacked DEF Listener
<1>3. ASSUME ServerNext PROVE BackedInv'
  BY <1>2, <1>3, LoopBacked, ClientBacked DEF ServerNext, Clients
<1> QED
  BY <1>3, LoopBacked DEF Next, vars

\* A client that has been told of a forward swap can rely on the entry, the
\* invoices and the callbacks behind it, however handlers, the loop and the
\* transport interleave, as long as every request is made and delivered once.
THEOREM RepliesAreBacked == ASSUME OnceEach PROVE Spec => []ReplyIsBacked
<1>1. ASSUME Init PROVE BackedInv
  <2>1. \A r \in Requests : Request[r].hash \notin DOMAIN swaps
    BY <1>1 DEF Init, ServerInit
  <2> QED
    BY <1>1, <2>1 DEF Init, ServerInit, BackedInv, FreshOK, MadeOK, ReplyIsBacked, Idle
<1>2. BackedInv /\ ServerInv /\ [Next]_vars => BackedInv'
  BY BackedStep
<1>3. BackedInv => ReplyIsBacked
  BY DEF BackedInv
<1> QED
  BY <1>1, <1>2, <1>3, SpecInv, PTL DEF Spec
=============================================================================
