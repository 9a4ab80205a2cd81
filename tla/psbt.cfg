SPECIFICATION Spec
CONSTANTS
    Pubkey <- MCPubkey
    Coin <- MCCoin
    NodeCoins <- MCNodeCoins
    LockupTo = 3
    LockupAmount = 3
    ChangeTo = 2
    Fee = 1
    Dust = 2
    LockupCoins <- MCLockupCoins
    ReceiveTo = 1
    JointCoins <- MCJointCoins
    Secrets <- MCSecrets
    JointPay <- MCJointPay
    SighashTypes <- MCSighashTypes
    MaxTexts = 2
    MergeDuplicates = TRUE
    MaxEdits = 1
INVARIANTS TypeOK CachesFresh SentIsAccepted CombinesInAnyOrder
CHECK_DEADLOCK FALSE
