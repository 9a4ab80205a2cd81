SPECIFICATION Spec
CONSTANTS
    Prime = 4
    CurveOrder = 7
    MaxListed = 3
    Coin = 10
    Pubkey <- MCPubkey
INVARIANTS
    ScriptsReadBack
    TextsReadBack
    DerivationAgrees
    DescriptorsSolve
    
CHECK_DEADLOCK FALSE
