SPECIFICATION FeeSpec
CONSTANTS
    U128Max = 5
    InitBalance = 1
    DefaultFeeTiers <- MCDefaultFeeTiers
    TierChoices <- MCTierChoices
    Deposits = {0, 1, 2, 3}
    MaxBatch = 4
CONSTRAINT BalanceBound
INVARIANTS
    LedgerTypeOK
    SmallestTierCharged
    LedgerBounded
    FeePotBacked
PROPERTIES
    LedgerMonotonic
