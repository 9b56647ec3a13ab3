SPECIFICATION TimedSpec
CONSTANTS
    None = None
    Accounts = {acct}
    InitApprover = acct
    Sender = sender
    Nonces = {n1, n2, n3}
    Delegates <- LastingDelegates
    MaxIntents = 3
    MaxBatch = 3
    MaxHeight = 9
    LastStart = 3
    ReceiptDelay = 1
    YieldTimeout = 7
    CallbackGas = 3
    ContinueGas = 1
    EarlyReset = FALSE
    U128Max = 0
    InitBalance = 0
    DefaultFeeTiers <- FreeLadder
    TierChoices = {}
    Deposits = {0}
SYMMETRY NonceSymmetry
CONSTRAINT TimedBound
INVARIANTS
    BlockMonotonic
    PaceInv
    ExactUntilLate
