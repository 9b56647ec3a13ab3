SPECIFICATION LiveSpec
CONSTANTS
    None = None
    Accounts = {acct, other}
    InitApprover = acct
    Sender = sender
    Nonces = {n1, n2}
    Delegates <- SmallDelegates
    MaxIntents = 2
    MaxBatch = 2
    MaxHeight = 1
    ReceiptDelay = 0
    YieldTimeout = 1
    CallbackGas = 3
    ContinueGas = 1
    EarlyReset = FALSE
    U128Max = 0
    InitBalance = 0
    DefaultFeeTiers <- FreeLadder
    TierChoices = {}
    Deposits = {0}
PROPERTIES
    PendingCleared
    BatchesFinish
