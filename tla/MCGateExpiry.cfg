SPECIFICATION Spec
CONSTANTS
    None = None
    Accounts = {acct}
    InitApprover = acct
    Sender = sender
    Nonces = {n1, n2, n3}
    Delegates <- SmallDelegates
    MaxIntents = 3
    MaxBatch = 3
    MaxHeight = 2
    ReceiptDelay = 0
    YieldTimeout = 0
    CallbackGas = 3
    ContinueGas = 1
    EarlyReset = FALSE
    U128Max = 0
    InitBalance = 0
    DefaultFeeTiers <- FreeLadder
    TierChoices = {}
    Deposits = {0}
INVARIANTS
    DispatchedBeforeExpiry
