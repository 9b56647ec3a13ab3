SPECIFICATION Spec
CONSTANTS
    None = None
    Accounts = {acct}
    InitApprover = acct
    Sender = sender
    Nonces = {}
    Delegates <- FundsDelegates
    Wishes <- WalletWishes
    Wires <- AllWires
    MaxIntents = 2
    MaxBatch = 2
    MaxHeight = 0
    ReceiptDelay = 0
    YieldTimeout = 0
    CallbackGas = 3
    ContinueGas = 1
    EarlyReset = FALSE
    U128Max = 2
    InitBalance = 1
    DefaultFeeTiers <- PaidLadder
    TierChoices = {}
    Deposits = {1, 2}
INVARIANTS
    FeePotBacked
