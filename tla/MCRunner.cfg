SPECIFICATION RunSpec
CONSTANTS
    None = None
    Accounts = {"relayer", "approver"}
    InitApprover = "approver"
    Delegates <- RunDelegates
    MaxIntents = 6
    MaxBatch = 3
    MaxHeight = 0
    ReceiptDelay = 0
    YieldTimeout = 0
    CallbackGas = 2
    ContinueGas = 1
    EarlyReset = TRUE
    U128Max = 9
    InitBalance = 0
    DefaultFeeTiers <- PairLadder
    TierChoices <- Ladders
    Deposits = {1, 2}
    MaxBalance = 9
    FtOwner = "gate"
    FtSupply = 4
    Jobs <- MixedJobs
    MaxRuns = 2
    MaxMishaps = 2
CHECK_DEADLOCK FALSE
INVARIANTS
    RunnerTypeOK
    CoordinatorOrder
    OrderAsAsked
    SupplyConserved
    DeployComplete
    MatchExplained
    TroubleExplained
    CalmInv
