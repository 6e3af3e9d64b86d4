SPECIFICATION FairSpec
CONSTANTS
    EIDs = {e1, e2}
    MaxIds = 3
    NumRetries = 3
    RetryModulus = 256
    ExpiryPeriods = 3
    StartFaults = {}
    LateAnswers = FALSE
    ForeignIds = FALSE
    None = None
CHECK_DEADLOCK FALSE
INVARIANTS
    RetryBudget
    HandlerCalledOnce
    WakeupPending
    IdsInStep
    TwoIdsSuffice
    RemovalHitsExpired
    CleanInv
PROPERTIES
    EventuallyAnswered
    ContractSpec
