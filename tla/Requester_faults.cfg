SPECIFICATION Spec
CONSTANTS
    EIDs = {e1}
    MaxIds = 3
    NumRetries = 1
    RetryModulus = 2
    ExpiryPeriods = 1
    StartFaults = {"send", "retryTimer", "expiryTimer"}
    LateAnswers = TRUE
    ForeignIds = TRUE
    None = None
CHECK_DEADLOCK FALSE
INVARIANTS
    TypeOK
    OneInFlight
