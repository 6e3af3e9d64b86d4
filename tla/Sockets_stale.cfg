SPECIFICATION SocketsSpec
CONSTANTS
    EIDs = {e1, e2}
    MaxIds = 2
    NumRetries = 1
    RetryModulus = 2
    ExpiryPeriods = 1
    StartFaults = {"send"}
    LateAnswers = FALSE
    ForeignIds = FALSE
    None = None
    Paths = {p1, p2}
    MaxFd = 2
    Builds = {"daemon"}
    SocketFaults = {}
    MaxLists = 3
CHECK_DEADLOCK FALSE
INVARIANT HandlerCalledOnce
