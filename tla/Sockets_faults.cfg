SPECIFICATION SocketsFairSpec
CONSTANTS
    EIDs = {e1, e2}
    MaxIds = 2
    NumRetries = 1
    RetryModulus = 2
    ExpiryPeriods = 1
    StartFaults = {"send"}
    LateAnswers = FALSE
    ForeignIds = TRUE
    None = None
    Paths = {p1, p2}
    MaxFd = 2
    Builds = {"daemon", "kernel"}
    SocketFaults = {"open", "send", "foreign"}
    MaxLists = 2
CHECK_DEADLOCK FALSE
INVARIANTS
    SocketsTypeOK
    AwaitedOnItsSocket
    KernelKeepsPromises
    OneDaemonKeepsPromises
PROPERTIES
    KernelAnswers
