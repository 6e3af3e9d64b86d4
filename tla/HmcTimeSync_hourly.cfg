SPECIFICATION FairSpec
CONSTANTS
    MaxAttempts = 3
    RetryDelay = 2
    Timeout = 2
    Hour = 24
    Burst = 3
    LimitIntervals = {4, 16}
INVARIANTS
    TypeOK
    LagBounded
    SetWithinTheHour
    HourlyStartGranted
    SetWhenUp
PROPERTIES
    EventuallySet
