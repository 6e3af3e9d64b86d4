SPECIFICATION FairSpec
CONSTANTS
    e1 = e1
    e2 = e2
    e3 = e3
    u1 = u1
    u2 = u2
    EIDs = {e1, e2, e3}
    UUIDs = {u1, u2}
    UuidOf <- MCUuidOf
    Rank <- MCRank
    Garbage = {}
    Outcomes = {"success"}
    Faults = {}
    Calm = {"hurry", "overlap"}
    MaxTime = 3
    MaxSignals = 4
    None = None
CHECK_DEADLOCK FALSE
INVARIANTS
    NoneLost
    SyncedAtRest
    QueueAttended
PROPERTIES
    QueueServed
