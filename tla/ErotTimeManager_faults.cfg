SPECIFICATION Spec
CONSTANTS
    e1 = e1
    e2 = e2
    e3 = e3
    u1 = u1
    u2 = u2
    EIDs = {e1, e2, e3}
    UUIDs = {u1, u2}
    UuidOf <- MCUuidOf
    Rank <- MCRank
    Garbage = {g}
    Outcomes = {"success", "unsupported", "error", "silence"}
    Faults = {"elapsed", "send"}
    Calm = {}
    MaxTime = 3
    MaxSignals = 3
    None = None
CHECK_DEADLOCK FALSE
INVARIANTS
    TypeOK
PROPERTIES
    NeverSetBack
