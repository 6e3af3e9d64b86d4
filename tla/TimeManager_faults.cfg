SPECIFICATION Spec
CONSTANTS
    DefaultMode = "Manual"
    CallFaults = {"getSetting", "setNtp", "setProperty"}
    Patient = FALSE
    MaxEdits = 2
    MaxAdmin = 1
    MaxCrashes = 1
    MaxSets = 1
    MaxInbox = 3
INVARIANTS
    TypeOK
    SettingFollowed
CHECK_DEADLOCK FALSE
