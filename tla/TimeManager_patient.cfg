SPECIFICATION FairSpec
CONSTANTS
    DefaultMode = "NTP"
    CallFaults = {}
    Patient = TRUE
    MaxEdits = 3
    MaxAdmin = 2
    MaxCrashes = 2
    MaxSets = 1
    MaxInbox = 3
PROPERTIES
    DaemonKeepsSetting
    ComesToRest
    OneMode
    NearerToRest
CHECK_DEADLOCK FALSE
