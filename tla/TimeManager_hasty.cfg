SPECIFICATION Spec
CONSTANTS
    DefaultMode = "Manual"
    CallFaults = {}
    Patient = FALSE
    MaxEdits = 2
    MaxAdmin = 0
    MaxCrashes = 0
    MaxSets = 1
    MaxInbox = 3
PROPERTIES
    DaemonKeepsSetting
CHECK_DEADLOCK FALSE
