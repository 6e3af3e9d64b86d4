SPECIFICATION Spec
CONSTANTS
    DefaultMode = "Manual"
    CallFaults = {}
    Patient = FALSE
    MaxEdits = 2
    MaxAdmin = 1
    MaxCrashes = 1
    MaxSets = 1
    MaxInbox = 3
INVARIANTS
    InStepInv
    Agreement
PROPERTIES
    SetOnlyInManual
CHECK_DEADLOCK FALSE
