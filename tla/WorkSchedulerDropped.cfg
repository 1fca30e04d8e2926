CONSTANTS
    Users = {u1}
    Entries = 1
    Providers <- AcpOnly
    Supervised = TRUE
    MaxStops = 0
    MaxCrashes = 0
    MaxPrompts = 0
SPECIFICATION Spec
CHECK_DEADLOCK FALSE
INVARIANT DroppedNeverRun
