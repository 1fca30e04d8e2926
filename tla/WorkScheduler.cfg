CONSTANTS
    Users = {u1, u2}
    Entries = 2
    Providers <- BothProviders
    Supervised = TRUE
    MaxStops = 1
    MaxCrashes = 1
    MaxPrompts = 1
SPECIFICATION Spec
CHECK_DEADLOCK FALSE
INVARIANT TypeOK
INVARIANT GivenOnce
INVARIANT NothingDropped
INVARIANT NativeDroppedNeverRun
INVARIANT NativeWakeKept
PROPERTY TurnWritesFirst
PROPERTY QueuedServed
