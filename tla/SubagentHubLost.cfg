CONSTANTS
    l1 = l1
    l2 = l2
    r1 = r1
    r2 = r2
    Assignments <- SharedOrNot
    Addressed = {l1}
    Talkers = {l2}
    Lanes = {l1, l2}
    Roles = {r1, r2}
    MaxRuns = 2
    MaxMessages = 2
    MaxCalls = 2
    MaxExtras = 1
    InboxDepth = 1
    MaxBroadcasts = 1
    MaxFaults = 1
SPECIFICATION Spec
CHECK_DEADLOCK FALSE
INVARIANT NotesKept
