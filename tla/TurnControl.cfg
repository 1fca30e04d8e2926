CONSTANTS
    Turns = {t1, t2, t3}
    Stoppers = {s1, s2}
    Surfaces <- BothSurfaces
    NoTurn = NoTurn
    MaxFaults = 1
SPECIFICATION Spec
CHECK_DEADLOCK FALSE
INVARIANT TypeOK
INVARIANT ActiveIsLive
INVARIANT RunningIsStoppable
INVARIANT QuietIsFree
INVARIANT AutomationGateSound
PROPERTY OnlyOwnerClears
PROPERTY GenerationEnds
