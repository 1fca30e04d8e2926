CONSTANTS
    Runs = {r1}
    NoRun = NoRun
    NoEntry = NoEntry
    Items = {}
    NextRunItems = {}
    Batches <- AllBatches
    TaskFailures = FALSE
    MaxTurns = 1
    MaxAttempts = 3
    MaxCrashes = 1
    MaxStops = 0
SPECIFICATION Spec
CHECK_DEADLOCK FALSE
PROPERTY RecoveryClosesRun
