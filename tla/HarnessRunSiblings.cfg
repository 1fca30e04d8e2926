CONSTANTS
    Runs = {r1}
    NoRun = NoRun
    NoEntry = NoEntry
    Items = {}
    NextRunItems = {}
    Batches <- PairBatch
    TaskFailures = TRUE
    MaxTurns = 1
    MaxAttempts = 3
    MaxCrashes = 0
    MaxStops = 0
SPECIFICATION Spec
CHECK_DEADLOCK FALSE
INVARIANT SettledSiblingsCommitted
