CONSTANTS
    Runs = {r1}
    NoRun = NoRun
    NoEntry = NoEntry
    Items = {}
    NextRunItems = {}
    Batches <- SuffixBatches
    TaskFailures = FALSE
    MaxTurns = 2
    MaxAttempts = 3
    MaxCrashes = 2
    MaxStops = 1
SPECIFICATION Spec
CHECK_DEADLOCK FALSE
INVARIANT TypeOK
INVARIANT NothingRefused
INVARIANT CompletedRunsAnswered
PROPERTY RecoveryClosesRun
