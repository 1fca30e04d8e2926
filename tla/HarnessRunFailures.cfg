CONSTANTS
    Runs = {r1, r2}
    NoRun = NoRun
    NoEntry = NoEntry
    Items = {q1}
    NextRunItems = {}
    Batches <- RoughBatches
    TaskFailures = TRUE
    MaxTurns = 1
    MaxAttempts = 3
    MaxCrashes = 1
    MaxStops = 1
SPECIFICATION Spec
CHECK_DEADLOCK FALSE
INVARIANT OpenRunIsLive
INVARIANT LinearTranscript
INVARIANT ClosedRunsSettled
INVARIANT PrefixCommitted
PROPERTY AppendOnly
PROPERTY ImplementsLedger
