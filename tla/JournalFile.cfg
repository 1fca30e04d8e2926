CONSTANTS
    Handles = {h1, h2}
    MaxAppends = 3
    MaxBatch = 2
    MaxFaults = 3
SYMMETRY Interchangeable
SPECIFICATION Spec
CHECK_DEADLOCK FALSE
INVARIANT TypeOK
INVARIANT NeverBricked
INVARIANT Coherent
PROPERTY ImplementsLog
