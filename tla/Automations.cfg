SPECIFICATION Spec
CONSTANTS
    inplace = inplace
    worktree = worktree
    Defs = {inplace, worktree}
    Worktrees = {worktree}
    Period = 1
    PauseAfter = 1
    MaxRuns = 2
    Budgets <- Pairs
INVARIANT TypeOK
INVARIANT DispatchedOnce
INVARIANT Tracked
INVARIANT OccurrencesOnce
INVARIANT EndIsTrue
INVARIANT LatestIsShown
