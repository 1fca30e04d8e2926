SPECIFICATION Spec
CONSTANTS
    inplace = inplace
    worktree = worktree
    Defs = {inplace}
    Worktrees = {}
    Period = 1
    PauseAfter = 1
    MaxRuns = 1
    Budgets <- Questions
INVARIANT AskedIsShown
