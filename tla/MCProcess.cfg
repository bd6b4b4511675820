SPECIFICATION ProcSpec
CONSTANTS
    MaxProcs = 3
    Priorities <- MCPriorities
    Delays = {1}
    MaxTicks = 1
INVARIANTS ThreadsKept OneRuns NobodySleeps
PROPERTIES IdleInBetween IdleReturns
