SPECIFICATION TSpec
CONSTANTS
    MaxThreads = 3
    Quantum = 2
    CountBound = 3
INVARIANT StartsAtItsEntry
CHECK_DEADLOCK FALSE
