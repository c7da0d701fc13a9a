SPECIFICATION WFairSpec
CONSTANTS
    MaxThreads = 3
    Quantum = 2
    CountBound = 3
INVARIANTS TypeOK OneOwner BoundedWait
PROPERTIES NoOvertaking NoStarvation
