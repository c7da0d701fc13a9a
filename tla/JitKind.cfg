SPECIFICATION Spec
CONSTANTS
    MaxInt = 7
    Fuel = 8
    MaxPasses = 8
    Processes <- DocProcesses
INVARIANT ReturnsSameKind
