SPECIFICATION Spec
CONSTANTS
    MaxInt = 7
    Fuel = 8
    MaxPasses = 8
    Processes <- MCProcesses
INVARIANT NativeAgrees
INVARIANT TypesSettled
INVARIANT SumsAgree
INVARIANT OptimizerAgrees
