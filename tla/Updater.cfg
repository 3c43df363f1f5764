SPECIFICATION Spec
CONSTANTS
    d1 = d1
    d2 = d2
    d3 = d3
    Slots = {d1, d2}
    None = None
    MaxV = 2
    MaxBuild = 2
    Tries = 2
    MaxCalls = 5
    MaxInstalls = 2
    MaxRuns = 2
INVARIANTS
    ReadyIsChecked
    HandedOver
CHECK_DEADLOCK FALSE
