SPECIFICATION ProcessesSpec
CONSTANTS
    c1 = c1
    c2 = c2
    c3 = c3
    Calls = {c1, c2, c3}
    None = None
    Tries = 1
    MaxCalls = 3
    MaxDeaths = 1
    MaxApps = 3
    MaxTries = 1
    MaxToggles = 1
INVARIANTS
    SharesAreLive
    OneUi
CHECK_DEADLOCK FALSE
