SPECIFICATION SenSpec
CONSTANTS
    Servers = {1, 2}
    FirstServers = {1}
    Ids = {11, 12, 13}
    o1 = o1
    o2 = o2
    Exchanges = {o1, o2}
    Nobody = Nobody
    Hosts = {"macos", "linux"}
    MaxRev = 3
    MaxEvents = 3
    MaxFaults = 1
SYMMETRY Interchangeable
INVARIANTS
    ListedHasKeys
    AppliedIsCurrent
    RecordIsListed
    TurnIsLive
CHECK_DEADLOCK FALSE
