SPECIFICATION FairSpec
CONSTANTS
    t1 = t1
    t2 = t2
    s1 = s1
    s2 = s2
    Tunnels = {t1}
    Slots = {s1}
    None = None
    MaxPolls = 1
    MaxAuto = 1
    HasWatchdog = FALSE
    AsksEachTime = FALSE
PROPERTIES
    OperationEnds
    DeathNoticed
