SPECIFICATION Spec
CONSTANTS
    t1 = t1
    t2 = t2
    s1 = s1
    s2 = s2
    Tunnels = {t1, t2}
    Slots = {s1, s2}
    None = None
    MaxPolls = 1
    MaxAuto = 1
    HasWatchdog = TRUE
    AsksEachTime = FALSE
SYMMETRY Interchangeable
INVARIANTS
    CardMatchesSystem
    LeftoversOffered
    RunningIsWatched
