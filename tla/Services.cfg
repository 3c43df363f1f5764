SPECIFICATION ServicesSpec
CONSTANTS
    Pids = {a1, a2, a3}
    NoPid = NoPid
    MaxGen = 4
    Services = {v1}
    None = None
    MaxDaemons = 2
INVARIANTS
    CrashSafe
    MemoryMatchesSystem
PROPERTIES
    KeepsPromise
    NothingOutlivesApp
CHECK_DEADLOCK FALSE
