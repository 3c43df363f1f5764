SPECIFICATION InstallsSpec
CONSTANTS
    Versions = {v1, v2}
    Files = {f1, f2}
    Absent = Absent
    Torn = Torn
    Platforms = {"linux", "windows", "bundle", "service"}
    MaxRuns = 4
    MaxFaults = 3
    MaxWorks = 2
    MaxPasswords = 2
INVARIANTS
    SwapKeepsProgram
    RollbackRestores
    DoneIsDone
    TickedIsGone
CHECK_DEADLOCK FALSE
