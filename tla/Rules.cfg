SPECIFICATION RulesSpec
CONSTANTS
    Pids = {p1, p2, d}
    Exes = {"game", "spy"}
    Skipped = {d}
    Homes = {"session"}
    Routings <- MCRoutings
    MaxConnections = 2
    MaxSteps = 4
    MaxKills = 1
    MaxLines = 1
    MaxRules = 4
    MaxEdits = 2
INVARIANTS
    FirstRuleWins
    SameAnswers
PROPERTIES
    NothingStays
CHECK_DEADLOCK FALSE
