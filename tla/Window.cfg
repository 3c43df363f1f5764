SPECIFICATION WindowSpec
CONSTANTS
    MAX_LOGS = 2
    MaxEntries = 3
    MaxBatch = 2
    MaxClears = 1
    MaxReports = 2
    MaxFaults = 1
    Nothing = Nothing
    warn = warn
    info = info
    Texts = {warn, info}
    Warnings = {warn}
    MAX_READ = 3
    RECENT_BYTES = 3
    MaxLines = 4
    MaxFiles = 2
    MaxStarts = 2
    blank = blank
    good = good
    master = master
    bad = bad
    Links = {blank, good, master, bad}
    Blank = blank
    Good = {good, master}
    Masters = {master}
    Typed <- MCTyped
    MaxTexts = 3
    MaxForms = 3
    s1 = s1
    s2 = s2
    Servers = {s1, s2}
    Edits = {s1}
    MaxActs = 5
INVARIANTS
    JournalKeeps
    SentIsReviewed
    FollowsTheLog
    PreviewIsOfLink
    PageAgrees
PROPERTIES
    NoteIsSeen
CHECK_DEADLOCK FALSE
