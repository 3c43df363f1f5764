SPECIFICATION AccountSpec
CONSTANTS
    Nothing = Nothing
    MaxRequests = 2
    MaxPeriods = 1
    MaxLosses = 1
    d1 = d1
    d2 = d2
    Devices = {d1, d2}
    Mine = d1
    MaxKeys = 3
    Asked = Asked
    MaxMoves = 1
    MaxFailures = 1
    l1 = l1
    l2 = l2
    n1 = n1
    Logins = {l1, l2}
    Ids = {n1}
    MaxNews = 2
    MaxFaults = 1
INVARIANTS
    ChargedAsPressed
    ClosedStaysClosed
PROPERTIES
    AnswerIsRead
    NewsArrives
CHECK_DEADLOCK FALSE
