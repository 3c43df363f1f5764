SPECIFICATION TunnelsSpec
CONSTANTS
    Dests = {net, name}
    Static = {net}
    Gateways = {g1}
    NoGateway = NoGateway
    MaxApps = 2
    MaxChanges = 1
    MaxFaults = 2
    Networks = {w}
    Routers = {r1}
    MaxTunnels = 2
    MaxFailures = 1
INVARIANTS
    UndoIsRecorded
    FollowsNetwork
    NothingLeft
    NamesAreAnswered
CHECK_DEADLOCK FALSE
