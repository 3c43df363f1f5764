SPECIFICATION Spec
CONSTANTS
    a = a
    b = b
    d = d
    q1 = q1
    q2 = q2
    Hosts = {a, b, d}
    Skipped = {d}
    Slots = {q1, q2}
    MaxRoutes = 1
    MaxAddresses = 2
    RouteTTL = 2
    AnswerTTL = 1
SYMMETRY Alike
INVARIANTS
    AnsweredIsRouted
    HeldWhenDead
CHECK_DEADLOCK FALSE
