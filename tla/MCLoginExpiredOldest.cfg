\* One request at a time; sessions expire.
SPECIFICATION Spec
CONSTANTS
    Passwords = {p}
    Threshold = 9
    Window = 2
    TemporaryDurations <- Ladder1
    HistoryDepth = 0
    MaxAge = 0
    IdleTimeout = 2
    AbsoluteLifetime = 4
    Requests = {r1, r2, r3, r4}
    Unaddressed = {}
    ConcurrentPolicy = "LIMIT_N"
    ConcurrentMax = 2
    Second = 2
    Faulty = FALSE
    Meanwhile = {}
    MaxInFlight = 1
    MaxClock = 3
SYMMETRY Symmetry
INVARIANTS
    LiveWithinLimit
