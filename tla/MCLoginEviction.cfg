\* One request at a time.
SPECIFICATION Spec
CONSTANTS
    Passwords = {p}
    Threshold = 2
    Window = 2
    TemporaryDurations <- Ladder1
    HistoryDepth = 0
    MaxAge = 0
    IdleTimeout = 3
    AbsoluteLifetime = 4
    Requests = {r1, r2}
    Unaddressed = {}
    ConcurrentPolicy = "LIMIT_N"
    ConcurrentMax = 1
    Second = 2
    Faulty = FALSE
    Meanwhile = {}
    MaxInFlight = 1
    MaxClock = 1
SYMMETRY Symmetry
INVARIANTS
    EvictionOnRecord
