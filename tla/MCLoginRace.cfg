\* Two overlapping logins, no session expires.
SPECIFICATION Spec
CONSTANTS
    Passwords = {p}
    Threshold = 2
    Window = 2
    TemporaryDurations <- Ladder1
    HistoryDepth = 0
    MaxAge = 0
    IdleTimeout = 8
    AbsoluteLifetime = 9
    Requests = {r1, r2}
    Unaddressed = {}
    ConcurrentPolicy = "LIMIT_N"
    ConcurrentMax = 1
    Second = 2
    Faulty = FALSE
    Meanwhile = {}
    MaxInFlight = 2
    MaxClock = 1
SYMMETRY Symmetry
INVARIANTS
    LiveWithinLimit
