\* Two overlapping requests, one with a stale credential.
SPECIFICATION Spec
CONSTANTS
    Passwords = {p}
    Threshold = 1
    Window = 2
    TemporaryDurations <- Ladder1
    HistoryDepth = 0
    MaxAge = 0
    IdleTimeout = 3
    AbsoluteLifetime = 4
    Requests = {r1, r2}
    Unaddressed = {}
    ConcurrentPolicy = "ALLOW_ALL"
    ConcurrentMax = 1
    Second = 2
    Faulty = FALSE
    Meanwhile = {}
    MaxInFlight = 2
    MaxClock = 0
PROPERTIES
    RowEscalationNeverReset
