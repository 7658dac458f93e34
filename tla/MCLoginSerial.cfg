\* One request at a time against an account that locks at each failure; no
\* session expires within the bounds.
SPECIFICATION Spec
CONSTANTS
    Passwords = {p}
    Threshold = 1
    Window = 2
    TemporaryDurations <- Ladder1
    HistoryDepth = 0
    MaxAge = 0
    IdleTimeout = 8
    AbsoluteLifetime = 9
    Requests = {r1, r2, r3, r4}
    Unaddressed = {}
    ConcurrentPolicy = "LIMIT_N"
    ConcurrentMax = 2
    Second = 2
    Faulty = TRUE
    Meanwhile = {}
    MaxInFlight = 1
    MaxClock = 2
SYMMETRY Symmetry
INVARIANTS
    LiveWithinLimit
    OldestEvicted
    LocksOnRecord
PROPERTIES
    RowEscalationNeverReset
    LockedRowUntouched
