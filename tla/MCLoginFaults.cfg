\* Overlapping requests, two of which can lock the account the third logs
\* in to, with every call failing or not.
SPECIFICATION Spec
CONSTANTS
    Passwords = {p}
    Threshold = 2
    Window = 2
    TemporaryDurations <- Ladder1
    HistoryDepth = 0
    MaxAge = 0
    IdleTimeout = 3
    AbsoluteLifetime = 4
    Requests = {r1, r2, r3}
    Unaddressed = {}
    ConcurrentPolicy = "LIMIT_N"
    ConcurrentMax = 1
    Second = 2
    Faulty = TRUE
    Meanwhile = {"register", "revoke", "enrol"}
    MaxInFlight = 2
    MaxClock = 1
SYMMETRY Symmetry
INVARIANTS
    CredentialRowSound
    LoginIsAtomic
    
    SecondFactorDemanded
    StoredLocksOnRecord
PROPERTIES
    KeepsPromise
