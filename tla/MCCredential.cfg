\* A ladder of two, a history of two, passwords that expire.
SPECIFICATION ObserverSpec
CONSTANTS
    Passwords = {p1, p2, p3, p4}
    Threshold = 2
    Window = 2
    TemporaryDurations <- Ladder2
    HistoryDepth = 2
    MaxAge = 2
    MaxClock = 7
    MaxSkew = 1
    MaxLockouts = 4
    MaxPending = 2
SYMMETRY Symmetry
INVARIANTS
    LockoutConsistent
    RecentPasswordsDistinct
    SnapshotRehydrates
    EventsReproduceState
PROPERTIES
    LockEndsOnlyWhenDue
    EscalationNeverReset
    LockedIsFrozen
    ForcedChangeNeedsNewPassword
