\* Room for activity to bring the idle deadline up to the absolute one.
SPECIFICATION Spec
CONSTANTS
    IdleTimeout = 2
    AbsoluteLifetime = 4
    MaxClock = 6
    MaxSkew = 1
INVARIANTS
    EndsInOneWay
    SnapshotRehydrates
    EventsTellTheStory
PROPERTIES
    EndIsFinal
    NoLateActivity

