\* Two replicas, more rows than a batch, and enough failures to fail a write,
\* a commit and a retry; one message is always refused.
SPECIFICATION FairSpec
CONSTANTS
    Events = {e1, e2, e3}
    Refused = {e3}
    Relays = {a, b}
    BatchSize = 2
    MaxTime = 1
    MaxAttempts = 2
    MaxFaults = 2
INVARIANTS
    ClaimsDisjoint
    DuplicatesNeedFaults
PROPERTIES
    
    OnlyRefusedHoldUp
