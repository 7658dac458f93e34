\* Windows that are not whole seconds; the clock runs over several of them.
\* The bounds on the clock and on the calls end a behaviour.
SPECIFICATION Spec
CONSTANTS
    Callers = {c1, c2}
    Identities = {i, j}
    MaxAttempts <- Limits
    Window <- Windows
    Second = 2
    MaxClock = 5
    MaxCalls = 5
SYMMETRY Symmetry
CHECK_DEADLOCK FALSE
INVARIANTS
    BurstBounded
    IdentityBehindIP
    RetryAfterIsHonest
PROPERTY
    WindowNotProlonged
