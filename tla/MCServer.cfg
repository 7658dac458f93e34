\* Two requests in flight at a shutdown, and any one key of the configuration
\* missing, empty or unusable in the file, the environment or both.
SPECIFICATION FairSpec
CONSTANTS
    Requests = {r1, r2}
    FactorSets <- Factors
INVARIANTS
    NothingLeaks
    
    ClientLearnsOutcome
    
PROPERTIES
    PoliciesConfigured
    ReadyIsTrue
    ShutdownCompletes
