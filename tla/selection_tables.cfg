SPECIFICATION FairSpec
CONSTANTS
    N = 2
    MaxProbes = 2
INVARIANTS
    TypeOK
    HealthTablesAgree
    SteadyIsCandidate
    RoundRobin
PROPERTIES
    GoneIsExcluded
