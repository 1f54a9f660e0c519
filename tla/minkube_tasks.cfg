SPECIFICATION Spec
CONSTANTS
    w1 = w1
    w2 = w2
    NoWorker = NoWorker
    Worker = {w1, w2}
    MaxAsks = 2
    MaxTimeouts = 1
    MaxStops = 0
    MaxCrashes = 1
    MaxRestarts = 0
SYMMETRY Symmetry
CHECK_DEADLOCK FALSE
INVARIANTS
    TypeOK
    AssignedWasTaken
    RecordsLag
PROPERTIES
    DeliversAsPromised
