SPECIFICATION FairSpec
CONSTANTS
    w1 = w1
    NoWorker = NoWorker
    Worker = {w1}
    MaxAsks = 1
    MaxTimeouts = 1
    MaxStops = 1
    MaxCrashes = 1
    MaxRestarts = 1
CHECK_DEADLOCK FALSE
PROPERTIES
    RequestsReachWorkers
    AcceptedIsAdopted
