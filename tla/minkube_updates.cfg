SPECIFICATION FairSpec
CONSTANTS
    w1 = w1
    NoWorker = NoWorker
    Worker = {w1}
    MaxAsks = 1
    MaxTimeouts = 0
    MaxStops = 0
    MaxCrashes = 0
    MaxRestarts = 0
CHECK_DEADLOCK FALSE
PROPERTIES
    ScheduledIsUpdated
