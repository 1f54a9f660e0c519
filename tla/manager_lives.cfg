SPECIFICATION FairSpec
CONSTANTS
    w1 = w1
    NoWorker = NoWorker
    id1 = id1
    id2 = id2
    h1 = h1
    Worker = {w1}
    Id = {id1, id2}
    Time = {1}
    Handler = {h1}
    PageLimit = 2
    MaxPending = 0
    MaxListed = 0
    MaxSends = 1
    MaxRestarts = 1
INVARIANTS
    ListIsTaskDb
PROPERTIES
    ReportedIsAdopted
    QueuedIsServed
