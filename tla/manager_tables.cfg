SPECIFICATION Spec
CONSTANTS
    w1 = w1
    NoWorker = NoWorker
    id1 = id1
    id2 = id2
    h1 = h1
    Worker = {w1}
    Id = {id1, id2}
    Time = {1, 2}
    Handler = {h1}
    PageLimit = 1
    MaxPending = 1
    MaxListed = 2
    MaxSends = 1
    MaxRestarts = 0
SYMMETRY Symmetry
INVARIANTS
    TypeOK
    SortedByStart
    EveryTaskListed
    StartTimesAgree
    IndexesAgree
