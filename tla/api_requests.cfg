SPECIFICATION Spec
CONSTANTS
    Half = 32
    MaxLimit = 4
    MaxTasks = 4
INVARIANTS
    TypeOK
    StatusTellsTruth
    HandledOnce
    WalkSeesAll
    PagesAreRight
    WorkerPagesAreRight
