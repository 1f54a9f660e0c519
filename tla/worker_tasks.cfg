SPECIFICATION FairSpec
CONSTANTS
    id1 = id1
    id2 = id2
    NoId = NoId
    Id = {id1, id2}
    Time = {1, 2}
    MaxQueue = 1
    MaxRestarts = 1
CHECK_DEADLOCK FALSE
INVARIANTS
    TypeOK
    WaitsOnce
    RunningWasStarted
PROPERTIES
    ReportsAreSound
    AcceptedIsReported
    ExitIsNoticed
