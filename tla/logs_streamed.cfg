SPECIFICATION FairSpec
CONSTANTS
    HeaderLen = 2
    Sizes = {0, 1, 3}
    MaxFrames = 3
CHECK_DEADLOCK FALSE
INVARIANTS
    TypeOK
    EntriesAreFrames
    EndIsNoticed
PROPERTIES
    LogsEnd
