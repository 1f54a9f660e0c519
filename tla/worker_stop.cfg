SPECIFICATION FairSpec
CONSTANTS
    id1 = id1
    NoId = NoId
    Id = {id1}
    Time = {1}
    MaxQueue = 1
    MaxRestarts = 0
CHECK_DEADLOCK FALSE
PROPERTIES
    StopIsCarriedOut
