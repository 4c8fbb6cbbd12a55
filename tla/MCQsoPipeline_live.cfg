CONSTANTS
    q1 = q1
    q2 = q2
    q3 = q3
    Qsos <- TwoQsos
    NonAscii <- NoQso
    Unsliceable <- NoQso
    None = None
    HasParent = TRUE
    MaxQueueLen = 2
    QueueCapacity = 1
    MaxCrashes = 0
    MaxIoErrors = 1
SPECIFICATION FairSpec
INVARIANTS
    EveryQsoAccountedFor
PROPERTIES
    PipeDrains
    ShutdownEnds
    EventuallyAnswered
