CONSTANTS
    q1 = q1
    q2 = q2
    q3 = q3
    Qsos <- ThreeQsos
    NonAscii <- NoQso
    Unsliceable <- NoQso
    None = None
    HasParent = TRUE
    MaxQueueLen = 2
    QueueCapacity = 1
    MaxCrashes = 1
    MaxIoErrors = 0
SYMMETRY Symmetry
SPECIFICATION PipeSpec
INVARIANTS
    PipeTypeOK
    InOrder
    OwnEntry
    ReceivedIsKept
    NoOrphan
    AnsweredOnce
    EveryQsoAccountedFor
PROPERTIES
    Delivers
