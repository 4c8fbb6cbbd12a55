CONSTANTS
    q1 = q1
    q2 = q2
    q3 = q3
    Qsos <- TwoQsos
    NonAscii <- OneQso
    HasParent = TRUE
    MaxQueueLen = 2
    QueueCapacity = 1
    Unsliceable <- OneQso
    None = None
    MaxCrashes = 0
    MaxIoErrors = 0
SPECIFICATION PipeSpec
INVARIANTS
    ReceivedIsKept
