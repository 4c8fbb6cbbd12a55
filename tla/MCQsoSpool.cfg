CONSTANTS
    q1 = q1
    q2 = q2
    q3 = q3
    Qsos <- MCQsos
    NonAscii <- NoQso
    HasParent = FALSE
    MaxQueueLen = 2
    MaxCrashes = 3
    MaxIoErrors = 2
SPECIFICATION Spec
INVARIANTS
    TypeOK
    Durable
    SpoolMirrorsMemory
    SeqFresh
    CapHolds
