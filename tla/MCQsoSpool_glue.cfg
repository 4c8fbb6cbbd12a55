CONSTANTS
    q1 = q1
    q2 = q2
    q3 = q3
    Qsos <- MCQsos
    NonAscii <- NoQso
    HasParent = TRUE
    MaxQueueLen = 2
    MaxCrashes = 2
    MaxIoErrors = 0
SPECIFICATION Spec
INVARIANTS
    NothingLost
