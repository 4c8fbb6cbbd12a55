CONSTANTS
    q1 = q1
    q2 = q2
    q3 = q3
    Qsos <- MCQsos
    NonAscii <- OneQso
    HasParent = TRUE
    MaxQueueLen = 2
    MaxCrashes = 1
    MaxIoErrors = 0
SPECIFICATION Spec
INVARIANTS
    Startable
