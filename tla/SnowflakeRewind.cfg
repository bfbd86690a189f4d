\* One node whose wall clock may be set back.
SPECIFICATION RewindSpec
CONSTANTS
    n1 = n1
    n2 = n2
    c1 = c1
    c2 = c2
    Nodes <- OneNode
    Callers = {c1}
    ConfiguredWorkerID <- OneWorkerID
    MaxWorkerID = 1
    MaxSequence = 1
    MaxClock = 3
    WORKER_ID <- Environment
    HalfRange = 128
    EnvChars <- Characters
    MaxEnvLen = 4
INVARIANT NoDuplicateIDs
CHECK_DEADLOCK FALSE
