\* Two nodes, two goroutines each: uniqueness and order of IDs, the busy wait.
SPECIFICATION FairSpec
CONSTANTS
    n1 = n1
    n2 = n2
    c1 = c1
    c2 = c2
    Nodes <- TwoNodes
    Callers = {c1, c2}
    ConfiguredWorkerID <- TwoWorkerIDs
    MaxWorkerID = 1
    MaxSequence = 1
    MaxClock = 3
    WORKER_ID <- Environment
    HalfRange = 128
    EnvChars <- Characters
    MaxEnvLen = 4
INVARIANTS TypeOK GeneratorInvariant WorkerIDAsConfigured
PROPERTIES ImplementsOracle SpinTerminates
CHECK_DEADLOCK FALSE
