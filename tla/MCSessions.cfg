SPECIFICATION FairSessionsSpec
CONSTANTS
    Threads = {1, 2, 3}
    Jobs <- MCJobs
    Inodes <- MCInodes
    Values = {"a", "c", "zero"}
    MaxFaults = 1
    Zero = "zero"
    None = None
INVARIANTS
    DeliveredWhole
    NobodyFails
    AckedStays
PROPERTY EverySessionEnds
CHECK_DEADLOCK FALSE
