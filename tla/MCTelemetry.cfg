CONSTANTS
    None = None
    RawCap = 2
    CoarseCap = 1
    Resolution = 2
    RawPageSize = 1
    CoarsePageSize = 1
    QueueCap = 2
    FailedStarts = TRUE
    MaxRun = 2
    MaxSeq = 3
    MaxExtra = 0
    MaxConn = 2
    MaxHttp = 0
SPECIFICATION LiveSpec
INVARIANTS
    CaughtUp
    NoHole
    ShownUnderItsRun
PROPERTIES
    SnapshotArrives
