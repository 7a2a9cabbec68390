CONSTANTS
    None = None
    RawCap = 2
    CoarseCap = 1
    Resolution = 2
    RawPageSize = 1
    CoarsePageSize = 1
    QueueCap = 3
    FailedStarts = TRUE
    MaxRun = 2
    MaxSeq = 2
    MaxExtra = 1
    MaxConn = 2
    MaxHttp = 0
SPECIFICATION Spec
INVARIANTS
    MeasuredInItsRun
