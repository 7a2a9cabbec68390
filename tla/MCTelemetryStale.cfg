CONSTANTS
    None = None
    RawCap = 2
    CoarseCap = 1
    Resolution = 2
    RawPageSize = 1
    CoarsePageSize = 1
    QueueCap = 2
    FailedStarts = FALSE
    MaxRun = 2
    MaxSeq = 2
    MaxExtra = 1
    MaxConn = 1
    MaxHttp = 1
SPECIFICATION Spec
INVARIANTS
    RunAgreed
