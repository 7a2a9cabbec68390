SPECIFICATION ServiceSpec
CONSTANTS
    q1 = q1
    q2 = q2
    Run = {1, 2}
    RunId = {1, 2}
    Request = {q1}
    Reading = {0, 1, 2, 3, 4}
    Complete = "complete"
    LimitHit = "duration_limit"
    StorageError = "storage_error"
    Verdict = {"complete", "duration_limit", "storage_error"}
    Unended = "unended"
    NoRequest = "none"
    PendingCap = 2
    RawCapacity = 4
    NvsReliable = TRUE
    FaultBit = {}
    AcquireInterval = 1
    LogInterval = 2
    MaxDuration = 4
    QueueCap = 1
    Flush = 2
    LoopOrder = FALSE
    MaxStep = 2
    MaxLag = 1
    MaxFaults = 1
    MaxBoots = 1
INVARIANTS
    InStep
    HealthyMeansSettled
