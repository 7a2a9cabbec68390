SPECIFICATION Spec
CONSTANTS
    RunId = {1, 2}
    FaultBit = {1}
    AcquireInterval = 3
    LogInterval = 6
    MaxDuration = 9
    MaxSeq = 4
    MaxMs = 10
INVARIANTS
    RecordsTellAll
    Cadence
    NothingHeldBack
