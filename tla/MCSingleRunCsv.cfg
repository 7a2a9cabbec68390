SPECIFICATION Spec
CONSTANTS
    NoFile = NoFile
    Run = {1, 2}
    AcquireInterval = 1
    LogInterval = 3
    MaxDuration = 5
    MaxSeq = 4
    MaxMs = 6
INVARIANTS
    EveryLineCounts
    EndedMeansWhole
    RowsTellAll
