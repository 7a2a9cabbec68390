SPECIFICATION ArchiveSpec
CONSTANTS
    q1 = q1
    x1 = x1
    x2 = x2
    Run = {1, 2}
    Request = {q1}
    Reading = {x1, x2}
    Verdict = {"complete", "storage_error"}
    StorageError = "storage_error"
    Unended = "unended"
    NoRequest = "none"
    PendingCap = 2
    RawCapacity = 3
    NvsReliable = FALSE
SYMMETRY Symmetry
INVARIANTS
    TypeOK
    AckedSurvive
    WriterOnOpenRun
    PreparedIdIsFree
PROPERTIES
    ImplementsLedger
