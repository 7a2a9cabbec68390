SPECIFICATION FairSpec
CONSTANTS
    NoFile = NoFile
    AcquireInterval = 1
    LogInterval = 1
    MaxDuration = 1
    Request = {1, 2, 3}
    Kinds <- MCKinds
    SlotCount = 2
    TicketSize = 8
    FirstTicket = 7
    BlockSize = 2
    None = None
    SavedRun <- MCSavedRun
    MaxRun = 2
INVARIANTS
    OldestFirst
    DownloadIsExact
    RunIsRecorded
PROPERTY RequestsEnd
