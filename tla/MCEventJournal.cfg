CONSTANTS
    Op = {o1, o2, o3}
    Marker = {m1}
    NoOp = NoOp
    NoMarker = NoMarker
    Budget = 7
    Reserve = 1
    FramesPerStep = 1
    MaxBase = 3
    MaxFaults = 1
    MaxLosses = 1
SPECIFICATION FairSpec
INVARIANTS
    AckedFramesSurvive
    AppliedOnce
    EndFits
PROPERTIES
    AnswersAgree
    RequestAnswered
