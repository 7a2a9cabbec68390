CONSTANTS
    Op = {o1, o2, o3}
    Marker = {m1, m2}
    NoOp = NoOp
    NoMarker = NoMarker
    Budget = 8
    Reserve = 1
    FramesPerStep = 1
    MaxBase = 3
    MaxFaults = 1
    MaxLosses = 1
SPECIFICATION Spec
SYMMETRY Symmetric
INVARIANTS
    AckedFramesSurvive
    AppliedOnce
    EndFits
PROPERTIES
    AnswersAgree
