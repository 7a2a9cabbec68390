CONSTANTS
    Op = {o1}
    Marker = {m1}
    NoOp = NoOp
    NoMarker = NoMarker
    Budget = 6
    Reserve = 1
    FramesPerStep = 1
    MaxBase = 2
    MaxFaults = 1
    MaxLosses = 1
SPECIFICATION Spec
INVARIANT EndIsNotStale
