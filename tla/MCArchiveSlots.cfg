SPECIFICATION Spec
CONSTANTS
    Request = {1, 2, 3}
    Kind <- MCKind
    SlotCount = 2
    JobCapacity = 2
    None = None
    MaxWaits = 1
    MaxStarved = 1
INVARIANTS
    AnswersDoNotCross
PROPERTIES
    ImplementsLine
    AcceptedAnswered
CHECK_DEADLOCK FALSE
