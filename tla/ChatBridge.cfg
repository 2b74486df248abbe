SPECIFICATION BridgeSpec
CONSTANTS
    Worker = {w1, w2}
    MaxTurns = 3
    MaxWork = 1
INVARIANTS
    BridgeTypeOK
    AnswersStayNear
    NoWaitIsStranded
SYMMETRY Symmetry
CHECK_DEADLOCK FALSE
