SPECIFICATION Spec
CONSTANTS
    r1 = r1
    r2 = r2
    Script <- MCScript
    Response = {r1}
    NoResponse = NoResponse
    MaxToggles = 2
    MaxRewrites = 1
INVARIANTS
    TypeOK
    NoTurnIsSkipped
    ResultsAreJoined
    BilledOnce
CHECK_DEADLOCK FALSE
