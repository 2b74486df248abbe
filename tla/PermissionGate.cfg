SPECIFICATION Spec
CONSTANTS
    r1 = r1
    r2 = r2
    p1 = p1
    p2 = p2
    Req <- MCReq
    Proc <- MCProc
    Owner <- MCOwner
    NoReq = NoReq
    MaxClicks = 2
    MaxCrashes = 1
INVARIANTS
    AnsweredAtMostOnce
    AllowNeedsPerson
    RunnerSettledRecordsAgree
PROPERTIES
    ParkedTurnResumes
CHECK_DEADLOCK FALSE
