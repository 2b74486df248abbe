SPECIFICATION Spec
CONSTANTS
    r1 = r1
    r2 = r2
    p1 = p1
    p2 = p2
    Req <- OneReq
    Proc <- OneProc
    Owner <- OneOwner
    NoReq = NoReq
    MaxClicks = 1
    MaxCrashes = 0
PROPERTY
    EveryRecordCloses
CHECK_DEADLOCK FALSE
