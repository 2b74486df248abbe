SPECIFICATION Spec
CONSTANTS
    Text = {t1, n1}
    Notices = {n1}
    Probe = Probe
    NoText = NoText
    Buttons = {"start", "stop", "poll"}
    MaxReq = 2
    MaxCalls = 2
    MaxQueue = 0
    MaxEvents = 2
    MaxWork = 2
INVARIANTS
    TypeOK
    LetThroughIsOnRecord
    NoMessageMissesTheTest
PROPERTIES
    SettledStays
