SPECIFICATION FairSpec
CONSTANTS
    Text = {n1}
    Notices = {n1}
    Probe = Probe
    NoText = NoText
    Buttons = {"poll"}
    MaxReq = 1
    MaxCalls = 1
    MaxQueue = 0
    MaxEvents = 1
    MaxWork = 2
PROPERTIES
    NoneWaitsForPassedTest
