CONSTANTS
    Key = {main, sub, other}
    MaxStreams = 2
    MaxBuf = 1
    MaxText = 3
    MaxEvents = 1
SPECIFICATION DeltaSpec
INVARIANTS DirtyIsDue SeqFollowsText
PROPERTIES TextIsWritten
CHECK_DEADLOCK FALSE
