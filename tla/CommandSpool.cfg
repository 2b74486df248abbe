SPECIFICATION Spec
CONSTANTS
    Cmd = {c1, c2}
    NoCmd = NoCmd
    Workers = {w1, w2}
    MaxFaults = 1
    SeenCap = 0
INVARIANTS
    DoneMeansAcked
    RunsBoundedByMemoryLoss
    RowsFollowLog
    FileOrderIsCommitOrder
PROPERTIES
    RowsClose
