SPECIFICATION FairSpec
CONSTANTS
    MaxTurn = 2
    Backlog = {1}
    Slow = {2}
    PersonTypes = {"follow_up", "no_work"}
    Says <- MCSays
    GoOn = {}
    AsksOnly = {2}
    MaxActs = 1
INVARIANTS TypeOK TasksFollowLabels EmptyIsNoWork
PROPERTIES PersonKeepsLabel EndedIsLabelled
