CONSTANTS
    MaxStarts = 2
    MaxWork = 3
SPECIFICATION Spec
INVARIANTS NoProcessEscapes HeadOwnsResult ResumesAlone
PROPERTIES LoopComesBack
CHECK_DEADLOCK FALSE
