SPECIFICATION Spec
CONSTANTS
    m1 = m1
    m2 = m2
    Session = {1, 2, 3, 4}
    Fork = {3, 4}
    Send = {m1}
    Origin <- MCOrigin
    Target <- MCTarget
    SocketOf <- MCSocket
    LabelOf <- MCTarget
    MaxRewrites = 1
INVARIANTS
    TypeOK
    NoAnswerIsMissed
PROPERTIES
    KeepsTheJournal
CHECK_DEADLOCK FALSE
