SPECIFICATION FairSpec
CONSTANTS
    b1 = b1
    b2 = b2
    Bp = {b1, b2}
    NoBp = NoBp
    InProject = {b1}
    Index = {1, 2}
    MaxCalls = 4
INVARIANTS
    TypeOK
    NoOrphans
    DeletesOwn
    QuitLeavesFree
PROPERTIES
    Settles
CHECK_DEADLOCK FALSE
