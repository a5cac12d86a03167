\* A pool that is resized between one and two threads while it works.
SPECIFICATION FairSpec
CONSTANTS
    Task = {t1, t2}
    NoTask = NoTask
    InitSize = 2
    Sizes = {1, 2}
    MaxSize = 2
    MaxGen = 2
    MayDestroy = FALSE
INVARIANTS
    TypeOK
    WorkingCountExact
    WakeupCovers
    ExecutingWithinPool
PROPERTIES
    ReplacedThreadsEnd
    QueueDrains
