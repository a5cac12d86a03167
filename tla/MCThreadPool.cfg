\* A pool of two threads that is never resized; the owner may destroy it.
SPECIFICATION FairSpec
CONSTANTS
    Task = {t1, t2, t3}
    NoTask = NoTask
    InitSize = 2
    Sizes = {}
    MaxSize = 2
    MaxGen = 1
    MayDestroy = TRUE
INVARIANTS
    WorkingWithinPool
PROPERTIES
    AllDoneMeansDone
    TaskSettled
    DestructorWakesAll
    ImplementsTaskBoard
CHECK_DEADLOCK FALSE
