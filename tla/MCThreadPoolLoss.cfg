\* A resize against the note on SetConcurrentThreads.
SPECIFICATION Spec
CONSTANTS
    Task = {t1, t2}
    NoTask = NoTask
    InitSize = 2
    Sizes = {1}
    MaxSize = 2
    MaxGen = 2
    MayDestroy = FALSE
INVARIANTS
    ResizeKeepsTasks
