\* Done() against its documentation: a pool of one thread, as the parser's is.
SPECIFICATION Spec
CONSTANTS
    Task = {t1}
    NoTask = NoTask
    InitSize = 1
    Sizes = {}
    MaxSize = 1
    MaxGen = 1
    MayDestroy = FALSE
INVARIANTS
    DoneMeansNothingToDo
