SPECIFICATION FairSpec
CONSTANTS
    p1 = p1
    p2 = p2
    Slot = {1, 2}
    Project = {p1, p2}
    None = None
    JobLists <- MCJobLists
    CompileLists <- MCCompileLists
    Steps <- MCSteps
    MaxDepth <- MCMaxDepth
INVARIANTS
    TypeOK
    WaitsForPrevious
    AliveListed
    FinishedMeansOver
PROPERTIES
    NoFalseSuccess
    BuildEnds
CHECK_DEADLOCK FALSE
