SPECIFICATION FairSpec
CONSTANTS
    cpp = cpp
    h = h
    File = {cpp, h}
    Includes <- MCIncludes
    Batches <- MCBatches
    HasProject = TRUE
    MaxCalls = 3
INVARIANTS
    TypeOK
    OnlyOwnerParses
    ReservedHasTask
    NoListUserLeft
PROPERTIES
    Released
    EverythingParsed
CHECK_DEADLOCK FALSE
