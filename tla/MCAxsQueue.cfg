\* A halted CPU: commands that overlap, a barrier, an error and its Terminate.
SPECIFICATION FairSpec
CONSTANTS
    addbp = addbp   removebp = removebp   reglist = reglist
    readregs = readregs   writereg = writereg   simple = simple
    watches = watches   poll = poll   kill = kill   NoCmd = NoCmd
    Cmd = {reglist, readregs, watches, simple, kill}
    Polls = {}
    CpuStates = {"halt"}
    Modulus = 16
    FirstSeq = 14
    MaxLines = 2
    Class <- ClassOf
    Follow <- ReadsAfterList
CHECK_DEADLOCK FALSE
INVARIANTS TypeOK RunOrder CallersExist NeverStalls
PROPERTIES CommandsEnd
