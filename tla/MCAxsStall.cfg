\* A refresh of the watches that arrives while a refused command is asking.
SPECIFICATION Spec
CONSTANTS
    addbp = addbp   removebp = removebp   reglist = reglist
    readregs = readregs   writereg = writereg   simple = simple
    watches = watches   poll = poll   kill = kill   NoCmd = NoCmd
    Cmd = {writereg, watches, poll}
    Polls = {poll}
    CpuStates = {"halt", "run"}
    Modulus = 16
    FirstSeq = 14
    MaxLines = 1
    Class <- ClassOf
    Follow <- RefreshAfterPoll
CHECK_DEADLOCK FALSE
INVARIANT NeverStalls
