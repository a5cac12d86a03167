\* Terminate Session while a refused command is asking, against the comment in KillDebugger.
SPECIFICATION Spec
CONSTANTS
    addbp = addbp   removebp = removebp   reglist = reglist
    readregs = readregs   writereg = writereg   simple = simple
    watches = watches   poll = poll   kill = kill   NoCmd = NoCmd
    Cmd = {reglist, writereg, kill}
    Polls = {}
    CpuStates = {"halt", "run"}
    Modulus = 16
    FirstSeq = 14
    MaxLines = 1
    Class <- ClassOf
    Follow <- NoFollow
CHECK_DEADLOCK FALSE
INVARIANT CallersExist
