\* A barrier against the comment on IsBarrier.
SPECIFICATION Spec
CONSTANTS
    addbp = addbp   removebp = removebp   reglist = reglist
    readregs = readregs   writereg = writereg   simple = simple
    watches = watches   poll = poll   kill = kill   NoCmd = NoCmd
    Cmd = {addbp, removebp, simple, writereg, watches, poll}
    Polls = {poll}
    CpuStates = {"run"}
    Modulus = 16
    FirstSeq = 14
    MaxLines = 1
    Class <- ClassOf
    Follow <- NoFollow
CHECK_DEADLOCK FALSE
INVARIANT BarrierWaits
