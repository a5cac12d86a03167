\* A CPU that starts and halts: polls, refusals and dialogs within dialogs.
SPECIFICATION Spec
CONSTANTS
    addbp = addbp   removebp = removebp   reglist = reglist
    readregs = readregs   writereg = writereg   simple = simple
    watches = watches   poll = poll   kill = kill   NoCmd = NoCmd
    Cmd = {addbp, writereg, readregs, watches, poll, kill}
    Polls = {poll}
    CpuStates = {"halt", "run"}
    Modulus = 16
    FirstSeq = 14
    MaxLines = 1
    Class <- ClassOf
    Follow <- RefreshAfterPoll
CHECK_DEADLOCK FALSE
INVARIANTS OneAtATime LinesReachSender
