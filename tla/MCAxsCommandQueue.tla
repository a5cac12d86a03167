--------------------------- MODULE MCAxsCommandQueue ---------------------------
(* Instances of AxsCommandQueue: which command objects a session creates.  *)
EXTENDS AxsCommandQueue

CONSTANTS addbp, removebp, reglist, readregs, writereg, simple, watches, poll,
          kill

ClassOf == [c \in Cmd |->
    CASE c = addbp -> "AddBreakpoint"
      [] c = removebp -> "RemoveBreakpoint"
      [] c = reglist -> "RegisterList"
      [] c = readregs -> "ReadRegisters"
      [] c = writereg -> "WriteRegister"
      [] c = simple -> "Simple"
      [] c = watches -> "UpdateWatchesTree"
      [] c = poll -> "ReadPC"
      [] c = kill -> "Terminate"]

NoFollow == [c \in Cmd |-> <<>>]
ReadsAfterList ==
    [c \in Cmd |-> IF c = reglist THEN <<readregs>> ELSE <<>>]
RefreshAfterPoll ==
    [c \in Cmd |-> IF c # poll THEN <<>>
                   ELSE SelectSeq(<<watches, readregs>>, LAMBDA f : f \in Cmd)]
===============================================================================
