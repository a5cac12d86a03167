---------------------------- MODULE AxsCommandQueue ----------------------------
(***************************************************************************)
(* The command queue of the AXS debugger driver: DebuggerDriver and        *)
(* AXS_driver (plugins/debuggeraxs/debuggerdriver.cpp, axs_driver.cpp), the *)
(* commands they run (debugger_defs.*, axs_commands.h) and the output queue *)
(* of the plugin that feeds them (DebuggerAXS::OnGDBOutput).               *)
(*                                                                         *)
(* A command waits in m_DCmds, is started into m_RunDCmds, sends numbered  *)
(* requests to the external debugger, gets the lines that carry its numbers *)
(* and retires in order.  Everything runs on the one GUI thread, but not   *)
(* one call after the other: a command that meets an error, or a CPU state *)
(* it cannot work in, opens a modal dialog, and while the dialog is open   *)
(* the timer and the debugger's output call the driver again.  The calls   *)
(* in progress are the frames of a stack, one loop iteration or dialog     *)
(* answer being one step; between two events the stack is empty.           *)
(***************************************************************************)
EXTENDS Integers, Sequences, FiniteSets

CONSTANTS
    Cmd,         \* the command objects a behaviour may create
    Class,       \* the class of each
    Follow,      \* the commands each queues once it is done, if it does
    Polls,       \* the ReadPC commands that Poll and ProcessCommand create
    NoCmd,
    CpuStates,   \* the CPU states the external debugger reports
    Modulus,     \* m_CmdSequence is an unsigned int of this many values
    FirstSeq,    \* its value when the behaviour begins
    MaxLines     \* bound: lines the external debugger answers a request with

Classes == {"AddBreakpoint", "RemoveBreakpoint", "RegisterList",
            "ReadRegisters", "WriteRegister", "ReadPC", "Simple",
            "UpdateWatchesTree", "Terminate"}

ASSUME CmdAssumption ==
    /\ IsFiniteSet(Cmd) /\ NoCmd \notin Cmd
    /\ Class \in [Cmd -> Classes]
    /\ Follow \in [Cmd -> Seq(Cmd)]
    /\ \A c \in Cmd : Follow[c] # <<>> => Class[c] \in {"RegisterList", "ReadPC"}
    /\ Polls \subseteq {c \in Cmd : Class[c] = "ReadPC"}
    /\ CpuStates \subseteq {"halt", "run", "disconnected"}
ASSUME SeqAssumption ==
    /\ Modulus \in Nat /\ Modulus > 1
    /\ FirstSeq \in 1..(Modulus - 1)
    /\ MaxLines \in Nat \ {0}

VARIABLES
    waiting,     \* m_DCmds
    running,     \* m_RunDCmds
    cmdSeq,      \* each command's m_CmdSeq
    curSeq,      \* each command's m_CurSeq
    live,        \* the commands whose m_Running is set
    slcmd,       \* the AddBreakpoint commands whose m_slcmd is set
    next,        \* m_CmdSequence
    sync,        \* m_SyncComm
    cpu,         \* m_CpuState
    killed,      \* KillDebugger has run (m_IsInitializing, ~m_LiveUpdate)
    inbox,       \* m_DebuggerOutputQueue
    stack,       \* the calls in progress on the GUI thread, innermost last
    fresh,       \* the commands not created yet
    asked,       \* requests the external debugger has not finished answering
    pipe,        \* lines it has written that no event has delivered yet
    up           \* "up", "exited" (the process), "over" (the session)

cmdVars    == <<cmdSeq, curSeq, live, slcmd>>
queueVars  == <<waiting, running, fresh>>
driverVars == <<cpu, killed, inbox>>
peerVars   == <<pipe, up>>
vars == <<queueVars, cmdVars, next, sync, driverVars, stack, asked, peerVars>>

Of(class) == {c \in Cmd : Class[c] = class}
Killers == Of("Terminate")
Seqs == 1..(Modulus - 1)

(* The virtual functions CanOverlap and IsBarrier. *)
CanOverlap(c) == Class[c] \notin {"Simple", "Terminate"}
IsBarrier(c) == Class[c] \in {"Simple", "Terminate", "UpdateWatchesTree"}

(* How many requests Action() sends, when it sends any. *)
Requests(c) ==
    CASE Class[c] = "ReadPC" -> {3}
      [] Class[c] = "RegisterList" -> {2}
      [] Class[c] = "ReadRegisters" -> {0, 1}
      [] Class[c] = "RemoveBreakpoint" -> {0, 1}
      [] Class[c] = "UpdateWatchesTree" -> {0}
      [] OTHER -> {1}

(* KillOnNotHalt and KillOnNotHaltRun at the head of Action(). *)
Refused(c, s) ==
    \/ Class[c] \in {"ReadRegisters", "WriteRegister"} /\ s # "halt"
    \/ Class[c] = "ReadPC" /\ s \notin {"halt", "run"}

(* ParseOutput() calls KillOnError. *)
AsksOnError(c) == Class[c] \in
    {"RemoveBreakpoint", "RegisterList", "ReadRegisters", "WriteRegister",
     "ReadPC"}

-----------------------------------------------------------------------------
(* Frames of the stack.                                                    *)
(*   line    AXS_driver::ParseOutput, about to call ProcessCommand         *)
(*   handle  the loop of DebuggerDriver::ParseOutput, at index i           *)
(*   scan    RunQueue, about to look for a command that is not done        *)
(*   run     RunQueue at the head of its while loop                        *)
(*   after   RunQueue behind the RunAction() call                          *)
(*   prune   PruneRunQueue, called for the loop of AXS_driver::ParseOutput *)
(*   act     Action() of cmd with left requests still to send              *)
(*   queue   a command that is done queues what it is followed by          *)
(*   error, refusal   the dialog of KillOnError, of KillOnNotHalt          *)
(*   finish  ParseOutput() of cmd behind the KillOnError() call            *)
(*   lost    a member function of a command that no longer exists          *)
(* loop tells the RunQueue of AXS_driver::ParseOutput from QueueCommand's. *)

Frame ==
    [op : {"line", "lost"}] \cup [op : {"handle"}, i : Nat \ {0}]
    \cup [op : {"scan"}, loop : BOOLEAN]
    \cup [op : {"run", "after"}, loop : BOOLEAN, done : BOOLEAN, work : BOOLEAN]
    \cup [op : {"prune"}, work : BOOLEAN] \cup [op : {"queue"}, todo : Seq(Cmd) \ {<<>>}]
    \cup [op : {"act"}, cmd : Cmd, left : 1..3]
    \cup [op : {"error", "refusal", "finish"}, cmd : Cmd]

Line == [seq : 0..(Modulus - 1), by : Cmd \cup {NoCmd}, final : BOOLEAN,
         err : BOOLEAN, status : CpuStates \cup {"none"}]

Top == stack[Len(stack)]
Below == SubSeq(stack, 1, Len(stack) - 1)
On(op) == stack # <<>> /\ Top.op = op
Idle == stack = <<>>
InDialog == stack # <<>> /\ Top.op \in {"error", "refusal"}

(* Return, go on in another place, or call. *)
Return == stack' = Below
Become(f) == stack' = Append(Below, f)
Call(f, g) == stack' = Append(Append(Below, f), g)

QueueFrame == [op |-> "scan", loop |-> FALSE]

TypeOK ==
    /\ waiting \in Seq(Cmd) /\ running \in Seq(Cmd)
    /\ fresh \subseteq Cmd /\ live \subseteq Cmd /\ slcmd \subseteq Cmd
    /\ cmdSeq \in [Cmd -> SUBSET Seqs]
    /\ curSeq \in [Cmd -> 0..(Modulus - 1)]
    /\ next \in Seqs
    /\ sync \in BOOLEAN /\ killed \in BOOLEAN
    /\ cpu \in CpuStates
    /\ inbox \in Seq(Line) /\ pipe \in Seq(Line)
    /\ stack \in Seq(Frame)
    /\ asked \in Seq([by : Cmd, seq : Seqs, final : BOOLEAN, n : 0..MaxLines])
    /\ up \in {"up", "exited", "over"}

(* A session in which initialization is over and nothing is queued;        *)
(* m_SyncComm is what Prepare was told.                                    *)
Init ==
    /\ waiting = <<>> /\ running = <<>> /\ fresh = Cmd
    /\ live = {} /\ slcmd = {}
    /\ cmdSeq = [c \in Cmd |-> {}]
    /\ curSeq = [c \in Cmd |-> 0]
    /\ next = FirstSeq
    /\ sync \in BOOLEAN
    /\ cpu \in CpuStates /\ killed = FALSE
    /\ inbox = <<>> /\ stack = <<>>
    /\ asked = <<>> /\ pipe = <<>> /\ up = "up"

-----------------------------------------------------------------------------
(* DebuggerCmd. *)

IsDone(c) == c \notin live /\ curSeq[c] = 0 /\ cmdSeq[c] = {}

(* Done() on every command of S; DoneKeepsCurrent is a faulty variant. *)
DoneKeepsCurrent(S) ==
    /\ live' = live \ S
    /\ cmdSeq' = [c \in Cmd |-> IF c \in S THEN {} ELSE cmdSeq[c]]
    /\ curSeq' = curSeq
Done(S) ==
    /\ live' = live \ S
    /\ cmdSeq' = [c \in Cmd |-> IF c \in S THEN {} ELSE cmdSeq[c]]
    /\ curSeq' = [c \in Cmd |-> IF c \in S THEN 0 ELSE curSeq[c]]

(* The next value of m_CmdSequence, which skips 0: a line whose number is  *)
(* 0 answers nothing.  Faulty variants: 0 is not skipped; no increment.    *)
NextSeqWraps(s) == (s + 1) % Modulus
NextSeqStays(s) == s
NextSeq(s) == IF s = Modulus - 1 THEN 1 ELSE s + 1

(* SendCommand(), once for each request of an Action() or a second request *)
(* of ParseOutput(). *)
Send ==
    /\ On("act")
    /\ LET c == Top.cmd IN
        /\ cmdSeq' = [cmdSeq EXCEPT ![c] = @ \cup {next}]
        /\ asked' = Append(asked, [by |-> c, seq |-> next,
                                   final |-> Top.left = 1, n |-> 0])
        /\ IF Top.left = 1 THEN Return
           ELSE Become([Top EXCEPT !.left = @ - 1])
    /\ next' = NextSeq(next)
    /\ UNCHANGED <<queueVars, curSeq, live, slcmd, sync, driverVars, peerVars>>

-----------------------------------------------------------------------------
(* DebuggerDriver: the queue. *)

(* m_DCmds.Add; the caller also pushes a frame for the RunQueue() call. *)
QueueCommand(c) == waiting' = Append(waiting, c) /\ fresh' = fresh \ {c}

AllDone == \A i \in 1..Len(running) : IsDone(running[i])

(* The condition of RunQueue's while loop; done is the local runqdone.  A  *)
(* faulty variant forgets the barrier, another m_SyncComm.                 *)
StartsOverBarrier(done) ==
    waiting # <<>> /\ (~done => ~sync /\ CanOverlap(running[Len(running)]))
StartsInSync(done) ==
    /\ waiting # <<>>
    /\ ~done => CanOverlap(running[Len(running)]) /\ ~IsBarrier(Head(waiting))
CanStart(done) ==
    /\ waiting # <<>>
    /\ ~done => /\ ~sync
                /\ CanOverlap(running[Len(running)])
                /\ ~IsBarrier(Head(waiting))

Scan ==
    /\ On("scan")
    /\ Become([op |-> "run", loop |-> Top.loop, done |-> AllDone,
               work |-> FALSE])
    /\ UNCHANGED <<queueVars, cmdVars, next, sync, driverVars, asked, peerVars>>

(* One round of the loop: the command is started.  Action() refuses, or    *)
(* sends its requests, or has none to send and is done at once.            *)
Start ==
    /\ On("run") /\ CanStart(Top.done)
    /\ LET c == Head(waiting)
           rest == [Top EXCEPT !.op = "after", !.work = TRUE]
       IN  /\ waiting' = Tail(waiting)
           /\ running' = Append(running, c)
           /\ \/ /\ Refused(c, cpu)
                 /\ live' = live \cup {c}
                 /\ Call(rest, [op |-> "refusal", cmd |-> c])
              \/ /\ ~Refused(c, cpu)
                 /\ \E n \in Requests(c) \ {0} :
                        Call(rest, [op |-> "act", cmd |-> c, left |-> n])
                 /\ live' = live \cup {c}
              \/ /\ ~Refused(c, cpu) /\ 0 \in Requests(c)
                 /\ Become(rest)
                 /\ live' = live
    /\ UNCHANGED <<fresh, cmdSeq, curSeq, slcmd, next, sync, driverVars, asked,
                   peerVars>>

After ==
    /\ On("after") /\ running # <<>>
    /\ Become([Top EXCEPT !.op = "run",
                          !.done = @ /\ IsDone(running[Len(running)])])
    /\ UNCHANGED <<queueVars, cmdVars, next, sync, driverVars, asked, peerVars>>

EndRun ==
    /\ On("run") /\ ~CanStart(Top.done)
    /\ IF Top.loop THEN Become([op |-> "prune", work |-> Top.work]) ELSE Return
    /\ UNCHANGED <<queueVars, cmdVars, next, sync, driverVars, asked, peerVars>>

(* PruneRunQueue, one command at a time. *)
Retirable == running # <<>> /\ IsDone(Head(running))
Prune ==
    /\ On("prune") /\ Retirable
    /\ running' = Tail(running)
    /\ UNCHANGED <<waiting, fresh, cmdVars, next, sync, driverVars, stack,
                   asked, peerVars>>

(* Behind PruneRunQueue: the loop of AXS_driver::ParseOutput goes on while *)
(* RunQueue finds work; then the line is done with, and OnGDBOutput takes  *)
(* the next one.  Faulty variant: RunQueue is not called.                  *)
EndPruneOnce ==
    /\ On("prune") /\ ~Retirable
    /\ inbox' = Tail(inbox)
    /\ IF Len(inbox) > 1 THEN Become([op |-> "line"]) ELSE Return
    /\ UNCHANGED <<queueVars, cmdVars, next, sync, cpu, killed, asked, peerVars>>
EndPrune ==
    /\ On("prune") /\ ~Retirable
    /\ \/ /\ Top.work
          /\ Become([op |-> "scan", loop |-> TRUE])
          /\ UNCHANGED inbox
       \/ /\ ~Top.work
          /\ inbox' = Tail(inbox)
          /\ IF Len(inbox) > 1 THEN Become([op |-> "line"]) ELSE Return
    /\ UNCHANGED <<queueVars, cmdVars, next, sync, cpu, killed, asked, peerVars>>

-----------------------------------------------------------------------------
(* One line of output. *)

(* AXS_driver::ProcessCommand: a status line sets the CPU state, and a CPU *)
(* that has just halted is asked for its PC.  (The bound on Polls may stop *)
(* the latter.)                                                            *)
ProcessCommand ==
    /\ On("line")
    /\ LET s == Head(inbox).status
           handle == [op |-> "handle", i |-> 1]
           ask == s = "halt" /\ cpu # "halt" /\ ~killed
       IN  /\ cpu' = IF s = "none" THEN cpu ELSE s
           /\ \/ /\ ask
                 /\ \E c \in Polls \cap fresh : QueueCommand(c)
                 /\ Call(handle, QueueFrame)
              \/ /\ ask => Polls \cap fresh = {}
                 /\ Become(handle)
                 /\ UNCHANGED <<waiting, fresh>>
    /\ UNCHANGED <<running, cmdVars, next, sync, killed, inbox, asked, peerVars>>

NextIndex == [Top EXCEPT !.i = @ + 1]
Current == running[Top.i]
Handling == On("handle") /\ Head(inbox).seq # 0 /\ Top.i <= Len(running)

(* A command that is done is not asked. *)
Pass ==
    /\ Handling /\ IsDone(Current)
    /\ Become(NextIndex)
    /\ UNCHANGED <<queueVars, cmdVars, next, sync, driverVars, asked, peerVars>>

IsForUs(c, seq) == seq = curSeq[c] \/ seq \in cmdSeq[c]

(* ParseAllOutput of a command the line is not for *)
Foreign ==
    /\ Handling /\ ~IsDone(Current) /\ ~IsForUs(Current, Head(inbox).seq)
    /\ curSeq' = [curSeq EXCEPT ![Current] = 0]
    /\ Become(NextIndex)
    /\ UNCHANGED <<queueVars, cmdSeq, live, slcmd, next, sync, driverVars,
                   asked, peerVars>>

(* m_CmdSeq after ParseAllOutput has taken the line *)
Left(c, seq) == IF seq = curSeq[c] THEN cmdSeq[c] ELSE cmdSeq[c] \ {seq}

(* ParseOutput of c reaches Done() at this line.  IsLast is Left = {}.     *)
(* (An AddBreakpoint line may lack the address: the second disjunct.)      *)
Completes(c, l) ==
    CASE Class[c] \in {"RegisterList", "ReadRegisters", "Terminate"} ->
             {Left(c, l.seq) = {}}
      [] Class[c] = "ReadPC" -> {l.final}
      [] Class[c] = "AddBreakpoint" ->
             IF c \in slcmd \/ l.err THEN {TRUE} ELSE BOOLEAN
      [] OTHER -> {TRUE}

(* What c goes on to queue: a RegisterList the reading of the registers; a *)
(* ReadPC whatever OnCursorChanged asks for, if the cursor moved.          *)
FollowUp(c) == IF cpu = "halt" THEN Follow[c] ELSE <<>>
AfterAnswer(c) == {FollowUp(c)} \cup (IF Class[c] = "ReadPC" THEN {<<>>} ELSE {})
AfterError(c) == IF Class[c] = "RegisterList" THEN FollowUp(c) ELSE <<>>

(* Done() and the way on: todo is to be queued, then s is the stack.       *)
Finish(c, s, todo) ==
    /\ Done({c})
    /\ stack' = IF todo = <<>> THEN s
                ELSE Append(s, [op |-> "queue", todo |-> todo])

(* One QueueCommand of these.  (An object the bound has used up is passed   *)
(* over.)                                                                  *)
QueueNext ==
    /\ On("queue")
    /\ LET c == Head(Top.todo)
           rest == Tail(Top.todo)
           base == IF rest = <<>> THEN Below
                   ELSE Append(Below, [Top EXCEPT !.todo = rest])
       IN  \/ /\ c \in fresh
              /\ QueueCommand(c)
              /\ stack' = Append(base, QueueFrame)
           \/ /\ c \notin fresh
              /\ stack' = base
              /\ UNCHANGED <<waiting, fresh>>
    /\ UNCHANGED <<running, cmdVars, next, sync, driverVars, asked, peerVars>>

(* ParseAllOutput of the command the line is for: it is done, or asks the  *)
(* user what to do about the error, or goes on (AddBreakpoint with its     *)
(* second request).                                                        *)
Accept ==
    /\ Handling /\ ~IsDone(Current)
    /\ LET c == Current
           l == Head(inbox)
           asks == l.err /\ AsksOnError(c)
           Taken == /\ curSeq' = [curSeq EXCEPT ![c] = l.seq]
                    /\ cmdSeq' = [cmdSeq EXCEPT ![c] = Left(c, l.seq)]
                    /\ UNCHANGED live
       IN  /\ IsForUs(c, l.seq)
           /\ \/ /\ asks /\ Taken
                 /\ Call(NextIndex, [op |-> "error", cmd |-> c])
                 /\ UNCHANGED slcmd
              \/ /\ ~asks /\ TRUE \in Completes(c, l)
                 /\ \E todo \in AfterAnswer(c) :
                        Finish(c, Append(Below, NextIndex), todo)
                 /\ UNCHANGED slcmd
              \/ /\ ~asks /\ FALSE \in Completes(c, l) /\ Taken
                 /\ IF Class[c] = "AddBreakpoint"
                    THEN /\ slcmd' = slcmd \cup {c}
                         /\ Call(NextIndex, [op |-> "act", cmd |-> c, left |-> 1])
                    ELSE Become(NextIndex) /\ UNCHANGED slcmd
    /\ UNCHANGED <<queueVars, next, sync, driverVars, asked, peerVars>>

(* The end of DebuggerDriver::ParseOutput, at once for a line numbered 0. *)
EndHandle ==
    /\ On("handle")
    /\ \/ /\ Head(inbox).seq = 0
          /\ Become([op |-> "scan", loop |-> TRUE])
       \/ /\ Head(inbox).seq # 0 /\ Top.i > Len(running)
          /\ Become([op |-> "prune", work |-> TRUE])
    /\ UNCHANGED <<queueVars, cmdVars, next, sync, driverVars, asked, peerVars>>

-----------------------------------------------------------------------------
(* The dialogs. *)

Exists(c) == \E i \in 1..Len(running) : running[i] = c

(* "Skip Command": KillOnError or KillOnNotHalt returns true. *)
Skip ==
    /\ InDialog /\ Exists(Top.cmd)
    /\ \/ Top.op = "error" /\ Finish(Top.cmd, Below, AfterError(Top.cmd))
       \/ Top.op = "refusal" /\ Finish(Top.cmd, Below, <<>>)
    /\ UNCHANGED <<queueVars, slcmd, next, sync, driverVars, asked, peerVars>>

(* Faulty variant: the run queue is cleared too. *)
KillClears(k) ==
    /\ On("error") /\ Exists(Top.cmd) /\ k \in Killers \cap fresh
    /\ Done({running[i] : i \in 1..Len(running)})
    /\ waiting' = <<k>> /\ fresh' = fresh \ {k}
    /\ running' = <<>>
    /\ killed' = TRUE
    /\ Call([op |-> "finish", cmd |-> Top.cmd], QueueFrame)
    /\ UNCHANGED <<slcmd, next, sync, cpu, inbox, asked, peerVars>>

(* "Terminate Session" in the dialog of KillOnError: KillDebugger(true).   *)
(* (The one of KillOnNotHalt starts AxsCmd_Quit, which is not modelled.)   *)
KillDebugger(k) ==
    /\ On("error") /\ Exists(Top.cmd) /\ k \in Killers \cap fresh
    /\ Done({running[i] : i \in 1..Len(running)})
    /\ waiting' = <<k>> /\ fresh' = fresh \ {k}
    /\ killed' = TRUE
    /\ Call([op |-> "finish", cmd |-> Top.cmd], QueueFrame)
    /\ UNCHANGED <<running, slcmd, next, sync, cpu, inbox, asked, peerVars>>

EndKill ==
    /\ On("finish") /\ Exists(Top.cmd)
    /\ Finish(Top.cmd, Below, AfterError(Top.cmd))
    /\ UNCHANGED <<queueVars, slcmd, next, sync, driverVars, asked, peerVars>>

(* The member function to return to belongs to a command that has been     *)
(* deleted: undefined behaviour, not followed any further.                 *)
UseDeleted ==
    /\ InDialog \/ On("finish")
    /\ ~Exists(Top.cmd)
    /\ Become([op |-> "lost"])
    /\ UNCHANGED <<queueVars, cmdVars, next, sync, driverVars, asked, peerVars>>

-----------------------------------------------------------------------------
(* The events of the GUI thread. *)

Followers == UNION {{Follow[c][i] : i \in 1..Len(Follow[c])} : c \in Cmd}

(* The user calls a function of AXS_driver that queues a command, those    *)
(* that read registers only while the CPU is halted.                       *)
UserCommand(c) ==
    /\ Idle /\ up # "over"
    /\ Class[c] = "ReadRegisters" => cpu = "halt"
    /\ c \in fresh \ (Polls \cup Killers \cup Followers)
    /\ QueueCommand(c)
    /\ stack' = <<QueueFrame>>
    /\ UNCHANGED <<running, cmdVars, next, sync, driverVars, asked, peerVars>>

(* DebuggerAXS::OnTimer, AXS_driver::Poll *)
Poll(c) ==
    /\ Idle \/ InDialog
    /\ up # "over" /\ ~killed /\ cpu = "run"
    /\ c \in Polls \cap fresh
    /\ QueueCommand(c)
    /\ stack' = Append(stack, QueueFrame)
    /\ UNCHANGED <<running, cmdVars, next, sync, driverVars, asked, peerVars>>

(* DebuggerAXS::OnGDBOutput: only the outermost call parses. *)
OnGDBOutput ==
    /\ Idle \/ InDialog
    /\ up # "over" /\ pipe # <<>>
    /\ pipe' = Tail(pipe)
    /\ inbox' = Append(inbox, Head(pipe))
    /\ stack' = IF inbox = <<>> THEN Append(stack, [op |-> "line"]) ELSE stack
    /\ UNCHANGED <<queueVars, cmdVars, next, sync, cpu, killed, asked, up>>

(* DebuggerAXS::OnGDBTerminated and the StopDriver() that follows when no  *)
(* call is left on the stack; it comes behind all output.                  *)
OnGDBTerminated ==
    /\ up = "exited" /\ pipe = <<>> /\ Idle
    /\ up' = "over"
    /\ waiting' = <<>> /\ running' = <<>>
    /\ UNCHANGED <<fresh, cmdVars, next, sync, driverVars, stack, asked, pipe>>

-----------------------------------------------------------------------------
(* The external debugger, a process of its own.  It answers requests in    *)
(* order, each with at least one line, and exits on "quit".  What it does  *)
(* shows only when the GUI thread takes an event, so it is stepped there.  *)

Answer ==
    /\ Idle \/ InDialog
    /\ up = "up" /\ asked # <<>>
    /\ LET r == Head(asked) IN
        /\ \E err \in BOOLEAN :
               pipe' = Append(pipe, [seq |-> r.seq, by |-> r.by,
                                     final |-> r.final, err |-> err,
                                     status |-> "none"])
        /\ \/ r.by \notin Killers /\ r.n + 1 < MaxLines
              /\ asked' = [asked EXCEPT ![1].n = @ + 1] /\ UNCHANGED up
           \/ r.by \notin Killers /\ asked' = Tail(asked) /\ UNCHANGED up
           \/ r.by \in Killers /\ asked' = <<>> /\ up' = "exited"
    /\ UNCHANGED <<queueVars, cmdVars, next, sync, driverVars, stack>>

(* An unasked status line, one at a time (bound). *)
Report(s) ==
    /\ Idle \/ InDialog
    /\ up = "up" /\ s # cpu
    /\ \A i \in 1..Len(pipe) : pipe[i].status = "none"
    /\ \A i \in 1..Len(inbox) : inbox[i].status = "none"
    /\ pipe' = Append(pipe, [seq |-> 0, by |-> NoCmd, final |-> FALSE,
                             err |-> FALSE, status |-> s])
    /\ UNCHANGED <<queueVars, cmdVars, next, sync, driverVars, stack, asked, up>>

(* It may also exit at any time. *)
Exit ==
    /\ Idle \/ InDialog
    /\ up = "up"
    /\ up' = "exited" /\ asked' = <<>>
    /\ UNCHANGED <<queueVars, cmdVars, next, sync, driverVars, stack, pipe>>

-----------------------------------------------------------------------------

GuiStep ==
    \/ Send \/ Scan \/ Start \/ After \/ EndRun \/ Prune \/ EndPrune
    \/ ProcessCommand \/ Pass \/ Foreign \/ Accept \/ EndHandle
    \/ QueueNext \/ EndKill \/ UseDeleted

UserAnswer == Skip \/ \E k \in Killers : KillDebugger(k)

Next ==
    \/ GuiStep \/ UserAnswer
    \/ \E c \in Cmd : UserCommand(c) \/ Poll(c)
    \/ OnGDBOutput \/ OnGDBTerminated
    \/ Answer \/ Exit \/ \E s \in CpuStates : Report(s)

Spec == Init /\ [][Next]_vars

(* The GUI thread runs, the user answers dialogs, events are dispatched    *)
(* and the external debugger answers.                                      *)
Fairness ==
    /\ WF_vars(GuiStep) /\ WF_vars(UserAnswer)
    /\ WF_vars(OnGDBOutput) /\ WF_vars(OnGDBTerminated) /\ WF_vars(Answer)

FairSpec == Spec /\ Fairness

-----------------------------------------------------------------------------
(* Properties.                                                             *)

(* The comments on IsBarrier and CanOverlap (debugger_defs.h:91-99) for    *)
(* every pair of started commands: behind a command that is not done       *)
(* stands no barrier, and nothing at all if it cannot overlap.             *)
RunOrder ==
    \A i, j \in 1..Len(running) :
        i < j /\ ~IsDone(running[i]) =>
            CanOverlap(running[i]) /\ ~IsBarrier(running[j])

(* "If true, this command only starts running if all previous commands     *)
(* have completed" (debugger_defs.h:96-99), alone.                         *)
BarrierWaits ==
    \A i, j \in 1..Len(running) :
        i < j /\ IsBarrier(running[j]) => IsDone(running[i])

(* With synchronous communication at most one command is under way.        *)
OneAtATime ==
    sync => \A i, j \in 1..Len(running) :
                ~IsDone(running[i]) /\ ~IsDone(running[j]) => i = j

(* A line is taken only by the command whose request it answers: the       *)
(* numbers a command waits for are not those of lines on their way to      *)
(* another one, although killed commands leave lines behind and the        *)
(* counter wraps round (CommandAddSeq, ParseAllOutput).                    *)
LinesReachSender ==
    \A c \in Cmd :
        /\ \A i \in 1..Len(inbox) : inbox[i].seq # 0 /\
               IsForUs(c, inbox[i].seq) => inbox[i].by = c
        /\ \A i \in 1..Len(pipe) : pipe[i].seq # 0 /\
               IsForUs(c, pipe[i].seq) => pipe[i].by = c

(* Between events the queue never rests on a command that may start: every *)
(* path that can make one startable ends in RunQueue.                      *)
NeverStalls == Idle /\ up # "over" => ~CanStart(AllDone)

(* Every command that is queued is started and done in the end, or thrown  *)
(* away by KillDebugger or with the session, whatever errors are skipped.  *)
Queued(c) == \E i \in 1..Len(waiting) : waiting[i] = c
CommandsEnd ==
    \A c \in Cmd : Queued(c) ~> (~Queued(c) /\ IsDone(c)) \/ up = "over"

(* KillDebugger does not clear the run queue "as KillDebugger might be     *)
(* called from a running command" (axs_driver.cpp:2052): a command whose   *)
(* member function is on the stack is not deleted.                         *)
CallersExist ==
    \A i \in 1..Len(stack) :
        stack[i].op \in {"error", "refusal", "finish", "act"} =>
            Exists(stack[i].cmd)
===============================================================================
