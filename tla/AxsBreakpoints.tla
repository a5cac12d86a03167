----------------------------- MODULE AxsBreakpoints -----------------------------
(***************************************************************************)
(* The breakpoints of the AXS debugger plugin: DebuggerState's list         *)
(* (plugins/debuggeraxs/debuggerstate.cpp), the commands that create and    *)
(* delete them (AXS_driver::AddBreakpoint and RemoveBreakpoint,            *)
(* AxsCmd_AddBreakpoint, AxsCmd_RemoveBreakpoint), the edit dialog of      *)
(* DebuggerAXS::UpdateBreakpoint, and AxsCmd_Quit, which deletes them all  *)
(* and leaves the CPU running.  The external debugger numbers a breakpoint *)
(* itself; the plugin learns the number from the answer and needs it to    *)
(* delete the breakpoint.                                                  *)
(*                                                                         *)
(* File, line and address of a breakpoint are left out: which breakpoint   *)
(* of the list a new one replaces is a choice.  So are the Stop and Run    *)
(* commands DebuggerAXS wraps around an operation while the program runs.  *)
(***************************************************************************)
EXTENDS Integers, Sequences, FiniteSets, SequencesExt

CONSTANTS
    Bp,          \* the DebuggerBreakpoint objects
    NoBp,
    InProject,   \* those whose userData is the project that gets closed
    Index,       \* the numbers the external debugger gives
    MaxCalls     \* bound: operations of the user

ASSUME BreakpointAssumption ==
    /\ IsFiniteSet(Bp) /\ NoBp \notin Bp /\ InProject \subseteq Bp
    /\ Index \subseteq Nat /\ MaxCalls \in Nat

VARIABLES
    list,        \* m_Breakpoints
    temporary,   \* each breakpoint's temporary
    index,       \* its index, -1 when not known
    alreadySet,  \* the breakpoints with alreadySet
    dialog,      \* UpdateBreakpoint's dialog: the copy it edits
    phase,       \* "none" (no driver), "starting" (the connect command has
                 \* not finished), "ready"
    queue,       \* the driver's commands the debugger has not carried out
    quit,        \* the AxsCmd_Quit that runs
    lines,       \* what the debugger has written and no event delivered
    target,      \* the breakpoints it has
    cpu,         \* the state of the CPU
    stale,       \* history: breakpoints whose index is an older session's
    hurried,     \* history: see Hurry
    dropped,     \* history: listed, but deleted on the target
    refused,     \* history: the debugger answered with an error
    astray,      \* history: a number of an older session hit a breakpoint
    calls

listVars == <<list, temporary, index, alreadySet>>
peerVars == <<lines, target, cpu>>
history  == <<stale, hurried, dropped, refused, astray>>
vars == <<listVars, dialog, phase, queue, quit, peerVars, history, calls>>

Command ==
    [op : {"new"}, bp : Bp] \cup [op : {"quit"}]
    \cup [op : {"delete"}, bp : Bp, index : Index, stale : BOOLEAN]

(* AxsCmd_Quit: m_State, the requests the debugger has not carried out, how *)
(* many it has not answered (m_CmdSeq), whether one was (m_CurSeq).         *)
Requests == {"breakpoint", "stop", "delete", "run", "quit"}
Idle == [at |-> "idle", sent |-> <<>>, due |-> 0, cur |-> FALSE]
CpuState == {"halt", "run", "busy"}

Line ==
    [for : {"new"}, bp : Bp, index : Index \cup {-1}, status : CpuState]
    \cup [for : {"quit"}, some : BOOLEAN, status : CpuState]
    \cup [for : {"status"}, status : CpuState]

NoDialog == [bp |-> NoBp, index |-> -1, set |-> FALSE, stale |-> FALSE]

TypeOK ==
    /\ list \in Seq(Bp) /\ IsInjective(list)
    /\ temporary \subseteq Bp /\ alreadySet \subseteq Bp
    /\ index \in [Bp -> Index \cup {-1}]
    /\ dialog \in [bp : Bp \cup {NoBp}, index : Index \cup {-1},
                   set : BOOLEAN, stale : BOOLEAN]
    /\ phase \in {"none", "starting", "ready"}
    /\ queue \in Seq(Command) /\ lines \in Seq(Line)
    /\ quit \in [at : {"idle", "enumbkp", "waitnonbusybkp", "waitnonbusy",
                       "waitrun", "done", "over"},
                 sent : Seq(Requests), due : Nat, cur : BOOLEAN]
    /\ cpu \in CpuState
    /\ target \in [Index -> Bp \cup {NoBp}]
    /\ stale \subseteq Bp /\ hurried \subseteq Bp
    /\ dropped \subseteq Bp /\ refused \subseteq Bp
    /\ astray \in BOOLEAN /\ calls \in 0..MaxCalls
    /\ phase = "none" => queue = <<>> /\ lines = <<>> /\ quit = Idle

Init ==
    /\ list = <<>> /\ temporary = {} /\ alreadySet = {}
    /\ index = [b \in Bp |-> -1]
    /\ dialog = NoDialog /\ phase = "none"
    /\ queue = <<>> /\ lines = <<>> /\ quit = Idle
    /\ cpu = "halt"
    /\ target = [i \in Index |-> NoBp]
    /\ stale = {} /\ hurried = {} /\ dropped = {} /\ refused = {}
    /\ astray = FALSE /\ calls = 0

-----------------------------------------------------------------------------
(* What the calls of the driver read and write, passed from one call to    *)
(* the next of the same operation.                                         *)

Now == [queue |-> queue, index |-> index, set |-> alreadySet,
        stale |-> stale, hurried |-> hurried]

Becomes(d) ==
    /\ queue' = d.queue /\ index' = d.index /\ alreadySet' = d.set
    /\ stale' = d.stale /\ hurried' = d.hurried

(* A creation of b the debugger has not answered, or its answer is here.   *)
Unanswered(d, b) ==
    \/ \E k \in DOMAIN d.queue : d.queue[k] = [op |-> "new", bp |-> b]
    \/ \E k \in DOMAIN lines : lines[k].for = "new" /\ lines[k].bp = b

(* b's number is needed before it is known, or is forgotten: a breakpoint  *)
(* is left on the target that no later operation deletes.                  *)
Hurry(d, b, forgets) ==
    IF forgets \/ Unanswered(d, b) THEN d.hurried \cup {b} ELSE d.hurried

(* Faulty variant: the test of m_pDriver forgotten. *)
DriverRemoveAlways(d, b) ==
    IF d.index[b] = -1 THEN d
    ELSE [d EXCEPT
            !.queue = Append(@, [op |-> "delete", bp |-> b,
                                 index |-> d.index[b], stale |-> b \in d.stale]),
            !.index[b] = -1, !.stale = @ \ {b}]

(* AXS_driver::RemoveBreakpoint and AxsCmd_RemoveBreakpoint's constructor. *)
DriverRemove(d, b) ==
    IF phase = "none" THEN d
    ELSE IF d.index[b] = -1 THEN [d EXCEPT !.hurried = Hurry(d, b, FALSE)]
    ELSE [d EXCEPT
            !.queue = Append(@, [op |-> "delete", bp |-> b,
                                 index |-> d.index[b], stale |-> b \in d.stale]),
            !.index[b] = -1, !.stale = @ \ {b}]

(* Faulty variant: the number of the earlier session is kept. *)
DriverAddKeepsIndex(d, b) ==
    IF phase = "none" THEN d
    ELSE [d EXCEPT
            !.queue = Append(@, [op |-> "new", bp |-> b]),
            !.set = @ \cup {b}, !.stale = @ \ {b},
            !.hurried = Hurry(d, b, d.index[b] # -1 /\ b \notin d.stale)]

(* AXS_driver::AddBreakpoint and AxsCmd_AddBreakpoint's constructor.       *)
DriverAdd(d, b) ==
    IF phase = "none" THEN d
    ELSE [d EXCEPT
            !.queue = Append(@, [op |-> "new", bp |-> b]),
            !.index[b] = -1, !.set = @ \cup {b}, !.stale = @ \ {b},
            !.hurried = Hurry(d, b, d.index[b] # -1 /\ b \notin d.stale)]

Reset(d, b) == DriverAdd(DriverRemove(d, b), b)

(* The loops over a list that call the driver for each breakpoint in it.   *)
RemoveEach(d, l) ==
    LET done[k \in 0..Len(l)] == IF k = 0 THEN d ELSE DriverRemove(done[k - 1], l[k])
    IN done[Len(l)]

AddEach(d, l) ==
    LET done[k \in 0..Len(l)] == IF k = 0 THEN d ELSE DriverAdd(done[k - 1], l[k])
    IN done[Len(l)]

(* What erasing the elements outside S leaves of the list l (SelectSeq, as  *)
(* a recursive function that the provers can expand).                      *)
Only(l, S) ==
    LET first[k \in 0..Len(l)] ==
            IF k = 0 THEN <<>>
            ELSE IF l[k] \in S THEN Append(first[k - 1], l[k]) ELSE first[k - 1]
    IN first[Len(l)]

(* Objects that no queued command, answer or dialog holds.                 *)
Unused == {b \in Bp :
    /\ b \notin ToSet(list) /\ b # dialog.bp
    /\ ~Unanswered(Now, b)
    /\ \A k \in DOMAIN queue : queue[k].op = "delete" => queue[k].bp # b
    /\ \A i \in Index : target[i] # b}

(* DebuggerState::AddBreakpoint, for the file and line or the address of b: *)
(* old is what HasBreakpoint finds there.                                  *)
Replaceable(t) == {NoBp} \cup {b \in ToSet(list) : (b \in temporary) = t}

Fresh(d, b) == [d EXCEPT !.index[b] = -1, !.set = @ \ {b},
                          !.stale = @ \ {b}, !.hurried = @ \ {b}]

(* Faulty variant: the old breakpoint leaves the list only. *)
CreatedOver(d, b, old) == DriverAdd(Fresh(d, b), b)

Created(d, b, old) ==
    DriverAdd(Fresh(IF old = NoBp THEN d ELSE DriverRemove(d, old), b), b)

Listed(l, b, old) == Append(Only(l, Bp \ {old}), b)

Marked(b, t) == temporary' = IF t THEN temporary \cup {b} ELSE temporary \ {b}

(* The user's operations; a modal dialog keeps him from all of them.       *)
Called ==
    /\ dialog = NoDialog /\ calls < MaxCalls
    /\ calls' = calls + 1
    /\ UNCHANGED <<quit, peerVars>>

Renewed(B) == dropped' = dropped \ B /\ refused' = refused \ B

(* DebuggerAXS::AddBreakpoint (t is FALSE), RunToCursor (TRUE).            *)
AddBreakpoint(t) ==
    /\ Called
    /\ \E b \in Unused, old \in Replaceable(t) :
        /\ Becomes(Created(Now, b, old))
        /\ list' = Listed(list, b, old)
        /\ Marked(b, t) /\ Renewed({b})
    /\ UNCHANGED <<dialog, phase, astray>>

DeleteBreakpoint(b) ==
    /\ Called
    /\ b \in ToSet(list)
    /\ Becomes(DriverRemove(Now, b))
    /\ list' = Only(list, Bp \ {b})
    /\ UNCHANGED <<temporary, dialog, phase, dropped, refused, astray>>

DeleteAllBreakpoints ==
    /\ Called
    /\ list # <<>>
    /\ Becomes(RemoveEach(Now, list))
    /\ list' = <<>>
    /\ UNCHANGED <<temporary, dialog, phase, dropped, refused, astray>>

(* RemoveAllProjectBreakpoints: remove_if moves or copies the breakpoints  *)
(* to keep to the front, and the driver is told of what it leaves behind   *)
(* them: the elements of the list's tail, those that were moved being null. *)
DeleteAllProjectBreakpoints(moves) ==
    LET keep == Only(list, Bp \ InProject)
        tail == SubSeq(list, Len(keep) + 1, Len(list))
        told == Only(tail, IF moves THEN InProject ELSE Bp)
        gone == ToSet(list) \cap InProject
        lost == {b \in gone \ ToSet(told) :
                    Unanswered(Now, b) \/ (index[b] # -1 /\ b \notin stale)}
        d    == RemoveEach(Now, told)
    IN  /\ Called
        /\ gone # {}
        /\ Becomes([d EXCEPT !.hurried = @ \cup IF phase = "none" THEN {} ELSE lost])
        /\ dropped' = IF phase = "none" THEN dropped
                      ELSE dropped \cup (ToSet(told) \ InProject)
        /\ list' = keep
        /\ UNCHANGED <<temporary, dialog, phase, refused, astray>>

(* EnableBreakpoint, and ShiftBreakpoint when the driver exists.           *)
ResetBreakpoint(b) ==
    /\ Called
    /\ phase # "none" /\ b \in ToSet(list)
    /\ Becomes(Reset(Now, b))
    /\ Renewed({b})
    /\ UNCHANGED <<list, temporary, dialog, phase, astray>>

(* UpdateBreakpoint: the dialog edits a copy of the whole object and OK    *)
(* assigns the copy, the index it had when the dialog opened included.     *)
OpenDialog(b) ==
    /\ Called
    /\ b \in ToSet(list)
    /\ dialog' = [bp |-> b, index |-> index[b], set |-> b \in alreadySet,
                  stale |-> b \in stale]
    /\ UNCHANGED <<listVars, phase, queue, history>>

CloseDialog(ok) ==
    LET b == dialog.bp
        forgets == index[b] \notin {-1, dialog.index} /\ b \notin stale
        edited == [Now EXCEPT
            !.index[b] = dialog.index,
            !.set = IF dialog.set THEN @ \cup {b} ELSE @ \ {b},
            !.stale = IF dialog.stale THEN @ \cup {b} ELSE @ \ {b},
            !.hurried = IF forgets THEN @ \cup {b} ELSE @]
    IN  /\ b # NoBp
        /\ dialog' = NoDialog
        /\ IF ok THEN Becomes(Reset(edited, b)) /\ Renewed({b})
                 ELSE UNCHANGED <<queue, index, alreadySet, stale, hurried,
                                  dropped, refused>>
        /\ UNCHANGED <<list, temporary, phase, quit, peerVars, astray, calls>>

-----------------------------------------------------------------------------
(* The session.                                                            *)

(* StartDriver, and the connect command in the queue behind which the      *)
(* breakpoint commands wait.                                               *)
StartDriver ==
    /\ Called
    /\ phase = "none"
    /\ phase' = "starting"
    /\ UNCHANGED <<listVars, dialog, queue, history>>

(* ApplyBreakpoints drops the temporary breakpoints that were set and adds *)
(* the others.  Its RemoveBreakpoint of a null pointer does nothing.       *)
SetTemporaries == Only(list, temporary \cap alreadySet)
Kept == Only(list, Bp \ (temporary \cap alreadySet))

(* Faulty variant: breakpoints that have alreadySet are not set again. *)
ApplyUnset ==
    AddEach(RemoveEach(Now, SetTemporaries), Only(Kept, Bp \ alreadySet))

ApplyBreakpoints ==
    AddEach(RemoveEach(Now, SetTemporaries), Kept)

(* AxsCmd_ConnectTargetDownload in state_waitdone: ApplyBreakpoints, and   *)
(* the temporary breakpoint of mode_break.                                 *)
Connected(breakOnEntry) ==
    LET keep == Kept
        applied == ApplyBreakpoints
    IN  /\ phase = "starting"
        /\ phase' = "ready"
        /\ \/ /\ ~breakOnEntry
              /\ Becomes(applied) /\ list' = keep /\ Renewed(ToSet(keep))
              /\ UNCHANGED temporary
           \/ /\ breakOnEntry
              /\ \E b \in Unused, old \in Replaceable(TRUE) \ ToSet(SetTemporaries) :
                  /\ Becomes(Created(applied, b, old))
                  /\ list' = Listed(keep, b, old)
                  /\ Marked(b, TRUE) /\ Renewed(ToSet(keep) \cup {b})
        /\ cpu' \in {"halt", "run"}
        /\ UNCHANGED <<dialog, quit, lines, target, astray, calls>>

(* AXS_driver::Stop.                                                       *)
Stop ==
    /\ Called
    /\ phase # "none" /\ [op |-> "quit"] \notin ToSet(queue)
    /\ queue' = Append(queue, [op |-> "quit"])
    /\ UNCHANGED <<listVars, dialog, phase, history>>

(* The debugger's process has ended: StopDebugger and StopDriver.          *)
StopDriver ==
    /\ phase # "none"
    /\ phase' = "none"
    /\ list' = Only(list, Bp \ temporary)
    /\ queue' = <<>> /\ lines' = <<>> /\ quit' = Idle
    /\ target' = [i \in Index |-> NoBp]
    /\ stale' = {b \in Bp : index[b] # -1}
    /\ dialog' = [dialog EXCEPT !.stale = dialog.index # -1]
    /\ hurried' = {} /\ dropped' = {} /\ refused' = {} /\ astray' = FALSE
    /\ UNCHANGED <<temporary, index, alreadySet, cpu, calls>>

-----------------------------------------------------------------------------
(* The external debugger takes the commands in order, once the connect     *)
(* command in front of them is done, and stops at AxsCmd_Quit, a barrier.  *)

Says(l) == lines' = Append(lines, l)

TakeNew ==
    /\ phase = "ready" /\ quit = Idle
    /\ queue # <<>> /\ Head(queue).op = "new"
    /\ queue' = Tail(queue)
    /\ LET b == Head(queue).bp IN
        \/ \E i \in {i \in Index : target[i] = NoBp} :
            /\ target' = [target EXCEPT ![i] = b]
            /\ Says([for |-> "new", bp |-> b, index |-> i, status |-> cpu])
        \/ /\ Says([for |-> "new", bp |-> b, index |-> -1, status |-> cpu])
           /\ UNCHANGED target
    /\ UNCHANGED <<listVars, dialog, phase, quit, cpu, history, calls>>

(* The answer changes nothing: KillOnError may end the session, which       *)
(* StopDriver may do at any time.                                          *)
TakeDelete ==
    /\ phase = "ready" /\ quit = Idle
    /\ queue # <<>> /\ Head(queue).op = "delete"
    /\ queue' = Tail(queue)
    /\ target' = [target EXCEPT ![Head(queue).index] = NoBp]
    /\ astray' = (astray \/ (Head(queue).stale /\ target[Head(queue).index] # NoBp))
    /\ UNCHANGED <<listVars, dialog, phase, quit, lines, cpu,
                   stale, hurried, dropped, refused, calls>>

(* The program reaches a breakpoint.                                       *)
Hit ==
    /\ phase = "ready" /\ cpu = "run"
    /\ \E i \in Index : target[i] # NoBp
    /\ cpu' = "halt"
    /\ Says([for |-> "status", status |-> "halt"])
    /\ UNCHANGED <<listVars, dialog, phase, queue, quit, target, history, calls>>

(* The CPU comes to rest after a stop request.                             *)
Settle ==
    /\ phase = "ready" /\ cpu = "busy"
    /\ cpu' = "halt"
    /\ Says([for |-> "status", status |-> "halt"])
    /\ UNCHANGED <<listVars, dialog, phase, queue, quit, target, history, calls>>

(* A status line that repeats what was said before.  Bounds: while no other *)
(* is under way, and while AxsCmd_Quit runs: before, it changes nothing, as *)
(* it arrives before AxsCmd_Quit's first answer.                           *)
Repeat ==
    /\ phase = "ready" /\ quit # Idle
    /\ \A k \in DOMAIN lines : lines[k].for # "status"
    /\ Says([for |-> "status", status |-> cpu])
    /\ UNCHANGED <<listVars, dialog, phase, queue, quit, target, cpu, history, calls>>

(* One request of AxsCmd_Quit.                                             *)
TakeQuit ==
    /\ phase = "ready" /\ quit.sent # <<>>
    /\ quit' = [quit EXCEPT !.sent = Tail(@)]
    /\ LET r == Head(quit.sent) IN
        /\ cpu' \in CASE r = "stop" -> {IF cpu = "run" THEN "busy" ELSE cpu, "halt"}
                      [] r = "run"  -> {"run"}
                      [] OTHER      -> {cpu}
        /\ target' = IF r = "delete" THEN [i \in Index |-> NoBp] ELSE target
        /\ \E some \in BOOLEAN :
            /\ r = "breakpoint" /\ ~some => \A i \in Index : target[i] = NoBp
            /\ r # "breakpoint" => some
            /\ Says([for |-> "quit", some |-> some, status |-> cpu'])
    /\ UNCHANGED <<listVars, dialog, phase, queue, history, calls>>

-----------------------------------------------------------------------------
(* AxsCmd_Quit.                                                            *)

(* Action, when the commands before it are done.                           *)
BeginQuit ==
    /\ phase = "ready" /\ quit = Idle
    /\ queue # <<>> /\ Head(queue).op = "quit"
    /\ \A k \in DOMAIN lines : lines[k].for # "new"
    /\ quit' = [at |-> "enumbkp", sent |-> <<"breakpoint">>, due |-> 1, cur |-> FALSE]
    /\ UNCHANGED <<listVars, dialog, phase, queue, peerVars, history, calls>>

Sends(q, at, requests) ==
    [q EXCEPT !.at = at, !.sent = @ \o requests, !.due = @ + Len(requests)]

(* StateMachine, the CPU being in state s.                                 *)
StateMachine(q, s) ==
    CASE q.at = "waitnonbusybkp" /\ s = "halt" -> Sends(q, "waitrun", <<"delete", "run">>)
      [] q.at = "waitnonbusybkp" /\ s = "run"  -> Sends(q, q.at, <<"stop">>)
      [] q.at = "waitnonbusy" /\ s = "halt"    -> Sends(q, q.at, <<"run">>)
      [] q.at \in {"waitnonbusy", "waitrun"} /\ s = "run" -> Sends(q, "done", <<"quit">>)
      [] q.at = "done" -> [q EXCEPT !.at = "over", !.due = 0, !.cur = FALSE]
      [] OTHER -> q

IsLast(q) == q.cur /\ q.due = 0

(* SetCpuState calls StateChange, whether the state is another one or not. *)
(* For an answer that is no status line s is the state known before it, and *)
(* IsLast is false: an answer is due.                                      *)
StateChange(q, s) == IF IsLast(q) THEN StateMachine(q, s) ELSE q

(* Faulty variant: the breakpoints counted are not looked at. *)
EnumeratedNone(some) == "waitnonbusy"

(* The state after the enumeration; a count of zero is a count, too.       *)
Enumerated(some) == IF some THEN "waitnonbusybkp" ELSE "waitnonbusy"

(* ParseOutput.                                                            *)
ParseOutput(q, l) ==
    LET told == [q EXCEPT !.due = @ - 1, !.cur = TRUE] IN
    IF ~IsLast(told) THEN told
    ELSE StateMachine(IF q.at # "enumbkp" THEN told
                      ELSE [told EXCEPT !.at = Enumerated(l.some)], l.status)

(* A line of the debugger arrives: its status, then the command it is for. *)
(* Of AxsCmd_AddBreakpoint::ParseOutput the second request, which only      *)
(* moves the line, is left out.                                            *)
Deliver ==
    /\ lines # <<>>
    /\ lines' = Tail(lines)
    /\ LET l == Head(lines)
           q == StateChange(quit, l.status) IN
        /\ quit' = IF l.for = "quit" THEN ParseOutput(q, l) ELSE q
        /\ IF l.for # "new" THEN UNCHANGED <<index, stale, refused>>
           ELSE IF l.index = -1
           THEN refused' = refused \cup {l.bp} /\ UNCHANGED <<index, stale>>
           ELSE /\ index' = [index EXCEPT ![l.bp] = l.index]
                /\ stale' = stale \ {l.bp} /\ refused' = refused \ {l.bp}
    /\ UNCHANGED <<list, temporary, alreadySet, dialog, phase, queue, target, cpu,
                   hurried, dropped, astray, calls>>

-----------------------------------------------------------------------------
User ==
    \/ \E t \in BOOLEAN : AddBreakpoint(t)
    \/ \E b \in Bp : DeleteBreakpoint(b) \/ ResetBreakpoint(b) \/ OpenDialog(b)
    \/ DeleteAllBreakpoints
    \/ \E moves \in BOOLEAN : DeleteAllProjectBreakpoints(moves)
    \/ StartDriver
    \/ Stop

Debugger == TakeNew \/ TakeDelete \/ TakeQuit \/ Settle

Next ==
    \/ User
    \/ \E ok \in BOOLEAN : CloseDialog(ok)
    \/ \E breakOnEntry \in BOOLEAN : Connected(breakOnEntry)
    \/ Debugger \/ Hit \/ Repeat
    \/ BeginQuit \/ Deliver
    \/ StopDriver

Spec == Init /\ [][Next]_vars

(* The external debugger answers, and its output is delivered.             *)
FairSpec == Spec /\ WF_vars(Debugger) /\ WF_vars(Deliver) /\ WF_vars(BeginQuit)

-----------------------------------------------------------------------------
(* Every breakpoint the external debugger has is accounted for: the list   *)
(* knows its number, the answer with the number is on its way, or it is    *)
(* about to be deleted.  The others, which stop the program at a line that *)
(* shows no breakpoint, come from one of the calls Hurry names: a removal  *)
(* or reset before the answer, ApplyBreakpoints for a breakpoint added     *)
(* while the target was being connected, the edit dialog's old copy, the   *)
(* head of RemoveAllProjectBreakpoints' list.                              *)
NoOrphans ==
    \A i \in Index : LET b == target[i] IN
        b \in Bp \ hurried =>
            \/ b \in ToSet(list) /\ index[b] = i /\ b \notin stale
            \/ \E k \in DOMAIN lines :
                lines[k].for = "new" /\ lines[k].bp = b /\ lines[k].index = i
            \/ \E k \in DOMAIN queue :
                queue[k].op = "delete" /\ queue[k].bp = b /\ queue[k].index = i

(* A delete command hits the breakpoint it was made for, however many      *)
(* other commands run and numbers are given again before it: only a number *)
(* kept from an earlier session deletes another breakpoint.                *)
DeletesOwn ==
    ~astray => \A k \in DOMAIN queue :
        queue[k].op = "delete" /\ ~queue[k].stale /\ quit = Idle =>
            target[queue[k].index] = queue[k].bp

(* When AxsCmd_Quit asks the debugger to quit, the target has no           *)
(* breakpoint left and its CPU runs.                                       *)
QuitLeavesFree ==
    quit.at \in {"done", "over"} =>
        cpu = "run" /\ \A i \in Index : target[i] = NoBp

(* A listed breakpoint gets set unless the debugger refuses it: no order   *)
(* of adding, resetting, editing and reconnecting leaves it shown in the   *)
(* list and absent on the target.  And AxsCmd_Quit ends.                   *)
Quitting == [op |-> "quit"] \in ToSet(queue)
Settles ==
    /\ \A b \in Bp : phase = "ready" /\ b \in ToSet(list) ~>
        \/ b \notin ToSet(list) \/ b \in refused \cup dropped
        \/ index[b] # -1 /\ target[index[b]] = b
        \/ astray \/ phase # "ready" \/ Quitting
    /\ phase = "ready" /\ Quitting ~> quit.at = "over" \/ phase # "ready"

=============================================================================
