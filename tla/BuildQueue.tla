------------------------------ MODULE BuildQueue ------------------------------
(***************************************************************************)
(* The build engine of the compiler plug-in: class CompilerGCC             *)
(* (plugins/compilergcc/compilergcc.cpp) and its CompilerQueue             *)
(* (compiler_defs.cpp), with the PipedProcess objects it starts.           *)
(*                                                                         *)
(* Everything runs on the GUI thread, but not one thing at a time:         *)
(* BuildStateManagement() and DirectCommands call Manager::Yield(), and in *)
(* a yield the end of a process or the Abort command is handled in the     *)
(* middle of the call that yielded.  The call stack is therefore part of   *)
(* the state: a frame is a function waiting for its turn, the last frame   *)
(* is the one that runs, and processes end and events are dispatched only  *)
(* where the code is in the event loop or in a yield.                      *)
(*                                                                         *)
(* A process that ends is seen twice: PipedProcess::OnTerminate clears     *)
(* pProcess and posts an event, and the PID is cleared when OnJobEnd       *)
(* handles that event.  In between the slot is neither running nor free.   *)
(***************************************************************************)
EXTENDS Naturals, Sequences, FiniteSets

CONSTANTS
    Slot,         \* the entries of m_CompilerProcessList
    Project, None,
    JobLists,     \* the m_BuildJobTargetsList a request may give: sequences of projects
    CompileLists, \* the lists of commands the build stage of a target may give
    Steps,        \* for each project, the commands of each pre- or post-build step
    MaxDepth      \* bounds: as many requests, and for each the calls in progress

ASSUME BuildAssumption ==
    /\ IsFiniteSet(Slot) /\ Slot # {} /\ None \notin Project \cup Slot
    /\ \A l \in JobLists : l \in Seq(Project) /\ l # <<>>
    /\ MaxDepth \in Seq(Nat)

Kind == {"compile", "step", "link", "run"}
ASSUME ListAssumption ==
    /\ \A l \in CompileLists : l \in Seq({"compile", "step", "link"})
    /\ Steps \in [Project -> Seq({"step"})]

VARIABLES
    job,         \* m_BuildJob
    state,       \* m_BuildState
    next,        \* m_NextBuildState
    project,     \* m_pBuildingProject
    jobs,        \* m_BuildJobTargetsList
    mode,        \* m_Clean and m_Build
    post,        \* m_RunTargetPostBuild and m_RunProjectPostBuild
    queue,       \* m_CommandQueue
    lastWasRun,  \* its m_LastWasRun
    slot,        \* m_CompilerProcessList
    alive,       \* the processes that run, listed or not
    inbox,       \* terminations posted and not handled yet
    lastExit,    \* m_LastExitCode: TRUE stands for 0
    errors,      \* m_Errors has an error
    runAfter,    \* m_RunAfterCompile
    lastStep,    \* m_LastBuildStep
    stack,       \* the calls in progress
    (* history *)
    made,        \* commands queued since the last request
    asked,       \* requests so far
    nested,      \* the end of a process was handled inside another call
    spoilt,      \* a command ended badly since the last request
    mended,      \* ... and one ended successfully after it
    said         \* the last cbEVT_COMPILER_FINISHED since the last request

buildVars == <<job, state, next, project>>
listVars  == <<jobs, mode, post, lastStep>>
queueVars == <<queue, lastWasRun, made>>
procVars  == <<slot, alive, inbox>>
requestVars == <<asked, nested>>
exitVars  == <<lastExit, errors, spoilt, mended, said>>
vars == <<buildVars, listVars, queueVars, procVars, exitVars, runAfter, stack,
          requestVars>>

BuildState == {"bsNone", "bsProjectPreBuild", "bsTargetClean", "bsTargetPreBuild",
               "bsTargetBuild", "bsTargetPostBuild", "bsTargetDone",
               "bsProjectPostBuild", "bsProjectDone"}

(* CompilerCommand; n numbers the commands in the order they were queued.  *)
Command == [n : Nat, kind : Kind]

(* mustWait or isLink: what COMPILER_WAIT and COMPILER_WAIT_LINK stand for *)
(* in front of every pre-build, post-build and link command.               *)
Waits(c) == c.kind \in {"step", "link"}

Idle == [is |-> "free"]
SlotState == {Idle} \cup [is : {"running", "ended"}, cmd : Command]
Process == [slot : Slot, cmd : Command]
Ended   == [slot : Slot, cmd : Command, ok : BOOLEAN]

(* IsProcessRunning and GetNextAvailableProcessIndex *)
Running == {s \in Slot : slot[s].is = "running"}
FreeByProcess == {s \in Slot : slot[s].is # "running"}   \* faulty variant: PID not tested
Free    == {s \in Slot : slot[s].is = "free"}
NextAvailable == IF Free = {} THEN None ELSE CHOOSE s \in Free : TRUE

(* A frame: at says where the function stands, by what called it.          *)
(* BuildStateManagement is at "entered" (its first yield), "listing"       *)
(* (gathering the commands of its stage), "nested" (inside the DoBuild of  *)
(* the next project), "closing" (its last yield) and "over"; DoRunQueue    *)
(* is at "run"; "again" is the second half of Rebuild.                     *)
BsmFrame(callers, procs) ==
    [at : {"entered", "closing", "over"}, by : callers, proc : procs]
    \cup [at : {"listing", "nested"}, by : callers, proc : procs, stage : BuildState,
          cmds : Seq(Kind)]
Frame ==
    BsmFrame({"queue"}, Slot) \cup BsmFrame({"begin", "jobend", "project"}, {None})
    \cup [at : {"over"}, by : {"failed"}, proc : {None}]
    \cup [at : {"run"}]
    \cup [at : {"again"}, kind : {"bjProject", "bjWorkspace"}, list : JobLists]

TypeOK ==
    /\ job \in {"bjIdle", "bjWorkspace", "bjProject"}
    /\ state \in BuildState /\ next \in BuildState
    /\ project \in Project \cup {None}
    /\ jobs \in Seq(Project)
    /\ mode \in [clean : BOOLEAN, build : BOOLEAN]
    /\ post \in [target : BOOLEAN, project : BOOLEAN]
    /\ queue \in Seq(Command) /\ lastWasRun \in BOOLEAN
    /\ slot \in [Slot -> SlotState]
    /\ alive \subseteq Process /\ inbox \in Seq(Ended)
    /\ lastExit \in BOOLEAN /\ errors \in BOOLEAN
    /\ runAfter \in BOOLEAN /\ lastStep \in BOOLEAN
    /\ stack \in Seq(Frame)
    /\ made \in Nat /\ asked \in Nat /\ nested \in BOOLEAN
    /\ spoilt \in BOOLEAN /\ mended \in BOOLEAN
    /\ said \in {"nothing", "finished", "failed"}

Init ==
    /\ job = "bjIdle" /\ state = "bsNone" /\ next = "bsNone" /\ project = None
    /\ jobs = <<>> /\ mode = [clean |-> FALSE, build |-> FALSE]
    /\ post = [target |-> FALSE, project |-> FALSE]
    /\ queue = <<>> /\ lastWasRun = FALSE
    /\ slot = [s \in Slot |-> Idle] /\ alive = {} /\ inbox = <<>>
    /\ lastExit = TRUE /\ errors = FALSE /\ runAfter = FALSE /\ lastStep = TRUE
    /\ stack = <<>> /\ made = 0 /\ asked = 0 /\ nested = FALSE
    /\ spoilt = FALSE /\ mended = FALSE /\ said = "nothing"

-----------------------------------------------------------------------------
(* The stack and the functions that are called without yielding.           *)

Top == stack[Len(stack)]
At(p) == stack # <<>> /\ Top.at = p
Below == SubSeq(stack, 1, Len(stack) - 1)
Goto(f) == stack' = Append(Below, f)
Return == stack' = Below

RunFrame == [at |-> "run"]
(* BuildStateManagement is called: it returns at once while a process runs. *)
CallBSM(b, s) == [at |-> IF Running = {} THEN "entered" ELSE "over",
                  by |-> b, proc |-> s]

(* The event loop, and the yields: DirectCommands yields while it lists a  *)
(* target's files and after a step that has commands.                      *)
Dispatching ==
    stack # <<>> =>
        \/ Top.at \in {"entered", "closing"}
        \/ Top.at = "listing" /\ (Top.stage = "bsTargetBuild" \/ Top.cmds # <<>>)

(* ResetBuildState, the command queue aside *)
ResetBuildState ==
    /\ job' = "bjIdle" /\ state' = "bsNone" /\ next' = "bsNone" /\ project' = None

(* AddToCommandQueue *)
Numbered(cmds) == [i \in 1..Len(cmds) |-> [n |-> made + i, kind |-> cmds[i]]]
AddToCommandQueue(cmds) ==
    /\ queue' = queue \o Numbered(cmds)
    /\ made' = made + Len(cmds)

(* NotifyJobDone with exit code e: the event is only sent when no process  *)
(* runs, and the exit code is then forgotten.                              *)
NotifyAlways(e) ==          \* faulty variant: m_LastBuildStep and nothing else
    IF lastStep
    THEN /\ said' = (IF e THEN "finished" ELSE "failed")
         /\ lastExit' = TRUE
    ELSE UNCHANGED said /\ lastExit' = e
NotifyJobDone(e) ==
    IF lastStep /\ Running = {}
    THEN /\ said' = (IF e THEN "finished" ELSE "failed")
         /\ lastExit' = TRUE
    ELSE UNCHANGED said /\ lastExit' = e

(* "if (m_RunAfterCompile) ... if (Run() == 0) DoRunQueue();" at the end of *)
(* a call.  Run may find nothing to run.                                   *)
MaybeRun ==
    /\ runAfter' = FALSE
    /\ \/ Return /\ queue' = <<>> /\ UNCHANGED <<made, spoilt, mended>>
       \/ /\ runAfter
          /\ queue' = Numbered(<<"run">>) /\ made' = made + 1
          /\ spoilt' = FALSE /\ mended' = FALSE
          /\ Goto(RunFrame)

-----------------------------------------------------------------------------
(* Requests of the user, from the event loop and while not IsRunning().    *)

IsRunning == job # "bjIdle" \/ Running # {} \/ queue # <<>>
Asks ==
    /\ stack = <<>> /\ ~IsRunning /\ asked < Len(MaxDepth)
    /\ ~nested                               \* bound: see nested
    /\ asked' = asked + 1 /\ UNCHANGED nested
    /\ spoilt' = FALSE /\ mended' = FALSE /\ said' = "nothing"

(* PreprocessJob, InitBuildState and the private DoBuild: the first job    *)
(* becomes the building project.  The list is only cleared before when     *)
(* this is not a workspace operation.                                      *)
Begin(kind, list, m) ==
    LET all == (IF kind = "bjWorkspace" THEN jobs ELSE <<>>) \o list IN
    /\ job' = kind /\ state' = "bsNone" /\ next' = "bsProjectPreBuild"
    /\ project' = Head(all) /\ jobs' = Tail(all)
    /\ mode' = m /\ queue' = <<>>

(* Build, Clean, and Rebuild in one pass ("rebuild_seperately"); DoBuild   *)
(* and DoWorkspaceBuild.  run is OnCompileAndRun.                          *)
Build(kind, list, m, run) ==
    /\ Asks
    /\ Begin(kind, list, m)
    /\ run => kind = "bjProject" /\ m.build /\ ~m.clean
    /\ runAfter' = (runAfter \/ run)
    /\ lastStep' = TRUE /\ errors' = FALSE /\ made' = 0
    /\ stack' = <<CallBSM("begin", None)>>
    /\ UNCHANGED <<post, lastWasRun, procVars, lastExit>>

(* Rebuild and RebuildWorkspace in two passes: cleaning, then building.    *)
Rebuild(kind, list) ==
    /\ Asks
    /\ Begin(kind, list, [clean |-> TRUE, build |-> FALSE])
    /\ lastStep' = FALSE /\ errors' = FALSE /\ made' = 0
    /\ stack' = <<[at |-> "again", kind |-> kind, list |-> list], CallBSM("begin", None)>>
    /\ UNCHANGED <<post, lastWasRun, procVars, lastExit, runAfter>>

RebuildAgain ==
    /\ At("again")
    /\ Begin(Top.kind, Top.list, [clean |-> FALSE, build |-> TRUE])
    /\ lastStep' = TRUE
    /\ Goto(CallBSM("begin", None))
    /\ UNCHANGED <<post, lastWasRun, made, procVars, exitVars, runAfter, requestVars>>

(* a request that adds its commands to the empty queue *)
AddOnly(cmds) ==
    /\ queue' = [i \in 1..Len(cmds) |-> [n |-> i, kind |-> cmds[i]]]
    /\ made' = Len(cmds)

(* CompileFile: no build state at all.  A file of the project gives one    *)
(* command; for a file without project a command that waits links it.      *)
(* There is none of a kind for which no program is set, and none for a     *)
(* file that cannot be compiled.                                           *)
FileLists == {<<>>, <<"compile">>, <<"step">>, <<"compile", "step">>}
CompileFile ==
    /\ Asks
    /\ \E cmds \in FileLists : AddOnly(cmds)
    /\ errors' = FALSE
    /\ stack' = <<RunFrame>>
    /\ UNCHANGED <<buildVars, listVars, lastWasRun, procVars, lastExit, runAfter>>

(* OnRun *)
RunOnly ==
    /\ Asks
    /\ AddOnly(<<"run">>)
    /\ stack' = <<RunFrame>>
    /\ UNCHANGED <<buildVars, listVars, lastWasRun, procVars, lastExit, errors, runAfter>>

(* KillProcess; the processes it signals end later, through OnTerminate.   *)
KillProcess ==
    /\ Dispatching /\ IsRunning
    /\ ResetBuildState /\ queue' = <<>> /\ runAfter' = FALSE
    /\ UNCHANGED <<listVars, lastWasRun, made, procVars, exitVars, stack, requestVars>>

-----------------------------------------------------------------------------
(* BuildStateManagement *)

(* The lists of commands stage st may give: nothing for a project that is  *)
(* only cleaned, for a post-build step after a stage without commands,     *)
(* unless it is set to run always, for cleaning (done on the spot) and for *)
(* the "done" stages.                                                      *)
PostLists(had) == IF had THEN {Steps[project]} ELSE {<<>>, Steps[project]}
StageLists(st) ==
    CASE st = "bsTargetBuild" -> CompileLists
      [] st = "bsProjectPreBuild" /\ mode.build -> {Steps[project]}
      [] st = "bsTargetPreBuild" -> {Steps[project]}
      [] st = "bsTargetPostBuild" -> PostLists(post.target)
      [] st = "bsProjectPostBuild" -> PostLists(post.project)
      [] OTHER -> {<<>>}

(* after the first yield: give up, or enter the next state *)
EnterStage ==
    /\ At("entered")
    /\ \/ /\ project = None
          /\ ResetBuildState /\ queue' = <<>>
          /\ Goto([at |-> "over", by |-> Top.by, proc |-> Top.proc])
       \/ /\ project # None
          /\ state' = next
          /\ \E cmds \in StageLists(next) :
                Goto([at |-> "listing", by |-> Top.by, proc |-> Top.proc,
                      stage |-> next, cmds |-> cmds])
          /\ UNCHANGED <<job, next, project, queue>>
    /\ UNCHANGED <<listVars, lastWasRun, made, procVars, exitVars, runAfter, requestVars>>

(* GetNextStateBasedOnJob for the states that look at no job list; the     *)
(* stage bsTargetDone goes on with the next target of the project.         *)
Again == IF mode.clean /\ ~mode.build THEN "bsTargetClean" ELSE "bsTargetPreBuild"
SameProject == jobs # <<>> /\ Head(jobs) = project
JobsPeeked == jobs    \* faulty variant: the next target is looked at and not taken
JobsLeft == IF state = "bsTargetDone" /\ SameProject THEN Tail(jobs) ELSE jobs
NextState ==
    CASE state = "bsProjectPreBuild" -> Again
      [] state = "bsTargetPreBuild" ->
            IF mode.clean THEN "bsTargetClean"
            ELSE IF mode.build THEN "bsTargetBuild" ELSE "bsTargetPostBuild"
      [] state = "bsTargetClean" ->
            IF mode.build THEN "bsTargetBuild" ELSE "bsTargetDone"
      [] state = "bsTargetBuild" -> "bsTargetPostBuild"
      [] state = "bsTargetPostBuild" -> "bsTargetDone"
      [] state = "bsTargetDone" ->
            IF SameProject THEN Again
            ELSE IF mode.build THEN "bsProjectPostBuild" ELSE "bsProjectDone"
      [] state = "bsProjectPostBuild" -> "bsProjectDone"
      [] OTHER -> "bsNone"

PostFlags(st, cmds) ==
    CASE st = "bsTargetBuild" ->
            [target |-> cmds # <<>>, project |-> cmds # <<>>]
      [] st = "bsTargetPostBuild" -> [post EXCEPT !.target = FALSE]
      [] st = "bsProjectPostBuild" -> [post EXCEPT !.project = FALSE]
      [] OTHER -> post

Closing(f) == [at |-> "closing", by |-> f.by, proc |-> f.proc]

(* the rest of the function, up to its last yield *)
LeaveStage ==
    /\ At("listing")
    /\ post' = PostFlags(Top.stage, Top.cmds)
    /\ \/ /\ ~(state = "bsProjectDone" /\ jobs # <<>>)
          /\ next' = NextState
          /\ jobs' = JobsLeft
          /\ AddToCommandQueue(Top.cmds)
          /\ Goto(Closing(Top))
          /\ UNCHANGED project
       \/ /\ state = "bsProjectDone" /\ jobs # <<>>
          /\ next' = "bsProjectPreBuild"
          /\ project' = Head(jobs) /\ jobs' = Tail(jobs)
          /\ stack' = Append(Append(Below, [Top EXCEPT !.at = "nested"]),
                             CallBSM("project", None))
          /\ UNCHANGED <<queue, made>>
    /\ UNCHANGED <<job, state, mode, lastStep, lastWasRun, procVars, exitVars,
                   runAfter, requestVars>>

(* DoBuild for the next project has returned *)
ResumeStage ==
    /\ At("nested")
    /\ next' = Again
    /\ AddToCommandQueue(Top.cmds)
    /\ Goto(Closing(Top))
    /\ UNCHANGED <<job, state, project, listVars, lastWasRun, procVars, exitVars,
                   runAfter, requestVars>>

Close ==
    /\ At("closing")
    /\ Goto([Top EXCEPT !.at = "over"])
    /\ UNCHANGED <<buildVars, listVars, queueVars, procVars, exitVars, runAfter, requestVars>>

-----------------------------------------------------------------------------
(* DoRunQueue *)

(* The process is started in slot s; when that fails the queue and the     *)
(* state are cleared.  Either way DoRunQueue is called once more.          *)
Launch(s, c, rest) ==
    /\ lastWasRun' = (c.kind = "run")
    /\ Goto(RunFrame)
    /\ \/ /\ slot' = [slot EXCEPT ![s] = [is |-> "running", cmd |-> c]]
          /\ alive' = alive \cup {[slot |-> s, cmd |-> c]}
          /\ queue' = rest
          /\ UNCHANGED <<buildVars, errors>>
       \/ /\ slot' = [slot EXCEPT ![s] = Idle]
          /\ queue' = <<>> /\ ResetBuildState
          /\ errors' = TRUE /\ UNCHANGED alive
    /\ UNCHANGED <<listVars, made, inbox, lastExit, spoilt, mended, said,
                   runAfter, requestVars>>

(* Faulty variant: the second clause of the test of line 1217 is lost. *)
MayStartLink == Running # {} /\ queue # <<>> => Head(queue).kind # "step"
MayStart == Running # {} /\ queue # <<>> => ~Waits(Head(queue))

(* no free slot, a command that has to wait, or nothing left to start *)
StopRunning ==
    /\ At("run")
    /\ NextAvailable = None \/ ~MayStart \/ (queue = <<>> /\ Running # {})
    /\ Return
    /\ UNCHANGED <<buildVars, listVars, queueVars, procVars, exitVars, runAfter, requestVars>>

StartUnchecked ==    \* faulty variant: the index is not compared with -1
    /\ At("run") /\ MayStart /\ queue # <<>>
    /\ Launch(NextAvailable, Head(queue), Tail(queue))
StartNext ==
    /\ At("run")
    /\ NextAvailable # None /\ MayStart /\ queue # <<>>
    /\ Launch(NextAvailable, Head(queue), Tail(queue))

(* nothing queued and nothing running: keep switching build states *)
SwitchState ==
    /\ At("run")
    /\ NextAvailable # None /\ queue = <<>> /\ Running = {}
    /\ Goto(CallBSM("queue", NextAvailable))
    /\ UNCHANGED <<buildVars, listVars, queueVars, procVars, exitVars, runAfter, requestVars>>

NoStateLeft == state = "bsNone" /\ next = "bsNone"

(* BuildStateManagement has returned into the loop of DoRunQueue *)
BackInQueue ==
    /\ At("over") /\ Top.by = "queue"
    /\ \/ queue # <<>> /\ Launch(Top.proc, Head(queue), Tail(queue))
       \/ /\ queue = <<>> /\ NoStateLeft
          /\ NotifyJobDone(lastExit) /\ ResetBuildState
          /\ MaybeRun
          /\ UNCHANGED <<listVars, lastWasRun, procVars, errors, requestVars>>
       \/ /\ queue = <<>> /\ ~NoStateLeft
          /\ Goto(CallBSM("queue", Top.proc))
          /\ UNCHANGED <<buildVars, listVars, queueVars, procVars, exitVars,
                         runAfter, requestVars>>

(* DoBuild returns to the public DoBuild, which calls DoRunQueue *)
BackInBuild ==
    /\ At("over") /\ Top.by = "begin"
    /\ Goto(RunFrame)
    /\ UNCHANGED <<buildVars, listVars, queueVars, procVars, exitVars, runAfter, requestVars>>

BackInStage ==
    /\ At("over") /\ Top.by = "project"
    /\ Return
    /\ UNCHANGED <<buildVars, listVars, queueVars, procVars, exitVars, runAfter, requestVars>>

-----------------------------------------------------------------------------
(* Processes *)

Unbound(e) == IF e = Idle THEN Idle ELSE [e EXCEPT !.is = "ended"]

(* PipedProcess::OnTerminate, called by the event loop: the entry of the  *)
(* list it was started for loses its pProcess, whoever has it now.         *)
OnTerminate(p, ok) ==
    /\ Dispatching /\ p \in alive
    /\ alive' = alive \ {p}
    /\ slot' = [slot EXCEPT ![p.slot] = Unbound(@)]
    /\ inbox' = Append(inbox, [slot |-> p.slot, cmd |-> p.cmd, ok |-> ok])
    /\ UNCHANGED <<buildVars, listVars, queueVars, exitVars, runAfter, stack, requestVars>>

(* What OnJobEnd makes of an exit code: a link command also succeeds when  *)
(* it left a fresh output file, and also fails when the post-processing of *)
(* that file fails.                                                        *)
Success(e) ==
    IF slot[e.slot] = Idle \/ slot[e.slot].cmd.kind = "link" THEN BOOLEAN ELSE {e.ok}

(* m_LastExitCode after lines 3706-3708 and 3767-3768 *)
ExitForgotten(ok, success) == success \/ lastExit     \* faulty variant
ExitAfter(ok, success) ==
    IF success THEN TRUE ELSE IF lastExit \/ ~ok THEN ok ELSE lastExit

(* the end of OnJobEnd when the build is over, with exit code e *)
JobOver(e, failed) ==
    /\ ResetBuildState /\ jobs' = <<>>
    /\ NotifyJobDone(lastWasRun \/ e)
    /\ \E seen \in {errors, errors \/ failed} :
          /\ errors' = seen
          /\ IF seen
             THEN /\ Return /\ runAfter' = FALSE /\ queue' = <<>>
                  /\ UNCHANGED <<made, spoilt, mended>>
             ELSE MaybeRun

(* OnGCCTerminated and OnJobEnd, dispatched for the first posted event.    *)
(* Only the calls that end the build touch more than the process list.     *)
Push(f) == stack' = Append(stack, f)
OnJobEnd ==
    /\ Dispatching /\ inbox # <<>> /\ Len(stack) < MaxDepth[asked]
    /\ nested' = (nested \/ stack # <<>>)
    /\ LET e == Head(inbox)
       IN  /\ inbox' = Tail(inbox)
           /\ slot' = [slot EXCEPT ![e.slot] = Idle]
           /\ \E success \in Success(e) :
                 /\ lastExit' = ExitAfter(e.ok, success)
                 /\ spoilt' = (spoilt \/ (~e.ok /\ ~success /\ e.cmd.kind # "run"))
                 /\ mended' = (mended \/ (spoilt /\ success))
                 /\ Push(IF ~success THEN [at |-> "over", by |-> "failed", proc |-> None]
                         ELSE IF queue # <<>> \/ Running # {} THEN RunFrame
                         ELSE CallBSM("jobend", None))
    /\ UNCHANGED <<buildVars, listVars, queueVars, alive, errors, said, runAfter,
                   asked>>

(* the loop of OnJobEnd, and its end *)
BackInJobEnd ==
    /\ At("over") /\ Top.by \in {"jobend", "failed"}
    /\ \/ /\ Top.by = "jobend" /\ queue # <<>>
          /\ Goto(RunFrame)
          /\ UNCHANGED <<buildVars, listVars, queueVars, exitVars, runAfter>>
       \/ /\ Top.by = "jobend" /\ queue = <<>> /\ ~NoStateLeft
          /\ Goto(CallBSM("jobend", None))
          /\ UNCHANGED <<buildVars, listVars, queueVars, exitVars, runAfter>>
       \/ /\ Top.by = "jobend" => queue = <<>> /\ NoStateLeft
          /\ JobOver(lastExit, Top.by = "failed")
          /\ UNCHANGED <<mode, post, lastStep, lastWasRun>>
    /\ UNCHANGED <<procVars, requestVars>>

-----------------------------------------------------------------------------

Ask ==
    \/ \E list \in JobLists, k \in {"bjProject", "bjWorkspace"},
          m \in [clean : BOOLEAN, build : BOOLEAN], r \in BOOLEAN :
             (m.clean \/ m.build) /\ Build(k, list, m, r)
    \/ \E list \in JobLists, k \in {"bjProject", "bjWorkspace"} : Rebuild(k, list)
    \/ CompileFile
    \/ RunOnly
    \/ KillProcess

Gui ==
    \/ RebuildAgain
    \/ EnterStage \/ LeaveStage \/ ResumeStage \/ Close
    \/ StopRunning \/ StartNext \/ SwitchState
    \/ BackInQueue \/ BackInBuild \/ BackInStage \/ BackInJobEnd
    \/ OnJobEnd

Ends == \E p \in alive, ok \in BOOLEAN : OnTerminate(p, ok)

Next == Ask \/ Gui \/ Ends
Spec == Init /\ [][Next]_vars

(* The GUI thread runs, and a compiler, a linker and a build step end some *)
(* day; the user's program may run for ever.                               *)
FairSpec ==
    /\ Spec /\ WF_vars(Gui)
    /\ \A s \in Slot :
          WF_vars(\E p \in alive, ok \in BOOLEAN :
                     p.slot = s /\ p.cmd.kind # "run" /\ OnTerminate(p, ok))

-----------------------------------------------------------------------------
(* Properties *)

(* A command that must wait is alone with its successors: whatever runs    *)
(* beside it was queued after it ("wait for all previous commands to       *)
(* finish", compiler_defs.h:29).                                           *)
WaitsForPrevious ==
    ~nested => \A p, q \in alive : Waits(p.cmd) => q.cmd.n >= p.cmd.n

(* The list knows every process that runs: none is lost to Abort and to    *)
(* IsRunning, and none has lost its entry to another command.              *)
AliveListed ==
    ~nested => \A p \in alive : slot[p.slot] = [is |-> "running", cmd |-> p.cmd]

(* cbEVT_COMPILER_FINISHED, on which the debugger starts the program, is   *)
(* only sent when the build is over: nothing but the program itself runs   *)
(* or waits to be run afterwards.                                          *)
FinishedMeansOver ==
    said # "nothing" /\ ~nested =>
        /\ \A p \in alive : p.cmd.kind = "run"
        /\ \A i \in 1..Len(queue) : queue[i].kind = "run"

(* A build that a command spoilt is not announced as a success, unless     *)
(* another command ended successfully after it ("prevent exit errors from  *)
(* being overwritten", line 3706; line 3768 overwrites them all the same)  *)
(* or the program was run.  Only a command that was started and ended      *)
(* badly spoils a build, and only the first announcement is meant: it      *)
(* forgets the exit code, and a command that ends later announces again.   *)
NoFalseSuccess ==
    [][said = "nothing" /\ said' = "finished" /\ ~lastWasRun /\ ~nested'
        => ~spoilt \/ mended]_vars

(* A build comes to its end, and with it every process it started, unless  *)
(* the user's program is running: a build waits for that like for a step.  *)
ProgramRuns == \E p \in alive : p.cmd.kind = "run"
BuildEnds == job # "bjIdle" ~> (job = "bjIdle" /\ alive = {}) \/ ProgramRuns \/ nested
===============================================================================
