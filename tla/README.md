# Formal models of AxCode::Blocks

AxCode::Blocks is Code::Blocks with a debugger plug-in for AXSEM
microcontrollers. Most of it is an editor, project files and dialogs. Its own
core logic sits where several activities share state: worker threads, external
processes that answer late, and calls that are entered again while a dialog is
open. The modules in this directory model those parts in TLA+, TLC checks the
models on small instances, and TLAPS proves the most important facts for every
size.

Paths below are relative to the source root of the program (`sdk/...` is
`src/src/sdk/...` of the repository). `PROJECT.json` lists, for every
definition that models code, the lines it stands for.

## 1. Inventory

| Part | State | Operations | Hard about it | What makes it correct |
|---|---|---|---|---|
| **Thread pool** (`sdk/cbthreadpool.cpp`, `include/cbthreadpool.h`) | task queue, batching flag, scheduled size, "task added" flag, count of working threads, threads, semaphore; in each thread an abort flag and the task it runs | `AddTask`, `AbortAllTasks`, `BatchBegin/End`, `SetConcurrentThreads`, `Done`, constructor, destructor; `cbWorkerThread::Entry` | threads, a counted semaphore with a maximum, counts kept by hand, a resize that replaces all threads while they run, destruction | exact count, no lost wakeup, no task lost, ALLDONE only when done, replaced threads do no work and end |
| **AXS driver queue** (`plugins/debuggeraxs/debuggerdriver.*`, `debugger_defs.*`, `axs_driver.*`, `axs_commands.h`) | waiting and started commands, per command its outstanding sequence numbers, sequence counter, CPU state, lines not parsed yet | `QueueCommand`, `RunQueue`, `ParseOutput`, `PruneRunQueue`, `KillOnError`, `KillDebugger`, `Poll`, the virtual functions of some forty commands | re-entrance: a command may open a dialog in the middle of `RunQueue` or `ParseOutput`, and timer and output events call the queue again | order between overlapping commands and barriers, no object deleted under its caller, lines reach their command, nothing stuck |
| **AXS session** (`debuggeraxs.cpp`, `machine.cpp`) | driver, process, lock depth, "terminate" flag, timer | `DoDebug`, `LaunchProcess`, `LockDriver`/`UnlockDriver`, `OnGDBOutput`, `OnGDBTerminated`, `StopDebugger` | the driver may not be deleted under a caller; the end of the process comes at any time | the driver lives as long as a call in it |
| **AXS breakpoints** (`debuggerstate.cpp`, `AxsCmd_AddBreakpoint`, `AxsCmd_RemoveBreakpoint`, `AxsCmd_Quit`) | the list, each breakpoint's index on the target | add, remove, remove all of a project, enable, edit, `ApplyBreakpoints` at connect, quit | the index arrives later than the breakpoint may be removed; the index outlives the session; the edit dialog works on a copy | every breakpoint on the target is accounted for, a number deletes the breakpoint it was given for, a listed one gets set, quitting leaves none and the CPU running |
| **AXS pipes** (`axspipedprocess.cpp`) and SDK pipes (`sdk/pipedprocess.cpp`) | partial lines | idle and timer reads, termination | output after termination | every line is delivered once, in order, before the end |
| **GDB/CDB driver queue** (`plugins/debuggergdb/debuggerdriver.cpp` ...) | queue, "queue busy" | as above, prompt-driven | output split over events | one command at a time |
| **Build queue** (`plugins/compilergcc`) | build state and job, command queue, process slots | state machine per target, parallel compilers, abort | processes end in any order and in two steps; the state machine yields to the event loop | a command that waits is alone with its successors, no process is lost, the end is announced when it is true, a build comes to its end |
| **Parser** (`plugins/codecompletion/parser`, `nativeparser.cpp`) | files to parse, batch and reparse timers, parser state, the file table, the pool | `AddFile`, `Reparse`, `RemoveFile`, `Parse`, `OnAllThreadsDone`, `OnBatchTimer`, destructor | two timers, ALLDONE events, worker tasks that change the parser's lists, a turn shared with other parsers | a file reserved is parsed, what was accepted is parsed, the turn is kept and given back |
| **Token tree**, **builder threads** (`plugins/codecompletion`) | tries under a mutex; two threads with semaphores | insert, erase, search; build, abort | indices after erase; abort against build | lookups find what was inserted |
| **File loading** (`sdk/filemanager.cpp`, `include/backgroundthread.h`) | three job queues with a thread each, a loader per file | `Load`, `Queue`, `Entry`, `Die`, `Sync` | deletion of a loader against its thread | a reader never sees half a file |
| Projects, editors, configuration, plug-in registry, macros, IPC, auto-save, contributed plug-ins | documents and registries on the GUI thread | user commands | none of concurrency; persistence | |

How they interact: the parser is the pool's only real user and learns through
posted ALLDONE events; parsers share `s_CurrentParser` and take turns. The
build engine and the AXS plug-in start processes through `PipedProcess`, whose
end arrives as one call and one posted event. The AXS plug-in owns the driver; GUI actions, a timer
and the pipe's events all call the driver on the GUI thread, the driver writes
requests to the process `axsdb` and its lines come back as events. A modal
dialog runs an event loop of its own, so that the calls nest.

## 2. Modules

| Module | Models | 
|---|---|
| `TaskBoard` | what a pool of N threads promises, without threads or semaphores |
| `ThreadPool` | `cbThreadPool` and `cbWorkerThread`, statement by statement where threads can interleave |
| `MCThreadPool` | instances for TLC |
| `ThreadPool_proofs` | theorems about `ThreadPool` |
| `ThreadPoolBoard_proofs` | `ThreadPool` without resize implements `TaskBoard` |
| `AxsCommandQueue` | the AXS driver's queue with its nested calls |
| `AxsCommandQueue_proofs` | theorems about `AxsCommandQueue` |
| `MCAxsCommandQueue` | instances for TLC |
| `AxsBreakpoints`, `MCAxsBreakpoints` | the breakpoint list against the target, `AxsCmd_Quit`, sessions |
| `AxsBreakpoints_proofs` | theorems about `AxsCmd_Quit` in `AxsBreakpoints` |
| `AxsBreakpointsList_proofs` | theorems about the list, the numbers and the target in `AxsBreakpoints` |
| `Loops_proofs` | induction over the passes of a loop written as a recursive function |
| `BuildQueue`, `MCBuildQueue` | `CompilerGCC`'s build engine with its yields and processes |
| `BuildQueue_proofs` | theorems about `BuildQueue` |
| `ParserClient`, `MCParserClient` | `Parser` as the client of a pool that is an instance of `TaskBoard` |
| `ParserClient_proofs` | theorems about `ParserClient` |

### ThreadPool

One client, the *owner*, calls the public functions; workers run `Entry`. A
function body under `m_Mutex` is one action (`AddTask`, `AbortAllTasks`,
`BatchEnd`, `Enter` = `WorkingThread`, `Fetch` = `GetNextTask`, `Park` and
`Leave` = the two calls of `WaitingThread`, `ApplyRequest`, `Destroy`); what
`Entry` does between two of them is cut at each read of `m_abort`
(`Check`, `Guard`, `Loop`), at the `m_taskMutex` sections (`Publish`,
`Finish`) and at the semaphore (`Wait`). `pc[w]` is the place in `Entry`,
with the local `workingThread` folded into it (`CountedPlace`).

`SetConcurrentThreads` replaces all threads and the semaphore; a worker is
therefore a pair of a *generation* and a number, `size[g]` and `sem[g]` belong
to a generation, and threads of an old generation live on until they end. The
comparison at the head of `SetConcurrentThreads` is made outside the mutex and
is a step of its own. The unsigned difference in `Broadcast` and `AwakeNeeded`
is taken modulo `SizeT`. A call into a destroyed pool is `CallDestroyed`:
undefined behaviour, after which that thread is not followed.

Bounds: `MaxGen` (generations) and the sets `Task` and `Sizes`.
Left out: event identifiers, stack sizes, `autodelete`, the CPU count as a
size, and one task object submitted twice.

### AxsCommandQueue

Everything happens on the GUI thread, so the model has one explicit call
stack. A frame is a call in progress and a step runs the innermost one up to
the next point where something can come in between: one iteration of the
`while` loop of `RunQueue` (`Scan`, `Start`, `After`, `EndRun`), of the `for`
loop of `DebuggerDriver::ParseOutput` (`Pass`, `Foreign`, `Accept`,
`EndHandle`), of the loop of `AXS_driver::ParseOutput` (`Prune`, `EndPrune`),
one request of an `Action()` (`Send`), one command queued by a finished one
(`QueueNext`). `error` and `refusal` frames are the modal dialogs of
`KillOnError` and `KillOnNotHalt`; while one is on top, the timer (`Poll`) and
the debugger's output (`OnGDBOutput`) push new calls, as the nested event loop
does. With an empty stack the user may also act (`UserCommand`) and the
session may end (`OnGDBTerminated`). `axsdb` is a process outside the
repository; its steps (`Answer`, `Report`, `Exit`) are derived from what the
driver reads and writes.

Commands are objects of nine classes that between them show every kind of
conversation the queue has to support: several requests at once
(`RegisterList`, `ReadPC`), a request after an answer (`AddBreakpoint`), none
at all (`UpdateWatchesTree`), a refusal by CPU state (`ReadRegisters`,
`WriteRegister`, `ReadPC`), the dialog after an error, commands that queue
others when done (`Follow`), barriers and commands that forbid overlap
(`Simple` is a console command, `Terminate`). `m_CmdSequence` is a counter
modulo `Modulus` that starts just below the end, so that it wraps in every
run. The driver's two functions a reader would expect to be atomic, `RunQueue`
and `ParseOutput`, are deliberately not.

Partly modelled: `AxsCmd_Quit` has its state machine in `AxsBreakpoints`;
`Continue*`, the resets, `Watch`, `Disassemble`, `Backtrace` and the `Connect`
conversation have state machines of their own and are left out, with the `busy` state and with
"Terminate Session" in the dialog of `KillOnNotHalt`, which starts `Quit`.
`QueueCommand(..., High)` is never used by this plug-in. Bounds: the set `Cmd`
of objects, `Polls` of which are for the timer, `MaxLines` lines to a request,
and one status line under way at a time. The external debugger answers in
order and with at least one line, which the commands rely on.

### AxsBreakpoints

The list, each breakpoint's `index` and `alreadySet`, the driver's queue as
far as it carries creations, deletions and the quit, the target's table of
numbers and its CPU. `Created`, `DriverAdd` and `DriverRemove` are the
functions of `DebuggerState` and `AXS_driver`; an operation of the user is one
action that passes a record from one of their calls to the next. The edit
dialog is open over several steps and keeps the copy it edits.
Their loops over the list are recursive functions (`RemoveEach`, `AddEach`;
`Only` is the erase after a `remove_if`), so that they can be proved about.
`ApplyBreakpoints` is part of `Connected`, the moment at which
`AxsCmd_ConnectTargetDownload` runs it. `AxsCmd_Quit` is a record: its
`m_State`, the requests not carried out yet, how many answers are due and
whether one has come; `ParseOutput` and `StateChange` are its two entries.
`SetCpuState` calls the second for every status line, also for one that reports
no change (`Repeat`).
`StopDriver` may happen at any time and begins the next session with the
numbers of the last one, as the code does.

What the driver's queue does in between is the business of `AxsCommandQueue`
and abstracted here: the debugger carries out one command after the other,
`AxsCmd_Quit`, a barrier, when all before it are answered.

Four kinds of history variables say which of the code's own shortcomings has
happened. `hurried` names the breakpoints removed, reset or edited before the
answer to their creation, those set twice at connect and those that
`RemoveAllProjectBreakpoints` forgets; `dropped` those it deletes on the
target and keeps; `refused` those the debugger would not set; `astray` is TRUE
when a number of an older session has deleted a breakpoint of this one. The
properties speak about everything else.

Left out: file, line and address (which old breakpoint a new one replaces is a
choice), the Stop and Run commands around an operation, `CleanUp`,
`DetachFromProcess`, `AxsCmd_Quit` for a target that is disconnected or locked
or after an error. Bounds: `Bp`, `Index`, `MaxCalls` operations of the user; a
status line that repeats the state comes only while `AxsCmd_Quit` runs (before,
it would arrive ahead of the first answer and change nothing) and while no other
is under way.

### BuildQueue

All on the GUI thread with an explicit stack, as in `AxsCommandQueue`. A frame
is `BuildStateManagement` at one of its yields (`entered`, `listing`,
`nested`, `closing`, `over`), `DoRunQueue` (`run`) or the second half of
`Rebuild` (`again`), together with its caller, so that a return continues in
the right loop. `EnterStage` and `LeaveStage` are the function's body between
the yields, `NextState` is `GetNextStateBasedOnJob`, `StartNext`, `StopRunning`
and `SwitchState` are the branches of `DoRunQueue`'s loop, `BackIn...` the code
after a call. Where the code yields, a process may end (`OnTerminate`), its
posted event may be handled (`OnJobEnd`) and the user may abort
(`KillProcess`). A process ends in two steps: `pProcess` is cleared at once,
the PID when the event is handled, and in between the slot is neither running
nor free.

A project is named for each of its targets in the job list. The commands of
the build stage are chosen from `CompileLists`, those of the pre- and post-build
steps are fixed by `Steps`; after a build stage without commands a post-build
step may still run, as "always run" asks. A single file is compiled from one of
`FileLists`: a file without project is linked, too, by a command that waits.
`NextAvailable` is the slot found, or `None` for the index -1, which
`DoRunQueue` has to tell from a slot (`TypeOK` fails without that test).
`made` numbers the commands, so that
`WaitsForPrevious` can say which came before which.

Bounds: `MaxDepth`, whose length is the number of requests and whose entries
bound the calls in progress. The run has `<<1, 1>>`: the end of a process is
handled in the event loop, never in a yield of another call. With 2 the code
misbehaves in ways section 5 describes, and the properties say so by their
condition `~nested`.

Left out: requests without any target, `Run` asking to build first, the yields
of `DoPrepareQueue`, script commands and empty commands, the post-processing
of SDCC's output (`Success` keeps its outcome).

### ParserClient

`Parser` on the GUI thread, the worker inside its three kinds of task, and the
file table of the token tree. The pool is `INSTANCE TaskBoard WITH N <- 1`, as
`Parser` forces its pool to one thread; `ThreadPool` is shown to implement
`TaskBoard`, so the two compose. The worker is cut where it takes and releases
the mutexes: the batch task copies the lists (`CopyBatch`), parses the macros
and clears them, submits one task for each file nobody has reserved
(`ParseNext`) and clears the list it copied (`ClearBatch`). A parse task
reserves its file (`OpenFile`), lets go of the tree at an `#include`
(`Include`, `OpenIncluded`) and closes the file (`CloseFile`). Timers,
`OnAllThreadsDone` and the calls of the client are one action each and wait
while the worker holds the tree. Other parsers are `OtherStarts` and
`OtherEnds`.

History: `owed` are the files accepted for parsing and not parsed since,
`unread` those that could not be opened, `raced` and `hasty` the two windows
section 5 describes.

`TypeOK` also says that `m_BatchParseFiles` lists no file twice, which
`AddFile` sees to by looking at the list beside the token tree.
`NoListUserLeft` is about the batch task and the mark task only, and the lists
it protects are `m_BatchParseFiles`, `m_PredefinedMacros` and the project's
files. Parse tasks may be left when the parser is destroyed (`TerminateAllThreads`
trusts `m_Pool.Done()`), and such a task reaches `m_tasksQueue` through
`Parser::Parse`; that is a fault of the code which no property excludes, and the
model does not follow the task.

Left out: tokens, which copy of a text is read (`m_NeedsReparse`), the stop
watch, `UpdateParsingProject`, the application's shutdown. Bounds: `File`,
`Batches`, `MaxCalls` calls and turns of other parsers.

## 3. Runs

| Run | Configuration | Shows |
|---|---|---|
| `pool` | 2 threads, 3 tasks, no resize, may be destroyed | `WorkingWithinPool`, `AllDoneMeansDone`, `TaskSettled`, `DestructorWakesAll`, `ImplementsTaskBoard` |
| `pool_resize` | 2 tasks, sizes 1 and 2, 2 generations | `TypeOK`, `WorkingCountExact`, `WakeupCovers`, `ExecutingWithinPool`, `ReplacedThreadsEnd`, `QueueDrains` |
| `axs_queue` | register list and follow-up, barrier, console command, errors and Terminate Session; CPU halted | `TypeOK`, `RunOrder`, `CallersExist`, `NeverStalls`, `CommandsEnd` |
| `axs_dialogs` | breakpoint, register edit, poll and its refresh, Terminate; CPU starts and halts | `OneAtATime`, `LinesReachSender` |
| `axs_breakpoints` | 2 breakpoints, one in the project, 2 numbers, 4 operations | `TypeOK`, `NoOrphans`, `DeletesOwn`, `QuitLeavesFree`, `Settles` |
| `build` | 2 slots, jobs of two targets of one project or of two projects, no command or two compiles and a link, 2 requests | `TypeOK`, `WaitsForPrevious`, `AliveListed`, `FinishedMeansOver`, `NoFalseSuccess`, `BuildEnds` |
| `parser` | a source file and the header it includes, 3 calls | `TypeOK`, `OnlyOwnerParses`, `ReservedHasTask`, `NoListUserLeft`, `Released`, `EverythingParsed` |
| `pool_done`, `pool_loss`, `axs_barrier`, `axs_deleted`, `axs_stall` | small | the disagreements of section 5 |

Why the bounds are enough. Two threads are the least at which one thread's
bookkeeping can be wrong about another; the third task makes the queue
non-empty while both are busy. Two generations show everything a resize can
do to the one before; a third repeats it. In the driver, the hazards need an
outstanding command, a command that asks, a command that arrives during the
question and a barrier: the instances have these, and the sequence counter
passes its end with them. `pool` and `pool_resize` are separate because some
promises hold only without a resize: a thread of the old generation that has
passed its abort test still counts itself, so that more threads can be working
than the new size.

Breakpoints: two objects are the least at which one can receive the other's
number or the other's deletion; four operations allow add, connect, change and
stop, or a second session with a number left over (three operations already
break every faulty variant).
Build: two slots show a command beside another, three commands a link behind
two compiles, two targets and two projects the two ways through the job list,
and the second request what the first leaves behind. Parser: one file
includes another that is also added, removed and reparsed by itself; three
calls put one call into each of two windows of a batch and one after it.

Fairness. `ThreadPool`: weak fairness of every worker (the system schedules
threads, and tasks end), and of the rest of a call the owner has begun; the
owner owes no call. One conjunct per thread is needed, as idle threads can
pass the semaphore between them. `AxsCommandQueue`: weak fairness of the GUI
thread's steps, of the user's answer to a dialog, of event delivery and of the
debugger's answers. The user owes no new command, the timer no tick and the
CPU no status. `AxsBreakpoints`: the debugger answers, its lines are delivered
and the queue goes on; a dialog need not be closed. `BuildQueue`: the GUI
thread goes on, and every process that is not the user's program ends; one
conjunct for each slot, as the compilers run in parallel. `ParserClient`: the
worker is scheduled, timers fire, events are handled, the destructor's wait
ends when it may, and another parser ends its turn. `CHECK_DEADLOCK FALSE`
stands where the system may stop: after the pool or the parser is destroyed,
after the session is over, when a build has ended and the bounded user has no
request left, or when the instance has no object left to create.

`CallersExist` and `NeverStalls` hold in `axs_queue`, where no command is
refused, and fail with a refusal in the picture (`axs_deleted`, `axs_stall`);
`RunOrder` likewise (`axs_barrier`). That is what these runs say together: the
queue is right as long as no dialog opens inside `RunQueue`. Section 4 has the
proof of the first half. In the same way `ResizeKeepsTasks` fails in
`pool_loss`, and section 4 proves it for every pool that is never resized.

Every property of a passing run is paired in `PROJECT.json` with a faulty
variant of one definition that breaks it; the variants stand beside the
definitions and are marked as such.

## 4. Proofs

`ThreadPool_proofs` proves for every number of tasks, sizes and generations:

- `PoolInvariant`: `Spec => []PoolInv`;
- `TypeCorrect`, `CountIsExact`, `NoLostWakeup`, `PoolBoundsExecution`: the
  properties `TypeOK`, `WorkingCountExact`, `WakeupCovers` and
  `ExecutingWithinPool` of the run `pool_resize`.

Assumptions: `TaskAssumption` and `SizeAssumption` of `ThreadPool` (sizes are
positive and below the range of `size_t`), nothing else. The argument:
`WorkingCountExact` is not inductive alone, for a resize happens when the
count is zero and must then know that no thread is between `WorkingThread` and
`WaitingThread`, in any generation; that the new generation's threads have not
existed before (`GenerationInv`); and that replaced threads carry the abort
flag (`AbortInv`), so that none of them gets from `guard` to `exec`.
`ResizeInv` keeps room for a generation that is requested or scheduled.
`WakeupCovers` is carried along: each step that consumes a post, or takes a
thread out of the counted places, leaves one of its three disjuncts true
behind it. The cardinality of `Executing` is bounded by an injection into the
thread numbers of the present generation. There is one lemma for each action;
lemmas at the head give the arithmetic of `IdleThreads` and what a step does
to `Counted`.

`AxsCommandQueue_proofs` proves for every set of commands with any classes and
followers, every modulus and any nesting of calls:

- `TypeCorrect`: `Spec => []TypeOK`, without further conditions. `TypeOK` needs
  `ParseInv` beside it: a frame that reads the head of `m_DebuggerOutputQueue`
  may do so because there is at most one such frame, and none when the queue
  is empty (the outermost-call test of `OnGDBOutput`);
- under `NoRefusals` (no command meets a CPU state it refuses, so that no
  dialog opens inside `RunQueue`): `RunOrderHolds`, `CallersExistHolds`,
  `NeverStallsHolds` and `OneAtATimeHolds`. `NoRefusals` is a condition on the
  constants, true of the instance of `axs_queue`; without it the first three
  are false (section 5);
- under `EnoughNumbers`, with or without refusals: `LinesReachSenderHolds`.

Assumptions: `CmdAssumption` and `SeqAssumption`. The inductive invariant of
the second group is `QueueInv`. `RunOrder` alone is not inductive, as `RunQueue` decides by its
local `runqdone`: `FramesInv` says that this copy agrees with the queue at
every point where it is used (and that a `prune` frame without work leaves
nothing to start, that a frame's command exists, and that one whose `Action()`
is in progress is live). That nobody changes the queue behind a `RunQueue` in
progress is a matter of the shape of the stack, `StackInv`: while no command
refuses, what lies under a `RunQueue` is a dialog of an error, a `KillDebugger`
or the parse loop, never another `RunQueue`. `LiveInv` reduces `IsDone` to
`live`, and `PlaceInv` keeps a command in one place, so that starting one makes
no other undone. Four lemmas say what a return, a tail call, a call and an
event do to the stack, three what a quiet step, a `QueueCommand` and a `Done()`
do to the rest; then there is one lemma for each action.

`LinesReachSender` is about numbers that are given again. `EnoughNumbers` says
that the commands of a session send fewer requests than `m_CmdSequence` has
values other than 0 (2^32 of them in the code; the instance of `axs_dialogs`,
whose counter wraps, satisfies it with its 15). `Slots` has one element for
each request a command can ever send. `ReachInv` says that there is a set `N`
of numbers given so far and an injection `w` of them into `Slots`
(`Numbering`); that whatever still carries a number - a command that waits for
it, a request, a line in the pipe or not yet parsed - belongs to the command
`w` names (`Matching`); and that what a command has still to send is not among
the slots used (`Unsent`, `ActUnsent`: the innermost `Action()` counts down,
and the second request of `AddBreakpoint` has its own flag). The counter gives
every number once: `N` and the number about to be given are closed under
`NextSeq` if that number is in `N` already, a set closed under it is the set of
all numbers, and there are more numbers than slots. A line is then never taken
for somebody else's, not even one that arrives after its command was killed.

`ThreadPoolBoard_proofs` goes on from `ThreadPool_proofs`, for pools that are
never resized (`NoResize`, that is `Sizes = {}`; the program's only call of
`SetConcurrentThreads` outside the pool is in `Parser::SetMaxThreads`, which
nobody calls). The count of working threads and
the covered wakeups are not enough to follow a task, so `BoardInv` adds that the
queue repeats no task, that a queued task is nobody's, that two threads never
hold the same one and that every task not yet ended is queued or held. With it:

- `PoolImplementsTaskBoard` (`ImplementsTaskBoard`): `Fetch` claims a task, and
  the board has room for it because the tasks claimed by other threads are held
  by other threads that are counted, fewer than `m_concurrentThreads`; every
  other step completes a task, discards the queue, announces or stutters;
- `AnnouncedWhenDone`, `WorkingThreadsWithinPool`: the action property
  `AllDoneMeansDone` and the invariant `WorkingWithinPool`;
- `NoTaskLost`: the invariant `ResizeKeepsTasks`, which `pool_loss` refutes for
  pools that are resized.

`AxsBreakpoints_proofs` proves `QuitLeavesFree` (`QuitLeavesFreeHolds`) for any
number of breakpoints, numbers and operations, without using any assumption. The
property is about the last two states of `AxsCmd_Quit`; why it holds is in the
ones before: `QuitInv` has a conjunct for each state of the conversation, which
says how many requests are still to be carried out, how many answers are under
way (`Silent`, `Once`, `Twice`) and what the answers will say. An empty target
stays empty and a CPU that runs on it goes on running, for the queue holds no
other command once `AxsCmd_Quit`, a barrier, is at work. Lines that nobody asked
for may arrive in any state and move it on when no answer is due, so `QuitInv`
also has to say what the lines under way report: `RunsFrom(k)`, that from the
k-th line on the CPU is said to run only if it still does. It holds for all of
them once the answer that counted no breakpoint has come, but not before, when a
line may be older than the halt at a breakpoint that has been deleted since.

`AxsBreakpointsList_proofs` proves the rest of that component's safety
properties, from `BreakpointAssumption` alone: `TypeOKHolds`, `NoOrphansHolds` and
`DeletesOwnHolds`, by the invariant `ListInv` (`ListInvariant`) together with
`QuitInv`. Neither `NoOrphans` nor `DeletesOwn` is inductive:

- `Kin`: a breakpoint that nobody hurried is asked for at most once, in the
  queue or in an answer under way, and only while it is listed and has no
  number; so the answer, when it comes, finds it in the list. With that every
  number the target has for it is in the list, in an answer or in a deletion;
- `Numbers`: while `AxsCmd_Quit` is idle, a number of this session is used once
  - by the list or the open dialog for one and the same breakpoint, or by one
  answer, or by one deletion - and all of them name the breakpoint the target
  has under it. That is what lets the debugger free a number and give it again
  although a deletion made long ago is still in the queue;
- `PhaseInv`, `Temporaries`: before the target is connected it has nothing, and a
  temporary breakpoint that counts as set then was added while connecting, so
  that its command is in the queue; `ApplyBreakpoints` deletes exactly those;
- `Edited`: what the edit dialog holds is listed, or was hurried out of it.

The invariants are stated of a record of the driver's state, as the actions
pass one from call to call. What one `DriverRemove` or `DriverAdd` does is a
lemma; what a loop of them does to a list of any length follows by induction.
The library's induction theorems take an operator as a parameter, which the
provers cannot instantiate; `Loops_proofs` proves from the least number
principle (`LeastNumber`) an induction stated with a set of numbers
(`PassInduction`) and the existence of the recursive function (`LoopExists`),
which the provers can. `AxsCommandQueue_proofs` uses the same module.

`BuildQueue_proofs` proves for every number of slots, projects, lists of
commands and requests, from `BuildAssumption` and `ListAssumption`:

- `TypeCorrect` (`TypeOK`) to any depth of nested calls, ends of processes
  inside other calls included;
- `WaitingCommandsAreAlone`, `NoProcessIsLost`, `AnnouncedWhenOver` and
  `NoFalseAnnouncement`: the properties `WaitsForPrevious`, `AliveListed`,
  `FinishedMeansOver` and `NoFalseSuccess` of the run `build`.

Those four speak of behaviours in which no end of a process is handled inside
another call (`~nested`), and so does the invariant: `QueueInv` is
`TypeOK /\ (~nested => CalmInv)`. `WaitsForPrevious` needs the order of the
commands still queued (`OrderInv`: numbers rise along the queue and lie above
all that run) and that the one launch which does not test for running processes,
after `BuildStateManagement` returned, happens when none runs (`FrameInv`); that
in turn needs the shape of the stack, for a `BuildStateManagement` that
`DoRunQueue` has called waits for nothing but a `BuildStateManagement` of the
next project (`ShapeInv`). `SlotInv` ties each slot to the
process in it or to the event that tells its end, so that a slot found free
stays free over the yields and an end frees nobody else's. `OverInv` carries the
announcement: once it is made, or once a command has spoilt the build and the
exit code is forgotten all the same, nothing is left but the user's program.

`ParserClient_proofs` proves for every set of files and includes and any number
of calls, from `ParserAssumption`: `TypeCorrect` (`TypeOK`),
`ReservedIsAwaited` (`ReservedHasTask`), `ParsersTakeTurns` (`OnlyOwnerParses`)
and `ListsOutliveTasks` (`NoListUserLeft`). `WorkInv` ties the worker's place to the task it has
claimed, `FileInv` each reserved file to a task that waits for it, to the open
files or to the failure to open it. `TurnInv` is the argument for the turn: as
long as a batch has not begun no event is under way, afterwards one is only
while the pool rests, and the batch timer finds something to do only when that
event was handled. `EndInv` follows the destructor.

Every invariant and action property that a passing run checks is thus a theorem,
as is the refinement of `TaskBoard`. Only model-checked are the liveness
properties, for which fairness and `ENABLED` are outside the prover's reach:
`TaskSettled`, `DestructorWakesAll`, `ReplacedThreadsEnd`, `QueueDrains`,
`CommandsEnd`, `Settles`, `BuildEnds`, `Released` and `EverythingParsed`. Of those
theorems five hold under a condition on the constants: the four that
`NoRefusals` qualifies and the one that `EnoughNumbers` does; the three of
`ThreadPoolBoard_proofs` that a run checks hold for pools without resize.

## 5. Disagreements found

Each is a run whose one property quotes the program's own words.

1. `pool_done`: `cbThreadPool::Done()` answers true while an added task waits
   for its thread to wake (`cbthreadpool.h:64-67`).
2. `pool_loss`: a resize between a thread's last test of `m_abort` and its
   `WorkingThread` call loses the task it then fetches (`cbthreadpool.h:36`).
3. `axs_barrier`: `RunQueue`'s `runqdone` stays true across a dialog under
   which other commands were started; a barrier starts beside an outstanding
   command (`debugger_defs.h:96`).
4. `axs_deleted`: "Terminate Session" in the error dialog marks the command
   that is itself waiting in a refusal dialog done; the next prune deletes it
   under its own `Action()` (`axs_driver.cpp:2052`).
5. `axs_stall`: the same local stays false across a dialog under which
   everything completed; the queue is left with a command nobody starts
   (`debuggerdriver.h:205`).

What the models show beside these, and no run states. These are conditions the
properties carry, named by a history variable or a bound, and the modules'
comments point at them:

- *Build.* If `OnJobEnd` is handled inside a yield of another call (`nested`),
  the outer call goes on with a slot index found before the yield
  (`compilergcc.cpp:1209`) and may overwrite the entry of a running process, a
  build may be announced as failed and then as finished, and two calls may
  wait for each other in a loop of the GUI thread. `AliveListed`,
  `WaitsForPrevious`, `FinishedMeansOver`, `NoFalseSuccess` and `BuildEnds` all
  fail with `MaxDepth` 2.
- A command that succeeds after one that failed makes the build a success
  (line 3768 undoes what the comment at 3706 wants): `mended`, which
  `NoFalseSuccess` excuses and no property covers. The announcement forgets the
  exit code, so that a command ending after it announces again, as a success;
  the property is about the first one. A command that
  cannot be started ends the build with exit code 0 and still runs the program
  (1340-1362), as does a failed build without parsed messages (3843).
  `m_RunAfterCompile` survives and may run the program after a later rebuild.
- *Parser.* A file or macro added between the batch task's copy and its clear
  is lost (`raced`). A call within the ten milliseconds after
  `OnAllThreadsDone` has started the timer stops it and does not start it
  again, and every parser waits for ever (`hasty`). A file added during a
  reparse leaves `m_NeedMarkFileAsLocal` set and `Done()` false
  (`MarkForgotten`). A file that cannot be opened stays reserved (`unread`).
- *Breakpoints.* A removal or reset before the answer leaves a breakpoint on the
  target; the `RemoveBreakpoint` of a null pointer at the head of
  `ApplyBreakpoints` removes nothing, so that a breakpoint added during the
  connect is set twice; the edit dialog's OK assigns an old index (`hurried`).
  `RemoveAllProjectBreakpoints` deletes the tail `remove_if` leaves behind,
  which need not be what was removed (`dropped`, `hurried`): no property covers
  that, `NoOrphans` and `Settles` speak about the other breakpoints. A number that
  outlived its session may delete another breakpoint (`astray`).

## 6. Not modelled, and the plan

Not modelled, and why:

- *Documents and user interface* (projects, workspaces, editors, configuration,
  registries, wizards, importers, the contributed plug-ins, the vendored
  widgets, Scintilla, the formatter, Hunspell): one thread, one operation at a
  time, and what could be wrong with them is in their data. They are by far
  most of the lines of the repository.
- *Token tree and search tree*: data structures under one mutex, sequential;
  only their file table matters to the order of events, and `ParserClient` has
  it.
- *Builder threads, file loading*: small users of the same primitives as the
  thread pool.
- *GDB/CDB queue*: the ancestor of the AXS queue, one command at a time.
- *Process pipes, IPC, auto-save*: the operating system decides their outcome.

What is left of the plan, in order:

1. *Target control*: `SoftwareReset`, `ContinueBase` and the CPU states they
   wait for, beside `AxsCmd_Quit`.
2. *Session*: the lock depth, the "terminate" flag and the end of the process.
3. `FileLoading`, `PipedLines`, base64 against its definition.
4. *Proofs*: what of `RunOrder` and `NeverStalls` survives a refusal, and
   `BuildQueue`'s invariants for an end of a process inside another call, where
   the properties themselves have to be found first.
