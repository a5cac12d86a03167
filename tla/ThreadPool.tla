------------------------------ MODULE ThreadPool ------------------------------
(***************************************************************************)
(* The worker pool of the SDK: class cbThreadPool and its inner            *)
(* cbWorkerThread (sdk/cbthreadpool.cpp, include/cbthreadpool.h).          *)
(*                                                                         *)
(* One client thread (the owner) calls the public functions; the workers   *)
(* run cbWorkerThread::Entry().  A function whose body runs under m_Mutex  *)
(* is one action; what Entry() does between two such calls is cut at every *)
(* point where another thread can be observed: the reads of m_abort, the   *)
(* m_taskMutex sections and the wait on the semaphore.                     *)
(*                                                                         *)
(* SetConcurrentThreads throws the whole set of threads away and makes a   *)
(* new one, so a worker is a pair <<g, i>>: the i-th thread of generation  *)
(* g.  m_threads holds generation gen, m_semaphore is sem[gen], and        *)
(* m_concurrentThreads is size[gen], the number of threads of that         *)
(* generation and the largest value its semaphore takes.                   *)
(***************************************************************************)
EXTENDS Integers, Sequences, FiniteSets

CONSTANTS
    Task,        \* the cbThreadedTask objects the owner may submit
    NoTask,      \* the null task pointer
    InitSize,    \* the constructor's concurrentThreads
    Sizes,       \* the arguments of later SetConcurrentThreads calls
    MaxSize,     \* no generation has more threads than this
    MaxGen,      \* bound: how many generations a behaviour may create
    MayDestroy   \* whether the owner ever destroys the pool

SizeT == 65536   \* the values of a std::size_t, scaled down

ASSUME TaskAssumption == NoTask \notin Task
ASSUME SizeAssumption ==
    /\ MaxSize \in 1..(SizeT - 1) /\ MaxGen \in Nat \ {0}
    /\ InitSize \in 1..MaxSize /\ Sizes \subseteq 1..MaxSize
    /\ MayDestroy \in BOOLEAN

VARIABLES
    queue,       \* m_tasksQueue
    batching,    \* m_batching
    schedule,    \* m_concurrentThreadsSchedule; 0 when nothing is scheduled
    taskAdded,   \* m_taskAdded
    working,     \* m_workingThreads
    gen,         \* the generation m_threads and m_semaphore refer to
    size,        \* threads created for each generation, 0 if not created
    sem,         \* the value of each generation's semaphore
    pc,          \* where each worker is in Entry()
    aborted,     \* each worker's m_abort
    elem,        \* each worker's local "element"
    task,        \* each worker's m_pTask
    life,        \* what became of each task object
    halted,      \* the tasks whose own m_abort is set
    owner,       \* what the owner is doing inside SetConcurrentThreads
    request,     \* the argument of that call
    alive        \* FALSE once ~cbThreadPool has run

poolVars   == <<queue, batching, schedule, taskAdded, working, gen, size, sem>>
workerVars == <<pc, aborted, elem, task>>
ownerVars  == <<owner, request, alive>>
vars == <<poolVars, workerVars, life, halted, ownerVars>>

Gen    == 1..MaxGen
Worker == Gen \X (1..MaxSize)

(* The threads the pool knows: m_threads. *)
Threads == {w \in Worker : w[1] = gen /\ w[2] <= size[gen]}

(* Where a worker is.  "check" is line 205; a new thread starts there,     *)
(* because line 187 makes the same test.  "loop" is line 187 with          *)
(* workingThread set and "leave" line 240 with workingThread set.          *)
Place == {"none", "check", "enter", "fetch", "publish", "guard", "exec",
          "loop", "park", "wait", "leave", "gone", "undefined"}

(* The places where the local workingThread is true up to the call of      *)
(* WaitingThread: the workers m_workingThreads counts.                     *)
CountedPlace == {"fetch", "publish", "guard", "exec", "loop", "park", "leave"}
Counted == {w \in Worker : pc[w] \in CountedPlace}

concurrent == size[gen]

Least(a, b) == IF a <= b THEN a ELSE b

(* Post() on a semaphore that is at its maximum does nothing. *)
Posted(n) == [sem EXCEPT ![gen] = Least(@ + n, concurrent)]

(* m_concurrentThreads - m_workingThreads, computed as a std::size_t: a    *)
(* negative difference is a huge number.                                   *)
IdleThreads(busy) == (concurrent - busy) % SizeT

(* Faulty variants, each a plausible slip, stand before the definition they *)
(* would replace: here a Broadcast that wakes only as many threads as there *)
(* are tasks.                                                               *)
BroadcastNeeded(busy) == Posted(Least(Len(queue), IdleThreads(busy)))

AwakeNeeded(q) == Posted(Least(Len(q), IdleThreads(working)))
Broadcast(busy) == Posted(IdleThreads(busy))

-----------------------------------------------------------------------------

TypeOK ==
    /\ queue \in Seq(Task)
    /\ batching \in BOOLEAN /\ taskAdded \in BOOLEAN
    /\ schedule \in {0} \cup Sizes
    /\ working \in 0..Cardinality(Worker)
    /\ gen \in Gen
    /\ size \in [Gen -> 0..MaxSize]
    /\ sem \in [Gen -> 0..MaxSize]
    /\ pc \in [Worker -> Place]
    /\ aborted \in [Worker -> BOOLEAN]
    /\ elem \in [Worker -> Task \cup {NoTask}]
    /\ task \in [Worker -> Task \cup {NoTask}]
    /\ life \in [Task -> {"new", "pooled", "ended", "removed"}]
    /\ halted \subseteq Task
    /\ owner \in {"idle", "cancel", "apply"}
    /\ request \in {0} \cup Sizes
    /\ alive \in BOOLEAN

(* The state after the constructor: SetConcurrentThreads has created the   *)
(* first generation.                                                       *)
Init ==
    /\ queue = <<>> /\ batching = FALSE /\ schedule = 0 /\ taskAdded = FALSE
    /\ working = 0 /\ gen = 1
    /\ size = [g \in Gen |-> IF g = 1 THEN InitSize ELSE 0]
    /\ sem = [g \in Gen |-> 0]
    /\ pc = [w \in Worker |->
                IF w[1] = 1 /\ w[2] <= InitSize THEN "check" ELSE "none"]
    /\ aborted = [w \in Worker |-> FALSE]
    /\ elem = [w \in Worker |-> NoTask]
    /\ task = [w \in Worker |-> NoTask]
    /\ life = [t \in Task |-> "new"]
    /\ halted = {}
    /\ owner = "idle" /\ request = 0 /\ alive = TRUE

-----------------------------------------------------------------------------
(* The owner's calls. *)

(* cbThreadPool::AddTask *)
AddTask(t) ==
    /\ alive /\ owner = "idle" /\ life[t] = "new"
    /\ queue' = Append(queue, t)
    /\ taskAdded' = TRUE
    /\ sem' = IF ~batching /\ working < concurrent THEN AwakeNeeded(queue')
              ELSE sem
    /\ life' = [life EXCEPT ![t] = "pooled"]
    /\ UNCHANGED <<batching, schedule, working, gen, size, workerVars, halted,
                   ownerVars>>

(* cbWorkerThread::AbortTask on every thread of m_threads *)
AbortTasks == halted \cup {task[w] : w \in {v \in Threads : task[v] # NoTask}}

(* cbThreadedTaskElement::Delete on every queued element *)
DropQueued ==
    [t \in Task |->
        IF \E i \in 1..Len(queue) : queue[i] = t THEN "removed" ELSE life[t]]

(* cbThreadPool::AbortAllTasks.  The m_taskMutex sections it visits one    *)
(* after the other commute with what the workers can do meanwhile (the     *)
(* owner holds m_Mutex), so the whole call is one step.                    *)
AbortAllTasks ==
    /\ alive /\ owner = "idle"
    /\ halted' = AbortTasks
    /\ life' = DropQueued
    /\ queue' = <<>>
    /\ UNCHANGED <<batching, schedule, taskAdded, working, gen, size, sem,
                   workerVars, ownerVars>>

(* cbThreadPool::BatchBegin *)
BatchBegin ==
    /\ alive /\ owner = "idle"
    /\ batching' = TRUE
    /\ UNCHANGED <<queue, schedule, taskAdded, working, gen, size, sem,
                   workerVars, life, halted, ownerVars>>

(* Faulty variant: the threads are left asleep. *)
BatchEndSilent ==
    /\ alive /\ owner = "idle"
    /\ batching' = FALSE
    /\ UNCHANGED <<queue, schedule, taskAdded, working, gen, size, sem,
                   workerVars, life, halted, ownerVars>>

(* cbThreadPool::BatchEnd *)
BatchEnd ==
    /\ alive /\ owner = "idle"
    /\ batching' = FALSE
    /\ sem' = AwakeNeeded(queue)
    /\ UNCHANGED <<queue, schedule, taskAdded, working, gen, size,
                   workerVars, life, halted, ownerVars>>

(* cbThreadPool::SetConcurrentThreads up to the lock: the comparison with  *)
(* m_concurrentThreads is made before m_Mutex is taken.  The first         *)
(* conjunct bounds the number of generations.                              *)
SetConcurrentThreads(n) ==
    /\ gen + (IF schedule # 0 THEN 1 ELSE 0) < MaxGen
    /\ alive /\ owner = "idle"
    /\ owner' = IF n = concurrent THEN "cancel" ELSE "apply"
    /\ request' = n
    /\ UNCHANGED <<poolVars, workerVars, life, halted, alive>>

(* its early return, outside the lock *)
CancelSchedule ==
    /\ owner = "cancel"
    /\ owner' = "idle"
    /\ schedule' = 0
    /\ UNCHANGED <<queue, batching, taskAdded, working, gen, size, sem,
                   workerVars, life, halted, request, alive>>

(* Faulty variant: the old threads are not woken. *)
ReplaceQuietly(n, p) ==
    /\ aborted' = [w \in Worker |-> aborted[w] \/ w \in Threads]
    /\ halted' = AbortTasks
    /\ sem' = sem
    /\ gen' = gen + 1
    /\ size' = [size EXCEPT ![gen + 1] = n]
    /\ schedule' = 0
    /\ pc' = [w \in Worker |->
                IF w[1] = gen + 1 /\ w[2] <= n THEN "check" ELSE p[w]]

(* cbThreadPool::_SetConcurrentThreads when no thread is working: abort    *)
(* and wake the old threads, make a new semaphore and n new threads.  The  *)
(* places of the workers afterwards start from p.                          *)
Replace(n, p) ==
    /\ aborted' = [w \in Worker |-> aborted[w] \/ w \in Threads]
    /\ halted' = AbortTasks
    /\ sem' = Broadcast(0)
    /\ gen' = gen + 1
    /\ size' = [size EXCEPT ![gen + 1] = n]
    /\ schedule' = 0
    /\ pc' = [w \in Worker |->
                IF w[1] = gen + 1 /\ w[2] <= n THEN "check" ELSE p[w]]

(* its call under the lock by SetConcurrentThreads *)
ApplyRequest ==
    /\ owner = "apply"
    /\ owner' = "idle"
    /\ \/ working = 0 /\ Replace(request, pc)
       \/ /\ working # 0
          /\ schedule' = request
          /\ UNCHANGED <<aborted, halted, sem, gen, size, pc>>
    /\ UNCHANGED <<queue, batching, taskAdded, working, elem, task, life,
                   request, alive>>

(* cbThreadPool::~cbThreadPool *)
Destroy ==
    /\ MayDestroy /\ alive /\ owner = "idle"
    /\ alive' = FALSE
    /\ aborted' = [w \in Worker |-> aborted[w] \/ w \in Threads]
    /\ halted' = AbortTasks
    /\ sem' = Broadcast(working)
    /\ life' = DropQueued
    /\ queue' = <<>>
    /\ UNCHANGED <<batching, schedule, taskAdded, working, gen, size, pc,
                   elem, task, owner, request>>

-----------------------------------------------------------------------------
(* The worker threads: cbWorkerThread::Entry. *)

At(w, p) == pc[w] = p
Go(w, p) == pc' = [pc EXCEPT ![w] = p]

(* line 205 (and line 187 of a new thread) *)
Check(w) ==
    /\ At(w, "check")
    /\ Go(w, IF aborted[w] THEN "gone" ELSE "enter")
    /\ UNCHANGED <<poolVars, aborted, elem, task, life, halted, ownerVars>>

(* cbThreadPool::WorkingThread *)
Enter(w) ==
    /\ At(w, "enter") /\ alive
    /\ working' = working + 1
    /\ Go(w, "fetch")
    /\ UNCHANGED <<queue, batching, schedule, taskAdded, gen, size, sem,
                   aborted, elem, task, life, halted, ownerVars>>

(* Faulty variant: back() instead of front(). *)
FetchLast(w) ==
    /\ At(w, "fetch") /\ alive
    /\ \/ /\ queue = <<>>
          /\ elem' = [elem EXCEPT ![w] = NoTask]
          /\ UNCHANGED queue
       \/ /\ queue # <<>>
          /\ elem' = [elem EXCEPT ![w] = queue[Len(queue)]]
          /\ queue' = SubSeq(queue, 1, Len(queue) - 1)
    /\ Go(w, "publish")
    /\ UNCHANGED <<batching, schedule, taskAdded, working, gen, size, sem,
                   aborted, task, life, halted, ownerVars>>

(* cbThreadPool::GetNextTask *)
Fetch(w) ==
    /\ At(w, "fetch") /\ alive
    /\ \/ /\ queue = <<>>
          /\ elem' = [elem EXCEPT ![w] = NoTask]
          /\ UNCHANGED queue
       \/ /\ queue # <<>>
          /\ elem' = [elem EXCEPT ![w] = Head(queue)]
          /\ queue' = Tail(queue)
    /\ Go(w, "publish")
    /\ UNCHANGED <<batching, schedule, taskAdded, working, gen, size, sem,
                   aborted, task, life, halted, ownerVars>>

(* m_pTask = element.task, and "are we done with all tasks?" *)
Publish(w) ==
    /\ At(w, "publish")
    /\ task' = [task EXCEPT ![w] = elem[w]]
    /\ Go(w, IF elem[w] = NoTask THEN "loop" ELSE "guard")
    /\ UNCHANGED <<poolVars, aborted, elem, life, halted, ownerVars>>

(* Faulty variant: no second test of m_abort. *)
GuardNot(w) ==
    /\ At(w, "guard")
    /\ Go(w, "exec")
    /\ UNCHANGED <<poolVars, aborted, elem, task, life, halted, ownerVars>>

(* if (!Aborted()) before Execute *)
Guard(w) ==
    /\ At(w, "guard")
    /\ Go(w, IF aborted[w] THEN "loop" ELSE "exec")
    /\ UNCHANGED <<poolVars, aborted, elem, task, life, halted, ownerVars>>

(* Execute() returns; m_pTask is cleared, the element deleted and          *)
(* cbEVT_THREADTASK_ENDED posted.                                          *)
Finish(w) ==
    /\ At(w, "exec")
    /\ life' = [life EXCEPT ![elem[w]] = "ended"]
    /\ task' = [task EXCEPT ![w] = NoTask]
    /\ elem' = [elem EXCEPT ![w] = NoTask]
    /\ Go(w, "loop")
    /\ UNCHANGED <<poolVars, aborted, halted, ownerVars>>

(* Faulty variant: no WaitingThread call between two tasks. *)
LoopUncounted(w) ==
    /\ At(w, "loop")
    /\ Go(w, "check")
    /\ UNCHANGED <<poolVars, aborted, elem, task, life, halted, ownerVars>>

(* line 187 of a thread that has worked *)
Loop(w) ==
    /\ At(w, "loop")
    /\ Go(w, IF aborted[w] THEN "leave" ELSE "park")
    /\ UNCHANGED <<poolVars, aborted, elem, task, life, halted, ownerVars>>

(* cbThreadPool::WaitingThread, called by w, which goes on to place p when *)
(* it returns true.  taskAdded falling is cbEVT_THREADTASK_ALLDONE being   *)
(* posted to the owner.  A false result sends the thread out of its loop   *)
(* with workingThread false, so it has nothing left to do.                 *)
LastOfAll == working - 1 <= 0    \* faulty variant: the queue is not looked at
LastIsIdle == working - 1 <= 0 /\ queue = <<>>
WaitingThread(w, p) ==
    /\ alive
    /\ working' = working - 1
    /\ \/ /\ ~LastIsIdle
          /\ sem' = Posted(1)
          /\ Go(w, p)
          /\ UNCHANGED <<taskAdded, schedule, aborted, halted, gen, size>>
       \/ /\ LastIsIdle /\ schedule = 0
          /\ taskAdded' = FALSE
          /\ Go(w, p)
          /\ UNCHANGED <<sem, schedule, aborted, halted, gen, size>>
       \/ /\ LastIsIdle /\ schedule # 0
          /\ taskAdded' = FALSE
          /\ Replace(schedule, [pc EXCEPT ![w] = "gone"])
    /\ UNCHANGED <<queue, batching, elem, task, life, ownerVars>>

(* line 195: back to idle; line 241: on the way out *)
Park(w)  == At(w, "park") /\ WaitingThread(w, "wait")
LeaveSilently(w) ==              \* faulty variant: lines 240-241 dropped
    /\ At(w, "leave") /\ Go(w, "gone")
    /\ UNCHANGED <<poolVars, aborted, elem, task, life, halted, ownerVars>>
Leave(w) == At(w, "leave") /\ WaitingThread(w, "gone")

(* Faulty variant: workingThread is not reset at line 191, so that the     *)
(* thread goes on without being counted again.                             *)
WaitUncounted(w) ==
    /\ At(w, "wait") /\ sem[w[1]] > 0
    /\ sem' = [sem EXCEPT ![w[1]] = @ - 1]
    /\ Go(w, "fetch")
    /\ UNCHANGED <<queue, batching, schedule, taskAdded, working, gen, size,
                   aborted, elem, task, life, halted, ownerVars>>

(* m_semaphore->Wait() on the semaphore the worker was created with *)
Wait(w) ==
    /\ At(w, "wait") /\ sem[w[1]] > 0
    /\ sem' = [sem EXCEPT ![w[1]] = @ - 1]
    /\ Go(w, "check")
    /\ UNCHANGED <<queue, batching, schedule, taskAdded, working, gen, size,
                   aborted, elem, task, life, halted, ownerVars>>

(* A call into the pool after its destruction: undefined behaviour.  The   *)
(* worker is not followed any further.                                     *)
CallDestroyed(w) ==
    /\ ~alive /\ pc[w] \in {"enter", "fetch", "park", "leave"}
    /\ Go(w, "undefined")
    /\ UNCHANGED <<poolVars, aborted, elem, task, life, halted, ownerVars>>

WorkerStep(w) ==
    \/ Check(w) \/ Enter(w) \/ Fetch(w) \/ Publish(w) \/ Guard(w)
    \/ Finish(w) \/ Loop(w) \/ Park(w) \/ Leave(w) \/ Wait(w)
    \/ CallDestroyed(w)

OwnerStep ==
    \/ \E t \in Task : AddTask(t)
    \/ AbortAllTasks
    \/ BatchBegin
    \/ BatchEnd
    \/ \E n \in Sizes : SetConcurrentThreads(n)
    \/ CancelSchedule
    \/ ApplyRequest
    \/ Destroy

Next == OwnerStep \/ \E w \in Worker : WorkerStep(w)

Spec == Init /\ [][Next]_vars

(* The threads are scheduled and tasks end; the owner owes nothing except  *)
(* to finish a call it has begun.                                          *)
Fairness ==
    /\ \A w \in Worker : WF_vars(WorkerStep(w))
    /\ WF_vars(CancelSchedule) /\ WF_vars(ApplyRequest)

FairSpec == Spec /\ Fairness

-----------------------------------------------------------------------------
(* Properties.  Those that hold of every pool come first.                  *)

Queued == {queue[i] : i \in 1..Len(queue)}

(* m_workingThreads counts exactly the threads between WorkingThread and   *)
(* WaitingThread, whatever aborts, batches and resizes happened meanwhile  *)
(* (cbthreadpool.cpp:125-160): a thread that leaves through either break   *)
(* of Entry() neither loses nor repeats its decrement.                     *)
WorkingCountExact == alive => working = Cardinality(Counted)

(* No wakeup is lost.  While tasks are queued and the pool is not          *)
(* batching, some thread is on its way to the queue, or will wake another  *)
(* one: a post is left in the semaphore, or a counted thread has still to  *)
(* pass WaitingThread, or a thread of the present generation is about to   *)
(* be counted.  (AddTask posts nothing when every thread is working, and   *)
(* BatchEnd posts no more than the idle threads, lines 91 and 374.)        *)
Covered ==
    \/ sem[gen] > 0
    \/ Counted # {}
    \/ \E w \in Threads : pc[w] \in {"check", "enter"}
WakeupCovers == alive /\ queue # <<>> /\ ~batching => Covered

(* Threads of a generation that was thrown away never carry out a task,    *)
(* so that at most m_concurrentThreads tasks execute at a time even while  *)
(* a resize is under way (Guard's second test of m_abort, line 226).       *)
Executing == {w \in Worker : pc[w] = "exec"}
ExecutingWithinPool ==
    /\ Executing \subseteq Threads
    /\ Cardinality(Executing) <= concurrent

(* Every thread that was replaced by a resize comes to its end: the        *)
(* Broadcast of _SetConcurrentThreads leaves enough posts in the old       *)
(* semaphore for all that sleep on it (lines 56-61, 363).                  *)
ReplacedThreadsEnd ==
    \A w \in Worker : (w[1] < gen /\ pc[w] # "none") ~>
                          pc[w] \in {"gone", "undefined"}

(* A queued task leaves the queue, unless the owner starts a batch or      *)
(* destroys the pool first.                                                *)
QueueDrains ==
    \A t \in Task : (t \in Queued /\ ~batching) ~>
                        (t \notin Queued \/ batching \/ ~alive)

(* Why they hold: an inductive invariant.  A thread exists only in a       *)
(* generation made so far; the threads of an earlier one are aborted and   *)
(* the present ones are not while the pool lives; a resize in progress     *)
(* leaves room for the generation it will make.                            *)
GenerationInv ==
    /\ size[gen] >= 1
    /\ \A w \in Worker : pc[w] # "none" => w[1] <= gen /\ w[2] <= size[w[1]]
AbortInv ==
    /\ \A w \in Worker : w[1] < gen /\ pc[w] # "none" => aborted[w]
    /\ alive => \A w \in Worker : w[1] >= gen => ~aborted[w]
ResizeInv ==
    /\ schedule # 0 => gen < MaxGen
    /\ owner # "idle" => request \in Sizes /\ alive
    /\ owner = "apply" => gen + (IF schedule # 0 THEN 1 ELSE 0) < MaxGen
PoolInv ==
    /\ TypeOK /\ GenerationInv /\ AbortInv /\ ResizeInv
    /\ WorkingCountExact /\ WakeupCovers /\ Executing \subseteq Threads

(* The properties of a pool that is never resized (Sizes = {}).            *)

(* At most m_concurrentThreads threads are working (h:239) and the idle    *)
(* threads that AwakeNeeded and Broadcast subtract never go negative.      *)
WorkingWithinPool == alive => working <= concurrent

(* cbEVT_THREADTASK_ALLDONE is posted only when no task is queued,         *)
(* fetched or executing (lines 138-146).                                   *)
AllDoneMeansDone ==
    [][taskAdded /\ ~taskAdded' => \A t \in Task : life[t] # "pooled"]_vars

(* A task added to a pool that is neither batching nor destroyed ends or   *)
(* is removed: no path through Entry() drops an element it has fetched.    *)
TaskSettled ==
    \A t \in Task : (life[t] = "pooled" /\ ~batching) ~>
                        (life[t] # "pooled" \/ batching \/ ~alive)

(* ~cbThreadPool wakes every sleeping thread: none is left waiting on the  *)
(* semaphore (comment of line 27).                                         *)
DestructorWakesAll == [](~alive => <>(\A w \in Worker : pc[w] # "wait"))

(* The pool does what TaskBoard promises of one with N threads: a task is  *)
(* claimed from the moment GetNextTask hands it out.                       *)
Claimed == {elem[w] : w \in {v \in Worker : elem[v] # NoTask /\
                                 pc[v] \in {"publish", "guard", "exec"}}}
Ended == {t \in Task : life[t] = "ended"}

Board == INSTANCE TaskBoard WITH
    N <- InitSize, pending <- queue, claimed <- Claimed, done <- Ended,
    due <- taskAdded, open <- alive
ImplementsTaskBoard == Board!Spec

(* What the documentation says and the code does not do.                   *)

(* Done() "true if it has nothing to do" (h:64-67).                        *)
Done == working = 0
DoneMeansNothingToDo ==
    alive /\ ~batching /\ Done => \A t \in Task : life[t] # "pooled"

(* SetConcurrentThreads: "if tasks are running, it'll delay it until       *)
(* they're all done" (h:36): a resize costs no task its execution.         *)
Held(t) == \E w \in Worker : elem[w] = t /\ pc[w] \in {"publish", "guard", "exec"}
ResizeKeepsTasks ==
    alive => \A t \in Task : life[t] = "pooled" => t \in Queued \/ Held(t)
===============================================================================
