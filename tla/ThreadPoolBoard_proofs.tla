------------------------- MODULE ThreadPoolBoard_proofs -------------------------
(***************************************************************************)
(* Proofs about a ThreadPool that is never resized, for any number of      *)
(* threads and tasks: it implements TaskBoard, announces that all is done  *)
(* only when all is done, and loses no task.                               *)
(***************************************************************************)
EXTENDS ThreadPool_proofs

NoResize == Sizes = {}

(* The threads that have a task in hand, and the tasks they have.          *)
HeldPlace == {"publish", "guard", "exec"}
Holders == {v \in Worker : elem[v] # NoTask /\ pc[v] \in HeldPlace}

FixedInv == gen = 1 /\ size[1] = InitSize

(* A task is in one place.                                                 *)
QueuedOnce ==
    /\ \A i, j \in 1..Len(queue) : queue[i] = queue[j] => i = j
    /\ \A i \in 1..Len(queue) : life[queue[i]] = "pooled"
HeldOnce ==
    /\ \A v \in Holders : life[elem[v]] = "pooled" /\ elem[v] \notin Queued
    /\ \A v, w \in Holders : elem[v] = elem[w] => v = w
    /\ \A v \in Worker : pc[v] \in {"guard", "exec"} => elem[v] # NoTask

BoardInv ==
    /\ FixedInv /\ QueuedOnce /\ HeldOnce
    /\ ResizeKeepsTasks

(* A step of TaskBoard, or none.                                           *)
BoardStep == [Board!Next]_(Board!vars)

-----------------------------------------------------------------------------
(* Without resizes the owner is never inside SetConcurrentThreads, nothing *)
(* is scheduled, and no thread is aborted before the pool is destroyed.    *)
LEMMA Unresized ==
    ASSUME NoResize, PoolInv, BoardInv
    PROVE  /\ owner = "idle" /\ schedule = 0 /\ gen = 1 /\ size[gen] = InitSize
           /\ alive => \A w \in Worker : ~aborted[w]
<1>1. owner = "idle" /\ schedule = 0
    BY DEF NoResize, PoolInv, TypeOK, ResizeInv
<1>2. gen = 1 /\ size[gen] = InitSize
    BY DEF BoardInv, FixedInv
<1>3. \A w \in Worker : w[1] >= gen
    BY <1>2 DEF Worker, Gen
<1> QED
    BY <1>1, <1>2, <1>3 DEF PoolInv, AbortInv

LEMMA BoardTypes ==
    ASSUME PoolInv
    PROVE  /\ pc \in [Worker -> Place]
           /\ elem \in [Worker -> Task \cup {NoTask}]
           /\ queue \in Seq(Task) /\ Len(queue) \in Nat
           /\ life \in [Task -> {"new", "pooled", "ended", "removed"}]
           /\ \A v \in Holders : elem[v] \in Task
           /\ \A i \in 1..Len(queue) : queue[i] \in Task
<1>1. queue \in Seq(Task) /\ Len(queue) \in Nat
    BY DEF PoolInv, TypeOK
<1> QED
    BY <1>1 DEF PoolInv, TypeOK, Holders

(* A thread that has no task in hand moves and takes none.                 *)
LEMMA EmptyHanded ==
    ASSUME PoolInv, BoardInv, NEW w \in Worker, NEW p, Go(w, p),
           w \notin Holders, p \notin {"guard", "exec"},
           elem' = elem \/ elem' = [elem EXCEPT ![w] = NoTask],
           p = "publish" => elem'[w] = NoTask,
           UNCHANGED <<queue, life, gen, size, alive>>
    PROVE  BoardInv' /\ Holders' = Holders /\ Claimed' = Claimed /\ Ended' = Ended
<1>1. /\ pc' = [pc EXCEPT ![w] = p]
      /\ \A v \in Worker : v # w => pc'[v] = pc[v] /\ elem'[v] = elem[v]
      /\ pc'[w] = p
    BY BoardTypes DEF Go
<1>2. Holders' = Holders
    BY <1>1 DEF Holders, HeldPlace
<1>3. \A v \in Holders : v \in Worker /\ v # w /\ elem'[v] = elem[v]
    BY <1>1 DEF Holders
<1>4. Claimed' = {elem'[v] : v \in Holders'} /\ Claimed = {elem[v] : v \in Holders}
    BY DEF Claimed, Holders, HeldPlace
<1>5. Claimed' = Claimed
    BY <1>2, <1>3, <1>4
<1>6. QueuedOnce' /\ FixedInv'
    BY DEF BoardInv, QueuedOnce, FixedInv
<1>7. HeldOnce'
    BY <1>1, <1>2, <1>3 DEF BoardInv, HeldOnce, Queued
<1>8. ResizeKeepsTasks'
  <2>1. \A t \in Task : Held(t) => Held(t)'
    <3>1. \A t \in Task, v \in Worker :
              elem[v] = t /\ pc[v] \in HeldPlace => v \in Holders
        BY TaskAssumption DEF Holders
    <3>2. \A v \in Holders : v \in Worker /\ pc[v] \in HeldPlace /\ pc'[v] = pc[v]
        BY <1>1, <1>3 DEF Holders
    <3> QED
        BY <1>3, <3>1, <3>2 DEF Held, HeldPlace
  <2> QED
    BY <2>1 DEF BoardInv, ResizeKeepsTasks, Queued
<1> QED
    BY <1>2, <1>5, <1>6, <1>7, <1>8 DEF BoardInv, Ended

(* A thread that keeps its task in hand.                                   *)
LEMMA TaskInHand ==
    ASSUME PoolInv, BoardInv, NEW w \in Holders, NEW p \in HeldPlace, Go(w, p),
           UNCHANGED <<queue, life, gen, size, alive, elem>>
    PROVE  BoardInv' /\ Claimed' = Claimed /\ Ended' = Ended
<1>1. /\ w \in Worker /\ elem[w] # NoTask /\ pc[w] \in HeldPlace
      /\ \A v \in Worker : v # w => pc'[v] = pc[v]
      /\ pc'[w] = p
    BY BoardTypes DEF Go, Holders
<1>2. Holders' = Holders
    BY <1>1 DEF Holders
<1>3. Claimed' = Claimed
    BY <1>2 DEF Claimed, Holders, HeldPlace
<1>4. QueuedOnce' /\ FixedInv'
    BY DEF BoardInv, QueuedOnce, FixedInv
<1>5. HeldOnce'
    BY <1>1, <1>2 DEF BoardInv, HeldOnce, Queued
<1>6. ResizeKeepsTasks'
  <2>1. \A t \in Task : Held(t) => Held(t)'
    BY <1>1 DEF Held, HeldPlace
  <2> QED
    BY <2>1 DEF BoardInv, ResizeKeepsTasks, Queued
<1> QED
    BY <1>3, <1>4, <1>5, <1>6 DEF BoardInv, Ended

(* A thread whose task leaves its hands, ended or given up by a pool that  *)
(* is destroyed.                                                           *)
LEMMA TaskLeaves ==
    ASSUME PoolInv, BoardInv, NEW w \in Holders, Go(w, "loop"),
           UNCHANGED <<queue, gen, size, alive>>,
           \/ elem' = [elem EXCEPT ![w] = NoTask] /\ life' = [life EXCEPT ![elem[w]] = "ended"]
           \/ elem' = elem /\ life' = life /\ ~alive
    PROVE  /\ BoardInv' /\ elem[w] \in Claimed /\ Claimed' = Claimed \ {elem[w]}
<1>1. /\ w \in Worker /\ elem[w] \in Task /\ pc[w] \in HeldPlace
      /\ \A v \in Worker : v # w => pc'[v] = pc[v] /\ elem'[v] = elem[v]
      /\ pc'[w] = "loop"
    BY BoardTypes DEF Go, Holders
<1>2. Holders' = Holders \ {w}
    BY <1>1 DEF Holders, HeldPlace
<1>3. \A v \in Holders : v # w => elem'[v] = elem[v] /\ elem[v] # elem[w]
    BY <1>1 DEF BoardInv, HeldOnce, Holders
<1>4. Claimed' = {elem'[v] : v \in Holders'} /\ Claimed = {elem[v] : v \in Holders}
    BY DEF Claimed, Holders, HeldPlace
<1>5. elem[w] \in Claimed /\ Claimed' = Claimed \ {elem[w]}
    BY <1>2, <1>3, <1>4
<1>6. \A t \in Task : t # elem[w] => life'[t] = life[t]
    BY BoardTypes
<1>7. FixedInv'
    BY DEF BoardInv, FixedInv
<1>8. QueuedOnce'
  <2>1. \A i \in 1..Len(queue) : queue[i] \in Task /\ queue[i] # elem[w]
    BY BoardTypes DEF BoardInv, HeldOnce, Queued
  <2> QED
    BY <1>6, <2>1 DEF BoardInv, QueuedOnce
<1>9. HeldOnce'
  <2>1. \A v \in Holders' : v \in Holders /\ elem'[v] = elem[v] /\ elem[v] # elem[w]
                            /\ elem[v] \in Task
    BY <1>2, <1>3, BoardTypes
  <2>2. Queued' = Queued
    BY DEF Queued
  <2> QED
    BY <1>1, <1>6, <2>1, <2>2 DEF BoardInv, HeldOnce
<1>10. ResizeKeepsTasks'
  <2> SUFFICES ASSUME alive, NEW t \in Task, life'[t] = "pooled"
               PROVE  t \in Queued' \/ Held(t)'
    BY DEF ResizeKeepsTasks
  <2>1. life' = [life EXCEPT ![elem[w]] = "ended"]
    OBVIOUS
  <2>2. t # elem[w] /\ life[t] = "pooled"
    BY <1>1, <2>1, BoardTypes
  <2>3. t \in Queued \/ Held(t)
    BY <2>2 DEF BoardInv, ResizeKeepsTasks
  <2>4. Held(t) => Held(t)'
    BY <1>1, <2>2 DEF Held
  <2> QED
    BY <2>3, <2>4 DEF Queued
<1> QED
    BY <1>5, <1>7, <1>8, <1>9, <1>10 DEF BoardInv

-----------------------------------------------------------------------------
(* The owner's steps. *)

LEMMA AddTaskBoard ==
    ASSUME PoolInv, BoardInv, NEW t \in Task, AddTask(t)
    PROVE  BoardInv' /\ BoardStep
<1> DEFINE n == Len(queue) + 1
<1>1. /\ queue' = Append(queue, t) /\ life' = [life EXCEPT ![t] = "pooled"]
      /\ alive /\ life[t] = "new" /\ taskAdded' = TRUE
      /\ UNCHANGED <<gen, size, pc, elem, alive>>
    BY DEF AddTask, workerVars, ownerVars
<1>2. /\ Len(queue') = n /\ n \in Nat /\ 1..n = (1..Len(queue)) \cup {n}
      /\ n \notin 1..Len(queue) /\ queue'[n] = t
      /\ \A i \in 1..Len(queue) : queue'[i] = queue[i] /\ queue[i] \in Task
    BY <1>1, BoardTypes
<1> HIDE DEF n
<1>3. t \notin Queued
    BY <1>1 DEF BoardInv, QueuedOnce, Queued
<1>4. Queued' = Queued \cup {t}
    BY <1>2 DEF Queued
<1>5. \A u \in Task : life'[u] = IF u = t THEN "pooled" ELSE life[u]
    BY <1>1, BoardTypes
<1>6. Holders' = Holders
    BY <1>1 DEF Holders
<1>7. \A v \in Holders : elem[v] \in Task /\ elem[v] # t
    BY <1>1, BoardTypes DEF BoardInv, HeldOnce
<1>8. QueuedOnce' /\ FixedInv'
    BY <1>1, <1>2, <1>3, <1>5 DEF BoardInv, QueuedOnce, FixedInv, Queued
<1>9. HeldOnce'
    BY <1>1, <1>4, <1>5, <1>6, <1>7 DEF BoardInv, HeldOnce
<1>10. ResizeKeepsTasks'
    BY <1>1, <1>4, <1>5 DEF BoardInv, ResizeKeepsTasks, Held
<1>11. Claimed' = Claimed /\ t \notin Claimed
    BY <1>1, <1>7 DEF Claimed, Holders, HeldPlace
<1>12. Ended' = Ended /\ t \notin Ended
    BY <1>1, <1>5 DEF Ended
<1>13. Board!Add(t)
    BY <1>1, <1>3, <1>11, <1>12 DEF Board!Add, Board!Listed, Queued
<1> QED
    BY <1>8, <1>9, <1>10, <1>13 DEF BoardInv, BoardStep, Board!Next

(* AbortAllTasks and the destructor empty the queue; what threads have in  *)
(* hand stays.                                                             *)
LEMMA QueueDropped ==
    ASSUME PoolInv, BoardInv, queue' = <<>>, life' = DropQueued, alive' => alive,
           UNCHANGED <<gen, size, pc, elem>>
    PROVE  BoardInv' /\ Claimed' = Claimed /\ Ended' = Ended
<1>1. Len(queue') = 0 /\ 1..0 = {}
    OBVIOUS
<1>2. \A t \in Task : life'[t] = IF t \in Queued THEN "removed" ELSE life[t]
    BY DEF DropQueued, Queued
<1>3. \A t \in Queued : life[t] = "pooled"
    BY DEF Queued, BoardInv, QueuedOnce
<1>4. Holders' = Holders /\ Claimed' = Claimed
    BY DEF Holders, Claimed
<1>5. Queued' = {}
    BY <1>1 DEF Queued
<1>6. QueuedOnce' /\ FixedInv'
    BY <1>1 DEF BoardInv, QueuedOnce, FixedInv
<1>7. HeldOnce'
    BY <1>2, <1>4, <1>5, BoardTypes DEF BoardInv, HeldOnce
<1>8. ResizeKeepsTasks'
    BY <1>2 DEF BoardInv, ResizeKeepsTasks, Held
<1>9. Ended' = Ended
    BY <1>2, <1>3 DEF Ended
<1> QED
    BY <1>4, <1>6, <1>7, <1>8, <1>9 DEF BoardInv

(* A step that touches neither the queue nor what the threads have.        *)
LEMMA NothingMoved ==
    ASSUME BoardInv, UNCHANGED <<queue, life, gen, size, pc, elem, alive>>
    PROVE  BoardInv' /\ Claimed' = Claimed /\ Ended' = Ended
BY DEF BoardInv, FixedInv, QueuedOnce, HeldOnce, ResizeKeepsTasks, Holders, Queued,
       Held, Claimed, Ended

LEMMA OwnerBoard ==
    ASSUME NoResize, PoolInv, BoardInv, OwnerStep
    PROVE  BoardInv' /\ BoardStep
<1>1. CASE AbortAllTasks
  <2>1. BoardInv' /\ Claimed' = Claimed /\ Ended' = Ended
    BY <1>1, QueueDropped DEF AbortAllTasks, workerVars, ownerVars
  <2>2. Board!Discard
    BY <1>1, <2>1 DEF AbortAllTasks, ownerVars, Board!Discard
  <2> QED
    BY <2>1, <2>2 DEF BoardStep, Board!Next
<1>2. CASE Destroy
  <2>1. BoardInv' /\ Claimed' = Claimed /\ Ended' = Ended
    BY <1>2, QueueDropped DEF Destroy
  <2>2. Board!Close
    BY <1>2, <2>1 DEF Destroy, Board!Close
  <2> QED
    BY <2>1, <2>2 DEF BoardStep, Board!Next
<1>3. CASE BatchBegin \/ BatchEnd
  <2>1. BoardInv' /\ Claimed' = Claimed /\ Ended' = Ended
    BY <1>3, NothingMoved DEF BatchBegin, BatchEnd, workerVars, ownerVars
  <2>2. UNCHANGED <<queue, taskAdded, alive>>
    BY <1>3 DEF BatchBegin, BatchEnd, ownerVars
  <2> QED
    BY <2>1, <2>2 DEF BoardStep, Board!vars
<1>4. ASSUME NEW n \in Sizes, SetConcurrentThreads(n) PROVE FALSE
    BY <1>4 DEF NoResize
<1>5. CASE CancelSchedule \/ ApplyRequest
    BY <1>5, Unresized DEF CancelSchedule, ApplyRequest
<1> QED
    BY <1>1, <1>2, <1>3, <1>4, <1>5, AddTaskBoard DEF OwnerStep

-----------------------------------------------------------------------------
(* The threads' steps. *)

(* Nothing that TaskBoard sees has changed.                                *)
LEMMA Unseen ==
    ASSUME Claimed' = Claimed, Ended' = Ended, UNCHANGED <<queue, taskAdded, alive>>
    PROVE  BoardStep
BY DEF BoardStep, Board!vars

(* While the pool lives, no more threads are counted than it has.          *)
LEMMA WorkingBound ==
    ASSUME NoResize, PoolInv, BoardInv, alive
    PROVE  /\ working = Cardinality(Counted) /\ working \in Nat
           /\ working <= InitSize /\ InitSize \in Nat
<1>1. gen = 1 /\ size[gen] = InitSize /\ gen \in Gen
    BY Unresized DEF PoolInv, TypeOK
<1>2. Counted \in SUBSET Threads
  <2>1. \A w \in Counted : w \in Worker /\ pc[w] # "none" /\ w[1] \in Nat \ {0}
    BY DEF Counted, CountedPlace, Worker, Gen
  <2>2. \A w \in Counted : w[1] = gen /\ w[2] <= size[gen]
    BY <1>1, <2>1 DEF PoolInv, GenerationInv
  <2> QED
    BY <2>1, <2>2 DEF Threads
<1>3. Cardinality(Counted) <= Cardinality(Threads)
    BY <1>2, ThreadsCount, FS_Subset
<1>4. working = Cardinality(Counted) /\ working \in Nat
    BY CountedFinite, WorkerFinite DEF PoolInv, WorkingCountExact
<1> QED
    BY <1>1, <1>3, <1>4, ThreadsCount

(* A thread about to fetch leaves room for its task.                       *)
LEMMA RoomToClaim ==
    ASSUME NoResize, PoolInv, BoardInv, alive, NEW w \in Worker, pc[w] = "fetch"
    PROVE  Cardinality(Claimed) < InitSize
<1>1. w \in Counted
    BY DEF Counted, CountedPlace
<1>2. Holders \in SUBSET (Counted \ {w})
    BY DEF Holders, HeldPlace, Counted, CountedPlace
<1>3. /\ IsFiniteSet(Counted \ {w})
      /\ Cardinality(Counted \ {w}) = Cardinality(Counted) - 1
    BY <1>1, CountedFinite, FS_RemoveElement
<1>4. IsFiniteSet(Holders) /\ Cardinality(Holders) <= Cardinality(Counted) - 1
    BY <1>2, <1>3, FS_Subset
<1> DEFINE f == [v \in Holders |-> elem[v]]
<1>5. f \in Surjection(Holders, Claimed)
    BY DEF Surjection, Claimed, Holders, HeldPlace
<1>6. IsFiniteSet(Claimed) /\ Cardinality(Claimed) <= Cardinality(Holders)
    BY <1>4, <1>5, FS_Surjection
<1> QED
    BY <1>4, <1>6, WorkingBound, FS_CardinalityType

LEMMA FetchBoard ==
    ASSUME NoResize, PoolInv, BoardInv, NEW w \in Worker, Fetch(w)
    PROVE  BoardInv' /\ BoardStep
<1>1. /\ pc[w] = "fetch" /\ alive /\ Go(w, "publish") /\ w \notin Holders
      /\ UNCHANGED <<taskAdded, life, gen, size, alive>>
    BY DEF Fetch, At, Holders, HeldPlace, ownerVars
<1>2. CASE queue = <<>> /\ elem' = [elem EXCEPT ![w] = NoTask] /\ UNCHANGED queue
  <2>1. elem'[w] = NoTask
    BY <1>2, BoardTypes
  <2>2. BoardInv' /\ Claimed' = Claimed /\ Ended' = Ended
    BY <1>1, <1>2, <2>1, EmptyHanded
  <2> QED
    BY <1>1, <1>2, <2>2, Unseen
<1>3. CASE /\ queue # <<>> /\ elem' = [elem EXCEPT ![w] = Head(queue)]
           /\ queue' = Tail(queue)
  <2>a. Head(queue) \in Task /\ Head(queue) = queue[1] /\ Len(queue) \in Nat \ {0}
    BY <1>3, BoardTypes
  <2> PICK t \in Task, n \in Nat \ {0} : t = Head(queue) /\ t = queue[1] /\ n = Len(queue)
    BY <2>a
  <2>1. /\ Len(queue') = n - 1 /\ 1 \in 1..n
        /\ \A i \in 1..(n - 1) : i + 1 \in 1..n /\ i + 1 # 1 /\ queue'[i] = queue[i + 1]
        /\ \A j \in 1..n : j # 1 => j - 1 \in 1..(n - 1) /\ (j - 1) + 1 = j
    BY <1>3, BoardTypes
  <2>2. t \in Queued /\ life[t] = "pooled"
    BY <2>1 DEF Queued, BoardInv, QueuedOnce
  <2>3. t \notin Queued' /\ Queued = Queued' \cup {t}
    <3>1. \A i \in 1..(n - 1) : queue[i + 1] # t
        BY <2>1 DEF BoardInv, QueuedOnce
    <3>2. Queued' = {queue'[i] : i \in 1..(n - 1)} /\ Queued = {queue[i] : i \in 1..n}
        BY <2>1 DEF Queued
    <3>3. \A j \in 1..n : queue[j] = t \/ queue[j] \in Queued'
      <4>1. \A j \in 1..n : j # 1 => queue[j] = queue'[j - 1]
        BY <2>1
      <4> QED
        BY <2>1, <3>2, <4>1
    <3>4. Queued' \subseteq Queued
        BY <2>1, <3>2
    <3>5. t \notin Queued'
        BY <2>1, <3>1, <3>2
    <3>6. \A u \in Queued : u = t \/ u \in Queued'
        BY <3>2, <3>3
    <3> QED
        BY <2>2, <3>4, <3>5, <3>6
  <2>4. /\ elem'[w] = t /\ pc'[w] = "publish"
        /\ \A v \in Worker : v # w => pc'[v] = pc[v] /\ elem'[v] = elem[v]
    BY <1>1, <1>3, BoardTypes DEF Go
  <2>5. t # NoTask
    BY TaskAssumption
  <2>6. Holders' = Holders \cup {w}
    BY <1>1, <2>4, <2>5 DEF Holders, HeldPlace
  <2>7. \A v \in Holders : v \in Worker /\ v # w /\ elem'[v] = elem[v]
    BY <1>1, <2>4 DEF Holders
  <2>8. Claimed' = Claimed \cup {t}
    <3>1. Claimed' = {elem'[v] : v \in Holders'} /\ Claimed = {elem[v] : v \in Holders}
        BY DEF Claimed, Holders, HeldPlace
    <3> QED
        BY <2>4, <2>6, <2>7, <3>1
  <2>9. QueuedOnce' /\ FixedInv'
    <3>1. \A i, j \in 1..(n - 1) : i + 1 = j + 1 => i = j
        BY <2>1
    <3>2. \A i, j \in 1..(n - 1) : queue'[i] = queue'[j] => i = j
        BY <2>1, <3>1 DEF BoardInv, QueuedOnce
    <3>3. \A i \in 1..(n - 1) : life[queue'[i]] = "pooled"
        BY <2>1 DEF BoardInv, QueuedOnce
    <3>4. QueuedOnce'
        BY <1>1, <2>1, <3>2, <3>3 DEF QueuedOnce
    <3> QED
        BY <1>1, <3>4 DEF BoardInv, FixedInv
  <2>10. HeldOnce'
    <3>1. \A v \in Holders' : life[elem'[v]] = "pooled" /\ elem'[v] \notin Queued'
        BY <2>2, <2>3, <2>4, <2>6, <2>7 DEF BoardInv, HeldOnce
    <3>2. \A v \in Holders : elem[v] # t
        BY <2>2 DEF BoardInv, HeldOnce
    <3>3. \A u, v \in Holders' : elem'[u] = elem'[v] => u = v
        BY <2>4, <2>6, <2>7, <3>2 DEF BoardInv, HeldOnce
    <3>4. \A v \in Worker : pc'[v] \in {"guard", "exec"} => elem'[v] # NoTask
        BY <2>4 DEF BoardInv, HeldOnce
    <3> QED
        BY <1>1, <3>1, <3>3, <3>4 DEF HeldOnce
  <2>11. ResizeKeepsTasks'
    <3>1. \A u \in Task : Held(u) => Held(u)'
        BY <1>1, <2>4 DEF Held
    <3>2. Held(t)'
        BY <2>4 DEF Held
    <3> QED
        BY <1>1, <2>3, <3>1, <3>2 DEF BoardInv, ResizeKeepsTasks
  <2>12. Ended' = Ended
    BY <1>1 DEF Ended
  <2>13. Board!Claim
    <3>1. Cardinality(Claimed) < InitSize
        BY <1>1, RoomToClaim
    <3>2. Claimed' = Claimed \cup {Head(queue)}
        BY <2>8
    <3>3. Board!Cardinality(Claimed) = Cardinality(Claimed)
        BY DEF Board!Cardinality, Cardinality
    <3> QED
        BY <1>1, <1>3, <2>12, <3>1, <3>2, <3>3 DEF Board!Claim
  <2> QED
    BY <2>9, <2>10, <2>11, <2>13 DEF BoardInv, BoardStep, Board!Next
<1> QED
    BY <1>2, <1>3 DEF Fetch

LEMMA WaitingThreadBoard ==
    ASSUME NoResize, PoolInv, BoardInv, NEW w \in Worker, pc[w] \in {"park", "leave"},
           NEW p \in {"wait", "gone"}, WaitingThread(w, p)
    PROVE  BoardInv' /\ BoardStep
<1>1. schedule = 0
    BY Unresized
<1>2. /\ Go(w, p) /\ alive
      /\ UNCHANGED <<queue, life, gen, size, alive, elem>>
      /\ taskAdded' = taskAdded \/ (LastIsIdle /\ taskAdded' = FALSE)
    BY <1>1 DEF WaitingThread, ownerVars
<1>3. w \notin Holders
    BY DEF Holders, HeldPlace
<1>4. BoardInv' /\ Claimed' = Claimed /\ Ended' = Ended
    BY <1>2, <1>3, EmptyHanded
<1>5. CASE taskAdded' = taskAdded
    BY <1>2, <1>4, <1>5, Unseen
<1>6. CASE taskAdded' # taskAdded
  <2>1. LastIsIdle /\ taskAdded' = FALSE /\ taskAdded \in BOOLEAN
    BY <1>2, <1>6 DEF PoolInv, TypeOK
  <2>2. queue = <<>> /\ working - 1 <= 0
    BY <2>1 DEF LastIsIdle
  <2>3. w \in Counted
    BY DEF Counted, CountedPlace
  <2>4. IsFiniteSet(Counted \ {w}) /\ Cardinality(Counted \ {w}) = 0
    <3>1. IsFiniteSet(Counted \ {w}) /\ Cardinality(Counted \ {w}) = Cardinality(Counted) - 1
        BY <2>3, CountedFinite, FS_RemoveElement
    <3>2. Cardinality(Counted \ {w}) \in Nat
        BY <3>1, FS_CardinalityType
    <3> QED
        BY <1>2, <2>2, <3>1, <3>2, WorkingBound
  <2>5. Holders \subseteq Counted \ {w}
    BY <1>3 DEF Holders, HeldPlace, Counted, CountedPlace
  <2>6. Holders = {}
    BY <2>4, <2>5, FS_EmptySet
  <2>7. Claimed = {}
    BY <2>6 DEF Claimed, Holders, HeldPlace
  <2>8. taskAdded
    BY <1>6, <2>1
  <2>9. Board!Announce
    BY <1>2, <1>4, <2>1, <2>2, <2>7, <2>8 DEF Board!Announce
  <2> QED
    BY <1>4, <2>9 DEF BoardStep, Board!Next
<1> QED
    BY <1>5, <1>6

LEMMA WorkerBoard ==
    ASSUME NoResize, PoolInv, BoardInv, NEW w \in Worker, WorkerStep(w)
    PROVE  BoardInv' /\ BoardStep
<1> USE DEF At, HeldPlace
<1>1. CASE Check(w)
  <2>1. PICK p \in {"gone", "enter"} : Go(w, p)
    BY <1>1 DEF Check
  <2>2. BoardInv' /\ Claimed' = Claimed /\ Ended' = Ended
    BY <1>1, <2>1, EmptyHanded DEF Check, Holders, poolVars, ownerVars
  <2> QED
    BY <1>1, <2>2, Unseen DEF Check, poolVars, ownerVars
<1>2. CASE Enter(w)
  <2>1. BoardInv' /\ Claimed' = Claimed /\ Ended' = Ended
    BY <1>2, EmptyHanded DEF Enter, Holders, ownerVars
  <2> QED
    BY <1>2, <2>1, Unseen DEF Enter, ownerVars
<1>3. CASE Publish(w)
  <2>1. /\ pc[w] = "publish" /\ UNCHANGED <<queue, taskAdded, life, gen, size, alive, elem>>
        /\ Go(w, IF elem[w] = NoTask THEN "loop" ELSE "guard")
    BY <1>3 DEF Publish, poolVars, ownerVars
  <2>2. CASE elem[w] = NoTask
    <3>1. w \notin Holders /\ Go(w, "loop")
        BY <2>1, <2>2 DEF Holders
    <3>2. BoardInv' /\ Claimed' = Claimed /\ Ended' = Ended
        BY <2>1, <3>1, EmptyHanded
    <3> QED
        BY <2>1, <3>2, Unseen
  <2>3. CASE elem[w] # NoTask
    <3>1. w \in Holders /\ Go(w, "guard")
        BY <2>1, <2>3 DEF Holders
    <3>2. BoardInv' /\ Claimed' = Claimed /\ Ended' = Ended
        BY <2>1, <3>1, TaskInHand
    <3> QED
        BY <2>1, <3>2, Unseen
  <2> QED
    BY <2>2, <2>3
<1>4. CASE Guard(w)
  <2>1. /\ pc[w] = "guard" /\ UNCHANGED <<queue, taskAdded, life, gen, size, alive, elem>>
        /\ Go(w, IF aborted[w] THEN "loop" ELSE "exec")
    BY <1>4 DEF Guard, poolVars, ownerVars
  <2>2. w \in Holders
    BY <2>1 DEF Holders, BoardInv, HeldOnce
  <2>3. CASE aborted[w]
    <3>1. ~alive
        BY <2>3, Unresized
    <3>2. BoardInv' /\ elem[w] \in Claimed /\ Claimed' = Claimed \ {elem[w]}
        BY <2>1, <2>2, <2>3, <3>1, TaskLeaves
    <3>3. Ended' = Ended /\ elem[w] \in Task
        BY <2>1, <2>2, BoardTypes DEF Ended
    <3>4. Board!GiveUp(elem[w])
        BY <2>1, <3>1, <3>2, <3>3 DEF Board!GiveUp
    <3> QED
        BY <3>2, <3>3, <3>4 DEF BoardStep, Board!Next
  <2>4. CASE ~aborted[w]
    <3>1. BoardInv' /\ Claimed' = Claimed /\ Ended' = Ended
        BY <2>1, <2>2, <2>4, TaskInHand
    <3> QED
        BY <2>1, <3>1, Unseen
  <2> QED
    BY <2>3, <2>4
<1>5. CASE Finish(w)
  <2>1. /\ pc[w] = "exec" /\ UNCHANGED <<queue, taskAdded, gen, size, alive>>
        /\ Go(w, "loop") /\ life' = [life EXCEPT ![elem[w]] = "ended"]
        /\ elem' = [elem EXCEPT ![w] = NoTask]
    BY <1>5 DEF Finish, poolVars, ownerVars
  <2>2. w \in Holders
    BY <2>1 DEF Holders, BoardInv, HeldOnce
  <2>3. BoardInv' /\ elem[w] \in Claimed /\ Claimed' = Claimed \ {elem[w]}
    BY <2>1, <2>2, TaskLeaves
  <2>4. elem[w] \in Task /\ Ended' = Ended \cup {elem[w]}
    BY <2>1, <2>2, BoardTypes DEF Ended
  <2>5. Board!Complete(elem[w])
    BY <2>1, <2>3, <2>4 DEF Board!Complete
  <2> QED
    BY <2>3, <2>4, <2>5 DEF BoardStep, Board!Next
<1>6. CASE Loop(w)
  <2>1. PICK p \in {"leave", "park"} : Go(w, p)
    BY <1>6 DEF Loop
  <2>2. BoardInv' /\ Claimed' = Claimed /\ Ended' = Ended
    BY <1>6, <2>1, EmptyHanded DEF Loop, Holders, poolVars, ownerVars
  <2> QED
    BY <1>6, <2>2, Unseen DEF Loop, poolVars, ownerVars
<1>7. CASE Park(w) \/ Leave(w)
    BY <1>7, WaitingThreadBoard DEF Park, Leave
<1>8. CASE Wait(w)
  <2>1. BoardInv' /\ Claimed' = Claimed /\ Ended' = Ended
    BY <1>8, EmptyHanded DEF Wait, Holders, ownerVars
  <2> QED
    BY <1>8, <2>1, Unseen DEF Wait, ownerVars
<1>9. CASE CallDestroyed(w)
  <2>1. BoardInv' /\ Claimed' = Claimed /\ Ended' = Ended
    BY <1>9, EmptyHanded DEF CallDestroyed, Holders, poolVars, ownerVars
  <2> QED
    BY <1>9, <2>1, Unseen DEF CallDestroyed, poolVars, ownerVars
<1> QED
    BY <1>1, <1>2, <1>3, <1>4, <1>5, <1>6, <1>7, <1>8, <1>9, FetchBoard DEF WorkerStep

-----------------------------------------------------------------------------

LEMMA BoardInit == Init => BoardInv /\ Board!Init
<1> SUFFICES ASSUME Init PROVE BoardInv /\ Board!Init
    OBVIOUS
<1>1. Len(queue) = 0 /\ 1..0 = {} /\ queue = <<>>
    BY DEF Init
<1>2. Holders = {} /\ Claimed = {} /\ Ended = {}
    BY DEF Init, Holders, Claimed, Ended
<1>3. FixedInv
    BY SizeAssumption DEF Init, FixedInv, Gen
<1>4. QueuedOnce
    BY <1>1 DEF QueuedOnce
<1>5. HeldOnce
    BY <1>2 DEF Init, HeldOnce
<1>6. ResizeKeepsTasks
    BY DEF Init, ResizeKeepsTasks
<1> QED
    BY <1>1, <1>2, <1>3, <1>4, <1>5, <1>6 DEF BoardInv, Board!Init, Init

LEMMA BoardNext ==
    ASSUME NoResize, PoolInv, BoardInv, [Next]_vars
    PROVE  BoardInv' /\ BoardStep
<1>1. CASE UNCHANGED vars
  <2>1. UNCHANGED <<queue, life, gen, size, pc, elem, alive, taskAdded>>
    BY <1>1 DEF vars, poolVars, workerVars, ownerVars
  <2> QED
    BY <2>1, NothingMoved, Unseen
<1> QED
    BY <1>1, OwnerBoard, WorkerBoard DEF Next

(* PoolInv and BoardInv hold together in a pool that is never resized.     *)
THEOREM BoardInvariant == ASSUME NoResize PROVE Spec => [](PoolInv /\ BoardInv)
<1>1. PoolInv /\ BoardInv /\ [Next]_vars => BoardInv'
    BY BoardNext
<1>2. Init => BoardInv
    BY BoardInit
<1> QED
    BY <1>1, <1>2, PoolInvariant, PTL DEF Spec

(* A pool of InitSize threads that is never resized does what TaskBoard    *)
(* promises: what cbThreadPool does with threads, posts and counters, its  *)
(* client sees as tasks claimed in order and the announcement made when    *)
(* they are done.                                                          *)
THEOREM PoolImplementsTaskBoard == ASSUME NoResize PROVE Spec => ImplementsTaskBoard
<1>1. PoolInv /\ BoardInv /\ [Next]_vars => [Board!Next]_(Board!vars)
    BY BoardNext DEF BoardStep
<1>2. Init => Board!Init
    BY BoardInit
<1> QED
    BY <1>1, <1>2, BoardInvariant, PTL DEF Spec, ImplementsTaskBoard, Board!Spec

(* No task is lost between the queue and the hands of a thread, and so     *)
(* when cbEVT_THREADTASK_ALLDONE is posted no task is left in the pool.    *)
THEOREM AnnouncedWhenDone == ASSUME NoResize PROVE Spec => AllDoneMeansDone
<1>1. ASSUME PoolInv, BoardInv, [Next]_vars, taskAdded, ~taskAdded'
      PROVE  \A t \in Task : life[t] # "pooled"
  <2>1. Board!Announce
    BY <1>1, BoardNext DEF BoardStep, Board!Next, Board!vars, Board!Add, Board!Complete,
           Board!GiveUp, Board!Claim, Board!Discard, Board!Close
  <2>2. alive /\ queue = <<>> /\ Claimed = {}
    BY <2>1 DEF Board!Announce
  <2>3. Queued = {}
    BY <2>2 DEF Queued
  <2>4. \A t \in Task : ~Held(t)
    BY <2>2, TaskAssumption DEF Held, Claimed
  <2> QED
    BY <1>1, <2>2, <2>3, <2>4 DEF BoardInv, ResizeKeepsTasks
<1>2. PoolInv /\ BoardInv /\ [Next]_vars =>
          [taskAdded /\ ~taskAdded' => \A t \in Task : life[t] # "pooled"]_vars
    BY <1>1
<1> QED
    BY <1>2, BoardInvariant, PTL DEF Spec, AllDoneMeansDone

(* m_workingThreads stays within m_concurrentThreads, so that the idle     *)
(* threads AwakeNeeded and Broadcast compute are never a huge number.      *)
THEOREM WorkingThreadsWithinPool == ASSUME NoResize PROVE Spec => []WorkingWithinPool
<1>1. PoolInv /\ BoardInv => WorkingWithinPool
    BY WorkingBound, Unresized DEF WorkingWithinPool, concurrent
<1> QED
    BY <1>1, BoardInvariant, PTL

(* A task that is in the pool of a living pool is in its queue or in the   *)
(* hands of one of its threads.                                            *)
THEOREM NoTaskLost == ASSUME NoResize PROVE Spec => []ResizeKeepsTasks
<1>1. PoolInv /\ BoardInv => ResizeKeepsTasks
    BY DEF BoardInv
<1> QED
    BY <1>1, BoardInvariant, PTL

===============================================================================
