--------------------------- MODULE ThreadPool_proofs ---------------------------
(***************************************************************************)
(* Proofs about ThreadPool for every number of tasks, threads and resizes: *)
(* the inductive invariant PoolInv and what follows from it.               *)
(***************************************************************************)
EXTENDS ThreadPool, FiniteSetTheorems, TLAPS

(* The workers are finitely many, so the counted ones can be counted.      *)
LEMMA WorkerFinite ==
    /\ IsFiniteSet(Worker)
    /\ Cardinality(Worker) \in Nat
<1>1. IsFiniteSet(Gen) /\ IsFiniteSet(1..MaxSize)
    BY FS_Interval, SizeAssumption DEF Gen
<1>2. IsFiniteSet(Worker)
    BY <1>1, FS_Product DEF Worker
<1> QED
    BY <1>2, FS_CardinalityType

(* Every set of counted threads is finite and no larger than Worker.       *)
LEMMA CountedFinite ==
    /\ IsFiniteSet(Counted)
    /\ Cardinality(Counted) \in 0..Cardinality(Worker)
<1>1. Counted \in SUBSET Worker
    BY DEF Counted
<1> QED
    BY <1>1, WorkerFinite, FS_Subset, FS_CardinalityType

(* A thread that moves between two counted places, or between two others,  *)
(* changes nothing.                                                        *)
LEMMA CountedStays ==
    ASSUME TypeOK, NEW w \in Worker, NEW p, Go(w, p),
           pc[w] \in CountedPlace <=> p \in CountedPlace
    PROVE  Counted' = Counted
BY DEF TypeOK, Go, Counted

(* A thread that calls WorkingThread becomes counted.                      *)
LEMMA CountedJoins ==
    ASSUME TypeOK, NEW w \in Worker, NEW p, Go(w, p),
           pc[w] \notin CountedPlace, p \in CountedPlace
    PROVE  /\ Counted' = Counted \cup {w}
           /\ Cardinality(Counted') = Cardinality(Counted) + 1
           /\ Cardinality(Counted') \in 0..Cardinality(Worker)
<1>1. Counted' = Counted \cup {w} /\ w \notin Counted
    BY DEF TypeOK, Go, Counted
<1>2. Cardinality(Counted') = Cardinality(Counted) + 1
    BY <1>1, CountedFinite, FS_AddElement
<1>3. Counted' \in SUBSET Worker
    BY <1>1 DEF Counted
<1>4. Cardinality(Counted') \in 0..Cardinality(Worker)
    BY <1>3, WorkerFinite, FS_Subset, FS_CardinalityType
<1> QED
    BY <1>1, <1>2, <1>4

(* A thread that calls WaitingThread is no longer counted.                 *)
LEMMA CountedLeaves ==
    ASSUME TypeOK, NEW w \in Worker, NEW p, Go(w, p),
           pc[w] \in CountedPlace, p \notin CountedPlace
    PROVE  /\ Counted' = Counted \ {w}
           /\ Cardinality(Counted') = Cardinality(Counted) - 1
           /\ Cardinality(Counted') \in 0..Cardinality(Worker)
<1>1. Counted' = Counted \ {w} /\ w \in Counted
    BY DEF TypeOK, Go, Counted
<1>2. Cardinality(Counted') = Cardinality(Counted) - 1
    BY <1>1, CountedFinite, FS_RemoveElement
<1>3. Cardinality(Counted') \in Nat
    BY <1>1, CountedFinite, FS_RemoveElement, FS_CardinalityType
<1> QED
    BY <1>1, <1>2, <1>3, CountedFinite, WorkerFinite

(* No thread is counted exactly when m_workingThreads is 0.                *)
LEMMA NoneCounted ==
    Cardinality(Counted) = 0 <=> Counted = {}
BY CountedFinite, FS_EmptySet

(* What Post() leaves in the present semaphore.                            *)
LEMMA PostedFacts ==
    ASSUME TypeOK, NEW n \in Nat
    PROVE  /\ Posted(n) \in [Gen -> 0..MaxSize]
           /\ size[gen] >= 1 /\ n >= 1 => Posted(n)[gen] >= 1
           /\ \A g \in Gen : g # gen => Posted(n)[g] = sem[g]
BY SizeAssumption DEF TypeOK, Posted, Least, concurrent, Gen

(* The number of idle threads is never negative, and it is not zero when   *)
(* no thread is working.                                                   *)
LEMMA IdleFacts ==
    ASSUME TypeOK, NEW busy \in Nat
    PROVE  /\ IdleThreads(busy) \in Nat
           /\ busy < size[gen] => IdleThreads(busy) >= 1
<1>1. SizeT \in Nat \ {0}
    BY DEF SizeT
<1>2. size[gen] \in Nat /\ size[gen] < SizeT
    BY <1>1, SizeAssumption DEF TypeOK, Gen
<1>3. (size[gen] - busy) % SizeT \in 0..(SizeT - 1)
    BY <1>1, <1>2
<1>4. ASSUME busy < size[gen]
      PROVE  (size[gen] - busy) % SizeT = size[gen] - busy
    <2>1. size[gen] - busy \in 1..(SizeT - 1)
        BY <1>1, <1>2, <1>4
    <2> QED
        BY <1>1, <2>1
<1> QED
    BY <1>1, <1>2, <1>3, <1>4 DEF IdleThreads, concurrent

LEMMA AwakeNeededFacts ==
    ASSUME TypeOK, NEW q \in Seq(Task)
    PROVE  /\ AwakeNeeded(q) \in [Gen -> 0..MaxSize]
           /\ size[gen] >= 1 /\ q # <<>> /\ working < size[gen] =>
                  AwakeNeeded(q)[gen] >= 1
<1> DEFINE n == Least(Len(q), IdleThreads(working))
<1>1. working \in Nat
    BY WorkerFinite DEF TypeOK
<1>2. n \in Nat
    BY <1>1, IdleFacts DEF Least
<1>3. q # <<>> /\ working < size[gen] => n >= 1
    BY <1>1, IdleFacts DEF Least
<1> QED
    BY <1>2, <1>3, PostedFacts DEF AwakeNeeded

-----------------------------------------------------------------------------
(* PoolInv holds initially: generation 1 has InitSize >= 1 threads, none   *)
(* of them counted.                                                        *)
LEMMA InitInv == Init => PoolInv
<1> SUFFICES ASSUME Init PROVE PoolInv
    OBVIOUS
<1> USE SizeAssumption
<1>1. Counted = {}
    BY DEF Init, Counted, CountedPlace
<1>2. Cardinality(Counted) = 0
    BY <1>1, FS_EmptySet
<1>3. 1 \in Gen
    BY DEF Gen
<1>4. TypeOK
    <2>1. pc \in [Worker -> Place]
        <3>1. "check" \in Place /\ "none" \in Place
            BY DEF Place
        <3> QED
            BY <3>1 DEF Init
    <2>2. size \in [Gen -> 0..MaxSize] /\ sem \in [Gen -> 0..MaxSize]
        BY DEF Init
    <2>3. working \in 0..Cardinality(Worker)
        BY WorkerFinite DEF Init
    <2>4. /\ aborted \in [Worker -> BOOLEAN]
          /\ elem \in [Worker -> Task \cup {NoTask}]
          /\ task \in [Worker -> Task \cup {NoTask}]
          /\ life \in [Task -> {"new", "pooled", "ended", "removed"}]
        BY DEF Init
    <2>5. batching \in BOOLEAN /\ taskAdded \in BOOLEAN /\ alive \in BOOLEAN
        BY Zenon DEF Init
    <2>6. /\ queue \in Seq(Task) /\ halted \subseteq Task /\ gen \in Gen
          /\ schedule \in {0} \cup Sizes /\ request \in {0} \cup Sizes
          /\ owner \in {"idle", "cancel", "apply"}
        BY <1>3 DEF Init
    <2> QED
        BY <2>1, <2>2, <2>3, <2>4, <2>5, <2>6 DEF TypeOK
<1>5. GenerationInv
    BY <1>3 DEF Init, GenerationInv, Worker
<1>6. AbortInv /\ ResizeInv
    BY <1>3 DEF Init, AbortInv, ResizeInv, Worker, Gen
<1>7. WorkingCountExact /\ WakeupCovers
    BY <1>2 DEF Init, WorkingCountExact, WakeupCovers
<1>8. Executing \subseteq Threads
    BY DEF Init, Executing
<1> QED
    BY <1>4, <1>5, <1>6, <1>7, <1>8 DEF PoolInv

(* The owner's steps. *)

LEMMA AddTaskInv ==
    ASSUME PoolInv, NEW t \in Task, AddTask(t)
    PROVE  PoolInv'
<1> USE DEF PoolInv
<1>1. queue' \in Seq(Task)
    BY DEF AddTask, TypeOK
<1>2. sem' \in [Gen -> 0..MaxSize]
    BY <1>1, AwakeNeededFacts DEF AddTask, TypeOK
<1>3. TypeOK'
    BY <1>1, <1>2 DEF AddTask, TypeOK, workerVars, ownerVars
<1>4. Counted' = Counted /\ Executing' = Executing /\ Threads' = Threads
    BY DEF AddTask, Counted, Executing, Threads, workerVars
<1>5. GenerationInv' /\ AbortInv' /\ ResizeInv'
    BY DEF AddTask, GenerationInv, AbortInv, ResizeInv, workerVars, ownerVars
<1>6. WorkingCountExact'
    BY <1>4 DEF AddTask, WorkingCountExact, ownerVars
<1>7. WakeupCovers'
    <2> SUFFICES ASSUME ~batching PROVE Covered'
        BY DEF AddTask, WakeupCovers
    <2>1. CASE working < size[gen]
        <3>1. queue' # <<>>
            BY DEF AddTask, TypeOK
        <3>2. sem'[gen] >= 1
            BY <1>1, <2>1, <3>1, AwakeNeededFacts
            DEF AddTask, concurrent, GenerationInv
        <3> QED
            BY <3>2, <1>3 DEF AddTask, Covered, TypeOK
    <2>2. CASE ~(working < size[gen])
        <3>0. working \in Nat
            BY WorkerFinite DEF TypeOK
        <3>1. working # 0
            BY <2>2, <3>0 DEF GenerationInv, TypeOK
        <3>2. Counted # {}
            BY <3>1, NoneCounted DEF WorkingCountExact, AddTask
        <3> QED
            BY <3>2, <1>4 DEF Covered
    <2> QED
        BY <2>1, <2>2
<1> QED
    BY <1>3, <1>4, <1>5, <1>6, <1>7

LEMMA HaltedType ==
    ASSUME TypeOK
    PROVE  /\ AbortTasks \subseteq Task
           /\ DropQueued \in [Task -> {"new", "pooled", "ended", "removed"}]
BY DEF TypeOK, AbortTasks, DropQueued, Threads

LEMMA AbortAllTasksInv ==
    ASSUME PoolInv, AbortAllTasks
    PROVE  PoolInv'
<1> USE DEF PoolInv
<1>1. TypeOK'
    BY HaltedType DEF AbortAllTasks, TypeOK, workerVars, ownerVars
<1>2. Counted' = Counted /\ Executing' = Executing /\ Threads' = Threads
    BY DEF AbortAllTasks, Counted, Executing, Threads, workerVars
<1>3. GenerationInv' /\ AbortInv' /\ ResizeInv'
    BY DEF AbortAllTasks, GenerationInv, AbortInv, ResizeInv, workerVars, ownerVars
<1>4. WorkingCountExact' /\ WakeupCovers'
    BY <1>2 DEF AbortAllTasks, WorkingCountExact, WakeupCovers, ownerVars
<1> QED
    BY <1>1, <1>2, <1>3, <1>4

LEMMA BatchBeginInv ==
    ASSUME PoolInv, BatchBegin
    PROVE  PoolInv'
<1> USE DEF PoolInv
<1>1. TypeOK'
    BY DEF BatchBegin, TypeOK, workerVars, ownerVars
<1>2. Counted' = Counted /\ Executing' = Executing /\ Threads' = Threads
    BY DEF BatchBegin, Counted, Executing, Threads, workerVars
<1>3. GenerationInv' /\ AbortInv' /\ ResizeInv'
    BY DEF BatchBegin, GenerationInv, AbortInv, ResizeInv, workerVars, ownerVars
<1>4. WorkingCountExact' /\ WakeupCovers'
    BY <1>2 DEF BatchBegin, WorkingCountExact, WakeupCovers, ownerVars
<1> QED
    BY <1>1, <1>2, <1>3, <1>4

LEMMA BatchEndInv ==
    ASSUME PoolInv, BatchEnd
    PROVE  PoolInv'
<1> USE DEF PoolInv
<1>1. sem' \in [Gen -> 0..MaxSize]
    BY AwakeNeededFacts DEF BatchEnd, TypeOK
<1>2. TypeOK'
    BY <1>1 DEF BatchEnd, TypeOK, workerVars, ownerVars
<1>3. Counted' = Counted /\ Executing' = Executing /\ Threads' = Threads
    BY DEF BatchEnd, Counted, Executing, Threads, workerVars
<1>4. GenerationInv' /\ AbortInv' /\ ResizeInv'
    BY DEF BatchEnd, GenerationInv, AbortInv, ResizeInv, workerVars, ownerVars
<1>5. WorkingCountExact'
    BY <1>3 DEF BatchEnd, WorkingCountExact, ownerVars
<1>6. WakeupCovers'
    <2> SUFFICES ASSUME queue # <<>>, Counted = {} PROVE Covered'
        BY <1>3 DEF BatchEnd, WakeupCovers, Covered
    <2>1. working = 0
        BY NoneCounted DEF BatchEnd, WorkingCountExact
    <2>2. working < size[gen]
        BY <2>1 DEF GenerationInv, TypeOK
    <2>3. sem'[gen] >= 1
        BY <2>2, AwakeNeededFacts DEF BatchEnd, GenerationInv, TypeOK
    <2> QED
        BY <2>3, <1>2 DEF BatchEnd, Covered, TypeOK
<1> QED
    BY <1>2, <1>3, <1>4, <1>5, <1>6

LEMMA SetConcurrentThreadsInv ==
    ASSUME PoolInv, NEW n \in Sizes, SetConcurrentThreads(n)
    PROVE  PoolInv'
<1> USE DEF PoolInv
<1>1. TypeOK'
    BY DEF SetConcurrentThreads, TypeOK, poolVars, workerVars
<1>2. Counted' = Counted /\ Executing' = Executing /\ Threads' = Threads
    BY DEF SetConcurrentThreads, Counted, Executing, Threads, poolVars, workerVars
<1>3. GenerationInv' /\ AbortInv'
    BY DEF SetConcurrentThreads, GenerationInv, AbortInv, poolVars, workerVars
<1>4. ResizeInv'
    BY DEF SetConcurrentThreads, ResizeInv, poolVars
<1>5. WorkingCountExact' /\ WakeupCovers'
    BY <1>2 DEF SetConcurrentThreads, WorkingCountExact, WakeupCovers, Covered,
                poolVars, workerVars
<1> QED
    BY <1>1, <1>2, <1>3, <1>4, <1>5

LEMMA CancelScheduleInv ==
    ASSUME PoolInv, CancelSchedule
    PROVE  PoolInv'
<1> USE DEF PoolInv
<1>1. TypeOK'
    BY DEF CancelSchedule, TypeOK, workerVars
<1>2. Counted' = Counted /\ Executing' = Executing /\ Threads' = Threads
    BY DEF CancelSchedule, Counted, Executing, Threads, workerVars
<1>3. GenerationInv' /\ AbortInv' /\ ResizeInv'
    BY DEF CancelSchedule, GenerationInv, AbortInv, ResizeInv, workerVars
<1>4. WorkingCountExact' /\ WakeupCovers'
    BY <1>2 DEF CancelSchedule, WorkingCountExact, WakeupCovers, Covered, workerVars
<1> QED
    BY <1>1, <1>2, <1>3, <1>4

(* What a replacement does to the threads, for the two places that make    *)
(* one: p is where the threads are when the new ones are created.          *)
LEMMA ReplaceFacts ==
    ASSUME PoolInv, alive, gen < MaxGen, NEW n \in Sizes,
           NEW p \in [Worker -> Place],
           \A w \in Worker : p[w] \notin CountedPlace,
           \A w \in Worker : pc[w] = "none" => p[w] = "none",
           Replace(n, p)
    PROVE  /\ gen' \in Gen /\ schedule' = 0
           /\ size' \in [Gen -> 0..MaxSize] /\ sem' \in [Gen -> 0..MaxSize]
           /\ pc' \in [Worker -> Place] /\ aborted' \in [Worker -> BOOLEAN]
           /\ halted' \subseteq Task
           /\ GenerationInv'
           /\ \A w \in Worker : w[1] < gen' /\ pc'[w] # "none" => aborted'[w]
           /\ \A w \in Worker : w[1] >= gen' => ~aborted'[w]
           /\ Counted' = {} /\ Executing' = {}
           /\ \E w \in Threads' : pc'[w] = "check"
<1> USE DEF PoolInv
<1>1. gen \in Nat /\ gen' = gen + 1 /\ gen' \in Gen /\ gen + 1 # gen
    BY SizeAssumption DEF Replace, TypeOK, Gen
<1>2. n \in 1..MaxSize /\ MaxSize \in Nat
    BY SizeAssumption
<1>3. size' \in [Gen -> 0..MaxSize] /\ size'[gen'] = n
    BY <1>1, <1>2 DEF Replace, TypeOK
<1>4. sem' \in [Gen -> 0..MaxSize]
    BY IdleFacts, PostedFacts DEF Replace, Broadcast
<1>5. pc' \in [Worker -> Place]
    <2>1. "check" \in Place
        BY DEF Place
    <2> QED
        BY <2>1 DEF Replace
<1>6. halted' \subseteq Task
    BY HaltedType DEF Replace
<1>7. aborted' = [w \in Worker |-> aborted[w] \/ w \in Threads]
    BY DEF Replace
<1>8. aborted' \in [Worker -> BOOLEAN]
    BY <1>7, Zenon DEF TypeOK
<1>9. \A w \in Worker : w[1] \in Nat /\ w[2] \in Nat
    BY SizeAssumption DEF Worker, Gen
<1>10. ASSUME NEW w \in Worker, pc'[w] # "none"
       PROVE  \/ w[1] = gen' /\ w[2] <= n
              \/ w[1] <= gen /\ w[2] <= size[w[1]] /\ pc[w] # "none"
    BY <1>1, <1>10 DEF Replace, GenerationInv
<1>11. \A w \in Worker : w[1] <= gen => size'[w[1]] = size[w[1]]
    BY <1>1, <1>9 DEF Replace, TypeOK, Gen
<1>12. GenerationInv'
    BY <1>1, <1>2, <1>3, <1>9, <1>10, <1>11 DEF GenerationInv
<1>13. ASSUME NEW w \in Worker, w[1] < gen', pc'[w] # "none"
       PROVE  aborted'[w]
    <2>1. w[1] <= gen /\ w[2] <= size[w[1]] /\ pc[w] # "none"
        BY <1>1, <1>9, <1>10, <1>13
    <2>2. w \in Threads \/ w[1] < gen
        BY <1>1, <1>9, <2>1 DEF Threads
    <2> QED
        BY <1>7, <2>1, <2>2 DEF AbortInv
<1>14. ASSUME NEW w \in Worker, w[1] >= gen'
       PROVE  ~aborted'[w]
    <2>1. w[1] >= gen /\ w \notin Threads
        BY <1>1, <1>9, <1>14 DEF Threads
    <2> QED
        BY <1>7, <2>1 DEF AbortInv
<1>15. \A w \in Worker : pc'[w] = "check" \/ pc'[w] = p[w]
    BY DEF Replace
<1>16. Counted' = {} /\ Executing' = {}
    BY <1>15 DEF Counted, Executing, CountedPlace
<1>17. \E w \in Threads' : pc'[w] = "check"
    <2> DEFINE w == <<gen', 1>>
    <2>1. w \in Worker /\ w[1] = gen' /\ w[2] = 1
        BY <1>1, <1>2 DEF Worker
    <2>2. w \in Threads'
        BY <1>2, <1>3, <2>1 DEF Threads
    <2>3. pc'[w] = "check"
        BY <1>1, <1>2, <2>1 DEF Replace
    <2> QED
        BY <2>2, <2>3
<1> QED
    BY <1>1, <1>3, <1>4, <1>5, <1>6, <1>8, <1>12, <1>13, <1>14, <1>16, <1>17
    DEF Replace

LEMMA ApplyRequestInv ==
    ASSUME PoolInv, ApplyRequest
    PROVE  PoolInv'
<1> USE DEF PoolInv
<1>1. request \in Sizes /\ gen < MaxGen /\ alive
    BY SizeAssumption DEF ApplyRequest, ResizeInv, TypeOK, Gen
<1>2. CASE working = 0 /\ Replace(request, pc)
    <2>1. Counted = {}
        BY <1>1, <1>2, NoneCounted DEF WorkingCountExact
    <2>2. \A w \in Worker : pc[w] \notin CountedPlace
        BY <2>1 DEF Counted
    <2>3. pc \in [Worker -> Place]
        BY DEF TypeOK
    <2> HIDE DEF PoolInv
    <2>4. /\ gen' \in Gen /\ schedule' = 0
          /\ size' \in [Gen -> 0..MaxSize] /\ sem' \in [Gen -> 0..MaxSize]
          /\ pc' \in [Worker -> Place] /\ aborted' \in [Worker -> BOOLEAN]
          /\ halted' \subseteq Task
          /\ GenerationInv'
          /\ \A w \in Worker : w[1] < gen' /\ pc'[w] # "none" => aborted'[w]
          /\ \A w \in Worker : w[1] >= gen' => ~aborted'[w]
          /\ Counted' = {} /\ Executing' = {}
          /\ \E w \in Threads' : pc'[w] = "check"
        BY <1>1, <1>2, <2>2, <2>3, ReplaceFacts
    <2> USE DEF PoolInv
    <2>5. TypeOK'
        BY <2>4 DEF ApplyRequest, TypeOK
    <2>6. AbortInv' /\ ResizeInv'
        BY <2>4 DEF ApplyRequest, AbortInv, ResizeInv
    <2>7. WorkingCountExact'
        BY <1>2, <2>4, FS_EmptySet DEF ApplyRequest, WorkingCountExact
    <2>8. WakeupCovers'
        BY <2>4 DEF WakeupCovers, Covered
    <2> QED
        BY <2>4, <2>5, <2>6, <2>7, <2>8
<1>3. CASE schedule' = request /\ UNCHANGED <<aborted, halted, sem, gen, size, pc>>
    <2>1. TypeOK'
        BY <1>3 DEF ApplyRequest, TypeOK
    <2>2. Counted' = Counted /\ Executing' = Executing /\ Threads' = Threads
        BY <1>3 DEF Counted, Executing, Threads
    <2>3. GenerationInv' /\ AbortInv'
        BY <1>3 DEF ApplyRequest, GenerationInv, AbortInv
    <2>4. ResizeInv'
        BY <1>1, <1>3 DEF ApplyRequest, ResizeInv
    <2>5. WorkingCountExact' /\ WakeupCovers'
        BY <1>3, <2>2 DEF ApplyRequest, WorkingCountExact, WakeupCovers, Covered
    <2> QED
        BY <2>1, <2>2, <2>3, <2>4, <2>5
<1> QED
    BY <1>2, <1>3 DEF ApplyRequest

LEMMA DestroyInv ==
    ASSUME PoolInv, Destroy
    PROVE  PoolInv'
<1> USE DEF PoolInv
<1>1. sem' \in [Gen -> 0..MaxSize]
    <2>1. working \in Nat
        BY WorkerFinite DEF TypeOK
    <2> QED
        BY <2>1, IdleFacts, PostedFacts DEF Destroy, Broadcast
<1>2. aborted' \in [Worker -> BOOLEAN]
    <2>1. aborted' = [w \in Worker |-> aborted[w] \/ w \in Threads]
        BY DEF Destroy
    <2> QED
        BY <2>1, Zenon DEF TypeOK
<1>3. TypeOK'
    <2>1. alive' \in BOOLEAN
        BY Zenon DEF Destroy
    <2>2. queue' \in Seq(Task) /\ halted' \subseteq Task
        BY HaltedType DEF Destroy
    <2>3. life' \in [Task -> {"new", "pooled", "ended", "removed"}]
        BY HaltedType DEF Destroy
    <2> QED
        BY <1>1, <1>2, <2>1, <2>2, <2>3 DEF Destroy, TypeOK
<1>4. Executing' = Executing /\ Threads' = Threads
    BY DEF Destroy, Executing, Threads
<1>5. GenerationInv' /\ ResizeInv'
    BY DEF Destroy, GenerationInv, ResizeInv
<1>6. AbortInv'
    BY DEF Destroy, AbortInv
<1>7. WorkingCountExact' /\ WakeupCovers'
    BY DEF Destroy, WorkingCountExact, WakeupCovers
<1> QED
    BY <1>3, <1>4, <1>5, <1>6, <1>7

-----------------------------------------------------------------------------
(* The workers' steps. *)

(* What a thread that moves from one place to another leaves alone.  The   *)
(* pool's variables may have changed, except the generations.              *)
LEMMA MoveFacts ==
    ASSUME PoolInv, NEW w \in Worker, NEW p \in Place, Go(w, p),
           pc[w] # "none", p # "none", p # "exec",
           UNCHANGED <<gen, size, aborted, alive>>
    PROVE  /\ pc' \in [Worker -> Place]
           /\ GenerationInv' /\ AbortInv'
           /\ Executing' \subseteq Threads'
           /\ Threads' = Threads
<1> USE DEF PoolInv
<1>1. pc' = [pc EXCEPT ![w] = p] /\ pc \in [Worker -> Place]
    BY DEF Go, TypeOK
<1>2. GenerationInv'
    BY <1>1 DEF GenerationInv
<1>3. AbortInv'
    BY <1>1 DEF AbortInv
<1>4. Threads' = Threads
    BY DEF Threads
<1>5. Executing' \subseteq Executing
    BY <1>1 DEF Executing
<1> QED
    BY <1>1, <1>2, <1>3, <1>4, <1>5

(* A thread of the present generation is one of m_threads.                 *)
LEMMA PresentThread ==
    ASSUME PoolInv, NEW w \in Worker, pc[w] # "none"
    PROVE  w \in Threads \/ w[1] < gen
BY DEF PoolInv, GenerationInv, Threads, TypeOK, Worker, Gen

LEMMA CheckInv ==
    ASSUME PoolInv, NEW w \in Worker, Check(w)
    PROVE  PoolInv'
<1> USE DEF PoolInv
<1> DEFINE p == IF aborted[w] THEN "gone" ELSE "enter"
<1>1. p \in Place /\ p \notin CountedPlace /\ p # "none" /\ p # "exec"
    BY DEF Place, CountedPlace
<1>2. Go(w, p) /\ pc[w] = "check"
    BY DEF Check, At
<1>3. pc' \in [Worker -> Place] /\ GenerationInv' /\ AbortInv'
      /\ Executing' \subseteq Threads' /\ Threads' = Threads
    BY <1>1, <1>2, MoveFacts DEF Check, poolVars, ownerVars
<1>4. TypeOK'
    BY <1>3 DEF Check, TypeOK, poolVars, ownerVars
<1>5. Counted' = Counted
    BY <1>1, <1>2, CountedStays DEF CountedPlace
<1>6. ResizeInv' /\ WorkingCountExact'
    BY <1>5 DEF Check, ResizeInv, WorkingCountExact, poolVars, ownerVars
<1>7. WakeupCovers'
    <2> SUFFICES ASSUME alive, Covered PROVE Covered'
        BY DEF Check, WakeupCovers, poolVars, ownerVars
    <2>1. CASE sem[gen] > 0 \/ Counted # {}
        BY <1>5, <2>1 DEF Check, Covered, poolVars
    <2>2. CASE \E v \in Threads : pc[v] \in {"check", "enter"}
        <3>1. PICK v \in Threads : pc[v] \in {"check", "enter"}
            BY <2>2
        <3>2. v \in Worker /\ ~aborted[v]
            BY DEF Threads, AbortInv, TypeOK, Worker, Gen
        <3>3. pc'[v] \in {"check", "enter"}
            BY <1>2, <3>1, <3>2 DEF Go, TypeOK
        <3> QED
            BY <1>3, <3>3 DEF Covered
    <2> QED
        BY <2>1, <2>2 DEF Covered
<1> QED
    BY <1>3, <1>4, <1>6, <1>7

LEMMA EnterInv ==
    ASSUME PoolInv, NEW w \in Worker, Enter(w)
    PROVE  PoolInv'
<1> USE DEF PoolInv
<1>1. "fetch" \in Place /\ "fetch" \in CountedPlace
    BY DEF Place, CountedPlace
<1>2. Go(w, "fetch") /\ pc[w] = "enter"
    BY DEF Enter, At
<1>3. pc' \in [Worker -> Place] /\ GenerationInv' /\ AbortInv'
      /\ Executing' \subseteq Threads' /\ Threads' = Threads
    BY <1>1, <1>2, MoveFacts DEF Enter, ownerVars
<1>4. /\ Counted' = Counted \cup {w}
      /\ Cardinality(Counted') = Cardinality(Counted) + 1
      /\ Cardinality(Counted') \in 0..Cardinality(Worker)
    BY <1>1, <1>2, CountedJoins DEF CountedPlace
<1>5. working' = Cardinality(Counted')
    BY <1>4 DEF Enter, WorkingCountExact
<1>6. TypeOK'
    BY <1>3, <1>4, <1>5 DEF Enter, TypeOK, ownerVars
<1>7. ResizeInv'
    BY DEF Enter, ResizeInv, ownerVars
<1>8. WorkingCountExact' /\ WakeupCovers'
    BY <1>4, <1>5 DEF WorkingCountExact, WakeupCovers, Covered
<1> QED
    BY <1>3, <1>6, <1>7, <1>8

LEMMA FetchInv ==
    ASSUME PoolInv, NEW w \in Worker, Fetch(w)
    PROVE  PoolInv'
<1> USE DEF PoolInv
<1>1. "publish" \in Place /\ "publish" \in CountedPlace
    BY DEF Place, CountedPlace
<1>2. Go(w, "publish") /\ pc[w] = "fetch"
    BY DEF Fetch, At
<1>3. pc' \in [Worker -> Place] /\ GenerationInv' /\ AbortInv'
      /\ Executing' \subseteq Threads' /\ Threads' = Threads
    BY <1>1, <1>2, MoveFacts DEF Fetch, ownerVars
<1>4. Counted' = Counted /\ w \in Counted
    BY <1>1, <1>2, CountedStays DEF CountedPlace, Counted
<1>5. queue' \in Seq(Task) /\ elem' \in [Worker -> Task \cup {NoTask}]
    <2>1. queue \in Seq(Task) /\ elem \in [Worker -> Task \cup {NoTask}]
        BY DEF TypeOK
    <2>2. queue # <<>> => Head(queue) \in Task /\ Tail(queue) \in Seq(Task)
        BY <2>1
    <2>3. elem' \in [Worker -> Task \cup {NoTask}]
        BY <2>1, <2>2 DEF Fetch
    <2>4. queue' = queue \/ (queue # <<>> /\ queue' = Tail(queue))
        BY DEF Fetch
    <2> QED
        BY <2>1, <2>2, <2>3, <2>4
<1>6. TypeOK'
    BY <1>3, <1>5 DEF Fetch, TypeOK, ownerVars
<1>7. ResizeInv' /\ WorkingCountExact' /\ WakeupCovers'
    BY <1>4 DEF Fetch, ResizeInv, WorkingCountExact, WakeupCovers, Covered, ownerVars
<1> QED
    BY <1>3, <1>6, <1>7

(* The steps of a counted thread that stays counted and leaves the pool's  *)
(* variables alone.                                                        *)
LEMMA CountedStepFacts ==
    ASSUME PoolInv, NEW w \in Worker, NEW p \in CountedPlace, Go(w, p),
           pc[w] \in CountedPlace,
           UNCHANGED <<poolVars, aborted, ownerVars>>
    PROVE  /\ pc' \in [Worker -> Place]
           /\ GenerationInv' /\ AbortInv' /\ ResizeInv'
           /\ WorkingCountExact' /\ WakeupCovers'
           /\ Threads' = Threads
<1> USE DEF PoolInv, poolVars, ownerVars
<1>1. p \in Place /\ p # "none" /\ pc[w] # "none"
    BY DEF Place, CountedPlace
<1>2. pc' = [pc EXCEPT ![w] = p] /\ pc \in [Worker -> Place]
    BY DEF Go, TypeOK
<1>3. Counted' = Counted /\ w \in Counted
    BY CountedStays DEF Counted
<1>4. GenerationInv' /\ AbortInv'
    BY <1>1, <1>2 DEF GenerationInv, AbortInv
<1>5. ResizeInv' /\ WorkingCountExact' /\ WakeupCovers'
    BY <1>3 DEF ResizeInv, WorkingCountExact, WakeupCovers, Covered
<1> QED
    BY <1>1, <1>2, <1>4, <1>5 DEF Threads

LEMMA PublishInv ==
    ASSUME PoolInv, NEW w \in Worker, Publish(w)
    PROVE  PoolInv'
<1> USE DEF PoolInv
<1> DEFINE p == IF elem[w] = NoTask THEN "loop" ELSE "guard"
<1>1. p \in CountedPlace /\ pc[w] \in CountedPlace /\ p # "exec"
    BY DEF CountedPlace, Publish, At
<1>2. Go(w, p)
    BY DEF Publish
<1>3. /\ pc' \in [Worker -> Place]
      /\ GenerationInv' /\ AbortInv' /\ ResizeInv'
      /\ WorkingCountExact' /\ WakeupCovers' /\ Threads' = Threads
    BY <1>1, <1>2, CountedStepFacts DEF Publish
<1>4. Executing' \subseteq Executing
    BY <1>1, <1>2 DEF Go, Executing, TypeOK
<1>5. TypeOK'
    BY <1>3 DEF Publish, TypeOK, poolVars, ownerVars
<1> QED
    BY <1>3, <1>4, <1>5

LEMMA GuardInv ==
    ASSUME PoolInv, NEW w \in Worker, Guard(w)
    PROVE  PoolInv'
<1> USE DEF PoolInv
<1> DEFINE p == IF aborted[w] THEN "loop" ELSE "exec"
<1>1. p \in CountedPlace /\ pc[w] \in CountedPlace
    BY DEF CountedPlace, Guard, At
<1>2. Go(w, p)
    BY DEF Guard
<1>3. /\ pc' \in [Worker -> Place]
      /\ GenerationInv' /\ AbortInv' /\ ResizeInv'
      /\ WorkingCountExact' /\ WakeupCovers' /\ Threads' = Threads
    BY <1>1, <1>2, CountedStepFacts DEF Guard
<1>4. Executing' \subseteq Threads'
    <2>1. ~aborted[w] => w \in Threads
        BY <1>1, PresentThread DEF AbortInv, CountedPlace
    <2>2. Executing' \subseteq Executing \cup (IF aborted[w] THEN {} ELSE {w})
        BY <1>2 DEF Go, Executing, TypeOK
    <2> QED
        BY <1>3, <2>1, <2>2
<1>5. TypeOK'
    BY <1>3 DEF Guard, TypeOK, poolVars, ownerVars
<1> QED
    BY <1>3, <1>4, <1>5

LEMMA FinishInv ==
    ASSUME PoolInv, NEW w \in Worker, Finish(w)
    PROVE  PoolInv'
<1> USE DEF PoolInv
<1>1. "loop" \in CountedPlace /\ pc[w] \in CountedPlace
    BY DEF CountedPlace, Finish, At
<1>2. Go(w, "loop")
    BY DEF Finish
<1>3. /\ pc' \in [Worker -> Place]
      /\ GenerationInv' /\ AbortInv' /\ ResizeInv'
      /\ WorkingCountExact' /\ WakeupCovers' /\ Threads' = Threads
    BY <1>1, <1>2, CountedStepFacts DEF Finish
<1>4. Executing' \subseteq Executing
    BY <1>2 DEF Go, Executing, TypeOK
<1>5. life' \in [Task -> {"new", "pooled", "ended", "removed"}]
    BY DEF Finish, TypeOK
<1>6. TypeOK'
    BY <1>3, <1>5 DEF Finish, TypeOK, poolVars, ownerVars
<1> QED
    BY <1>3, <1>4, <1>6

LEMMA LoopInv ==
    ASSUME PoolInv, NEW w \in Worker, Loop(w)
    PROVE  PoolInv'
<1> USE DEF PoolInv
<1> DEFINE p == IF aborted[w] THEN "leave" ELSE "park"
<1>1. p \in CountedPlace /\ pc[w] \in CountedPlace /\ p # "exec"
    BY DEF CountedPlace, Loop, At
<1>2. Go(w, p)
    BY DEF Loop
<1>3. /\ pc' \in [Worker -> Place]
      /\ GenerationInv' /\ AbortInv' /\ ResizeInv'
      /\ WorkingCountExact' /\ WakeupCovers' /\ Threads' = Threads
    BY <1>1, <1>2, CountedStepFacts DEF Loop
<1>4. Executing' \subseteq Executing
    BY <1>1, <1>2 DEF Go, Executing, TypeOK
<1>5. TypeOK'
    BY <1>3 DEF Loop, TypeOK, poolVars, ownerVars
<1> QED
    BY <1>3, <1>4, <1>5

(* WaitingThread, wherever the thread goes on to.                          *)
LEMMA WaitingThreadInv ==
    ASSUME PoolInv, NEW w \in Worker, pc[w] \in {"park", "leave"},
           NEW p \in {"wait", "gone"}, WaitingThread(w, p)
    PROVE  PoolInv'
<1> USE DEF PoolInv
<1>1. /\ p \in Place /\ p \notin CountedPlace /\ p # "none" /\ p # "exec"
      /\ pc[w] \in CountedPlace /\ pc[w] # "none"
    BY DEF Place, CountedPlace
<1>2. alive /\ alive' = alive /\ owner' = owner /\ request' = request
    BY DEF WaitingThread, ownerVars
<1>3. w \in Counted /\ working = Cardinality(Counted) /\ working \in Nat
    BY <1>1, <1>2, CountedFinite, WorkerFinite
    DEF Counted, WorkingCountExact
<1>4. working # 0
    BY <1>3, NoneCounted
<1>5. CASE ~LastIsIdle /\ sem' = Posted(1) /\ Go(w, p)
           /\ UNCHANGED <<taskAdded, schedule, aborted, halted, gen, size>>
    <2>1. pc' \in [Worker -> Place] /\ GenerationInv' /\ AbortInv'
          /\ Executing' \subseteq Threads' /\ Threads' = Threads
        BY <1>1, <1>2, <1>5, MoveFacts
    <2>2. Cardinality(Counted') = working - 1 /\ working - 1 \in 0..Cardinality(Worker)
        BY <1>1, <1>3, <1>5, CountedLeaves
    <2>3. sem' \in [Gen -> 0..MaxSize] /\ sem'[gen] >= 1
        BY <1>5, PostedFacts DEF GenerationInv
    <2>4. TypeOK'
        BY <1>5, <2>1, <2>2, <2>3 DEF WaitingThread, TypeOK, ownerVars
    <2>5. ResizeInv'
        BY <1>5 DEF WaitingThread, ResizeInv, ownerVars
    <2>6. WorkingCountExact'
        BY <2>2 DEF WaitingThread, WorkingCountExact
    <2>7. WakeupCovers'
        BY <1>5, <2>3, <2>4 DEF WakeupCovers, Covered, TypeOK
    <2> QED
        BY <2>1, <2>4, <2>5, <2>6, <2>7
<1>6. CASE LastIsIdle /\ schedule = 0 /\ taskAdded' = FALSE /\ Go(w, p)
           /\ UNCHANGED <<sem, schedule, aborted, halted, gen, size>>
    <2>1. pc' \in [Worker -> Place] /\ GenerationInv' /\ AbortInv'
          /\ Executing' \subseteq Threads' /\ Threads' = Threads
        BY <1>1, <1>2, <1>6, MoveFacts
    <2>2. Cardinality(Counted') = working - 1 /\ working - 1 \in 0..Cardinality(Worker)
        BY <1>1, <1>3, <1>6, CountedLeaves
    <2>3. taskAdded' \in BOOLEAN
        BY <1>6, Zenon
    <2>4. TypeOK'
        BY <1>6, <2>1, <2>2, <2>3 DEF WaitingThread, TypeOK, ownerVars
    <2>5. ResizeInv'
        BY <1>6 DEF WaitingThread, ResizeInv, ownerVars
    <2>6. WorkingCountExact'
        BY <2>2 DEF WaitingThread, WorkingCountExact
    <2>7. WakeupCovers'
        BY <1>6 DEF WaitingThread, WakeupCovers, LastIsIdle
    <2> QED
        BY <2>1, <2>4, <2>5, <2>6, <2>7
<1>7. CASE LastIsIdle /\ schedule # 0 /\ taskAdded' = FALSE
           /\ Replace(schedule, [pc EXCEPT ![w] = "gone"])
    <2> DEFINE q == [pc EXCEPT ![w] = "gone"]
    <2>1. Cardinality(Counted \ {w}) = 0
        BY <1>3, <1>4, <1>7, CountedFinite, FS_RemoveElement DEF LastIsIdle
    <2>2. Counted \ {w} = {}
        BY <2>1, CountedFinite, FS_RemoveElement, FS_EmptySet
    <2>3. \A v \in Worker : q[v] \notin CountedPlace
        BY <2>2 DEF Counted, CountedPlace, TypeOK
    <2>4. "gone" \in Place
        BY DEF Place
    <2>5. q \in [Worker -> Place]
        BY <2>4 DEF TypeOK
    <2>6. \A v \in Worker : pc[v] = "none" => q[v] = "none"
        BY <1>1 DEF TypeOK
    <2>7. schedule \in Sizes /\ gen < MaxGen
        BY <1>7 DEF TypeOK, ResizeInv
    <2> HIDE DEF PoolInv, q
    <2>8. Replace(schedule, q)
        BY <1>7 DEF q
    <2>9. /\ gen' \in Gen /\ schedule' = 0
          /\ size' \in [Gen -> 0..MaxSize] /\ sem' \in [Gen -> 0..MaxSize]
          /\ pc' \in [Worker -> Place] /\ aborted' \in [Worker -> BOOLEAN]
          /\ halted' \subseteq Task
          /\ GenerationInv'
          /\ \A v \in Worker : v[1] < gen' /\ pc'[v] # "none" => aborted'[v]
          /\ \A v \in Worker : v[1] >= gen' => ~aborted'[v]
          /\ Counted' = {} /\ Executing' = {}
          /\ \E v \in Threads' : pc'[v] = "check"
        BY <1>2, <2>3, <2>5, <2>6, <2>7, <2>8, ReplaceFacts
    <2> USE DEF PoolInv
    <2>10. working' = 0
        BY <1>3, <1>4, <1>7 DEF WaitingThread, LastIsIdle
    <2>11. taskAdded' \in BOOLEAN
        BY <1>7, Zenon
    <2>12. working' \in 0..Cardinality(Worker)
        BY <2>10, WorkerFinite
    <2>13. TypeOK'
        BY <2>9, <2>11, <2>12 DEF WaitingThread, TypeOK, ownerVars
    <2>14. AbortInv'
        BY <2>9 DEF AbortInv
    <2>15. ResizeInv'
        <3>1. schedule' = 0 /\ gen' = gen + 1
            BY <2>8, <2>9 DEF Replace
        <3>2. owner = "apply" => gen + 1 < MaxGen
            BY <1>7 DEF ResizeInv
        <3> QED
            BY <1>2, <3>1, <3>2 DEF ResizeInv
    <2>16. WorkingCountExact'
        BY <2>9, <2>10, FS_EmptySet DEF WorkingCountExact
    <2>17. WakeupCovers'
        BY <2>9 DEF WakeupCovers, Covered
    <2> QED
        BY <2>9, <2>13, <2>14, <2>15, <2>16, <2>17
<1> QED
    BY <1>5, <1>6, <1>7 DEF WaitingThread

LEMMA WaitInv ==
    ASSUME PoolInv, NEW w \in Worker, Wait(w)
    PROVE  PoolInv'
<1> USE DEF PoolInv
<1>1. /\ "check" \in Place /\ "check" \notin CountedPlace
      /\ pc[w] = "wait" /\ Go(w, "check")
    BY DEF Place, CountedPlace, Wait, At
<1>2. pc' \in [Worker -> Place] /\ GenerationInv' /\ AbortInv'
      /\ Executing' \subseteq Threads' /\ Threads' = Threads
    BY <1>1, MoveFacts DEF Wait, ownerVars
<1>3. Counted' = Counted
    BY <1>1, CountedStays DEF CountedPlace
<1>4. w[1] \in Gen
    BY DEF Worker
<1>5. sem' \in [Gen -> 0..MaxSize]
    <2>1. sem[w[1]] \in 0..MaxSize /\ sem[w[1]] > 0
        BY <1>4 DEF Wait, TypeOK
    <2>2. sem[w[1]] - 1 \in 0..MaxSize
        BY <2>1, SizeAssumption
    <2> QED
        BY <2>2 DEF Wait, TypeOK
<1>6. TypeOK'
    BY <1>2, <1>5 DEF Wait, TypeOK, ownerVars
<1>7. ResizeInv' /\ WorkingCountExact'
    BY <1>3 DEF Wait, ResizeInv, WorkingCountExact, ownerVars
<1>8. WakeupCovers'
    <2> SUFFICES ASSUME Covered PROVE Covered'
        BY DEF Wait, WakeupCovers, ownerVars
    <2>1. CASE w \in Threads
        BY <1>1, <1>2, <2>1 DEF Covered, Go, TypeOK
    <2>2. CASE w \notin Threads
        <3>1. w[1] # gen
            BY <1>1, <2>2 DEF Threads, GenerationInv
        <3>2. sem'[gen] = sem[gen] /\ gen' = gen
            BY <3>1 DEF Wait, TypeOK
        <3>3. \A v \in Threads : v \in Worker /\ v # w => pc'[v] = pc[v]
            BY <1>1 DEF Go, TypeOK
        <3>4. \A v \in Threads : pc[v] \in {"check", "enter"} =>
                  pc'[v] \in {"check", "enter"}
            BY <2>2, <3>3 DEF Threads
        <3> QED
            BY <1>2, <1>3, <3>2, <3>4 DEF Covered
    <2> QED
        BY <2>1, <2>2
<1> QED
    BY <1>2, <1>6, <1>7, <1>8

LEMMA CallDestroyedInv ==
    ASSUME PoolInv, NEW w \in Worker, CallDestroyed(w)
    PROVE  PoolInv'
<1> USE DEF PoolInv
<1>1. /\ "undefined" \in Place /\ pc[w] # "none" /\ Go(w, "undefined")
      /\ ~alive /\ alive' = alive
    BY DEF Place, CallDestroyed, ownerVars
<1>2. pc' \in [Worker -> Place] /\ GenerationInv' /\ AbortInv'
      /\ Executing' \subseteq Threads' /\ Threads' = Threads
    BY <1>1, MoveFacts DEF CallDestroyed, poolVars, ownerVars
<1>3. TypeOK'
    BY <1>2 DEF CallDestroyed, TypeOK, poolVars, ownerVars
<1>4. ResizeInv'
    BY DEF CallDestroyed, ResizeInv, poolVars, ownerVars
<1>5. WorkingCountExact' /\ WakeupCovers'
    BY <1>1 DEF WorkingCountExact, WakeupCovers
<1> QED
    BY <1>2, <1>3, <1>4, <1>5

-----------------------------------------------------------------------------
(* PoolInv is an invariant of every pool, however its owner adds, aborts,  *)
(* batches, resizes and destroys.                                          *)
THEOREM PoolInvariant == Spec => []PoolInv
<1>1. PoolInv /\ [Next]_vars => PoolInv'
    <2> SUFFICES ASSUME PoolInv, [Next]_vars PROVE PoolInv'
        OBVIOUS
    <2>1. CASE OwnerStep
        BY <2>1, AddTaskInv, AbortAllTasksInv, BatchBeginInv, BatchEndInv,
           SetConcurrentThreadsInv, CancelScheduleInv, ApplyRequestInv, DestroyInv
        DEF OwnerStep
    <2>2. ASSUME NEW w \in Worker, WorkerStep(w) PROVE PoolInv'
        <3>1. CASE Park(w)
            BY <3>1, WaitingThreadInv DEF Park, At
        <3>2. CASE Leave(w)
            BY <3>2, WaitingThreadInv DEF Leave, At
        <3> QED
            BY <2>2, <3>1, <3>2, CheckInv, EnterInv, FetchInv, PublishInv, GuardInv,
               FinishInv, LoopInv, WaitInv, CallDestroyedInv
            DEF WorkerStep
    <2>3. CASE UNCHANGED vars
        <3>1. Counted' = Counted /\ Threads' = Threads /\ Executing' = Executing
            BY <2>3 DEF vars, poolVars, workerVars, Counted, Threads, Executing
        <3>2. TypeOK'
            BY <2>3 DEF vars, poolVars, workerVars, ownerVars, PoolInv, TypeOK
        <3> QED
            BY <2>3, <3>1, <3>2
            DEF vars, poolVars, workerVars, ownerVars, PoolInv, GenerationInv,
                AbortInv, ResizeInv, WorkingCountExact, WakeupCovers, Covered
    <2> QED
        BY <2>1, <2>2, <2>3 DEF Next
<1> QED
    BY InitInv, <1>1, PTL DEF Spec

(* Type correctness of the pool.                                           *)
THEOREM TypeCorrect == Spec => []TypeOK
<1>1. PoolInv => TypeOK
    BY DEF PoolInv
<1> QED
    BY <1>1, PoolInvariant, PTL

(* m_workingThreads is exact for any number of threads and resizes.        *)
THEOREM CountIsExact == Spec => []WorkingCountExact
<1>1. PoolInv => WorkingCountExact
    BY DEF PoolInv
<1> QED
    BY <1>1, PoolInvariant, PTL

(* No wakeup is ever lost, for any number of tasks, threads and resizes.   *)
THEOREM NoLostWakeup == Spec => []WakeupCovers
<1>1. PoolInv => WakeupCovers
    BY DEF PoolInv
<1> QED
    BY <1>1, PoolInvariant, PTL

(* m_threads has as many threads as m_concurrentThreads says.              *)
LEMMA ThreadsCount ==
    ASSUME PoolInv
    PROVE  IsFiniteSet(Threads) /\ Cardinality(Threads) = size[gen] /\ size[gen] \in Nat
<1>1. gen \in Gen /\ size[gen] \in 0..MaxSize
    BY DEF PoolInv, TypeOK
<1>2. size[gen] \in Nat /\ size[gen] <= MaxSize /\ MaxSize \in Nat
    BY <1>1, SizeAssumption
<1>3. Threads = {gen} \X (1..size[gen])
    BY <1>1, <1>2 DEF Threads, Worker
<1>4. IsFiniteSet({gen}) /\ Cardinality({gen}) = 1
    BY FS_Singleton
<1>5. IsFiniteSet(1..size[gen]) /\ Cardinality(1..size[gen]) = size[gen]
    <2>1. 1 \in Int /\ size[gen] \in Int
        BY <1>2
    <2>2. /\ IsFiniteSet(1..size[gen])
          /\ Cardinality(1..size[gen]) =
                 IF 1 > size[gen] THEN 0 ELSE size[gen] - 1 + 1
        BY <2>1, FS_Interval
    <2> QED
        BY <1>2, <2>2
<1>6. IsFiniteSet(Threads) /\ Cardinality(Threads) = 1 * size[gen]
    BY <1>3, <1>4, <1>5, FS_Product
<1> QED
    BY <1>2, <1>6

(* At most m_concurrentThreads tasks execute at a time, all of them on     *)
(* threads of the present generation.                                      *)
THEOREM PoolBoundsExecution == Spec => []ExecutingWithinPool
<1>1. ASSUME PoolInv PROVE ExecutingWithinPool
    <2>1. Executing \subseteq Threads
        BY <1>1 DEF PoolInv
    <2>2. Cardinality(Executing) <= Cardinality(Threads)
        BY <1>1, <2>1, ThreadsCount, FS_Subset
    <2> QED
        BY <1>1, <2>1, <2>2, ThreadsCount DEF ExecutingWithinPool, concurrent
<1> QED
    BY <1>1, PoolInvariant, PTL
===============================================================================
