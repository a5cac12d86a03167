-------------------------- MODULE ParserClient_proofs --------------------------
(***************************************************************************)
(* Proofs about ParserClient, for every set of files, every way they       *)
(* include each other and any number of calls: a reserved file is going to *)
(* be parsed, parsers take turns, and the destructor waits for every task  *)
(* that uses the parser's own lists.                                       *)
(***************************************************************************)
EXTENDS ParserClient, FiniteSetTheorems, TLAPS

(* The worker's place says which task it has and which files are open.     *)
WorkInv ==
    /\ claimed # {} => \E t \in claimed : claimed = {t}
    /\ at = "idle" <=> claimed = {}
    /\ at \in {"copy", "macros", "list"} => \A t \in claimed : t.kind = "batch"
    /\ at \in {"parse", "locked", "gap"} => \A t \in claimed : t.kind = "parse"
    /\ at \in {"locked", "gap"} <=> opened # <<>>
    /\ at = "gap" => Len(opened) > 1

(* A file that is being parsed is open.  One that is assigned is waited    *)
(* for by a task that has not looked at it yet, or is about to be read, or *)
(* could not be.  The file an include directive has reserved is not being   *)
(* parsed yet.                                                             *)
Awaited(f) ==
    \/ \E t \in Pool!Listed : t.kind = "parse" /\ t.file = f
    \/ at = "parse" /\ \E t \in claimed : t.file = f
FileInv ==
    /\ \A f \in File :
          /\ tree[f] = "parsing" => f \in ToSet(opened)
          /\ life = "alive" /\ tree[f] = "assigned" =>
                 Awaited(f) \/ f \in ToSet(opened) \/ f \in unread
    /\ at = "gap" => tree[Last(opened)] # "parsing"

(* Once the destructor has emptied the pool, only parse tasks come into    *)
(* it.                                                                     *)
EndInv ==
    /\ life # "alive" => \A t \in Pool!Listed : t.kind = "parse"
    /\ NoListUserLeft

(* A turn: before the first batch task has cleared the lists no event is   *)
(* under way; afterwards an event is under way only while the pool is      *)
(* empty, and the timer runs with something to do only after that event    *)
(* was handled.                                                            *)
Resting == Tasks = {} /\ ~due
Waiting ==
    /\ inbox = 0 /\ (Tasks = {} => ~due)
    /\ at \in {"idle", "copy", "macros", "list"}
    /\ at # "list" => \A t \in Pool!Listed : t.kind = "batch"
TurnInv ==
    life = "alive" /\ ~raced =>
        /\ parsing <=> ~ignore
        /\ at = "list" => ~macros
        /\ Tasks # {} \/ parsing => current = "this"
        /\ ~parsing => Waiting
        /\ parsing /\ inbox > 0 => inbox = 1 /\ Resting
        /\ parsing /\ timer /\ More => inbox = 0 /\ Resting

StepInv == WorkInv /\ FileInv /\ EndInv /\ TurnInv
ClientInv == TypeOK /\ StepInv

-----------------------------------------------------------------------------
(* Sequences and the pool. *)

LEMMA ListGrows ==
    ASSUME NEW S, NEW s \in Seq(S), NEW x \in S
    PROVE  ToSet(Append(s, x)) = ToSet(s) \cup {x}
<1> DEFINE n == Len(s) + 1
           t == Append(s, x)
<1>1. /\ t \in Seq(S) /\ DOMAIN t = 1..n /\ DOMAIN s = 1..Len(s) /\ Len(s) \in Nat
      /\ 1..n = (1..Len(s)) \cup {n} /\ t[n] = x
      /\ \A i \in 1..Len(s) : t[i] = s[i]
    OBVIOUS
<1>2. ToSet(t) = {t[i] : i \in 1..n} /\ ToSet(s) = {s[i] : i \in 1..Len(s)}
    BY <1>1 DEF ToSet
<1> HIDE DEF n, t
<1>3. ToSet(t) = ToSet(s) \cup {x}
    BY <1>1, <1>2
<1> QED
    BY <1>3 DEF t

LEMMA ListShrinks ==
    ASSUME NEW S, NEW s \in Seq(S), s # <<>>
    PROVE  /\ Last(s) \in S /\ Last(s) \in ToSet(s)
           /\ Front(s) \in Seq(S) /\ Len(Front(s)) = Len(s) - 1
           /\ \A x \in ToSet(s) : x = Last(s) \/ x \in ToSet(Front(s))
           /\ Front(s) = <<>> <=> Len(s) = 1
<1> DEFINE n == Len(s)
           t == Front(s)
<1>1. n \in Nat \ {0} /\ DOMAIN s = 1..n
    OBVIOUS
<1>2. t \in Seq(S) /\ Len(t) = n - 1 /\ DOMAIN t = 1..(n - 1)
    BY <1>1 DEF Front
<1>3. \A i \in 1..(n - 1) : t[i] = s[i]
    BY <1>1 DEF Front
<1>4. Last(s) = s[n] /\ n \in 1..n
    BY <1>1 DEF Last
<1>5. ToSet(t) = {t[i] : i \in 1..(n - 1)} /\ ToSet(s) = {s[i] : i \in 1..n}
    BY <1>1, <1>2 DEF ToSet
<1>6. t = <<>> <=> n = 1
    BY <1>1, <1>2
<1>8. s[n] \in S
    BY <1>1
<1> HIDE DEF n, t
<1>7. \A i \in 1..n : i = n \/ i \in 1..(n - 1)
    BY <1>1
<1>9. \A x \in ToSet(s) : x = Last(s) \/ x \in ToSet(t)
    BY <1>3, <1>4, <1>5, <1>7
<1>10. Last(s) \in ToSet(s)
    BY <1>4, <1>5
<1> QED
    BY <1>2, <1>4, <1>6, <1>8, <1>9, <1>10 DEF n, t

LEMMA OneListed == \A x : ToSet(<<x>>) = {x}
BY DEF ToSet

(* The list of the files to parse stays without repetition when a file is  *)
(* appended that it does not hold yet.                                     *)
LEMMA ListGrowsInjective ==
    ASSUME NEW s \in Seq(File), IsInjective(s), NEW x \in File, x \notin ToSet(s),
           NEW t, t = Append(s, x)
    PROVE  t \in Seq(File) /\ IsInjective(t)
<1> DEFINE n == Len(s)
<1>1. n \in Nat /\ t \in Seq(File) /\ Len(t) = n + 1
    OBVIOUS
<1>2. (\A i \in 1..n : t[i] = s[i]) /\ t[n + 1] = x
    OBVIOUS
<1>3. \A i \in 1..n : s[i] # x
    BY DEF ToSet
<1>4. \A i, j \in 1..n : s[i] = s[j] => i = j
    BY DEF IsInjective
<1>5. DOMAIN t = 1..(n + 1)
    BY <1>1
<1> HIDE DEF n
<1>6. \A i \in 1..(n + 1) : i = n + 1 \/ i \in 1..n
    BY <1>1
<1>7. \A i, j \in 1..(n + 1) : t[i] = t[j] => i = j
    BY <1>2, <1>3, <1>4, <1>6
<1>8. IsInjective(t)
    BY <1>5, <1>7 DEF IsInjective
<1> QED
    BY <1>1, <1>8

LEMMA EmptyListInjective == IsInjective(<<>>)
BY DEF IsInjective

(* The types of the pool's variables.                                      *)
PoolType ==
    /\ pending \in Seq(Task) /\ claimed \subseteq Task /\ done \subseteq Task
    /\ due \in BOOLEAN /\ open \in BOOLEAN /\ added \in Nat

GuiType ==
    /\ files \in Seq(File) /\ IsInjective(files) /\ macros \in BOOLEAN
    /\ parsing \in BOOLEAN /\ ignore \in BOOLEAN /\ needMark \in BOOLEAN
    /\ state \in {"ptCreateParser", "ptAddFileToParser", "ptReparseFile", "ptUndefined"}
    /\ timer \in BOOLEAN /\ reTimer \in BOOLEAN
    /\ current \in {"none", "this", "other"}
    /\ inbox \in Nat /\ life \in {"alive", "ending", "over"}
WorkType ==
    /\ tree \in [File -> {"no", "assigned", "parsing", "done"}]
    /\ flagged \subseteq File
    /\ at \in {"idle", "copy", "macros", "list", "parse", "locked", "gap", "end"}
    /\ todo \in Seq(File) /\ opened \in Seq(File)
HistoryType ==
    /\ calls \in Nat /\ unread \subseteq File /\ owed \subseteq File
    /\ raced \in BOOLEAN /\ hasty \in BOOLEAN

LEMMA TypeParts == TypeOK <=> PoolType /\ GuiType /\ WorkType /\ HistoryType
BY DEF TypeOK, PoolType, GuiType, WorkType, HistoryType

LEMMA PoolTypes == TypeOK => PoolType
BY TypeParts

LEMMA PoolFrame ==
    ASSUME UNCHANGED <<pending, claimed, done, due, open>>
    PROVE  Pool!Listed' = Pool!Listed /\ Tasks' = Tasks /\ claimed' = claimed
BY DEF Pool!Listed, Tasks

LEMMA PoolAdd ==
    ASSUME PoolType, NEW t \in Task, Pool!Add(t), added' = added + 1
    PROVE  /\ PoolType' /\ UNCHANGED <<claimed, done, open>> /\ due' = TRUE
           /\ Pool!Listed' = Pool!Listed \cup {t} /\ Tasks' = Tasks \cup {t}
<1>1. /\ pending' = Append(pending, t) /\ pending \in Seq(Task)
      /\ UNCHANGED <<claimed, done, open>> /\ due' = TRUE
    BY DEF Pool!Add, PoolType
<1>2. /\ Len(pending) \in Nat /\ Len(pending') = Len(pending) + 1
      /\ \A i \in 1..Len(pending) : pending'[i] = pending[i]
      /\ pending'[Len(pending) + 1] = t
    BY <1>1
<1>3. 1..(Len(pending) + 1) = (1..Len(pending)) \cup {Len(pending) + 1}
    BY <1>2
<1>4. Pool!Listed' = Pool!Listed \cup {t}
    BY <1>2, <1>3 DEF Pool!Listed
<1>5. PoolType'
    BY <1>1 DEF PoolType
<1> QED
    BY <1>1, <1>4, <1>5 DEF Tasks

LEMMA AddTaskFacts ==
    ASSUME PoolType, NEW k \in {"batch", "mark"}, AddTask(k)
    PROVE  /\ PoolType' /\ UNCHANGED <<claimed, done, open>> /\ due' = TRUE
           /\ \E t \in Task : /\ t.kind = k
                              /\ Pool!Listed' = Pool!Listed \cup {t}
                              /\ Tasks' = Tasks \cup {t}
<1> DEFINE t == [n |-> added, kind |-> k]
<1>1. t \in Task /\ t.kind = k
    BY DEF PoolType, Task
<1>2. Pool!Add(t) /\ added' = added + 1
    BY DEF AddTask
<1> HIDE DEF t
<1> QED
    BY <1>1, <1>2, PoolAdd

LEMMA AddParserThreadFacts ==
    ASSUME PoolType, NEW f \in File, AddParserThread(f)
    PROVE  /\ PoolType' /\ UNCHANGED <<claimed, done, open>> /\ due' = TRUE
           /\ \E t \in Task : /\ t.kind = "parse" /\ t.file = f
                              /\ Pool!Listed' = Pool!Listed \cup {t}
                              /\ Tasks' = Tasks \cup {t}
<1> DEFINE t == [n |-> added, kind |-> "parse", file |-> f]
<1>1. t \in Task /\ t.kind = "parse" /\ t.file = f
    BY DEF PoolType, Task
<1>2. Pool!Add(t) /\ added' = added + 1
    BY DEF AddParserThread
<1> HIDE DEF t
<1> QED
    BY <1>1, <1>2, PoolAdd

(* The one thread of the pool takes a task when it has none.               *)
LEMMA PoolClaim ==
    ASSUME PoolType, WorkInv, Pool!Claim
    PROVE  /\ added' = added => PoolType'
           /\ UNCHANGED <<done, due, open>> /\ claimed = {} /\ open
           /\ \E t \in Task : /\ t = Head(pending) /\ claimed' = {t}
                              /\ Pool!Listed = Pool!Listed' \cup {t}
           /\ Tasks' = Tasks
<1>1. /\ open /\ pending # <<>> /\ UNCHANGED <<done, due, open>>
      /\ claimed' = claimed \cup {Head(pending)} /\ pending' = Tail(pending)
      /\ pending \in Seq(Task)
    BY DEF Pool!Claim, PoolType
<1>2. claimed = {}
  <2>1. Pool!Cardinality(claimed) = Cardinality(claimed)
    BY DEF Pool!Cardinality, Cardinality
  <2>2. Cardinality(claimed) < 1
    BY <2>1 DEF Pool!Claim
  <2>3. ASSUME NEW t, claimed = {t} PROVE FALSE
    <3>1. Cardinality({t}) = 1
        BY FS_Singleton
    <3> QED
        BY <2>2, <2>3, <3>1
  <2> QED
    BY <2>3 DEF WorkInv
<1>3. Head(pending) \in Task /\ Head(pending) = pending[1] /\ Len(pending) \in Nat \ {0}
    BY <1>1
<1> PICK t \in Task, n \in Nat \ {0} : t = Head(pending) /\ t = pending[1] /\ n = Len(pending)
    BY <1>3
<1>4. /\ Len(pending') = n - 1 /\ 1 \in 1..n /\ pending' \in Seq(Task)
      /\ \A i \in 1..(n - 1) : i + 1 \in 1..n /\ pending'[i] = pending[i + 1]
      /\ \A j \in 1..n : j # 1 => j - 1 \in 1..(n - 1) /\ (j - 1) + 1 = j
    BY <1>1
<1>5. Pool!Listed' = {pending'[i] : i \in 1..(n - 1)} /\ Pool!Listed = {pending[i] : i \in 1..n}
    BY <1>4 DEF Pool!Listed
<1>6. \A j \in 1..n : pending[j] = t \/ pending[j] \in Pool!Listed'
  <2>1. \A j \in 1..n : j # 1 => pending[j] = pending'[j - 1]
    BY <1>4
  <2> QED
    BY <1>4, <1>5, <2>1
<1>7. Pool!Listed' \subseteq Pool!Listed /\ t \in Pool!Listed
    BY <1>4, <1>5
<1>8. \A u \in Pool!Listed : u = t \/ u \in Pool!Listed'
    BY <1>5, <1>6
<1>9. Pool!Listed = Pool!Listed' \cup {t}
    BY <1>7, <1>8
<1>10. claimed' = {t}
    BY <1>1, <1>2
<1>11. added' = added => PoolType'
    BY <1>1, <1>4, <1>10 DEF PoolType
<1> QED
    BY <1>1, <1>2, <1>9, <1>10, <1>11 DEF Tasks

LEMMA PoolDropped ==
    ASSUME PoolType, pending' = <<>>, UNCHANGED <<claimed, done, due, added>>, open' \in BOOLEAN
    PROVE  PoolType' /\ Pool!Listed' = {} /\ Tasks' = claimed
<1>1. Len(pending') = 0 /\ 1..0 = {} /\ pending' \in Seq(Task)
    OBVIOUS
<1>2. Pool!Listed' = {}
    BY <1>1 DEF Pool!Listed
<1> QED
    BY <1>1, <1>2 DEF PoolType, Tasks

LEMMA PoolComplete ==
    ASSUME PoolType, WorkInv, NEW t \in claimed, Pool!Complete(t), added' = added
    PROVE  /\ PoolType' /\ claimed' = {} /\ UNCHANGED <<due, open>>
           /\ Pool!Listed' = Pool!Listed /\ Tasks' = Pool!Listed
<1>1. /\ claimed' = claimed \ {t} /\ done' = done \cup {t}
      /\ UNCHANGED <<pending, due, open>>
    BY DEF Pool!Complete
<1>2. claimed' = {}
    BY <1>1 DEF WorkInv
<1> QED
    BY <1>1, <1>2 DEF PoolType, Tasks, Pool!Listed

-----------------------------------------------------------------------------
(* Types. *)

(* What the client and the GUI thread do to the other variables.           *)
LEMMA GuiTypes ==
    ASSUME TypeOK, WorkInv,
           Client \/ OnBatchTimer \/ ReparseModifiedFiles \/ OnAllThreadsDone
               \/ Terminated \/ ClosePool \/ OtherEnds
    PROVE  TypeOK'
<1> USE DEF listVars, phaseVars, timerVars, treeVars, workerVars, historyVars, poolVars
<1>0. PoolType /\ GuiType /\ WorkType /\ HistoryType
    BY TypeParts
<1> SUFFICES PoolType' /\ GuiType' /\ WorkType' /\ HistoryType'
    BY DEF TypeOK, PoolType, GuiType, WorkType, HistoryType
<1>1. ASSUME NEW defs \in BOOLEAN, AddPredefinedMacros(defs) PROVE PoolType' /\ GuiType' /\ WorkType' /\ HistoryType'
  <2>1. PoolType'
    BY <1>0, <1>1 DEF AddPredefinedMacros, PoolType
  <2>2. GuiType'
    BY <1>0, <1>1 DEF AddPredefinedMacros, GuiType, LeaveUndefined, StopAndStartTimer
  <2>3. WorkType'
    BY <1>0, <1>1 DEF AddPredefinedMacros, WorkType
  <2>4. HistoryType'
    BY <1>0, <1>1 DEF AddPredefinedMacros, HistoryType, GuiType, Called, Adds
  <2> QED
    BY <2>1, <2>2, <2>3, <2>4
<1>2. ASSUME NEW f \in File, AddFile(f) PROVE PoolType' /\ GuiType' /\ WorkType' /\ HistoryType'
  <2>1. PoolType'
    BY <1>0, <1>2 DEF AddFile, ListFile, PoolType
  <2>a. files' \in Seq(File) /\ IsInjective(files')
    <3>1. files \in Seq(File) /\ IsInjective(files)
        BY <1>0 DEF GuiType
    <3>2. f \notin ToSet(files) /\ files' = Append(files, f)
        BY <1>2 DEF AddFile, ListFile
    <3> QED
        BY <3>1, <3>2, ListGrowsInjective
  <2>2. GuiType'
    BY <1>0, <1>2, <2>a DEF AddFile, ListFile, GuiType, LeaveUndefined, StopAndStartTimer
  <2>3. WorkType'
    BY <1>0, <1>2 DEF AddFile, ListFile, WorkType
  <2>4. HistoryType'
    BY <1>0, <1>2 DEF AddFile, ListFile, HistoryType, GuiType, Called, Adds
  <2> QED
    BY <2>1, <2>2, <2>3, <2>4
<1>3. ASSUME NEW f \in File, RemoveFile(f) PROVE PoolType' /\ GuiType' /\ WorkType' /\ HistoryType'
  <2>1. PoolType'
    BY <1>0, <1>3 DEF RemoveFile, PoolType
  <2>2. GuiType'
    BY <1>0, <1>3 DEF RemoveFile, GuiType, LeaveUndefined, StopAndStartTimer
  <2>3. WorkType'
    BY <1>0, <1>3 DEF RemoveFile, WorkType
  <2>4. HistoryType'
    BY <1>0, <1>3 DEF RemoveFile, HistoryType, GuiType, Called, Adds
  <2> QED
    BY <2>1, <2>2, <2>3, <2>4
<1>4. ASSUME NEW f \in File, Reparse(f) PROVE PoolType' /\ GuiType' /\ WorkType' /\ HistoryType'
  <2>1. PoolType'
    BY <1>0, <1>4 DEF Reparse, PoolType
  <2>2. GuiType'
    BY <1>0, <1>4 DEF Reparse, GuiType, LeaveUndefined, StopAndStartTimer
  <2>3. WorkType'
    BY <1>0, <1>4 DEF Reparse, WorkType
  <2>4. HistoryType'
    BY <1>0, <1>4 DEF Reparse, HistoryType, GuiType, Called, Adds
  <2> QED
    BY <2>1, <2>2, <2>3, <2>4
<1>5. CASE Terminate
  <2>1. PoolType'
    BY <1>0, <1>5, PoolDropped DEF Terminate, PoolType, Pool!Discard
  <2>2. GuiType'
    BY <1>0, <1>5 DEF Terminate, GuiType, LeaveUndefined, StopAndStartTimer
  <2>3. WorkType'
    BY <1>0, <1>5 DEF Terminate, WorkType
  <2>4. HistoryType'
    BY <1>0, <1>5 DEF Terminate, HistoryType, GuiType, Called, Adds
  <2> QED
    BY <2>1, <2>2, <2>3, <2>4
<1>6. CASE OtherStarts \/ OtherEnds
  <2>1. PoolType'
    BY <1>0, <1>6 DEF OtherStarts, OtherEnds, PoolType
  <2>2. GuiType'
    BY <1>0, <1>6 DEF OtherStarts, OtherEnds, GuiType, LeaveUndefined, StopAndStartTimer
  <2>3. WorkType'
    BY <1>0, <1>6 DEF OtherStarts, OtherEnds, WorkType
  <2>4. HistoryType'
    BY <1>0, <1>6 DEF OtherStarts, OtherEnds, HistoryType, GuiType, Called, Adds
  <2> QED
    BY <2>1, <2>2, <2>3, <2>4
<1>7. CASE OnBatchTimer
  <2>1. PoolType'
    BY <1>0, <1>7, AddTaskFacts DEF OnBatchTimer, PoolType
  <2>2. GuiType'
    BY <1>0, <1>7 DEF OnBatchTimer, GuiType, LeaveUndefined, StopAndStartTimer
  <2>3. WorkType'
    BY <1>0, <1>7 DEF OnBatchTimer, WorkType
  <2>4. HistoryType'
    BY <1>0, <1>7 DEF OnBatchTimer, HistoryType, GuiType, Called, Adds
  <2> QED
    BY <2>1, <2>2, <2>3, <2>4
<1>8. CASE ReparseModifiedFiles
  <2>1. PoolType'
    BY <1>0, <1>8 DEF ReparseModifiedFiles, PoolType
  <2>a. files' \in Seq(File) /\ IsInjective(files')
    <3>1. CASE UNCHANGED files
        BY <1>0, <3>1 DEF GuiType
    <3>2. CASE files' \in SetToSeqs(flagged)
      <4>1. IsFiniteSet(flagged) /\ flagged \subseteq File
        BY <1>0, ParserAssumption, FS_Subset DEF WorkType
      <4>2. Cardinality(flagged) \in Nat
        BY <4>1, FS_CardinalityType
      <4>3. /\ files' \in [1..Cardinality(flagged) -> flagged]
            /\ \A i, j \in 1..Cardinality(flagged) : i # j => files'[i] # files'[j]
        BY <3>2 DEF SetToSeqs
      <4>4. IsInjective(files')
        BY <4>3 DEF IsInjective
      <4> QED
        BY <4>1, <4>2, <4>3, <4>4
    <3> QED
        BY <1>8, <3>1, <3>2 DEF ReparseModifiedFiles
  <2>b. state' \in {"ptCreateParser", "ptAddFileToParser", "ptReparseFile", "ptUndefined"}
    BY <1>0, <1>8 DEF ReparseModifiedFiles, GuiType, LeaveUndefined
  <2>c. timer' \in BOOLEAN
    BY <1>0, <1>8 DEF ReparseModifiedFiles, GuiType, StopAndStartTimer
  <2>2. GuiType'
    BY <1>0, <1>8, <2>a, <2>b, <2>c DEF ReparseModifiedFiles, GuiType
  <2>3. WorkType'
    BY <1>0, <1>8 DEF ReparseModifiedFiles, WorkType
  <2>4. HistoryType'
    BY <1>0, <1>8 DEF ReparseModifiedFiles, HistoryType, GuiType, Called, Adds
  <2> QED
    BY <2>1, <2>2, <2>3, <2>4
<1>9. CASE OnAllThreadsDone
  <2>1. PoolType'
    BY <1>0, <1>9, AddTaskFacts DEF OnAllThreadsDone, PoolType
  <2>a. /\ UNCHANGED <<files, macros, reTimer, life>> /\ inbox' \in Nat
        /\ state' = state \/ state' = "ptUndefined"
        /\ current' = current \/ current' = "none"
    BY <1>0, <1>9 DEF OnAllThreadsDone, GuiType
  <2>b. parsing' \in BOOLEAN /\ ignore' \in BOOLEAN /\ timer' \in BOOLEAN
    BY <1>0, <1>9 DEF OnAllThreadsDone, GuiType
  <2>c. needMark' \in BOOLEAN
    BY <1>0, <1>9 DEF OnAllThreadsDone, GuiType
  <2>2. GuiType'
    BY <1>0, <2>a, <2>b, <2>c DEF GuiType
  <2>3. WorkType'
    BY <1>0, <1>9 DEF OnAllThreadsDone, WorkType
  <2>4. HistoryType'
    BY <1>0, <1>9 DEF OnAllThreadsDone, HistoryType, GuiType, Called, Adds
  <2> QED
    BY <2>1, <2>2, <2>3, <2>4
<1>10. CASE Terminated \/ ClosePool
  <2>1. PoolType'
    BY <1>0, <1>10, PoolDropped DEF Terminated, ClosePool, PoolType, Pool!Close
  <2>2. GuiType'
    BY <1>0, <1>10 DEF Terminated, ClosePool, GuiType, LeaveUndefined, StopAndStartTimer
  <2>3. WorkType'
    BY <1>0, <1>10 DEF Terminated, ClosePool, WorkType
  <2>4. HistoryType'
    BY <1>0, <1>10 DEF Terminated, ClosePool, HistoryType, GuiType, Called, Adds
  <2> QED
    BY <2>1, <2>2, <2>3, <2>4
<1> QED
    BY <1>1, <1>2, <1>3, <1>4, <1>5, <1>6, <1>7, <1>8, <1>9, <1>10 DEF Client

LEMMA WorkerTypes ==
    ASSUME TypeOK, WorkInv, Worker
    PROVE  TypeOK'
<1> USE DEF listVars, phaseVars, timerVars, treeVars, workerVars, historyVars, poolVars,
            guiVars, Go
<1>0. PoolType /\ GuiType /\ WorkType /\ HistoryType
    BY TypeParts
<1> SUFFICES PoolType' /\ GuiType' /\ WorkType' /\ HistoryType'
    BY DEF TypeOK, PoolType, GuiType, WorkType, HistoryType
<1>1. CASE Start
  <2>1. PoolType'
    BY <1>0, <1>1, PoolClaim DEF Start
  <2>2. Head(pending) \in Task
    BY <1>0, <1>1 DEF Start, Pool!Claim, PoolType
  <2>3. Head(pending).kind \in {"batch", "mark", "parse"}
    BY <2>2 DEF Task
  <2>4. at' \in {"copy", "parse", "end"}
    BY <1>1, <2>3 DEF Start
  <2>5. GuiType' /\ HistoryType'
    BY <1>0, <1>1 DEF Start, GuiType, HistoryType
  <2> QED
    BY <1>0, <1>1, <2>1, <2>4, <2>5 DEF WorkType, Start
<1>2. CASE CopyBatch \/ ClearPredefinedMacros \/ ClearBatch
  <2>1. PoolType' /\ HistoryType'
    BY <1>0, <1>2 DEF CopyBatch, ClearPredefinedMacros, ClearBatch, PoolType, HistoryType
  <2>2. GuiType'
    <3>1. CASE CopyBatch \/ ClearPredefinedMacros
        BY <1>0, <3>1 DEF CopyBatch, ClearPredefinedMacros, GuiType
    <3>2. CASE ClearBatch
      <4>1. parsing' \in BOOLEAN /\ ignore' \in BOOLEAN
        BY <3>2 DEF ClearBatch
      <4> QED
        BY <1>0, <3>2, <4>1, EmptyListInjective DEF ClearBatch, GuiType
    <3> QED
        BY <1>2, <3>1, <3>2
  <2>3. WorkType'
    BY <1>0, <1>2 DEF CopyBatch, ClearPredefinedMacros, ClearBatch, WorkType, GuiType
  <2> QED
    BY <2>1, <2>2, <2>3
<1>3. CASE ParseNext
  <2>1. Head(todo) \in File /\ Tail(todo) \in Seq(File)
    BY <1>0, <1>3 DEF ParseNext, WorkType
  <2>2. PoolType'
    BY <1>0, <1>3, <2>1, AddParserThreadFacts DEF ParseNext, PoolType
  <2>3. GuiType' /\ HistoryType'
    BY <1>0, <1>3 DEF ParseNext, GuiType, HistoryType
  <2>4. WorkType'
    BY <1>0, <1>3, <2>1 DEF ParseNext, WorkType, Reserve
  <2> QED
    BY <2>2, <2>3, <2>4
<1>4. CASE OpenFile
  <2>1. PoolType' /\ GuiType'
    BY <1>0, <1>4 DEF OpenFile, PoolType, GuiType
  <2>2. \A t \in claimed : t.file \in File
    BY <1>0, <1>4 DEF PoolType, WorkInv, Task, OpenFile
  <2>3. WorkType'
    <3>1. PICK t \in claimed : t.file \in File /\
              (\/ UNCHANGED <<tree, flagged, opened>> /\ at' = "end"
               \/ Reserve(t.file, FALSE) /\ opened' = <<t.file>> /\ at' = "locked")
        BY <1>4, <2>2 DEF OpenFile
    <3>2. t.file \in File /\ <<t.file>> \in Seq(File)
        BY <3>1
    <3>3. tree' \in [File -> {"no", "assigned", "parsing", "done"}] /\ flagged' \subseteq File
        BY <1>0, <3>1 DEF WorkType, Reserve
    <3>4. todo' = todo
        BY <1>4 DEF OpenFile
    <3> QED
        BY <1>0, <3>1, <3>2, <3>3, <3>4 DEF WorkType
  <2>4. HistoryType'
    BY <1>0, <1>4, <2>2 DEF OpenFile, HistoryType, Unreadable
  <2> QED
    BY <2>1, <2>3, <2>4
<1>5. ASSUME NEW f \in File, Include(f)
      PROVE  PoolType' /\ GuiType' /\ WorkType' /\ HistoryType'
  <2>1. PoolType' /\ GuiType'
    BY <1>0, <1>5 DEF Include, PoolType, GuiType
  <2>2. WorkType' /\ HistoryType'
    BY <1>0, <1>5 DEF Include, WorkType, HistoryType, Reserve
  <2> QED
    BY <2>1, <2>2
<1>6. CASE OpenIncluded \/ CloseFile
  <2>1. PoolType' /\ GuiType'
    <3>1. UNCHANGED <<guiVars, listVars, poolVars>>
        BY <1>6 DEF OpenIncluded, CloseFile
    <3> QED
        BY <1>0, <3>1 DEF PoolType, GuiType
  <2>2. Last(opened) \in File /\ Front(opened) \in Seq(File)
    BY <1>0, <1>6, ListShrinks DEF WorkType, WorkInv, OpenIncluded, CloseFile
  <2>3. WorkType'
    BY <1>0, <1>6, <2>2 DEF OpenIncluded, CloseFile, WorkType, Unreadable, Reserve
  <2>4. HistoryType'
    BY <1>0, <1>6, <2>2 DEF OpenIncluded, CloseFile, HistoryType, Unreadable
  <2> QED
    BY <2>1, <2>3, <2>4
<1>7. CASE EndTask
  <2>1. PoolType'
    BY <1>0, <1>7, PoolComplete DEF EndTask
  <2> QED
    BY <1>0, <1>7, <2>1 DEF GuiType, WorkType, HistoryType, EndTask
<1>8. CASE Announce
  <2>1. PoolType'
    BY <1>0, <1>8 DEF Announce, Pool!Announce, PoolType
  <2> QED
    BY <1>0, <1>8, <2>1 DEF GuiType, WorkType, HistoryType, Announce
<1> QED
    BY <1>1, <1>2, <1>3, <1>4, <1>5, <1>6, <1>7, <1>8 DEF Worker

-----------------------------------------------------------------------------
(* The GUI thread's steps. *)

(* A step beside the pool, the worker and the open files.                  *)
LEMMA Beside ==
    ASSUME StepInv, UNCHANGED <<poolVars, at, opened, life, tree, unread>>
    PROVE  WorkInv' /\ FileInv' /\ EndInv' /\ Tasks' = Tasks /\ Pool!Listed' = Pool!Listed
<1>1. UNCHANGED <<pending, claimed, done, due, open>>
    BY DEF poolVars
<1>2. claimed' = claimed /\ Tasks' = Tasks /\ Pool!Listed' = Pool!Listed
    BY <1>1, PoolFrame
<1> QED
    BY <1>2 DEF StepInv, WorkInv, FileInv, EndInv, NoListUserLeft, Awaited

LEMMA CallKeeps ==
    ASSUME TypeOK, StepInv, Client
    PROVE  StepInv'
<1> USE DEF listVars, phaseVars, timerVars, treeVars, workerVars, historyVars, Waiting, Resting
<1>1. ASSUME NEW f \in File, AddFile(f) PROVE StepInv'
  <2>1. /\ UNCHANGED <<poolVars, at, opened, life, tree, unread, inbox, parsing, ignore, current>>
        /\ StopAndStartTimer /\ raced' = (raced \/ at \in {"macros", "list"})
    BY <1>1 DEF AddFile, ListFile, Adds
  <2>2. WorkInv' /\ FileInv' /\ EndInv' /\ Tasks' = Tasks /\ Pool!Listed' = Pool!Listed
    BY <2>1, Beside DEF poolVars
  <2>3. due' = due
    BY <2>1 DEF poolVars
  <2>4. TurnInv'
    BY <2>1, <2>2, <2>3 DEF StepInv, TurnInv, StopAndStartTimer, More
  <2> QED
    BY <2>2, <2>4 DEF StepInv
<1>2. ASSUME NEW defs \in BOOLEAN, AddPredefinedMacros(defs) PROVE StepInv'
  <2>1. /\ UNCHANGED <<poolVars, at, opened, life, tree, unread, inbox, parsing, ignore, current>>
        /\ StopAndStartTimer /\ raced' = (raced \/ at \in {"macros", "list"})
    BY <1>2 DEF AddPredefinedMacros, Adds
  <2>2. WorkInv' /\ FileInv' /\ EndInv' /\ Tasks' = Tasks /\ Pool!Listed' = Pool!Listed
    BY <2>1, Beside DEF poolVars
  <2>3. due' = due
    BY <2>1 DEF poolVars
  <2>4. TurnInv'
    BY <2>1, <2>2, <2>3 DEF StepInv, TurnInv, StopAndStartTimer, More
  <2> QED
    BY <2>2, <2>4 DEF StepInv
<1>3. ASSUME NEW f \in File, RemoveFile(f) PROVE StepInv'
  <2>1. /\ UNCHANGED <<poolVars, at, opened, life, unread, inbox, phaseVars, listVars, timer, raced>>
        /\ tree' = [tree EXCEPT ![f] = "no"]
    BY <1>3 DEF RemoveFile
  <2>2. UNCHANGED <<pending, claimed, done, due, open>>
    BY <2>1 DEF poolVars
  <2>3. claimed' = claimed /\ Tasks' = Tasks /\ Pool!Listed' = Pool!Listed
    BY <2>2, PoolFrame
  <2>4. \A g \in File : tree'[g] = IF g = f THEN "no" ELSE tree[g]
    BY <2>1 DEF TypeOK
  <2>5. FileInv'
    BY <2>1, <2>3, <2>4 DEF StepInv, FileInv, Awaited
  <2>6. WorkInv' /\ EndInv'
    BY <2>1, <2>3 DEF StepInv, WorkInv, EndInv, NoListUserLeft
  <2>7. TurnInv'
    BY <2>1, <2>2, <2>3 DEF StepInv, TurnInv, More
  <2> QED
    BY <2>5, <2>6, <2>7 DEF StepInv
<1>4. ASSUME NEW f \in File, Reparse(f) PROVE StepInv'
  <2>1. UNCHANGED <<poolVars, at, opened, life, tree, unread, inbox, phaseVars, listVars, timer, raced>>
    BY <1>4 DEF Reparse
  <2>2. WorkInv' /\ FileInv' /\ EndInv' /\ Tasks' = Tasks /\ Pool!Listed' = Pool!Listed
    BY <2>1, Beside DEF poolVars
  <2>3. due' = due
    BY <2>1 DEF poolVars
  <2>4. TurnInv'
    BY <2>1, <2>2, <2>3 DEF StepInv, TurnInv, More
  <2> QED
    BY <2>2, <2>4 DEF StepInv
<1>5. CASE Terminate
  <2>1. /\ life = "alive" /\ life' = "ending" /\ pending' = <<>>
        /\ UNCHANGED <<claimed, done, due, open, added, at, opened, tree>>
    BY <1>5 DEF Terminate, Pool!Discard
  <2>2. Pool!Listed' = {} /\ claimed' = claimed
    BY <2>1, PoolDropped, PoolTypes DEF PoolType
  <2>3. WorkInv' /\ EndInv' /\ TurnInv'
    BY <2>1, <2>2 DEF StepInv, WorkInv, EndInv, NoListUserLeft, TurnInv
  <2>4. FileInv'
    BY <2>1 DEF StepInv, FileInv
  <2> QED
    BY <2>3, <2>4 DEF StepInv
<1>6. CASE OtherStarts
  <2>1. /\ UNCHANGED <<poolVars, at, opened, life, tree, unread, inbox, parsing, ignore, listVars>>
        /\ UNCHANGED <<timer, raced>>
        /\ current = "none"
    BY <1>6 DEF OtherStarts
  <2>2. WorkInv' /\ FileInv' /\ EndInv' /\ Tasks' = Tasks /\ Pool!Listed' = Pool!Listed
    BY <2>1, Beside DEF poolVars
  <2>3. due' = due
    BY <2>1 DEF poolVars
  <2>4. TurnInv'
    BY <2>1, <2>2, <2>3 DEF StepInv, TurnInv, More
  <2> QED
    BY <2>2, <2>4 DEF StepInv
<1> QED
    BY <1>1, <1>2, <1>3, <1>4, <1>5, <1>6 DEF Client

LEMMA EventKeeps ==
    ASSUME TypeOK, StepInv,
           OnBatchTimer \/ ReparseModifiedFiles \/ OnAllThreadsDone \/ OtherEnds
    PROVE  StepInv'
<1> USE DEF listVars, phaseVars, timerVars, treeVars, workerVars, historyVars, Waiting, Resting
<1>1. CASE OtherEnds
  <2>1. /\ UNCHANGED <<poolVars, at, opened, life, tree, unread, inbox, parsing, ignore, listVars>>
        /\ UNCHANGED <<timer, raced>> /\ current = "other"
    BY <1>1 DEF OtherEnds
  <2>2. WorkInv' /\ FileInv' /\ EndInv' /\ Tasks' = Tasks /\ Pool!Listed' = Pool!Listed
    BY <2>1, Beside DEF poolVars
  <2>3. due' = due
    BY <2>1 DEF poolVars
  <2>4. TurnInv'
    BY <2>1, <2>2, <2>3 DEF StepInv, TurnInv, More
  <2> QED
    BY <2>2, <2>4 DEF StepInv
<1>2. CASE ReparseModifiedFiles
  <2>1. /\ UNCHANGED <<poolVars, at, opened, life, tree, unread, inbox, parsing, ignore, current, macros>>
        /\ \/ UNCHANGED <<files, timer, raced>>
           \/ StopAndStartTimer /\ raced' = (raced \/ at \in {"macros", "list"})
    BY <1>2 DEF ReparseModifiedFiles, Adds
  <2>2. WorkInv' /\ FileInv' /\ EndInv' /\ Tasks' = Tasks /\ Pool!Listed' = Pool!Listed
    BY <2>1, Beside DEF poolVars
  <2>3. due' = due
    BY <2>1 DEF poolVars
  <2>4. TurnInv'
    BY <2>1, <2>2, <2>3 DEF StepInv, TurnInv, StopAndStartTimer, More
  <2> QED
    BY <2>2, <2>4 DEF StepInv
<1>3. ASSUME NEW k \in {"batch", "mark"}, AddTask(k), life = "alive",
             UNCHANGED <<at, opened, life, tree, unread>>
      PROVE  /\ WorkInv' /\ FileInv' /\ EndInv' /\ due' = TRUE /\ Tasks' # {}
             /\ \A t \in Pool!Listed' : t \in Pool!Listed \/ t.kind = k
  <2>1. PICK t \in Task : /\ UNCHANGED <<claimed, done, open>> /\ due' = TRUE /\ t.kind = k
                          /\ Pool!Listed' = Pool!Listed \cup {t}
                          /\ Tasks' = Tasks \cup {t}
    BY <1>3, PoolTypes, AddTaskFacts
  <2>2. WorkInv' /\ EndInv'
    BY <1>3, <2>1 DEF StepInv, WorkInv, EndInv, NoListUserLeft
  <2>3. FileInv'
    BY <1>3, <2>1 DEF StepInv, FileInv, Awaited
  <2> QED
    BY <2>1, <2>2, <2>3
<1>4. CASE OnBatchTimer
  <2>1. /\ life = "alive" /\ timer /\ timer' = FALSE
        /\ UNCHANGED <<at, opened, life, tree, unread, inbox, parsing, ignore, listVars, raced>>
    BY <1>4 DEF OnBatchTimer
  <2>2. CASE UNCHANGED <<current, poolVars>>
    <3>1. WorkInv' /\ FileInv' /\ EndInv' /\ Tasks' = Tasks /\ Pool!Listed' = Pool!Listed
        BY <2>1, <2>2, Beside
    <3>2. due' = due
        BY <2>2 DEF poolVars
    <3>3. TurnInv'
        BY <2>1, <2>2, <3>1, <3>2 DEF StepInv, TurnInv, More
    <3> QED
        BY <3>1, <3>3 DEF StepInv
  <2>3. CASE More /\ AddTask("batch") /\ current' = "this"
    <3>1. /\ WorkInv' /\ FileInv' /\ EndInv' /\ due' = TRUE /\ Tasks' # {}
          /\ \A t \in Pool!Listed' : t \in Pool!Listed \/ t.kind = "batch"
        BY <1>3, <2>1, <2>3
    <3>2. TurnInv'
        BY <2>1, <2>3, <3>1 DEF StepInv, TurnInv
    <3> QED
        BY <3>1, <3>2 DEF StepInv
  <2> QED
    BY <1>4, <2>2, <2>3 DEF OnBatchTimer, More
<1>5. CASE OnAllThreadsDone
  <2>1. /\ life = "alive" /\ inbox > 0 /\ inbox' = inbox - 1 /\ inbox \in Nat
        /\ UNCHANGED <<at, opened, life, tree, unread, listVars, raced>>
    BY <1>5 DEF OnAllThreadsDone, TypeOK
  <2>2. CASE UNCHANGED <<poolVars>>
    <3>1. WorkInv' /\ FileInv' /\ EndInv' /\ Tasks' = Tasks /\ Pool!Listed' = Pool!Listed
        BY <2>1, <2>2, Beside
    <3>2. due' = due
        BY <2>2 DEF poolVars
    <3>3. \/ (ignore \/ ~parsing) /\ UNCHANGED <<phaseVars, timer>>
          \/ ~ignore /\ parsing /\ More /\ timer' = TRUE /\ UNCHANGED phaseVars
          \/ ~ignore /\ parsing /\ ~More /\ AddTask("mark")
          \/ ~ignore /\ parsing /\ ~More /\ ignore' = TRUE /\ parsing' = FALSE /\ current' = "none"
        BY <1>5 DEF OnAllThreadsDone
    <3>4. ~AddTask("mark")
        BY <2>2 DEF AddTask, poolVars, TypeOK
    <3>5. claimed = {} => at = "idle"
        BY DEF StepInv, WorkInv
    <3>6. TurnInv'
        BY <2>1, <2>2, <3>1, <3>2, <3>3, <3>4, <3>5 DEF StepInv, TurnInv, More, Tasks
    <3> QED
        BY <3>1, <3>6 DEF StepInv
  <2>3. CASE AddTask("mark") /\ parsing /\ ~ignore /\ ~More
             /\ UNCHANGED <<parsing, ignore, current, timer>>
    <3>1. WorkInv' /\ FileInv' /\ EndInv' /\ due' = TRUE /\ Tasks' # {}
        BY <1>3, <2>1, <2>3
    <3>2. TurnInv'
        BY <2>1, <2>3, <3>1 DEF StepInv, TurnInv, More
    <3> QED
        BY <3>1, <3>2 DEF StepInv
  <2> QED
    BY <1>5, <2>2, <2>3 DEF OnAllThreadsDone
<1> QED
    BY <1>1, <1>2, <1>4, <1>5

LEMMA EndingKeeps ==
    ASSUME TypeOK, StepInv, Terminated \/ ClosePool
    PROVE  StepInv'
<1> USE DEF listVars, phaseVars, timerVars, treeVars, workerVars, historyVars
<1>1. CASE Terminated
  <2>1. /\ life = "ending" /\ life' = "over" /\ claimed = {}
        /\ UNCHANGED <<pending, claimed, done, due, open, at, opened, tree>>
    BY <1>1 DEF Terminated, poolVars
  <2>2. Pool!Listed' = Pool!Listed
    BY <2>1, PoolFrame
  <2> QED
    BY <2>1, <2>2 DEF StepInv, WorkInv, FileInv, EndInv, NoListUserLeft, TurnInv, Tasks
<1>2. CASE ClosePool
  <2>1. /\ life = "over" /\ pending' = <<>> /\ open' \in BOOLEAN
        /\ UNCHANGED <<claimed, done, due, added, at, opened, tree, life>>
    BY <1>2 DEF ClosePool, Pool!Close
  <2>2. Pool!Listed' = {} /\ Tasks' = claimed
    BY <2>1, PoolTypes, PoolDropped
  <2> QED
    BY <2>1, <2>2 DEF StepInv, WorkInv, FileInv, EndInv, NoListUserLeft, TurnInv, Tasks
<1> QED
    BY <1>1, <1>2

-----------------------------------------------------------------------------
(* The worker's steps. *)

LEMMA StartKeeps ==
    ASSUME TypeOK, StepInv, Start
    PROVE  StepInv'
<1> USE DEF listVars, phaseVars, timerVars, treeVars, workerVars, historyVars, guiVars, Go
<1>1. /\ UNCHANGED <<phaseVars, timer, life, inbox, listVars, tree, opened, unread, raced, added>>
      /\ Pool!Claim
    BY DEF Start
<1>2. PICK t \in Task : /\ UNCHANGED <<done, due, open>> /\ claimed = {}
                        /\ t = Head(pending) /\ claimed' = {t}
                        /\ Pool!Listed = Pool!Listed' \cup {t} /\ Tasks' = Tasks
    BY <1>1, PoolTypes, PoolClaim DEF StepInv
<1>3. at = "idle" /\ opened = <<>>
    BY <1>2 DEF StepInv, WorkInv
<1>4. t.kind \in {"batch", "mark", "parse"}
    BY DEF Task
<1>5. /\ t.kind = "batch" => at' = "copy"
      /\ t.kind = "parse" => at' = "parse"
      /\ t.kind = "mark" => at' = "end"
    BY <1>2 DEF Start
<1>6. WorkInv'
    BY <1>1, <1>2, <1>3, <1>4, <1>5 DEF StepInv, WorkInv
<1>7. FileInv'
  <2>1. \A f \in File : Awaited(f) => Awaited(f)'
    BY <1>2, <1>3, <1>5 DEF Awaited
  <2>2. at' # "gap"
    BY <1>4, <1>5
  <2> QED
    BY <1>1, <2>1, <2>2 DEF StepInv, FileInv
<1>8. EndInv'
    BY <1>1, <1>2 DEF StepInv, EndInv, NoListUserLeft
<1>9. TurnInv'
    BY <1>1, <1>2, <1>3, <1>4, <1>5 DEF StepInv, TurnInv, Waiting, Resting, More
<1> QED
    BY <1>6, <1>7, <1>8, <1>9 DEF StepInv

LEMMA BatchKeeps ==
    ASSUME TypeOK, StepInv, CopyBatch \/ ClearPredefinedMacros \/ ClearBatch
    PROVE  StepInv'
<1> USE DEF listVars, phaseVars, timerVars, treeVars, workerVars, historyVars, guiVars, Go
<1>1. /\ UNCHANGED <<pending, claimed, done, due, open, opened, life, tree, unread, inbox,
                     current, timer, raced>>
      /\ at \in {"copy", "macros", "list"} /\ at' \in {"macros", "list", "end"}
    BY DEF CopyBatch, ClearPredefinedMacros, ClearBatch, poolVars
<1>2. Tasks' = Tasks /\ Pool!Listed' = Pool!Listed /\ claimed # {}
    BY <1>1, PoolFrame DEF StepInv, WorkInv
<1>3. WorkInv' /\ EndInv'
    BY <1>1, <1>2 DEF StepInv, WorkInv, EndInv, NoListUserLeft
<1>4. FileInv'
    BY <1>1, <1>2 DEF StepInv, FileInv, Awaited
<1>5. Tasks # {}
    BY <1>2 DEF Tasks
<1>6. TurnInv'
  <2> USE DEF StepInv, TurnInv, Waiting, Resting, More
  <2>1. CASE CopyBatch
    BY <1>1, <1>2, <1>5, <2>1 DEF CopyBatch
  <2>2. CASE ClearPredefinedMacros
    BY <1>1, <1>2, <1>5, <2>2 DEF ClearPredefinedMacros
  <2>3. CASE ClearBatch
    <3>1. /\ files' = <<>> /\ ignore' = FALSE /\ parsing' = (parsing \/ ignore)
          /\ macros' = macros /\ at = "list" /\ at' = "end"
        BY <2>3 DEF ClearBatch
    <3> SUFFICES ASSUME life = "alive", ~raced PROVE TurnInv'
        BY <1>1
    <3>2. parsing' /\ ~ignore' /\ ~macros' /\ ~More'
        BY <3>1
    <3>3. (parsing => inbox = 0) /\ (~parsing => inbox = 0)
        BY <1>5, <3>1, <1>1 DEF TypeOK
    <3> QED
        BY <1>1, <1>2, <1>5, <3>1, <3>2, <3>3
  <2> QED
    BY <2>1, <2>2, <2>3
<1> QED
    BY <1>3, <1>4, <1>6 DEF StepInv

LEMMA ParseNextKeeps ==
    ASSUME TypeOK, StepInv, ParseNext
    PROVE  StepInv'
<1> USE DEF listVars, phaseVars, timerVars, treeVars, workerVars, historyVars, guiVars, Go
<1>1. /\ UNCHANGED <<phaseVars, timer, life, inbox, listVars, at, opened, unread, raced>>
      /\ at = "list"
    BY DEF ParseNext
<1>2. claimed # {}
    BY <1>1 DEF StepInv, WorkInv
<1>3. CASE UNCHANGED <<treeVars, poolVars>>
  <2>1. WorkInv' /\ FileInv' /\ EndInv' /\ Tasks' = Tasks /\ Pool!Listed' = Pool!Listed
    BY <1>1, <1>3, Beside
  <2>2. due' = due
    BY <1>3 DEF poolVars
  <2>3. TurnInv'
    BY <1>1, <2>1, <2>2 DEF StepInv, TurnInv, Waiting, Resting, More
  <2> QED
    BY <2>1, <2>3 DEF StepInv
<1>4. ASSUME NEW f \in File, Reserve(f, TRUE), AddParserThread(f) PROVE StepInv'
  <2>1. PICK t \in Task : /\ UNCHANGED <<claimed, done, open>> /\ due' = TRUE
                          /\ t.kind = "parse" /\ t.file = f
                          /\ Pool!Listed' = Pool!Listed \cup {t}
                          /\ Tasks' = Tasks \cup {t}
    BY <1>4, PoolTypes, AddParserThreadFacts
  <2>2. WorkInv' /\ EndInv'
    BY <1>1, <2>1 DEF StepInv, WorkInv, EndInv, NoListUserLeft
  <2>3. \A g \in File : tree'[g] = IF g = f THEN "assigned" ELSE tree[g]
    BY <1>4 DEF Reserve, TypeOK
  <2>4. FileInv'
    BY <1>1, <2>1, <2>3 DEF StepInv, FileInv, Awaited
  <2>5. Tasks # {}
    BY <1>2 DEF Tasks
  <2>6. TurnInv'
    BY <1>1, <2>1, <2>5 DEF StepInv, TurnInv, Waiting, Resting, More
  <2> QED
    BY <2>2, <2>4, <2>6 DEF StepInv
<1>5. Head(todo) \in File
    BY DEF ParseNext, TypeOK
<1> QED
    BY <1>3, <1>4, <1>5 DEF ParseNext

(* Inside a parse task nothing happens to the pool, and no turn begins or  *)
(* ends.                                                                   *)
LEMMA InTask ==
    ASSUME TypeOK, StepInv, at \in {"parse", "locked", "gap"},
           at' \in {"parse", "locked", "gap", "end"},
           UNCHANGED <<guiVars, listVars, poolVars, raced>>
    PROVE  /\ EndInv' /\ TurnInv' /\ claimed' = claimed /\ Pool!Listed' = Pool!Listed
           /\ claimed # {} /\ life' = life
<1>1. UNCHANGED <<pending, claimed, done, due, open>>
    BY DEF poolVars
<1>2. claimed' = claimed /\ Tasks' = Tasks /\ Pool!Listed' = Pool!Listed /\ claimed # {}
    BY <1>1, PoolFrame DEF StepInv, WorkInv
<1>3. Tasks # {}
    BY <1>2 DEF Tasks
<1>4. EndInv' /\ life' = life
    BY <1>2 DEF StepInv, EndInv, NoListUserLeft, guiVars
<1>5. TurnInv'
    BY <1>1, <1>2, <1>3 DEF StepInv, TurnInv, Waiting, Resting, More, guiVars, listVars,
           phaseVars, timerVars
<1> QED
    BY <1>2, <1>4, <1>5

LEMMA OpenFileKeeps ==
    ASSUME TypeOK, StepInv, OpenFile
    PROVE  StepInv'
<1> USE DEF treeVars, Go
<1>1. /\ UNCHANGED <<guiVars, listVars, poolVars, raced>>
      /\ at = "parse" /\ at' \in {"locked", "end"}
    BY DEF OpenFile
<1>2. /\ EndInv' /\ TurnInv' /\ claimed' = claimed /\ Pool!Listed' = Pool!Listed
      /\ claimed # {} /\ life' = life
    BY <1>1, InTask
<1>3. PICK t \in claimed : claimed = {t} /\ t.file \in File
    BY <1>1, <1>2, PoolTypes DEF PoolType, StepInv, WorkInv, Task
<1>4. opened = <<>> /\ ToSet(<<>>) = {}
    BY <1>1 DEF StepInv, WorkInv, ToSet
<1> DEFINE f == t.file
<1>5. CASE Reserve(f, FALSE) /\ opened' = <<f>> /\ at' = "locked" /\ unread' = unread
  <2>1. WorkInv'
    BY <1>1, <1>2, <1>5 DEF StepInv, WorkInv
  <2>2. \A g \in File : tree'[g] = IF g = f THEN "parsing" ELSE tree[g]
    BY <1>5 DEF Reserve, TypeOK
  <2>3. ToSet(opened') = {f}
    BY <1>5, OneListed
  <2>4. \A g \in File : Awaited(g) => g = f \/ Awaited(g)'
    BY <1>2, <1>3 DEF Awaited
  <2>5. FileInv'
    BY <1>2, <1>4, <1>5, <2>2, <2>3, <2>4 DEF StepInv, FileInv
  <2> QED
    BY <1>2, <2>1, <2>5 DEF StepInv
<1>6. CASE UNCHANGED <<tree, opened>> /\ at' = "end"
           /\ (unread' = unread \cup {f} \/ (~MayReserve(f, FALSE) /\ unread' = unread))
  <2>1. WorkInv'
    BY <1>1, <1>2, <1>4, <1>6 DEF StepInv, WorkInv
  <2>2. \A g \in File : Awaited(g) => g = f \/ Awaited(g)'
    BY <1>2, <1>3 DEF Awaited
  <2>3. tree[f] # "parsing"
    BY <1>3, <1>4 DEF StepInv, FileInv
  <2>4. f \in unread' \/ tree[f] # "assigned"
    BY <1>6 DEF MayReserve, Found
  <2>5. FileInv'
    BY <1>2, <1>4, <1>6, <2>2, <2>3, <2>4 DEF StepInv, FileInv
  <2> QED
    BY <1>2, <2>1, <2>5 DEF StepInv
<1>7. \/ Reserve(f, FALSE) /\ opened' = <<f>> /\ at' = "locked" /\ unread' = unread
      \/ /\ UNCHANGED <<tree, opened>> /\ at' = "end"
         /\ unread' = unread \cup {f} \/ (~MayReserve(f, FALSE) /\ unread' = unread)
  <2>1. PICK u \in claimed :
          \/ Unreadable(u.file) /\ Go("end") /\ UNCHANGED <<treeVars, opened>>
          \/ /\ Reserve(u.file, FALSE) /\ opened' = <<u.file>>
             /\ Go("locked") /\ UNCHANGED <<unread, owed>>
          \/ /\ ~MayReserve(u.file, FALSE)
             /\ Go("end") /\ UNCHANGED <<treeVars, opened, unread, owed>>
    BY DEF OpenFile
  <2>2. u = t
    BY <1>3
  <2> QED
    BY <2>1, <2>2 DEF Unreadable, Reserve
<1> QED
    BY <1>5, <1>6, <1>7

LEMMA IncludeKeeps ==
    ASSUME TypeOK, StepInv, NEW f \in File, Include(f)
    PROVE  StepInv'
<1>1. /\ UNCHANGED <<guiVars, listVars, poolVars, raced, unread>>
      /\ at = "locked" /\ at' = "gap" /\ opened' = Append(opened, f)
      /\ Reserve(f, TRUE)
    BY DEF Include, historyVars, Go
<1>2. /\ EndInv' /\ TurnInv' /\ claimed' = claimed /\ Pool!Listed' = Pool!Listed
      /\ claimed # {} /\ life' = life
    BY <1>1, InTask
<1>3. opened \in Seq(File) /\ opened # <<>>
    BY <1>1 DEF StepInv, WorkInv, TypeOK
<1>4. /\ ToSet(opened') = ToSet(opened) \cup {f} /\ Len(opened') > 1 /\ opened' # <<>>
      /\ Last(opened') = f
    BY <1>1, <1>3, ListGrows DEF Last
<1>5. WorkInv'
    BY <1>1, <1>2, <1>4 DEF StepInv, WorkInv
<1>6. \A g \in File : tree'[g] = IF g = f THEN "assigned" ELSE tree[g]
    BY <1>1 DEF Reserve, TypeOK
<1>7. \A g \in File : Awaited(g) => Awaited(g)'
    BY <1>1, <1>2 DEF Awaited
<1>8. FileInv'
    BY <1>1, <1>2, <1>4, <1>6, <1>7 DEF StepInv, FileInv
<1> QED
    BY <1>2, <1>5, <1>8 DEF StepInv

LEMMA OpenIncludedKeeps ==
    ASSUME TypeOK, StepInv, OpenIncluded
    PROVE  StepInv'
<1> DEFINE f == Last(opened)
<1>1. /\ UNCHANGED <<guiVars, listVars, poolVars, raced>>
      /\ at = "gap" /\ at' = "locked"
      /\ \/ opened' = Front(opened) /\ UNCHANGED tree /\ unread' = unread \cup {f}
         \/ Reserve(f, FALSE) /\ UNCHANGED <<opened, unread>>
    BY DEF OpenIncluded, treeVars, Go, Unreadable
<1>2. /\ EndInv' /\ TurnInv' /\ claimed' = claimed /\ Pool!Listed' = Pool!Listed
      /\ claimed # {} /\ life' = life
    BY <1>1, InTask
<1>3. opened \in Seq(File) /\ opened # <<>> /\ Len(opened) > 1 /\ Len(opened) \in Nat
    BY <1>1 DEF StepInv, WorkInv, TypeOK
<1>4. /\ f \in File /\ f \in ToSet(opened) /\ Front(opened) # <<>>
      /\ \A x \in ToSet(opened) : x = f \/ x \in ToSet(Front(opened))
    BY <1>3, ListShrinks
<1>5. \A g \in File : Awaited(g) => Awaited(g)'
    BY <1>1, <1>2 DEF Awaited
<1> HIDE DEF f
<1>6. WorkInv'
    BY <1>1, <1>2, <1>3, <1>4 DEF StepInv, WorkInv
<1>7. CASE opened' = Front(opened) /\ UNCHANGED tree /\ unread' = unread \cup {f}
  <2>1. tree[f] # "parsing"
    BY <1>1 DEF StepInv, FileInv, f
  <2>2. FileInv'
    BY <1>1, <1>2, <1>4, <1>5, <1>7, <2>1 DEF StepInv, FileInv
  <2> QED
    BY <1>2, <1>6, <2>2 DEF StepInv
<1>8. CASE Reserve(f, FALSE) /\ UNCHANGED <<opened, unread>>
  <2>1. \A g \in File : tree'[g] = IF g = f THEN "parsing" ELSE tree[g]
    BY <1>8 DEF Reserve, TypeOK
  <2>2. FileInv'
    BY <1>1, <1>2, <1>4, <1>5, <1>8, <2>1 DEF StepInv, FileInv
  <2> QED
    BY <1>2, <1>6, <2>2 DEF StepInv
<1> QED
    BY <1>1, <1>7, <1>8

LEMMA CloseFileKeeps ==
    ASSUME TypeOK, StepInv, CloseFile
    PROVE  StepInv'
<1> DEFINE f == Last(opened)
<1>1. /\ UNCHANGED <<guiVars, listVars, poolVars, raced, unread>>
      /\ at = "locked" /\ at' = IF Len(opened) = 1 THEN "end" ELSE "locked"
      /\ opened' = Front(opened) /\ tree' = [tree EXCEPT ![f] = "done"]
    BY DEF CloseFile, Go
<1>2. /\ EndInv' /\ TurnInv' /\ claimed' = claimed /\ Pool!Listed' = Pool!Listed
      /\ claimed # {} /\ life' = life
    BY <1>1, InTask
<1>3. opened \in Seq(File) /\ opened # <<>>
    BY <1>1 DEF StepInv, WorkInv, TypeOK
<1>4. /\ f \in File /\ (Front(opened) = <<>> <=> Len(opened) = 1)
      /\ \A x \in ToSet(opened) : x = f \/ x \in ToSet(Front(opened))
    BY <1>3, ListShrinks
<1>5. \A g \in File : Awaited(g) => Awaited(g)'
    BY <1>1, <1>2 DEF Awaited
<1>6. \A g \in File : tree'[g] = IF g = f THEN "done" ELSE tree[g]
    BY <1>1 DEF TypeOK
<1> HIDE DEF f
<1>7. WorkInv'
    BY <1>1, <1>2, <1>4 DEF StepInv, WorkInv
<1>8. FileInv'
    BY <1>1, <1>2, <1>4, <1>5, <1>6 DEF StepInv, FileInv
<1> QED
    BY <1>2, <1>7, <1>8 DEF StepInv

LEMMA EndTaskKeeps ==
    ASSUME TypeOK, StepInv, EndTask
    PROVE  StepInv'
<1> USE DEF listVars, phaseVars, timerVars, treeVars, workerVars, historyVars, guiVars, Go
<1>1. /\ UNCHANGED <<phaseVars, timer, life, inbox, listVars, tree, opened, unread, raced, added>>
      /\ at = "end" /\ at' = "idle"
    BY DEF EndTask
<1>2. PICK t \in claimed : Pool!Complete(t)
    BY DEF EndTask
<1>3. claimed' = {} /\ UNCHANGED <<due, open>> /\ Pool!Listed' = Pool!Listed /\ Tasks' = Pool!Listed
    BY <1>1, <1>2, PoolTypes, PoolComplete DEF StepInv
<1>4. WorkInv' /\ EndInv'
    BY <1>1, <1>3 DEF StepInv, WorkInv, EndInv, NoListUserLeft
<1>5. FileInv'
    BY <1>1, <1>3 DEF StepInv, FileInv, Awaited
<1>6. Tasks # {} /\ (Tasks' # {} => Tasks # {})
    BY <1>2 DEF Tasks
<1>7. TurnInv'
    BY <1>1, <1>3, <1>6 DEF StepInv, TurnInv, Waiting, Resting, More
<1> QED
    BY <1>4, <1>5, <1>7 DEF StepInv

LEMMA AnnounceKeeps ==
    ASSUME TypeOK, StepInv, Announce
    PROVE  StepInv'
<1> USE DEF listVars, phaseVars, timerVars, treeVars, workerVars, historyVars
<1>1. /\ UNCHANGED <<phaseVars, timer, life, listVars, tree, at, opened, unread, raced>>
      /\ UNCHANGED <<pending, claimed>> /\ inbox' = inbox + 1 /\ due' = FALSE
      /\ due /\ pending = <<>> /\ claimed = {} /\ inbox \in Nat
    BY DEF Announce, Pool!Announce, TypeOK
<1>2. Tasks = {} /\ Tasks' = {} /\ Pool!Listed' = Pool!Listed
    BY <1>1 DEF Tasks, Pool!Listed
<1>3. WorkInv' /\ EndInv'
    BY <1>1, <1>2 DEF StepInv, WorkInv, EndInv, NoListUserLeft
<1>4. FileInv'
    BY <1>1, <1>2 DEF StepInv, FileInv, Awaited
<1>5. TurnInv'
    BY <1>1, <1>2 DEF StepInv, TurnInv, Waiting, Resting, More
<1> QED
    BY <1>3, <1>4, <1>5 DEF StepInv

-----------------------------------------------------------------------------

LEMMA ClientInit == Init => ClientInv
<1> SUFFICES ASSUME Init PROVE ClientInv
    OBVIOUS
<1> USE DEF Init
<1>1. /\ pending = <<>> /\ Len(pending) = 0 /\ 1..0 = {} /\ claimed = {} /\ done = {}
      /\ due = FALSE /\ open = TRUE /\ added = 0
    BY DEF Pool!Init
<1>2. Pool!Listed = {} /\ Tasks = {}
    BY <1>1 DEF Pool!Listed, Tasks
<1>3. files \in Seq(File) /\ IsInjective(files) /\ owed \subseteq File
    BY ParserAssumption DEF ToSet
<1>4. PoolType
  <2>1. <<>> \in Seq(Task) /\ 0 \in Nat /\ {} \subseteq Task
    OBVIOUS
  <2> QED
    BY ONLY <1>1, <2>1 DEF PoolType
<1>a. WorkType
    BY DEF WorkType
<1>5. GuiType
    BY <1>3 DEF GuiType
<1>6. HistoryType
    BY <1>3 DEF HistoryType
<1>7. WorkInv /\ EndInv
    BY <1>1, <1>2 DEF WorkInv, EndInv, NoListUserLeft
<1>8. FileInv
    BY DEF FileInv
<1>9. TurnInv
    BY <1>1, <1>2 DEF TurnInv, Waiting, Resting
<1> QED
    BY <1>4, <1>a, <1>5, <1>6, <1>7, <1>8, <1>9, TypeParts DEF ClientInv, StepInv

LEMMA ClientNext ==
    ASSUME ClientInv, [Next]_vars
    PROVE  ClientInv'
<1> USE DEF ClientInv
<1>1. CASE UNCHANGED vars
  <2>1. /\ UNCHANGED <<pending, claimed, done, due, open, added>>
        /\ UNCHANGED <<listVars, phaseVars, timerVars, treeVars, inbox, life, workerVars,
                       historyVars>>
    BY <1>1 DEF vars, poolVars
  <2>2. claimed' = claimed /\ Tasks' = Tasks /\ Pool!Listed' = Pool!Listed
    BY <2>1, PoolFrame
  <2>3. TypeOK'
    BY <2>1 DEF TypeOK, listVars, phaseVars, timerVars, treeVars, workerVars, historyVars
  <2>4. StepInv'
    BY <2>1, <2>2 DEF StepInv, WorkInv, FileInv, Awaited, EndInv, NoListUserLeft, TurnInv,
           Waiting, Resting, More, listVars, phaseVars, timerVars, treeVars, workerVars,
           historyVars
  <2> QED
    BY <2>3, <2>4
<1>2. CASE Next
  <2>1. TypeOK'
    BY <1>2, GuiTypes, WorkerTypes DEF Next, StepInv
  <2>2. StepInv'
    BY <1>2, CallKeeps, EventKeeps, EndingKeeps, StartKeeps, BatchKeeps, ParseNextKeeps,
       OpenFileKeeps, IncludeKeeps, OpenIncludedKeeps, CloseFileKeeps, EndTaskKeeps,
       AnnounceKeeps DEF Next, Worker
  <2> QED
    BY <2>1, <2>2
<1> QED
    BY <1>1, <1>2

(* ClientInv is an invariant of the parser and its worker.                 *)
THEOREM ClientInvariant == Spec => []ClientInv
<1> QED
    BY ClientInit, ClientNext, PTL DEF Spec

(* Every variable keeps its type, the pool's and the worker's included.    *)
THEOREM TypeCorrect == Spec => []TypeOK
<1>1. ClientInv => TypeOK
    BY DEF ClientInv
<1> QED
    BY <1>1, ClientInvariant, PTL

(* ReserveFileForParsing never leaves a file reserved that nobody is going *)
(* to parse, whatever is removed, reparsed or included meanwhile.          *)
THEOREM ReservedIsAwaited == Spec => []ReservedHasTask
<1>1. ASSUME ClientInv PROVE ReservedHasTask
  <2> SUFFICES ASSUME life = "alive", NEW f \in File, tree[f] \in {"assigned", "parsing"}
               PROVE  \/ \E t \in Tasks : t.kind = "parse" /\ t.file = f
                      \/ f \in ToSet(opened)
                      \/ f \in unread
    BY DEF ReservedHasTask
  <2>1. Awaited(f) \/ f \in ToSet(opened) \/ f \in unread
    BY <1>1 DEF ClientInv, StepInv, FileInv
  <2>2. Awaited(f) => \E t \in Tasks : t.kind = "parse" /\ t.file = f
    BY <1>1 DEF ClientInv, StepInv, WorkInv, Awaited, Tasks
  <2> QED
    BY <2>1, <2>2
<1> QED
    BY <1>1, ClientInvariant, PTL

(* A parser that has tasks in its pool is the current one, so that two     *)
(* parsers never parse at the same time (s_CurrentParser).                 *)
THEOREM ParsersTakeTurns == Spec => []OnlyOwnerParses
<1>1. ClientInv => OnlyOwnerParses
    BY DEF ClientInv, StepInv, TurnInv, OnlyOwnerParses
<1> QED
    BY <1>1, ClientInvariant, PTL

(* The parser's own lists outlive every task that uses them.               *)
THEOREM ListsOutliveTasks == Spec => []NoListUserLeft
<1>1. ClientInv => NoListUserLeft
    BY DEF ClientInv, StepInv, EndInv
<1> QED
    BY <1>1, ClientInvariant, PTL
===============================================================================
