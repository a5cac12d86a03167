--------------------------- MODULE BuildQueue_proofs ---------------------------
(***************************************************************************)
(* Proofs about BuildQueue, for every number of process slots, every       *)
(* project and every list of commands: while no end of a process is        *)
(* handled inside another call, commands that wait are alone with their    *)
(* successors, no process is lost, and the end of a build is announced     *)
(* when and as it is.                                                      *)
(***************************************************************************)
EXTENDS BuildQueue, SequenceTheorems, TLAPS

(* The places inside BuildStateManagement.                                 *)
Bsm == {"entered", "listing", "nested", "closing", "over"}

(* Only Rebuild, at the bottom, and a BuildStateManagement that builds the *)
(* next project wait for another call; the latter only for a call of       *)
(* itself.                                                                 *)
ShapeInv ==
    \A i \in 1..Len(stack) :
        /\ i < Len(stack) => stack[i].at \in {"again", "nested"}
        /\ stack[i].at = "again" => i = 1
        /\ i > 1 /\ stack[i - 1].at = "nested" =>
               stack[i].at \in Bsm /\ stack[i].by = "project"

(* DoRunQueue keeps the slot it has found while it switches states, for    *)
(* nothing runs meanwhile; the first pass of Rebuild announces nothing.    *)
FrameInv ==
    \A i \in 1..Len(stack) :
        /\ stack[i].at \in Bsm /\ stack[i].by = "queue" =>
               stack[i].proc \in Slot /\ slot[stack[i].proc] = Idle /\ Running = {}
        /\ stack[i].at = "again" => ~lastStep /\ said = "nothing" /\ ~spoilt

(* A slot is known by the process that runs in it or by the event that     *)
(* tells its end.                                                          *)
SlotInv ==
    /\ \A p \in alive : slot[p.slot] = [is |-> "running", cmd |-> p.cmd]
    /\ \A i \in 1..Len(inbox) : slot[inbox[i].slot].is = "ended"
    /\ \A i, j \in 1..Len(inbox) : inbox[i].slot = inbox[j].slot => i = j

(* Commands are queued and started in the order of their numbers.          *)
OrderInv ==
    /\ \A i, j \in 1..Len(queue) : i < j => queue[i].n < queue[j].n
    /\ \A i \in 1..Len(queue) : queue[i].n <= made
    /\ \A p \in alive : p.cmd.n <= made
    /\ \A p \in alive, i \in 1..Len(queue) : p.cmd.n < queue[i].n
    /\ \A p, q \in alive : Waits(p.cmd) => q.cmd.n >= p.cmd.n

(* The build is over but for the user's program.                           *)
Quiet ==
    /\ project = None
    /\ \A i \in 1..Len(queue) : queue[i].kind = "run"
    /\ \A i \in 1..Len(stack) : stack[i].at \notin {"listing", "nested"}
OverInv ==
    /\ said # "nothing" => Quiet /\ \A p \in alive : p.cmd.kind = "run"
    /\ spoilt /\ ~mended /\ said = "nothing" /\ lastExit => Quiet /\ lastWasRun

CalmInv == ShapeInv /\ FrameInv /\ SlotInv /\ OrderInv /\ OverInv
QueueInv == TypeOK /\ (~nested => CalmInv)

-----------------------------------------------------------------------------
(* Frames, the stack and the commands that are queued. *)

(* BuildStateManagement is called by DoRunQueue with a slot, by the others *)
(* without one.                                                            *)
Called(b, s) == (b = "queue" /\ s \in Slot) \/ (b \in {"begin", "jobend", "project"} /\ s = None)

LEMMA FrameFields ==
    \A f \in Frame :
        /\ f.at \in Bsm \cup {"run", "again"}
        /\ f.at \in {"entered", "closing"} => Called(f.by, f.proc)
        /\ f.at = "over" => Called(f.by, f.proc) \/ f.by = "failed"
        /\ f.at \in {"listing", "nested"} =>
               Called(f.by, f.proc) /\ f.stage \in BuildState /\ f.cmds \in Seq(Kind)
        /\ f.at = "again" => f.kind \in {"bjProject", "bjWorkspace"} /\ f.list \in JobLists
BY DEF Frame, BsmFrame, Bsm, Called

LEMMA RunIsFrame == RunFrame \in Frame /\ RunFrame.at = "run"
BY DEF RunFrame, Frame

LEMMA CallIsFrame ==
    ASSUME NEW b, NEW s, Called(b, s)
    PROVE  /\ CallBSM(b, s) \in Frame /\ CallBSM(b, s).at \in {"entered", "over"}
           /\ CallBSM(b, s).by = b /\ CallBSM(b, s).proc = s
BY DEF CallBSM, Frame, BsmFrame, Called

LEMMA PlainIsFrame ==
    ASSUME NEW p \in {"entered", "closing", "over"}, NEW b, NEW s, Called(b, s)
    PROVE  [at |-> p, by |-> b, proc |-> s] \in Frame
BY DEF Frame, BsmFrame, Called

LEMMA FailedIsFrame ==
    /\ [at |-> "over", by |-> "failed", proc |-> None] \in Frame
    /\ [at |-> "over", by |-> "failed", proc |-> None].at = "over"
    /\ [at |-> "over", by |-> "failed", proc |-> None].by = "failed"
BY DEF Frame

LEMMA ListingIsFrame ==
    ASSUME NEW p \in {"listing", "nested"}, NEW b, NEW s, Called(b, s),
           NEW st \in BuildState, NEW cmds \in Seq(Kind)
    PROVE  [at |-> p, by |-> b, proc |-> s, stage |-> st, cmds |-> cmds] \in Frame
BY DEF Frame, BsmFrame, Called

LEMMA MovedIsFrame ==
    ASSUME NEW f \in Frame
    PROVE  /\ f.at = "listing" =>
                /\ [f EXCEPT !.at = "nested"] \in Frame
                /\ [f EXCEPT !.at = "nested"].at = "nested"
                /\ [f EXCEPT !.at = "nested"].by = f.by
                /\ [f EXCEPT !.at = "nested"].proc = f.proc
           /\ f.at \in {"listing", "nested"} =>
                /\ Closing(f) \in Frame /\ Closing(f).at = "closing"
                /\ Closing(f).by = f.by /\ Closing(f).proc = f.proc
           /\ f.at = "closing" =>
                /\ [f EXCEPT !.at = "over"] \in Frame
                /\ [f EXCEPT !.at = "over"].at = "over"
                /\ [f EXCEPT !.at = "over"].by = f.by
                /\ [f EXCEPT !.at = "over"].proc = f.proc
<1>1. CASE f.at = "listing"
    BY <1>1 DEF Frame, BsmFrame, Closing
<1>2. CASE f.at = "nested"
    BY <1>2 DEF Frame, BsmFrame, Closing
<1>3. CASE f.at = "closing"
    BY <1>3 DEF Frame, BsmFrame
<1> QED
    BY <1>1, <1>2, <1>3

LEMMA TopFacts ==
    ASSUME stack \in Seq(Frame), stack # <<>>
    PROVE  /\ Len(stack) \in Nat \ {0} /\ Top = stack[Len(stack)] /\ Top \in Frame
           /\ Len(stack) \in 1..Len(stack)
BY DEF Top

LEMMA BelowFacts ==
    ASSUME stack \in Seq(Frame), stack # <<>>
    PROVE  /\ Below \in Seq(Frame) /\ Len(Below) = Len(stack) - 1 /\ Len(stack) \in Nat \ {0}
           /\ \A i \in 1..(Len(stack) - 1) : Below[i] = stack[i]
<1>1. Len(stack) \in Nat \ {0}
    OBVIOUS
<1>2. Below = SubSeq(stack, 1, Len(stack) - 1)
    BY DEF Below
<1> DEFINE n == Len(stack) - 1
<1>3. 1 \in Int /\ n \in Int /\ \A i \in 1..n : stack[i] \in Frame
    BY <1>1
<1>4. /\ Below \in Seq(Frame) /\ Len(Below) = IF 1 <= n THEN n - 1 + 1 ELSE 0
      /\ \A i \in 1..(n - 1 + 1) : Below[i] = stack[1 + i - 1]
    BY <1>2, <1>3, SubSeqProperties
<1>5. n \in Nat
    BY <1>1
<1> HIDE DEF n
<1>6. n - 1 + 1 = n /\ (\A i \in 1..n : 1 + i - 1 = i) /\ (1 <= n \/ n = 0)
    BY <1>5
<1>7. Len(Below) = n
    BY <1>4, <1>6
<1>8. \A i \in 1..n : Below[i] = stack[i]
    BY <1>4, <1>6
<1> QED
    BY <1>1, <1>4, <1>7, <1>8 DEF n

LEMMA GotoFacts ==
    ASSUME stack \in Seq(Frame), stack # <<>>, NEW f \in Frame, Goto(f)
    PROVE  /\ stack' \in Seq(Frame) /\ Len(stack') = Len(stack) /\ stack'[Len(stack)] = f
           /\ \A i \in 1..(Len(stack) - 1) : stack'[i] = stack[i]
<1>1. /\ Below \in Seq(Frame) /\ Len(Below) = Len(stack) - 1 /\ Len(stack) \in Nat \ {0}
      /\ \A i \in 1..(Len(stack) - 1) : Below[i] = stack[i]
    BY BelowFacts
<1>2. stack' = Append(Below, f)
    BY DEF Goto
<1> QED
    BY <1>1, <1>2

LEMMA ReturnFacts ==
    ASSUME stack \in Seq(Frame), stack # <<>>, Return
    PROVE  /\ stack' \in Seq(Frame) /\ Len(stack') = Len(stack) - 1
           /\ \A i \in 1..(Len(stack) - 1) : stack'[i] = stack[i]
BY BelowFacts DEF Return

LEMMA PushFacts ==
    ASSUME stack \in Seq(Frame), NEW f \in Frame, Push(f)
    PROVE  /\ stack' \in Seq(Frame) /\ Len(stack') = Len(stack) + 1
           /\ stack'[Len(stack) + 1] = f
           /\ \A i \in 1..Len(stack) : stack'[i] = stack[i]
BY DEF Push

LEMMA NumberedFacts ==
    ASSUME made \in Nat, NEW cmds \in Seq(Kind)
    PROVE  /\ Numbered(cmds) \in Seq(Command) /\ Len(Numbered(cmds)) = Len(cmds)
           /\ \A i \in 1..Len(cmds) : /\ Numbered(cmds)[i].n = made + i
                                      /\ Numbered(cmds)[i].kind = cmds[i]
<1>1. \A i \in 1..Len(cmds) : [n |-> made + i, kind |-> cmds[i]] \in Command
    BY DEF Command
<1>2. Numbered(cmds) \in [1..Len(cmds) -> Command] /\ Len(cmds) \in Nat
    BY <1>1 DEF Numbered
<1>3. Numbered(cmds) \in Seq(Command) /\ Len(Numbered(cmds)) = Len(cmds)
    BY <1>2
<1> QED
    BY <1>3 DEF Numbered

(* AddToCommandQueue keeps what is queued and puts the new commands, with  *)
(* greater numbers, behind it.                                             *)
LEMMA AddFacts ==
    ASSUME queue \in Seq(Command), made \in Nat, NEW cmds \in Seq(Kind),
           AddToCommandQueue(cmds)
    PROVE  /\ queue' \in Seq(Command) /\ made' \in Nat /\ made' >= made
           /\ Len(queue') = Len(queue) + Len(cmds)
           /\ \A i \in 1..Len(queue) : queue'[i] = queue[i]
           /\ \A i \in 1..Len(queue') : i > Len(queue) => queue'[i].n = made + (i - Len(queue))
           /\ made' = made + Len(cmds) /\ Len(cmds) \in Nat
<1> DEFINE new == Numbered(cmds)
<1>1. /\ new \in Seq(Command) /\ Len(new) = Len(cmds)
      /\ \A i \in 1..Len(cmds) : new[i].n = made + i
    BY NumberedFacts
<1>2. queue' = queue \o new /\ made' = made + Len(cmds) /\ Len(cmds) \in Nat
    BY DEF AddToCommandQueue
<1> HIDE DEF new
<1>a. Len(queue) \in Nat
    OBVIOUS
<1>3. /\ queue' \in Seq(Command) /\ Len(queue') = Len(queue) + Len(cmds)
      /\ \A i \in 1..(Len(queue) + Len(cmds)) :
            queue'[i] = IF i <= Len(queue) THEN queue[i] ELSE new[i - Len(queue)]
  <2>1. /\ queue \o new \in Seq(Command) /\ Len(queue \o new) = Len(queue) + Len(new)
        /\ \A i \in 1..(Len(queue) + Len(new)) :
              (queue \o new)[i] = IF i <= Len(queue) THEN queue[i] ELSE new[i - Len(queue)]
    BY <1>1, ConcatProperties
  <2> QED
    BY <1>1, <1>2, <2>1
<1>4. \A i \in 1..Len(queue) : queue'[i] = queue[i]
    BY <1>2, <1>3, <1>a
<1>5. \A i \in 1..Len(queue') : i > Len(queue) =>
          i - Len(queue) \in 1..Len(cmds) /\ queue'[i] = new[i - Len(queue)]
    BY <1>2, <1>3, <1>a
<1> QED
    BY <1>1, <1>2, <1>3, <1>4, <1>5

(* GetNextAvailableProcessIndex gives a free entry of the list, or none.   *)
LEMMA NextAvailableFree ==
    ASSUME NextAvailable # None
    PROVE  NextAvailable \in Slot /\ slot[NextAvailable].is = "free"
<1>1. Free # {} /\ NextAvailable = (CHOOSE s \in Free : TRUE)
    BY DEF NextAvailable
<1>2. NextAvailable \in Free
    BY <1>1
<1> QED
    BY <1>2 DEF Free

(* The commands of a single request are numbered from one.                 *)
LEMMA OnlyFacts ==
    ASSUME NEW cmds \in Seq(Kind), AddOnly(cmds)
    PROVE  /\ queue' \in Seq(Command) /\ made' = Len(queue') /\ made' \in Nat
           /\ \A i \in 1..Len(queue') : queue'[i].n = i
<1>1. Len(cmds) \in Nat /\ \A i \in 1..Len(cmds) : cmds[i] \in Kind
    OBVIOUS
<1>2. \A i \in 1..Len(cmds) : [n |-> i, kind |-> cmds[i]] \in Command
    BY <1>1 DEF Command
<1>3. [i \in 1..Len(cmds) |-> [n |-> i, kind |-> cmds[i]]] \in Seq(Command)
    BY <1>1, <1>2
<1>4. Len(queue') = Len(cmds)
    BY <1>1, <1>3 DEF AddOnly
<1> QED
    BY <1>1, <1>3, <1>4 DEF AddOnly

LEMMA OnlyLists == FileLists \cup {<<"run">>} \subseteq Seq(Kind)
<1>1. {"compile", "step", "run"} \subseteq Kind
    BY DEF Kind
<1>2. <<"compile">> \in Seq(Kind) /\ <<"step">> \in Seq(Kind) /\ <<"run">> \in Seq(Kind)
    BY <1>1
<1>3. <<"compile", "step">> \in Seq(Kind) /\ <<>> \in Seq(Kind)
    BY <1>1
<1> QED
    BY <1>2, <1>3 DEF FileLists

LEMMA RunNumbered ==
    ASSUME made \in Nat
    PROVE  /\ Numbered(<<"run">>) \in Seq(Command) /\ Len(Numbered(<<"run">>)) = 1
           /\ Numbered(<<"run">>)[1].n = made + 1 /\ Numbered(<<"run">>)[1].kind = "run"
<1>1. <<"run">> \in Seq(Kind) /\ Len(<<"run">>) = 1 /\ 1 \in 1..1 /\ <<"run">>[1] = "run"
    BY DEF Kind
<1> QED
    BY <1>1, NumberedFacts

(* MaybeRun leaves nothing, or the program, to be started.                 *)
LEMMA MaybeRunFacts ==
    ASSUME stack \in Seq(Frame), stack # <<>>, made \in Nat, MaybeRun
    PROVE  /\ queue' \in Seq(Command) /\ made' \in Nat /\ made' >= made /\ runAfter' = FALSE
           /\ \/ queue' = <<>> /\ Return /\ UNCHANGED <<made, spoilt, mended>>
              \/ /\ Len(queue') = 1 /\ queue'[1].n = made' /\ queue'[1].kind = "run"
                 /\ made' = made + 1 /\ Goto(RunFrame) /\ spoilt' = FALSE /\ mended' = FALSE
<1>1. CASE queue' = <<>> /\ Return /\ UNCHANGED <<made, spoilt, mended>>
    BY <1>1 DEF MaybeRun
<1>2. CASE /\ queue' = Numbered(<<"run">>) /\ made' = made + 1 /\ Goto(RunFrame)
           /\ spoilt' = FALSE /\ mended' = FALSE
    BY <1>2, RunNumbered DEF MaybeRun
<1> QED
    BY <1>1, <1>2 DEF MaybeRun

-----------------------------------------------------------------------------
(* Types. *)

StateType ==
    /\ job \in {"bjIdle", "bjWorkspace", "bjProject"}
    /\ state \in BuildState /\ next \in BuildState
    /\ project \in Project \cup {None}
ListType ==
    /\ jobs \in Seq(Project)
    /\ mode \in [clean : BOOLEAN, build : BOOLEAN]
    /\ post \in [target : BOOLEAN, project : BOOLEAN]
    /\ runAfter \in BOOLEAN /\ lastStep \in BOOLEAN
QueueType == queue \in Seq(Command) /\ lastWasRun \in BOOLEAN /\ made \in Nat
ProcType ==
    /\ slot \in [Slot -> SlotState]
    /\ alive \subseteq Process /\ inbox \in Seq(Ended)
ExitType ==
    /\ lastExit \in BOOLEAN /\ errors \in BOOLEAN
    /\ spoilt \in BOOLEAN /\ mended \in BOOLEAN
    /\ said \in {"nothing", "finished", "failed"}
AskType == asked \in Nat /\ nested \in BOOLEAN
StackType == stack \in Seq(Frame)

LEMMA TypeParts ==
    TypeOK <=> /\ StateType /\ ListType /\ QueueType /\ ProcType /\ ExitType /\ AskType
               /\ StackType
BY DEF TypeOK, StateType, ListType, QueueType, ProcType, ExitType, AskType, StackType

LEMMA ResetTypes == ResetBuildState => StateType'
BY DEF ResetBuildState, StateType, BuildState

LEMMA BeginTypes ==
    ASSUME StateType, ListType, NEW k \in {"bjProject", "bjWorkspace"}, NEW l \in JobLists,
           NEW m \in [clean : BOOLEAN, build : BOOLEAN], Begin(k, l, m)
    PROVE  /\ StateType' /\ jobs' \in Seq(Project) /\ queue' = <<>> /\ project' # None
           /\ mode' \in [clean : BOOLEAN, build : BOOLEAN]
<1> DEFINE all == (IF k = "bjWorkspace" THEN jobs ELSE <<>>) \o l
<1>1. l \in Seq(Project) /\ l # <<>>
    BY BuildAssumption
<1>2. all \in Seq(Project) /\ all # <<>>
  <2>1. CASE k = "bjWorkspace"
    <3>1. all = jobs \o l /\ jobs \in Seq(Project)
        BY <2>1 DEF ListType
    <3>2. /\ jobs \o l \in Seq(Project) /\ Len(jobs \o l) = Len(jobs) + Len(l)
        BY <1>1, <3>1, ConcatProperties
    <3>3. Len(jobs \o l) # 0
        BY <1>1, <3>1, <3>2
    <3> QED
        BY <3>1, <3>2, <3>3
  <2>2. CASE k # "bjWorkspace"
    <3>1. <<>> \o l = l
        BY <1>1, ConcatEmptySeq
    <3>2. all = <<>> \o l
        BY <2>2
    <3> QED
        BY <1>1, <3>1, <3>2
  <2> QED
    BY <2>1, <2>2
<1>3. /\ job' = k /\ state' = "bsNone" /\ next' = "bsProjectPreBuild"
      /\ project' = Head(all) /\ jobs' = Tail(all) /\ mode' = m /\ queue' = <<>>
    BY DEF Begin
<1> HIDE DEF all
<1>4. Head(all) \in Project /\ Tail(all) \in Seq(Project)
    BY <1>2
<1> QED
    BY <1>3, <1>4, BuildAssumption DEF StateType, BuildState

LEMMA NotifyTypes ==
    ASSUME ExitType, NEW e \in BOOLEAN, NotifyJobDone(e)
    PROVE  said' \in {"nothing", "finished", "failed"} /\ lastExit' \in BOOLEAN
BY DEF NotifyJobDone, ExitType

LEMMA LaunchTypes ==
    ASSUME TypeOK, stack # <<>>, queue # <<>>, NEW s \in Slot,
           Launch(s, Head(queue), Tail(queue))
    PROVE  TypeOK'
<1>1. /\ StateType /\ ListType /\ QueueType /\ ProcType /\ ExitType /\ AskType /\ StackType
      /\ Head(queue) \in Command /\ Tail(queue) \in Seq(Command)
    BY TypeParts DEF QueueType
<1>2. StackType'
    BY <1>1, GotoFacts, RunIsFrame DEF Launch, StackType
<1>3. ListType' /\ AskType'
    BY <1>1 DEF Launch, ListType, AskType, listVars, requestVars
<1>4. CASE /\ slot' = [slot EXCEPT ![s] = [is |-> "running", cmd |-> Head(queue)]]
           /\ alive' = alive \cup {[slot |-> s, cmd |-> Head(queue)]}
           /\ queue' = Tail(queue) /\ UNCHANGED <<buildVars, errors>>
  <2>1. [is |-> "running", cmd |-> Head(queue)] \in SlotState
        /\ [slot |-> s, cmd |-> Head(queue)] \in Process
    BY <1>1 DEF SlotState, Process
  <2>2. ProcType'
    BY <1>1, <1>4, <2>1 DEF Launch, ProcType
  <2>3. StateType' /\ QueueType' /\ ExitType'
    BY <1>1, <1>4 DEF Launch, StateType, QueueType, ExitType, buildVars
  <2> QED
    BY <1>2, <1>3, <2>2, <2>3 DEF TypeOK, StateType, ListType, QueueType, ProcType, ExitType,
           AskType, StackType
<1>5. CASE /\ slot' = [slot EXCEPT ![s] = Idle] /\ queue' = <<>> /\ ResetBuildState
           /\ errors' = TRUE /\ UNCHANGED alive
  <2>1. ProcType'
    BY <1>1, <1>5 DEF Launch, ProcType, SlotState
  <2>2. StateType'
    BY <1>5, ResetTypes
  <2>3. QueueType' /\ ExitType'
    BY <1>1, <1>5 DEF Launch, QueueType, ExitType
  <2> QED
    BY <1>2, <1>3, <2>1, <2>2, <2>3 DEF TypeOK, StateType, ListType, QueueType, ProcType,
           ExitType, AskType, StackType
<1> QED
    BY <1>4, <1>5 DEF Launch

LEMMA StageTypes ==
    ASSUME TypeOK, project # None, NEW st \in BuildState, NEW cmds \in StageLists(st)
    PROVE  cmds \in Seq(Kind)
<1>1. CompileLists \subseteq Seq(Kind)
  <2> SUFFICES ASSUME NEW l \in CompileLists PROVE l \in Seq(Kind)
    OBVIOUS
  <2>1. l \in Seq({"compile", "step", "link"})
    BY ListAssumption
  <2> QED
    BY <2>1 DEF Kind
<1>2. Steps[project] \in Seq(Kind)
  <2>1. Steps[project] \in Seq({"step"})
    BY ListAssumption DEF TypeOK
  <2> QED
    BY <2>1 DEF Kind
<1>3. <<>> \in Seq(Kind)
    OBVIOUS
<1> QED
    BY <1>1, <1>2, <1>3 DEF StageLists, PostLists

LEMMA NextStateTypes ==
    ASSUME StateType, ListType
    PROVE  NextState \in BuildState /\ JobsLeft \in Seq(Project)
<1>1. NextState \in BuildState
    BY DEF NextState, Again, BuildState
<1>2. JobsLeft \in Seq(Project)
    BY DEF JobsLeft, SameProject, ListType
<1> QED
    BY <1>1, <1>2

LEMMA AskTypes ==
    ASSUME TypeOK, Ask
    PROVE  TypeOK'
<1> USE DEF buildVars, listVars, queueVars, procVars, requestVars, exitVars
<1>0. /\ StateType /\ ListType /\ QueueType /\ ProcType /\ ExitType /\ AskType /\ StackType
    BY TypeParts
<1> SUFFICES /\ StateType' /\ ListType' /\ QueueType' /\ ProcType' /\ ExitType' /\ AskType'
             /\ StackType'
    BY DEF TypeOK, StateType, ListType, QueueType, ProcType, ExitType, AskType, StackType
<1>a. ASSUME Asks PROVE /\ asked' \in Nat /\ nested' \in BOOLEAN /\ spoilt' = FALSE
                        /\ mended' = FALSE /\ said' = "nothing" /\ AskType'
    BY <1>0, <1>a DEF Asks, AskType
<1>1. ASSUME NEW l \in JobLists, NEW k \in {"bjProject", "bjWorkspace"},
             NEW m \in [clean : BOOLEAN, build : BOOLEAN], NEW run \in BOOLEAN,
             Build(k, l, m, run)
      PROVE  /\ StateType' /\ ListType' /\ QueueType' /\ ProcType' /\ ExitType' /\ AskType'
             /\ StackType'
  <2>1. Asks /\ Begin(k, l, m) /\ stack' = <<CallBSM("begin", None)>> /\ made' = 0
        /\ UNCHANGED <<post, lastWasRun, procVars, lastExit>> /\ errors' = FALSE
        /\ lastStep' = TRUE /\ runAfter' = (runAfter \/ run)
    BY <1>1 DEF Build
  <2>2. StateType' /\ ListType'
    BY <1>0, <2>1, BeginTypes DEF ListType
  <2>3. QueueType'
    <3>1. queue' = <<>> /\ lastWasRun' = lastWasRun
        BY <1>0, <2>1, BeginTypes
    <3> QED
        BY <1>0, <2>1, <3>1 DEF QueueType
  <2>4. ProcType' /\ ExitType'
    BY <1>0, <1>a, <2>1 DEF ProcType, ExitType
  <2>5. StackType'
    BY <2>1, CallIsFrame DEF StackType, Called
  <2> QED
    BY <1>a, <2>1, <2>2, <2>3, <2>4, <2>5
<1>2. ASSUME NEW l \in JobLists, NEW k \in {"bjProject", "bjWorkspace"}, Rebuild(k, l)
      PROVE  /\ StateType' /\ ListType' /\ QueueType' /\ ProcType' /\ ExitType' /\ AskType'
             /\ StackType'
  <2>1. Asks /\ Begin(k, l, [clean |-> TRUE, build |-> FALSE]) /\ made' = 0
        /\ stack' = <<[at |-> "again", kind |-> k, list |-> l], CallBSM("begin", None)>>
        /\ UNCHANGED <<post, lastWasRun, procVars, lastExit, runAfter>> /\ errors' = FALSE
        /\ lastStep' = FALSE
    BY <1>2 DEF Rebuild
  <2>2. StateType' /\ ListType'
    BY <1>0, <2>1, BeginTypes DEF ListType
  <2>3. QueueType'
    <3>1. queue' = <<>> /\ lastWasRun' = lastWasRun
        BY <1>0, <2>1, BeginTypes
    <3> QED
        BY <1>0, <2>1, <3>1 DEF QueueType
  <2>4. ProcType' /\ ExitType'
    BY <1>0, <1>a, <2>1 DEF ProcType, ExitType
  <2>5. [at |-> "again", kind |-> k, list |-> l] \in Frame
    BY DEF Frame
  <2>6. StackType'
    BY <2>1, <2>5, CallIsFrame DEF StackType, Called
  <2> QED
    BY <1>a, <2>1, <2>2, <2>3, <2>4, <2>6
<1>3. ASSUME CompileFile \/ RunOnly
      PROVE  /\ StateType' /\ ListType' /\ QueueType' /\ ProcType' /\ ExitType' /\ AskType'
             /\ StackType'
  <2>1. Asks /\ (\E cmds \in FileLists \cup {<<"run">>} : AddOnly(cmds)) /\ stack' = <<RunFrame>>
        /\ UNCHANGED <<buildVars, listVars, lastWasRun, procVars, lastExit, runAfter>>
        /\ (errors' = FALSE \/ errors' = errors)
    BY <1>3 DEF CompileFile, RunOnly
  <2>2. StateType' /\ ListType'
    BY <1>0, <2>1 DEF StateType, ListType
  <2>3. QueueType'
    <3>1. queue' \in Seq(Command) /\ made' \in Nat /\ lastWasRun' = lastWasRun
        BY <2>1, OnlyFacts, OnlyLists
    <3> QED
        BY <1>0, <3>1 DEF QueueType
  <2>4. ProcType' /\ ExitType'
    BY <1>0, <1>a, <2>1 DEF ProcType, ExitType
  <2>5. StackType'
    BY <2>1, RunIsFrame DEF StackType
  <2> QED
    BY <1>a, <2>1, <2>2, <2>3, <2>4, <2>5
<1>4. CASE KillProcess
  <2>1. StateType'
    BY <1>4, ResetTypes DEF KillProcess
  <2>2. queue' = <<>> /\ lastWasRun' = lastWasRun /\ made' = made /\ runAfter' = FALSE
        /\ UNCHANGED <<listVars, procVars, exitVars, stack, requestVars>>
    BY <1>4 DEF KillProcess
  <2>3. QueueType'
    BY <1>0, <2>2 DEF QueueType
  <2>4. ListType' /\ ProcType'
    BY <1>0, <2>2 DEF ListType, ProcType
  <2>5. ExitType' /\ AskType' /\ StackType'
    BY <1>0, <2>2 DEF ExitType, AskType, StackType
  <2> QED
    BY <2>1, <2>3, <2>4, <2>5
<1> QED
    BY <1>1, <1>2, <1>3, <1>4 DEF Ask

LEMMA StageStepTypes ==
    ASSUME TypeOK, RebuildAgain \/ EnterStage \/ LeaveStage \/ ResumeStage \/ Close
    PROVE  TypeOK'
<1> USE DEF buildVars, listVars, queueVars, procVars, requestVars, exitVars
<1>0. /\ StateType /\ ListType /\ QueueType /\ ProcType /\ ExitType /\ AskType /\ StackType
    BY TypeParts
<1> SUFFICES /\ StateType' /\ ListType' /\ QueueType' /\ ProcType' /\ ExitType' /\ AskType'
             /\ StackType'
    BY DEF TypeOK, StateType, ListType, QueueType, ProcType, ExitType, AskType, StackType
<1>a. stack # <<>> /\ UNCHANGED <<procVars, exitVars, requestVars>>
    BY DEF RebuildAgain, EnterStage, LeaveStage, ResumeStage, Close, At
<1>b. ProcType' /\ ExitType' /\ AskType'
    BY <1>0, <1>a DEF ProcType, ExitType, AskType
<1>c. Top \in Frame
    BY <1>0, <1>a, TopFacts DEF StackType
<1>1. CASE RebuildAgain
  <2>1. /\ Top.at = "again" /\ Begin(Top.kind, Top.list, [clean |-> FALSE, build |-> TRUE])
        /\ lastStep' = TRUE /\ Goto(CallBSM("begin", None))
        /\ UNCHANGED <<post, lastWasRun, made, runAfter>>
    BY <1>1 DEF RebuildAgain, At
  <2>2. Top.kind \in {"bjProject", "bjWorkspace"} /\ Top.list \in JobLists
    BY <1>c, <2>1, FrameFields
  <2>3. /\ StateType' /\ jobs' \in Seq(Project) /\ queue' = <<>>
        /\ mode' \in [clean : BOOLEAN, build : BOOLEAN]
    BY <1>0, <2>1, <2>2, BeginTypes
  <2>4. ListType' /\ QueueType'
    BY <1>0, <2>1, <2>3 DEF ListType, QueueType
  <2>5. StackType'
    BY <1>0, <1>a, <2>1, GotoFacts, CallIsFrame DEF StackType, Called
  <2> QED
    BY <1>b, <2>3, <2>4, <2>5
<1>2. CASE EnterStage
  <2>1. /\ Top.at = "entered" /\ UNCHANGED <<listVars, lastWasRun, made, runAfter>>
    BY <1>2 DEF EnterStage, At
  <2>2. Called(Top.by, Top.proc)
    BY <1>c, <2>1, FrameFields
  <2>3. ListType'
    BY <1>0, <2>1 DEF ListType
  <2>4. CASE /\ ResetBuildState /\ queue' = <<>>
             /\ Goto([at |-> "over", by |-> Top.by, proc |-> Top.proc])
    <3>1. StateType' /\ QueueType'
        BY <1>0, <2>1, <2>4, ResetTypes DEF QueueType
    <3>2. StackType'
        BY <1>0, <1>a, <2>2, <2>4, GotoFacts, PlainIsFrame DEF StackType
    <3> QED
        BY <1>b, <2>3, <3>1, <3>2
  <2>5. CASE /\ project # None /\ state' = next
             /\ \E cmds \in StageLists(next) :
                   Goto([at |-> "listing", by |-> Top.by, proc |-> Top.proc,
                         stage |-> next, cmds |-> cmds])
             /\ UNCHANGED <<job, next, project, queue>>
    <3>1. PICK cmds \in StageLists(next) :
                   Goto([at |-> "listing", by |-> Top.by, proc |-> Top.proc,
                         stage |-> next, cmds |-> cmds])
        BY <2>5
    <3>2. StateType' /\ QueueType' /\ next \in BuildState
        BY <1>0, <2>1, <2>5 DEF StateType, QueueType
    <3>3. cmds \in Seq(Kind)
        BY <2>5, <3>2, StageTypes
    <3>5. StackType'
        BY <1>0, <1>a, <2>2, <3>1, <3>2, <3>3, GotoFacts, ListingIsFrame DEF StackType
    <3> QED
        BY <1>b, <2>3, <3>2, <3>5
  <2> QED
    BY <1>2, <2>4, <2>5 DEF EnterStage
<1>3. CASE LeaveStage
  <2>1. /\ Top.at = "listing" /\ post' = PostFlags(Top.stage, Top.cmds)
        /\ UNCHANGED <<job, state, mode, lastStep, lastWasRun, runAfter>>
    BY <1>3 DEF LeaveStage, At
  <2>2. Top.stage \in BuildState /\ Top.cmds \in Seq(Kind)
    BY <1>c, <2>1, FrameFields
  <2>3. post' \in [target : BOOLEAN, project : BOOLEAN]
    BY <1>0, <2>1 DEF PostFlags, ListType
  <2>4. CASE /\ next' = NextState /\ jobs' = JobsLeft /\ AddToCommandQueue(Top.cmds)
             /\ Goto(Closing(Top)) /\ UNCHANGED project
    <3>1. StateType'
        BY <1>0, <2>1, <2>4, NextStateTypes DEF StateType
    <3>2. ListType'
        BY <1>0, <2>1, <2>3, <2>4, NextStateTypes DEF ListType
    <3>3. queue' \in Seq(Command) /\ made' \in Nat
        BY <1>0, <2>2, <2>4, AddFacts DEF QueueType
    <3>4. QueueType'
        BY <1>0, <2>1, <3>3 DEF QueueType
    <3>5. StackType'
        BY <1>0, <1>a, <1>c, <2>1, <2>4, GotoFacts, MovedIsFrame DEF StackType
    <3> QED
        BY <1>b, <3>1, <3>2, <3>4, <3>5
  <2>5. CASE /\ jobs # <<>> /\ next' = "bsProjectPreBuild"
             /\ project' = Head(jobs) /\ jobs' = Tail(jobs)
             /\ stack' = Append(Append(Below, [Top EXCEPT !.at = "nested"]),
                                CallBSM("project", None))
             /\ UNCHANGED <<queue, made>>
    <3>1. jobs' \in Seq(Project) /\ project' \in Project
        BY <1>0, <2>5 DEF ListType
    <3>2. StateType'
        BY <1>0, <2>1, <2>5, <3>1 DEF StateType, BuildState
    <3>3. ListType'
        BY <1>0, <2>1, <2>3, <3>1 DEF ListType
    <3>4. QueueType'
        BY <1>0, <2>1, <2>5 DEF QueueType
    <3>5. Below \in Seq(Frame) /\ [Top EXCEPT !.at = "nested"] \in Frame
          /\ CallBSM("project", None) \in Frame
        BY <1>0, <1>a, <1>c, <2>1, BelowFacts, MovedIsFrame, CallIsFrame DEF StackType, Called
    <3>6. StackType'
        BY <2>5, <3>5 DEF StackType
    <3> QED
        BY <1>b, <3>2, <3>3, <3>4, <3>6
  <2> QED
    BY <1>3, <2>4, <2>5 DEF LeaveStage
<1>4. CASE ResumeStage
  <2>1. /\ Top.at = "nested" /\ next' = Again /\ AddToCommandQueue(Top.cmds)
        /\ Goto(Closing(Top))
        /\ UNCHANGED <<job, state, project, listVars, lastWasRun, runAfter>>
    BY <1>4 DEF ResumeStage, At
  <2>2. Top.cmds \in Seq(Kind)
    BY <1>c, <2>1, FrameFields
  <2>3. queue' \in Seq(Command) /\ made' \in Nat
    BY <1>0, <2>1, <2>2, AddFacts DEF QueueType
  <2>4. StateType' /\ ListType'
    BY <1>0, <2>1 DEF StateType, ListType, Again, BuildState
  <2>5. QueueType'
    BY <1>0, <2>1, <2>3 DEF QueueType
  <2>6. StackType'
    BY <1>0, <1>a, <1>c, <2>1, GotoFacts, MovedIsFrame DEF StackType
  <2> QED
    BY <1>b, <2>4, <2>5, <2>6
<1>5. CASE Close
  <2>1. /\ Top.at = "closing" /\ Goto([Top EXCEPT !.at = "over"])
        /\ UNCHANGED <<buildVars, listVars, queueVars, runAfter>>
    BY <1>5 DEF Close, At
  <2>2. StateType' /\ ListType' /\ QueueType'
    BY <1>0, <2>1 DEF StateType, ListType, QueueType
  <2>3. StackType'
    BY <1>0, <1>a, <1>c, <2>1, GotoFacts, MovedIsFrame DEF StackType
  <2> QED
    BY <1>b, <2>2, <2>3
<1> QED
    BY <1>1, <1>2, <1>3, <1>4, <1>5

LEMMA RunStepTypes ==
    ASSUME TypeOK, StopRunning \/ StartNext \/ SwitchState \/ BackInBuild \/ BackInStage
    PROVE  TypeOK'
<1> USE DEF buildVars, listVars, queueVars, procVars, requestVars, exitVars
<1>0. /\ StateType /\ ListType /\ QueueType /\ ProcType /\ ExitType /\ AskType /\ StackType
    BY TypeParts
<1>1. CASE StopRunning \/ SwitchState \/ BackInBuild \/ BackInStage
  <2>1. /\ stack # <<>>
        /\ UNCHANGED <<buildVars, listVars, queueVars, procVars, exitVars, runAfter, requestVars>>
    BY <1>1 DEF StopRunning, SwitchState, BackInBuild, BackInStage, At
  <2>2. StateType' /\ ListType' /\ QueueType'
    BY <1>0, <2>1 DEF StateType, ListType, QueueType
  <2>3. ProcType' /\ ExitType' /\ AskType'
    BY <1>0, <2>1 DEF ProcType, ExitType, AskType
  <2>4. Return \/ \E f \in Frame : Goto(f)
    <3>1. SwitchState => CallBSM("queue", NextAvailable) \in Frame
      <4>1. SwitchState => NextAvailable \in Slot
        BY NextAvailableFree DEF SwitchState
      <4> QED
        BY <4>1, CallIsFrame DEF Called
    <3> QED
        BY <1>1, <3>1, RunIsFrame DEF StopRunning, SwitchState, BackInBuild, BackInStage
  <2>5. StackType'
    BY <1>0, <2>1, <2>4, GotoFacts, ReturnFacts DEF StackType
  <2> QED
    BY <2>2, <2>3, <2>5 DEF TypeOK, StateType, ListType, QueueType, ProcType, ExitType,
           AskType, StackType
<1>2. CASE StartNext
  <2>1. NextAvailable \in Slot
    BY <1>2, NextAvailableFree DEF StartNext
  <2> QED
    BY <1>2, <2>1, LaunchTypes DEF StartNext, At
<1> QED
    BY <1>1, <1>2
LEMMA BackTypes ==
    ASSUME TypeOK, BackInQueue \/ BackInJobEnd
    PROVE  TypeOK'
<1> USE DEF buildVars, listVars, queueVars, procVars, requestVars, exitVars
<1>0. /\ StateType /\ ListType /\ QueueType /\ ProcType /\ ExitType /\ AskType /\ StackType
    BY TypeParts
<1>a. stack # <<>> /\ Top.at = "over"
    BY DEF BackInQueue, BackInJobEnd, At
<1>b. Top \in Frame
    BY <1>0, <1>a, TopFacts DEF StackType
<1>c. UNCHANGED <<procVars, requestVars>> => ProcType' /\ AskType'
    BY <1>0 DEF ProcType, AskType
<1>d. UNCHANGED <<buildVars, listVars, queueVars, exitVars, runAfter>> =>
          StateType' /\ ListType' /\ QueueType' /\ ExitType'
  <2> SUFFICES ASSUME UNCHANGED <<buildVars, listVars, queueVars, exitVars, runAfter>>
               PROVE  StateType' /\ ListType' /\ QueueType' /\ ExitType'
    OBVIOUS
  <2>1. StateType' /\ ListType'
    BY <1>0 DEF StateType, ListType
  <2>2. QueueType' /\ ExitType'
    BY <1>0 DEF QueueType, ExitType
  <2> QED
    BY <2>1, <2>2
<1>e. ASSUME NEW f \in Frame, Goto(f) PROVE StackType'
    BY <1>0, <1>a, <1>e, GotoFacts DEF StackType
<1>f. Return => StackType'
    BY <1>0, <1>a, ReturnFacts DEF StackType
<1>g. ASSUME MaybeRun, UNCHANGED lastWasRun
      PROVE  /\ QueueType' /\ StackType' /\ runAfter' = FALSE
             /\ spoilt' \in BOOLEAN /\ mended' \in BOOLEAN
  <2>1. /\ queue' \in Seq(Command) /\ made' \in Nat /\ runAfter' = FALSE
        /\ \/ Return /\ UNCHANGED <<spoilt, mended>>
           \/ Goto(RunFrame) /\ spoilt' = FALSE /\ mended' = FALSE
    BY <1>0, <1>a, <1>g, MaybeRunFacts DEF StackType, QueueType
  <2>2. QueueType'
    BY <1>0, <1>g, <2>1 DEF QueueType
  <2>3. StackType'
    BY <1>e, <1>f, <2>1, RunIsFrame
  <2>4. spoilt' \in BOOLEAN /\ mended' \in BOOLEAN
    BY <1>0, <2>1 DEF ExitType
  <2> QED
    BY <2>1, <2>2, <2>3, <2>4
<1> USE DEF TypeOK
<1>1. CASE BackInQueue
  <2>1. Top.by = "queue" /\ Top.proc \in Slot
    BY <1>1, <1>a, <1>b, FrameFields DEF BackInQueue, Called
  <2>2. CASE queue # <<>> /\ Launch(Top.proc, Head(queue), Tail(queue))
    BY <1>a, <2>1, <2>2, LaunchTypes
  <2>3. CASE /\ NotifyJobDone(lastExit) /\ ResetBuildState /\ MaybeRun
             /\ UNCHANGED <<listVars, lastWasRun, procVars, errors, requestVars>>
    <3>1. StateType'
        BY <2>3, ResetTypes
    <3>2. QueueType' /\ StackType' /\ runAfter' = FALSE
          /\ spoilt' \in BOOLEAN /\ mended' \in BOOLEAN
        BY <1>g, <2>3
    <3>3. lastExit \in BOOLEAN
        BY <1>0 DEF ExitType
    <3>4. ExitType'
        BY <1>0, <2>3, <3>2, <3>3, NotifyTypes DEF ExitType
    <3>5. ListType'
        BY <1>0, <2>3, <3>2 DEF ListType
    <3> QED
        BY <1>c, <2>3, <3>1, <3>2, <3>4, <3>5, TypeParts DEF StateType, ListType, QueueType,
           ProcType, ExitType, AskType, StackType
  <2>4. CASE /\ Goto(CallBSM("queue", Top.proc))
             /\ UNCHANGED <<buildVars, listVars, queueVars, procVars, exitVars,
                            runAfter, requestVars>>
    <3>1. StackType'
        BY <1>e, <2>1, <2>4, CallIsFrame DEF Called
    <3> QED
        BY <1>c, <1>d, <2>4, <3>1 DEF StateType, ListType, QueueType,
           ProcType, ExitType, AskType, StackType
  <2> QED
    BY <1>1, <2>2, <2>3, <2>4 DEF BackInQueue
<1>2. CASE BackInJobEnd
  <2>1. ProcType' /\ AskType'
    BY <1>2, <1>c DEF BackInJobEnd
  <2>2. CASE /\ Goto(RunFrame) \/ Goto(CallBSM("jobend", None))
             /\ UNCHANGED <<buildVars, listVars, queueVars, exitVars, runAfter>>
    <3>1. RunFrame \in Frame /\ CallBSM("jobend", None) \in Frame
        BY RunIsFrame, CallIsFrame DEF Called
    <3>2. StackType'
        BY <1>e, <2>2, <3>1
    <3> QED
        BY <1>d, <2>1, <2>2, <3>2 DEF StateType, ListType, QueueType,
           ProcType, ExitType, AskType, StackType
  <2>3. CASE /\ JobOver(lastExit, Top.by = "failed")
             /\ UNCHANGED <<mode, post, lastStep, lastWasRun>>
    <3>1. StateType'
        BY <2>3, ResetTypes DEF JobOver
    <3>2. /\ queue' = <<>> /\ Return /\ runAfter' = FALSE
             /\ UNCHANGED <<made, spoilt, mended>>
          \/ MaybeRun
        BY <2>3 DEF JobOver
    <3>3. QueueType' /\ StackType' /\ runAfter' = FALSE
          /\ spoilt' \in BOOLEAN /\ mended' \in BOOLEAN
      <4>1. CASE MaybeRun
        BY <1>g, <2>3, <4>1
      <4>2. CASE /\ queue' = <<>> /\ Return /\ runAfter' = FALSE
                 /\ UNCHANGED <<made, spoilt, mended>>
        <5>1. QueueType'
            BY <1>0, <2>3, <4>2 DEF QueueType
        <5>2. spoilt' \in BOOLEAN /\ mended' \in BOOLEAN
            BY <1>0, <4>2 DEF ExitType
        <5> QED
            BY <1>f, <4>2, <5>1, <5>2
      <4> QED
        BY <3>2, <4>1, <4>2
    <3>4. lastExit \in BOOLEAN /\ lastWasRun \in BOOLEAN /\ errors \in BOOLEAN
        BY <1>0 DEF ExitType, QueueType
    <3>5. errors' \in BOOLEAN
        BY <2>3, <3>4 DEF JobOver
    <3>6. said' \in {"nothing", "finished", "failed"} /\ lastExit' \in BOOLEAN
      <4>1. (lastWasRun \/ lastExit) \in BOOLEAN
        BY <3>4
      <4> QED
        BY <1>0, <2>3, <4>1, NotifyTypes DEF JobOver
    <3>7. ExitType'
        BY <3>3, <3>5, <3>6 DEF ExitType
    <3>8. jobs' = <<>> /\ UNCHANGED <<mode, post, lastStep>>
      <4>1. jobs' = <<>>
        BY <2>3 DEF JobOver
      <4> QED
        BY <2>3, <4>1
    <3>9. ListType'
      <4>1. jobs' \in Seq(Project)
        BY <3>8
      <4>2. /\ mode' \in [clean : BOOLEAN, build : BOOLEAN]
            /\ post' \in [target : BOOLEAN, project : BOOLEAN] /\ lastStep' \in BOOLEAN
        BY <1>0, <3>8 DEF ListType
      <4> QED
        BY <3>3, <4>1, <4>2 DEF ListType
    <3> QED
        BY <2>1, <3>1, <3>3, <3>7, <3>9 DEF StateType, ListType, QueueType,
           ProcType, ExitType, AskType, StackType
  <2> QED
    BY <1>2, <2>2, <2>3 DEF BackInJobEnd
<1> QED
    BY <1>1, <1>2

LEMMA UnboundTypes ==
    ASSUME NEW e \in SlotState
    PROVE  /\ Unbound(e) \in SlotState /\ Unbound(e).is \in {"free", "ended"}
           /\ e.is = "free" <=> e = Idle
           /\ e # Idle => Unbound(e).is = "ended"
BY DEF Unbound, SlotState, Idle

LEMMA EndTypes ==
    ASSUME TypeOK, Ends \/ OnJobEnd
    PROVE  TypeOK'
<1> USE DEF buildVars, listVars, queueVars, procVars, requestVars, exitVars
<1>0. /\ StateType /\ ListType /\ QueueType /\ ProcType /\ ExitType /\ AskType /\ StackType
    BY TypeParts
<1> SUFFICES /\ StateType' /\ ListType' /\ QueueType' /\ ProcType' /\ ExitType' /\ AskType'
             /\ StackType'
    BY DEF TypeOK, StateType, ListType, QueueType, ProcType, ExitType, AskType, StackType
<1>1. ASSUME NEW p \in alive, NEW ok \in BOOLEAN, OnTerminate(p, ok)
      PROVE  /\ StateType' /\ ListType' /\ QueueType' /\ ProcType' /\ ExitType' /\ AskType'
             /\ StackType'
  <2>1. /\ alive' = alive \ {p} /\ slot' = [slot EXCEPT ![p.slot] = Unbound(@)]
        /\ inbox' = Append(inbox, [slot |-> p.slot, cmd |-> p.cmd, ok |-> ok])
        /\ UNCHANGED <<buildVars, listVars, queueVars, exitVars, runAfter, stack, requestVars>>
    BY <1>1 DEF OnTerminate
  <2>2. p.slot \in Slot /\ p.cmd \in Command
    BY <1>0 DEF ProcType, Process
  <2>3. Unbound(slot[p.slot]) \in SlotState
    BY <1>0, <2>2, UnboundTypes DEF ProcType
  <2>4. [slot |-> p.slot, cmd |-> p.cmd, ok |-> ok] \in Ended
    BY <1>1, <2>2 DEF Ended
  <2>5. ProcType'
    <3>1. slot' \in [Slot -> SlotState] /\ alive' \subseteq Process
        BY <1>0, <2>1, <2>3 DEF ProcType
    <3>2. inbox' \in Seq(Ended)
        BY <1>0, <2>1, <2>4 DEF ProcType
    <3> QED
        BY <3>1, <3>2 DEF ProcType
  <2>6. StateType' /\ ListType' /\ QueueType'
    BY <1>0, <2>1 DEF StateType, ListType, QueueType
  <2>7. ExitType' /\ AskType' /\ StackType'
    BY <1>0, <2>1 DEF ExitType, AskType, StackType
  <2> QED
    BY <2>5, <2>6, <2>7
<1>2. CASE OnJobEnd
  <2> DEFINE e == Head(inbox)
  <2>1. inbox # <<>> /\ nested' = (nested \/ stack # <<>>) /\ inbox' = Tail(inbox)
        /\ slot' = [slot EXCEPT ![e.slot] = Idle]
        /\ UNCHANGED <<buildVars, listVars, queueVars, alive, errors, said, runAfter, asked>>
    BY <1>2 DEF OnJobEnd
  <2>2. PICK success \in Success(e) :
            /\ lastExit' = ExitAfter(e.ok, success)
            /\ spoilt' = (spoilt \/ (~e.ok /\ ~success /\ e.cmd.kind # "run"))
            /\ mended' = (mended \/ (spoilt /\ success))
            /\ Push(IF ~success THEN [at |-> "over", by |-> "failed", proc |-> None]
                    ELSE IF queue # <<>> \/ Running # {} THEN RunFrame
                    ELSE CallBSM("jobend", None))
    BY <1>2 DEF OnJobEnd
  <2>3. e \in Ended /\ Tail(inbox) \in Seq(Ended) /\ e.slot \in Slot /\ e.ok \in BOOLEAN
    <3>1. e \in Ended /\ Tail(inbox) \in Seq(Ended)
        BY <1>0, <2>1 DEF ProcType
    <3> QED
        BY <3>1 DEF Ended
  <2>4. success \in BOOLEAN
    BY <2>2, <2>3 DEF Success
  <2>5. ProcType'
    BY <1>0, <2>1, <2>3 DEF ProcType, SlotState
  <2>6. spoilt \in BOOLEAN /\ mended \in BOOLEAN /\ lastExit \in BOOLEAN
    BY <1>0 DEF ExitType
  <2>7. lastExit' \in BOOLEAN
    BY <2>2, <2>3, <2>4, <2>6 DEF ExitAfter
  <2>8. spoilt' \in BOOLEAN /\ mended' \in BOOLEAN
    BY <2>2
  <2>9. ExitType'
    BY <1>0, <2>1, <2>7, <2>8 DEF ExitType
  <2>10. StateType' /\ ListType' /\ QueueType'
    BY <1>0, <2>1 DEF StateType, ListType, QueueType
  <2>11. AskType'
    BY <1>0, <2>1 DEF AskType
  <2>12. (IF ~success THEN [at |-> "over", by |-> "failed", proc |-> None]
          ELSE IF queue # <<>> \/ Running # {} THEN RunFrame
          ELSE CallBSM("jobend", None)) \in Frame
    BY FailedIsFrame, RunIsFrame, CallIsFrame DEF Called
  <2>13. StackType'
    BY <1>0, <2>2, <2>12, PushFacts DEF StackType
  <2> QED
    BY <2>5, <2>9, <2>10, <2>11, <2>13
<1> QED
    BY <1>1, <1>2 DEF Ends

LEMMA NextTypes ==
    ASSUME TypeOK, [Next]_vars
    PROVE  TypeOK'
<1>1. CASE UNCHANGED vars
    BY <1>1 DEF vars, buildVars, listVars, queueVars, procVars, requestVars, exitVars, TypeOK
<1> QED
    BY <1>1, AskTypes, StageStepTypes, RunStepTypes, BackTypes, EndTypes DEF Next, Gui

-----------------------------------------------------------------------------
(* The parts of CalmInv, by what a step does to the stack. *)

(* The last frame moves on; one that builds the next project stays in      *)
(* BuildStateManagement.                                                   *)
Moves(f) ==
    /\ f.at # "again"
    /\ Top.at \in Bsm /\ Top.by = "project" => f.at \in Bsm /\ f.by = "project"

LEMMA GotoShape ==
    ASSUME stack \in Seq(Frame), stack # <<>>, ShapeInv, NEW f \in Frame, Goto(f), Moves(f)
    PROVE  ShapeInv'
<1>1. /\ Len(stack) \in Nat \ {0} /\ Len(stack') = Len(stack) /\ stack'[Len(stack)] = f
      /\ \A i \in 1..(Len(stack) - 1) : stack'[i] = stack[i]
      /\ Top = stack[Len(stack)]
    BY GotoFacts, TopFacts
<1> SUFFICES ASSUME NEW i \in 1..Len(stack)
             PROVE  /\ i < Len(stack) => stack'[i].at \in {"again", "nested"}
                    /\ stack'[i].at = "again" => i = 1
                    /\ i > 1 /\ stack'[i - 1].at = "nested" =>
                           stack'[i].at \in Bsm /\ stack'[i].by = "project"
    BY <1>1 DEF ShapeInv
<1>2. /\ i < Len(stack) => stack[i].at \in {"again", "nested"}
      /\ stack[i].at = "again" => i = 1
      /\ i > 1 /\ stack[i - 1].at = "nested" => stack[i].at \in Bsm /\ stack[i].by = "project"
    BY DEF ShapeInv
<1>3. i > 1 => stack'[i - 1] = stack[i - 1]
    BY <1>1
<1>4. CASE i < Len(stack)
  <2>1. stack'[i] = stack[i]
    BY <1>1, <1>4
  <2> QED
    BY <1>2, <1>3, <2>1
<1>5. CASE i = Len(stack)
    BY <1>1, <1>2, <1>3, <1>5 DEF Moves
<1> QED
    BY <1>1, <1>4, <1>5

LEMMA ReturnShape ==
    ASSUME stack \in Seq(Frame), stack # <<>>, ShapeInv, Return
    PROVE  ShapeInv'
<1>1. /\ Len(stack) \in Nat \ {0} /\ Len(stack') = Len(stack) - 1
      /\ \A i \in 1..(Len(stack) - 1) : stack'[i] = stack[i]
    BY ReturnFacts, BelowFacts
<1> QED
    BY <1>1 DEF ShapeInv

(* What waits below a frame that does not build the next project.          *)
LEMMA BelowAgain ==
    ASSUME stack \in Seq(Frame), stack # <<>>, ShapeInv,
           ~(Top.at \in Bsm /\ Top.by = "project"),
           NEW i \in 1..(Len(stack) - 1)
    PROVE  stack[i].at = "again" /\ i = 1
<1>1. Len(stack) \in Nat \ {0} /\ Top = stack[Len(stack)]
    BY TopFacts
<1>2. stack[Len(stack) - 1].at # "nested"
    BY <1>1 DEF ShapeInv
<1>3. Len(stack) - 1 \in 1..Len(stack) /\ Len(stack) - 1 < Len(stack)
    BY <1>1
<1>4. stack[Len(stack) - 1].at \in {"again", "nested"}
    BY <1>3 DEF ShapeInv
<1>5. stack[Len(stack) - 1].at = "again" => Len(stack) - 1 = 1
    BY <1>3 DEF ShapeInv
<1> QED
    BY <1>1, <1>2, <1>4, <1>5

(* What the frame of Rebuild relies on.                                    *)
KeepsFirstPass == ~lastStep => ~lastStep' /\ said' = said /\ (spoilt' => spoilt)
(* The slot of the frame, if DoRunQueue called, is free.                   *)
HasSlot(f) ==
    f.at \in Bsm /\ f.by = "queue" =>
        f.proc \in Slot /\ slot[f.proc] = Idle /\ Running = {}

LEMMA GotoFrame ==
    ASSUME stack \in Seq(Frame), stack # <<>>, FrameInv, NEW f \in Frame, Goto(f),
           f.at # "again", KeepsFirstPass, slot' = slot, HasSlot(f)
    PROVE  FrameInv'
<1>1. /\ Len(stack) \in Nat \ {0} /\ Len(stack') = Len(stack) /\ stack'[Len(stack)] = f
      /\ \A i \in 1..(Len(stack) - 1) : stack'[i] = stack[i]
    BY GotoFacts, TopFacts
<1>2. Running' = Running
    BY DEF Running
<1> SUFFICES ASSUME NEW i \in 1..Len(stack)
             PROVE  /\ stack'[i].at \in Bsm /\ stack'[i].by = "queue" =>
                           /\ stack'[i].proc \in Slot /\ slot[stack'[i].proc] = Idle
                           /\ Running = {}
                    /\ stack'[i].at = "again" => ~lastStep' /\ said' = "nothing" /\ ~spoilt'
    BY <1>1, <1>2 DEF FrameInv
<1>3. CASE i = Len(stack)
    BY <1>1, <1>3 DEF HasSlot
<1>4. CASE i < Len(stack)
  <2>1. stack'[i] = stack[i]
    BY <1>1, <1>4
  <2> QED
    BY <2>1 DEF FrameInv, KeepsFirstPass
<1> QED
    BY <1>1, <1>3, <1>4

LEMMA ReturnFrame ==
    ASSUME stack \in Seq(Frame), stack # <<>>, FrameInv, Return, KeepsFirstPass, slot' = slot
    PROVE  FrameInv'
<1>1. /\ Len(stack) \in Nat \ {0} /\ Len(stack') = Len(stack) - 1
      /\ \A i \in 1..(Len(stack) - 1) : stack'[i] = stack[i]
    BY ReturnFacts, BelowFacts
<1>2. Running' = Running
    BY DEF Running
<1> SUFFICES ASSUME NEW i \in 1..(Len(stack) - 1)
             PROVE  /\ stack[i].at \in Bsm /\ stack[i].by = "queue" =>
                           /\ stack[i].proc \in Slot /\ slot[stack[i].proc] = Idle
                           /\ Running = {}
                    /\ stack[i].at = "again" => ~lastStep' /\ said' = "nothing" /\ ~spoilt'
    BY <1>1, <1>2 DEF FrameInv
<1> QED
    BY <1>1 DEF FrameInv, KeepsFirstPass

LEMMA NoneAlive ==
    ASSUME TypeOK, SlotInv, Running = {}
    PROVE  alive = {}
<1> SUFFICES ASSUME NEW p \in alive PROVE FALSE
    OBVIOUS
<1>1. slot[p.slot].is = "running"
  <2>1. slot[p.slot] = [is |-> "running", cmd |-> p.cmd]
    BY DEF SlotInv
  <2> QED
    BY <2>1
<1>2. p.slot \in Slot
    BY DEF TypeOK, Process
<1> QED
    BY <1>1, <1>2 DEF Running

(* Emptying the queue disturbs no order.                                   *)
LEMMA OrderEmptied ==
    ASSUME TypeOK, OrderInv, queue' = <<>>, alive' = alive, made' = made
    PROVE  OrderInv'
BY DEF OrderInv

LEMMA OrderAdded ==
    ASSUME TypeOK, OrderInv, NEW cmds \in Seq(Kind), AddToCommandQueue(cmds), alive' = alive
    PROVE  OrderInv'
<1>1. queue \in Seq(Command) /\ made \in Nat /\ Len(queue) \in Nat
    BY DEF TypeOK
<1>2. /\ made' \in Nat /\ made' >= made /\ Len(queue') = Len(queue) + Len(cmds)
      /\ \A i \in 1..Len(queue) : queue'[i] = queue[i]
      /\ \A i \in 1..Len(queue') : i > Len(queue) => queue'[i].n = made + (i - Len(queue))
      /\ made' = made + Len(cmds) /\ Len(cmds) \in Nat
    BY <1>1, AddFacts
<1>3. \A i \in 1..Len(queue) : queue[i].n \in Nat
  <2>1. \A i \in 1..Len(queue) : queue[i] \in Command
    BY <1>1
  <2> QED
    BY <2>1 DEF Command
<1>4. \A p \in alive : p.cmd.n \in Nat
    BY DEF TypeOK, Process, Command
<1>5. \A i \in 1..Len(queue') : \/ i \in 1..Len(queue) /\ queue'[i] = queue[i]
                                \/ i > Len(queue) /\ queue'[i].n = made + (i - Len(queue))
    BY <1>1, <1>2
<1>6. /\ \A i, j \in 1..Len(queue) : i < j => queue[i].n < queue[j].n
      /\ \A i \in 1..Len(queue) : queue[i].n <= made
      /\ \A p \in alive : p.cmd.n <= made
      /\ \A p \in alive, i \in 1..Len(queue) : p.cmd.n < queue[i].n
    BY DEF OrderInv
<1>7. \A i \in 1..Len(queue') : queue'[i].n \in Nat /\ queue'[i].n <= made'
    BY <1>1, <1>2, <1>3, <1>5, <1>6
<1>8. ASSUME NEW i \in 1..Len(queue'), NEW j \in 1..Len(queue'), i < j
      PROVE  queue'[i].n < queue'[j].n
  <2>1. CASE j \in 1..Len(queue)
    BY <1>1, <1>2, <1>6, <1>8, <2>1
  <2>2. CASE j > Len(queue)
    <3>1. queue'[j].n = made + (j - Len(queue)) /\ j \in Nat /\ i \in Nat
        BY <1>1, <1>2, <2>2
    <3>2. CASE i \in 1..Len(queue) /\ queue'[i] = queue[i]
      <4>1. queue'[i].n \in Nat /\ queue'[i].n <= made
        BY <1>3, <1>6, <3>2
      <4> QED
        BY <1>1, <2>2, <3>1, <4>1
    <3>3. CASE i > Len(queue) /\ queue'[i].n = made + (i - Len(queue))
        BY <1>1, <1>8, <3>1, <3>3
    <3> QED
        BY <1>5, <3>2, <3>3
  <2> QED
    BY <1>1, <1>2, <2>1, <2>2
<1>9. ASSUME NEW p \in alive, NEW i \in 1..Len(queue')
      PROVE  p.cmd.n < queue'[i].n
    BY <1>1, <1>3, <1>4, <1>5, <1>6
<1>10. \A p \in alive : p.cmd.n <= made'
    BY <1>1, <1>2, <1>4, <1>6
<1> QED
    BY <1>7, <1>8, <1>9, <1>10 DEF OrderInv

LEMMA OrderMaybeRun ==
    ASSUME TypeOK, OrderInv, stack # <<>>, MaybeRun, alive' = alive
    PROVE  OrderInv'
<1>1. \/ queue' = <<>> /\ made' = made
      \/ Len(queue') = 1 /\ queue'[1].n = made' /\ made' = made + 1
    BY MaybeRunFacts DEF TypeOK
<1>2. \A p \in alive : p.cmd.n \in Nat /\ p.cmd.n <= made
    BY DEF TypeOK, Process, Command, OrderInv
<1>3. made \in Nat
    BY DEF TypeOK
<1>4. CASE queue' = <<>> /\ made' = made
    BY <1>4, OrderEmptied
<1>5. CASE Len(queue') = 1 /\ queue'[1].n = made' /\ made' = made + 1
    BY <1>2, <1>3, <1>5 DEF OrderInv
<1> QED
    BY <1>1, <1>4, <1>5

LEMMA GotoQuiet ==
    ASSUME stack \in Seq(Frame), stack # <<>>, NEW f \in Frame, Goto(f),
           f.at \notin {"listing", "nested"}, Quiet,
           UNCHANGED <<project, queue>> \/ (project' = None /\ queue' = <<>>)
    PROVE  Quiet'
<1>1. /\ Len(stack) \in Nat \ {0} /\ Len(stack') = Len(stack) /\ stack'[Len(stack)] = f
      /\ \A i \in 1..(Len(stack) - 1) : stack'[i] = stack[i]
    BY GotoFacts, TopFacts
<1>2. \A i \in 1..Len(stack') : stack'[i].at \notin {"listing", "nested"}
  <2> SUFFICES ASSUME NEW i \in 1..Len(stack) PROVE stack'[i].at \notin {"listing", "nested"}
    BY <1>1
  <2>1. CASE i = Len(stack)
    BY <1>1, <2>1
  <2>2. CASE i # Len(stack)
    BY <1>1, <2>2 DEF Quiet
  <2> QED
    BY <2>1, <2>2
<1>3. project' = None /\ \A i \in 1..Len(queue') : queue'[i].kind = "run"
    BY DEF Quiet
<1> QED
    BY <1>2, <1>3 DEF Quiet

LEMMA ReturnQuiet ==
    ASSUME stack \in Seq(Frame), stack # <<>>, Return, Quiet, UNCHANGED <<project, queue>>
    PROVE  Quiet'
<1>1. /\ Len(stack) \in Nat \ {0} /\ Len(stack') = Len(stack) - 1
      /\ \A i \in 1..(Len(stack) - 1) : stack'[i] = stack[i]
    BY ReturnFacts, BelowFacts
<1> QED
    BY <1>1 DEF Quiet

(* After a job there is nothing to do but to run the program.              *)
LEMMA DoneQuiet ==
    ASSUME stack \in Seq(Frame), stack # <<>>, ShapeInv,
           ~(Top.at \in Bsm /\ Top.by = "project"), project' = None,
           Return \/ Goto(RunFrame), \A i \in 1..Len(queue') : queue'[i].kind = "run"
    PROVE  Quiet'
<1>1. Len(stack) \in Nat \ {0}
    OBVIOUS
<1>2. \A i \in 1..(Len(stack) - 1) : stack[i].at = "again"
    BY BelowAgain
<1>3. /\ \A i \in 1..(Len(stack) - 1) : stack'[i] = stack[i]
      /\ Len(stack') \in {Len(stack) - 1, Len(stack)}
      /\ Len(stack') = Len(stack) => stack'[Len(stack)].at = "run"
    BY <1>1, GotoFacts, ReturnFacts, RunIsFrame
<1>4. ASSUME NEW i \in 1..Len(stack') PROVE stack'[i].at \notin {"listing", "nested"}
  <2>1. CASE i \in 1..(Len(stack) - 1)
    BY <1>2, <1>3, <2>1
  <2>2. CASE i = Len(stack) /\ Len(stack') = Len(stack)
    BY <1>3, <2>2
  <2> QED
    BY <1>1, <1>3, <2>1, <2>2
<1> QED
    BY <1>4 DEF Quiet

KeepsExit == UNCHANGED <<said, spoilt, mended, lastExit, lastWasRun, alive>>

LEMMA GotoOver ==
    ASSUME stack \in Seq(Frame), stack # <<>>, OverInv, NEW f \in Frame, Goto(f),
           f.at \notin {"listing", "nested"}, KeepsExit,
           UNCHANGED <<project, queue>> \/ (project' = None /\ queue' = <<>>)
    PROVE  OverInv'
<1>1. Quiet => Quiet'
    BY GotoQuiet
<1> QED
    BY <1>1 DEF OverInv, KeepsExit

LEMMA ReturnOver ==
    ASSUME stack \in Seq(Frame), stack # <<>>, OverInv, Return, KeepsExit,
           UNCHANGED <<project, queue>>
    PROVE  OverInv'
<1>1. Quiet => Quiet'
    BY ReturnQuiet
<1> QED
    BY <1>1 DEF OverInv, KeepsExit

LEMMA BusyOver ==
    ASSUME OverInv, ~Quiet, KeepsExit
    PROVE  OverInv'
BY DEF OverInv, KeepsExit

LEMMA SlotKept ==
    ASSUME SlotInv, UNCHANGED procVars
    PROVE  SlotInv'
BY DEF SlotInv, procVars

LEMMA OrderKept ==
    ASSUME OrderInv, UNCHANGED <<queue, alive, made>>
    PROVE  OrderInv'
BY DEF OrderInv

(* The steps that only change the stack, or give the build up.             *)
LEMMA GotoCalm ==
    ASSUME TypeOK, CalmInv, stack # <<>>, NEW f \in Frame, Goto(f), Moves(f), HasSlot(f),
           f.at \notin {"listing", "nested"},
           UNCHANGED <<procVars, exitVars, lastStep, lastWasRun, made>>,
           UNCHANGED <<project, queue>> \/ (project' = None /\ queue' = <<>>)
    PROVE  CalmInv'
<1>1. stack \in Seq(Frame) /\ ShapeInv /\ FrameInv /\ SlotInv /\ OrderInv /\ OverInv
    BY DEF CalmInv, TypeOK
<1>2. KeepsExit /\ KeepsFirstPass /\ slot' = slot /\ alive' = alive /\ made' = made
    BY DEF KeepsExit, KeepsFirstPass, procVars, exitVars
<1>3. f.at # "again"
    BY DEF Moves
<1>4. ShapeInv' /\ FrameInv'
    BY <1>1, <1>2, <1>3, GotoShape, GotoFrame
<1>5. SlotInv' /\ OrderInv'
    BY <1>1, <1>2, SlotKept, OrderKept, OrderEmptied
<1>6. OverInv'
    BY <1>1, <1>2, GotoOver
<1> QED
    BY <1>4, <1>5, <1>6 DEF CalmInv

LEMMA ReturnCalm ==
    ASSUME TypeOK, CalmInv, stack # <<>>, Return,
           UNCHANGED <<procVars, exitVars, lastStep, lastWasRun, made, project, queue>>
    PROVE  CalmInv'
<1>1. stack \in Seq(Frame) /\ ShapeInv /\ FrameInv /\ SlotInv /\ OrderInv /\ OverInv
    BY DEF CalmInv, TypeOK
<1>2. KeepsExit /\ KeepsFirstPass /\ slot' = slot /\ alive' = alive
    BY DEF KeepsExit, KeepsFirstPass, procVars, exitVars
<1>3. ShapeInv' /\ FrameInv'
    BY <1>1, <1>2, ReturnShape, ReturnFrame
<1>4. SlotInv' /\ OrderInv' /\ OverInv'
    BY <1>1, <1>2, SlotKept, OrderKept, ReturnOver
<1> QED
    BY <1>3, <1>4 DEF CalmInv

(* A process is started, or cannot be, in a slot that is free.             *)
LEMMA LaunchCalm ==
    ASSUME TypeOK, CalmInv, stack # <<>>, queue # <<>>, NEW s \in Slot, slot[s] = Idle,
           ~(Top.at \in Bsm /\ Top.by = "project"),
           Running # {} => ~Waits(Head(queue)),
           Launch(s, Head(queue), Tail(queue))
    PROVE  CalmInv'
<1>1. stack \in Seq(Frame) /\ ShapeInv /\ FrameInv /\ SlotInv /\ OrderInv /\ OverInv
    BY DEF CalmInv, TypeOK
<1>2. /\ Goto(RunFrame) /\ lastWasRun' = (Head(queue).kind = "run")
      /\ UNCHANGED <<listVars, made, inbox, lastExit, spoilt, mended, said,
                     runAfter, requestVars>>
    BY DEF Launch
<1>3. \/ /\ slot' = [slot EXCEPT ![s] = [is |-> "running", cmd |-> Head(queue)]]
         /\ alive' = alive \cup {[slot |-> s, cmd |-> Head(queue)]}
         /\ queue' = Tail(queue) /\ project' = project
      \/ /\ slot' = [slot EXCEPT ![s] = Idle] /\ alive' = alive
         /\ queue' = <<>> /\ project' = None
    BY DEF Launch, ResetBuildState, buildVars
<1>4. RunFrame \in Frame /\ RunFrame.at = "run"
    BY RunIsFrame
<1>5. Moves(RunFrame)
    BY <1>4 DEF Moves
<1>6. ShapeInv'
    BY <1>1, <1>2, <1>4, <1>5, GotoShape
<1>7. FrameInv'
  <2>1. /\ Len(stack) \in Nat \ {0} /\ Len(stack') = Len(stack)
        /\ stack'[Len(stack)] = RunFrame
        /\ \A i \in 1..(Len(stack) - 1) : stack'[i] = stack[i]
    BY <1>1, <1>2, <1>4, GotoFacts, TopFacts
  <2>2. \A i \in 1..(Len(stack) - 1) : stack[i].at = "again"
    BY <1>1, BelowAgain
  <2>3. \A i \in 1..Len(stack') : stack'[i].at \in {"run", "again"}
    BY <1>4, <2>1, <2>2
  <2>4. \A i \in 1..Len(stack') : stack'[i].at = "again" =>
            ~lastStep' /\ said' = "nothing" /\ ~spoilt'
    BY <1>1, <1>2, <1>4, <2>1 DEF FrameInv, listVars
  <2> QED
    BY <2>3, <2>4 DEF FrameInv, Bsm
<1>8. slot \in [Slot -> SlotState] /\ alive \subseteq Process /\ inbox \in Seq(Ended)
    BY DEF TypeOK
<1>9. SlotInv'
  <2>1. \A p \in alive : p.slot \in Slot /\ p.slot # s
    <3> SUFFICES ASSUME NEW p \in alive PROVE p.slot \in Slot /\ p.slot # s
        OBVIOUS
    <3>1. p.slot \in Slot
        BY <1>8 DEF Process
    <3>2. slot[p.slot] = [is |-> "running", cmd |-> p.cmd]
        BY <1>1 DEF SlotInv
    <3>3. slot[p.slot].is = "running" /\ slot[s].is = "free"
        BY <3>2 DEF Idle
    <3> QED
        BY <3>1, <3>3
  <2>2. \A i \in 1..Len(inbox) : inbox[i].slot \in Slot /\ inbox[i].slot # s
    <3> SUFFICES ASSUME NEW i \in 1..Len(inbox)
                 PROVE  inbox[i].slot \in Slot /\ inbox[i].slot # s
        OBVIOUS
    <3>1. inbox[i] \in Ended
        BY <1>8
    <3>2. inbox[i].slot \in Slot
        BY <3>1 DEF Ended
    <3>3. slot[inbox[i].slot].is = "ended"
        BY <1>1 DEF SlotInv
    <3>4. slot[s].is = "free"
        BY DEF Idle
    <3> QED
        BY <3>2, <3>3, <3>4
  <2>3. \A r \in Slot : r # s => slot'[r] = slot[r]
    BY <1>3, <1>8
  <2>4. inbox' = inbox
    BY <1>2
  <2>5. \A p \in alive' : slot'[p.slot] = [is |-> "running", cmd |-> p.cmd]
    <3> SUFFICES ASSUME NEW p \in alive'
                 PROVE  slot'[p.slot] = [is |-> "running", cmd |-> p.cmd]
        OBVIOUS
    <3>1. CASE p \in alive
      <4>1. slot[p.slot] = [is |-> "running", cmd |-> p.cmd]
        BY <1>1, <3>1 DEF SlotInv
      <4> QED
        BY <2>1, <2>3, <3>1, <4>1
    <3>2. CASE p \notin alive
      <4>1. p = [slot |-> s, cmd |-> Head(queue)]
            /\ slot' = [slot EXCEPT ![s] = [is |-> "running", cmd |-> Head(queue)]]
        BY <1>3, <3>2
      <4> QED
        BY <1>8, <4>1
    <3> QED
        BY <3>1, <3>2
  <2> QED
    BY <1>1, <2>2, <2>3, <2>4, <2>5 DEF SlotInv
<1>10. OrderInv'
  <2>1. CASE alive' = alive /\ queue' = <<>>
    BY <1>1, <1>2, <2>1, OrderEmptied
  <2>2. CASE /\ alive' = alive \cup {[slot |-> s, cmd |-> Head(queue)]}
             /\ queue' = Tail(queue)
    <3>1. /\ queue \in Seq(Command) /\ Len(queue) \in Nat \ {0} /\ Head(queue) = queue[1]
          /\ Len(queue') = Len(queue) - 1
          /\ \A i \in 1..Len(queue') : queue'[i] = queue[i + 1]
        BY <2>2 DEF TypeOK
    <3>2. \A i \in 1..Len(queue) : queue[i].n \in Nat
      <4>1. \A i \in 1..Len(queue) : queue[i] \in Command
        BY <3>1
      <4> QED
        BY <4>1 DEF Command
    <3>3. made' = made /\ made \in Nat
        BY <1>2 DEF TypeOK
    <3>4. Waits(Head(queue)) => alive = {}
        BY <1>1, NoneAlive
    <3>5. /\ \A i, j \in 1..Len(queue) : i < j => queue[i].n < queue[j].n
          /\ \A i \in 1..Len(queue) : queue[i].n <= made
          /\ \A p \in alive : p.cmd.n <= made
          /\ \A p \in alive, i \in 1..Len(queue) : p.cmd.n < queue[i].n
          /\ \A p, q \in alive : Waits(p.cmd) => q.cmd.n >= p.cmd.n
        BY <1>1 DEF OrderInv
    <3>6. \A i, j \in 1..Len(queue') : i < j => queue'[i].n < queue'[j].n
        BY <3>1, <3>5
    <3>7. \A i \in 1..Len(queue') : queue'[i].n <= made'
        BY <3>1, <3>3, <3>5
    <3>8. \A p \in alive' : p \in alive \/ p.cmd = queue[1]
        BY <2>2, <3>1
    <3>9. \A p \in alive' : p.cmd.n <= made'
        BY <3>1, <3>3, <3>5, <3>8
    <3>10. \A p \in alive', i \in 1..Len(queue') : p.cmd.n < queue'[i].n
        BY <3>1, <3>5, <3>8
    <3>11. \A p \in alive : p.cmd.n \in Nat
        BY <1>8 DEF Process, Command
    <3>12. ASSUME NEW p \in alive', NEW q \in alive', Waits(p.cmd)
           PROVE  q.cmd.n >= p.cmd.n
      <4>1. CASE p \in alive
        <5>1. p.cmd.n < queue[1].n
            BY <3>1, <3>5, <4>1
        <5> QED
            BY <3>1, <3>2, <3>5, <3>8, <3>11, <3>12, <4>1, <5>1
      <4>2. CASE p.cmd = queue[1]
        <5>1. alive = {}
            BY <3>1, <3>4, <3>12, <4>2
        <5>2. q.cmd = queue[1]
            BY <3>8, <5>1
        <5> QED
            BY <3>1, <3>2, <4>2, <5>2
      <4> QED
        BY <3>8, <4>1, <4>2
    <3> QED
        BY <3>6, <3>7, <3>9, <3>10, <3>12 DEF OrderInv
  <2> QED
    BY <1>3, <2>1, <2>2
<1>11. OverInv'
  <2>1. ASSUME Quiet
        PROVE  Quiet' /\ lastWasRun' /\ Head(queue).kind = "run"
    <3>1. /\ queue \in Seq(Command) /\ Len(queue) \in Nat \ {0} /\ Head(queue) = queue[1]
        BY DEF TypeOK
    <3>2. \A i \in 1..Len(queue) : queue[i].kind = "run"
        BY <2>1 DEF Quiet
    <3>3. \A i \in 1..Len(queue') : queue'[i].kind = "run"
      <4>1. CASE queue' = <<>>
        BY <4>1
      <4>2. CASE queue' = Tail(queue)
        <5>1. /\ Len(queue') = Len(queue) - 1
              /\ \A i \in 1..Len(queue') : queue'[i] = queue[i + 1]
            BY <3>1, <4>2
        <5> QED
            BY <3>1, <3>2, <5>1
      <4> QED
        BY <1>3, <4>1, <4>2
    <3>4. Head(queue).kind = "run"
        BY <3>1, <3>2
    <3>5. project' = None
        BY <1>3, <2>1 DEF Quiet
    <3>6. Quiet'
        BY <1>1, <1>2, <3>3, <3>5, DoneQuiet
    <3> QED
        BY <1>2, <3>4, <3>6
  <2>2. UNCHANGED <<said, spoilt, mended, lastExit>>
    BY <1>2
  <2>3. \A p \in alive' : p \in alive \/ p.cmd = Head(queue)
    BY <1>3
  <2> QED
    BY <1>1, <2>1, <2>2, <2>3 DEF OverInv
<1> QED
    BY <1>6, <1>7, <1>9, <1>10, <1>11 DEF CalmInv

-----------------------------------------------------------------------------
(* Every action keeps CalmInv. *)

LEMMA OneFrame ==
    ASSUME NEW f, Len(stack') = 1, stack'[1] = f, f.at # "again", f.at \in Bsm => f.by # "queue"
    PROVE  ShapeInv' /\ FrameInv'
BY DEF ShapeInv, FrameInv

LEMMA AskCalm ==
    ASSUME TypeOK, CalmInv, Ask
    PROVE  CalmInv'
<1>0. ShapeInv /\ FrameInv /\ SlotInv /\ OrderInv /\ OverInv
    BY DEF CalmInv
<1>a. ASSUME Asks, UNCHANGED procVars,
             \/ queue' = <<>>
             \/ /\ queue' \in Seq(Command) /\ made' = Len(queue')
                /\ \A i \in 1..Len(queue') : queue'[i].n = i
      PROVE  SlotInv' /\ OrderInv' /\ OverInv' /\ said' = "nothing" /\ ~spoilt'
  <2>1. Running = {} /\ said' = "nothing" /\ ~spoilt'
    BY <1>a DEF Asks, IsRunning
  <2>2. alive' = {}
    BY <1>0, <1>a, <2>1, NoneAlive DEF procVars
  <2>3. SlotInv'
    BY <1>0, <1>a, SlotKept
  <2>4. OrderInv'
    BY <1>a, <2>2 DEF OrderInv
  <2>5. OverInv'
    BY <2>1 DEF OverInv
  <2> QED
    BY <2>1, <2>3, <2>4, <2>5
<1>b. Called("begin", None)
    BY DEF Called
<1>c. /\ CallBSM("begin", None).at # "again" /\ CallBSM("begin", None).by # "queue"
      /\ CallBSM("begin", None).at \notin {"nested", "again"}
    BY <1>b, CallIsFrame
<1>1. ASSUME NEW l \in JobLists, NEW k \in {"bjProject", "bjWorkspace"},
             NEW m \in [clean : BOOLEAN, build : BOOLEAN], NEW run \in BOOLEAN,
             Build(k, l, m, run)
      PROVE  CalmInv'
  <2>1. Asks /\ UNCHANGED procVars /\ queue' = <<>> /\ stack' = <<CallBSM("begin", None)>>
    BY <1>1 DEF Build, Begin, procVars
  <2>2. SlotInv' /\ OrderInv' /\ OverInv'
    BY <1>a, <2>1
  <2>3. ShapeInv' /\ FrameInv'
    BY <1>c, <2>1, OneFrame
  <2> QED
    BY <2>2, <2>3 DEF CalmInv
<1>2. ASSUME NEW l \in JobLists, NEW k \in {"bjProject", "bjWorkspace"}, Rebuild(k, l)
      PROVE  CalmInv'
  <2> DEFINE again == [at |-> "again", kind |-> k, list |-> l]
  <2>1. /\ Asks /\ UNCHANGED procVars /\ queue' = <<>> /\ lastStep' = FALSE
        /\ stack' = <<again, CallBSM("begin", None)>>
    BY <1>2 DEF Rebuild, Begin, procVars
  <2>2. SlotInv' /\ OrderInv' /\ OverInv' /\ said' = "nothing" /\ ~spoilt'
    BY <1>a, <2>1
  <2>3. /\ Len(stack') = 2 /\ stack'[1].at = "again" /\ stack'[2] = CallBSM("begin", None)
    BY <2>1
  <2>4. ShapeInv'
    BY <1>c, <2>3 DEF ShapeInv
  <2>5. FrameInv'
    BY <1>c, <2>1, <2>2, <2>3 DEF FrameInv, Bsm
  <2> QED
    BY <2>2, <2>4, <2>5 DEF CalmInv
<1>3. CASE CompileFile \/ RunOnly
  <2>1. /\ Asks /\ UNCHANGED procVars /\ (\E cmds \in FileLists \cup {<<"run">>} : AddOnly(cmds))
        /\ stack' = <<RunFrame>>
    BY <1>3 DEF CompileFile, RunOnly, procVars
  <2>2. /\ queue' \in Seq(Command) /\ made' = Len(queue')
        /\ \A i \in 1..Len(queue') : queue'[i].n = i
    BY <2>1, OnlyFacts, OnlyLists
  <2>3. SlotInv' /\ OrderInv' /\ OverInv'
    BY <1>a, <2>1, <2>2
  <2>4. ShapeInv' /\ FrameInv'
    BY <2>1, OneFrame, RunIsFrame DEF Bsm
  <2> QED
    BY <2>3, <2>4 DEF CalmInv
<1>4. CASE KillProcess
  <2>1. /\ project' = None /\ queue' = <<>> /\ stack' = stack
        /\ UNCHANGED <<listVars, lastWasRun, made, procVars, exitVars>>
    BY <1>4 DEF KillProcess, ResetBuildState
  <2>2. ShapeInv'
    BY <1>0, <2>1 DEF ShapeInv
  <2>3. slot' = slot /\ alive' = alive /\ said' = said /\ spoilt' = spoilt
        /\ lastStep' = lastStep /\ KeepsExit
    BY <2>1 DEF procVars, exitVars, listVars, KeepsExit
  <2>4. FrameInv'
    BY <1>0, <2>1, <2>3 DEF FrameInv, Running
  <2>5. SlotInv' /\ OrderInv'
    BY <1>0, <2>1, <2>3, SlotKept, OrderEmptied
  <2>6. Quiet => Quiet'
    BY <2>1 DEF Quiet
  <2>7. OverInv'
    BY <1>0, <2>3, <2>6 DEF OverInv, KeepsExit
  <2> QED
    BY <2>2, <2>4, <2>5, <2>7 DEF CalmInv
<1> QED
    BY <1>1, <1>2, <1>3, <1>4 DEF Ask

LEMMA StageCalm ==
    ASSUME TypeOK, CalmInv, RebuildAgain \/ EnterStage \/ LeaveStage \/ ResumeStage \/ Close
    PROVE  CalmInv'
<1>0. /\ stack \in Seq(Frame) /\ ShapeInv /\ FrameInv /\ SlotInv /\ OrderInv /\ OverInv
    BY DEF CalmInv, TypeOK
<1>a. stack # <<>> /\ UNCHANGED <<procVars, exitVars>>
    BY DEF RebuildAgain, EnterStage, LeaveStage, ResumeStage, Close, At, procVars, exitVars
<1>b. Top \in Frame /\ Top = stack[Len(stack)] /\ Len(stack) \in 1..Len(stack)
    BY <1>0, <1>a, TopFacts
<1>c. SlotInv' /\ alive' = alive /\ slot' = slot
    BY <1>0, <1>a, SlotKept DEF procVars
<1>d. HasSlot(Top)
    BY <1>0, <1>b DEF FrameInv, HasSlot
<1>1. CASE RebuildAgain
  <2>1. /\ Top.at = "again" /\ queue' = <<>> /\ Goto(CallBSM("begin", None)) /\ made' = made
    BY <1>1 DEF RebuildAgain, At, Begin
  <2>2. Len(stack) = 1 /\ said = "nothing" /\ ~spoilt
    BY <1>0, <1>b, <2>1 DEF ShapeInv, FrameInv
  <2>3. /\ CallBSM("begin", None) \in Frame
        /\ CallBSM("begin", None).at # "again" /\ CallBSM("begin", None).by # "queue"
    BY CallIsFrame DEF Called
  <2>4. Len(stack') = 1 /\ stack'[1] = CallBSM("begin", None)
    BY <1>0, <1>a, <2>1, <2>2, <2>3, GotoFacts
  <2>5. ShapeInv' /\ FrameInv'
    BY <2>3, <2>4, OneFrame
  <2>6. OrderInv'
    BY <1>0, <1>c, <2>1, OrderEmptied
  <2>7. OverInv'
    BY <1>a, <2>2 DEF OverInv, exitVars
  <2> QED
    BY <1>c, <2>5, <2>6, <2>7 DEF CalmInv
<1>2. CASE EnterStage
  <2>1. /\ Top.at = "entered" /\ UNCHANGED <<lastStep, lastWasRun, made>>
    BY <1>2 DEF EnterStage, At, listVars
  <2>2. Called(Top.by, Top.proc)
    BY <1>b, <2>1, FrameFields
  <2>3. CASE /\ ResetBuildState /\ queue' = <<>>
             /\ Goto([at |-> "over", by |-> Top.by, proc |-> Top.proc])
    <3> DEFINE f == [at |-> "over", by |-> Top.by, proc |-> Top.proc]
    <3>1. f \in Frame /\ f.at = "over" /\ f.by = Top.by /\ f.proc = Top.proc
        BY <2>2, PlainIsFrame
    <3>2. project' = None /\ Goto(f)
        BY <2>3 DEF ResetBuildState
    <3> HIDE DEF f
    <3>3. Moves(f) /\ HasSlot(f)
        BY <1>d, <2>1, <3>1 DEF Moves, HasSlot, Bsm
    <3> QED
        BY <1>a, <2>1, <2>3, <3>1, <3>2, <3>3, GotoCalm
  <2>4. CASE /\ project # None
             /\ \E cmds \in StageLists(next) :
                   Goto([at |-> "listing", by |-> Top.by, proc |-> Top.proc,
                         stage |-> next, cmds |-> cmds])
             /\ UNCHANGED <<job, next, project, queue>>
    <3>1. PICK cmds \in StageLists(next) :
                   Goto([at |-> "listing", by |-> Top.by, proc |-> Top.proc,
                         stage |-> next, cmds |-> cmds])
        BY <2>4
    <3> DEFINE f == [at |-> "listing", by |-> Top.by, proc |-> Top.proc,
                     stage |-> next, cmds |-> cmds]
    <3>2. next \in BuildState /\ cmds \in Seq(Kind)
      <4>1. next \in BuildState
        BY DEF TypeOK
      <4> QED
        BY <2>4, <4>1, StageTypes
    <3>3. f \in Frame /\ f.at = "listing" /\ f.by = Top.by /\ f.proc = Top.proc
        BY <2>2, <3>2, ListingIsFrame
    <3>4. Goto(f)
        BY <3>1
    <3> HIDE DEF f
    <3>5. Moves(f) /\ HasSlot(f)
        BY <1>d, <2>1, <3>3 DEF Moves, HasSlot, Bsm
    <3>6. KeepsFirstPass /\ KeepsExit
        BY <1>a, <2>1 DEF KeepsFirstPass, KeepsExit, procVars, exitVars
    <3>7. ShapeInv' /\ FrameInv'
        BY <1>0, <1>a, <1>c, <3>3, <3>4, <3>5, <3>6, GotoShape, GotoFrame
    <3>8. OrderInv'
        BY <1>0, <1>c, <2>1, <2>4, OrderKept
    <3>9. ~Quiet
        BY <2>4 DEF Quiet
    <3>10. OverInv'
        BY <1>0, <3>6, <3>9, BusyOver
    <3> QED
        BY <1>c, <3>7, <3>8, <3>10 DEF CalmInv
  <2> QED
    BY <1>2, <2>3, <2>4 DEF EnterStage
<1>e. ASSUME Top.at \in {"listing", "nested"}, UNCHANGED <<lastStep, lastWasRun>>
      PROVE  KeepsFirstPass /\ OverInv' /\ Top.cmds \in Seq(Kind)
  <2>1. ~Quiet
    BY <1>b, <1>e DEF Quiet
  <2>2. KeepsFirstPass /\ KeepsExit
    BY <1>a, <1>e DEF KeepsFirstPass, KeepsExit, procVars, exitVars
  <2> QED
    BY <1>0, <1>b, <1>e, <2>1, <2>2, BusyOver, FrameFields
<1>f. ASSUME Top.at \in {"listing", "nested"}, UNCHANGED <<lastStep, lastWasRun>>,
             AddToCommandQueue(Top.cmds), Goto(Closing(Top))
      PROVE  CalmInv'
  <2>1. KeepsFirstPass /\ OverInv' /\ Top.cmds \in Seq(Kind)
    BY <1>e, <1>f
  <2>2. /\ Closing(Top) \in Frame /\ Closing(Top).at = "closing"
        /\ Closing(Top).by = Top.by /\ Closing(Top).proc = Top.proc
    BY <1>b, <1>f, MovedIsFrame
  <2>3. Moves(Closing(Top)) /\ HasSlot(Closing(Top))
    BY <1>d, <1>f, <2>2 DEF Moves, HasSlot, Bsm
  <2>4. ShapeInv' /\ FrameInv'
    BY <1>0, <1>a, <1>c, <1>f, <2>1, <2>2, <2>3, GotoShape, GotoFrame
  <2>5. OrderInv'
    BY <1>0, <1>c, <1>f, <2>1, OrderAdded
  <2> QED
    BY <1>c, <2>1, <2>4, <2>5 DEF CalmInv
<1>3. CASE LeaveStage
  <2>1. Top.at = "listing" /\ UNCHANGED <<lastStep, lastWasRun>>
    BY <1>3 DEF LeaveStage, At
  <2>2. CASE AddToCommandQueue(Top.cmds) /\ Goto(Closing(Top))
    BY <1>f, <2>1, <2>2
  <2>3. CASE /\ stack' = Append(Append(Below, [Top EXCEPT !.at = "nested"]),
                                CallBSM("project", None))
             /\ UNCHANGED <<queue, made>>
    <3> DEFINE g == [Top EXCEPT !.at = "nested"]
               f == CallBSM("project", None)
               n == Len(stack)
    <3>1. g \in Frame /\ g.at = "nested" /\ g.by = Top.by /\ g.proc = Top.proc
        BY <1>b, <2>1, MovedIsFrame
    <3>2. f \in Frame /\ f.at \in {"entered", "over"} /\ f.by = "project"
        BY CallIsFrame DEF Called
    <3>3. /\ Below \in Seq(Frame) /\ Len(Below) = n - 1 /\ n \in Nat \ {0}
          /\ \A i \in 1..(n - 1) : Below[i] = stack[i]
        BY <1>0, <1>a, BelowFacts
    <3>4. stack' = Append(Append(Below, g), f) /\ Top = stack[n]
        BY <1>b, <2>3
    <3> HIDE DEF g, f, n
    <3>5. /\ Len(stack') = n + 1 /\ stack'[n] = g /\ stack'[n + 1] = f
          /\ \A i \in 1..(n - 1) : stack'[i] = stack[i]
        BY <3>1, <3>2, <3>3, <3>4
    <3>6. Top.at \in Bsm
        BY <2>1 DEF Bsm
    <3>7. /\ \A i \in 1..(n - 1) : stack[i].at \in {"again", "nested"}
          /\ \A i \in 1..(n - 1) : stack[i].at = "again" => i = 1
          /\ \A i \in 1..n : i > 1 /\ stack[i - 1].at = "nested" =>
                stack[i].at \in Bsm /\ stack[i].by = "project"
        BY <1>0, <3>3 DEF ShapeInv, n
    <3>8. ShapeInv'
      <4> SUFFICES ASSUME NEW i \in 1..(n + 1)
                   PROVE  /\ i < n + 1 => stack'[i].at \in {"again", "nested"}
                          /\ stack'[i].at = "again" => i = 1
                          /\ i > 1 /\ stack'[i - 1].at = "nested" =>
                                 stack'[i].at \in Bsm /\ stack'[i].by = "project"
        BY <3>5 DEF ShapeInv
      <4>1. CASE i \in 1..(n - 1)
        <5>1. stack'[i] = stack[i] /\ (i > 1 => stack'[i - 1] = stack[i - 1])
            BY <3>3, <3>5, <4>1
        <5> QED
            BY <3>3, <3>7, <4>1, <5>1
      <4>2. CASE i = n
        <5>1. stack'[i] = g /\ (i > 1 => stack'[i - 1] = stack[i - 1]) /\ g.at \in Bsm
            BY <3>1, <3>3, <3>5, <4>2 DEF Bsm
        <5> QED
            BY <3>1, <3>3, <3>4, <3>7, <4>2, <5>1
      <4>3. CASE i = n + 1
        BY <3>2, <3>3, <3>5, <4>3 DEF Bsm
      <4> QED
        BY <3>3, <4>1, <4>2, <4>3
    <3>9. KeepsFirstPass /\ OverInv'
        BY <1>e, <2>1
    <3>10. FrameInv'
      <4>1. Running' = Running
        BY <1>c DEF Running
      <4> SUFFICES ASSUME NEW i \in 1..(n + 1)
                   PROVE  /\ stack'[i].at \in Bsm /\ stack'[i].by = "queue" =>
                              /\ stack'[i].proc \in Slot /\ slot[stack'[i].proc] = Idle
                              /\ Running = {}
                          /\ stack'[i].at = "again" =>
                              ~lastStep' /\ said' = "nothing" /\ ~spoilt'
        BY <1>c, <3>5, <4>1 DEF FrameInv
      <4>2. CASE i \in 1..(n - 1)
        <5>1. stack'[i] = stack[i] /\ i \in 1..Len(stack)
            BY <3>3, <3>5, <4>2 DEF n
        <5> QED
            BY <1>0, <3>9, <5>1 DEF FrameInv, KeepsFirstPass
      <4>3. CASE i = n
        BY <1>d, <3>1, <3>5, <3>6, <4>3 DEF HasSlot
      <4>4. CASE i = n + 1
        BY <3>2, <3>5, <4>4
      <4> QED
        BY <3>3, <4>2, <4>3, <4>4
    <3>11. OrderInv'
        BY <1>0, <1>c, <2>3, OrderKept
    <3> QED
        BY <1>c, <3>8, <3>9, <3>10, <3>11 DEF CalmInv
  <2> QED
    BY <1>3, <2>2, <2>3 DEF LeaveStage
<1>4. CASE ResumeStage
    BY <1>4, <1>f DEF ResumeStage, At, listVars
<1>5. CASE Close
  <2>1. /\ Top.at = "closing" /\ Goto([Top EXCEPT !.at = "over"])
        /\ UNCHANGED <<lastStep, lastWasRun, made, project, queue>>
    BY <1>5 DEF Close, At, listVars, queueVars, buildVars
  <2> DEFINE f == [Top EXCEPT !.at = "over"]
  <2>2. f \in Frame /\ f.at = "over" /\ f.by = Top.by /\ f.proc = Top.proc /\ Goto(f)
    BY <1>b, <2>1, MovedIsFrame
  <2> HIDE DEF f
  <2>3. Moves(f) /\ HasSlot(f)
    BY <1>d, <2>1, <2>2 DEF Moves, HasSlot, Bsm
  <2> QED
    BY <1>a, <2>1, <2>2, <2>3, GotoCalm
<1> QED
    BY <1>1, <1>2, <1>3, <1>4, <1>5

LEMMA RunCalm ==
    ASSUME TypeOK, CalmInv, StopRunning \/ StartNext \/ SwitchState \/ BackInBuild \/ BackInStage
    PROVE  CalmInv'
<1>0. /\ stack \in Seq(Frame) /\ ShapeInv /\ FrameInv /\ SlotInv /\ OrderInv /\ OverInv
    BY DEF CalmInv, TypeOK
<1>1. CASE StopRunning \/ BackInStage
  <2>1. /\ stack # <<>> /\ Return
        /\ UNCHANGED <<procVars, exitVars, lastStep, lastWasRun, made, project, queue>>
    BY <1>1 DEF StopRunning, BackInStage, At, listVars, queueVars, buildVars
  <2> QED
    BY <2>1, ReturnCalm
<1>2. CASE SwitchState
  <2> DEFINE s == NextAvailable
             f == CallBSM("queue", s)
  <2>1. /\ stack # <<>> /\ Top.at = "run" /\ s # None /\ Running = {} /\ Goto(f)
        /\ UNCHANGED <<procVars, exitVars, lastStep, lastWasRun, made, project, queue>>
    BY <1>2 DEF SwitchState, At, listVars, queueVars, buildVars
  <2>2. s \in Slot /\ slot[s].is = "free"
    BY <2>1, NextAvailableFree
  <2> HIDE DEF s
  <2>3. slot[s] \in SlotState
    BY <2>2 DEF TypeOK
  <2>4. slot[s] = Idle
    BY <2>2, <2>3, UnboundTypes
  <2>5. f \in Frame /\ f.at \in {"entered", "over"} /\ f.by = "queue" /\ f.proc = s
    BY <2>2, CallIsFrame DEF Called
  <2> HIDE DEF f
  <2>6. Moves(f) /\ HasSlot(f)
    BY <2>1, <2>2, <2>4, <2>5 DEF Moves, HasSlot, Bsm
  <2> QED
    BY <2>1, <2>5, <2>6, GotoCalm
<1>3. CASE BackInBuild
  <2>1. /\ stack # <<>> /\ Top.by = "begin" /\ Goto(RunFrame)
        /\ UNCHANGED <<procVars, exitVars, lastStep, lastWasRun, made, project, queue>>
    BY <1>3 DEF BackInBuild, At, listVars, queueVars, buildVars
  <2>2. Moves(RunFrame) /\ HasSlot(RunFrame)
    BY <2>1, RunIsFrame DEF Moves, HasSlot, Bsm
  <2> QED
    BY <2>1, <2>2, RunIsFrame, GotoCalm
<1>4. CASE StartNext
  <2> DEFINE s == NextAvailable
  <2>1. /\ stack # <<>> /\ Top.at = "run" /\ s # None /\ queue # <<>>
        /\ Running # {} => ~Waits(Head(queue))
        /\ Launch(s, Head(queue), Tail(queue))
    BY <1>4 DEF StartNext, At, MayStart
  <2>2. s \in Slot /\ slot[s].is = "free"
    BY <2>1, NextAvailableFree
  <2> HIDE DEF s
  <2>3. slot[s] \in SlotState
    BY <2>2 DEF TypeOK
  <2>4. slot[s] = Idle
    BY <2>2, <2>3, UnboundTypes
  <2>5. ~(Top.at \in Bsm /\ Top.by = "project")
    BY <2>1 DEF Bsm
  <2> QED
    BY <2>1, <2>2, <2>4, <2>5, LaunchCalm
<1> QED
    BY <1>1, <1>2, <1>3, <1>4

(* A job is over: the frame is left, or it goes on with the program.       *)
LEMMA OverCalm ==
    ASSUME TypeOK, CalmInv, stack # <<>>, ~(Top.at \in Bsm /\ Top.by = "project"),
           NEW e \in BOOLEAN, e => lastExit \/ lastWasRun,
           NotifyJobDone(e), ResetBuildState,
           \/ Return /\ queue' = <<>> /\ UNCHANGED <<made, spoilt, mended>>
           \/ MaybeRun,
           UNCHANGED <<lastStep, lastWasRun, procVars>>
    PROVE  CalmInv'
<1>0. /\ stack \in Seq(Frame) /\ ShapeInv /\ FrameInv /\ SlotInv /\ OrderInv /\ OverInv
    BY DEF CalmInv, TypeOK
<1>1. \/ /\ Return /\ queue' = <<>> /\ UNCHANGED <<made, spoilt, mended>>
      \/ /\ Goto(RunFrame) /\ Len(queue') = 1 /\ queue'[1].kind = "run"
         /\ spoilt' = FALSE /\ mended' = FALSE
    BY <1>0, MaybeRunFacts DEF TypeOK
<1>2. slot' = slot /\ alive' = alive /\ SlotInv' /\ Running' = Running
    BY <1>0, SlotKept DEF procVars, Running
<1>3. Moves(RunFrame) /\ HasSlot(RunFrame) /\ RunFrame \in Frame
    BY RunIsFrame DEF Moves, HasSlot, Bsm
<1>4. ShapeInv'
    BY <1>0, <1>1, <1>3, GotoShape, ReturnShape
<1>5. KeepsFirstPass
    BY <1>1 DEF KeepsFirstPass, NotifyJobDone
<1>6. FrameInv'
    BY <1>0, <1>1, <1>2, <1>3, <1>5, RunIsFrame, GotoFrame, ReturnFrame
<1>7. OrderInv'
    BY <1>0, <1>2, OrderEmptied, OrderMaybeRun
<1>8. Quiet'
  <2>1. \A i \in 1..Len(queue') : queue'[i].kind = "run"
    BY <1>1
  <2>2. project' = None
    BY DEF ResetBuildState
  <2> QED
    BY <1>0, <1>1, <2>1, <2>2, DoneQuiet
<1>9. CASE lastStep /\ Running = {}
  <2>1. alive' = {} /\ said' # "nothing"
    BY <1>0, <1>2, <1>9, NoneAlive DEF NotifyJobDone
  <2>2. OverInv'
    BY <1>8, <2>1 DEF OverInv
  <2> QED
    BY <1>2, <1>4, <1>6, <1>7, <2>2 DEF CalmInv
<1>10. CASE ~(lastStep /\ Running = {})
  <2>1. said' = said /\ lastExit' = e
    BY <1>10 DEF NotifyJobDone
  <2>2. said' # "nothing" => \A p \in alive' : p.cmd.kind = "run"
    BY <1>0, <1>2, <2>1 DEF OverInv
  <2>3. ASSUME spoilt', ~mended', said' = "nothing", lastExit'
        PROVE  lastWasRun'
    <3>1. spoilt /\ ~mended /\ said = "nothing" /\ e
      <4>1. spoilt' = spoilt /\ mended' = mended
        BY <1>1, <2>3
      <4>2. spoilt /\ ~mended
        BY <2>3, <4>1, Zenon
      <4>3. said = "nothing" /\ e
        BY <2>1, <2>3, Zenon
      <4> QED
        BY <4>2, <4>3
    <3> QED
        BY <1>0, <3>1 DEF OverInv
  <2>4. OverInv'
    BY <1>8, <2>2, <2>3 DEF OverInv
  <2> QED
    BY <1>2, <1>4, <1>6, <1>7, <2>4 DEF CalmInv
<1> QED
    BY <1>9, <1>10

LEMMA BackCalm ==
    ASSUME TypeOK, CalmInv, BackInQueue \/ BackInJobEnd
    PROVE  CalmInv'
<1>0. /\ stack \in Seq(Frame) /\ FrameInv
    BY DEF CalmInv, TypeOK
<1>a. stack # <<>> /\ Top.at = "over" /\ Top.by \in {"queue", "jobend", "failed"}
    BY DEF BackInQueue, BackInJobEnd, At
<1>b. Top = stack[Len(stack)] /\ Len(stack) \in 1..Len(stack)
    BY <1>0, <1>a, TopFacts
<1>c. ~(Top.at \in Bsm /\ Top.by = "project")
    BY <1>a
<1>d. lastExit \in BOOLEAN /\ lastWasRun \in BOOLEAN
    BY DEF TypeOK
<1>1. CASE BackInQueue
  <2>1. Top.by = "queue"
    BY <1>1 DEF BackInQueue
  <2>2. Top.proc \in Slot /\ slot[Top.proc] = Idle /\ Running = {}
    BY <1>0, <1>a, <1>b, <2>1 DEF FrameInv, Bsm
  <2>3. CASE queue # <<>> /\ Launch(Top.proc, Head(queue), Tail(queue))
    BY <1>a, <1>c, <2>2, <2>3, LaunchCalm
  <2>4. CASE /\ NotifyJobDone(lastExit) /\ ResetBuildState /\ MaybeRun
             /\ UNCHANGED <<listVars, lastWasRun, procVars, errors, requestVars>>
    <3>1. UNCHANGED <<lastStep, lastWasRun, procVars>>
        BY <2>4 DEF listVars
    <3> QED
        BY <1>a, <1>c, <1>d, <2>4, <3>1, OverCalm
  <2>5. CASE /\ Goto(CallBSM("queue", Top.proc))
             /\ UNCHANGED <<buildVars, listVars, queueVars, procVars, exitVars,
                            runAfter, requestVars>>
    <3> DEFINE f == CallBSM("queue", Top.proc)
    <3>1. f \in Frame /\ f.at \in {"entered", "over"} /\ f.by = "queue" /\ f.proc = Top.proc
        BY <2>2, CallIsFrame DEF Called
    <3>2. Goto(f) /\ UNCHANGED <<procVars, exitVars, lastStep, lastWasRun, made, project, queue>>
        BY <2>5 DEF listVars, queueVars, buildVars
    <3> HIDE DEF f
    <3>3. Moves(f) /\ HasSlot(f)
        BY <1>c, <2>2, <3>1 DEF Moves, HasSlot
    <3> QED
        BY <1>a, <3>1, <3>2, <3>3, GotoCalm
  <2> QED
    BY <1>1, <2>3, <2>4, <2>5 DEF BackInQueue
<1>2. CASE BackInJobEnd
  <2>1. UNCHANGED procVars
    BY <1>2 DEF BackInJobEnd
  <2>2. ASSUME NEW f \in Frame, Goto(f), f.at # "again", f.at \notin {"listing", "nested"},
               f.at \in Bsm => f.by # "queue",
               UNCHANGED <<buildVars, listVars, queueVars, exitVars, runAfter>>
        PROVE  CalmInv'
    <3>1. UNCHANGED <<procVars, exitVars, lastStep, lastWasRun, made, project, queue>>
        BY <2>1, <2>2 DEF listVars, queueVars, buildVars
    <3>2. Moves(f) /\ HasSlot(f)
        BY <1>c, <2>2 DEF Moves, HasSlot
    <3> QED
        BY <1>a, <2>2, <3>1, <3>2, GotoCalm
  <2>3. CASE /\ Goto(RunFrame) \/ Goto(CallBSM("jobend", None))
             /\ UNCHANGED <<buildVars, listVars, queueVars, exitVars, runAfter>>
    <3>1. RunFrame \in Frame /\ RunFrame.at = "run"
        BY RunIsFrame
    <3>2. /\ CallBSM("jobend", None) \in Frame /\ CallBSM("jobend", None).at \in {"entered", "over"}
          /\ CallBSM("jobend", None).by = "jobend"
        BY CallIsFrame DEF Called
    <3>3. CASE Goto(RunFrame)
        BY <2>2, <2>3, <3>1, <3>3 DEF Bsm
    <3>4. CASE Goto(CallBSM("jobend", None))
        BY <2>2, <2>3, <3>2, <3>4
    <3> QED
        BY <2>3, <3>3, <3>4
  <2>4. CASE /\ JobOver(lastExit, Top.by = "failed")
             /\ UNCHANGED <<mode, post, lastStep, lastWasRun>>
    <3>1. /\ ResetBuildState /\ NotifyJobDone(lastWasRun \/ lastExit)
          /\ \/ /\ Return /\ queue' = <<>> /\ UNCHANGED <<made, spoilt, mended>>
             \/ MaybeRun
        BY <2>4 DEF JobOver
    <3>2. (lastWasRun \/ lastExit) \in BOOLEAN
        BY <1>d
    <3>3. UNCHANGED <<lastStep, lastWasRun, procVars>>
        BY <2>1, <2>4
    <3> QED
        BY <1>a, <1>c, <3>1, <3>2, <3>3, OverCalm
  <2> QED
    BY <1>2, <2>3, <2>4 DEF BackInJobEnd
<1> QED
    BY <1>1, <1>2

LEMMA EndCalm ==
    ASSUME TypeOK, CalmInv, NEW p \in alive, NEW ok \in BOOLEAN, OnTerminate(p, ok)
    PROVE  CalmInv'
<1>0. ShapeInv /\ FrameInv /\ SlotInv /\ OrderInv /\ OverInv
    BY DEF CalmInv
<1>1. /\ alive' = alive \ {p} /\ slot' = [slot EXCEPT ![p.slot] = Unbound(@)]
      /\ inbox' = Append(inbox, [slot |-> p.slot, cmd |-> p.cmd, ok |-> ok])
      /\ UNCHANGED <<buildVars, listVars, queueVars, exitVars, runAfter, stack, requestVars>>
    BY DEF OnTerminate
<1>2. /\ UNCHANGED <<stack, lastStep, queue, made, lastWasRun, project>>
      /\ UNCHANGED <<said, spoilt, mended, lastExit>>
    BY <1>1 DEF buildVars, listVars, queueVars, exitVars
<1>3. slot \in [Slot -> SlotState] /\ alive \subseteq Process /\ inbox \in Seq(Ended)
    BY DEF TypeOK
<1>4. p.slot \in Slot /\ slot[p.slot] = [is |-> "running", cmd |-> p.cmd]
    BY <1>0, <1>3 DEF SlotInv, Process
<1>5. slot[p.slot].is = "running" /\ p.slot \in Running
    BY <1>4 DEF Running
<1>6. ShapeInv'
    BY <1>0, <1>2 DEF ShapeInv
<1>7. FrameInv'
    BY <1>0, <1>2, <1>5 DEF FrameInv
<1>8. /\ slot'[p.slot].is = "ended"
      /\ \A r \in Slot : r # p.slot => slot'[r] = slot[r]
  <2>1. slot[p.slot] # Idle
    BY <1>5 DEF Idle
  <2>2. Unbound(slot[p.slot]).is = "ended"
    BY <1>3, <1>4, <2>1, UnboundTypes
  <2> QED
    BY <1>1, <1>3, <1>4, <2>2
<1>9. SlotInv'
  <2>1. ASSUME NEW q \in alive'
        PROVE  slot'[q.slot] = [is |-> "running", cmd |-> q.cmd]
    <3>1. q \in alive /\ q # p /\ q \in Process /\ p \in Process
        BY <1>1, <1>3, <2>1
    <3>2. q.slot \in Slot /\ slot[q.slot] = [is |-> "running", cmd |-> q.cmd]
        BY <1>0, <3>1 DEF SlotInv, Process
    <3>3. q.slot # p.slot
      <4> SUFFICES ASSUME q.slot = p.slot PROVE FALSE
        OBVIOUS
      <4>1. slot[p.slot].cmd = q.cmd /\ slot[p.slot].cmd = p.cmd
        BY <1>4, <3>2
      <4>2. q = [slot |-> q.slot, cmd |-> q.cmd] /\ p = [slot |-> p.slot, cmd |-> p.cmd]
        BY <3>1 DEF Process
      <4>3. q.cmd = p.cmd
        BY <4>1
      <4>4. q = p
        BY <4>2, <4>3
      <4> QED
        BY <3>1, <4>4
    <3> QED
        BY <1>8, <3>2, <3>3
  <2>2. /\ Len(inbox) \in Nat /\ Len(inbox') = Len(inbox) + 1
        /\ \A i \in 1..Len(inbox) : inbox'[i] = inbox[i]
        /\ inbox'[Len(inbox) + 1].slot = p.slot
    BY <1>1, <1>3
  <2>3. ASSUME NEW i \in 1..Len(inbox)
        PROVE  inbox[i].slot \in Slot /\ inbox[i].slot # p.slot /\ slot[inbox[i].slot].is = "ended"
    <3>1. slot[inbox[i].slot].is = "ended"
        BY <1>0 DEF SlotInv
    <3>2. inbox[i] \in Ended
        BY <1>3
    <3> QED
        BY <1>5, <3>1, <3>2 DEF Ended
  <2>4. \A i \in 1..Len(inbox') : i \in 1..Len(inbox) \/ i = Len(inbox) + 1
    BY <2>2
  <2>5. \A i \in 1..Len(inbox') : slot'[inbox'[i].slot].is = "ended"
    BY <1>8, <2>2, <2>3, <2>4
  <2>6. \A i, j \in 1..Len(inbox) : inbox[i].slot = inbox[j].slot => i = j
    BY <1>0 DEF SlotInv
  <2>7. \A i, j \in 1..Len(inbox') : inbox'[i].slot = inbox'[j].slot => i = j
    BY <2>2, <2>3, <2>4, <2>6
  <2> QED
    BY <2>1, <2>5, <2>7 DEF SlotInv
<1>10. OrderInv'
    BY <1>0, <1>1, <1>2 DEF OrderInv
<1>11. Quiet' <=> Quiet
    BY <1>2 DEF Quiet
<1>12. OverInv'
    BY <1>0, <1>1, <1>2, <1>11 DEF OverInv
<1> QED
    BY <1>6, <1>7, <1>9, <1>10, <1>12 DEF CalmInv

LEMMA JobEndCalm ==
    ASSUME TypeOK, CalmInv, OnJobEnd, ~nested'
    PROVE  CalmInv'
<1> DEFINE e == Head(inbox)
<1>0. ShapeInv /\ FrameInv /\ SlotInv /\ OrderInv /\ OverInv
    BY DEF CalmInv
<1>1. /\ stack = <<>> /\ inbox # <<>> /\ inbox' = Tail(inbox)
      /\ slot' = [slot EXCEPT ![e.slot] = Idle]
      /\ UNCHANGED <<buildVars, listVars, queueVars, alive, said>>
    BY DEF OnJobEnd
<1>2. PICK success \in Success(e) :
          /\ lastExit' = ExitAfter(e.ok, success)
          /\ spoilt' = (spoilt \/ (~e.ok /\ ~success /\ e.cmd.kind # "run"))
          /\ mended' = (mended \/ (spoilt /\ success))
          /\ Push(IF ~success THEN [at |-> "over", by |-> "failed", proc |-> None]
                  ELSE IF queue # <<>> \/ Running # {} THEN RunFrame
                  ELSE CallBSM("jobend", None))
    BY DEF OnJobEnd
<1>3. PICK f \in Frame : /\ Push(f) /\ f.at \in {"entered", "over", "run"}
                         /\ f.at \in Bsm => f.by # "queue"
  <2> DEFINE f == IF ~success THEN [at |-> "over", by |-> "failed", proc |-> None]
                  ELSE IF queue # <<>> \/ Running # {} THEN RunFrame
                  ELSE CallBSM("jobend", None)
  <2>1. f \in Frame /\ f.at \in {"entered", "over", "run"} /\ (f.at \in Bsm => f.by # "queue")
    BY FailedIsFrame, RunIsFrame, CallIsFrame DEF Called, Bsm
  <2>2. Push(f)
    BY <1>2
  <2> QED
    BY <2>1, <2>2
<1>4. Len(stack') = 1 /\ stack'[1] = f
    BY <1>1, <1>3 DEF Push
<1>5. ShapeInv' /\ FrameInv'
    BY <1>3, <1>4, OneFrame
<1>6. slot \in [Slot -> SlotState] /\ alive \subseteq Process /\ inbox \in Seq(Ended)
    BY DEF TypeOK
<1>7. /\ Len(inbox) \in Nat \ {0} /\ e = inbox[1] /\ Len(inbox') = Len(inbox) - 1
      /\ \A i \in 1..Len(inbox') : inbox'[i] = inbox[i + 1]
    BY <1>1, <1>6
<1>8. SlotInv'
  <2>1. \A i \in 1..Len(inbox) : inbox[i].slot \in Slot /\ slot[inbox[i].slot].is = "ended"
    <3>1. \A i \in 1..Len(inbox) : inbox[i] \in Ended
        BY <1>6
    <3> QED
        BY <1>0, <3>1 DEF SlotInv, Ended
  <2>2. e.slot \in Slot /\ slot[e.slot].is = "ended"
    BY <1>7, <2>1
  <2>3. \A r \in Slot : r # e.slot => slot'[r] = slot[r]
    BY <1>1, <1>6
  <2>4. ASSUME NEW p \in alive'
        PROVE  slot'[p.slot] = [is |-> "running", cmd |-> p.cmd]
    <3>1. p \in alive /\ p.slot \in Slot
        BY <1>1, <1>6 DEF Process
    <3>2. slot[p.slot] = [is |-> "running", cmd |-> p.cmd]
        BY <1>0, <3>1 DEF SlotInv
    <3>3. p.slot # e.slot
        BY <2>2, <3>2
    <3> QED
        BY <2>3, <3>1, <3>2, <3>3
  <2>5. \A i, j \in 1..Len(inbox) : inbox[i].slot = inbox[j].slot => i = j
    BY <1>0 DEF SlotInv
  <2>6. \A i \in 1..Len(inbox') : i + 1 \in 1..Len(inbox) /\ inbox[i + 1].slot # e.slot
    BY <1>7, <2>5
  <2>7. \A i \in 1..Len(inbox') : slot'[inbox'[i].slot].is = "ended"
    BY <1>7, <2>1, <2>3, <2>6
  <2>8. \A i, j \in 1..Len(inbox') : inbox'[i].slot = inbox'[j].slot => i = j
    BY <1>7, <2>5, <2>6
  <2> QED
    BY <2>4, <2>7, <2>8 DEF SlotInv
<1>9. UNCHANGED <<queue, alive, made, lastWasRun, project, said>>
    BY <1>1 DEF buildVars, queueVars
<1>10. OrderInv'
    BY <1>0, <1>9, OrderKept
<1>11. Quiet => Quiet'
  <2>1. \A i \in 1..Len(stack') : stack'[i].at \notin {"listing", "nested"}
    BY <1>3, <1>4
  <2> QED
    BY <1>9, <2>1 DEF Quiet
<1>12. OverInv'
  <2>1. said' # "nothing" => Quiet' /\ \A p \in alive' : p.cmd.kind = "run"
    BY <1>0, <1>9, <1>11 DEF OverInv
  <2>2. ASSUME spoilt', ~mended', said' = "nothing", lastExit'
        PROVE  Quiet' /\ lastWasRun'
    <3>1. ~mended /\ ~(spoilt /\ success) /\ said = "nothing"
        BY <1>2, <1>9, <2>2
    <3>2. spoilt \/ ~e.ok
        BY <1>2, <2>2
    <3>3. ~success
        BY <1>2, <2>2, <3>1
    <3>4. IF lastExit \/ ~e.ok THEN e.ok ELSE lastExit
        BY <1>2, <2>2, <3>3 DEF ExitAfter
    <3>5. spoilt /\ lastExit
        BY <3>2, <3>4
    <3>6. Quiet /\ lastWasRun
        BY <1>0, <3>1, <3>5 DEF OverInv
    <3> QED
        BY <1>9, <1>11, <3>6
  <2> QED
    BY <2>1, <2>2 DEF OverInv
<1> QED
    BY <1>5, <1>8, <1>10, <1>12 DEF CalmInv

-----------------------------------------------------------------------------
(* Theorems. *)

LEMMA InitCalm == Init => QueueInv
<1> SUFFICES ASSUME Init PROVE QueueInv
    OBVIOUS
<1>1. StateType
    BY DEF Init, StateType, BuildState
<1>a. ListType
  <2>1. /\ jobs = <<>> /\ mode = [clean |-> FALSE, build |-> FALSE]
        /\ post = [target |-> FALSE, project |-> FALSE]
        /\ runAfter = FALSE /\ lastStep = TRUE
    BY DEF Init
  <2>2. <<>> \in Seq(Project)
    OBVIOUS
  <2> QED
    BY <2>1, <2>2 DEF ListType
<1>2. QueueType /\ AskType /\ StackType
  <2>1. /\ queue = <<>> /\ lastWasRun = FALSE /\ made = 0
        /\ asked = 0 /\ nested = FALSE /\ stack = <<>>
    BY DEF Init
  <2>2. <<>> \in Seq(Command) /\ <<>> \in Seq(Frame)
    OBVIOUS
  <2>3. QueueType /\ StackType
    BY <2>1, <2>2 DEF QueueType, StackType
  <2>4. AskType
    BY <2>1 DEF AskType
  <2> QED
    BY <2>3, <2>4
<1>b. ExitType
    BY DEF Init, ExitType
<1>3. ProcType
    BY DEF Init, ProcType, SlotState
<1>4. TypeOK
    BY <1>1, <1>a, <1>2, <1>b, <1>3, TypeParts
<1>5. ShapeInv /\ FrameInv /\ SlotInv /\ OrderInv /\ OverInv
    BY DEF Init, ShapeInv, FrameInv, SlotInv, OrderInv, OverInv
<1> QED
    BY <1>4, <1>5 DEF QueueInv, CalmInv

LEMMA StepCalm == QueueInv /\ [Next]_vars => QueueInv'
<1> SUFFICES ASSUME QueueInv, [Next]_vars PROVE QueueInv'
    OBVIOUS
<1>1. TypeOK /\ TypeOK'
    BY NextTypes DEF QueueInv
<1> SUFFICES ASSUME ~nested' PROVE CalmInv'
    BY <1>1 DEF QueueInv
<1>2. CASE UNCHANGED vars
  <2>1. /\ CalmInv
        /\ UNCHANGED <<stack, slot, lastStep, said, spoilt, alive, inbox, queue, made>>
        /\ UNCHANGED <<project, mended, lastExit, lastWasRun>>
    BY <1>2 DEF QueueInv, vars, buildVars, listVars, queueVars, procVars, requestVars, exitVars
  <2>2. ShapeInv' /\ FrameInv' /\ SlotInv' /\ OrderInv'
    BY <2>1 DEF CalmInv, ShapeInv, FrameInv, SlotInv, OrderInv, Running
  <2>3. Quiet' <=> Quiet
    BY <2>1 DEF Quiet
  <2>4. OverInv'
    BY <2>1, <2>3 DEF CalmInv, OverInv
  <2> QED
    BY <2>2, <2>4 DEF CalmInv
<1>3. CASE Ask
  <2>1. ~nested
    BY <1>3 DEF Ask, Build, Rebuild, CompileFile, RunOnly, KillProcess, Asks, requestVars
  <2> QED
    BY <1>1, <1>3, <2>1, AskCalm DEF QueueInv
<1>4. CASE RebuildAgain \/ EnterStage \/ LeaveStage \/ ResumeStage \/ Close
  <2>1. ~nested
    BY <1>4 DEF RebuildAgain, EnterStage, LeaveStage, ResumeStage, Close, requestVars
  <2> QED
    BY <1>1, <1>4, <2>1, StageCalm DEF QueueInv
<1>5. CASE StopRunning \/ StartNext \/ SwitchState \/ BackInBuild \/ BackInStage
  <2>1. ~nested
    BY <1>5 DEF StopRunning, StartNext, SwitchState, BackInBuild, BackInStage, Launch, requestVars
  <2> QED
    BY <1>1, <1>5, <2>1, RunCalm DEF QueueInv
<1>6. CASE BackInQueue \/ BackInJobEnd
  <2>1. ~nested
    BY <1>6 DEF BackInQueue, BackInJobEnd, Launch, requestVars
  <2> QED
    BY <1>1, <1>6, <2>1, BackCalm DEF QueueInv
<1>7. CASE OnJobEnd
  <2>1. ~nested
    BY <1>7 DEF OnJobEnd
  <2> QED
    BY <1>1, <1>7, <2>1, JobEndCalm DEF QueueInv
<1>8. CASE Ends
  <2>1. PICK p \in alive, ok \in BOOLEAN : OnTerminate(p, ok)
    BY <1>8 DEF Ends
  <2>2. ~nested
    BY <2>1 DEF OnTerminate, requestVars
  <2> QED
    BY <1>1, <2>1, <2>2, EndCalm DEF QueueInv
<1> QED
    BY <1>2, <1>3, <1>4, <1>5, <1>6, <1>7, <1>8 DEF Next, Gui

(* The build keeps QueueInv: the frames that wait, the slots with their    *)
(* processes and the numbers of the commands fit together, and what has    *)
(* been announced is true, for every list of commands and jobs.            *)
THEOREM QueueInvariant == Spec => []QueueInv
BY InitCalm, StepCalm, PTL DEF Spec

(* Every variable keeps its type; in particular OnJobEnd calls nothing     *)
(* that yields when a command has failed.                                  *)
THEOREM TypeCorrect == Spec => []TypeOK
<1>1. QueueInv => TypeOK
    BY DEF QueueInv
<1> QED
    BY <1>1, QueueInvariant, PTL

(* A command that must wait (DoRunQueue, COMPILER_WAIT) is alone with its  *)
(* successors.                                                             *)
THEOREM WaitingCommandsAreAlone == Spec => []WaitsForPrevious
<1>1. QueueInv => WaitsForPrevious
    BY DEF QueueInv, CalmInv, OrderInv, WaitsForPrevious
<1> QED
    BY <1>1, QueueInvariant, PTL

(* Every process that runs is known by its entry of m_CompilerProcessList. *)
THEOREM NoProcessIsLost == Spec => []AliveListed
<1>1. QueueInv => AliveListed
    BY DEF QueueInv, CalmInv, SlotInv, AliveListed
<1> QED
    BY <1>1, QueueInvariant, PTL

(* NotifyJobDone announces the end of a build only when it is over.        *)
THEOREM AnnouncedWhenOver == Spec => []FinishedMeansOver
<1>1. QueueInv => FinishedMeansOver
    BY DEF QueueInv, CalmInv, OverInv, Quiet, FinishedMeansOver
<1> QED
    BY <1>1, QueueInvariant, PTL

(* NotifyJobDone announces no success after a command that spoilt the      *)
(* build, unless another one ended well after it or the program was run.   *)
THEOREM NoFalseAnnouncement == Spec => NoFalseSuccess
<1>1. ASSUME QueueInv, [Next]_vars
      PROVE  [said = "nothing" /\ said' = "finished" /\ ~lastWasRun /\ ~nested'
                => ~spoilt \/ mended]_vars
  <2> SUFFICES ASSUME said = "nothing", said' = "finished", ~lastWasRun, ~nested'
               PROVE  ~spoilt \/ mended
    BY Zenon
  <2>1. BackInQueue \/ BackInJobEnd
    <3>1. said' # said
        OBVIOUS
    <3> QED
        BY <1>1, <3>1 DEF Next, Ask, Gui, Ends, Build, Rebuild, CompileFile, RunOnly,
           KillProcess, Asks, RebuildAgain, EnterStage, LeaveStage, ResumeStage, Close,
           StopRunning, StartNext, SwitchState, BackInBuild, BackInStage, Launch, OnJobEnd,
           OnTerminate, vars, exitVars
  <2>2. ~nested
    BY <2>1 DEF BackInQueue, BackInJobEnd, Launch, requestVars
  <2>3. lastExit \in BOOLEAN /\ lastWasRun \in BOOLEAN
    BY <1>1 DEF QueueInv, TypeOK
  <2>4. NotifyJobDone(lastExit) \/ NotifyJobDone(lastWasRun \/ lastExit)
    BY <2>1 DEF BackInQueue, BackInJobEnd, JobOver, Launch, exitVars
  <2>5. lastExit
    BY <2>3, <2>4 DEF NotifyJobDone
  <2> QED
    BY <1>1, <2>2, <2>5 DEF QueueInv, CalmInv, OverInv
<1> QED
    BY <1>1, QueueInvariant, PTL DEF Spec, NoFalseSuccess

===============================================================================
