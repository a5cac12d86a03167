------------------------ MODULE AxsCommandQueue_proofs ------------------------
(***************************************************************************)
(* Proofs about AxsCommandQueue for every set of commands, every modulus   *)
(* and any number of nested calls: type correctness, what the queue        *)
(* promises as long as no command refuses to start, and that a line        *)
(* reaches the command it answers as long as the numbers last.             *)
(***************************************************************************)
EXTENDS AxsCommandQueue, FiniteSetTheorems, Loops_proofs, TLAPS

(* A frame of AXS_driver::ParseOutput, which works on the head of inbox.   *)
Looping(f) ==
    \/ f.op \in {"line", "handle", "prune"}
    \/ f.op \in {"scan", "run", "after"} /\ f.loop

(* OnGDBOutput parses in its outermost call only, and only while there is  *)
(* a line left.                                                            *)
ParseInv ==
    /\ \A i \in 1..Len(stack) : Looping(stack[i]) => inbox # <<>>
    /\ \A i, j \in 1..Len(stack) :
           Looping(stack[i]) /\ Looping(stack[j]) => i = j

TypeInv == TypeOK /\ ParseInv

-----------------------------------------------------------------------------
(* Frames and the stack. *)

(* What a frame is known by its op to hold.                                *)
LEMMA FrameFields ==
    ASSUME NEW f \in Frame
    PROVE  /\ f.op = "handle" => f \in [op : {"handle"}, i : Nat \ {0}]
           /\ f.op = "scan" => f \in [op : {"scan"}, loop : BOOLEAN]
           /\ f.op \in {"run", "after"} =>
                  f \in [op : {"run", "after"}, loop : BOOLEAN,
                         done : BOOLEAN, work : BOOLEAN]
           /\ f.op = "prune" => f \in [op : {"prune"}, work : BOOLEAN]
           /\ f.op = "queue" =>
                  f \in [op : {"queue"}, todo : Seq(Cmd) \ {<<>>}]
           /\ f.op = "act" => f \in [op : {"act"}, cmd : Cmd, left : 1..3]
           /\ f.op \in {"error", "refusal", "finish"} =>
                  f \in [op : {"error", "refusal", "finish"}, cmd : Cmd]
BY DEF Frame

LEMMA StackFacts ==
    ASSUME TypeOK, stack # <<>>
    PROVE  /\ Len(stack) \in Nat \ {0}
           /\ Top \in Frame
           /\ Below \in Seq(Frame)
           /\ Len(Below) = Len(stack) - 1
           /\ \A i \in 1..Len(Below) : Below[i] = stack[i]
<1>1. stack \in Seq(Frame) /\ Len(stack) \in Nat \ {0}
    BY DEF TypeOK
<1>2. Top \in Frame
    BY <1>1 DEF Top
<1>3. \A i \in 1..(Len(stack) - 1) : stack[i] \in Frame
    BY <1>1
<1>4. Below = [i \in 1..(Len(stack) - 1) |-> stack[i]]
    BY <1>1 DEF Below
<1> QED
    BY <1>1, <1>2, <1>3, <1>4

(* The four ways a step changes the stack: the frames it leaves, where     *)
(* they come from, and that at most one of them loops.                     *)
LEMMA ReturnKeeps ==
    ASSUME TypeInv, stack # <<>>, Return, UNCHANGED inbox
    PROVE  /\ stack' \in Seq(Frame) /\ ParseInv'
           /\ Len(stack') = Len(stack) - 1
           /\ \A i \in 1..Len(stack') : stack'[i] = stack[i]
BY StackFacts DEF TypeInv, ParseInv, Return

LEMMA BecomeKeeps ==
    ASSUME TypeInv, stack # <<>>, NEW f \in Frame, Become(f), UNCHANGED inbox,
           Looping(f) => Looping(Top)
    PROVE  /\ stack' \in Seq(Frame) /\ ParseInv'
           /\ Len(stack') = Len(stack) /\ stack'[Len(stack)] = f
           /\ \A i \in 1..(Len(stack) - 1) : stack'[i] = stack[i]
<1>1. /\ stack' \in Seq(Frame)
      /\ Len(stack') = Len(stack) /\ stack'[Len(stack)] = f
      /\ \A i \in 1..(Len(stack) - 1) : stack'[i] = stack[i]
    BY StackFacts DEF TypeInv, Become
<1>2. \A i \in 1..Len(stack') : Looping(stack'[i]) => Looping(stack[i])
    BY <1>1, StackFacts DEF TypeInv, Top
<1> QED
    BY <1>1, <1>2 DEF TypeInv, ParseInv

LEMMA CallKeeps ==
    ASSUME TypeInv, stack # <<>>, NEW f \in Frame, NEW g \in Frame,
           Call(f, g), UNCHANGED inbox,
           Looping(f) => Looping(Top), ~Looping(g)
    PROVE  /\ stack' \in Seq(Frame) /\ ParseInv'
           /\ Len(stack') = Len(stack) + 1
           /\ stack'[Len(stack)] = f /\ stack'[Len(stack) + 1] = g
           /\ \A i \in 1..(Len(stack) - 1) : stack'[i] = stack[i]
<1>1. /\ stack' \in Seq(Frame)
      /\ Len(stack') = Len(stack) + 1
      /\ stack'[Len(stack)] = f /\ stack'[Len(stack) + 1] = g
      /\ \A i \in 1..(Len(stack) - 1) : stack'[i] = stack[i]
    BY StackFacts DEF TypeInv, Call
<1>2. \A i \in 1..Len(stack') :
          Looping(stack'[i]) => i \in 1..Len(stack) /\ Looping(stack[i])
    BY <1>1, StackFacts DEF TypeInv, Top
<1> QED
    BY <1>1, <1>2 DEF TypeInv, ParseInv

LEMMA PushKeeps ==
    ASSUME TypeInv, NEW g \in Frame, stack' = Append(stack, g),
           UNCHANGED inbox, ~Looping(g)
    PROVE  /\ stack' \in Seq(Frame) /\ ParseInv'
           /\ Len(stack') = Len(stack) + 1 /\ stack'[Len(stack) + 1] = g
           /\ \A i \in 1..Len(stack) : stack'[i] = stack[i]
<1>1. /\ stack' \in Seq(Frame)
      /\ Len(stack') = Len(stack) + 1 /\ stack'[Len(stack) + 1] = g
      /\ \A i \in 1..Len(stack) : stack'[i] = stack[i]
    BY DEF TypeInv, TypeOK
<1>2. \A i \in 1..Len(stack') :
          Looping(stack'[i]) => i \in 1..Len(stack) /\ Looping(stack[i])
    BY <1>1 DEF TypeInv, TypeOK
<1> QED
    BY <1>1, <1>2 DEF TypeInv, ParseInv

-----------------------------------------------------------------------------
(* Type correctness, one lemma for each action. *)

LEMMA NextSeqType ==
    ASSUME NEW s \in Seqs
    PROVE  NextSeq(s) \in Seqs
BY SeqAssumption DEF Seqs, NextSeq

LEMMA FollowUpType ==
    ASSUME NEW c \in Cmd
    PROVE  /\ FollowUp(c) \in Seq(Cmd) /\ AfterError(c) \in Seq(Cmd)
           /\ AfterAnswer(c) \subseteq Seq(Cmd)
<1>1. Follow[c] \in Seq(Cmd) /\ <<>> \in Seq(Cmd)
    BY CmdAssumption
<1>2. FollowUp(c) \in Seq(Cmd)
    BY <1>1 DEF FollowUp
<1> QED
    BY <1>1, <1>2 DEF AfterError, AfterAnswer

(* What Done() does to the types.                                          *)
LEMMA FinishKeeps ==
    ASSUME TypeOK, NEW S \in SUBSET Cmd, Done(S)
    PROVE  /\ cmdSeq' \in [Cmd -> SUBSET Seqs]
           /\ curSeq' \in [Cmd -> 0..(Modulus - 1)]
           /\ live' \subseteq Cmd
BY SeqAssumption DEF TypeOK, Done

LEMMA InitType == Init => TypeInv
<1> SUFFICES ASSUME Init PROVE TypeInv
    OBVIOUS
<1>1. FirstSeq \in Seqs /\ 0 \in 0..(Modulus - 1)
    BY SeqAssumption DEF Seqs
<1>2. sync \in BOOLEAN /\ killed \in BOOLEAN
    BY Zenon DEF Init
<1>3. /\ waiting \in Seq(Cmd) /\ running \in Seq(Cmd)
      /\ fresh \subseteq Cmd /\ live \subseteq Cmd /\ slcmd \subseteq Cmd
      /\ cmdSeq \in [Cmd -> SUBSET Seqs]
      /\ curSeq \in [Cmd -> 0..(Modulus - 1)]
      /\ next \in Seqs /\ cpu \in CpuStates
      /\ inbox \in Seq(Line) /\ pipe \in Seq(Line)
    BY <1>1 DEF Init
<1>4. /\ stack \in Seq(Frame) /\ up \in {"up", "exited", "over"}
      /\ asked \in Seq([by : Cmd, seq : Seqs, final : BOOLEAN, n : 0..MaxLines])
    BY DEF Init
<1>5. ParseInv
    BY DEF Init, ParseInv
<1> QED
    BY <1>2, <1>3, <1>4, <1>5 DEF TypeInv, TypeOK

LEMMA SendType ==
    ASSUME TypeInv, Send
    PROVE  TypeInv'
<1>1. stack # <<>> /\ Top.op = "act"
    BY DEF Send, On
<1>2. Top \in [op : {"act"}, cmd : Cmd, left : 1..3]
    BY <1>1, StackFacts, FrameFields DEF TypeInv
<1>3. stack' \in Seq(Frame) /\ ParseInv'
    <2>1. CASE Return
        BY <1>1, <2>1, ReturnKeeps DEF Send, driverVars
    <2>2. CASE Top.left # 1 /\ Become([Top EXCEPT !.left = @ - 1])
        <3>1. [Top EXCEPT !.left = @ - 1] \in
                  [op : {"act"}, cmd : Cmd, left : 1..3]
            BY <1>2, <2>2
        <3>2. /\ [Top EXCEPT !.left = @ - 1] \in Frame
              /\ ~Looping([Top EXCEPT !.left = @ - 1])
            BY <3>1 DEF Frame, Looping
        <3> QED
            BY <1>1, <2>2, <3>2, BecomeKeeps DEF Send, driverVars
    <2> QED
        BY <1>2, <2>1, <2>2 DEF Send
<1>4. cmdSeq' \in [Cmd -> SUBSET Seqs] /\ next' \in Seqs
    BY <1>2, NextSeqType DEF Send, TypeInv, TypeOK
<1>5. asked' \in Seq([by : Cmd, seq : Seqs, final : BOOLEAN, n : 0..MaxLines])
    <2> DEFINE r == [by |-> Top.cmd, seq |-> next, final |-> Top.left = 1,
                     n |-> 0]
    <2>1. r \in [by : Cmd, seq : Seqs, final : BOOLEAN, n : 0..MaxLines]
        BY <1>2, SeqAssumption DEF TypeInv, TypeOK
    <2> QED
        BY <2>1 DEF Send, TypeInv, TypeOK
<1> QED
    BY <1>3, <1>4, <1>5
    DEF Send, TypeInv, TypeOK, queueVars, driverVars, peerVars

LEMMA ScanType ==
    ASSUME TypeInv, Scan
    PROVE  TypeInv'
<1> DEFINE f == [op |-> "run", loop |-> Top.loop, done |-> AllDone,
                 work |-> FALSE]
<1>1. stack # <<>> /\ Top.op = "scan"
    BY DEF Scan, On
<1>2. Top \in [op : {"scan"}, loop : BOOLEAN]
    BY <1>1, StackFacts, FrameFields DEF TypeInv
<1>3. f \in Frame /\ (Looping(f) => Looping(Top))
    <2>1. AllDone \in BOOLEAN
        BY DEF AllDone
    <2> QED
        BY <1>2, <2>1 DEF Frame, Looping
<1>4. stack' \in Seq(Frame) /\ ParseInv'
    BY <1>1, <1>3, BecomeKeeps DEF Scan, driverVars
<1> QED
    BY <1>4 DEF Scan, TypeInv, TypeOK, queueVars, cmdVars, driverVars, peerVars

LEMMA StartType ==
    ASSUME TypeInv, Start
    PROVE  TypeInv'
<1> DEFINE c == Head(waiting)
           rest == [Top EXCEPT !.op = "after", !.work = TRUE]
<1>1. stack # <<>> /\ Top.op = "run" /\ waiting # <<>>
    BY DEF Start, On, CanStart
<1>2. Top \in [op : {"run", "after"}, loop : BOOLEAN, done : BOOLEAN,
              work : BOOLEAN]
    BY <1>1, StackFacts, FrameFields DEF TypeInv
<1>3. rest \in [op : {"run", "after"}, loop : BOOLEAN, done : BOOLEAN,
               work : BOOLEAN] /\ rest.loop = Top.loop
    BY <1>2
<1>4. rest \in Frame /\ (Looping(rest) => Looping(Top))
    BY <1>1, <1>3 DEF Frame, Looping
<1>5. /\ c \in Cmd /\ waiting' \in Seq(Cmd) /\ running' \in Seq(Cmd)
      /\ live' \subseteq Cmd
    BY <1>1 DEF Start, TypeInv, TypeOK
<1>6. ASSUME NEW g \in Frame, ~Looping(g), Call(rest, g)
      PROVE  stack' \in Seq(Frame) /\ ParseInv'
    BY <1>1, <1>4, <1>6, CallKeeps DEF Start, driverVars
<1>7. stack' \in Seq(Frame) /\ ParseInv'
    <2>1. CASE Call(rest, [op |-> "refusal", cmd |-> c])
        <3>1. /\ [op |-> "refusal", cmd |-> c] \in Frame
              /\ ~Looping([op |-> "refusal", cmd |-> c])
            BY <1>5 DEF Frame, Looping
        <3> QED
            BY <2>1, <3>1, <1>6
    <2>2. ASSUME NEW n \in Requests(c) \ {0},
                 Call(rest, [op |-> "act", cmd |-> c, left |-> n])
          PROVE  stack' \in Seq(Frame) /\ ParseInv'
        <3>1. n \in 1..3
            BY <2>2 DEF Requests
        <3>2. /\ [op |-> "act", cmd |-> c, left |-> n] \in Frame
              /\ ~Looping([op |-> "act", cmd |-> c, left |-> n])
            BY <1>5, <3>1 DEF Frame, Looping
        <3> QED
            BY <2>2, <3>2, <1>6
    <2>3. CASE Become(rest)
        BY <1>1, <1>4, <2>3, BecomeKeeps DEF Start, driverVars
    <2> QED
        BY <2>1, <2>2, <2>3 DEF Start
<1> QED
    BY <1>5, <1>7 DEF Start, TypeInv, TypeOK, driverVars, peerVars

LEMMA AfterType ==
    ASSUME TypeInv, After
    PROVE  TypeInv'
<1> DEFINE f == [Top EXCEPT !.op = "run",
                            !.done = @ /\ IsDone(running[Len(running)])]
<1>1. stack # <<>> /\ Top.op = "after"
    BY DEF After, On
<1>2. Top \in [op : {"run", "after"}, loop : BOOLEAN, done : BOOLEAN,
              work : BOOLEAN]
    BY <1>1, StackFacts, FrameFields DEF TypeInv
<1>3. f \in [op : {"run", "after"}, loop : BOOLEAN, done : BOOLEAN,
            work : BOOLEAN] /\ f.loop = Top.loop
    BY <1>2
<1>4. f \in Frame /\ (Looping(f) => Looping(Top))
    BY <1>1, <1>3 DEF Frame, Looping
<1>5. stack' \in Seq(Frame) /\ ParseInv'
    BY <1>1, <1>4, BecomeKeeps DEF After, driverVars
<1> QED
    BY <1>5 DEF After, TypeInv, TypeOK, queueVars, cmdVars, driverVars, peerVars

LEMMA EndRunType ==
    ASSUME TypeInv, EndRun
    PROVE  TypeInv'
<1> DEFINE f == [op |-> "prune", work |-> Top.work]
<1>1. stack # <<>> /\ Top.op = "run"
    BY DEF EndRun, On
<1>2. Top \in [op : {"run", "after"}, loop : BOOLEAN, done : BOOLEAN,
              work : BOOLEAN]
    BY <1>1, StackFacts, FrameFields DEF TypeInv
<1>3. stack' \in Seq(Frame) /\ ParseInv'
    <2>1. CASE Top.loop
        <3>1. f \in Frame /\ Looping(Top)
            BY <1>1, <1>2, <2>1 DEF Frame, Looping
        <3> QED
            BY <1>1, <2>1, <3>1, BecomeKeeps DEF EndRun, driverVars
    <2>2. CASE ~Top.loop
        BY <1>1, <2>2, ReturnKeeps DEF EndRun, driverVars
    <2> QED
        BY <2>1, <2>2
<1> QED
    BY <1>3 DEF EndRun, TypeInv, TypeOK, queueVars, cmdVars, driverVars, peerVars

LEMMA PruneType ==
    ASSUME TypeInv, Prune
    PROVE  TypeInv'
<1>1. running' \in Seq(Cmd)
    BY DEF Prune, Retirable, TypeInv, TypeOK
<1>2. ParseInv'
    BY DEF Prune, TypeInv, ParseInv, driverVars
<1> QED
    BY <1>1, <1>2 DEF Prune, TypeInv, TypeOK, cmdVars, driverVars, peerVars

(* Behind the last line nothing loops any more.                            *)
LEMMA EndPruneType ==
    ASSUME TypeInv, EndPrune
    PROVE  TypeInv'
<1> DEFINE scan == [op |-> "scan", loop |-> TRUE]
           line == [op |-> "line"]
<1>1. stack # <<>> /\ Top.op = "prune" /\ Looping(Top)
    BY DEF EndPrune, On, Looping
<1>2. scan \in Frame /\ line \in Frame
    BY DEF Frame
<1>3. stack' \in Seq(Frame) /\ ParseInv' /\ inbox' \in Seq(Line)
    <2>1. CASE Become(scan) /\ UNCHANGED inbox
        BY <1>1, <1>2, <2>1, BecomeKeeps DEF TypeInv, TypeOK
    <2>2. ASSUME inbox' = Tail(inbox)
          PROVE  /\ inbox # <<>> /\ inbox' \in Seq(Line)
                 /\ Len(inbox) > 1 => inbox' # <<>>
        <3>1. inbox # <<>>
            BY <1>1, StackFacts DEF TypeInv, ParseInv, Top
        <3>2. inbox \in Seq(Line)
            BY DEF TypeInv, TypeOK
        <3>3. inbox' \in Seq(Line) /\ Len(inbox') = Len(inbox) - 1
            BY <2>2, <3>1, <3>2
        <3> QED
            BY <3>1, <3>2, <3>3
    <2>3. CASE inbox' = Tail(inbox) /\ Len(inbox) > 1 /\ Become(line)
        <3>1. /\ stack' \in Seq(Frame) /\ Len(stack') = Len(stack)
              /\ \A i \in 1..(Len(stack) - 1) : stack'[i] = stack[i]
            BY <1>1, <1>2, <2>3, StackFacts DEF TypeInv, Become
        <3>2. \A i \in 1..Len(stack') : Looping(stack'[i]) => Looping(stack[i])
            BY <1>1, <3>1, StackFacts DEF TypeInv, Top
        <3> QED
            BY <2>2, <2>3, <3>1, <3>2 DEF TypeInv, ParseInv
    <2>4. CASE inbox' = Tail(inbox) /\ Return
        <3>1. /\ stack' \in Seq(Frame) /\ Len(stack') = Len(stack) - 1
              /\ \A i \in 1..Len(stack') : stack'[i] = stack[i]
            BY <1>1, <2>4, StackFacts DEF TypeInv, Return
        <3>2. \A i \in 1..Len(stack') : ~Looping(stack'[i])
            BY <1>1, <3>1, StackFacts DEF TypeInv, ParseInv, Top
        <3> QED
            BY <2>2, <2>4, <3>1, <3>2 DEF ParseInv
    <2> QED
        BY <2>1, <2>3, <2>4 DEF EndPrune
<1> QED
    BY <1>3 DEF EndPrune, TypeInv, TypeOK, queueVars, cmdVars, peerVars

(* Handling a line: the frame that goes on to the next command.            *)
LEMMA HandleFacts ==
    ASSUME TypeInv, On("handle")
    PROVE  /\ stack # <<>> /\ Looping(Top) /\ inbox # <<>>
           /\ Top.i \in Nat \ {0}
           /\ Head(inbox) \in Line
           /\ NextIndex \in Frame /\ Looping(NextIndex)
           /\ NextIndex.op = "handle"
<1>1. stack # <<>> /\ Top.op = "handle" /\ Looping(Top)
    BY DEF On, Looping
<1>2. Top \in [op : {"handle"}, i : Nat \ {0}]
    BY <1>1, StackFacts, FrameFields DEF TypeInv
<1>3. NextIndex \in [op : {"handle"}, i : Nat \ {0}]
    BY <1>2 DEF NextIndex
<1>4. NextIndex \in Frame /\ Looping(NextIndex)
    BY <1>3 DEF Frame, Looping
<1>5. inbox # <<>>
    BY <1>1, StackFacts DEF TypeInv, ParseInv, Top
<1>6. Head(inbox) \in Line
    BY <1>5 DEF TypeInv, TypeOK
<1> QED
    BY <1>1, <1>2, <1>3, <1>4, <1>5, <1>6

LEMMA HandlingFacts ==
    ASSUME TypeInv, Handling
    PROVE  /\ On("handle") /\ Current \in Cmd
           /\ Top.i \in 1..Len(running) /\ Current = running[Top.i]
           /\ Head(inbox).seq \in Seqs
<1>1. On("handle") /\ Top.i \in 1..Len(running)
    BY HandleFacts DEF Handling, TypeInv, TypeOK
<1>2. Current \in Cmd
    BY <1>1 DEF Current, TypeInv, TypeOK
<1>3. Head(inbox).seq \in Seqs
    BY <1>1, HandleFacts, SeqAssumption DEF Handling, Line, Seqs
<1> QED
    BY <1>1, <1>2, <1>3 DEF Current

LEMMA ProcessCommandType ==
    ASSUME TypeInv, ProcessCommand
    PROVE  TypeInv'
<1> DEFINE handle == [op |-> "handle", i |-> 1]
<1>1. stack # <<>> /\ Top.op = "line" /\ Looping(Top)
    BY DEF ProcessCommand, On, Looping
<1>2. inbox # <<>>
    BY <1>1, StackFacts DEF TypeInv, ParseInv, Top
<1>3. Head(inbox).status \in CpuStates \cup {"none"}
    <2>1. Head(inbox) \in Line
        BY <1>2 DEF TypeInv, TypeOK
    <2> QED
        BY <2>1 DEF Line
<1>4. cpu' \in CpuStates
    BY <1>3 DEF ProcessCommand, TypeInv, TypeOK
<1>5. /\ handle \in Frame /\ QueueFrame \in Frame
      /\ ~Looping(QueueFrame)
    BY DEF Frame, QueueFrame, Looping
<1>6. /\ stack' \in Seq(Frame) /\ ParseInv'
      /\ waiting' \in Seq(Cmd) /\ fresh' \subseteq Cmd
    <2>1. ASSUME NEW c \in Polls \cap fresh, QueueCommand(c),
                 Call(handle, QueueFrame)
          PROVE  /\ stack' \in Seq(Frame) /\ ParseInv'
                 /\ waiting' \in Seq(Cmd) /\ fresh' \subseteq Cmd
        <3>1. waiting' \in Seq(Cmd) /\ fresh' \subseteq Cmd
            BY <2>1 DEF QueueCommand, TypeInv, TypeOK
        <3> QED
            BY <1>1, <1>5, <2>1, <3>1, CallKeeps DEF ProcessCommand
    <2>2. CASE Become(handle) /\ UNCHANGED <<waiting, fresh>>
        BY <1>1, <1>5, <2>2, BecomeKeeps DEF ProcessCommand, TypeInv, TypeOK
    <2> QED
        BY <2>1, <2>2 DEF ProcessCommand
<1> QED
    BY <1>4, <1>6 DEF ProcessCommand, TypeInv, TypeOK, cmdVars, peerVars

LEMMA PassType ==
    ASSUME TypeInv, Pass
    PROVE  TypeInv'
<1>1. On("handle")
    BY DEF Pass, Handling
<1>2. stack' \in Seq(Frame) /\ ParseInv'
    BY <1>1, HandleFacts, BecomeKeeps DEF Pass, driverVars
<1> QED
    BY <1>2 DEF Pass, TypeInv, TypeOK, queueVars, cmdVars, driverVars, peerVars

LEMMA ForeignType ==
    ASSUME TypeInv, Foreign
    PROVE  TypeInv'
<1>1. On("handle")
    BY DEF Foreign, Handling
<1>2. stack' \in Seq(Frame) /\ ParseInv'
    BY <1>1, HandleFacts, BecomeKeeps DEF Foreign, driverVars
<1>3. curSeq' \in [Cmd -> 0..(Modulus - 1)]
    <2>1. 0 \in 0..(Modulus - 1)
        BY SeqAssumption
    <2> QED
        BY <2>1 DEF Foreign, TypeInv, TypeOK
<1> QED
    BY <1>2, <1>3 DEF Foreign, TypeInv, TypeOK, queueVars, driverVars, peerVars

LEMMA AcceptType ==
    ASSUME TypeInv, Accept
    PROVE  TypeInv'
<1> DEFINE c == Current
           l == Head(inbox)
           Taken == /\ curSeq' = [curSeq EXCEPT ![c] = l.seq]
                    /\ cmdSeq' = [cmdSeq EXCEPT ![c] = Left(c, l.seq)]
                    /\ UNCHANGED live
           error == [op |-> "error", cmd |-> c]
           again == [op |-> "act", cmd |-> c, left |-> 1]
           Keeps == /\ stack' \in Seq(Frame) /\ ParseInv'
                    /\ cmdSeq' \in [Cmd -> SUBSET Seqs]
                    /\ curSeq' \in [Cmd -> 0..(Modulus - 1)]
                    /\ live' \subseteq Cmd /\ slcmd' \subseteq Cmd
<1>1. On("handle") /\ c \in Cmd /\ l.seq \in Seqs
    BY HandlingFacts DEF Accept
<1>2. /\ error \in Frame /\ ~Looping(error)
      /\ again \in Frame /\ ~Looping(again)
    BY <1>1 DEF Frame, Looping
<1>3. UNCHANGED inbox
    BY DEF Accept, driverVars
<1>4. ASSUME Taken
      PROVE  /\ cmdSeq' \in [Cmd -> SUBSET Seqs]
             /\ curSeq' \in [Cmd -> 0..(Modulus - 1)]
             /\ live' \subseteq Cmd
    BY <1>1, <1>4 DEF Left, Seqs, TypeInv, TypeOK
<1>5. Keeps
    <2>1. CASE Taken /\ UNCHANGED slcmd /\ Call(NextIndex, error)
        BY <1>1, <1>2, <1>3, <1>4, <2>1, HandleFacts, CallKeeps DEF TypeInv, TypeOK
    <2>2. ASSUME NEW todo \in AfterAnswer(c), UNCHANGED slcmd,
                 Finish(c, Append(Below, NextIndex), todo)
          PROVE  Keeps
        <3>1. /\ cmdSeq' \in [Cmd -> SUBSET Seqs]
              /\ curSeq' \in [Cmd -> 0..(Modulus - 1)]
              /\ live' \subseteq Cmd
            BY <1>1, <2>2, FinishKeeps DEF Finish, TypeInv
        <3>2. todo \in Seq(Cmd)
            BY <1>1, FollowUpType
        <3>3. CASE todo = <<>>
            <4>1. Become(NextIndex)
                BY <2>2, <3>3 DEF Finish, Become
            <4> QED
                BY <1>1, <1>3, <2>2, <3>1, <4>1, HandleFacts, BecomeKeeps
                DEF TypeInv, TypeOK
        <3>4. CASE todo # <<>>
            <4> DEFINE queue == [op |-> "queue", todo |-> todo]
            <4>1. queue \in Frame /\ ~Looping(queue)
                BY <3>2, <3>4 DEF Frame, Looping
            <4>2. Call(NextIndex, queue)
                BY <2>2, <3>4 DEF Finish, Call
            <4> QED
                BY <1>1, <1>3, <2>2, <3>1, <4>1, <4>2, HandleFacts, CallKeeps
                DEF TypeInv, TypeOK
        <3> QED
            BY <3>3, <3>4
    <2>3. CASE Taken /\ slcmd' = slcmd \cup {c} /\ Call(NextIndex, again)
        BY <1>1, <1>2, <1>3, <1>4, <2>3, HandleFacts, CallKeeps DEF TypeInv, TypeOK
    <2>4. CASE Taken /\ UNCHANGED slcmd /\ Become(NextIndex)
        BY <1>1, <1>3, <1>4, <2>4, HandleFacts, BecomeKeeps DEF TypeInv, TypeOK
    <2> QED
        BY <2>1, <2>2, <2>3, <2>4 DEF Accept
<1> QED
    BY <1>5 DEF Accept, TypeInv, TypeOK, queueVars, driverVars, peerVars

LEMMA EndHandleType ==
    ASSUME TypeInv, EndHandle
    PROVE  TypeInv'
<1> DEFINE scan == [op |-> "scan", loop |-> TRUE]
           prune == [op |-> "prune", work |-> TRUE]
<1>1. stack # <<>> /\ Looping(Top)
    BY HandleFacts DEF EndHandle
<1>2. scan \in Frame /\ prune \in Frame
    BY DEF Frame
<1>3. stack' \in Seq(Frame) /\ ParseInv'
    BY <1>1, <1>2, BecomeKeeps DEF EndHandle, driverVars
<1> QED
    BY <1>3 DEF EndHandle, TypeInv, TypeOK, queueVars, cmdVars, driverVars,
                peerVars

(* The last steps of a command whose member function is the innermost one. *)
LEMMA FinishTop ==
    ASSUME TypeInv, stack # <<>>, NEW c \in Cmd, NEW todo \in Seq(Cmd),
           Finish(c, Below, todo), UNCHANGED inbox
    PROVE  /\ stack' \in Seq(Frame) /\ ParseInv'
           /\ cmdSeq' \in [Cmd -> SUBSET Seqs]
           /\ curSeq' \in [Cmd -> 0..(Modulus - 1)]
           /\ live' \subseteq Cmd
<1>1. /\ cmdSeq' \in [Cmd -> SUBSET Seqs]
      /\ curSeq' \in [Cmd -> 0..(Modulus - 1)]
      /\ live' \subseteq Cmd
    BY FinishKeeps DEF Finish, TypeInv
<1>2. CASE todo = <<>>
    <2>1. Return
        BY <1>2 DEF Finish, Return
    <2> QED
        BY <1>1, <2>1, ReturnKeeps
<1>3. CASE todo # <<>>
    <2> DEFINE queue == [op |-> "queue", todo |-> todo]
    <2>1. queue \in Frame /\ ~Looping(queue)
        BY <1>3 DEF Frame, Looping
    <2>2. Become(queue)
        BY <1>3 DEF Finish, Become
    <2> QED
        BY <1>1, <2>1, <2>2, BecomeKeeps
<1> QED
    BY <1>2, <1>3

(* A dialog, or the way back from KillDebugger().                          *)
LEMMA CallerFacts ==
    ASSUME TypeInv, stack # <<>>, Top.op \in {"error", "refusal", "finish"}
    PROVE  Top.cmd \in Cmd /\ ~Looping(Top)
BY StackFacts, FrameFields DEF TypeInv, Looping

LEMMA SkipType ==
    ASSUME TypeInv, Skip
    PROVE  TypeInv'
<1>1. stack # <<>> /\ Top.cmd \in Cmd
    BY CallerFacts DEF Skip, InDialog
<1>2. /\ AfterError(Top.cmd) \in Seq(Cmd) /\ <<>> \in Seq(Cmd)
      /\ UNCHANGED inbox
    BY <1>1, FollowUpType DEF Skip, driverVars
<1>3. /\ stack' \in Seq(Frame) /\ ParseInv'
      /\ cmdSeq' \in [Cmd -> SUBSET Seqs]
      /\ curSeq' \in [Cmd -> 0..(Modulus - 1)]
      /\ live' \subseteq Cmd
    <2>1. CASE Finish(Top.cmd, Below, AfterError(Top.cmd))
        BY <1>1, <1>2, <2>1, FinishTop
    <2>2. CASE Finish(Top.cmd, Below, <<>>)
        BY <1>1, <1>2, <2>2, FinishTop
    <2> QED
        BY <2>1, <2>2 DEF Skip
<1> QED
    BY <1>3 DEF Skip, TypeInv, TypeOK, queueVars, driverVars, peerVars

LEMMA EndKillType ==
    ASSUME TypeInv, EndKill
    PROVE  TypeInv'
<1>1. stack # <<>> /\ Top.cmd \in Cmd
    BY CallerFacts DEF EndKill, On
<1>2. AfterError(Top.cmd) \in Seq(Cmd) /\ UNCHANGED inbox
    BY <1>1, FollowUpType DEF EndKill, driverVars
<1>3. /\ stack' \in Seq(Frame) /\ ParseInv'
      /\ cmdSeq' \in [Cmd -> SUBSET Seqs]
      /\ curSeq' \in [Cmd -> 0..(Modulus - 1)]
      /\ live' \subseteq Cmd
    BY <1>1, <1>2, FinishTop DEF EndKill
<1> QED
    BY <1>3 DEF EndKill, TypeInv, TypeOK, queueVars, driverVars, peerVars

LEMMA KillDebuggerType ==
    ASSUME TypeInv, NEW k \in Killers, KillDebugger(k)
    PROVE  TypeInv'
<1> DEFINE finish == [op |-> "finish", cmd |-> Top.cmd]
<1>1. stack # <<>> /\ Top.cmd \in Cmd /\ k \in Cmd
    BY CallerFacts DEF KillDebugger, On, Killers, Of
<1>2. /\ finish \in Frame /\ ~Looping(finish)
      /\ QueueFrame \in Frame /\ ~Looping(QueueFrame)
    BY <1>1 DEF Frame, Looping, QueueFrame
<1>3. stack' \in Seq(Frame) /\ ParseInv'
    BY <1>1, <1>2, CallKeeps DEF KillDebugger
<1>4. /\ cmdSeq' \in [Cmd -> SUBSET Seqs]
      /\ curSeq' \in [Cmd -> 0..(Modulus - 1)]
      /\ live' \subseteq Cmd
    <2>1. {running[i] : i \in 1..Len(running)} \in SUBSET Cmd
        BY DEF TypeInv, TypeOK
    <2> QED
        BY <2>1, FinishKeeps DEF KillDebugger, TypeInv
<1> QED
    BY <1>1, <1>3, <1>4 DEF KillDebugger, TypeInv, TypeOK, peerVars

LEMMA UseDeletedType ==
    ASSUME TypeInv, UseDeleted
    PROVE  TypeInv'
<1>1. stack # <<>> /\ [op |-> "lost"] \in Frame /\ ~Looping([op |-> "lost"])
    BY DEF UseDeleted, InDialog, On, Frame, Looping
<1>2. stack' \in Seq(Frame) /\ ParseInv'
    BY <1>1, BecomeKeeps DEF UseDeleted, driverVars
<1> QED
    BY <1>2 DEF UseDeleted, TypeInv, TypeOK, queueVars, cmdVars, driverVars,
                peerVars

LEMMA QueueFrameFacts == QueueFrame \in Frame /\ ~Looping(QueueFrame)
BY DEF Frame, Looping, QueueFrame

LEMMA QueueCommandType ==
    ASSUME TypeOK, NEW c \in Cmd, QueueCommand(c)
    PROVE  waiting' \in Seq(Cmd) /\ fresh' \subseteq Cmd
BY DEF QueueCommand, TypeOK

(* The four ways on behind one QueueCommand of several: there are more to  *)
(* queue or not, and the command is queued or passed over.                 *)
LEMMA QueueNextCases ==
    ASSUME TypeInv, QueueNext
    PROVE  LET c == Head(Top.todo)
               f == [Top EXCEPT !.todo = Tail(@)]
           IN  /\ stack # <<>> /\ Top.op = "queue" /\ c \in Cmd
               /\ \/ /\ c \in fresh /\ QueueCommand(c)
                     /\ \/ Become(QueueFrame)
                        \/ f \in Frame /\ f.op = "queue" /\ Call(f, QueueFrame)
                  \/ /\ UNCHANGED <<waiting, fresh>>
                     /\ Return \/ (f \in Frame /\ f.op = "queue" /\ Become(f))
<1> DEFINE c == Head(Top.todo)
           rest == Tail(Top.todo)
           f == [Top EXCEPT !.todo = rest]
           base == IF rest = <<>> THEN Below ELSE Append(Below, f)
<1>1. stack # <<>> /\ Top.op = "queue"
    BY DEF QueueNext, On
<1>2. Top \in [op : {"queue"}, todo : Seq(Cmd) \ {<<>>}]
    BY <1>1, StackFacts, FrameFields DEF TypeInv
<1>3. Top.todo \in Seq(Cmd) /\ Top.todo # <<>>
    BY <1>2
<1>4. c \in Cmd /\ rest \in Seq(Cmd)
    BY <1>3
<1>5. f = [Top EXCEPT !.todo = Tail(@)]
    BY <1>2
<1>6. rest # <<>> => f \in Frame /\ f.op = "queue"
    <2>1. rest # <<>> => f \in [op : {"queue"}, todo : Seq(Cmd) \ {<<>>}]
        BY <1>2, <1>4
    <2> QED
        BY <2>1 DEF Frame
<1>7. \/ c \in fresh /\ QueueCommand(c) /\ stack' = Append(base, QueueFrame)
      \/ UNCHANGED <<waiting, fresh>> /\ stack' = base
    BY Zenon DEF QueueNext
<1>8. \/ c \in fresh /\ QueueCommand(c) /\ Become(QueueFrame)
      \/ /\ c \in fresh /\ QueueCommand(c) /\ rest # <<>>
         /\ Call(f, QueueFrame)
      \/ UNCHANGED <<waiting, fresh>> /\ Return
      \/ UNCHANGED <<waiting, fresh>> /\ rest # <<>> /\ Become(f)
    BY <1>7, Zenon DEF Become, Call, Return
<1> HIDE DEF f
<1> QED
    BY <1>1, <1>4, <1>5, <1>6, <1>8

LEMMA QueueNextType ==
    ASSUME TypeInv, QueueNext
    PROVE  TypeInv'
<1> DEFINE c == Head(Top.todo)
           f == [Top EXCEPT !.todo = Tail(@)]
<1>1. stack # <<>> /\ Top.op = "queue" /\ UNCHANGED inbox
    BY QueueNextCases DEF QueueNext, driverVars
<1>2. waiting' \in Seq(Cmd) /\ fresh' \subseteq Cmd
    BY QueueNextCases, QueueCommandType DEF TypeInv, TypeOK
<1>3. f.op = "queue" => ~Looping(f)
    BY DEF Looping
<1> HIDE DEF f
<1>4. CASE Become(QueueFrame)
    BY <1>1, <1>2, <1>4, QueueFrameFacts, BecomeKeeps
    DEF QueueNext, TypeInv, TypeOK, cmdVars, driverVars, peerVars
<1>5. CASE f \in Frame /\ f.op = "queue" /\ Call(f, QueueFrame)
    BY <1>1, <1>2, <1>3, <1>5, QueueFrameFacts, CallKeeps
    DEF QueueNext, TypeInv, TypeOK, cmdVars, driverVars, peerVars
<1>6. CASE Return
    BY <1>1, <1>2, <1>6, ReturnKeeps
    DEF QueueNext, TypeInv, TypeOK, cmdVars, driverVars, peerVars
<1>7. CASE f \in Frame /\ f.op = "queue" /\ Become(f)
    BY <1>1, <1>2, <1>3, <1>7, BecomeKeeps
    DEF QueueNext, TypeInv, TypeOK, cmdVars, driverVars, peerVars
<1> QED
    BY <1>4, <1>5, <1>6, <1>7, QueueNextCases DEF f

(* The events. *)

LEMMA UserCommandType ==
    ASSUME TypeInv, NEW c \in Cmd, UserCommand(c)
    PROVE  TypeInv'
<1>1. stack' = Append(stack, QueueFrame)
    BY DEF UserCommand, Idle
<1>2. stack' \in Seq(Frame) /\ ParseInv'
    BY <1>1, QueueFrameFacts, PushKeeps DEF UserCommand, driverVars
<1> QED
    BY <1>2, QueueCommandType
    DEF UserCommand, TypeInv, TypeOK, cmdVars, driverVars, peerVars

LEMMA PollType ==
    ASSUME TypeInv, NEW c \in Cmd, Poll(c)
    PROVE  TypeInv'
<1>1. stack' \in Seq(Frame) /\ ParseInv'
    BY QueueFrameFacts, PushKeeps DEF Poll, driverVars
<1> QED
    BY <1>1, QueueCommandType
    DEF Poll, TypeInv, TypeOK, cmdVars, driverVars, peerVars

LEMMA OnGDBOutputType ==
    ASSUME TypeInv, OnGDBOutput
    PROVE  TypeInv'
<1> DEFINE line == [op |-> "line"]
<1>1. pipe' \in Seq(Line) /\ inbox' \in Seq(Line) /\ inbox' # <<>>
    BY DEF OnGDBOutput, TypeInv, TypeOK
<1>2. line \in Frame
    BY DEF Frame
<1>3. stack \in Seq(Frame)
    BY DEF TypeInv, TypeOK
<1>4. stack' \in Seq(Frame) /\ ParseInv'
    <2>1. CASE inbox = <<>>
        <3>1. stack' = Append(stack, line)
            BY <2>1 DEF OnGDBOutput
        <3>2. /\ stack' \in Seq(Frame) /\ Len(stack') = Len(stack) + 1
              /\ \A i \in 1..Len(stack) : stack'[i] = stack[i]
            BY <1>2, <1>3, <3>1
        <3>3. \A i \in 1..Len(stack') : Looping(stack'[i]) => i = Len(stack')
            BY <1>3, <2>1, <3>2 DEF TypeInv, ParseInv
        <3> QED
            BY <1>1, <3>2, <3>3 DEF ParseInv
    <2>2. CASE inbox # <<>>
        BY <1>1, <1>3, <2>2 DEF OnGDBOutput, TypeInv, ParseInv
    <2> QED
        BY <2>1, <2>2
<1> QED
    BY <1>1, <1>4 DEF OnGDBOutput, TypeInv, TypeOK, queueVars, cmdVars

LEMMA OnGDBTerminatedType ==
    ASSUME TypeInv, OnGDBTerminated
    PROVE  TypeInv'
<1>1. ParseInv'
    BY DEF OnGDBTerminated, TypeInv, ParseInv, driverVars
<1> QED
    BY <1>1 DEF OnGDBTerminated, TypeInv, TypeOK, cmdVars, driverVars

LEMMA HeadTail ==
    ASSUME NEW S, NEW s \in Seq(S), s # <<>>
    PROVE  /\ Head(s) \in S /\ Head(s) = s[1] /\ Tail(s) \in Seq(S)
           /\ \A e \in S : [s EXCEPT ![1] = e] \in Seq(S)
OBVIOUS

LEMMA AnswerType ==
    ASSUME TypeInv, Answer
    PROVE  TypeInv'
<1> DEFINE Request == [by : Cmd, seq : Seqs, final : BOOLEAN, n : 0..MaxLines]
           r == Head(asked)
<1>1. asked \in Seq(Request) /\ asked # <<>>
    BY DEF Answer, TypeInv, TypeOK
<1>2. /\ r \in Request /\ r = asked[1] /\ Tail(asked) \in Seq(Request)
      /\ \A e \in Request : [asked EXCEPT ![1] = e] \in Seq(Request)
    <2> HIDE DEF Request
    <2> QED
        BY <1>1, HeadTail
<1>3. pipe' \in Seq(Line)
    <2> DEFINE l(e) == [seq |-> r.seq, by |-> r.by, final |-> r.final,
                        err |-> e, status |-> "none"]
    <2>1. \A e \in BOOLEAN : l(e) \in Line
        BY <1>2, SeqAssumption DEF Line, Seqs
    <2>2. PICK e \in BOOLEAN : pipe' = Append(pipe, l(e))
        BY DEF Answer
    <2> QED
        BY <2>1, <2>2 DEF TypeInv, TypeOK
<1>4. asked' \in Seq(Request)
    <2>1. CASE r.n + 1 < MaxLines /\ asked' = [asked EXCEPT ![1].n = @ + 1]
        <3>1. [r EXCEPT !.n = @ + 1] \in Request
            <4>1. r.n + 1 \in 0..MaxLines
                BY <1>2, <2>1, SeqAssumption
            <4> QED
                BY <1>2, <4>1
        <3>2. asked' = [asked EXCEPT ![1] = [r EXCEPT !.n = @ + 1]]
            BY <1>2, <2>1
        <3> QED
            BY <1>2, <3>1, <3>2
    <2>2. \/ r.n + 1 < MaxLines /\ asked' = [asked EXCEPT ![1].n = @ + 1]
          \/ asked' = Tail(asked)
          \/ asked' = <<>>
        BY Zenon DEF Answer
    <2>3. <<>> \in Seq(Request)
        OBVIOUS
    <2> QED
        BY <1>2, <2>1, <2>2, <2>3
<1>5. up' \in {"up", "exited", "over"}
    BY DEF Answer, TypeInv, TypeOK
<1>6. ParseInv'
    BY DEF Answer, TypeInv, ParseInv, driverVars
<1> QED
    BY <1>3, <1>4, <1>5, <1>6
    DEF Answer, TypeInv, TypeOK, queueVars, cmdVars, driverVars

LEMMA ReportType ==
    ASSUME TypeInv, NEW s \in CpuStates, Report(s)
    PROVE  TypeInv'
<1> DEFINE l == [seq |-> 0, by |-> NoCmd, final |-> FALSE, err |-> FALSE,
                 status |-> s]
<1>1. l \in Line
    BY SeqAssumption DEF Line
<1>2. pipe' \in Seq(Line)
    BY <1>1 DEF Report, TypeInv, TypeOK
<1>3. ParseInv'
    BY DEF Report, TypeInv, ParseInv, driverVars
<1> QED
    BY <1>2, <1>3 DEF Report, TypeInv, TypeOK, queueVars, cmdVars, driverVars

LEMMA ExitType ==
    ASSUME TypeInv, Exit
    PROVE  TypeInv'
<1>1. ParseInv'
    BY DEF Exit, TypeInv, ParseInv, driverVars
<1> QED
    BY <1>1 DEF Exit, TypeInv, TypeOK, queueVars, cmdVars, driverVars

LEMMA StutterType ==
    ASSUME TypeInv, UNCHANGED vars
    PROVE  TypeInv'
BY DEF vars, queueVars, cmdVars, driverVars, peerVars, TypeInv, TypeOK, ParseInv

LEMMA NextType ==
    ASSUME TypeInv, [Next]_vars
    PROVE  TypeInv'
<1>1. CASE GuiStep
    BY <1>1, SendType, ScanType, StartType, AfterType, EndRunType, PruneType,
       EndPruneType, ProcessCommandType, PassType, ForeignType, AcceptType,
       EndHandleType, QueueNextType, EndKillType, UseDeletedType
    DEF GuiStep
<1>2. CASE UserAnswer
    BY <1>2, SkipType, KillDebuggerType DEF UserAnswer
<1>3. CASE \E c \in Cmd : UserCommand(c) \/ Poll(c)
    BY <1>3, UserCommandType, PollType
<1>4. CASE \/ OnGDBOutput \/ OnGDBTerminated \/ Answer \/ Exit
           \/ \E s \in CpuStates : Report(s)
    BY <1>4, OnGDBOutputType, OnGDBTerminatedType, AnswerType, ExitType,
       ReportType
<1>5. CASE UNCHANGED vars
    BY <1>5, StutterType
<1> QED
    BY <1>1, <1>2, <1>3, <1>4, <1>5 DEF Next

LEMMA TypeInvHolds == Spec => []TypeInv
<1> QED
    BY InitType, NextType, PTL DEF Spec

(* Every variable keeps its type and every frame its fields: in particular *)
(* a line is parsed only while m_DebuggerOutputQueue holds one (OnGDBOutput *)
(* and the loop of AXS_driver::ParseOutput), whatever dialogs are open.    *)
THEOREM TypeCorrect == Spec => []TypeOK
<1>1. TypeInv => TypeOK
    BY DEF TypeInv
<1> QED
    BY <1>1, TypeInvHolds, PTL

-----------------------------------------------------------------------------
(* What the queue promises while no command refuses to start.              *)

NoRefusals == \A c \in Cmd, s \in CpuStates : ~Refused(c, s)

(* A frame of a RunQueue() that QueueCommand calls.                        *)
Called(f) == f.op \in {"scan", "run", "after"} /\ ~f.loop

(* Which frame may lie on which.                                           *)
Over(g, f) ==
    \/ /\ f.op = "handle"
       /\ g.op \in {"act", "error", "finish", "queue"} \/ Called(g)
    \/ f.op \in {"error", "finish", "queue"} /\ Called(g)
    \/ f.op = "after" /\ g.op = "act"

StackInv ==
    /\ stack # <<>> => Looping(stack[1]) \/ Called(stack[1])
    /\ \A i \in 1..(Len(stack) - 1) : Over(stack[i + 1], stack[i])

(* What a frame knows of the queue: run and after the local runqdone, a    *)
(* prune frame without work that nothing can start, the frames of member   *)
(* functions that their command exists.                                    *)
FrameOk(f) ==
    /\ f.op = "run" => (f.done <=> AllDone)
    /\ f.op = "after" =>
           /\ running # <<>>
           /\ f.done <=> \A i \in 1..(Len(running) - 1) : IsDone(running[i])
    /\ f.op = "prune" /\ ~f.work => ~CanStart(AllDone)
    /\ f.op \in {"error", "refusal", "finish", "act"} => Exists(f.cmd)
    /\ f.op = "act" => f.cmd \in live

FramesInv == \A i \in 1..Len(stack) : FrameOk(stack[i])

(* A command waits for numbers only while it is running, and is in one     *)
(* place.                                                                  *)
LiveInv == \A c \in Cmd \ live : curSeq[c] = 0 /\ cmdSeq[c] = {}
PlaceInv ==
    /\ \A i, j \in 1..Len(running) : running[i] = running[j] => i = j
    /\ \A i, j \in 1..Len(waiting) : waiting[i] = waiting[j] => i = j
    /\ \A i \in 1..Len(running), j \in 1..Len(waiting) :
           running[i] # waiting[j]
    /\ \A i \in 1..Len(running) : running[i] \notin fresh
    /\ \A j \in 1..Len(waiting) : waiting[j] \notin fresh \cup live
    /\ live \cap fresh = {}

CommandsInv == LiveInv /\ PlaceInv /\ RunOrder /\ OneAtATime

QueueInv ==
    /\ TypeInv /\ StackInv /\ FramesInv
    /\ CommandsInv /\ NeverStalls

-----------------------------------------------------------------------------
(* The shape of the stack. *)

LEMMA OneOrMore ==
    ASSUME NEW n \in Nat \ {0}
    PROVE  n = 1 \/ n > 1
OBVIOUS

(* What loops is at the bottom; what is called by a command is not.        *)
LEMMA Bottom ==
    ASSUME TypeOK, StackInv, stack # <<>>
    PROVE  /\ Looping(Top) => Len(stack) = 1
           /\ Top.op \in {"act", "error", "refusal", "finish", "queue"} =>
                  /\ Len(stack) # 1
                  /\ Top.op # "act" => stack[Len(stack) - 1].op = "handle"
           /\ Top.op \notin {"refusal", "lost"}
<1>1. Len(stack) \in Nat \ {0} /\ Top \in Frame
    BY StackFacts
<1>2. CASE Len(stack) = 1
    BY <1>1, <1>2 DEF StackInv, Top, Looping, Called
<1>3. CASE Len(stack) # 1
    <2>1. Over(Top, stack[Len(stack) - 1])
        <3>1. Len(stack) - 1 \in 1..(Len(stack) - 1)
            BY <1>1, <1>3
        <3>2. Over(stack[(Len(stack) - 1) + 1], stack[Len(stack) - 1])
            BY <3>1 DEF StackInv
        <3>3. (Len(stack) - 1) + 1 = Len(stack)
            BY <1>1
        <3> QED
            BY <3>2, <3>3 DEF Top
    <2> QED
        BY <1>3, <2>1 DEF Over, Called, Looping
<1> QED
    BY <1>2, <1>3

(* Under an innermost frame that is not an Action() no RunQueue() is       *)
(* waiting to go on.                                                       *)
LEMMA LowerFrames ==
    ASSUME TypeOK, StackInv, stack # <<>>, Top.op # "act",
           NEW i \in 1..(Len(stack) - 1)
    PROVE  stack[i].op \in {"handle", "error", "finish", "queue"}
<1>1. Len(stack) \in Nat \ {0} /\ i \in Nat /\ i + 1 \in 1..Len(stack)
    BY StackFacts
<1>2. Over(stack[i + 1], stack[i])
    BY DEF StackInv
<1>3. CASE stack[i + 1].op = "act"
    <2>1. i + 1 # Len(stack)
        BY <1>3 DEF Top
    <2>2. i + 1 \in 1..(Len(stack) - 1)
        BY <1>1, <2>1
    <2>3. Over(stack[(i + 1) + 1], stack[i + 1])
        BY <2>2 DEF StackInv
    <2> QED
        BY <1>3, <2>3 DEF Over
<1>4. CASE stack[i + 1].op # "act"
    BY <1>2, <1>4 DEF Over
<1> QED
    BY <1>3, <1>4

(* The four ways a step changes the stack again: its shape remains.        *)
LEMMA ReturnShape ==
    ASSUME TypeInv, StackInv, stack # <<>>, Return, UNCHANGED inbox
    PROVE  StackInv'
<1>1. /\ Len(stack) \in Nat \ {0}
      /\ Len(stack') = Len(stack) - 1 /\ stack' \in Seq(Frame)
      /\ \A i \in 1..Len(stack') : stack'[i] = stack[i]
    BY StackFacts, ReturnKeeps DEF TypeInv
<1>2. stack' # <<>> => Len(stack') >= 1
    BY <1>1
<1> QED
    BY <1>1, <1>2 DEF StackInv

(* f takes the place of the innermost frame.                               *)
Replaces(f) ==
    /\ Looping(Top) <=> Looping(f)
    /\ Called(Top) => Called(f)
    /\ Top.op = "act" => f.op = "act"
    /\ Top.op \in {"error", "finish", "queue"} =>
           f.op \in {"error", "finish", "queue"} \/ Called(f)

LEMMA ReplacesFits ==
    ASSUME TypeOK, StackInv, stack # <<>>, NEW f, Replaces(f)
    PROVE  /\ Len(stack) = 1 => Looping(f) \/ Called(f)
           /\ Len(stack) > 1 => Over(f, stack[Len(stack) - 1])
<1>1. Len(stack) \in Nat \ {0} /\ Top = stack[Len(stack)]
    BY StackFacts DEF Top
<1>2. CASE Len(stack) = 1
    BY <1>1, <1>2 DEF StackInv, Replaces
<1>3. CASE Len(stack) > 1
    <2>1. Len(stack) - 1 \in 1..(Len(stack) - 1)
        BY <1>1, <1>3
    <2>2. (Len(stack) - 1) + 1 = Len(stack)
        BY <1>1
    <2>3. Over(Top, stack[Len(stack) - 1])
        BY <1>1, <2>1, <2>2 DEF StackInv
    <2> QED
        BY <1>3, <2>3 DEF Over, Replaces
<1> QED
    BY <1>1, <1>2, <1>3

LEMMA BecomeShape ==
    ASSUME TypeInv, StackInv, stack # <<>>, NEW f \in Frame, Become(f),
           UNCHANGED inbox, Replaces(f)
    PROVE  StackInv'
<1>1. /\ Len(stack) \in Nat \ {0}
      /\ Len(stack') = Len(stack) /\ stack'[Len(stack)] = f
      /\ \A i \in 1..(Len(stack) - 1) : stack'[i] = stack[i]
    BY StackFacts, BecomeKeeps DEF TypeInv, Replaces
<1>2. /\ Len(stack) = 1 => Looping(f) \/ Called(f)
      /\ Len(stack) > 1 => Over(f, stack[Len(stack) - 1])
    BY ReplacesFits DEF TypeInv
<1>3. Looping(stack'[1]) \/ Called(stack'[1])
    BY <1>1, <1>2 DEF StackInv
<1>4. ASSUME NEW i \in 1..(Len(stack') - 1)
      PROVE  Over(stack'[i + 1], stack'[i])
    <2>1. CASE i + 1 = Len(stack)
        <3>1. i = Len(stack) - 1 /\ Len(stack) > 1
            BY <1>1, <2>1
        <3> QED
            BY <1>1, <1>2, <2>1, <3>1
    <2>2. CASE i + 1 # Len(stack)
        <3>1. i \in 1..(Len(stack) - 1) /\ i + 1 \in 1..(Len(stack) - 1)
            BY <1>1, <2>2
        <3> QED
            BY <1>1, <3>1 DEF StackInv
    <2> QED
        BY <2>1, <2>2
<1> QED
    BY <1>3, <1>4 DEF StackInv

LEMMA PushShape ==
    ASSUME TypeInv, StackInv, NEW g, stack' = Append(stack, g),
           stack = <<>> => Looping(g) \/ Called(g),
           stack # <<>> => Over(g, Top)
    PROVE  StackInv'
<1>1. /\ Len(stack) \in Nat
      /\ Len(stack') = Len(stack) + 1 /\ stack'[Len(stack) + 1] = g
      /\ \A i \in 1..Len(stack) : stack'[i] = stack[i]
    BY DEF TypeInv, TypeOK
<1>2. Looping(stack'[1]) \/ Called(stack'[1])
    <2>1. CASE stack = <<>>
        BY <1>1, <2>1
    <2>2. CASE stack # <<>>
        <3>1. Len(stack) >= 1
            BY <2>2, StackFacts DEF TypeInv
        <3> QED
            BY <1>1, <2>2, <3>1 DEF StackInv
    <2> QED
        BY <2>1, <2>2
<1>3. ASSUME NEW i \in 1..(Len(stack') - 1)
      PROVE  Over(stack'[i + 1], stack'[i])
    <2>1. i \in 1..Len(stack)
        BY <1>1
    <2>2. CASE i = Len(stack)
        <3>1. stack # <<>>
            BY <2>1, <2>2
        <3> QED
            BY <1>1, <2>1, <2>2, <3>1 DEF Top
    <2>3. CASE i # Len(stack)
        <3>1. i \in 1..(Len(stack) - 1) /\ i + 1 \in 1..Len(stack)
            BY <1>1, <2>1, <2>3
        <3> QED
            BY <1>1, <3>1 DEF StackInv
    <2> QED
        BY <2>2, <2>3
<1> QED
    BY <1>2, <1>3 DEF StackInv

LEMMA CallShape ==
    ASSUME TypeInv, StackInv, stack # <<>>, NEW f \in Frame, NEW g \in Frame,
           Call(f, g), UNCHANGED inbox, Replaces(f), ~Looping(g), Over(g, f)
    PROVE  StackInv'
<1>1. /\ Len(stack) \in Nat \ {0} /\ Len(stack') = Len(stack) + 1
      /\ stack'[Len(stack)] = f /\ stack'[Len(stack) + 1] = g
      /\ \A i \in 1..(Len(stack) - 1) : stack'[i] = stack[i]
    BY StackFacts, CallKeeps DEF TypeInv, Replaces
<1>2. /\ Len(stack) = 1 => Looping(f) \/ Called(f)
      /\ Len(stack) > 1 => Over(f, stack[Len(stack) - 1])
    BY ReplacesFits DEF TypeInv
<1>3. Looping(stack'[1]) \/ Called(stack'[1])
    <2>1. CASE Len(stack) = 1
        BY <1>1, <1>2, <2>1
    <2>2. CASE Len(stack) > 1
        <3>1. 1 \in 1..(Len(stack) - 1)
            BY <1>1, <2>2
        <3>2. stack'[1] = stack[1]
            BY <1>1, <3>1
        <3> QED
            BY <3>2 DEF StackInv
    <2>3. Len(stack) = 1 \/ Len(stack) > 1
        BY StackFacts, OneOrMore DEF TypeInv
    <2> QED
        BY <2>1, <2>2, <2>3
<1>4. ASSUME NEW i \in 1..(Len(stack') - 1)
      PROVE  Over(stack'[i + 1], stack'[i])
    <2>1. CASE i = Len(stack)
        BY <1>1, <2>1
    <2>2. CASE i = Len(stack) - 1
        <3>1. i + 1 = Len(stack) /\ i \in 1..(Len(stack) - 1) /\ Len(stack) > 1
            BY <1>1, <2>2
        <3> QED
            BY <1>1, <1>2, <2>2, <3>1
    <2>3. CASE i # Len(stack) /\ i # Len(stack) - 1
        <3>1. i \in 1..(Len(stack) - 1) /\ i + 1 \in 1..(Len(stack) - 1)
            BY <1>1, <2>3
        <3> QED
            BY <1>1, <3>1 DEF StackInv
    <2> QED
        BY <2>1, <2>2, <2>3
<1> QED
    BY <1>3, <1>4 DEF StackInv

-----------------------------------------------------------------------------
(* What a change of the queue or of a command does to the rest.            *)

LEMMA DoneIsNotLive ==
    ASSUME LiveInv, NEW c \in Cmd
    PROVE  IsDone(c) <=> c \notin live
BY DEF LiveInv, IsDone

LEMMA RunningCmd ==
    ASSUME TypeOK, NEW i \in 1..Len(running)
    PROVE  running[i] \in Cmd
BY DEF TypeOK

(* The properties of running in terms of live.                             *)
LEMMA InTermsOfLive ==
    ASSUME TypeOK, LiveInv
    PROVE  /\ AllDone <=> \A i \in 1..Len(running) : running[i] \notin live
           /\ RunOrder <=>
                  \A i, j \in 1..Len(running) :
                      i < j /\ running[i] \in live =>
                          CanOverlap(running[i]) /\ ~IsBarrier(running[j])
           /\ OneAtATime <=>
                  (sync => \A i, j \in 1..Len(running) :
                      running[i] \in live /\ running[j] \in live => i = j)
<1>1. \A i \in 1..Len(running) : IsDone(running[i]) <=> running[i] \notin live
    BY RunningCmd, DoneIsNotLive
<1> QED
    BY <1>1 DEF AllDone, RunOrder, OneAtATime

LEMMA InTermsOfLiveNext ==
    ASSUME TypeOK', LiveInv'
    PROVE  /\ AllDone' <=> \A i \in 1..Len(running') : running'[i] \notin live'
           /\ RunOrder' <=>
                  \A i, j \in 1..Len(running') :
                      i < j /\ running'[i] \in live' =>
                          CanOverlap(running'[i]) /\ ~IsBarrier(running'[j])
           /\ OneAtATime' <=>
                  (sync' => \A i, j \in 1..Len(running') :
                      running'[i] \in live' /\ running'[j] \in live' => i = j)
<1>1. \A i \in 1..Len(running') : running'[i] \in Cmd
    BY DEF TypeOK
<1>2. \A i \in 1..Len(running') :
          IsDone(running[i])' <=> running'[i] \notin live'
    BY <1>1 DEF LiveInv, IsDone
<1> QED
    BY <1>1, <1>2 DEF AllDone, RunOrder, OneAtATime

(* The same for what a frame knows.                                        *)
LEMMA FrameInTermsOfLiveNext ==
    ASSUME TypeOK', LiveInv', NEW f
    PROVE  FrameOk(f)' <=>
        /\ f.op = "run" =>
               (f.done <=> \A i \in 1..Len(running') : running'[i] \notin live')
        /\ f.op = "after" =>
               /\ running' # <<>>
               /\ f.done <=>
                      \A i \in 1..(Len(running') - 1) : running'[i] \notin live'
        /\ f.op = "prune" /\ ~f.work => ~CanStart(AllDone)'
        /\ f.op \in {"error", "refusal", "finish", "act"} => Exists(f.cmd)'
        /\ f.op = "act" => f.cmd \in live'
<1>1. \A i \in 1..Len(running') : running'[i] \in Cmd
    BY DEF TypeOK
<1>2. \A i \in 1..Len(running') :
          IsDone(running[i])' <=> running'[i] \notin live'
    BY <1>1 DEF LiveInv, IsDone
<1>3. \A i \in 1..(Len(running') - 1) :
          IsDone(running[i])' <=> running'[i] \notin live'
    BY <1>2 DEF TypeOK
<1> QED
    BY <1>2, <1>3, InTermsOfLiveNext DEF FrameOk

LEMMA FramesByName ==
    ASSUME \A i \in 1..Len(stack') : \E f : f = stack'[i] /\ FrameOk(f)'
    PROVE  FramesInv'
BY DEF FramesInv, FrameOk

(* A step that leaves the queue alone.                                     *)
LEMMA QuietKeeps ==
    ASSUME QueueInv, TypeInv', StackInv', LiveInv',
           UNCHANGED <<running, waiting, fresh, live, sync>>,
           \A i \in 1..Len(stack') : FrameOk(stack'[i]),
           stack' = <<>> /\ up' # "over" => ~CanStart(AllDone)
    PROVE  QueueInv'
<1>1. TypeOK /\ LiveInv /\ TypeOK'
    BY DEF QueueInv, TypeInv, CommandsInv
<1>2. AllDone' <=> AllDone
    BY <1>1, InTermsOfLive, InTermsOfLiveNext
<1>3. CanStart(AllDone)' <=> CanStart(AllDone)
    BY <1>2 DEF CanStart
<1>4. RunOrder' /\ OneAtATime'
    BY <1>1, InTermsOfLive, InTermsOfLiveNext DEF QueueInv, CommandsInv
<1>5. PlaceInv'
    BY DEF QueueInv, CommandsInv, PlaceInv
<1>6. FramesInv'
    <2> SUFFICES ASSUME NEW i \in 1..Len(stack')
                 PROVE  FrameOk(stack[i])'
        BY DEF FramesInv
    <2>1. FrameOk(stack'[i])
        OBVIOUS
    <2>2. \A k \in 1..(Len(running) - 1) :
              IsDone(running[k])' <=> IsDone(running[k])
        <3>1. \A k \in 1..(Len(running) - 1) : running[k] \in Cmd
            BY <1>1 DEF TypeOK
        <3> QED
            BY <1>1, <3>1 DEF LiveInv, IsDone
    <2>3. \A c : Exists(c)' <=> Exists(c)
        BY DEF Exists
    <2> QED
        BY <1>2, <1>3, <2>1, <2>2, <2>3 DEF FrameOk
<1>7. NeverStalls'
    BY <1>3 DEF NeverStalls, Idle
<1> QED
    BY <1>4, <1>5, <1>6, <1>7 DEF QueueInv, CommandsInv

LEMMA TopOk ==
    ASSUME QueueInv, stack # <<>>
    PROVE  /\ FrameOk(Top) /\ Top \in Frame
           /\ Len(stack) \in Nat \ {0}
           /\ \A i \in 1..(Len(stack) - 1) : FrameOk(stack[i])
<1>1. Len(stack) \in Nat \ {0} /\ Top \in Frame
    BY StackFacts DEF QueueInv, TypeInv
<1> QED
    BY <1>1 DEF QueueInv, FramesInv, Top

LEMMA QuietReturn ==
    ASSUME QueueInv, TypeInv', LiveInv', stack # <<>>, Return,
           UNCHANGED <<running, waiting, fresh, live, sync, inbox>>,
           Len(stack) = 1 /\ up' # "over" => ~CanStart(AllDone)
    PROVE  QueueInv'
<1>1. /\ Len(stack) \in Nat \ {0}
      /\ stack' \in Seq(Frame) /\ Len(stack') = Len(stack) - 1
      /\ \A i \in 1..Len(stack') : stack'[i] = stack[i]
    BY TopOk, ReturnKeeps DEF QueueInv
<1>2. \A i \in 1..Len(stack') : FrameOk(stack'[i])
    BY <1>1, TopOk
<1>3. stack' = <<>> => Len(stack) = 1
    BY <1>1
<1> QED
    BY <1>2, <1>3, ReturnShape, QuietKeeps DEF QueueInv

LEMMA QuietBecome ==
    ASSUME QueueInv, TypeInv', LiveInv', stack # <<>>,
           NEW f \in Frame, Become(f), Replaces(f), FrameOk(f),
           UNCHANGED <<running, waiting, fresh, live, sync, inbox>>
    PROVE  QueueInv'
<1>1. /\ Len(stack) \in Nat \ {0}
      /\ Len(stack') = Len(stack) /\ stack'[Len(stack)] = f
      /\ \A i \in 1..(Len(stack) - 1) : stack'[i] = stack[i]
    BY TopOk, BecomeKeeps DEF QueueInv, Replaces
<1>2. \A i \in 1..Len(stack') : FrameOk(stack'[i])
    BY <1>1, TopOk
<1>3. stack' # <<>>
    BY <1>1
<1> QED
    BY <1>2, <1>3, BecomeShape, QuietKeeps DEF QueueInv

LEMMA QuietCall ==
    ASSUME QueueInv, TypeInv', LiveInv', stack # <<>>,
           NEW f \in Frame, NEW g \in Frame, Call(f, g), Replaces(f),
           ~Looping(g), Over(g, f), FrameOk(f), FrameOk(g),
           UNCHANGED <<running, waiting, fresh, live, sync, inbox>>
    PROVE  QueueInv'
<1>1. /\ Len(stack) \in Nat \ {0} /\ Len(stack') = Len(stack) + 1
      /\ stack'[Len(stack)] = f /\ stack'[Len(stack) + 1] = g
      /\ \A i \in 1..(Len(stack) - 1) : stack'[i] = stack[i]
    BY TopOk, CallKeeps DEF QueueInv, Replaces
<1>2. \A i \in 1..Len(stack') : FrameOk(stack'[i])
    BY <1>1, TopOk
<1>3. stack' # <<>>
    BY <1>1
<1> QED
    BY <1>2, <1>3, CallShape, QuietKeeps DEF QueueInv

(* A step that touches neither the queue nor the stack.                    *)
LEMMA QuietEvent ==
    ASSUME QueueInv, TypeInv',
           UNCHANGED <<running, waiting, fresh, live, sync, cmdSeq, curSeq,
                       stack>>,
           up' = "over" \/ up # "over"
    PROVE  QueueInv'
<1>1. StackInv'
    BY DEF QueueInv, StackInv
<1>2. LiveInv'
    BY DEF QueueInv, CommandsInv, LiveInv
<1>3. \A i \in 1..Len(stack') : FrameOk(stack'[i])
    BY DEF QueueInv, FramesInv
<1>4. stack' = <<>> /\ up' # "over" => ~CanStart(AllDone)
    BY DEF QueueInv, NeverStalls, Idle
<1> QED
    BY <1>1, <1>2, <1>3, <1>4, QuietKeeps

(* A step that only queues a command nobody had.                           *)
LEMMA QueueKeeps ==
    ASSUME QueueInv, TypeInv', StackInv', NEW c \in fresh, QueueCommand(c),
           UNCHANGED <<running, live, cmdSeq, curSeq, sync>>, stack' # <<>>,
           \A i \in 1..Len(stack') :
               FrameOk(stack'[i]) /\ stack'[i].op # "prune"
    PROVE  QueueInv'
<1>1. TypeOK /\ TypeOK' /\ LiveInv
    BY DEF QueueInv, TypeInv, CommandsInv
<1>2. LiveInv'
    BY <1>1 DEF LiveInv
<1>3. RunOrder' /\ OneAtATime'
    BY <1>1, <1>2, InTermsOfLive, InTermsOfLiveNext DEF QueueInv, CommandsInv
<1>4. /\ waiting \in Seq(Cmd) /\ Len(waiting') = Len(waiting) + 1
      /\ \A j \in 1..Len(waiting) : waiting'[j] = waiting[j]
      /\ waiting'[Len(waiting) + 1] = c
      /\ fresh' = fresh \ {c}
    BY <1>1 DEF QueueCommand, TypeOK
<1>5. \A j \in 1..Len(waiting') : j \in 1..Len(waiting) \/ j = Len(waiting) + 1
    BY <1>4
<1>6. PlaceInv'
    <2>1. PlaceInv
        BY DEF QueueInv, CommandsInv
    <2>2. \A j \in 1..Len(waiting) : waiting[j] # c
        BY <2>1 DEF PlaceInv
    <2>3. \A i, j \in 1..Len(waiting') : waiting'[i] = waiting'[j] => i = j
        BY <1>4, <1>5, <2>1, <2>2 DEF PlaceInv
    <2>4. \A j \in 1..Len(waiting') :
              /\ waiting'[j] \notin fresh' \cup live'
              /\ \A i \in 1..Len(running') : running'[i] # waiting'[j]
        BY <1>4, <1>5, <2>1 DEF PlaceInv
    <2> QED
        BY <1>4, <2>1, <2>3, <2>4 DEF PlaceInv
<1>7. FramesInv'
    <2> SUFFICES ASSUME NEW i \in 1..Len(stack')
                 PROVE  FrameOk(stack[i])'
        BY DEF FramesInv
    <2>1. FrameOk(stack'[i]) /\ stack'[i].op # "prune"
        OBVIOUS
    <2>2. (AllDone' <=> AllDone)
        BY DEF AllDone, IsDone
    <2>3. \A k \in 1..(Len(running) - 1) :
              IsDone(running[k])' <=> IsDone(running[k])
        BY DEF IsDone
    <2>4. \A e : Exists(e)' <=> Exists(e)
        BY DEF Exists
    <2> QED
        BY <2>1, <2>2, <2>3, <2>4 DEF FrameOk
<1>8. NeverStalls'
    BY DEF NeverStalls, Idle
<1> QED
    BY <1>2, <1>3, <1>6, <1>7, <1>8 DEF QueueInv, CommandsInv

(* A step that calls Done().                                               *)
LEMMA DoneKeeps ==
    ASSUME QueueInv, TypeInv', StackInv', PlaceInv',
           NEW S \in SUBSET Cmd, Done(S),
           UNCHANGED <<running, sync>>, stack' # <<>>,
           \A i \in 1..Len(stack') :
               /\ FrameOk(stack'[i])
               /\ stack'[i].op \in {"handle", "error", "finish", "queue", "scan"}
    PROVE  QueueInv'
<1>1. TypeOK /\ TypeOK' /\ LiveInv
    BY DEF QueueInv, TypeInv, CommandsInv
<1>2. LiveInv' /\ live' \subseteq live
    BY <1>1 DEF LiveInv, Done, TypeOK
<1>3. RunOrder' /\ OneAtATime'
    BY <1>1, <1>2, InTermsOfLive, InTermsOfLiveNext DEF QueueInv, CommandsInv
<1>4. FramesInv'
    <2> SUFFICES ASSUME NEW i \in 1..Len(stack')
                 PROVE  FrameOk(stack[i])'
        BY DEF FramesInv
    <2>1. /\ FrameOk(stack'[i])
          /\ stack'[i].op \in {"handle", "error", "finish", "queue", "scan"}
        OBVIOUS
    <2>2. \A e : Exists(e)' <=> Exists(e)
        BY DEF Exists
    <2> QED
        BY <2>1, <2>2 DEF FrameOk
<1>5. NeverStalls'
    BY DEF NeverStalls, Idle
<1> QED
    BY <1>2, <1>3, <1>4, <1>5 DEF QueueInv, CommandsInv

-----------------------------------------------------------------------------
(* The steps. *)

LEMMA InitQueue == Init => QueueInv
<1> SUFFICES ASSUME Init PROVE QueueInv
    OBVIOUS
<1>1. TypeInv
    BY InitType
<1>2. StackInv /\ FramesInv
    BY DEF Init, StackInv, FramesInv
<1>3. LiveInv /\ PlaceInv
    BY DEF Init, LiveInv, PlaceInv
<1>4. RunOrder /\ OneAtATime
    BY DEF Init, RunOrder, OneAtATime
<1>5. NeverStalls
    BY DEF Init, NeverStalls, CanStart
<1> QED
    BY <1>1, <1>2, <1>3, <1>4, <1>5 DEF QueueInv, CommandsInv

LEMMA SendQueue ==
    ASSUME QueueInv, Send
    PROVE  QueueInv'
<1>1. stack # <<>> /\ Top.op = "act" /\ TypeInv'
    BY SendType DEF Send, On, QueueInv
<1>2. Top \in [op : {"act"}, cmd : Cmd, left : 1..3] /\ Top.cmd \in live
    BY <1>1, TopOk, FrameFields DEF FrameOk
<1>3. LiveInv'
    BY <1>2 DEF Send, QueueInv, CommandsInv, LiveInv, TypeInv, TypeOK
<1>4. UNCHANGED <<running, waiting, fresh, live, sync, inbox>>
    BY DEF Send, queueVars, driverVars
<1>5. CASE Return
    <2>1. Len(stack) # 1
        BY <1>1, Bottom DEF QueueInv, TypeInv
    <2> QED
        BY <1>1, <1>3, <1>4, <1>5, <2>1, QuietReturn
<1>6. CASE Become([Top EXCEPT !.left = @ - 1]) /\ Top.left # 1
    <2> DEFINE f == [Top EXCEPT !.left = @ - 1]
    <2>1. f \in [op : {"act"}, cmd : Cmd, left : 1..3] /\ f.cmd = Top.cmd
        BY <1>2, <1>6
    <2>2. f \in Frame /\ f.op = "act"
        BY <2>1 DEF Frame
    <2>3. Replaces(f)
        BY <1>1, <2>2 DEF Replaces, Looping, Called
    <2>4. FrameOk(f)
        BY <1>1, <2>1, <2>2, TopOk DEF FrameOk
    <2> QED
        BY <1>1, <1>3, <1>4, <1>6, <2>2, <2>3, <2>4, QuietBecome
<1> QED
    BY <1>2, <1>5, <1>6 DEF Send

LEMMA ScanQueue ==
    ASSUME QueueInv, Scan
    PROVE  QueueInv'
<1> DEFINE f == [op |-> "run", loop |-> Top.loop, done |-> AllDone,
                 work |-> FALSE]
<1>1. stack # <<>> /\ Top.op = "scan" /\ TypeInv'
    BY ScanType DEF Scan, On, QueueInv
<1>2. Top \in [op : {"scan"}, loop : BOOLEAN]
    BY <1>1, TopOk, FrameFields
<1>3. f \in Frame
    <2>1. AllDone \in BOOLEAN
        BY DEF AllDone
    <2> QED
        BY <1>2, <2>1 DEF Frame
<1>4. Replaces(f) /\ FrameOk(f)
    BY <1>1 DEF Replaces, Looping, Called, FrameOk
<1>5. LiveInv' /\ UNCHANGED <<running, waiting, fresh, live, sync, inbox>>
    BY DEF Scan, QueueInv, CommandsInv, LiveInv, queueVars, cmdVars, driverVars
<1>6. Become(f)
    BY DEF Scan
<1> HIDE DEF f
<1> QED
    BY <1>1, <1>3, <1>4, <1>5, <1>6, QuietBecome

LEMMA AfterQueue ==
    ASSUME QueueInv, After
    PROVE  QueueInv'
<1> DEFINE f == [Top EXCEPT !.op = "run",
                            !.done = @ /\ IsDone(running[Len(running)])]
<1>1. stack # <<>> /\ Top.op = "after" /\ TypeInv' /\ running # <<>>
    BY AfterType DEF After, On, QueueInv
<1>2. Top \in [op : {"run", "after"}, loop : BOOLEAN, done : BOOLEAN,
              work : BOOLEAN]
    BY <1>1, TopOk, FrameFields
<1>3. /\ f \in [op : {"run", "after"}, loop : BOOLEAN, done : BOOLEAN,
               work : BOOLEAN]
      /\ f.op = "run" /\ f.loop = Top.loop
      /\ f.done <=> Top.done /\ IsDone(running[Len(running)])
    BY <1>2
<1>4. f \in Frame
    BY <1>3 DEF Frame
<1>5. f.done <=> AllDone
    <2>1. Top.done <=> \A i \in 1..(Len(running) - 1) : IsDone(running[i])
        BY <1>1, TopOk DEF FrameOk
    <2>2. Len(running) \in Nat \ {0}
        BY <1>1 DEF QueueInv, TypeInv, TypeOK
    <2> QED
        BY <1>3, <2>1, <2>2 DEF AllDone
<1>6. Become(f)
    BY DEF After
<1>7. LiveInv' /\ UNCHANGED <<running, waiting, fresh, live, sync, inbox>>
    BY DEF After, QueueInv, CommandsInv, LiveInv, queueVars, cmdVars, driverVars
<1> HIDE DEF f
<1>8. Replaces(f) /\ FrameOk(f)
    BY <1>1, <1>3, <1>5 DEF Replaces, Looping, Called, FrameOk
<1> QED
    BY <1>1, <1>4, <1>6, <1>7, <1>8, QuietBecome

LEMMA EndRunQueue ==
    ASSUME QueueInv, EndRun
    PROVE  QueueInv'
<1> DEFINE f == [op |-> "prune", work |-> Top.work]
<1>1. stack # <<>> /\ Top.op = "run" /\ TypeInv'
    BY EndRunType DEF EndRun, On, QueueInv
<1>2. Top \in [op : {"run", "after"}, loop : BOOLEAN, done : BOOLEAN,
              work : BOOLEAN]
    BY <1>1, TopOk, FrameFields
<1>3. ~CanStart(AllDone)
    <2>1. Top.done <=> AllDone
        BY <1>1, TopOk DEF FrameOk
    <2>2. ~CanStart(Top.done)
        BY DEF EndRun
    <2> QED
        BY <2>1, <2>2 DEF CanStart
<1>4. LiveInv' /\ UNCHANGED <<running, waiting, fresh, live, sync, inbox>>
    BY DEF EndRun, QueueInv, CommandsInv, LiveInv, queueVars, cmdVars, driverVars
<1>5. CASE Top.loop
    <2>1. f \in Frame
        BY <1>2 DEF Frame
    <2>2. Replaces(f) /\ FrameOk(f)
        BY <1>1, <1>3, <1>5 DEF Replaces, Looping, Called, FrameOk
    <2>3. Become(f)
        BY <1>5 DEF EndRun
    <2> HIDE DEF f
    <2> QED
        BY <1>1, <1>4, <2>1, <2>2, <2>3, QuietBecome
<1>6. CASE ~Top.loop
    BY <1>1, <1>3, <1>4, <1>6, QuietReturn DEF EndRun
<1> QED
    BY <1>5, <1>6

(* A command done leaves the run queue, and what may start is the same.    *)
LEMMA PruneQueue ==
    ASSUME QueueInv, Prune
    PROVE  QueueInv'
<1>1. TypeInv' /\ TypeOK /\ TypeOK' /\ LiveInv
    BY PruneType DEF QueueInv, TypeInv, CommandsInv
<1>2. stack # <<>> /\ Top.op = "prune" /\ running # <<>> /\ IsDone(Head(running))
    BY DEF Prune, On, Retirable
<1>3. Len(stack) = 1
    BY <1>1, <1>2, Bottom DEF Looping, QueueInv
<1>4. /\ Len(running) \in Nat \ {0} /\ Len(running') = Len(running) - 1
      /\ \A i \in 1..Len(running') : running'[i] = running[i + 1]
      /\ Head(running) = running[1]
    BY <1>1, <1>2 DEF Prune, TypeOK
<1>5. UNCHANGED <<waiting, fresh, live, cmdSeq, curSeq, sync, stack, inbox, up>>
    BY DEF Prune, cmdVars, driverVars, peerVars
<1>6. LiveInv'
    BY <1>1, <1>5 DEF LiveInv
<1>7. running[1] \notin live
    BY <1>1, <1>2, <1>4, RunningCmd, DoneIsNotLive
<1>8. PlaceInv'
    <2>1. \A i \in 1..Len(running') : i + 1 \in 1..Len(running)
        BY <1>4
    <2>2. \A i, j \in 1..Len(running') : running'[i] = running'[j] => i = j
        <3> SUFFICES ASSUME NEW i \in 1..Len(running'), NEW j \in 1..Len(running'),
                            running'[i] = running'[j]
                     PROVE  i = j
            OBVIOUS
        <3>1. i + 1 = j + 1
            BY <1>4, <2>1 DEF QueueInv, CommandsInv, PlaceInv
        <3> QED
            BY <3>1
    <2>3. \A i \in 1..Len(running') :
              /\ running'[i] \notin fresh'
              /\ \A j \in 1..Len(waiting') : running'[i] # waiting'[j]
        BY <1>4, <1>5, <2>1 DEF QueueInv, CommandsInv, PlaceInv
    <2> QED
        BY <1>5, <2>2, <2>3 DEF QueueInv, CommandsInv, PlaceInv
<1>9. RunOrder' /\ OneAtATime'
    <2>1. RunOrder'
        <3> SUFFICES ASSUME NEW i \in 1..Len(running'), NEW j \in 1..Len(running'),
                            i < j, running'[i] \in live'
                     PROVE  CanOverlap(running'[i]) /\ ~IsBarrier(running'[j])
            BY <1>1, <1>6, InTermsOfLiveNext
        <3>1. i + 1 \in 1..Len(running) /\ j + 1 \in 1..Len(running) /\ i + 1 < j + 1
            BY <1>4
        <3> QED
            BY <1>1, <1>4, <1>5, <3>1, InTermsOfLive DEF QueueInv, CommandsInv
    <2>2. OneAtATime'
        <3> SUFFICES ASSUME sync', NEW i \in 1..Len(running'),
                            NEW j \in 1..Len(running'),
                            running'[i] \in live', running'[j] \in live'
                     PROVE  i = j
            BY <1>1, <1>6, InTermsOfLiveNext
        <3>1. i + 1 \in 1..Len(running) /\ j + 1 \in 1..Len(running)
            BY <1>4
        <3>2. i + 1 = j + 1
            BY <1>1, <1>4, <1>5, <3>1, InTermsOfLive DEF QueueInv, CommandsInv
        <3> QED
            BY <3>2
    <2> QED
        BY <2>1, <2>2
<1>10. CanStart(AllDone)' => CanStart(AllDone)
    <2>1. AllDone => AllDone'
        <3> SUFFICES ASSUME AllDone, NEW i \in 1..Len(running')
                     PROVE  running'[i] \notin live'
            BY <1>1, <1>6, InTermsOfLiveNext
        <3>1. i + 1 \in 1..Len(running)
            BY <1>4
        <3> QED
            BY <1>1, <1>4, <1>5, <3>1, InTermsOfLive
    <2>2. AllDone' => AllDone
        <3> SUFFICES ASSUME AllDone', NEW i \in 1..Len(running)
                     PROVE  running[i] \notin live
            BY <1>1, InTermsOfLive
        <3>1. CASE i = 1
            BY <1>7, <3>1
        <3>2. CASE i # 1
            <4>1. i - 1 \in 1..Len(running') /\ running'[i - 1] = running[(i - 1) + 1]
                BY <1>4, <3>2
            <4>2. (i - 1) + 1 = i
                OBVIOUS
            <4> QED
                BY <1>1, <1>5, <1>6, <4>1, <4>2, InTermsOfLiveNext
        <3> QED
            BY <3>1, <3>2
    <2>3. ASSUME ~AllDone'
          PROVE  running'[Len(running')] = running[Len(running)]
        <3>1. PICK i \in 1..Len(running') : running'[i] \in live'
            BY <1>1, <1>6, <2>3, InTermsOfLiveNext
        <3>2. Len(running') \in 1..Len(running') /\ Len(running') + 1 = Len(running)
            BY <1>4
        <3> QED
            BY <1>4, <3>2
    <2> QED
        BY <1>5, <2>1, <2>2, <2>3 DEF CanStart
<1>11. FramesInv'
    <2>1. \A i \in 1..Len(stack') : stack'[i] = Top /\ FrameOk(Top)
        <3>1. \A i \in 1..Len(stack) : i = Len(stack)
            BY <1>2, <1>3, TopOk
        <3> QED
            BY <1>2, <1>5, <3>1, TopOk DEF Top
    <2>2. \A i \in 1..Len(stack') : FrameOk(stack[i])'
        BY <1>2, <1>10, <2>1 DEF FrameOk
    <2> QED
        BY <2>2 DEF FramesInv
<1>12. StackInv' /\ NeverStalls'
    BY <1>2, <1>5 DEF QueueInv, StackInv, NeverStalls, Idle
<1> QED
    BY <1>1, <1>6, <1>8, <1>9, <1>11, <1>12 DEF QueueInv, CommandsInv

LEMMA EndPruneQueue ==
    ASSUME QueueInv, EndPrune
    PROVE  QueueInv'
<1>1. /\ stack # <<>> /\ Top.op = "prune" /\ Looping(Top) /\ TypeInv'
      /\ stack \in Seq(Frame)
    BY EndPruneType DEF EndPrune, On, QueueInv, Looping, TypeInv, TypeOK
<1>2. Len(stack) = 1
    BY <1>1, Bottom DEF QueueInv, TypeInv
<1>3. LiveInv' /\ UNCHANGED <<running, waiting, fresh, live, sync>>
    BY DEF EndPrune, QueueInv, CommandsInv, LiveInv, queueVars, cmdVars
<1>4. ASSUME NEW f \in Frame, Become(f), f.op \in {"scan", "line"}, Looping(f)
      PROVE  QueueInv'
    <2>1. Below = <<>>
        BY <1>1, <1>2, StackFacts DEF QueueInv, TypeInv
    <2>2. stack' = <<f>>
        BY <1>4, <2>1 DEF Become
    <2>3. StackInv'
        BY <1>4, <2>2 DEF StackInv
    <2>4. \A i \in 1..Len(stack') : FrameOk(stack'[i])
        BY <1>4, <2>2 DEF FrameOk
    <2> QED
        BY <1>1, <1>3, <2>2, <2>3, <2>4, QuietKeeps
<1>5. ASSUME ~Top.work, Return
      PROVE  QueueInv'
    <2>1. stack' = <<>>
        BY <1>1, <1>2, <1>5, StackFacts DEF Return, QueueInv, TypeInv
    <2>2. ~CanStart(AllDone)
        BY <1>1, <1>5, TopOk DEF FrameOk
    <2> QED
        BY <1>1, <1>3, <2>1, <2>2, QuietKeeps DEF StackInv
<1>6. /\ [op |-> "scan", loop |-> TRUE] \in Frame
      /\ Looping([op |-> "scan", loop |-> TRUE])
      /\ [op |-> "line"] \in Frame /\ Looping([op |-> "line"])
    BY DEF Frame, Looping
<1> QED
    BY <1>4, <1>5, <1>6 DEF EndPrune

LEMMA NextIndexFits ==
    ASSUME QueueInv, On("handle")
    PROVE  /\ stack # <<>> /\ NextIndex \in Frame
           /\ Replaces(NextIndex) /\ FrameOk(NextIndex)
BY HandleFacts DEF QueueInv, On, Replaces, Looping, Called, FrameOk

LEMMA PassQueue ==
    ASSUME QueueInv, Pass
    PROVE  QueueInv'
<1>1. On("handle") /\ TypeInv'
    BY PassType DEF Pass, Handling, QueueInv
<1>2. LiveInv' /\ UNCHANGED <<running, waiting, fresh, live, sync, inbox>>
    BY DEF Pass, QueueInv, CommandsInv, LiveInv, queueVars, cmdVars, driverVars
<1> QED
    BY <1>1, <1>2, NextIndexFits, QuietBecome DEF Pass

LEMMA ForeignQueue ==
    ASSUME QueueInv, Foreign
    PROVE  QueueInv'
<1>1. On("handle") /\ TypeInv'
    BY ForeignType DEF Foreign, Handling, QueueInv
<1>2. LiveInv'
    BY DEF Foreign, QueueInv, CommandsInv, LiveInv, TypeInv, TypeOK
<1>3. UNCHANGED <<running, waiting, fresh, live, sync, inbox>>
    BY DEF Foreign, queueVars, driverVars
<1> QED
    BY <1>1, <1>2, <1>3, NextIndexFits, QuietBecome DEF Foreign

LEMMA EndHandleQueue ==
    ASSUME QueueInv, EndHandle
    PROVE  QueueInv'
<1> DEFINE scan == [op |-> "scan", loop |-> TRUE]
           prune == [op |-> "prune", work |-> TRUE]
<1>1. stack # <<>> /\ Top.op = "handle" /\ TypeInv'
    BY EndHandleType DEF EndHandle, On, QueueInv
<1>2. scan \in Frame /\ prune \in Frame
    BY DEF Frame
<1>3. /\ Replaces(scan) /\ FrameOk(scan)
      /\ Replaces(prune) /\ FrameOk(prune)
    BY <1>1 DEF Replaces, Looping, Called, FrameOk
<1>4. LiveInv' /\ UNCHANGED <<running, waiting, fresh, live, sync, inbox>>
    BY DEF EndHandle, QueueInv, CommandsInv, LiveInv, queueVars, cmdVars, driverVars
<1>5. Become(scan) \/ Become(prune)
    BY DEF EndHandle
<1> HIDE DEF scan, prune
<1> QED
    BY <1>1, <1>2, <1>3, <1>4, <1>5, QuietBecome

(* RunQueue() starts a command: what it allows is what RunOrder says, since *)
(* runqdone is up to date.                                                 *)
LEMMA StartQueue ==
    ASSUME NoRefusals, QueueInv, Start
    PROVE  QueueInv'
<1> DEFINE c == Head(waiting)
           rest == [Top EXCEPT !.op = "after", !.work = TRUE]
           n == Len(running)
<1>1. /\ TypeInv' /\ TypeInv /\ TypeOK /\ TypeOK' /\ LiveInv /\ PlaceInv
      /\ stack # <<>> /\ Top.op = "run" /\ waiting # <<>> /\ CanStart(Top.done)
    BY StartType DEF QueueInv, TypeInv, CommandsInv, Start, On, CanStart
<1>2. Top \in [op : {"run", "after"}, loop : BOOLEAN, done : BOOLEAN,
              work : BOOLEAN]
    BY <1>1, TopOk, FrameFields
<1>3. /\ rest \in [op : {"run", "after"}, loop : BOOLEAN, done : BOOLEAN,
                  work : BOOLEAN]
      /\ rest.op = "after" /\ rest.loop = Top.loop /\ rest.done = Top.done
    BY <1>2
<1>4. rest \in Frame /\ Replaces(rest)
    BY <1>1, <1>3 DEF Frame, Replaces, Looping, Called
<1>5. /\ c \in Cmd /\ waiting[1] = c
      /\ Len(waiting') = Len(waiting) - 1 /\ Len(waiting) \in Nat \ {0}
      /\ \A j \in 1..Len(waiting') : waiting'[j] = waiting[j + 1]
    BY <1>1 DEF Start, TypeOK
<1>6. /\ n \in Nat /\ Len(running') = n + 1
      /\ \A i \in 1..n : running'[i] = running[i]
      /\ running'[n + 1] = c
    BY <1>1, <1>5 DEF Start, TypeOK
<1>7. /\ live \subseteq live' /\ live' \subseteq live \cup {c}
      /\ UNCHANGED <<fresh, cmdSeq, curSeq, sync, inbox>>
    BY DEF Start, driverVars
<1>8. \A i \in 1..Len(running') : i \in 1..n \/ i = n + 1
    BY <1>6
<1>9. /\ \A i \in 1..n : running[i] # c
      /\ c \notin live /\ c \notin fresh
    <2>1. 1 \in 1..Len(waiting)
        BY <1>5
    <2> QED
        BY <1>1, <1>5, <2>1 DEF PlaceInv
<1>10. \A i \in 1..n : running'[i] \in live' <=> running[i] \in live
    BY <1>6, <1>7, <1>9
<1>11. LiveInv'
    BY <1>1, <1>7 DEF LiveInv
<1>12. Top.done <=> AllDone
    BY <1>1, TopOk DEF FrameOk
<1>13. PlaceInv'
    <2>1. \A i, j \in 1..Len(running') : running'[i] = running'[j] => i = j
        BY <1>1, <1>6, <1>8, <1>9 DEF PlaceInv
    <2>2. \A j \in 1..Len(waiting') : j + 1 \in 1..Len(waiting) /\ j + 1 # 1
        BY <1>5
    <2>3. \A i, j \in 1..Len(waiting') : waiting'[i] = waiting'[j] => i = j
        <3> SUFFICES ASSUME NEW i \in 1..Len(waiting'), NEW j \in 1..Len(waiting'),
                            waiting'[i] = waiting'[j]
                     PROVE  i = j
            OBVIOUS
        <3>1. i + 1 = j + 1
            BY <1>1, <1>5, <2>2 DEF PlaceInv
        <3> QED
            BY <3>1
    <2>4. \A j \in 1..Len(waiting') : waiting'[j] # c
        <3>1. 1 \in 1..Len(waiting)
            BY <1>5
        <3> QED
            BY <1>1, <1>5, <2>2, <3>1 DEF PlaceInv
    <2>5. \A j \in 1..Len(waiting') :
              /\ waiting'[j] \notin fresh' \cup live'
              /\ \A i \in 1..Len(running') : running'[i] # waiting'[j]
        <3> TAKE j \in 1..Len(waiting')
        <3>1. /\ waiting'[j] = waiting[j + 1] /\ j + 1 \in 1..Len(waiting)
              /\ waiting'[j] # c
            BY <1>5, <2>2, <2>4
        <3>2. waiting'[j] \notin fresh' \cup live'
            BY <1>1, <1>7, <3>1 DEF PlaceInv
        <3>3. \A i \in 1..n : running[i] # waiting'[j]
            BY <1>1, <3>1 DEF PlaceInv
        <3>4. \A i \in 1..Len(running') : running'[i] # waiting'[j]
            BY <1>6, <1>8, <3>1, <3>3
        <3> QED
            BY <3>2, <3>4
    <2>6. \A i \in 1..Len(running') : running'[i] \notin fresh'
        BY <1>1, <1>6, <1>7, <1>8, <1>9 DEF PlaceInv
    <2>7. live' \cap fresh' = {}
        BY <1>1, <1>7, <1>9 DEF PlaceInv
    <2> QED
        BY <2>1, <2>3, <2>5, <2>6, <2>7 DEF PlaceInv
<1>14. RunOrder'
    <2> SUFFICES ASSUME NEW i \in 1..Len(running'), NEW j \in 1..Len(running'),
                        i < j, running'[i] \in live'
                 PROVE  CanOverlap(running'[i]) /\ ~IsBarrier(running'[j])
        BY <1>1, <1>11, InTermsOfLiveNext
    <2>1. i \in 1..n
        BY <1>6
    <2>2. running[i] \in live
        BY <1>10, <2>1
    <2>3. CASE j \in 1..n
        BY <1>1, <1>6, <2>1, <2>2, <2>3, InTermsOfLive DEF QueueInv, CommandsInv
    <2>4. CASE j = n + 1
        <3>1. ~Top.done
            BY <1>1, <1>12, <2>1, <2>2, InTermsOfLive
        <3>2. CanOverlap(running[n]) /\ ~IsBarrier(c)
            BY <1>1, <3>1 DEF CanStart
        <3>3. CanOverlap(running[i])
            <4>1. CASE i = n
                BY <3>2, <4>1
            <4>2. CASE i # n
                <5>1. n \in 1..n /\ i < n
                    BY <1>6, <2>1, <4>2
                <5> QED
                    BY <1>1, <2>1, <2>2, <5>1, InTermsOfLive
                    DEF QueueInv, CommandsInv
            <4> QED
                BY <4>1, <4>2
        <3> QED
            BY <1>6, <2>1, <2>4, <3>2, <3>3
    <2> QED
        BY <1>8, <2>3, <2>4
<1>15. OneAtATime'
    <2> SUFFICES ASSUME sync', NEW i \in 1..Len(running'),
                        NEW j \in 1..Len(running'),
                        running'[i] \in live', running'[j] \in live'
                 PROVE  i = j
        BY <1>1, <1>11, InTermsOfLiveNext
    <2>1. Top.done
        BY <1>1, <1>7 DEF CanStart
    <2>2. \A k \in 1..n : running'[k] \notin live'
        BY <1>1, <1>10, <1>12, <2>1, InTermsOfLive
    <2> QED
        BY <1>8, <2>2
<1>16. \A i \in 1..(Len(stack) - 1) : FrameOk(stack[i]) /\
          stack[i].op \in {"handle", "error", "finish", "queue"}
    BY <1>1, TopOk, LowerFrames DEF QueueInv
<1>17. \A e : Exists(e) => Exists(e)'
    BY <1>6 DEF Exists
<1>18. ASSUME NEW f,
              f.op \in {"handle", "error", "finish", "queue"}, FrameOk(f)
       PROVE  FrameOk(f)'
    BY <1>17, <1>18 DEF FrameOk
<1>19. PICK r : r = rest
    OBVIOUS
<1>20. /\ r \in Frame /\ Replaces(r) /\ r.op = "after" /\ r.done = Top.done
    BY <1>3, <1>4, <1>19
<1>21. FrameOk(r)'
    <2>1. Top.done <=> \A i \in 1..n : running[i] \notin live
        BY <1>1, <1>12, InTermsOfLive
    <2>2. Top.done <=> \A i \in 1..(Len(running') - 1) : running'[i] \notin live'
        BY <1>6, <1>10, <2>1
    <2>3. running' # <<>>
        BY <1>6
    <2> QED
        BY <1>1, <1>11, <1>20, <2>2, <2>3, FrameInTermsOfLiveNext
<1>22. \/ Become(r)
       \/ \E m \in Requests(c) \ {0} :
              /\ live' = live \cup {c}
              /\ Call(r, [op |-> "act", cmd |-> c, left |-> m])
    <2>1. ~Refused(c, cpu)
        BY <1>1, <1>5 DEF NoRefusals, TypeOK
    <2> QED
        BY <1>19, <2>1 DEF Start
<1>23. ASSUME StackInv', stack' # <<>>, FramesInv'
       PROVE  QueueInv'
    <2>1. NeverStalls'
        BY <1>23 DEF NeverStalls, Idle
    <2> QED
        BY <1>1, <1>11, <1>13, <1>14, <1>15, <1>23, <2>1 DEF QueueInv, CommandsInv
<1>24. CASE Become(r)
    <2>1. StackInv'
        BY <1>1, <1>7, <1>20, <1>24, BecomeShape DEF QueueInv
    <2>2. /\ Len(stack) \in Nat \ {0}
          /\ Len(stack') = Len(stack) /\ stack'[Len(stack)] = r
          /\ \A i \in 1..(Len(stack) - 1) : stack'[i] = stack[i]
        BY <1>1, <1>7, <1>20, <1>24, TopOk, BecomeKeeps DEF Replaces
    <2>3. \A i \in 1..Len(stack') : \E f : f = stack'[i] /\ FrameOk(f)'
        BY <1>16, <1>18, <1>21, <2>2
    <2>4. stack' # <<>>
        BY <2>2
    <2> QED
        BY <1>23, <2>1, <2>3, <2>4, FramesByName
<1>25. ASSUME NEW m \in Requests(c) \ {0}, live' = live \cup {c},
              Call(r, [op |-> "act", cmd |-> c, left |-> m])
       PROVE  QueueInv'
    <2>0. PICK g : g = [op |-> "act", cmd |-> c, left |-> m]
        OBVIOUS
    <2>1. m \in 1..3
        BY DEF Requests
    <2>2. /\ g \in Frame /\ g.op = "act" /\ g.cmd = c
          /\ ~Looping(g) /\ Over(g, r) /\ Call(r, g)
        BY <1>5, <1>20, <1>25, <2>0, <2>1 DEF Frame, Looping, Over
    <2>3. StackInv'
        BY <1>1, <1>7, <1>20, <2>2, CallShape DEF QueueInv
    <2>4. /\ Len(stack) \in Nat \ {0} /\ Len(stack') = Len(stack) + 1
          /\ stack'[Len(stack)] = r /\ stack'[Len(stack) + 1] = g
          /\ \A i \in 1..(Len(stack) - 1) : stack'[i] = stack[i]
        BY <1>1, <1>7, <1>20, <2>2, TopOk, CallKeeps DEF Replaces
    <2>5. FrameOk(g)'
        <3>1. n + 1 \in 1..Len(running') /\ running'[n + 1] = g.cmd
            BY <1>6, <2>2
        <3>2. Exists(g.cmd)' /\ g.cmd \in live'
            BY <1>25, <2>2, <3>1 DEF Exists
        <3> QED
            BY <2>2, <3>2 DEF FrameOk
    <2>6. \A i \in 1..Len(stack') : \E f : f = stack'[i] /\ FrameOk(f)'
        BY <1>16, <1>18, <1>21, <2>4, <2>5
    <2>7. stack' # <<>>
        BY <2>4
    <2> QED
        BY <1>23, <2>3, <2>6, <2>7, FramesByName
<1> QED
    BY <1>22, <1>24, <1>25

LEMMA LowerOk ==
    ASSUME QueueInv, stack # <<>>, Top.op # "act"
    PROVE  \A i \in 1..(Len(stack) - 1) :
               /\ FrameOk(stack[i])
               /\ stack[i].op \in {"handle", "error", "finish", "queue"}
BY TopOk, LowerFrames DEF QueueInv, TypeInv

LEMMA DonePlace ==
    ASSUME PlaceInv, NEW S, Done(S), UNCHANGED <<running, waiting, fresh>>
    PROVE  PlaceInv'
<1>1. live' \subseteq live
    BY DEF Done
<1>2. /\ \A j \in 1..Len(waiting') : waiting'[j] \notin fresh' \cup live'
      /\ live' \cap fresh' = {}
    BY <1>1 DEF PlaceInv
<1> QED
    BY <1>2 DEF PlaceInv

LEMMA QueuedFrame ==
    ASSUME NEW todo \in Seq(Cmd) \ {<<>>}, NEW f,
           f = [op |-> "queue", todo |-> todo]
    PROVE  f \in Frame /\ f.op = "queue" /\ ~Looping(f) /\ FrameOk(f)
BY DEF Frame, Looping, FrameOk

LEMMA QueueFrameOk ==
    /\ QueueFrame \in Frame /\ ~Looping(QueueFrame) /\ Called(QueueFrame)
    /\ FrameOk(QueueFrame) /\ QueueFrame.op = "scan"
BY DEF Frame, QueueFrame, Looping, Called, FrameOk

(* The line is for this command, which is live and in running.             *)
LEMMA AcceptQueue ==
    ASSUME QueueInv, Accept
    PROVE  QueueInv'
<1> DEFINE c == Current
           l == Head(inbox)
           Taken == /\ curSeq' = [curSeq EXCEPT ![c] = l.seq]
                    /\ cmdSeq' = [cmdSeq EXCEPT ![c] = Left(c, l.seq)]
                    /\ UNCHANGED live
<1>1. /\ TypeInv /\ TypeInv' /\ TypeOK /\ LiveInv /\ PlaceInv
      /\ On("handle") /\ c \in Cmd /\ ~IsDone(c)
      /\ Top.i \in 1..Len(running) /\ c = running[Top.i]
    BY AcceptType, HandlingFacts DEF Accept, QueueInv, TypeInv, CommandsInv
<1>2. /\ stack # <<>> /\ NextIndex \in Frame /\ NextIndex.op = "handle"
      /\ Replaces(NextIndex) /\ FrameOk(NextIndex) /\ Top.op # "act"
    BY <1>1, NextIndexFits, HandleFacts DEF On
<1>3. c \in live /\ Exists(c)
    BY <1>1, DoneIsNotLive DEF Exists
<1>4. UNCHANGED <<running, waiting, fresh, sync, inbox>>
    BY DEF Accept, queueVars, driverVars
<1>5. ASSUME Taken
      PROVE  LiveInv' /\ UNCHANGED live
    BY <1>1, <1>3, <1>5 DEF LiveInv, TypeOK
<1>6. CASE Taken /\ Call(NextIndex, [op |-> "error", cmd |-> c])
    <2>1. PICK g : g = [op |-> "error", cmd |-> c]
        OBVIOUS
    <2>2. g \in Frame /\ g.op = "error" /\ g.cmd = c /\ ~Looping(g)
        BY <1>1, <2>1 DEF Frame, Looping
    <2>3. Over(g, NextIndex) /\ FrameOk(g)
        BY <1>2, <1>3, <2>2 DEF Over, FrameOk
    <2>4. Call(NextIndex, g)
        BY <1>6, <2>1
    <2> QED
        BY <1>1, <1>2, <1>4, <1>5, <1>6, <2>2, <2>3, <2>4, QuietCall
<1>7. CASE Taken /\ Call(NextIndex, [op |-> "act", cmd |-> c, left |-> 1])
    <2>1. PICK g : g = [op |-> "act", cmd |-> c, left |-> 1]
        OBVIOUS
    <2>2. g \in Frame /\ g.op = "act" /\ g.cmd = c /\ ~Looping(g)
        BY <1>1, <2>1 DEF Frame, Looping
    <2>3. Over(g, NextIndex) /\ FrameOk(g)
        BY <1>2, <1>3, <2>2 DEF Over, FrameOk
    <2>4. Call(NextIndex, g)
        BY <1>7, <2>1
    <2> QED
        BY <1>1, <1>2, <1>4, <1>5, <1>7, <2>2, <2>3, <2>4, QuietCall
<1>8. CASE Taken /\ Become(NextIndex)
    BY <1>1, <1>2, <1>4, <1>5, <1>8, QuietBecome
<1>9. ASSUME NEW todo \in AfterAnswer(c),
             Finish(c, Append(Below, NextIndex), todo)
      PROVE  QueueInv'
    <2>1. todo \in Seq(Cmd)
        BY <1>1, FollowUpType
    <2>2. Done({c}) /\ {c} \in SUBSET Cmd /\ PlaceInv'
        BY <1>1, <1>4, <1>9, DonePlace DEF Finish
    <2>3. CASE todo = <<>>
        <3>1. Become(NextIndex)
            BY <1>9, <2>3 DEF Finish, Become
        <3>2. StackInv'
            BY <1>1, <1>2, <1>4, <3>1, BecomeShape DEF QueueInv
        <3>3. /\ Len(stack) \in Nat \ {0}
              /\ Len(stack') = Len(stack) /\ stack'[Len(stack)] = NextIndex
              /\ \A i \in 1..(Len(stack) - 1) : stack'[i] = stack[i]
            BY <1>1, <1>2, <1>4, <3>1, TopOk, BecomeKeeps DEF Replaces
        <3>4. stack' # <<>> /\
              \A i \in 1..Len(stack') :
                  /\ FrameOk(stack'[i])
                  /\ stack'[i].op \in {"handle", "error", "finish", "queue", "scan"}
            BY <1>2, <3>3, LowerOk
        <3> QED
            BY <1>1, <1>4, <2>2, <3>2, <3>4, DoneKeeps
    <2>4. CASE todo # <<>>
        <3>1. PICK g : g = [op |-> "queue", todo |-> todo]
            OBVIOUS
        <3>2. g \in Frame /\ g.op = "queue" /\ ~Looping(g) /\ FrameOk(g)
            BY <2>1, <2>4, <3>1, QueuedFrame
        <3>3. Call(NextIndex, g) /\ Over(g, NextIndex)
            BY <1>2, <1>9, <2>4, <3>1, <3>2 DEF Finish, Call, Over
        <3>4. StackInv'
            BY <1>1, <1>2, <1>4, <3>2, <3>3, CallShape DEF QueueInv
        <3>5. /\ Len(stack) \in Nat \ {0} /\ Len(stack') = Len(stack) + 1
              /\ stack'[Len(stack)] = NextIndex /\ stack'[Len(stack) + 1] = g
              /\ \A i \in 1..(Len(stack) - 1) : stack'[i] = stack[i]
            BY <1>1, <1>2, <1>4, <3>2, <3>3, TopOk, CallKeeps DEF Replaces
        <3>6. stack' # <<>> /\
              \A i \in 1..Len(stack') :
                  /\ FrameOk(stack'[i])
                  /\ stack'[i].op \in {"handle", "error", "finish", "queue", "scan"}
            BY <1>2, <3>2, <3>5, LowerOk
        <3> QED
            BY <1>1, <1>4, <2>2, <3>4, <3>6, DoneKeeps
    <2> QED
        BY <2>3, <2>4
<1> QED
    BY <1>6, <1>7, <1>8, <1>9 DEF Accept

(* A dialog answered, or KillDebugger() over.                              *)
LEMMA FinishQueue ==
    ASSUME QueueInv, TypeInv', stack # <<>>, Top.op \in {"error", "finish"},
           NEW c \in Cmd, NEW todo \in Seq(Cmd), Finish(c, Below, todo),
           UNCHANGED <<running, waiting, fresh, sync, inbox>>
    PROVE  QueueInv'
<1>1. TypeInv /\ TypeOK /\ StackInv /\ PlaceInv
    BY DEF QueueInv, TypeInv, CommandsInv
<1>2. Done({c}) /\ {c} \in SUBSET Cmd /\ PlaceInv'
    BY <1>1, DonePlace DEF Finish
<1>3. Len(stack) # 1 /\ Len(stack) \in Nat \ {0}
    BY <1>1, Bottom, TopOk
<1>4. CASE todo = <<>>
    <2>1. Return
        BY <1>4 DEF Finish, Return
    <2>2. StackInv'
        BY <1>1, <2>1, ReturnShape
    <2>3. /\ Len(stack') = Len(stack) - 1
          /\ \A i \in 1..Len(stack') : stack'[i] = stack[i]
        BY <1>1, <2>1, ReturnKeeps
    <2>4. stack' # <<>> /\
          \A i \in 1..Len(stack') :
              /\ FrameOk(stack'[i])
              /\ stack'[i].op \in {"handle", "error", "finish", "queue", "scan"}
        BY <1>3, <2>3, LowerOk
    <2> QED
        BY <1>2, <2>2, <2>4, DoneKeeps
<1>5. CASE todo # <<>>
    <2>1. PICK g : g = [op |-> "queue", todo |-> todo]
        OBVIOUS
    <2>2. g \in Frame /\ g.op = "queue" /\ ~Looping(g) /\ FrameOk(g)
        BY <1>5, <2>1, QueuedFrame
    <2>3. Become(g) /\ Replaces(g)
        BY <1>5, <2>1, <2>2 DEF Finish, Become, Replaces, Looping, Called
    <2>4. StackInv'
        BY <1>1, <2>2, <2>3, BecomeShape
    <2>5. /\ Len(stack') = Len(stack) /\ stack'[Len(stack)] = g
          /\ \A i \in 1..(Len(stack) - 1) : stack'[i] = stack[i]
        BY <1>1, <2>2, <2>3, BecomeKeeps
    <2>6. stack' # <<>> /\
          \A i \in 1..Len(stack') :
              /\ FrameOk(stack'[i])
              /\ stack'[i].op \in {"handle", "error", "finish", "queue", "scan"}
        BY <1>3, <2>2, <2>5, LowerOk
    <2> QED
        BY <1>2, <2>4, <2>6, DoneKeeps
<1> QED
    BY <1>4, <1>5

LEMMA SkipQueue ==
    ASSUME QueueInv, Skip
    PROVE  QueueInv'
<1>1. TypeInv /\ TypeInv' /\ TypeOK /\ StackInv /\ stack # <<>>
    BY SkipType DEF Skip, InDialog, QueueInv, TypeInv
<1>2. Top.op = "error" /\ Top.cmd \in Cmd
    BY <1>1, Bottom, CallerFacts DEF Skip, InDialog
<1>3. UNCHANGED <<running, waiting, fresh, sync, inbox>>
    BY DEF Skip, queueVars, driverVars
<1>4. Finish(Top.cmd, Below, AfterError(Top.cmd))
    BY <1>2 DEF Skip
<1> QED
    BY <1>1, <1>2, <1>3, <1>4, FollowUpType, FinishQueue

LEMMA EndKillQueue ==
    ASSUME QueueInv, EndKill
    PROVE  QueueInv'
<1>1. TypeInv /\ TypeInv' /\ stack # <<>> /\ Top.op = "finish"
    BY EndKillType DEF EndKill, On, QueueInv
<1>2. Top.cmd \in Cmd
    BY <1>1, CallerFacts
<1>3. UNCHANGED <<running, waiting, fresh, sync, inbox>>
    BY DEF EndKill, queueVars, driverVars
<1> QED
    BY <1>1, <1>2, <1>3, FollowUpType, FinishQueue DEF EndKill

(* Every command is done, and the Terminate command is all that waits.     *)
LEMMA KillDebuggerQueue ==
    ASSUME QueueInv, NEW k \in Killers, KillDebugger(k)
    PROVE  QueueInv'
<1>1. /\ TypeInv /\ TypeInv' /\ TypeOK /\ PlaceInv
      /\ stack # <<>> /\ Top.op = "error"
    BY KillDebuggerType DEF KillDebugger, On, QueueInv, TypeInv, CommandsInv
<1>2. Top.cmd \in Cmd /\ Exists(Top.cmd) /\ k \in fresh
    BY <1>1, CallerFacts DEF KillDebugger
<1>3. UNCHANGED <<running, sync, inbox>>
    BY DEF KillDebugger
<1>4. PICK S : S = {running[i] : i \in 1..Len(running)}
    OBVIOUS
<1>5. S \in SUBSET Cmd /\ Done(S)
    BY <1>1, <1>4 DEF KillDebugger, TypeOK
<1>6. PlaceInv'
    <2>1. live' \subseteq live /\ waiting' = <<k>> /\ fresh' = fresh \ {k}
        BY <1>5 DEF Done, KillDebugger
    <2> QED
        BY <1>1, <1>2, <1>3, <2>1 DEF PlaceInv
<1>7. PICK f : f = [op |-> "finish", cmd |-> Top.cmd]
    OBVIOUS
<1>8. /\ f \in Frame /\ f.op = "finish" /\ Replaces(f) /\ FrameOk(f)
      /\ Over(QueueFrame, f)
    BY <1>1, <1>2, <1>7, QueueFrameOk
    DEF Frame, Replaces, Looping, Called, FrameOk, Over
<1>9. Call(f, QueueFrame)
    BY <1>7 DEF KillDebugger
<1>10. StackInv'
    BY <1>1, <1>3, <1>8, <1>9, QueueFrameOk, CallShape DEF QueueInv
<1>11. /\ Len(stack) \in Nat \ {0} /\ Len(stack') = Len(stack) + 1
       /\ stack'[Len(stack)] = f /\ stack'[Len(stack) + 1] = QueueFrame
       /\ \A i \in 1..(Len(stack) - 1) : stack'[i] = stack[i]
    BY <1>1, <1>3, <1>8, <1>9, QueueFrameOk, TopOk, CallKeeps DEF Replaces
<1>12. stack' # <<>> /\
       \A i \in 1..Len(stack') :
           /\ FrameOk(stack'[i])
           /\ stack'[i].op \in {"handle", "error", "finish", "queue", "scan"}
    BY <1>1, <1>8, <1>11, QueueFrameOk, LowerOk
<1> QED
    BY <1>1, <1>3, <1>5, <1>6, <1>10, <1>12, DoneKeeps

(* No dialog of a deleted command: the run queue is pruned only when no    *)
(* member function is on the stack.                                        *)
LEMMA UseDeletedQueue ==
    ASSUME QueueInv, UseDeleted
    PROVE  FALSE
<1>1. stack # <<>> /\ Top.op \in {"error", "refusal", "finish"}
    BY DEF UseDeleted, InDialog, On
<1>2. Exists(Top.cmd)
    BY <1>1, TopOk DEF FrameOk
<1> QED
    BY <1>2 DEF UseDeleted

LEMMA ProcessCommandQueue ==
    ASSUME QueueInv, ProcessCommand
    PROVE  QueueInv'
<1>1. TypeInv /\ TypeInv' /\ LiveInv /\ stack # <<>> /\ Top.op = "line"
    BY ProcessCommandType DEF ProcessCommand, On, QueueInv, CommandsInv
<1>2. PICK handle : handle = [op |-> "handle", i |-> 1]
    OBVIOUS
<1>3. /\ handle \in Frame /\ handle.op = "handle" /\ FrameOk(handle)
      /\ Replaces(handle) /\ Over(QueueFrame, handle)
    BY <1>1, <1>2, QueueFrameOk
    DEF Frame, FrameOk, Replaces, Looping, Called, Over
<1>4. UNCHANGED <<running, live, cmdSeq, curSeq, sync, inbox>>
    BY DEF ProcessCommand, cmdVars
<1>5. ASSUME NEW c \in Polls \cap fresh, QueueCommand(c),
             Call(handle, QueueFrame)
      PROVE  QueueInv'
    <2>1. StackInv'
        BY <1>1, <1>3, <1>4, <1>5, QueueFrameOk, CallShape DEF QueueInv
    <2>2. /\ Len(stack) \in Nat \ {0} /\ Len(stack') = Len(stack) + 1
          /\ stack'[Len(stack)] = handle /\ stack'[Len(stack) + 1] = QueueFrame
          /\ \A i \in 1..(Len(stack) - 1) : stack'[i] = stack[i]
        BY <1>1, <1>3, <1>4, <1>5, QueueFrameOk, TopOk, CallKeeps DEF Replaces
    <2>3. stack' # <<>> /\
          \A i \in 1..Len(stack') :
              FrameOk(stack'[i]) /\ stack'[i].op # "prune"
        BY <1>1, <1>3, <2>2, QueueFrameOk, LowerOk
    <2> QED
        BY <1>1, <1>4, <1>5, <2>1, <2>3, QueueKeeps
<1>6. CASE Become(handle) /\ UNCHANGED <<waiting, fresh>>
    <2>1. LiveInv'
        BY <1>1, <1>4 DEF LiveInv
    <2> QED
        BY <1>1, <1>3, <1>4, <1>6, <2>1, QuietBecome
<1> QED
    BY <1>2, <1>5, <1>6 DEF ProcessCommand

LEMMA QueueNextQueue ==
    ASSUME QueueInv, QueueNext
    PROVE  QueueInv'
<1> DEFINE c == Head(Top.todo)
<1>1. PICK f : f = [Top EXCEPT !.todo = Tail(@)]
    OBVIOUS
<1>2. /\ TypeInv /\ TypeInv' /\ LiveInv /\ StackInv
      /\ stack # <<>> /\ Top.op = "queue"
    BY QueueNextCases, QueueNextType DEF QueueInv, CommandsInv
<1>3. UNCHANGED <<running, live, cmdSeq, curSeq, sync, inbox>> /\ LiveInv'
    BY <1>2 DEF QueueNext, cmdVars, driverVars, LiveInv
<1>4. /\ f.op = "queue" => Replaces(f) /\ FrameOk(f) /\ Over(QueueFrame, f)
      /\ Replaces(QueueFrame)
    BY <1>2, QueueFrameOk DEF Replaces, Looping, Called, FrameOk, Over
<1>5. Len(stack) # 1
    BY <1>2, Bottom DEF TypeInv
<1>6. ASSUME c \in fresh, QueueCommand(c), Become(QueueFrame)
      PROVE  QueueInv'
    <2>1. StackInv'
        BY <1>2, <1>3, <1>4, <1>6, QueueFrameOk, BecomeShape
    <2>2. /\ Len(stack) \in Nat \ {0}
          /\ Len(stack') = Len(stack) /\ stack'[Len(stack)] = QueueFrame
          /\ \A i \in 1..(Len(stack) - 1) : stack'[i] = stack[i]
        BY <1>2, <1>3, <1>4, <1>6, QueueFrameOk, TopOk, BecomeKeeps
    <2>3. stack' # <<>> /\
          \A i \in 1..Len(stack') :
              FrameOk(stack'[i]) /\ stack'[i].op # "prune"
        BY <1>2, <2>2, QueueFrameOk, LowerOk
    <2> QED
        BY <1>2, <1>3, <1>6, <2>1, <2>3, QueueKeeps
<1>7. ASSUME c \in fresh, QueueCommand(c), f \in Frame, f.op = "queue",
             Call(f, QueueFrame)
      PROVE  QueueInv'
    <2>1. StackInv'
        BY <1>2, <1>3, <1>4, <1>7, QueueFrameOk, CallShape
    <2>2. /\ Len(stack) \in Nat \ {0} /\ Len(stack') = Len(stack) + 1
          /\ stack'[Len(stack)] = f /\ stack'[Len(stack) + 1] = QueueFrame
          /\ \A i \in 1..(Len(stack) - 1) : stack'[i] = stack[i]
        BY <1>2, <1>3, <1>4, <1>7, QueueFrameOk, TopOk, CallKeeps DEF Replaces
    <2>3. stack' # <<>> /\
          \A i \in 1..Len(stack') :
              FrameOk(stack'[i]) /\ stack'[i].op # "prune"
        BY <1>2, <1>4, <1>7, <2>2, QueueFrameOk, LowerOk
    <2> QED
        BY <1>2, <1>3, <1>7, <2>1, <2>3, QueueKeeps
<1>8. CASE UNCHANGED <<waiting, fresh>> /\ Return
    BY <1>2, <1>3, <1>5, <1>8, QuietReturn
<1>9. CASE /\ UNCHANGED <<waiting, fresh>>
           /\ f \in Frame /\ f.op = "queue" /\ Become(f)
    BY <1>2, <1>3, <1>4, <1>9, QuietBecome
<1> QED
    BY <1>1, <1>6, <1>7, <1>8, <1>9, QueueNextCases, <1>2

(* The events: the stack is empty or a dialog of an error is open.         *)

LEMMA UserCommandQueue ==
    ASSUME QueueInv, NEW c \in Cmd, UserCommand(c)
    PROVE  QueueInv'
<1>1. TypeInv /\ TypeInv' /\ stack = <<>> /\ stack' = <<QueueFrame>>
    BY UserCommandType DEF UserCommand, Idle, QueueInv
<1>2. StackInv'
    BY <1>1, QueueFrameOk DEF StackInv
<1>3. /\ c \in fresh /\ QueueCommand(c)
      /\ UNCHANGED <<running, live, cmdSeq, curSeq, sync>>
    BY DEF UserCommand, cmdVars
<1>4. \A i \in 1..Len(stack') :
          FrameOk(stack'[i]) /\ stack'[i].op # "prune"
    BY <1>1, QueueFrameOk
<1> QED
    BY <1>1, <1>2, <1>3, <1>4, QueueKeeps

LEMMA PollQueue ==
    ASSUME QueueInv, NEW c \in Cmd, Poll(c)
    PROVE  QueueInv'
<1>1. /\ TypeInv /\ TypeInv' /\ TypeOK /\ StackInv
      /\ stack' = Append(stack, QueueFrame)
    BY PollType DEF Poll, QueueInv, TypeInv
<1>2. stack # <<>> => Top.op = "error"
    BY <1>1, Bottom DEF Poll, Idle, InDialog
<1>3. StackInv'
    BY <1>1, <1>2, QueueFrameOk, PushShape DEF Over
<1>4. /\ c \in fresh /\ QueueCommand(c)
      /\ UNCHANGED <<running, live, cmdSeq, curSeq, sync, inbox>>
    BY DEF Poll, cmdVars, driverVars
<1>5. /\ Len(stack) \in Nat /\ Len(stack') = Len(stack) + 1
      /\ stack'[Len(stack) + 1] = QueueFrame
      /\ \A i \in 1..Len(stack) : stack'[i] = stack[i]
    BY <1>1, QueueFrameOk DEF TypeOK
<1>6. \A i \in 1..Len(stack) : FrameOk(stack[i]) /\ stack[i].op # "prune"
    <2>1. CASE stack = <<>>
        BY <2>1
    <2>2. CASE stack # <<>>
        BY <1>2, <2>2, TopOk, LowerOk DEF Top
    <2> QED
        BY <2>1, <2>2
<1>7. stack' # <<>> /\
      \A i \in 1..Len(stack') :
          FrameOk(stack'[i]) /\ stack'[i].op # "prune"
    BY <1>5, <1>6, QueueFrameOk
<1> QED
    BY <1>1, <1>3, <1>4, <1>7, QueueKeeps

LEMMA OnGDBOutputQueue ==
    ASSUME QueueInv, OnGDBOutput
    PROVE  QueueInv'
<1>1. /\ TypeInv' /\ TypeInv /\ TypeOK /\ StackInv /\ LiveInv
      /\ UNCHANGED <<running, waiting, fresh, live, sync, cmdSeq, curSeq, up>>
    BY OnGDBOutputType
    DEF OnGDBOutput, QueueInv, TypeInv, CommandsInv, queueVars, cmdVars
<1>2. CASE inbox # <<>>
    BY <1>1, <1>2, QuietEvent DEF OnGDBOutput
<1>3. CASE inbox = <<>>
    <2>1. stack = <<>>
        <3> SUFFICES ASSUME stack # <<>> PROVE FALSE
            OBVIOUS
        <3>1. InDialog
            BY DEF OnGDBOutput, Idle
        <3>2. stack[Len(stack) - 1].op = "handle" /\ Len(stack) # 1
            BY <1>1, <3>1, Bottom DEF InDialog
        <3>3. Len(stack) - 1 \in 1..Len(stack)
            <4>1. Len(stack) \in Nat \ {0} /\ Len(stack) # 1
                BY <3>2, TopOk
            <4> QED
                BY <4>1
        <3> QED
            BY <1>1, <1>3, <3>2, <3>3 DEF TypeInv, ParseInv, Looping
    <2>2. PICK f : f = [op |-> "line"]
        OBVIOUS
    <2>3. stack' = <<f>> /\ Looping(f) /\ f.op = "line"
        BY <1>3, <2>1, <2>2 DEF OnGDBOutput, Looping
    <2>4. StackInv'
        BY <2>3 DEF StackInv
    <2>5. \A i \in 1..Len(stack') : FrameOk(stack'[i])
        BY <2>3 DEF FrameOk
    <2>6. LiveInv'
        BY <1>1 DEF LiveInv
    <2> QED
        BY <1>1, <2>3, <2>4, <2>5, <2>6, QuietKeeps
<1> QED
    BY <1>2, <1>3

LEMMA OnGDBTerminatedQueue ==
    ASSUME QueueInv, OnGDBTerminated
    PROVE  QueueInv'
<1>1. /\ TypeInv' /\ LiveInv /\ PlaceInv
      /\ waiting' = <<>> /\ running' = <<>> /\ stack = <<>> /\ up' = "over"
      /\ UNCHANGED <<fresh, cmdSeq, curSeq, live, stack>>
    BY OnGDBTerminatedType
    DEF OnGDBTerminated, Idle, QueueInv, CommandsInv, cmdVars
<1>2. StackInv' /\ FramesInv'
    BY <1>1 DEF StackInv, FramesInv
<1>3. LiveInv' /\ PlaceInv'
    BY <1>1 DEF LiveInv, PlaceInv
<1>4. RunOrder' /\ OneAtATime' /\ NeverStalls'
    BY <1>1 DEF RunOrder, OneAtATime, NeverStalls
<1> QED
    BY <1>1, <1>2, <1>3, <1>4 DEF QueueInv, CommandsInv

LEMMA PeerQueue ==
    ASSUME QueueInv, Answer \/ Exit \/ \E s \in CpuStates : Report(s)
    PROVE  QueueInv'
<1>1. TypeInv'
    BY AnswerType, ExitType, ReportType DEF QueueInv
<1>2. /\ UNCHANGED <<running, waiting, fresh, live, sync, cmdSeq, curSeq, stack>>
      /\ up # "over" \/ up' = "over"
    BY DEF Answer, Exit, Report, queueVars, cmdVars
<1> QED
    BY <1>1, <1>2, QuietEvent

LEMMA NextQueue ==
    ASSUME NoRefusals, QueueInv, [Next]_vars
    PROVE  QueueInv'
<1>1. CASE GuiStep
    BY <1>1, SendQueue, ScanQueue, StartQueue, AfterQueue, EndRunQueue,
       PruneQueue, EndPruneQueue, ProcessCommandQueue, PassQueue, ForeignQueue,
       AcceptQueue, EndHandleQueue, QueueNextQueue, EndKillQueue,
       UseDeletedQueue
    DEF GuiStep
<1>2. CASE UserAnswer
    BY <1>2, SkipQueue, KillDebuggerQueue DEF UserAnswer
<1>3. CASE \E c \in Cmd : UserCommand(c) \/ Poll(c)
    BY <1>3, UserCommandQueue, PollQueue
<1>4. CASE OnGDBOutput \/ OnGDBTerminated
    BY <1>4, OnGDBOutputQueue, OnGDBTerminatedQueue
<1>5. CASE Answer \/ Exit \/ \E s \in CpuStates : Report(s)
    BY <1>5, PeerQueue
<1>6. CASE UNCHANGED vars
    BY <1>6, StutterType, QuietEvent
    DEF vars, queueVars, cmdVars, peerVars, QueueInv
<1> QED
    BY <1>1, <1>2, <1>3, <1>4, <1>5, <1>6 DEF Next

LEMMA QueueInvHolds ==
    ASSUME NoRefusals
    PROVE  Spec => []QueueInv
<1>1. QueueInv /\ [Next]_vars => QueueInv'
    BY NextQueue
<1> QED
    BY InitQueue, <1>1, PTL DEF Spec

-----------------------------------------------------------------------------
(* What follows, as long as no command refuses to start.                   *)

(* Behind a command that is not done stands no barrier, and nothing at all *)
(* if it cannot overlap (IsBarrier, CanOverlap, RunQueue), whatever is     *)
(* killed, skipped or queued in between.                                   *)
THEOREM RunOrderHolds ==
    ASSUME NoRefusals
    PROVE  Spec => []RunOrder
<1>1. QueueInv => RunOrder
    BY DEF QueueInv, CommandsInv
<1> QED
    BY <1>1, QueueInvHolds, PTL

(* With synchronous communication at most one command is under way         *)
(* (m_SyncComm in RunQueue).                                               *)
THEOREM OneAtATimeHolds ==
    ASSUME NoRefusals
    PROVE  Spec => []OneAtATime
<1>1. QueueInv => OneAtATime
    BY DEF QueueInv, CommandsInv
<1> QED
    BY <1>1, QueueInvHolds, PTL

(* KillDebugger() and PruneRunQueue() delete no command whose member       *)
(* function is on the stack.                                               *)
THEOREM CallersExistHolds ==
    ASSUME NoRefusals
    PROVE  Spec => []CallersExist
<1>1. QueueInv => CallersExist
    BY DEF QueueInv, FramesInv, FrameOk, CallersExist
<1> QED
    BY <1>1, QueueInvHolds, PTL

(* Between events no command waits that may start: every path through      *)
(* AXS_driver::ParseOutput and QueueCommand that can make one startable    *)
(* ends in RunQueue.                                                       *)
THEOREM NeverStallsHolds ==
    ASSUME NoRefusals
    PROVE  Spec => []NeverStalls
<1>1. QueueInv => NeverStalls
    BY DEF QueueInv
<1> QED
    BY <1>1, QueueInvHolds, PTL

-----------------------------------------------------------------------------
(* That a line reaches the command whose request it answers, in a session   *)
(* that has a number for every request.                                    *)

(* How many requests a command sends in its life, and all those of a       *)
(* session: the second element counts a command's down, but for the second *)
(* request of AddBreakpoint.                                               *)
Most(c) ==
    CASE Class[c] = "ReadPC" -> 3
      [] Class[c] \in {"AddBreakpoint", "RegisterList"} -> 2
      [] OTHER -> 1
Slots == {p \in Cmd \X (1..3) : p[2] <= Most(p[1])}
EnoughNumbers == Cardinality(Slots) < Modulus - 1

(* N are the numbers given so far, up to next; w tells what for.           *)
Numbering(N, w) ==
    /\ N \in SUBSET Seqs /\ w \in [N -> Slots]
    /\ \A s, t \in N : w[s] = w[t] => s = t
    /\ next \notin N /\ \A s \in N : NextSeq(s) \in N \cup {next}

(* Commands, requests and lines have the numbers of their own requests.    *)
Given(N, w, s, c) == s \in N /\ w[s][1] = c
Matching(N, w) ==
    /\ \A c \in Cmd : \A s \in cmdSeq[c] : Given(N, w, s, c)
    /\ \A c \in Cmd : curSeq[c] # 0 => Given(N, w, curSeq[c], c)
    /\ \A i \in 1..Len(asked) : Given(N, w, asked[i].seq, asked[i].by)
    /\ \A i \in 1..Len(inbox) :
           inbox[i].seq # 0 => Given(N, w, inbox[i].seq, inbox[i].by)
    /\ \A i \in 1..Len(pipe) :
           pipe[i].seq # 0 => Given(N, w, pipe[i].seq, pipe[i].by)

(* A command that has not begun has sent nothing; the innermost Action()    *)
(* has not sent the request it is about to send.                           *)
NotBegun == fresh \cup {waiting[i] : i \in 1..Len(waiting)}
OnceQueued ==
    /\ \A i, j \in 1..Len(waiting) : waiting[i] = waiting[j] => i = j
    /\ \A i \in 1..Len(waiting) : waiting[i] \notin fresh
Slot(f) == <<f.cmd, IF f.cmd \in slcmd THEN 2 ELSE f.left>>

Unsent(N, w) ==
    /\ OnceQueued
    /\ \A s \in N : w[s][1] \notin NotBegun
    /\ \A c \in slcmd : Class[c] = "AddBreakpoint" /\ c \notin NotBegun
    /\ \A s \in N : Class[w[s][1]] = "AddBreakpoint" /\ w[s][2] = 2
                        => w[s][1] \in slcmd

ActIsTop == \A i \in 1..(Len(stack) - 1) : stack[i].op # "act"
ActUnsent(N, w) == On("act") =>
    /\ Top.cmd \notin NotBegun /\ Slot(Top) \in Slots
    /\ Class[Top.cmd] = "AddBreakpoint" => Top.left = 1
    /\ \A s \in N : w[s][1] = Top.cmd =>
           IF Top.cmd \in slcmd THEN w[s][2] = 1 ELSE w[s][2] > Top.left

Reach(N, w) ==
    Numbering(N, w) /\ Matching(N, w) /\ Unsent(N, w) /\ ActUnsent(N, w)
ReachInv == ActIsTop /\ \E N, w : Reach(N, w)

-----------------------------------------------------------------------------
(* The numbers. *)

LEMMA MostFacts ==
    /\ \A c \in Cmd : Most(c) \in 1..3
    /\ IsFiniteSet(Slots)
    /\ \A p \in Slots : p[1] \in Cmd /\ p[2] \in 1..3 /\ p[2] <= Most(p[1])
<1>1. \A c \in Cmd : Most(c) \in 1..3
    BY DEF Most
<1>2. IsFiniteSet(1..3)
  <2>1. PICK n \in Int : n = 3
    OBVIOUS
  <2>2. IsFiniteSet(1..n)
    BY FS_Interval
  <2> QED
    BY <2>1, <2>2
<1>3. IsFiniteSet(Cmd)
    BY CmdAssumption
<1>4. IsFiniteSet(Cmd \X (1..3))
    BY <1>2, <1>3, FS_Product
<1>5. Slots \in SUBSET (Cmd \X (1..3))
    BY DEF Slots
<1>6. IsFiniteSet(Slots)
    BY <1>4, <1>5, FS_Subset
<1>7. \A p \in Slots : p[1] \in Cmd /\ p[2] \in 1..3 /\ p[2] <= Most(p[1])
    BY DEF Slots
<1> QED
    BY <1>1, <1>6, <1>7

(* A set of numbers that has with each the next one has all of them.       *)
LEMMA AllNumbers ==
    ASSUME NEW N \in SUBSET Seqs, N # {}, \A s \in N : NextSeq(s) \in N
    PROVE  N = Seqs
<1>1. Modulus \in Nat /\ Modulus > 1 /\ Seqs = 1..(Modulus - 1)
    BY SeqAssumption DEF Seqs
<1>2. Modulus - 1 \in N
  <2> DEFINE T == {k \in 0..(Modulus - 2) : Modulus - 1 - k \in N}
  <2>1. T \in SUBSET Nat
    BY <1>1
  <2>2. T # {}
    <3>1. PICK s \in N : TRUE
      OBVIOUS
    <3>2. s \in 1..(Modulus - 1)
      BY <1>1
    <3>3. (Modulus - 1) - s \in T
      BY <1>1, <3>2
    <3> QED
      BY <3>3
  <2>3. PICK k \in T : \A n \in T : k <= n
    <3> HIDE DEF T
    <3> QED
      BY <2>1, <2>2, LeastNumber
  <2>4. k # 0 => k - 1 \in T
    <3> SUFFICES ASSUME k # 0 PROVE k - 1 \in T
      OBVIOUS
    <3>1. Modulus - 1 - k \in N /\ Modulus - 1 - k # Modulus - 1
      BY <1>1
    <3>2. Modulus - 1 - k + 1 \in N
      BY <3>1 DEF NextSeq
    <3>3. Modulus - 1 - (k - 1) \in N
      BY <1>1, <3>2
    <3> QED
      BY <1>1, <3>3
  <2>5. k = 0
    BY <1>1, <2>3, <2>4
  <2> QED
    BY <1>1, <2>3, <2>5
<1>3. 1 \in N
    BY <1>2 DEF NextSeq
<1> DEFINE R == {s \in Seqs : s \notin N}
<1>4. ASSUME R # {} PROVE FALSE
  <2>1. R \in SUBSET Nat
    BY <1>1
  <2>2. PICK r \in R : \A n \in R : r <= n
    <3> HIDE DEF R
    <3> QED
      BY <1>4, <2>1, LeastNumber
  <2>3. r - 1 \in Seqs
    BY <1>1, <1>3, <2>2
  <2>4. r - 1 \in N
    BY <1>1, <2>2, <2>3
  <2>5. NextSeq(r - 1) = r
    BY <1>1, <2>2, <2>3 DEF NextSeq
  <2> QED
    BY <2>2, <2>4, <2>5
<1> QED
    BY <1>4

(* One more request, its number given to nothing else.                     *)
LEMMA NumberGiven ==
    ASSUME EnoughNumbers, next \in Seqs, NEW N, NEW w, Numbering(N, w),
           NEW p \in Slots, \A s \in N : w[s] # p,
           next' = NextSeq(next),
           NEW M, M = N \cup {next},
           NEW v, v = [s \in M |-> IF s = next THEN p ELSE w[s]]
    PROVE  Numbering(M, v)'
<1>1. Modulus \in Nat /\ Modulus > 1 /\ Seqs = 1..(Modulus - 1)
    BY SeqAssumption DEF Seqs
<1>2. M \in SUBSET Seqs /\ v \in [M -> Slots]
    BY DEF Numbering
<1>3. \A s, t \in M : v[s] = v[t] => s = t
    BY DEF Numbering
<1>4. \A s \in M : NextSeq(s) \in M \cup {next'}
    BY DEF Numbering
<1>5. next' \notin M
  <2> SUFFICES ASSUME next' \in M PROVE FALSE
    OBVIOUS
  <2>1. \A s \in M : NextSeq(s) \in M
    BY <1>4
  <2>2. M = Seqs
    BY <1>2, <2>1, AllNumbers
  <2>3. v \in Injection(M, Slots)
    BY <1>2, <1>3 DEF Injection, IsInjective
  <2>4. Cardinality(M) <= Cardinality(Slots)
    BY <2>3, MostFacts, FS_Injection
  <2>5. Cardinality(M) = Modulus - 1
    <3>1. PICK n \in Int : n = Modulus - 1
      BY <1>1
    <3>2. Cardinality(1..n) = IF 1 > n THEN 0 ELSE n - 1 + 1
      BY FS_Interval
    <3>3. M = 1..n
      BY <1>1, <2>2, <3>1, Zenon
    <3>4. ~ (1 > n) /\ n - 1 + 1 = n
      BY <1>1, <3>1
    <3> QED
      BY <3>1, <3>2, <3>3, <3>4, Zenon
  <2>6. IsFiniteSet(Slots) /\ Cardinality(Slots) \in Nat
    BY MostFacts, FS_CardinalityType
  <2> QED
    BY <1>1, <2>4, <2>5, <2>6 DEF EnoughNumbers
<1> QED
    BY <1>2, <1>3, <1>4, <1>5 DEF Numbering

-----------------------------------------------------------------------------
(* Steps that send nothing. *)

(* What is added to the end of a sequence, and what is left of one.        *)
LEMMA Added ==
    ASSUME NEW S, NEW s \in Seq(S), NEW x
    PROVE  /\ Len(Append(s, x)) = Len(s) + 1 /\ Len(s) \in Nat
           /\ \A i \in 1..Len(s) : Append(s, x)[i] = s[i]
           /\ Append(s, x)[Len(s) + 1] = x
<1>1. s \in Seq(S \cup {x}) /\ x \in S \cup {x} /\ Len(s) \in Nat
    OBVIOUS
<1> QED
    BY <1>1

LEMMA Shortened ==
    ASSUME NEW S, NEW s \in Seq(S), s # <<>>
    PROVE  /\ Len(Tail(s)) = Len(s) - 1 /\ Len(s) \in Nat \ {0}
           /\ \A i \in 1..Len(Tail(s)) : i + 1 \in 1..Len(s) /\ Tail(s)[i] = s[i + 1]
           /\ Head(s) = s[1] /\ 1 \in 1..Len(s)
OBVIOUS

(* The frames of a step that calls no Action().                            *)
LEMMA NoAct ==
    ASSUME TypeOK, TypeOK', ActIsTop, ~On("act"), NEW f, NEW g, f.op # "act", g.op # "act",
           \/ stack' = stack
           \/ stack # <<>> /\ (Return \/ Become(f) \/ Call(f, g))
           \/ stack' = Append(stack, g)
    PROVE  /\ \A i \in 1..Len(stack') : stack'[i].op # "act"
           /\ ActIsTop' /\ \A N, w : ActUnsent(N, w)'
<1>1. stack \in Seq(Frame) /\ Len(stack) \in Nat
    BY DEF TypeOK
<1>2. \A i \in 1..Len(stack) : stack[i].op # "act"
    BY <1>1 DEF ActIsTop, On, Top
<1>3. stack # <<>> => /\ Below \in Seq(Frame) /\ Len(Below) = Len(stack) - 1
                      /\ \A i \in 1..Len(Below) : Below[i] = stack[i]
    BY StackFacts
<1>4. stack # <<>> => \A i \in 1..Len(Below) : Below[i].op # "act"
    BY <1>1, <1>2, <1>3
<1>5. ASSUME NEW s \in Seq(Frame), \A i \in 1..Len(s) : s[i].op # "act", NEW x, x.op # "act"
      PROVE  \A i \in 1..Len(Append(s, x)) : Append(s, x)[i].op # "act"
  <2>1. /\ Len(Append(s, x)) = Len(s) + 1 /\ Len(s) \in Nat
        /\ \A i \in 1..Len(s) : Append(s, x)[i] = s[i]
        /\ Append(s, x)[Len(s) + 1] = x
    BY Added
  <2> QED
    BY <1>5, <2>1
<1>6. \A i \in 1..Len(stack') : stack'[i].op # "act"
  <2>1. CASE stack' = stack
    BY <1>2, <2>1
  <2>2. CASE stack' = Append(stack, g)
    BY <1>1, <1>2, <1>5, <2>2
  <2>3. CASE stack # <<>> /\ Return
    BY <1>4, <2>3 DEF Return
  <2>4. CASE stack # <<>> /\ Become(f)
    BY <1>3, <1>4, <1>5, <2>4 DEF Become
  <2>5. CASE stack # <<>> /\ Call(f, g)
    <3>1. PICK b : b = Append(Below, f)
      OBVIOUS
    <3>2. /\ Len(b) = Len(Below) + 1 /\ Len(Below) \in Nat
          /\ \A i \in 1..Len(Below) : b[i] = Below[i]
          /\ b[Len(Below) + 1] = f /\ b \in Seq(Frame \cup {f})
      <4>1. Below \in Seq(Frame) /\ Below \in Seq(Frame \cup {f}) /\ f \in Frame \cup {f}
        BY <1>3, <2>5
      <4> QED
        BY <3>1, <4>1, Added
    <3>3. stack' = Append(b, g)
      BY <2>5, <3>1 DEF Call
    <3>4. /\ Len(stack') = Len(b) + 1 /\ Len(b) \in Nat
          /\ \A i \in 1..Len(b) : stack'[i] = b[i]
          /\ stack'[Len(b) + 1] = g
      BY <3>2, <3>3, Added
    <3> QED
      BY <1>4, <2>5, <3>2, <3>4
  <2> QED
    BY <2>1, <2>2, <2>3, <2>4, <2>5
<1>7. stack' \in Seq(Frame) /\ Len(stack') \in Nat
    BY DEF TypeOK
<1>8. ActIsTop'
    BY <1>6, <1>7 DEF ActIsTop
<1>9. ~On("act")'
    BY <1>6, <1>7 DEF On, Top
<1> QED
    BY <1>6, <1>8, <1>9 DEF ActUnsent

LEMMA QuietUnsent ==
    ASSUME NEW N, NEW w, Unsent(N, w), OnceQueued', NotBegun' \subseteq NotBegun,
           UNCHANGED slcmd
    PROVE  Unsent(N, w)'
BY DEF Unsent

LEMMA QueuedOnce ==
    ASSUME TypeOK, OnceQueued, NEW c \in fresh, QueueCommand(c)
    PROVE  OnceQueued' /\ NotBegun' \subseteq NotBegun
<1>1. waiting \in Seq(Cmd) /\ waiting' = Append(waiting, c) /\ fresh' = fresh \ {c}
    BY DEF TypeOK, QueueCommand
<1>2. /\ Len(waiting') = Len(waiting) + 1 /\ Len(waiting) \in Nat
      /\ \A i \in 1..Len(waiting) : waiting'[i] = waiting[i]
      /\ waiting'[Len(waiting) + 1] = c
    BY <1>1, Added
<1>3. \A i \in 1..Len(waiting') : i \in 1..Len(waiting) \/ i = Len(waiting) + 1
    BY <1>2
<1> QED
    BY <1>1, <1>2, <1>3 DEF OnceQueued, NotBegun

LEMMA SameQueue ==
    ASSUME UNCHANGED <<waiting, fresh>>
    PROVE  (OnceQueued => OnceQueued') /\ NotBegun' \subseteq NotBegun
BY DEF OnceQueued, NotBegun

(* Numbers are answered, or forgotten by Done().                           *)
Fewer == \A c \in Cmd : /\ cmdSeq'[c] \subseteq cmdSeq[c]
                        /\ curSeq'[c] \in cmdSeq[c] \cup {0, curSeq[c]}

LEMMA QuietMatching ==
    ASSUME NEW N, NEW w, Matching(N, w), Fewer, UNCHANGED <<asked, inbox, pipe>>
    PROVE  Matching(N, w)'
BY DEF Matching, Fewer

LEMMA SameNumbers ==
    ASSUME UNCHANGED <<cmdSeq, curSeq>>
    PROVE  Fewer
BY DEF Fewer

LEMMA DoneFewer ==
    ASSUME NEW S \in SUBSET Cmd, Done(S)
    PROVE  Fewer
BY DEF Fewer, Done

LEMMA QuietStep ==
    ASSUME TypeOK, TypeOK', ReachInv, ~On("act"),
           UNCHANGED <<next, asked, inbox, pipe, slcmd>>, Fewer,
           OnceQueued => OnceQueued', NotBegun' \subseteq NotBegun,
           NEW f, NEW g, f.op # "act", g.op # "act",
           \/ stack' = stack
           \/ stack # <<>> /\ (Return \/ Become(f) \/ Call(f, g))
           \/ stack' = Append(stack, g)
    PROVE  ReachInv'
<1>1. PICK N, w : Reach(N, w)
    BY DEF ReachInv
<1>2. ActIsTop' /\ ActUnsent(N, w)'
    BY NoAct DEF ReachInv
<1>3. Numbering(N, w)'
    BY <1>1 DEF Reach, Numbering
<1>4. Matching(N, w)'
    BY <1>1, QuietMatching DEF Reach
<1>5. Unsent(N, w)'
  <2>1. Unsent(N, w) /\ OnceQueued'
    BY <1>1 DEF Reach, Unsent
  <2> QED
    BY <2>1, QuietUnsent
<1> QED
    BY <1>2, <1>3, <1>4, <1>5 DEF ReachInv, Reach

-----------------------------------------------------------------------------
(* The steps that send nothing, one by one. *)

LEMMA RunSteps ==
    ASSUME TypeInv, TypeOK', ReachInv, Scan \/ After \/ EndRun \/ Prune
    PROVE  ReachInv'
<1>1. TypeOK /\ stack # <<>> /\ ~On("act")
    BY DEF TypeInv, Scan, After, EndRun, Prune, On
<1>2. UNCHANGED <<next, asked, inbox, pipe, slcmd, cmdSeq, curSeq, waiting, fresh>>
    BY DEF Scan, After, EndRun, Prune, queueVars, cmdVars, driverVars, peerVars
<1>3. Fewer /\ (OnceQueued => OnceQueued') /\ NotBegun' \subseteq NotBegun
    BY <1>2, SameNumbers, SameQueue
<1>4. CASE Scan
  <2>1. PICK f : f = [op |-> "run", loop |-> Top.loop, done |-> AllDone, work |-> FALSE]
    OBVIOUS
  <2>2. f.op # "act" /\ Become(f)
    BY <1>4, <2>1 DEF Scan
  <2> QED
    BY <1>1, <1>2, <1>3, <2>2, QuietStep
<1>5. CASE After
  <2>1. PICK f : f = [Top EXCEPT !.op = "run",
                          !.done = @ /\ IsDone(running[Len(running)])]
    OBVIOUS
  <2>2. Top \in [op : {"run", "after"}, loop : BOOLEAN, done : BOOLEAN, work : BOOLEAN]
    BY <1>1, <1>5, StackFacts, FrameFields DEF After, On
  <2>3. f.op # "act" /\ Become(f)
    BY <1>5, <2>1, <2>2 DEF After
  <2> QED
    BY <1>1, <1>2, <1>3, <2>3, QuietStep
<1>6. CASE EndRun
  <2>1. PICK f : f = [op |-> "prune", work |-> Top.work]
    OBVIOUS
  <2>2. f.op # "act" /\ (Become(f) \/ Return)
    BY <1>6, <2>1 DEF EndRun
  <2> QED
    BY <1>1, <1>2, <1>3, <2>2, QuietStep
<1>7. CASE Prune
  <2>1. stack' = stack
    BY <1>7 DEF Prune
  <2>2. PICK f : f = [op |-> "prune"]
    OBVIOUS
  <2>3. f.op # "act"
    BY <2>2
  <2> QED
    BY <1>1, <1>2, <1>3, <2>1, <2>3, QuietStep
<1> QED
    BY <1>4, <1>5, <1>6, <1>7

LEMMA LineSteps ==
    ASSUME TypeInv, TypeOK', ReachInv, Pass \/ Foreign \/ EndHandle
    PROVE  ReachInv'
<1>1. TypeOK /\ stack # <<>> /\ ~On("act") /\ On("handle")
    BY DEF TypeInv, Pass, Foreign, EndHandle, Handling, On
<1>2. UNCHANGED <<next, asked, inbox, pipe, slcmd, waiting, fresh>>
    BY DEF Pass, Foreign, EndHandle, queueVars, cmdVars, driverVars, peerVars
<1>3. (OnceQueued => OnceQueued') /\ NotBegun' \subseteq NotBegun
    BY <1>2, SameQueue
<1>4. Fewer
  <2>1. CASE Foreign
    BY <1>1, <2>1 DEF Foreign, Fewer, TypeInv, TypeOK
  <2>2. CASE Pass \/ EndHandle
    BY <2>2, SameNumbers DEF Pass, EndHandle, cmdVars
  <2> QED
    BY <2>1, <2>2
<1>5. PICK f : /\ f.op # "act"
               /\ Become(f)
  <2>1. CASE Pass \/ Foreign
    <3>1. NextIndex.op # "act"
      BY <1>1, HandleFacts
    <3> QED
      BY <2>1, <3>1 DEF Pass, Foreign
  <2>2. CASE EndHandle
    <3>1. PICK f, g : f = [op |-> "scan", loop |-> TRUE] /\ g = [op |-> "prune", work |-> TRUE]
      OBVIOUS
    <3>2. Become(f) \/ Become(g)
      BY <2>2, <3>1 DEF EndHandle
    <3> QED
      BY <3>1, <3>2
  <2> QED
    BY <2>1, <2>2
<1> QED
  <2> HIDE DEF Fewer
  <2> QED
    BY <1>1, <1>2, <1>3, <1>4, <1>5, QuietStep

(* One line less to take. *)
LEMMA EndPruneStep ==
    ASSUME TypeInv, TypeOK', ReachInv, EndPrune
    PROVE  ReachInv'
<1>1. TypeOK /\ stack # <<>> /\ ~On("act")
    BY DEF TypeInv, EndPrune, On
<1>2. UNCHANGED <<next, asked, pipe, slcmd, cmdSeq, curSeq, waiting, fresh>>
    BY DEF EndPrune, queueVars, cmdVars, peerVars
<1>3. PICK f, g : f = [op |-> "scan", loop |-> TRUE] /\ g = [op |-> "line"]
    OBVIOUS
<1>4. Return \/ Become(f) \/ Become(g)
    BY <1>3 DEF EndPrune
<1>5. f.op # "act" /\ g.op # "act"
    BY <1>3
<1>6. ActIsTop' /\ \A N, w : ActUnsent(N, w)'
    BY <1>1, <1>4, <1>5, NoAct DEF ReachInv
<1>7. PICK N, w : Reach(N, w)
    BY DEF ReachInv
<1>8. Numbering(N, w)' /\ Unsent(N, w)'
    BY <1>2, <1>7 DEF Reach, Numbering, Unsent, OnceQueued, NotBegun
<1>9. inbox \in Seq(Line) /\ inbox # <<>>
    BY <1>1, StackFacts DEF EndPrune, On, TypeInv, ParseInv, Looping, Top, TypeOK
<1>10. \A i \in 1..Len(inbox') : \E j \in 1..Len(inbox) : inbox'[i] = inbox[j]
  <2>1. inbox' = inbox \/ inbox' = Tail(inbox)
    BY DEF EndPrune
  <2> QED
    BY <1>9, <2>1, Shortened
<1>11. Matching(N, w)'
    BY <1>2, <1>7, <1>10 DEF Reach, Matching
<1> QED
    BY <1>6, <1>8, <1>11 DEF ReachInv, Reach

(* The driver, the user or the timer queues a command.                     *)
LEMMA QueueSteps ==
    ASSUME TypeInv, TypeOK', ReachInv,
           \/ ProcessCommand \/ QueueNext
           \/ \E c \in Cmd : UserCommand(c) \/ Poll(c)
    PROVE  ReachInv'
<1>1. TypeOK /\ ~On("act")
    BY DEF TypeInv, ProcessCommand, QueueNext, UserCommand, Poll, On, Idle, InDialog
<1>2. UNCHANGED <<next, asked, inbox, pipe, slcmd, cmdSeq, curSeq>>
    BY DEF ProcessCommand, QueueNext, UserCommand, Poll, queueVars, cmdVars,
           driverVars, peerVars
<1>3. UNCHANGED <<waiting, fresh>> \/ \E c \in fresh : QueueCommand(c)
  <2>1. CASE ProcessCommand
    BY <2>1 DEF ProcessCommand
  <2>2. CASE QueueNext
    BY <2>2, QueueNextCases
  <2>3. CASE \E c \in Cmd : UserCommand(c) \/ Poll(c)
    BY <2>3 DEF UserCommand, Poll
  <2> QED
    BY <2>1, <2>2, <2>3
<1>4. (OnceQueued => OnceQueued') /\ NotBegun' \subseteq NotBegun
  <2>1. CASE UNCHANGED <<waiting, fresh>>
    BY <2>1, SameQueue
  <2>2. CASE OnceQueued /\ \E c \in fresh : QueueCommand(c)
    BY <1>1, <2>2, QueuedOnce
  <2>3. OnceQueued
    BY DEF ReachInv, Reach, Unsent
  <2> QED
    BY <1>3, <2>1, <2>2, <2>3
<1>5. QueueFrame.op # "act"
    BY DEF QueueFrame
<1>6. PICK f, g : /\ f.op # "act" /\ g.op # "act"
                  /\ \/ stack # <<>> /\ (Return \/ Become(f) \/ Call(f, g))
                     \/ stack' = Append(stack, g)
  <2>1. CASE ProcessCommand
    <3>1. PICK h : h = [op |-> "handle", i |-> 1]
      OBVIOUS
    <3>2. h.op # "act" /\ stack # <<>>
      BY <2>1, <3>1 DEF ProcessCommand, On
    <3>3. Call(h, QueueFrame) \/ Become(h)
      BY <2>1, <3>1 DEF ProcessCommand
    <3> QED
      BY <1>5, <3>2, <3>3
  <2>2. CASE QueueNext
    BY <1>5, <2>2, QueueNextCases
  <2>3. CASE \E c \in Cmd : UserCommand(c) \/ Poll(c)
    <3>1. PICK c \in Cmd : UserCommand(c) \/ Poll(c)
      BY <2>3
    <3>2. UserCommand(c) => stack' = Append(stack, QueueFrame)
      BY DEF UserCommand, Idle
    <3>3. Poll(c) => stack' = Append(stack, QueueFrame)
      BY DEF Poll
    <3> QED
      BY <1>5, <3>1, <3>2, <3>3
  <2> QED
    BY <2>1, <2>2, <2>3
<1>7. Fewer
    BY <1>2, SameNumbers
<1> QED
    BY <1>1, <1>2, <1>4, <1>6, <1>7, QuietStep

(* Done() at the end of a member function that a dialog was opened from.   *)
LEMMA FinishSteps ==
    ASSUME TypeInv, TypeOK', ReachInv, Skip \/ EndKill
    PROVE  ReachInv'
<1>1. TypeOK /\ stack # <<>> /\ Top.op \in {"error", "refusal", "finish"} /\ ~On("act")
    BY DEF TypeInv, Skip, EndKill, InDialog, On
<1>2. UNCHANGED <<next, asked, inbox, pipe, slcmd, waiting, fresh>>
    BY DEF Skip, EndKill, queueVars, driverVars, peerVars
<1>3. Top.cmd \in Cmd
    BY <1>1, CallerFacts
<1>4. PICK todo : Finish(Top.cmd, Below, todo)
    BY DEF Skip, EndKill
<1>5. Fewer
    BY <1>3, <1>4, DoneFewer DEF Finish
<1>6. (OnceQueued => OnceQueued') /\ NotBegun' \subseteq NotBegun
    BY <1>2, SameQueue
<1>7. PICK f : f = [op |-> "queue", todo |-> todo]
    OBVIOUS
<1>8. f.op # "act" /\ (Return \/ Become(f))
    BY <1>4, <1>7 DEF Finish, Return, Become
<1> QED
    BY <1>1, <1>2, <1>5, <1>6, <1>8, QuietStep

LEMMA KillSteps ==
    ASSUME TypeInv, TypeOK', ReachInv,
           UseDeleted \/ \E k \in Killers : KillDebugger(k)
    PROVE  ReachInv'
<1>1. TypeOK /\ stack # <<>> /\ ~On("act")
    BY DEF TypeInv, UseDeleted, KillDebugger, InDialog, On
<1>2. UNCHANGED <<next, asked, inbox, pipe, slcmd>>
    BY DEF UseDeleted, KillDebugger, cmdVars, driverVars, peerVars
<1>3. CASE UseDeleted
  <2>1. PICK f : f = [op |-> "lost"]
    OBVIOUS
  <2>2. f.op # "act" /\ Become(f)
    BY <1>3, <2>1 DEF UseDeleted
  <2>3. Fewer /\ (OnceQueued => OnceQueued') /\ NotBegun' \subseteq NotBegun
    BY <1>3, SameNumbers, SameQueue DEF UseDeleted, cmdVars, queueVars
  <2> QED
    BY <1>1, <1>2, <2>2, <2>3, QuietStep
<1>4. ASSUME NEW k \in Killers, KillDebugger(k) PROVE ReachInv'
  <2>1. /\ k \in fresh /\ waiting' = <<k>> /\ fresh' = fresh \ {k}
        /\ Done({running[i] : i \in 1..Len(running)})
    BY <1>4 DEF KillDebugger
  <2>2. Fewer
    <3>1. {running[i] : i \in 1..Len(running)} \in SUBSET Cmd
      BY <1>1 DEF TypeOK
    <3> QED
      BY <2>1, <3>1, DoneFewer
  <2>3. OnceQueued' /\ NotBegun' \subseteq NotBegun
    BY <2>1 DEF OnceQueued, NotBegun
  <2>4. PICK f : f = [op |-> "finish", cmd |-> Top.cmd]
    OBVIOUS
  <2>5. f.op # "act" /\ QueueFrame.op # "act" /\ Call(f, QueueFrame)
    BY <1>4, <2>4 DEF KillDebugger, QueueFrame
  <2> QED
    BY <1>1, <1>2, <2>2, <2>3, <2>5, QuietStep
<1> QED
    BY <1>3, <1>4

-----------------------------------------------------------------------------
(* The events: lines change hands. *)

LEMMA EventStep ==
    ASSUME TypeInv, TypeOK', ReachInv, ~On("act"),
           UNCHANGED <<next, slcmd, cmdSeq, curSeq>>,
           OnceQueued => OnceQueued', NotBegun' \subseteq NotBegun,
           stack' = stack \/ \E g : g.op # "act" /\ stack' = Append(stack, g),
           \A i \in 1..Len(asked') : \E j \in 1..Len(asked) :
               asked'[i].seq = asked[j].seq /\ asked'[i].by = asked[j].by,
           \A i \in 1..Len(inbox') :
               \/ \E j \in 1..Len(inbox) : inbox'[i] = inbox[j]
               \/ \E j \in 1..Len(pipe) : inbox'[i] = pipe[j],
           \A i \in 1..Len(pipe') :
               \/ pipe'[i].seq = 0
               \/ \E j \in 1..Len(pipe) : pipe'[i] = pipe[j]
               \/ \E j \in 1..Len(asked) :
                      pipe'[i].seq = asked[j].seq /\ pipe'[i].by = asked[j].by
    PROVE  ReachInv'
<1>1. TypeOK
    BY DEF TypeInv
<1>2. PICK h : h = [op |-> "line"]
    OBVIOUS
<1>3. h.op # "act"
    BY <1>2
<1>4. ActIsTop' /\ \A N, w : ActUnsent(N, w)'
  <2>1. CASE stack' = stack
    BY <1>1, <1>3, <2>1, NoAct DEF ReachInv
  <2>2. CASE \E g : g.op # "act" /\ stack' = Append(stack, g)
    BY <1>1, <1>3, <2>2, NoAct DEF ReachInv
  <2> QED
    BY <2>1, <2>2
<1>5. PICK N, w : Reach(N, w)
    BY DEF ReachInv
<1>6. Numbering(N, w)'
    BY <1>5 DEF Reach, Numbering
<1>7. Unsent(N, w)'
    BY <1>5, QuietUnsent DEF Reach, Unsent
<1>8. Matching(N, w)'
  <2>1. \A i \in 1..Len(asked') : Given(N, w, asked'[i].seq, asked'[i].by)
    BY <1>5 DEF Reach, Matching
  <2>2. \A i \in 1..Len(inbox') :
            inbox'[i].seq # 0 => Given(N, w, inbox'[i].seq, inbox'[i].by)
    BY <1>5 DEF Reach, Matching
  <2>3. \A i \in 1..Len(pipe') :
            pipe'[i].seq # 0 => Given(N, w, pipe'[i].seq, pipe'[i].by)
    BY <1>5 DEF Reach, Matching
  <2>4. /\ \A c \in Cmd : \A s \in cmdSeq'[c] : Given(N, w, s, c)
        /\ \A c \in Cmd : curSeq'[c] # 0 => Given(N, w, curSeq'[c], c)
    BY <1>5 DEF Reach, Matching
  <2> QED
    BY <2>1, <2>2, <2>3, <2>4 DEF Matching, Given
<1> QED
    BY <1>4, <1>5, <1>6, <1>7, <1>8 DEF ReachInv, Reach

LEMMA OutputStep ==
    ASSUME TypeInv, TypeOK', ReachInv, OnGDBOutput
    PROVE  ReachInv'
<1>1. ~On("act") /\ inbox \in Seq(Line) /\ pipe \in Seq(Line) /\ pipe # <<>>
    BY DEF OnGDBOutput, Idle, InDialog, On, TypeInv, TypeOK
<1>2. UNCHANGED <<next, asked, slcmd, cmdSeq, curSeq, waiting, fresh>>
    BY DEF OnGDBOutput, queueVars, cmdVars
<1>3. (OnceQueued => OnceQueued') /\ NotBegun' \subseteq NotBegun
    BY <1>2, SameQueue
<1>4. stack' = stack \/ \E g : g.op # "act" /\ stack' = Append(stack, g)
  <2>1. PICK g : g = [op |-> "line"]
    OBVIOUS
  <2>2. g.op # "act" /\ (stack' = stack \/ stack' = Append(stack, g))
    BY <2>1 DEF OnGDBOutput
  <2> QED
    BY <2>2
<1>5. pipe' = Tail(pipe) /\ inbox' = Append(inbox, Head(pipe))
    BY DEF OnGDBOutput
<1>6. \A i \in 1..Len(pipe') : \E j \in 1..Len(pipe) : pipe'[i] = pipe[j]
    BY <1>1, <1>5, Shortened
<1>7. \A i \in 1..Len(inbox') :
          \/ \E j \in 1..Len(inbox) : inbox'[i] = inbox[j]
          \/ \E j \in 1..Len(pipe) : inbox'[i] = pipe[j]
  <2>1. /\ Len(inbox') = Len(inbox) + 1 /\ Len(inbox) \in Nat
        /\ \A i \in 1..Len(inbox) : inbox'[i] = inbox[i]
        /\ inbox'[Len(inbox) + 1] = Head(pipe)
    BY <1>1, <1>5, Added
  <2>2. Head(pipe) = pipe[1] /\ 1 \in 1..Len(pipe)
    BY <1>1, Shortened
  <2>3. \A i \in 1..Len(inbox') : i \in 1..Len(inbox) \/ i = Len(inbox) + 1
    BY <2>1
  <2> QED
    BY <2>1, <2>2, <2>3
<1>8. \A i \in 1..Len(asked') : \E j \in 1..Len(asked) :
          asked'[i].seq = asked[j].seq /\ asked'[i].by = asked[j].by
    BY <1>2
<1> QED
    BY <1>1, <1>2, <1>3, <1>4, <1>6, <1>7, <1>8, EventStep

(* The session ends: nothing waits. *)
LEMMA TerminatedStep ==
    ASSUME TypeInv, TypeOK', ReachInv, OnGDBTerminated
    PROVE  ReachInv'
<1>1. TypeOK /\ ~On("act") /\ stack' = stack
    BY DEF OnGDBTerminated, Idle, On, TypeInv
<1>2. UNCHANGED <<next, asked, inbox, pipe, slcmd, cmdSeq, curSeq, fresh>>
    BY DEF OnGDBTerminated, cmdVars, driverVars
<1>3. OnceQueued' /\ NotBegun' \subseteq NotBegun
    BY DEF OnGDBTerminated, OnceQueued, NotBegun
<1>4. PICK f : f = [op |-> "line"]
    OBVIOUS
<1>5. f.op # "act" /\ Fewer
    BY <1>2, <1>4, SameNumbers
<1> QED
    BY <1>1, <1>2, <1>3, <1>5, QuietStep

(* The external debugger writes a line, or exits.                          *)
LEMMA PeerStep ==
    ASSUME TypeInv, TypeOK', ReachInv, Answer \/ Exit \/ \E s \in CpuStates : Report(s)
    PROVE  ReachInv'
<1>1. ~On("act") /\ stack' = stack /\ inbox' = inbox
    BY DEF Answer, Exit, Report, Idle, InDialog, On, driverVars
<1>2. UNCHANGED <<next, slcmd, cmdSeq, curSeq, waiting, fresh>>
    BY DEF Answer, Exit, Report, queueVars, cmdVars
<1>3. (OnceQueued => OnceQueued') /\ NotBegun' \subseteq NotBegun
    BY <1>2, SameQueue
<1> DEFINE Request == [by : Cmd, seq : Seqs, final : BOOLEAN, n : 0..MaxLines]
<1>4. asked \in Seq(Request) /\ pipe \in Seq(Line)
    BY DEF TypeInv, TypeOK
<1> HIDE DEF Request
<1>5. ASSUME NEW x, pipe' = Append(pipe, x)
      PROVE  \A i \in 1..Len(pipe') :
                 pipe'[i] = x \/ \E j \in 1..Len(pipe) : pipe'[i] = pipe[j]
  <2>1. /\ Len(pipe') = Len(pipe) + 1 /\ Len(pipe) \in Nat
        /\ \A i \in 1..Len(pipe) : pipe'[i] = pipe[i]
        /\ pipe'[Len(pipe) + 1] = x
    BY <1>4, <1>5, Added
  <2>2. \A i \in 1..Len(pipe') : i \in 1..Len(pipe) \/ i = Len(pipe) + 1
    BY <2>1
  <2> QED
    BY <2>1, <2>2
<1>6. \A i \in 1..Len(inbox') :
          \/ \E j \in 1..Len(inbox) : inbox'[i] = inbox[j]
          \/ \E j \in 1..Len(pipe) : inbox'[i] = pipe[j]
    BY <1>1
<1> DEFINE Kept == \A i \in 1..Len(asked') : \E j \in 1..Len(asked) :
                asked'[i].seq = asked[j].seq /\ asked'[i].by = asked[j].by
           Written == \A i \in 1..Len(pipe') :
                \/ pipe'[i].seq = 0
                \/ \E j \in 1..Len(pipe) : pipe'[i] = pipe[j]
                \/ \E j \in 1..Len(asked) :
                       pipe'[i].seq = asked[j].seq /\ pipe'[i].by = asked[j].by
<1>7. asked' = <<>> => Kept
    OBVIOUS
<1>8. CASE Answer
  <2>1. PICK err \in BOOLEAN :
            pipe' = Append(pipe, [seq |-> Head(asked).seq, by |-> Head(asked).by,
                                  final |-> Head(asked).final, err |-> err,
                                  status |-> "none"])
    BY <1>8 DEF Answer
  <2>2. PICK x : x = [seq |-> Head(asked).seq, by |-> Head(asked).by,
                      final |-> Head(asked).final, err |-> err, status |-> "none"]
    OBVIOUS
  <2>3. asked # <<>>
    BY <1>8 DEF Answer
  <2>4. Head(asked) = asked[1] /\ 1 \in 1..Len(asked)
    BY <1>4, <2>3, Shortened
  <2>5. x.seq = asked[1].seq /\ x.by = asked[1].by
    BY <2>2, <2>4
  <2>6. \A i \in 1..Len(pipe') :
            pipe'[i] = x \/ \E j \in 1..Len(pipe) : pipe'[i] = pipe[j]
    BY <1>5, <2>1, <2>2
  <2>7. Written
    BY <2>4, <2>5, <2>6
  <2>8. \/ asked' = [asked EXCEPT ![1].n = @ + 1]
        \/ asked' = Tail(asked)
        \/ asked' = <<>>
    BY <1>8, Zenon DEF Answer
  <2>9. Kept
    <3>1. CASE asked' = Tail(asked)
      <4>1. \A i \in 1..Len(asked') : i + 1 \in 1..Len(asked) /\ asked'[i] = asked[i + 1]
        BY <1>4, <2>3, <3>1, Shortened
      <4> QED
        BY <4>1
    <3>2. CASE asked' = [asked EXCEPT ![1].n = @ + 1]
      <4>1. asked[1] \in Request
        BY <1>4, <2>4
      <4>2. PICK r : r = [asked[1] EXCEPT !.n = @ + 1]
        OBVIOUS
      <4>3. r.seq = asked[1].seq /\ r.by = asked[1].by
        BY <4>1, <4>2 DEF Request
      <4>4. asked' = [asked EXCEPT ![1] = r]
        BY <3>2, <4>2
      <4>5. DOMAIN asked' = DOMAIN asked /\ DOMAIN asked = 1..Len(asked)
        BY <1>4, <4>4
      <4>6. Len(asked') = Len(asked)
        BY <1>4, <4>4
      <4>7. \A i \in 1..Len(asked) : asked'[i] = IF i = 1 THEN r ELSE asked[i]
        BY <1>4, <4>4
      <4> QED
        BY <4>3, <4>6, <4>7
    <3> QED
      BY <1>7, <2>8, <3>1, <3>2
  <2> QED
    BY <1>1, <1>2, <1>3, <1>6, <2>7, <2>9, EventStep
<1>9. CASE Exit
  <2>1. asked' = <<>> /\ pipe' = pipe
    BY <1>9 DEF Exit
  <2>2. Written
    BY <2>1
  <2> QED
    BY <1>1, <1>2, <1>3, <1>6, <1>7, <2>1, <2>2, EventStep
<1>10. ASSUME NEW s \in CpuStates, Report(s) PROVE ReachInv'
  <2>1. PICK x : x = [seq |-> 0, by |-> NoCmd, final |-> FALSE, err |-> FALSE,
                      status |-> s]
    OBVIOUS
  <2>2. x.seq = 0 /\ pipe' = Append(pipe, x) /\ asked' = asked
    BY <1>10, <2>1 DEF Report
  <2>3. Written
    BY <1>5, <2>2
  <2>4. Kept
    BY <2>2
  <2> QED
    BY <1>1, <1>2, <1>3, <1>6, <2>3, <2>4, EventStep
<1> QED
    BY <1>8, <1>9, <1>10

-----------------------------------------------------------------------------
(* The steps that send. *)

LEMMA QueueHead ==
    ASSUME TypeOK, OnceQueued, waiting # <<>>, waiting' = Tail(waiting), UNCHANGED fresh
    PROVE  /\ OnceQueued' /\ NotBegun' \subseteq NotBegun
           /\ Head(waiting) \in NotBegun \ NotBegun' /\ Head(waiting) \in Cmd
<1>1. waiting \in Seq(Cmd)
    BY DEF TypeOK
<1>2. /\ Len(waiting') = Len(waiting) - 1 /\ Len(waiting) \in Nat \ {0}
      /\ \A i \in 1..Len(waiting') : i + 1 \in 1..Len(waiting) /\ waiting'[i] = waiting[i + 1]
      /\ Head(waiting) = waiting[1] /\ 1 \in 1..Len(waiting)
    BY <1>1, Shortened
<1>3. \A i, j \in 1..Len(waiting') : waiting'[i] = waiting'[j] => i = j
  <2> SUFFICES ASSUME NEW i \in 1..Len(waiting'), NEW j \in 1..Len(waiting'),
                      waiting'[i] = waiting'[j]
               PROVE  i = j
    OBVIOUS
  <2>1. i + 1 = j + 1
    BY <1>2 DEF OnceQueued
  <2> QED
    BY <1>2, <2>1
<1>4. \A i \in 1..Len(waiting') : waiting'[i] # waiting[1]
  <2> SUFFICES ASSUME NEW i \in 1..Len(waiting'), waiting'[i] = waiting[1] PROVE FALSE
    OBVIOUS
  <2>1. i + 1 = 1
    BY <1>2 DEF OnceQueued
  <2> QED
    BY <1>2, <2>1
<1>5. OnceQueued'
    BY <1>2, <1>3 DEF OnceQueued
<1>6. NotBegun' \subseteq NotBegun
    BY <1>2 DEF NotBegun
<1>7. Head(waiting) \in NotBegun
    BY <1>2 DEF NotBegun
<1>8. Head(waiting) \notin NotBegun'
    BY <1>2, <1>4 DEF NotBegun, OnceQueued
<1> QED
    BY <1>1, <1>2, <1>5, <1>6, <1>7, <1>8

(* Action() of c is called, with left requests to send.                    *)
LEMMA ActCalled ==
    ASSUME TypeOK, TypeOK', ActIsTop, stack # <<>>, ~On("act"),
           NEW f, f.op # "act", NEW c, NEW left,
           Call(f, [op |-> "act", cmd |-> c, left |-> left])
    PROVE  ActIsTop' /\ On("act")' /\ Top' = [op |-> "act", cmd |-> c, left |-> left]
<1>1. PICK g : g = [op |-> "act", cmd |-> c, left |-> left]
    OBVIOUS
<1>2. /\ Below \in Seq(Frame) /\ Len(Below) = Len(stack) - 1
      /\ \A i \in 1..Len(Below) : Below[i] = stack[i]
    BY StackFacts
<1>3. \A i \in 1..Len(Below) : Below[i].op # "act"
    BY <1>2 DEF ActIsTop
<1>4. PICK b : b = Append(Below, f)
    OBVIOUS
<1>5. /\ Len(b) = Len(Below) + 1 /\ Len(Below) \in Nat
      /\ \A i \in 1..Len(Below) : b[i] = Below[i]
      /\ b[Len(Below) + 1] = f /\ b \in Seq(Frame \cup {f})
  <2>1. Below \in Seq(Frame) /\ Below \in Seq(Frame \cup {f}) /\ f \in Frame \cup {f}
    BY <1>2
  <2> QED
    BY <1>4, <2>1, Added
<1>6. stack' = Append(b, g)
    BY <1>1, <1>4 DEF Call
<1>7. /\ Len(stack') = Len(b) + 1 /\ Len(b) \in Nat
      /\ \A i \in 1..Len(b) : stack'[i] = b[i]
      /\ stack'[Len(b) + 1] = g
    BY <1>5, <1>6, Added
<1>8. ActIsTop'
    BY <1>3, <1>5, <1>7 DEF ActIsTop
<1>9. stack' # <<>> /\ Top' = g
    BY <1>7 DEF Top
<1> QED
    BY <1>1, <1>8, <1>9 DEF On

LEMMA RequestsMost ==
    ASSUME NEW c \in Cmd, NEW n \in Requests(c) \ {0}
    PROVE  n \in 1..3 /\ n <= Most(c) /\ (Class[c] = "AddBreakpoint" => n = 1)
BY DEF Requests, Most

(* A command is started: it has sent nothing.                              *)
LEMMA StartStep ==
    ASSUME TypeInv, TypeOK', ReachInv, Start
    PROVE  ReachInv'
<1>1. TypeOK /\ stack # <<>> /\ ~On("act") /\ waiting # <<>>
    BY DEF TypeInv, Start, On, CanStart
<1>2. UNCHANGED <<next, asked, inbox, pipe, slcmd, cmdSeq, curSeq, fresh>>
    BY DEF Start, driverVars, peerVars
<1>3. OnceQueued
    BY DEF ReachInv, Reach, Unsent
<1>4. PICK c : c = Head(waiting)
    OBVIOUS
<1>5. OnceQueued' /\ NotBegun' \subseteq NotBegun /\ c \in NotBegun \ NotBegun' /\ c \in Cmd
    BY <1>1, <1>2, <1>3, <1>4, QueueHead DEF Start
<1>6. Fewer
    BY <1>2, SameNumbers
<1>7. PICK f : f = [Top EXCEPT !.op = "after", !.work = TRUE]
    OBVIOUS
<1>8. f.op # "act"
  <2>1. Top \in [op : {"run", "after"}, loop : BOOLEAN, done : BOOLEAN, work : BOOLEAN]
    BY <1>1, StackFacts, FrameFields DEF Start, On
  <2> QED
    BY <1>7, <2>1
<1>9. CASE Become(f) \/ Call(f, [op |-> "refusal", cmd |-> c])
  <2>1. PICK g : g = [op |-> "refusal", cmd |-> c]
    OBVIOUS
  <2>2. g.op # "act" /\ (Become(f) \/ Call(f, g))
    BY <1>9, <2>1
  <2> QED
    BY <1>1, <1>2, <1>5, <1>6, <1>8, <2>2, QuietStep
<1>10. ASSUME NEW n \in Requests(c) \ {0},
              Call(f, [op |-> "act", cmd |-> c, left |-> n])
       PROVE  ReachInv'
  <2>1. /\ ActIsTop' /\ On("act")'
        /\ Top' = [op |-> "act", cmd |-> c, left |-> n]
    BY <1>1, <1>8, <1>10, ActCalled DEF ReachInv
  <2>2. PICK N, w : Reach(N, w)
    BY DEF ReachInv
  <2>3. Numbering(N, w)'
    BY <1>2, <2>2 DEF Reach, Numbering
  <2>4. Matching(N, w)'
    BY <1>2, <1>6, <2>2, QuietMatching DEF Reach
  <2>5. Unsent(N, w)'
    BY <1>2, <1>5, <2>2, QuietUnsent DEF Reach
  <2>6. c \notin slcmd /\ \A s \in N : w[s][1] # c
    BY <1>5, <2>2 DEF Reach, Unsent
  <2>7. n \in 1..3 /\ n <= Most(c) /\ (Class[c] = "AddBreakpoint" => n = 1)
    BY <1>5, RequestsMost
  <2>8. Slot(Top)' = <<c, n>>
    BY <1>2, <2>1, <2>6 DEF Slot
  <2>9. <<c, n>> \in Slots
    BY <1>5, <2>7 DEF Slots
  <2>10. ActUnsent(N, w)'
    BY <1>2, <1>5, <2>1, <2>6, <2>7, <2>8, <2>9 DEF ActUnsent
  <2> QED
    BY <2>1, <2>3, <2>4, <2>5, <2>10 DEF ReachInv, Reach
<1> QED
    BY <1>4, <1>7, <1>9, <1>10 DEF Start

(* A request is sent. *)
LEMMA SendStep ==
    ASSUME EnoughNumbers, TypeInv, TypeOK', ReachInv, Send
    PROVE  ReachInv'
<1>1. TypeOK /\ stack # <<>> /\ On("act")
    BY DEF TypeInv, Send, On
<1>2. UNCHANGED <<waiting, fresh, curSeq, inbox, pipe, slcmd>>
    BY DEF Send, queueVars, driverVars, peerVars
<1>3. PICK c, n : c = Top.cmd /\ n = Top.left
    OBVIOUS
<1>4. Top = [op |-> "act", cmd |-> c, left |-> n] /\ c \in Cmd /\ n \in 1..3
  <2>1. Top \in [op : {"act"}, cmd : Cmd, left : 1..3]
    BY <1>1, StackFacts, FrameFields DEF On
  <2> QED
    BY <1>3, <2>1
<1>5. PICK N, w : Reach(N, w)
    BY DEF ReachInv
<1>6. PICK p : p = <<c, IF c \in slcmd THEN 2 ELSE n>>
    OBVIOUS
<1>7. p = Slot(Top)
    BY <1>3, <1>6 DEF Slot
<1>8. /\ c \notin NotBegun /\ p \in Slots
      /\ Class[c] = "AddBreakpoint" => n = 1
      /\ \A s \in N : w[s][1] = c =>
             IF c \in slcmd THEN w[s][2] = 1 ELSE w[s][2] > n
    BY <1>1, <1>3, <1>5, <1>7 DEF Reach, ActUnsent
<1>9. p[1] = c /\ p[2] = IF c \in slcmd THEN 2 ELSE n
    BY <1>6
<1>10. \A s \in N : w[s] # p
    BY <1>4, <1>8, <1>9
<1>11. PICK M : M = N \cup {next}
    OBVIOUS
<1>12. PICK v : v = [s \in M |-> IF s = next THEN p ELSE w[s]]
    OBVIOUS
<1>13. Numbering(M, v)'
  <2>1. next \in Seqs /\ next' = NextSeq(next)
    BY <1>1 DEF TypeOK, Send
  <2> QED
    BY <1>5, <1>8, <1>10, <1>11, <1>12, <2>1, NumberGiven DEF Reach
<1>14. /\ \A s \in N : s \in M /\ s # next /\ v[s] = w[s]
       /\ next \in M /\ v[next] = p
       /\ \A s \in M : s = next \/ s \in N
    BY <1>5, <1>11, <1>12 DEF Reach, Numbering
<1>15. /\ \A s, d : Given(N, w, s, d) => Given(M, v, s, d)
       /\ Given(M, v, next, c)
    BY <1>9, <1>14 DEF Given
<1>16. Matching(M, v)'
  <2>1. cmdSeq' = [cmdSeq EXCEPT ![c] = @ \cup {next}] /\ cmdSeq \in [Cmd -> SUBSET Seqs]
    BY <1>1, <1>3 DEF Send, TypeOK
  <2>2. \A d \in Cmd : \A s \in cmdSeq'[d] : s \in cmdSeq[d] \/ (d = c /\ s = next)
    BY <1>4, <2>1
  <2>3. \A d \in Cmd : \A s \in cmdSeq'[d] : Given(M, v, s, d)
    BY <1>5, <1>15, <2>2 DEF Reach, Matching
  <2>4. \A i \in 1..Len(asked') : Given(M, v, asked'[i].seq, asked'[i].by)
    <3>1. PICK r : r = [by |-> c, seq |-> next, final |-> Top.left = 1, n |-> 0]
      OBVIOUS
    <3>2. asked' = Append(asked, r) /\ r.by = c /\ r.seq = next
      BY <1>3, <3>1 DEF Send
    <3>3. asked \in Seq([by : Cmd, seq : Seqs, final : BOOLEAN, n : 0..MaxLines])
      BY <1>1 DEF TypeOK
    <3>4. /\ Len(asked') = Len(asked) + 1 /\ Len(asked) \in Nat
          /\ \A i \in 1..Len(asked) : asked'[i] = asked[i]
          /\ asked'[Len(asked) + 1] = r
      BY <3>2, <3>3, Added
    <3>5. \A i \in 1..Len(asked') : i \in 1..Len(asked) \/ i = Len(asked) + 1
      BY <3>4
    <3> QED
      BY <1>5, <1>15, <3>2, <3>4, <3>5 DEF Reach, Matching
  <2>5. /\ \A d \in Cmd : curSeq[d] # 0 => Given(M, v, curSeq[d], d)
        /\ \A i \in 1..Len(inbox) :
               inbox[i].seq # 0 => Given(M, v, inbox[i].seq, inbox[i].by)
        /\ \A i \in 1..Len(pipe) :
               pipe[i].seq # 0 => Given(M, v, pipe[i].seq, pipe[i].by)
    BY <1>5, <1>15 DEF Reach, Matching
  <2> QED
    BY <1>2, <2>3, <2>4, <2>5 DEF Matching, Given
<1>17. Unsent(M, v)'
  <2>1. Unsent(N, w) /\ NotBegun' = NotBegun /\ (OnceQueued => OnceQueued')
    BY <1>2, <1>5 DEF Reach, NotBegun, OnceQueued
  <2>2. \A s \in M : v[s][1] \notin NotBegun
    BY <1>8, <1>9, <1>14, <2>1 DEF Unsent
  <2>3. \A s \in M : Class[v[s][1]] = "AddBreakpoint" /\ v[s][2] = 2 => v[s][1] \in slcmd
    BY <1>8, <1>9, <1>14, <2>1 DEF Unsent
  <2> QED
    BY <1>2, <2>1, <2>2, <2>3 DEF Unsent
<1>18. /\ Below \in Seq(Frame) /\ Len(Below) = Len(stack) - 1
       /\ \A i \in 1..Len(Below) : Below[i] = stack[i]
    BY <1>1, StackFacts
<1>19. Len(Below) \in Nat /\ \A i \in 1..Len(Below) : Below[i].op # "act"
    BY <1>18 DEF ReachInv, ActIsTop
<1>20. CASE n = 1
  <2>1. stack' = Below
    BY <1>3, <1>20 DEF Send, Return
  <2>2. ActIsTop' /\ ~On("act")'
    BY <1>19, <2>1 DEF ActIsTop, On, Top
  <2>3. ActUnsent(M, v)'
    BY <2>2 DEF ActUnsent
  <2> QED
    BY <1>13, <1>16, <1>17, <2>2, <2>3 DEF ReachInv, Reach
<1>21. CASE n # 1
  <2>1. PICK g : g = [op |-> "act", cmd |-> c, left |-> n - 1]
    OBVIOUS
  <2>2. stack' = Append(Below, g)
    BY <1>3, <1>4, <1>21, <2>1 DEF Send, Become
  <2>3. /\ Len(stack') = Len(Below) + 1
        /\ \A i \in 1..Len(Below) : stack'[i] = Below[i]
        /\ stack'[Len(Below) + 1] = g
    BY <1>18, <2>2, Added
  <2>4. ActIsTop' /\ Top' = g
    BY <1>19, <2>3 DEF ActIsTop, Top
  <2>5. c \notin slcmd /\ Class[c] # "AddBreakpoint"
    BY <1>5, <1>8, <1>21 DEF Reach, Unsent
  <2>6. Slot(Top)' = <<c, n - 1>>
    BY <1>2, <2>1, <2>4, <2>5 DEF Slot
  <2>7. <<c, n - 1>> \in Slots
    <3>1. n <= Most(c) /\ Most(c) \in 1..3
      BY <1>4, <1>8, <1>9, <2>5, MostFacts
    <3>2. n - 1 \in 1..3 /\ n - 1 <= Most(c)
      BY <1>4, <1>21, <3>1
    <3> QED
      BY <1>4, <3>2 DEF Slots
  <2>8. \A s \in M : v[s][1] = c => v[s][2] > n - 1
    <3> SUFFICES ASSUME NEW s \in M, v[s][1] = c PROVE v[s][2] > n - 1
      OBVIOUS
    <3>1. CASE s = next
      BY <1>4, <1>9, <1>14, <2>5, <3>1
    <3>2. CASE s \in N
      <4>1. w[s] \in Slots
        BY <1>5, <3>2 DEF Reach, Numbering
      <4>2. w[s][2] \in 1..3
        BY <4>1, MostFacts
      <4>3. w[s][2] > n
        BY <1>8, <1>14, <2>5, <3>2
      <4> QED
        BY <1>4, <1>14, <3>2, <4>2, <4>3
    <3> QED
      BY <1>14, <3>1, <3>2
  <2>9. NotBegun' = NotBegun
    BY <1>2 DEF NotBegun
  <2>10. ActUnsent(M, v)'
    BY <1>2, <1>8, <2>1, <2>4, <2>5, <2>6, <2>7, <2>8, <2>9 DEF ActUnsent
  <2> QED
    BY <1>13, <1>16, <1>17, <2>4, <2>10 DEF ReachInv, Reach
<1> QED
    BY <1>20, <1>21

(* A line is taken; AddBreakpoint asks a second time.                      *)
LEMMA AcceptStep ==
    ASSUME TypeInv, TypeOK', ReachInv, Accept
    PROVE  ReachInv'
<1>1. TypeOK /\ stack # <<>> /\ ~On("act") /\ On("handle")
    BY DEF TypeInv, Accept, Handling, On
<1>2. UNCHANGED <<next, asked, inbox, pipe, waiting, fresh>>
    BY DEF Accept, queueVars, driverVars, peerVars
<1>3. PICK c, l : c = Current /\ l = Head(inbox)
    OBVIOUS
<1>4. c \in Cmd /\ l.seq # 0 /\ IsForUs(c, l.seq)
    BY <1>3, HandlingFacts DEF Accept, Handling
<1>5. NextIndex.op # "act"
    BY <1>1, HandleFacts
<1>6. (OnceQueued => OnceQueued') /\ NotBegun' \subseteq NotBegun /\ NotBegun' = NotBegun
    BY <1>2, SameQueue DEF NotBegun
<1> DEFINE Taken == /\ curSeq' = [curSeq EXCEPT ![c] = l.seq]
                    /\ cmdSeq' = [cmdSeq EXCEPT ![c] = Left(c, l.seq)]
<1>7. ASSUME Taken PROVE Fewer
  <2>1. cmdSeq \in [Cmd -> SUBSET Seqs] /\ curSeq \in [Cmd -> 0..(Modulus - 1)]
    BY <1>1 DEF TypeOK
  <2>2. Left(c, l.seq) \subseteq cmdSeq[c] /\ l.seq \in cmdSeq[c] \cup {0, curSeq[c]}
    BY <1>4 DEF Left, IsForUs
  <2> QED
    BY <1>4, <1>7, <2>1, <2>2 DEF Fewer
<1>8. \/ Taken /\ UNCHANGED slcmd /\ Call(NextIndex, [op |-> "error", cmd |-> c])
      \/ /\ UNCHANGED slcmd
         /\ \E todo : Finish(c, Append(Below, NextIndex), todo)
      \/ Taken /\ UNCHANGED slcmd /\ Become(NextIndex)
      \/ /\ Taken /\ slcmd' = slcmd \cup {c} /\ Class[c] = "AddBreakpoint" /\ c \notin slcmd
         /\ Call(NextIndex, [op |-> "act", cmd |-> c, left |-> 1])
  <2>1. \/ Taken /\ UNCHANGED slcmd /\ Call(NextIndex, [op |-> "error", cmd |-> c])
        \/ /\ UNCHANGED slcmd
           /\ \E todo \in AfterAnswer(c) : Finish(c, Append(Below, NextIndex), todo)
        \/ /\ Taken /\ FALSE \in Completes(c, l)
           /\ IF Class[c] = "AddBreakpoint"
              THEN /\ slcmd' = slcmd \cup {c}
                   /\ Call(NextIndex, [op |-> "act", cmd |-> c, left |-> 1])
              ELSE Become(NextIndex) /\ UNCHANGED slcmd
    BY <1>3, Zenon DEF Accept
  <2>2. Class[c] = "AddBreakpoint" /\ FALSE \in Completes(c, l) => c \notin slcmd
    BY DEF Completes
  <2> HIDE DEF Taken
  <2> QED
    BY <2>1, <2>2, Zenon
<1>9. ASSUME Taken, UNCHANGED slcmd,
             Call(NextIndex, [op |-> "error", cmd |-> c]) \/ Become(NextIndex)
      PROVE  ReachInv'
  <2>1. PICK g : g = [op |-> "error", cmd |-> c]
    OBVIOUS
  <2>2. g.op # "act" /\ (Call(NextIndex, g) \/ Become(NextIndex))
    BY <1>9, <2>1
  <2>3. Fewer
    BY <1>7, <1>9
  <2> QED
    BY <1>1, <1>2, <1>5, <1>6, <1>9, <2>2, <2>3, QuietStep
<1>10. ASSUME UNCHANGED slcmd, NEW todo, Finish(c, Append(Below, NextIndex), todo)
       PROVE  ReachInv'
  <2>1. PICK g : g = [op |-> "queue", todo |-> todo]
    OBVIOUS
  <2>2. g.op # "act" /\ (Call(NextIndex, g) \/ Become(NextIndex))
    BY <1>10, <2>1 DEF Finish, Call, Become
  <2>3. Fewer
    BY <1>4, <1>10, DoneFewer DEF Finish
  <2> QED
    BY <1>1, <1>2, <1>5, <1>6, <1>10, <2>2, <2>3, QuietStep
<1>11. ASSUME Taken, slcmd' = slcmd \cup {c}, Class[c] = "AddBreakpoint", c \notin slcmd,
              Call(NextIndex, [op |-> "act", cmd |-> c, left |-> 1])
       PROVE  ReachInv'
  <2>1. /\ ActIsTop' /\ On("act")'
        /\ Top' = [op |-> "act", cmd |-> c, left |-> 1]
    BY <1>1, <1>5, <1>11, ActCalled DEF ReachInv
  <2>2. PICK N, w : Reach(N, w)
    BY DEF ReachInv
  <2>3. Numbering(N, w)'
    BY <1>2, <2>2 DEF Reach, Numbering
  <2>4. Matching(N, w)'
    BY <1>2, <1>7, <1>11, <2>2, QuietMatching DEF Reach
  <2>5. Given(N, w, l.seq, c)
    BY <1>4, <2>2 DEF Reach, Matching, IsForUs
  <2>6. c \notin NotBegun
    BY <2>2, <2>5 DEF Reach, Unsent, Given
  <2>7. Unsent(N, w)'
    BY <1>6, <1>11, <2>2, <2>6 DEF Reach, Unsent
  <2>8. \A s \in N : w[s][1] = c => w[s][2] = 1
    <3> SUFFICES ASSUME NEW s \in N, w[s][1] = c PROVE w[s][2] = 1
      OBVIOUS
    <3>1. w[s] \in Slots
      BY <2>2 DEF Reach, Numbering
    <3>2. w[s][2] \in 1..3 /\ w[s][2] <= Most(c) /\ Most(c) = 2
      BY <1>4, <1>11, <3>1, MostFacts DEF Most
    <3>3. w[s][2] # 2
      BY <1>11, <2>2 DEF Reach, Unsent
    <3> QED
      BY <3>2, <3>3
  <2>9. Slot(Top)' = <<c, 2>>
    BY <1>11, <2>1 DEF Slot
  <2>10. <<c, 2>> \in Slots
    <3>1. Most(c) = 2
      BY <1>11 DEF Most
    <3> QED
      BY <1>4, <3>1 DEF Slots
  <2>11. ActUnsent(N, w)'
    BY <1>6, <1>11, <2>1, <2>6, <2>8, <2>9, <2>10 DEF ActUnsent
  <2> QED
    BY <2>1, <2>3, <2>4, <2>7, <2>11 DEF ReachInv, Reach
<1> QED
  <2> HIDE DEF Taken
  <2> QED
    BY <1>8, <1>9, <1>10, <1>11

-----------------------------------------------------------------------------

LEMMA InitReach == Init => ReachInv
<1> SUFFICES ASSUME Init PROVE ReachInv
    OBVIOUS
<1>1. /\ waiting = <<>> /\ stack = <<>> /\ asked = <<>> /\ inbox = <<>> /\ pipe = <<>>
      /\ slcmd = {} /\ \A c \in Cmd : cmdSeq[c] = {} /\ curSeq[c] = 0
    BY DEF Init
<1>2. PICK w : w = [s \in {} |-> 0]
    OBVIOUS
<1>3. Numbering({}, w)
    BY <1>2 DEF Numbering
<1>4. Matching({}, w)
    BY <1>1 DEF Matching
<1>5. Unsent({}, w) /\ ActUnsent({}, w) /\ ActIsTop
    BY <1>1 DEF Unsent, OnceQueued, ActUnsent, On, ActIsTop
<1> QED
    BY <1>3, <1>4, <1>5 DEF ReachInv, Reach

LEMMA StutterReach ==
    ASSUME ReachInv, UNCHANGED vars
    PROVE  ReachInv'
<1>1. /\ UNCHANGED <<waiting, fresh, cmdSeq, curSeq, slcmd, next>>
      /\ UNCHANGED <<inbox, stack, asked, pipe>>
    BY DEF vars, queueVars, cmdVars, driverVars, peerVars
<1>2. PICK N, w : Reach(N, w)
    BY DEF ReachInv
<1>3. Numbering(N, w)'
    BY <1>1, <1>2 DEF Reach, Numbering
<1>4. Matching(N, w)'
    BY <1>1, <1>2 DEF Reach, Matching
<1>5. Unsent(N, w)'
    BY <1>1, <1>2 DEF Reach, Unsent, OnceQueued, NotBegun
<1>6. ActUnsent(N, w)'
    BY <1>1, <1>2 DEF Reach, ActUnsent, On, Top, NotBegun, Slot
<1>7. ActIsTop'
    BY <1>1 DEF ReachInv, ActIsTop
<1> QED
    BY <1>3, <1>4, <1>5, <1>6, <1>7 DEF ReachInv, Reach

LEMMA NextReach ==
    ASSUME EnoughNumbers, TypeInv, TypeInv', ReachInv, [Next]_vars
    PROVE  ReachInv'
<1>1. TypeOK'
    BY DEF TypeInv
<1>2. CASE GuiStep
    BY <1>1, <1>2, SendStep, RunSteps, StartStep, EndPruneStep, QueueSteps, LineSteps,
       AcceptStep, FinishSteps, KillSteps DEF GuiStep
<1>3. CASE UserAnswer
    BY <1>1, <1>3, FinishSteps, KillSteps DEF UserAnswer
<1>4. CASE \E c \in Cmd : UserCommand(c) \/ Poll(c)
    BY <1>1, <1>4, QueueSteps
<1>5. CASE \/ OnGDBOutput \/ OnGDBTerminated \/ Answer \/ Exit
           \/ \E s \in CpuStates : Report(s)
    BY <1>1, <1>5, OutputStep, TerminatedStep, PeerStep
<1>6. CASE UNCHANGED vars
    BY <1>6, StutterReach
<1> QED
    BY <1>2, <1>3, <1>4, <1>5, <1>6 DEF Next

LEMMA ReachInvHolds ==
    ASSUME EnoughNumbers
    PROVE  Spec => []ReachInv
<1>1. TypeInv /\ TypeInv' /\ ReachInv /\ [Next]_vars => ReachInv'
    BY NextReach
<1> QED
    BY <1>1, InitReach, TypeInvHolds, PTL DEF Spec

(* A line is taken only by the command whose request it answers, refusals, *)
(* killed commands and late lines included, in a session that sends fewer   *)
(* requests than m_CmdSequence has values (CommandAddSeq, ParseAllOutput). *)
THEOREM LinesReachSenderHolds ==
    ASSUME EnoughNumbers
    PROVE  Spec => []LinesReachSender
<1>1. ReachInv => LinesReachSender
  <2> SUFFICES ASSUME ReachInv, NEW c \in Cmd
               PROVE  /\ \A i \in 1..Len(inbox) : inbox[i].seq # 0 /\
                             IsForUs(c, inbox[i].seq) => inbox[i].by = c
                      /\ \A i \in 1..Len(pipe) : pipe[i].seq # 0 /\
                             IsForUs(c, pipe[i].seq) => pipe[i].by = c
    BY DEF LinesReachSender
  <2>1. PICK N, w : Matching(N, w)
    BY DEF ReachInv, Reach
  <2>2. \A s : s # 0 /\ IsForUs(c, s) => Given(N, w, s, c)
    BY <2>1 DEF Matching, IsForUs
  <2> QED
    BY <2>1, <2>2 DEF Matching, Given
<1> QED
    BY <1>1, ReachInvHolds, PTL

===============================================================================
