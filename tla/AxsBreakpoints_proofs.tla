------------------------- MODULE AxsBreakpoints_proofs -------------------------
(***************************************************************************)
(* Proofs about AxsBreakpoints for any number of breakpoints, numbers and  *)
(* operations of the user: AxsCmd_Quit asks the debugger to quit only when *)
(* the target has no breakpoint and runs.                                  *)
(***************************************************************************)
EXTENDS AxsBreakpoints, TLAPS

(* How many answers to AxsCmd_Quit are among the lines s: none, one, two.  *)
Silent(s) == \A k \in DOMAIN s : s[k].for # "quit"
Once(s) == \E k \in DOMAIN s :
    /\ s[k].for = "quit"
    /\ \A j \in DOMAIN s : j # k => s[j].for # "quit"
Twice(s) == \E k, l \in DOMAIN s :
    /\ k # l /\ s[k].for = "quit" /\ s[l].for = "quit"
    /\ \A j \in DOMAIN s : j \notin {k, l} => s[j].for # "quit"

Empty == \A i \in Index : target[i] = NoBp
Stage == {"idle", "enumbkp", "waitnonbusybkp", "waitnonbusy", "waitrun", "done", "over"}

QuitRecord == [at : Stage, sent : Seq(Requests), due : Nat, cur : BOOLEAN]
QuitType == quit \in QuitRecord

(* No conversation before AxsCmd_Quit begins; none of AxsCmd_AddBreakpoint *)
(* while it goes on.                                                       *)
IdleInv ==
    IF quit.at = "idle" THEN quit = Idle /\ Silent(lines)
    ELSE phase = "ready" /\ \A k \in DOMAIN lines : lines[k].for # "new"

(* none asked and none open; a request under way; its answer under way *)
Quiet == quit.due = 0 /\ quit.sent = <<>> /\ Silent(lines)
Asked(r) == quit.due = 1 /\ quit.sent = <<r>> /\ Silent(lines)
Told == quit.due = 1 /\ quit.sent = <<>> /\ Once(lines)

(* From the k-th line on, the CPU is said to run only if it still does.    *)
RunsFrom(k) ==
    \A j \in DOMAIN lines : j >= k /\ lines[j].status = "run" => cpu = "run"

(* Where AxsCmd_Quit stands in each of its states, and what it knows: an   *)
(* empty target stays empty, and a CPU that runs on it goes on running.    *)
EnumInv == quit.at = "enumbkp" =>
    /\ ~quit.cur
    /\ \/ Asked("breakpoint")
       \/ /\ Told
          /\ \A k \in DOMAIN lines : lines[k].for = "quit" /\ ~lines[k].some =>
                Empty /\ RunsFrom(k)
StopInv == quit.at = "waitnonbusybkp" => Quiet \/ Asked("stop") \/ Told
RunInv == quit.at = "waitnonbusy" =>
    Empty /\ RunsFrom(1) /\ (Quiet \/ Asked("run") \/ (Told /\ cpu = "run"))
DeleteInv == quit.at = "waitrun" =>
    \/ quit.due = 2 /\ quit.sent = <<"delete", "run">> /\ Silent(lines)
    \/ /\ Empty
       /\ \/ quit.due = 2 /\ quit.sent = <<"run">> /\ Once(lines)
          \/ Asked("run")
          \/ /\ cpu = "run"
             /\ \/ quit.due = 2 /\ quit.sent = <<>> /\ Twice(lines)
                \/ Told \/ Quiet
DoneInv == quit.at = "done" => Empty /\ cpu = "run" /\ (Asked("quit") \/ Told)
OverInv == quit.at = "over" => Empty /\ cpu = "run" /\ Quiet /\ ~quit.cur

QuitInv ==
    /\ QuitType /\ IdleInv
    /\ EnumInv /\ StopInv /\ RunInv /\ DeleteInv /\ DoneInv /\ OverInv

SeqInv == \E S : lines \in Seq(S)

-----------------------------------------------------------------------------
(* What an appended and a removed line do to the count of answers. *)

LEMMA AppendFacts ==
    ASSUME NEW S, NEW s \in Seq(S), NEW x
    PROVE  /\ Append(s, x) \in Seq(S \cup {x})
           /\ DOMAIN Append(s, x) = DOMAIN s \cup {Len(s) + 1}
           /\ Len(s) + 1 \notin DOMAIN s
           /\ \A k \in DOMAIN s : Append(s, x)[k] = s[k]
           /\ Append(s, x)[Len(s) + 1] = x
<1>1. s \in Seq(S \cup {x}) /\ x \in S \cup {x} /\ Len(s) \in Nat
    OBVIOUS
<1> QED
    BY <1>1

LEMMA AppendAnswer ==
    ASSUME NEW S, NEW s \in Seq(S), NEW x, x.for = "quit"
    PROVE  /\ Silent(s) => Once(Append(s, x))
           /\ Once(s) => Twice(Append(s, x))
<1> DEFINE n == Len(s) + 1
           t == Append(s, x)
<1>1. /\ DOMAIN t = DOMAIN s \cup {n} /\ n \notin DOMAIN s
      /\ \A k \in DOMAIN s : t[k] = s[k]
      /\ t[n] = x
    BY AppendFacts
<1> HIDE DEF n, t
<1>2. ASSUME Silent(s) PROVE Once(t)
    BY <1>1, <1>2 DEF Silent, Once
<1>3. ASSUME Once(s) PROVE Twice(t)
  <2>1. PICK k \in DOMAIN s :
            s[k].for = "quit" /\ \A j \in DOMAIN s : j # k => s[j].for # "quit"
    BY <1>3 DEF Once
  <2> QED
    BY <1>1, <2>1 DEF Twice
<1> QED
    BY <1>2, <1>3 DEF t

LEMMA AppendOther ==
    ASSUME NEW S, NEW s \in Seq(S), NEW x, x.for # "quit"
    PROVE  /\ Silent(s) => Silent(Append(s, x))
           /\ Once(s) => Once(Append(s, x))
           /\ Twice(s) => Twice(Append(s, x))
<1> DEFINE n == Len(s) + 1
           t == Append(s, x)
<1>1. /\ DOMAIN t = DOMAIN s \cup {n} /\ n \notin DOMAIN s
      /\ \A k \in DOMAIN s : t[k] = s[k]
      /\ t[n] = x
    BY AppendFacts
<1> HIDE DEF n, t
<1>2. Silent(s) => Silent(t)
    BY <1>1 DEF Silent
<1>3. ASSUME Once(s) PROVE Once(t)
    BY <1>1, <1>3 DEF Once
<1>4. ASSUME Twice(s) PROVE Twice(t)
    BY <1>1, <1>4 DEF Twice
<1> QED
    BY <1>2, <1>3, <1>4 DEF t

LEMMA TailFacts ==
    ASSUME NEW S, NEW s \in Seq(S), s # <<>>
    PROVE  /\ Tail(s) \in Seq(S)
           /\ Len(s) \in Nat \ {0}
           /\ DOMAIN s = 1..Len(s) /\ DOMAIN Tail(s) = 1..(Len(s) - 1)
           /\ \A k \in DOMAIN Tail(s) : Tail(s)[k] = s[k + 1]
           /\ Head(s) = s[1]
OBVIOUS

LEMMA TailAnswer ==
    ASSUME NEW S, NEW s \in Seq(S), s # <<>>, Head(s).for = "quit"
    PROVE  /\ ~Silent(s)
           /\ Once(s) => Silent(Tail(s))
           /\ Twice(s) => Once(Tail(s))
<1> DEFINE n == Len(s)
           t == Tail(s)
<1>1. /\ n \in Nat \ {0} /\ DOMAIN s = 1..n /\ DOMAIN t = 1..(n - 1)
      /\ \A k \in 1..(n - 1) : t[k] = s[k + 1]
      /\ s[1].for = "quit"
    BY TailFacts
<1> HIDE DEF n, t
<1>2. ~Silent(s)
    BY <1>1 DEF Silent
<1>3. ASSUME Once(s) PROVE Silent(t)
  <2>1. \A j \in 1..n : j # 1 => s[j].for # "quit"
    BY <1>1, <1>3 DEF Once
  <2>2. \A k \in 1..(n - 1) : k + 1 \in 1..n /\ k + 1 # 1
    BY <1>1
  <2> QED
    BY <1>1, <2>1, <2>2 DEF Silent
<1>4. ASSUME Twice(s) PROVE Once(t)
  <2>0. PICK h, l \in 1..n :
            /\ h # l /\ s[h].for = "quit" /\ s[l].for = "quit"
            /\ \A j \in 1..n : j \notin {h, l} => s[j].for # "quit"
    BY <1>1, <1>4 DEF Twice
  <2>a. 1 \in {h, l}
    BY <1>1, <2>0
  <2>1. PICK k \in 1..n : k # 1 /\ s[k].for = "quit"
                           /\ \A j \in 1..n : j \notin {1, k} => s[j].for # "quit"
    <3>1. CASE h = 1
        BY <2>0, <3>1
    <3>2. CASE l = 1
        BY <2>0, <3>2
    <3> QED
        BY <2>a, <3>1, <3>2
  <2>2. k - 1 \in 1..(n - 1) /\ t[k - 1] = s[k]
    BY <1>1, <2>1
  <2>3. ASSUME NEW j \in 1..(n - 1), j # k - 1
        PROVE  t[j].for # "quit"
    <3>1. j + 1 \in 1..n /\ j + 1 \notin {1, k}
        BY <1>1, <2>1, <2>3
    <3> QED
        BY <1>1, <2>1, <3>1
  <2> QED
    BY <1>1, <2>1, <2>2, <2>3 DEF Once
<1> QED
    BY <1>2, <1>3, <1>4 DEF t

LEMMA TailOther ==
    ASSUME NEW S, NEW s \in Seq(S), s # <<>>, Head(s).for # "quit"
    PROVE  /\ Silent(s) => Silent(Tail(s))
           /\ Once(s) => Once(Tail(s))
           /\ Twice(s) => Twice(Tail(s))
<1> DEFINE n == Len(s)
           t == Tail(s)
<1>1. /\ n \in Nat \ {0} /\ DOMAIN s = 1..n /\ DOMAIN t = 1..(n - 1)
      /\ \A k \in 1..(n - 1) : t[k] = s[k + 1]
      /\ s[1].for # "quit"
    BY TailFacts
<1> HIDE DEF n, t
<1>2. ASSUME Silent(s) PROVE Silent(t)
  <2>1. \A k \in 1..(n - 1) : k + 1 \in 1..n
    BY <1>1
  <2> QED
    BY <1>1, <1>2, <2>1 DEF Silent
<1>3. \A j \in 1..(n - 1) : j + 1 \in 1..n /\ t[j] = s[j + 1]
    BY <1>1
<1>4. ASSUME Once(s) PROVE Once(t)
  <2>1. PICK k \in 1..n :
            s[k].for = "quit" /\ \A j \in 1..n : j # k => s[j].for # "quit"
    BY <1>1, <1>4 DEF Once
  <2>2. k - 1 \in 1..(n - 1) /\ t[k - 1] = s[k]
    BY <1>1, <2>1
  <2>3. \A j \in 1..(n - 1) : j # k - 1 => j + 1 # k
    BY <1>1, <2>1
  <2> QED
    BY <1>1, <1>3, <2>1, <2>2, <2>3 DEF Once
<1>5. ASSUME Twice(s) PROVE Twice(t)
  <2>1. PICK k, l \in 1..n :
            /\ k # l /\ s[k].for = "quit" /\ s[l].for = "quit"
            /\ \A j \in 1..n : j \notin {k, l} => s[j].for # "quit"
    BY <1>1, <1>5 DEF Twice
  <2>2. /\ k - 1 \in 1..(n - 1) /\ t[k - 1] = s[k]
        /\ l - 1 \in 1..(n - 1) /\ t[l - 1] = s[l]
        /\ k - 1 # l - 1
    BY <1>1, <2>1
  <2>3. \A j \in 1..(n - 1) : j \notin {k - 1, l - 1} => j + 1 \notin {k, l}
    BY <1>1, <2>1
  <2>4. \A j \in 1..(n - 1) : j \notin {k - 1, l - 1} => t[j].for # "quit"
    BY <1>3, <2>1, <2>3
  <2>5. t[k - 1].for = "quit" /\ t[l - 1].for = "quit"
    BY <2>1, <2>2
  <2> QED
    BY <1>1, <2>2, <2>4, <2>5 DEF Twice
<1> QED
    BY <1>2, <1>4, <1>5 DEF t

-----------------------------------------------------------------------------
(* The steps. *)

(* What the user does leaves AxsCmd_Quit and the target alone.             *)
LEMMA UserStep ==
    ASSUME QuitInv, SeqInv,
           UNCHANGED <<quit, lines, target, cpu>>,
           phase = "ready" => phase' = "ready"
    PROVE  QuitInv' /\ SeqInv'
<1>1. IdleInv'
    BY DEF QuitInv, IdleInv
<1>2. Empty' = Empty
    BY DEF Empty
<1>3. QuitType' /\ SeqInv'
    BY DEF QuitInv, QuitType, SeqInv
<1>4. EnumInv' /\ StopInv' /\ RunInv' /\ DeleteInv' /\ DoneInv' /\ OverInv'
    BY <1>2 DEF QuitInv, EnumInv, StopInv, RunInv, DeleteInv, DoneInv, OverInv,
                Quiet, Asked, Told, RunsFrom
<1> QED
    BY <1>1, <1>3, <1>4 DEF QuitInv

(* Steps with no AxsCmd_Quit running.                                      *)
LEMMA IdleStep ==
    ASSUME QuitInv, quit = Idle, quit' = quit,
           SeqInv', Silent(lines)'
    PROVE  QuitInv'
<1>1. quit.at = "idle" /\ quit'.at = "idle"
    BY DEF Idle
<1>2. QuitType' /\ IdleInv'
    BY <1>1 DEF QuitInv, QuitType, QuitRecord, IdleInv, Idle
<1>3. EnumInv' /\ StopInv' /\ RunInv' /\ DeleteInv' /\ DoneInv' /\ OverInv'
    BY <1>1 DEF EnumInv, StopInv, RunInv, DeleteInv, DoneInv, OverInv
<1> QED
    BY <1>2, <1>3 DEF QuitInv

LEMMA IdleSilent ==
    ASSUME QuitInv, quit = Idle
    PROVE  Silent(lines) /\ quit.at = "idle"
BY DEF QuitInv, IdleInv, Idle

LEMMA TakeNewStep ==
    ASSUME QuitInv, SeqInv, TakeNew
    PROVE  QuitInv' /\ SeqInv'
<1>1. PICK S : lines \in Seq(S)
    BY DEF SeqInv
<1>2. PICK x : x.for = "new" /\ lines' = Append(lines, x)
    BY DEF TakeNew, Says
<1>3. SeqInv'
    BY <1>1, <1>2, AppendFacts DEF SeqInv
<1>4. quit = Idle /\ quit' = quit
    BY DEF TakeNew
<1>5. Silent(lines')
    BY <1>1, <1>2, <1>4, AppendOther, IdleSilent
<1> QED
    BY <1>3, <1>4, <1>5, IdleStep

LEMMA TakeDeleteStep ==
    ASSUME QuitInv, SeqInv, TakeDelete
    PROVE  QuitInv' /\ SeqInv'
<1>1. quit = Idle /\ quit' = quit /\ lines' = lines
    BY DEF TakeDelete
<1>2. SeqInv' /\ Silent(lines)'
    BY <1>1, IdleSilent DEF SeqInv, Silent
<1> QED
    BY <1>1, <1>2, IdleStep

LEMMA StopDriverStep ==
    ASSUME QuitInv, StopDriver
    PROVE  QuitInv' /\ SeqInv'
<1>1. quit' = Idle /\ lines' = <<>>
    BY DEF StopDriver
<1>2. lines' \in Seq({}) /\ DOMAIN lines' = {}
    BY <1>1
<1>3. Idle \in [at : Stage, sent : Seq(Requests), due : Nat, cur : BOOLEAN]
    BY DEF Idle, Stage
<1>4. quit'.at = "idle"
    BY <1>1 DEF Idle
<1>5. SeqInv' /\ QuitType' /\ IdleInv'
    BY <1>1, <1>2, <1>3, <1>4 DEF SeqInv, QuitType, QuitRecord, IdleInv, Silent
<1>6. EnumInv' /\ StopInv' /\ RunInv' /\ DeleteInv' /\ DoneInv' /\ OverInv'
    BY <1>4 DEF EnumInv, StopInv, RunInv, DeleteInv, DoneInv, OverInv
<1> QED
    BY <1>5, <1>6 DEF QuitInv

(* ApplyBreakpoints runs before any AxsCmd_Quit.                           *)
LEMMA ConnectedStep ==
    ASSUME QuitInv, SeqInv, NEW e \in BOOLEAN, Connected(e)
    PROVE  QuitInv' /\ SeqInv'
<1>1. quit' = quit /\ lines' = lines /\ phase = "starting"
    BY DEF Connected
<1>2. quit = Idle
    BY <1>1 DEF QuitInv, IdleInv
<1>3. SeqInv' /\ Silent(lines)'
    BY <1>1, <1>2, IdleSilent DEF SeqInv, Silent
<1> QED
    BY <1>1, <1>2, <1>3, IdleStep

LEMMA BeginQuitStep ==
    ASSUME QuitInv, SeqInv, BeginQuit
    PROVE  QuitInv' /\ SeqInv'
<1>1. /\ quit = Idle /\ lines' = lines /\ phase = "ready" /\ phase' = phase
      /\ quit' = [at |-> "enumbkp", sent |-> <<"breakpoint">>, due |-> 1, cur |-> FALSE]
      /\ \A k \in DOMAIN lines : lines[k].for # "new"
    BY DEF BeginQuit, peerVars
<1>2. Silent(lines)' /\ SeqInv'
    BY <1>1, IdleSilent DEF SeqInv, Silent
<1>3. <<"breakpoint">> \in Seq(Requests)
    BY DEF Requests
<1>4. QuitType' /\ IdleInv'
    BY <1>1, <1>3 DEF QuitType, QuitRecord, IdleInv, Stage
<1>5. EnumInv'
    BY <1>1, <1>2 DEF EnumInv, Asked
<1>6. StopInv' /\ RunInv' /\ DeleteInv' /\ DoneInv' /\ OverInv'
    BY <1>1 DEF StopInv, RunInv, DeleteInv, DoneInv, OverInv
<1> QED
    BY <1>2, <1>4, <1>5, <1>6 DEF QuitInv

(* A status line that nobody asked for is true of the CPU when it is       *)
(* written.  A program that runs on a target without breakpoints goes on.  *)
LEMMA StatusStep ==
    ASSUME QuitInv, SeqInv, NEW s,
           lines' = Append(lines, [for |-> "status", status |-> s]),
           UNCHANGED <<quit, target, phase>>,
           s = "run" => cpu' = "run",
           cpu = "run" /\ Empty => cpu' = "run"
    PROVE  QuitInv' /\ SeqInv'
<1> DEFINE x == [for |-> "status", status |-> s]
<1>1. PICK S : lines \in Seq(S)
    BY DEF SeqInv
<1>2. /\ DOMAIN lines' = DOMAIN lines \cup {Len(lines) + 1}
      /\ \A k \in DOMAIN lines : lines'[k] = lines[k]
      /\ lines'[Len(lines) + 1] = x
      /\ lines' \in Seq(S \cup {x})
    BY <1>1, AppendFacts
<1>3. SeqInv'
    BY <1>2 DEF SeqInv
<1>4. Empty' = Empty
    BY DEF Empty
<1>5. /\ Silent(lines) => Silent(lines')
      /\ Once(lines) => Once(lines')
    BY <1>1, AppendOther
<1>6. IdleInv' /\ QuitType'
    BY <1>2, <1>5 DEF QuitInv, IdleInv, QuitType
<1>7. \A k : Empty /\ RunsFrom(k) => RunsFrom(k)'
    BY <1>2 DEF RunsFrom
<1>8. ASSUME quit.at = "enumbkp", ~Asked("breakpoint")
      PROVE  /\ Told'
             /\ \A k \in DOMAIN lines' : lines'[k].for = "quit" /\ ~lines'[k].some =>
                    Empty' /\ RunsFrom(k)'
  <2>1. Told /\ \A k \in DOMAIN lines : lines[k].for = "quit" /\ ~lines[k].some =>
                    Empty /\ RunsFrom(k)
    BY <1>8 DEF QuitInv, EnumInv
  <2>2. Told'
    BY <2>1, <1>5 DEF Told
  <2> QED
    BY <2>1, <2>2, <1>2, <1>4, <1>7
<1>9. EnumInv'
    BY <1>5, <1>8 DEF QuitInv, EnumInv, Asked
<1>10. StopInv'
    BY <1>5 DEF QuitInv, StopInv, Quiet, Asked, Told
<1>11. RunInv' /\ DeleteInv'
  <2>1. /\ quit' = quit
        /\ Quiet => Quiet'
        /\ \A r : Asked(r) => Asked(r)'
        /\ Told => Told'
        /\ Twice(lines) => Twice(lines')
    BY <1>1, <1>5, AppendOther DEF Quiet, Asked, Told
  <2>2. RunInv'
    <3> SUFFICES ASSUME quit.at = "waitnonbusy" PROVE RunInv'
        BY <2>1 DEF RunInv
    <3>1. Empty' /\ RunsFrom(1)' /\ (cpu = "run" => cpu' = "run")
        BY <1>4, <1>7 DEF QuitInv, RunInv
    <3> QED
        BY <2>1, <3>1 DEF QuitInv, RunInv
  <2>3. DeleteInv'
    <3> SUFFICES ASSUME quit.at = "waitrun" PROVE DeleteInv'
        BY <2>1 DEF DeleteInv
    <3>1. CASE Silent(lines) /\ quit.due = 2 /\ quit.sent = <<"delete", "run">>
        BY <1>5, <2>1, <3>1 DEF DeleteInv
    <3>2. CASE Empty
      <4>1. Empty' /\ (cpu = "run" => cpu' = "run")
        BY <1>4, <3>2
      <4> QED
        BY <1>5, <2>1, <3>2, <4>1 DEF QuitInv, DeleteInv
    <3> QED
        BY <3>1, <3>2 DEF QuitInv, DeleteInv
  <2> QED
    BY <2>2, <2>3
<1>12. DoneInv' /\ OverInv'
    BY <1>4, <1>5 DEF QuitInv, DoneInv, OverInv, Asked, Told, Quiet
<1> QED
    BY <1>3, <1>6, <1>9, <1>10, <1>11, <1>12 DEF QuitInv

LEMMA HitStep ==
    ASSUME QuitInv, SeqInv, Hit
    PROVE  QuitInv' /\ SeqInv'
BY StatusStep DEF Hit, Says, Empty

LEMMA SettleStep ==
    ASSUME QuitInv, SeqInv, Settle
    PROVE  QuitInv' /\ SeqInv'
BY StatusStep DEF Settle, Says

LEMMA RepeatStep ==
    ASSUME QuitInv, SeqInv, Repeat
    PROVE  QuitInv' /\ SeqInv'
BY StatusStep DEF Repeat, Says

(* The debugger carries out one request of AxsCmd_Quit.                    *)
LEMMA TakeQuitStep ==
    ASSUME QuitInv, SeqInv, TakeQuit
    PROVE  QuitInv' /\ SeqInv'
<1> DEFINE r == Head(quit.sent)
<1>1. PICK S : lines \in Seq(S)
    BY DEF SeqInv
<1>2. PICK x : /\ lines' = Append(lines, x) /\ x.for = "quit" /\ x.status = cpu'
               /\ r = "breakpoint" /\ ~x.some => \A i \in Index : target[i] = NoBp
  <2>1. PICK some \in BOOLEAN :
            /\ r = "breakpoint" /\ ~some => \A i \in Index : target[i] = NoBp
            /\ lines' = Append(lines, [for |-> "quit", some |-> some, status |-> cpu'])
    BY DEF TakeQuit, Says
  <2> QED
    BY <2>1
<1>3. /\ quit' = [quit EXCEPT !.sent = Tail(quit.sent)]
      /\ quit.sent # <<>> /\ phase' = phase
      /\ target' = IF r = "delete" THEN [i \in Index |-> NoBp] ELSE target
    BY DEF TakeQuit
<1>4. /\ r = "run" => cpu' = "run"
      /\ r \notin {"stop", "run"} => cpu' = cpu
    BY DEF TakeQuit
<1>5. quit \in QuitRecord
    BY DEF QuitInv, QuitType
<1>6. /\ quit' \in QuitRecord /\ quit'.at = quit.at /\ quit'.due = quit.due
      /\ quit'.cur = quit.cur /\ quit'.sent = Tail(quit.sent)
  <2>1. Tail(quit.sent) \in Seq(Requests)
    BY <1>3, <1>5 DEF QuitRecord
  <2> QED
    BY <1>3, <1>5, <2>1 DEF QuitRecord
<1>7. quit.at # "idle" /\ phase = "ready" /\ \A k \in DOMAIN lines : lines[k].for # "new"
    BY <1>3 DEF QuitInv, IdleInv, Idle
<1>8. /\ DOMAIN lines' = DOMAIN lines \cup {Len(lines) + 1}
      /\ \A k \in DOMAIN lines : lines'[k] = lines[k]
      /\ lines'[Len(lines) + 1] = x
      /\ lines' \in Seq(S \cup {x})
    BY <1>1, <1>2, AppendFacts
<1>9. SeqInv' /\ IdleInv'
    BY <1>2, <1>3, <1>6, <1>7, <1>8 DEF SeqInv, IdleInv
<1>10. /\ Silent(lines) => Once(lines')
       /\ Once(lines) => Twice(lines')
    BY <1>1, <1>2, AppendAnswer
<1>11. /\ r = "delete" => Empty'
       /\ Empty => Empty'
       /\ r # "delete" => (Empty' <=> Empty)
    BY <1>3 DEF Empty
<1>12. \A q : quit.sent = <<q>> => r = q /\ quit'.sent = <<>>
    BY <1>6
<1>13. \A q : Asked(q) => r = q /\ Told'
    BY <1>6, <1>10, <1>12 DEF Asked, Told
<1>14. ~Quiet /\ ~Told
    BY <1>3 DEF Quiet, Told
<1>15. EnumInv'
  <2> SUFFICES ASSUME quit.at = "enumbkp" PROVE EnumInv'
    BY <1>6 DEF EnumInv
  <2>1. Asked("breakpoint") /\ ~quit.cur
    BY <1>14 DEF QuitInv, EnumInv
  <2>2. Told' /\ r = "breakpoint"
    BY <2>1, <1>13
  <2>3. \A k \in DOMAIN lines : lines[k].for # "quit"
    BY <2>1 DEF Asked, Silent
  <2>4. cpu' = cpu /\ (Empty' <=> Empty) /\ (~x.some => Empty)
    BY <1>2, <1>4, <1>11, <2>2 DEF Empty
  <2>n. PICK n : n = Len(lines) + 1
    OBVIOUS
  <2>5. RunsFrom(n)'
    <3>1. \A j \in DOMAIN lines : ~(j >= n)
        BY <1>1, <2>n
    <3> QED
        BY <1>2, <1>8, <2>n, <3>1 DEF RunsFrom
  <2>6. \A k \in DOMAIN lines' : lines'[k].for = "quit" /\ ~lines'[k].some =>
            Empty' /\ RunsFrom(k)'
    <3>1. \A k \in DOMAIN lines' : lines'[k].for = "quit" => k = n
        BY <1>8, <2>n, <2>3
    <3> QED
        BY <1>8, <2>n, <2>4, <2>5, <3>1
  <2> QED
    BY <1>6, <2>1, <2>2, <2>6 DEF EnumInv
<1>16. StopInv'
    BY <1>6, <1>13, <1>14 DEF QuitInv, StopInv
<1>17. RunInv'
    BY <1>4, <1>6, <1>11, <1>13, <1>14 DEF QuitInv, RunInv, RunsFrom
<1>18. DeleteInv'
  <2> SUFFICES ASSUME quit.at = "waitrun" PROVE DeleteInv'
    BY <1>6 DEF DeleteInv
  <2>1. CASE quit.due = 2 /\ quit.sent = <<"delete", "run">> /\ Silent(lines)
    <3>1. r = "delete" /\ quit'.sent = <<"run">>
        BY <2>1, <1>6
    <3> QED
        BY <2>1, <3>1, <1>6, <1>10, <1>11 DEF DeleteInv
  <2>2. CASE Empty /\ quit.due = 2 /\ quit.sent = <<"run">> /\ Once(lines)
    BY <2>2, <1>4, <1>6, <1>10, <1>11, <1>12 DEF DeleteInv
  <2>3. CASE Empty /\ Asked("run")
    BY <2>3, <1>4, <1>11, <1>13 DEF DeleteInv
  <2> QED
    BY <2>1, <2>2, <2>3, <1>3, <1>14 DEF QuitInv, DeleteInv
<1>19. DoneInv' /\ OverInv'
    BY <1>4, <1>6, <1>11, <1>13, <1>14 DEF QuitInv, DoneInv, OverInv
<1> QED
    BY <1>6, <1>9, <1>15, <1>16, <1>17, <1>18, <1>19 DEF QuitInv, QuitType

LEMMA SendFacts ==
    ASSUME NEW q \in QuitRecord, q.sent = <<>>, q.due = 0, NEW a \in Stage,
           NEW w \in Seq(Requests)
    PROVE  /\ Sends(q, a, w) \in QuitRecord
           /\ Sends(q, a, w).at = a /\ Sends(q, a, w).sent = w
           /\ Sends(q, a, w).due = Len(w) /\ Sends(q, a, w).cur = q.cur
<1> DEFINE n == Len(w)
<1>1. <<>> \o w = w /\ n \in Nat /\ 0 + n = n
    OBVIOUS
<1> DEFINE S == Seq(Requests)
           R == [at : Stage, sent : S, due : Nat, cur : BOOLEAN]
           q1 == [q EXCEPT !.at = a]
           q2 == [q1 EXCEPT !.sent = w]
           q3 == [q2 EXCEPT !.due = n]
<1>2. Sends(q, a, w) = q3
    BY <1>1 DEF Sends
<1>3. w \in S /\ q \in R
    BY DEF QuitRecord
<1> HIDE DEF S, n
<1>4. q1 \in R /\ q1.at = a /\ q1.cur = q.cur
    BY <1>3
<1> HIDE DEF q1
<1>5. q2 \in R /\ q2.at = a /\ q2.cur = q.cur /\ q2.sent = w
    BY <1>3, <1>4
<1> HIDE DEF q2
<1>6. q3 \in R /\ q3.at = a /\ q3.cur = q.cur /\ q3.sent = w /\ q3.due = n
    BY <1>1, <1>5
<1> HIDE DEF q3
<1> QED
    BY <1>2, <1>6 DEF QuitRecord, S, n

(* StateMachine takes an AxsCmd_Quit whose requests are all answered from  *)
(* q to r, the CPU being in state s.                                       *)
Goes(q, s, r) ==
    /\ r \in QuitRecord
    /\ q.at = "waitnonbusybkp" =>
         \/ r.at = "waitrun" /\ r.due = 2 /\ r.sent = <<"delete", "run">>
         \/ r.at = q.at /\ r.due = 1 /\ r.sent = <<"stop">>
         \/ r = q
    /\ q.at = "waitnonbusy" =>
         \/ r.at = q.at /\ r.due = 1 /\ r.sent = <<"run">>
         \/ s = "run" /\ r.at = "done" /\ r.due = 1 /\ r.sent = <<"quit">>
         \/ r = q
    /\ q.at = "waitrun" =>
         \/ s = "run" /\ r.at = "done" /\ r.due = 1 /\ r.sent = <<"quit">>
         \/ r = q
    /\ q.at = "done" => r = [q EXCEPT !.at = "over", !.due = 0, !.cur = FALSE]

LEMMA MachineFacts ==
    ASSUME NEW q \in QuitRecord, q.sent = <<>>, q.due = 0, NEW s,
           NEW r, r = StateMachine(q, s)
    PROVE  Goes(q, s, r)
<1> DEFINE D == <<"delete", "run">>
           T == <<"stop">>
           R == <<"run">>
           Q == <<"quit">>
<1>1. /\ D \in Seq(Requests) /\ Len(D) = 2
      /\ T \in Seq(Requests) /\ Len(T) = 1
      /\ R \in Seq(Requests) /\ Len(R) = 1
      /\ Q \in Seq(Requests) /\ Len(Q) = 1
    BY DEF Requests
<1>a. "waitrun" \in Stage /\ "done" \in Stage /\ q.at \in Stage
    BY DEF QuitRecord, Stage
<1> DEFINE d == Sends(q, "waitrun", D)
           t == Sends(q, q.at, T)
           g == Sends(q, q.at, R)
           o == Sends(q, "done", Q)
<1> HIDE DEF D, T, R, Q
<1>b. \A a \in Stage, w \in Seq(Requests) :
        /\ Sends(q, a, w) \in QuitRecord
        /\ Sends(q, a, w).at = a /\ Sends(q, a, w).sent = w
        /\ Sends(q, a, w).due = Len(w)
    BY SendFacts
<1>c. d \in QuitRecord /\ d.at = "waitrun" /\ d.due = Len(D) /\ d.sent = D
    BY <1>1, <1>a, <1>b, Zenon
<1>d. t \in QuitRecord /\ t.at = q.at /\ t.due = Len(T) /\ t.sent = T
    BY <1>1, <1>a, <1>b, Zenon
<1>e. g \in QuitRecord /\ g.at = q.at /\ g.due = Len(R) /\ g.sent = R
    BY <1>1, <1>a, <1>b, Zenon
<1>f. o \in QuitRecord /\ o.at = "done" /\ o.due = Len(Q) /\ o.sent = Q
    BY <1>1, <1>a, <1>b, Zenon
<1>2. CASE q.at = "waitnonbusybkp"
  <2>1. r = IF s = "halt" THEN d ELSE IF s = "run" THEN t ELSE q
    BY <1>2 DEF StateMachine, D, T
  <2> HIDE DEF d, t
  <2> QED
    BY <1>1, <1>2, <1>c, <1>d, <2>1 DEF D, T, Goes
<1>3. CASE q.at = "waitnonbusy"
  <2>1. r = IF s = "halt" THEN g ELSE IF s = "run" THEN o ELSE q
    BY <1>3 DEF StateMachine, R, Q
  <2> HIDE DEF g, o
  <2> QED
    BY <1>1, <1>3, <1>e, <1>f, <2>1 DEF R, Q, Goes
<1>4. CASE q.at = "waitrun"
  <2>1. r = IF s = "run" THEN o ELSE q
    BY <1>4 DEF StateMachine, Q
  <2> HIDE DEF o
  <2> QED
    BY <1>1, <1>4, <1>f, <2>1 DEF Q, Goes
<1>5. CASE q.at = "done"
  <2>1. r = [q EXCEPT !.at = "over", !.due = 0, !.cur = FALSE]
    BY <1>5 DEF StateMachine
  <2> QED
    BY <1>5, <2>1 DEF QuitRecord, Stage, Goes
<1>6. CASE q.at \notin {"waitnonbusybkp", "waitnonbusy", "waitrun", "done"}
  <2>1. r = q
    BY <1>6 DEF StateMachine
  <2> QED
    BY <1>6, <2>1 DEF Goes
<1> QED
    BY <1>2, <1>3, <1>4, <1>5, <1>6

(* What is common to the delivery of any line.                             *)
LEMMA DeliverFacts ==
    ASSUME QuitInv, SeqInv, Deliver
    PROVE  /\ lines # <<>> /\ lines' = Tail(lines) /\ SeqInv'
           /\ UNCHANGED <<phase, target, cpu>> /\ Empty' = Empty
           /\ Head(lines) = lines[1] /\ 1 \in DOMAIN lines
           /\ \A k \in DOMAIN lines' :
                /\ k + 1 \in DOMAIN lines /\ lines'[k] = lines[k + 1]
                /\ RunsFrom(k + 1) => RunsFrom(k)'
           /\ RunsFrom(1) => RunsFrom(1)' /\ (lines[1].status = "run" => cpu = "run")
<1>1. lines # <<>> /\ lines' = Tail(lines) /\ UNCHANGED <<phase, target, cpu>>
    BY DEF Deliver
<1>2. PICK S : lines \in Seq(S)
    BY DEF SeqInv
<1>3. PICK n \in Nat : DOMAIN lines = 1..n /\ DOMAIN lines' = 1..(n - 1)
    BY <1>1, <1>2, TailFacts
<1>4. /\ lines' \in Seq(S) /\ Head(lines) = lines[1] /\ 1 \in DOMAIN lines
      /\ \A k \in DOMAIN lines' : k + 1 \in DOMAIN lines /\ lines'[k] = lines[k + 1]
    BY <1>1, <1>2, <1>3, TailFacts
<1>5. \A k \in DOMAIN lines' : RunsFrom(k + 1) => RunsFrom(k)'
    BY <1>1, <1>3, <1>4 DEF RunsFrom
<1>6. RunsFrom(1) => RunsFrom(1)' /\ (lines[1].status = "run" => cpu = "run")
    BY <1>1, <1>3, <1>4 DEF RunsFrom
<1>7. SeqInv'
    BY <1>4 DEF SeqInv
<1> QED
    BY <1>1, <1>4, <1>5, <1>6, <1>7 DEF Empty

(* A line that is not for AxsCmd_Quit: StateChange takes it on when no     *)
(* answer is due.                                                          *)
LEMMA DeliverOther ==
    ASSUME QuitInv, SeqInv, Deliver, Head(lines).for # "quit"
    PROVE  QuitInv' /\ SeqInv'
<1> DEFINE l == Head(lines)
<1>1. /\ lines # <<>> /\ lines' = Tail(lines) /\ SeqInv'
      /\ UNCHANGED <<phase, target, cpu>> /\ Empty' = Empty
      /\ l = lines[1] /\ 1 \in DOMAIN lines
      /\ \A k \in DOMAIN lines' :
            /\ k + 1 \in DOMAIN lines /\ lines'[k] = lines[k + 1]
            /\ RunsFrom(k + 1) => RunsFrom(k)'
      /\ RunsFrom(1) => RunsFrom(1)' /\ (l.status = "run" => cpu = "run")
    BY DeliverFacts
<1>2. quit' = StateChange(quit, l.status)
    BY DEF Deliver
<1>3. PICK S : lines \in Seq(S)
    BY DEF SeqInv
<1>4. /\ Silent(lines) => Silent(lines')
      /\ Once(lines) => Once(lines')
      /\ Twice(lines) => Twice(lines')
    BY <1>1, <1>3, TailOther
<1>5. quit \in QuitRecord
    BY DEF QuitInv, QuitType
<1>6. CASE quit' = quit
  <2>1. IdleInv' /\ QuitType'
    BY <1>1, <1>4, <1>6 DEF QuitInv, IdleInv, QuitType
  <2>2. EnumInv'
    BY <1>1, <1>4, <1>6 DEF QuitInv, EnumInv, Asked, Told
  <2>3. StopInv' /\ RunInv' /\ DoneInv' /\ OverInv'
    BY <1>1, <1>4, <1>6 DEF QuitInv, StopInv, RunInv, DoneInv, OverInv, Quiet, Asked, Told
  <2>4. DeleteInv'
    BY <1>1, <1>4, <1>6 DEF QuitInv, DeleteInv, Quiet, Asked, Told
  <2> QED
    BY <1>1, <2>1, <2>2, <2>3, <2>4 DEF QuitInv
<1>7. CASE quit' # quit
  <2>1. quit.cur /\ quit.due = 0 /\ quit' = StateMachine(quit, l.status)
    BY <1>2, <1>7 DEF StateChange, IsLast
  <2>2. quit.at \notin {"idle", "enumbkp", "over", "done"}
    BY <2>1 DEF QuitInv, IdleInv, Idle, EnumInv, OverInv, DoneInv, Asked, Told
  <2>3. phase = "ready" /\ \A k \in DOMAIN lines : lines[k].for # "new"
    BY <2>2 DEF QuitInv, IdleInv
  <2>4. Quiet
    BY <1>5, <2>1, <2>2 DEF QuitInv, StopInv, RunInv, DeleteInv, Asked, Told,
                             QuitRecord, Stage
  <2>5. Silent(lines') /\ quit.at \in {"waitnonbusybkp", "waitnonbusy", "waitrun"}
    BY <1>4, <1>5, <2>2, <2>4 DEF Quiet, QuitRecord, Stage
  <2>6. Goes(quit, l.status, quit')
    <3> DEFINE z == l.status
    <3>1. quit' = StateMachine(quit, z) /\ quit.sent = <<>> /\ quit.due = 0
        BY <2>1, <2>4 DEF Quiet
    <3> HIDE DEF z
    <3>2. \A r : r = StateMachine(quit, z) => Goes(quit, z, r)
        BY <1>5, <3>1, MachineFacts
    <3> QED
        BY <3>1, <3>2 DEF z
  <2>7. QuitType'
    BY <2>6 DEF Goes, QuitType
  <2>8. CASE quit.at = "waitnonbusybkp"
    <3>1. EnumInv' /\ RunInv' /\ DoneInv' /\ OverInv' /\ IdleInv'
        BY <1>1, <2>3, <2>6, <2>8, <1>7 DEF Goes, EnumInv, RunInv, DoneInv, OverInv, IdleInv
    <3>2. StopInv' /\ DeleteInv'
        BY <1>7, <2>5, <2>6, <2>8 DEF Goes, StopInv, DeleteInv, Asked
    <3> QED
        BY <1>1, <2>7, <3>1, <3>2 DEF QuitInv
  <2>9. CASE quit.at = "waitnonbusy"
    <3>1. Empty /\ RunsFrom(1)' /\ (l.status = "run" => cpu = "run")
        BY <1>1, <2>9 DEF QuitInv, RunInv
    <3>2. EnumInv' /\ StopInv' /\ DeleteInv' /\ OverInv' /\ IdleInv'
        BY <1>1, <2>3, <2>6, <2>9, <1>7 DEF Goes, EnumInv, StopInv, DeleteInv, OverInv, IdleInv
    <3>3. RunInv' /\ DoneInv'
        BY <1>1, <1>7, <2>5, <2>6, <2>9, <3>1 DEF Goes, RunInv, DoneInv, Asked
    <3> QED
        BY <1>1, <2>7, <3>2, <3>3 DEF QuitInv
  <2>10. CASE quit.at = "waitrun"
    <3>1. Empty /\ cpu = "run"
        BY <2>4, <2>10 DEF QuitInv, DeleteInv, Quiet, Asked
    <3>2. EnumInv' /\ StopInv' /\ RunInv' /\ DeleteInv' /\ OverInv' /\ IdleInv'
        BY <1>1, <1>7, <2>3, <2>6, <2>10 DEF Goes, EnumInv, StopInv, RunInv, DeleteInv,
                                              OverInv, IdleInv
    <3>3. DoneInv'
        BY <1>1, <1>7, <2>5, <2>6, <2>10, <3>1 DEF Goes, DoneInv, Asked
    <3> QED
        BY <1>1, <2>7, <3>2, <3>3 DEF QuitInv
  <2> QED
    BY <2>5, <2>8, <2>9, <2>10
<1> QED
    BY <1>6, <1>7

(* The answer to a request of AxsCmd_Quit; the last one due makes the      *)
(* state machine go on.                                                    *)
LEMMA DeliverAnswer ==
    ASSUME QuitInv, SeqInv, Deliver, Head(lines).for = "quit"
    PROVE  QuitInv' /\ SeqInv'
<1> DEFINE l == Head(lines)
           told == [quit EXCEPT !.due = quit.due - 1, !.cur = TRUE]
<1>1. /\ lines # <<>> /\ lines' = Tail(lines) /\ SeqInv'
      /\ UNCHANGED <<phase, target, cpu>> /\ Empty' = Empty
      /\ l = lines[1] /\ 1 \in DOMAIN lines
      /\ \A k \in DOMAIN lines' :
            /\ k + 1 \in DOMAIN lines /\ lines'[k] = lines[k + 1]
            /\ RunsFrom(k + 1) => RunsFrom(k)'
      /\ RunsFrom(1) => RunsFrom(1)' /\ (l.status = "run" => cpu = "run")
    BY DeliverFacts
<1>2. PICK S : lines \in Seq(S)
    BY DEF SeqInv
<1>3. /\ ~Silent(lines)
      /\ Once(lines) => Silent(lines')
      /\ Twice(lines) => Once(lines')
    BY <1>1, <1>2, TailAnswer
<1>4. quit \in QuitRecord
    BY DEF QuitInv, QuitType
<1>5. /\ ~Quiet /\ \A r : ~Asked(r)
      /\ ~(quit.due = 2 /\ quit.sent = <<"delete", "run">> /\ Silent(lines))
    BY <1>3 DEF Quiet, Asked
<1>6. quit.at \in {"enumbkp", "waitnonbusybkp", "waitnonbusy", "waitrun", "done"}
    BY <1>3, <1>4, <1>5 DEF QuitInv, IdleInv, OverInv, QuitRecord, Stage
<1>7. phase = "ready" /\ \A k \in DOMAIN lines : lines[k].for # "new"
    BY <1>6 DEF QuitInv, IdleInv
<1>8. quit.due \in {1, 2} /\ (quit.due = 2 => quit.at = "waitrun")
    BY <1>5, <1>6 DEF QuitInv, EnumInv, StopInv, RunInv, DeleteInv, DoneInv, Told
<1>9. quit' = ParseOutput(quit, l)
  <2>1. StateChange(quit, l.status) = quit
    BY <1>8 DEF StateChange, IsLast
  <2> QED
    BY <2>1 DEF Deliver
<1>10. /\ told \in QuitRecord /\ told.at = quit.at /\ told.sent = quit.sent
       /\ told.due = quit.due - 1 /\ told.cur
  <2>1. quit.due - 1 \in Nat
    BY <1>8
  <2> QED
    BY <1>4, <2>1 DEF QuitRecord
<1> HIDE DEF told
<1>11. CASE quit.due = 2
  <2>1. quit' = told
    BY <1>9, <1>10, <1>11 DEF ParseOutput, IsLast, told
  <2>2. /\ Empty /\ quit.at = "waitrun"
        /\ \/ quit.sent = <<"run">> /\ Once(lines)
           \/ cpu = "run" /\ quit.sent = <<>> /\ Twice(lines)
    BY <1>5, <1>8, <1>11 DEF QuitInv, DeleteInv, Told
  <2>3. DeleteInv'
    BY <1>1, <1>3, <1>10, <1>11, <2>1, <2>2 DEF DeleteInv, Asked, Told
  <2>4. quit'.at = "waitrun"
    BY <1>10, <2>1, <2>2
  <2>5. IdleInv' /\ QuitType'
    BY <1>1, <1>7, <1>10, <2>1, <2>4 DEF IdleInv, QuitType
  <2>6. EnumInv' /\ StopInv' /\ RunInv' /\ DoneInv' /\ OverInv'
    BY <2>4 DEF EnumInv, StopInv, RunInv, DoneInv, OverInv
  <2> QED
    BY <1>1, <2>3, <2>5, <2>6 DEF QuitInv
<1>12. CASE quit.due = 1
  <2> DEFINE q == IF quit.at = "enumbkp"
                  THEN [told EXCEPT !.at = Enumerated(l.some)] ELSE told
  <2>1. Told
    BY <1>5, <1>6, <1>12 DEF QuitInv, EnumInv, StopInv, RunInv, DeleteInv, DoneInv
  <2>2. Silent(lines')
    BY <1>3, <2>1 DEF Told
  <2>3. quit' = StateMachine(q, l.status)
    BY <1>9, <1>10, <1>12 DEF ParseOutput, IsLast, told
  <2>4. /\ q \in QuitRecord /\ q.sent = <<>> /\ q.due = 0 /\ q.cur
        /\ q.at = IF quit.at = "enumbkp" THEN Enumerated(l.some) ELSE quit.at
    <3>1. Enumerated(l.some) \in Stage
        BY DEF Enumerated, Stage
    <3>2. told.sent = <<>> /\ told.due = 0
        BY <1>10, <1>12, <2>1 DEF Told
    <3> QED
        BY <1>10, <3>1, <3>2 DEF QuitRecord
  <2> HIDE DEF q
  <2>5. /\ q.at \in {"waitnonbusybkp", "waitnonbusy", "waitrun", "done"}
        /\ q.at = "waitnonbusy" =>
             Empty /\ RunsFrom(1)' /\ (l.status = "run" => cpu = "run")
        /\ q.at \in {"waitrun", "done"} => Empty /\ cpu = "run"
    <3>1. CASE quit.at = "enumbkp"
      <4>1. q.at = Enumerated(l.some)
        BY <2>4, <3>1
      <4>2. ~l.some => Empty /\ RunsFrom(1)' /\ (l.status = "run" => cpu = "run")
        BY <1>1, <1>5, <3>1 DEF QuitInv, EnumInv
      <4> QED
        BY <4>1, <4>2 DEF Enumerated
    <3>2. CASE quit.at # "enumbkp"
      <4>1. q.at = quit.at
        BY <2>4, <3>2
      <4>2. quit.at = "waitnonbusy" => Empty /\ cpu = "run"
        BY <1>5 DEF QuitInv, RunInv
      <4>a. quit.at = "waitnonbusy" => RunsFrom(1)'
        BY <1>1 DEF QuitInv, RunInv
      <4>3. quit.at = "waitrun" => Empty /\ cpu = "run"
        BY <1>5, <1>12 DEF QuitInv, DeleteInv
      <4>4. quit.at = "done" => Empty /\ cpu = "run"
        BY DEF QuitInv, DoneInv
      <4> QED
        BY <1>6, <3>2, <4>1, <4>2, <4>a, <4>3, <4>4
    <3> QED
        BY <3>1, <3>2
  <2>6. Goes(q, l.status, quit')
    <3> DEFINE z == l.status
    <3>1. quit' = StateMachine(q, z) /\ q \in QuitRecord /\ q.sent = <<>> /\ q.due = 0
        BY <2>3, <2>4
    <3> HIDE DEF z
    <3>2. \A r : r = StateMachine(q, z) => Goes(q, z, r)
        BY <3>1, MachineFacts
    <3> QED
        BY <3>1, <3>2 DEF z
  <2>7. CASE q.at = "waitnonbusybkp"
    <3>1. EnumInv' /\ RunInv' /\ DoneInv' /\ OverInv' /\ IdleInv' /\ QuitType'
        BY <1>1, <1>7, <2>6, <2>7 DEF Goes, EnumInv, RunInv, DoneInv, OverInv, IdleInv, QuitType
    <3>2. StopInv' /\ DeleteInv'
        BY <2>2, <2>4, <2>6, <2>7 DEF Goes, StopInv, DeleteInv, Quiet, Asked
    <3> QED
        BY <1>1, <3>1, <3>2 DEF QuitInv
  <2>8. CASE q.at = "waitnonbusy"
    <3>1. EnumInv' /\ StopInv' /\ DeleteInv' /\ OverInv' /\ IdleInv' /\ QuitType'
        BY <1>1, <1>7, <2>6, <2>8 DEF Goes, EnumInv, StopInv, DeleteInv, OverInv, IdleInv, QuitType
    <3>2. RunInv' /\ DoneInv'
        BY <1>1, <2>2, <2>4, <2>5, <2>6, <2>8 DEF Goes, RunInv, DoneInv, Quiet, Asked
    <3> QED
        BY <1>1, <3>1, <3>2 DEF QuitInv
  <2>9. CASE q.at = "waitrun"
    <3>1. EnumInv' /\ StopInv' /\ RunInv' /\ OverInv' /\ IdleInv' /\ QuitType'
        BY <1>1, <1>7, <2>6, <2>9 DEF Goes, EnumInv, StopInv, RunInv, OverInv, IdleInv, QuitType
    <3>2. DeleteInv' /\ DoneInv'
        BY <1>1, <2>2, <2>4, <2>5, <2>6, <2>9 DEF Goes, DeleteInv, DoneInv, Quiet, Asked
    <3> QED
        BY <1>1, <3>1, <3>2 DEF QuitInv
  <2>10. CASE q.at = "done"
    <3>1. quit'.at = "over" /\ quit'.due = 0 /\ ~quit'.cur /\ quit'.sent = <<>>
        BY <2>4, <2>6, <2>10 DEF Goes, QuitRecord
    <3>2. EnumInv' /\ StopInv' /\ RunInv' /\ DeleteInv' /\ DoneInv' /\ IdleInv' /\ QuitType'
        BY <1>1, <1>7, <2>6, <3>1 DEF Goes, EnumInv, StopInv, RunInv, DeleteInv, DoneInv,
                                      IdleInv, QuitType
    <3>3. OverInv'
        BY <1>1, <2>2, <2>5, <2>10, <3>1 DEF OverInv, Quiet
    <3> QED
        BY <1>1, <3>2, <3>3 DEF QuitInv
  <2> QED
    BY <2>5, <2>7, <2>8, <2>9, <2>10
<1> QED
    BY <1>8, <1>11, <1>12

-----------------------------------------------------------------------------

LEMMA QuitInit == Init => QuitInv /\ SeqInv
<1> SUFFICES ASSUME Init PROVE QuitInv /\ SeqInv
    OBVIOUS
<1>1. quit = Idle /\ lines = <<>>
    BY DEF Init
<1>2. lines \in Seq({}) /\ DOMAIN lines = {}
    BY <1>1
<1>3. Idle \in QuitRecord /\ quit.at = "idle"
    BY <1>1 DEF Idle, QuitRecord, Stage
<1>4. SeqInv /\ QuitType /\ IdleInv
    BY <1>1, <1>2, <1>3 DEF SeqInv, QuitType, IdleInv, Silent
<1>5. EnumInv /\ StopInv /\ RunInv /\ DeleteInv /\ DoneInv /\ OverInv
    BY <1>3 DEF EnumInv, StopInv, RunInv, DeleteInv, DoneInv, OverInv
<1> QED
    BY <1>4, <1>5 DEF QuitInv

LEMMA QuitNext == QuitInv /\ SeqInv /\ [Next]_vars => QuitInv' /\ SeqInv'
<1> SUFFICES ASSUME QuitInv, SeqInv, [Next]_vars PROVE QuitInv' /\ SeqInv'
    OBVIOUS
<1>1. ASSUME NEW t \in BOOLEAN, AddBreakpoint(t) PROVE QuitInv' /\ SeqInv'
    BY <1>1, UserStep DEF AddBreakpoint, Called, peerVars
<1>2. ASSUME NEW b \in Bp, DeleteBreakpoint(b) PROVE QuitInv' /\ SeqInv'
    BY <1>2, UserStep DEF DeleteBreakpoint, Called, peerVars
<1>3. ASSUME NEW b \in Bp, ResetBreakpoint(b) PROVE QuitInv' /\ SeqInv'
    BY <1>3, UserStep DEF ResetBreakpoint, Called, peerVars
<1>4. ASSUME NEW b \in Bp, OpenDialog(b) PROVE QuitInv' /\ SeqInv'
    BY <1>4, UserStep DEF OpenDialog, Called, peerVars
<1>5. CASE DeleteAllBreakpoints
    BY <1>5, UserStep DEF DeleteAllBreakpoints, Called, peerVars
<1>6. ASSUME NEW m \in BOOLEAN, DeleteAllProjectBreakpoints(m) PROVE QuitInv' /\ SeqInv'
    BY <1>6, UserStep DEF DeleteAllProjectBreakpoints, Called, peerVars
<1>7. CASE StartDriver
    BY <1>7, UserStep DEF StartDriver, Called, peerVars
<1>8. CASE Stop
    BY <1>8, UserStep DEF Stop, Called, peerVars
<1>9. ASSUME NEW ok \in BOOLEAN, CloseDialog(ok) PROVE QuitInv' /\ SeqInv'
    BY <1>9, UserStep DEF CloseDialog, peerVars
<1>10. ASSUME NEW e \in BOOLEAN, Connected(e) PROVE QuitInv' /\ SeqInv'
    BY <1>10, ConnectedStep
<1>11. CASE Debugger
    BY <1>11, TakeNewStep, TakeDeleteStep, TakeQuitStep, SettleStep DEF Debugger
<1>12. CASE Hit \/ Repeat
    BY <1>12, HitStep, RepeatStep
<1>13. CASE BeginQuit
    BY <1>13, BeginQuitStep
<1>14. CASE Deliver
    BY <1>14, DeliverOther, DeliverAnswer
<1>15. CASE StopDriver
    BY <1>15, StopDriverStep
<1>16. CASE UNCHANGED vars
    BY <1>16, UserStep DEF vars, peerVars
<1> QED
    BY <1>1, <1>2, <1>3, <1>4, <1>5, <1>6, <1>7, <1>8, <1>9, <1>10, <1>11, <1>12,
       <1>13, <1>14, <1>15, <1>16 DEF Next, User

(* The conversation of AxsCmd_Quit goes as QuitInv says, whatever the user *)
(* and the target do meanwhile.                                            *)
THEOREM QuitInvariant == Spec => []QuitInv
<1>1. QuitInv /\ SeqInv /\ [Next]_vars => (QuitInv /\ SeqInv)'
    BY QuitNext
<1> QED
    BY <1>1, QuitInit, PTL DEF Spec

(* When AxsCmd_Quit asks the debugger to quit, the target runs and has no  *)
(* breakpoint left, for any number of breakpoints and operations.          *)
THEOREM QuitLeavesFreeHolds == Spec => []QuitLeavesFree
<1>1. QuitInv => QuitLeavesFree
    BY DEF QuitInv, DoneInv, OverInv, QuitLeavesFree, Empty
<1> QED
    BY <1>1, QuitInvariant, PTL

===============================================================================
