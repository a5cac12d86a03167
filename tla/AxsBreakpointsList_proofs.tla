----------------------- MODULE AxsBreakpointsList_proofs -----------------------
(***************************************************************************)
(* Proofs about AxsBreakpoints for any number of breakpoints, numbers and  *)
(* operations of the user: the types, that no breakpoint of the target is  *)
(* lost (NoOrphans), and that a delete command hits the breakpoint it was  *)
(* made for (DeletesOwn).  The loops over the list are recursive functions *)
(* and are reasoned about with the induction of Loops_proofs.              *)
(***************************************************************************)
EXTENDS AxsBreakpoints_proofs, Loops_proofs

(* What the calls of the driver pass on, as Now packs it. *)
Driver == [queue : Seq(Command), index : [Bp -> Index \cup {-1}],
           set : SUBSET Bp, stale : SUBSET Bp, hurried : SUBSET Bp]

(* Before the target is connected there is nothing on it and nothing said. *)
PhaseInv ==
    /\ phase # "ready" =>
        /\ \A i \in Index : target[i] = NoBp
        /\ lines = <<>> /\ quit = Idle /\ ~astray
    /\ phase = "none" => queue = <<>>

New(b) == [op |-> "new", bp |-> b]
Answers(l, b) == l.for = "new" /\ l.bp = b

(* At most one creation of b is in the queue q or answered among lines.    *)
OnceAsked(q, b) ==
    /\ \A k, m \in DOMAIN q : q[k] = New(b) /\ q[m] = New(b) => k = m
    /\ \A k, m \in DOMAIN lines :
        Answers(lines[k], b) /\ Answers(lines[m], b) => k = m
    /\ \A k \in DOMAIN q, m \in DOMAIN lines : ~(q[k] = New(b) /\ Answers(lines[m], b))

(* A number of b's that is on its way or known, L being what is listed.    *)
Accounted(d, L, b, i) ==
    \/ b \in L /\ d.index[b] = i /\ b \notin d.stale
    \/ \E k \in DOMAIN lines : Answers(lines[k], b) /\ lines[k].index = i
    \/ \E k \in DOMAIN d.queue :
        d.queue[k].op = "delete" /\ d.queue[k].bp = b /\ d.queue[k].index = i

(* A breakpoint that was not hurried is asked for once, while it is listed *)
(* and its number is not known; and its number is accounted for.           *)
Kin(d, L) ==
    /\ \A b \in Bp \ d.hurried :
        /\ OnceAsked(d.queue, b)
        /\ Unanswered(d, b) => b \in L /\ d.index[b] = -1
    /\ \A i \in Index : target[i] \in Bp \ d.hurried => Accounted(d, L, target[i], i)

KinInv == Kin(Now, ToSet(list))

(* Who may still use the number i of this session for b: the list and the  *)
(* open dialog g; an answer; a delete command.  All of them say who has    *)
(* the number, and but for the list and the dialog there is one of them.   *)
Owns(d, g, b, i) ==
    \/ d.index[b] = i /\ b \notin d.stale
    \/ g.bp = b /\ g.index = i /\ ~g.stale
Answer(l) == l.for = "new" /\ l.index # -1
Deletes(c) == c.op = "delete" /\ ~c.stale

Numbers(d, g) == quit = Idle /\ ~astray =>
    /\ \A b \in Bp, i \in Index : Owns(d, g, b, i) =>
        /\ target[i] = b
        /\ \A k \in DOMAIN lines : Answer(lines[k]) => lines[k].index # i
        /\ \A k \in DOMAIN d.queue : Deletes(d.queue[k]) => d.queue[k].index # i
    /\ \A k \in DOMAIN lines : Answer(lines[k]) =>
        /\ target[lines[k].index] = lines[k].bp
        /\ \A m \in DOMAIN lines :
            Answer(lines[m]) /\ lines[m].index = lines[k].index => m = k
        /\ \A m \in DOMAIN d.queue :
            Deletes(d.queue[m]) => d.queue[m].index # lines[k].index
    /\ \A k \in DOMAIN d.queue : Deletes(d.queue[k]) =>
        /\ target[d.queue[k].index] = d.queue[k].bp
        /\ \A m \in DOMAIN d.queue :
            Deletes(d.queue[m]) /\ d.queue[m].index = d.queue[k].index => m = k

NumbersInv == Numbers(Now, dialog)

(* B are the temporary breakpoints listed: one that is set before the       *)
(* target is connected was added since, so that its command is still in    *)
(* the queue.                                                              *)
Temporaries(d, B, g) == phase # "ready" => \A b \in B :
    /\ d.index[b] = -1 /\ (b \in d.set => Unanswered(d, b))
    /\ g.bp = b => g.index = -1 /\ (phase = "none" => ~g.set)

(* The breakpoint edited is in the list, or was dropped from it in a hurry. *)
Edited(d, L, g) == phase # "none" /\ g.bp \in Bp => g.bp \in L \cup d.hurried

DialogInv ==
    /\ Temporaries(Now, ToSet(list) \cap temporary, dialog)
    /\ Edited(Now, ToSet(list), dialog)


-----------------------------------------------------------------------------
(* Lists: an appended element, and what is left when others are erased.    *)

LEMMA AppendSet ==
    ASSUME NEW S, NEW s \in Seq(S), NEW x \in S
    PROVE  /\ Append(s, x) \in Seq(S)
           /\ ToSet(Append(s, x)) = ToSet(s) \cup {x}
           /\ IsInjective(s) /\ x \notin ToSet(s) => IsInjective(Append(s, x))
<1> DEFINE n == Len(s) + 1
           t == Append(s, x)
<1>1. /\ DOMAIN t = DOMAIN s \cup {n} /\ n \notin DOMAIN s
      /\ \A k \in DOMAIN s : t[k] = s[k]
      /\ t[n] = x
    BY AppendFacts
<1>2. t \in Seq(S)
    OBVIOUS
<1> HIDE DEF n, t
<1>3. ToSet(t) = ToSet(s) \cup {x}
    BY <1>1 DEF ToSet
<1>4. ASSUME IsInjective(s), x \notin ToSet(s) PROVE IsInjective(t)
    BY <1>1, <1>4 DEF ToSet, IsInjective
<1> QED
    BY <1>2, <1>3, <1>4 DEF t

(* Erasing keeps the order, so a list of distinct elements stays one.      *)
LEMMA OnlyFacts ==
    ASSUME NEW S, NEW l \in Seq(S), NEW A
    PROVE  /\ Only(l, A) \in Seq(S)
           /\ ToSet(Only(l, A)) = ToSet(l) \cap A
           /\ IsInjective(l) => IsInjective(Only(l, A))
<1>1. PICK n \in Nat : n = Len(l) /\ DOMAIN l = 1..n
    OBVIOUS
<1> DEFINE step == [p \in (1..n) \X Seq(S) |->
                       IF l[p[1]] \in A THEN Append(p[2], l[p[1]]) ELSE p[2]]
<1>2. step \in [(1..n) \X Seq(S) -> Seq(S)]
    BY <1>1
<1>3. <<>> \in Seq(S)
    OBVIOUS
<1>4. PICK r : r \in Runs(n, Seq(S), <<>>, step)
  <2> HIDE DEF step
  <2> QED
    BY <1>2, <1>3, LoopExists
<1>5. ASSUME NEW i \in 1..n PROVE
        r[i] = IF l[i] \in A THEN Append(r[i - 1], l[i]) ELSE r[i - 1]
  <2>1. i - 1 \in 0..n
    OBVIOUS
  <2>2. r[i - 1] \in Seq(S)
    BY <2>1, <1>4 DEF Runs
  <2>3. r[i] = step[<<i, r[i - 1]>>]
    BY <1>4 DEF Runs
  <2> QED
    BY <2>2, <2>3
<1>6. r = [i \in 0..n |-> IF i = 0 THEN <<>>
                 ELSE IF l[i] \in A THEN Append(r[i - 1], l[i]) ELSE r[i - 1]]
  <2>1. r = [i \in 0..n |-> r[i]] /\ r[0] = <<>>
    BY <1>4 DEF Runs
  <2>2. \A i \in 0..n : i = 0 \/ i \in 1..n
    OBVIOUS
  <2> QED
    BY <2>1, <2>2, <1>5
<1>7. PICK f : f = CHOOSE h : h = [i \in 0..Len(l) |-> IF i = 0 THEN <<>>
                 ELSE IF l[i] \in A THEN Append(h[i - 1], l[i]) ELSE h[i - 1]]
    OBVIOUS
<1>8. f = [i \in 0..n |-> IF i = 0 THEN <<>>
                 ELSE IF l[i] \in A THEN Append(f[i - 1], l[i]) ELSE f[i - 1]]
    BY <1>1, <1>6, <1>7
<1>9. Only(l, A) = f[n]
    BY <1>1, <1>7 DEF Only
<1> DEFINE T == {k \in 0..n :
            /\ f[k] \in Seq(S)
            /\ ToSet(f[k]) = {l[j] : j \in 1..k} \cap A
            /\ IsInjective(l) => IsInjective(f[k])}
<1>10. 0 \in T
  <2>1. f[0] = <<>> /\ ToSet(<<>>) = {} /\ IsInjective(<<>>)
    BY <1>8 DEF ToSet, IsInjective
  <2>2. {l[j] : j \in 1..0} = {}
    OBVIOUS
  <2>3. f[0] \in Seq(S)
    BY <2>1, <1>3
  <2>4. ToSet(f[0]) = {l[j] : j \in 1..0} \cap A
    BY <2>1, <2>2
  <2>5. 0 \in 0..n
    BY <1>1
  <2> QED
    BY <2>1, <2>3, <2>4, <2>5
<1>11. ASSUME NEW m \in 0..(n - 1), m \in T PROVE m + 1 \in T
  <2>1. PICK x : x = l[m + 1]
    OBVIOUS
  <2>2. x \in S /\ m + 1 \in 1..n
    BY <2>1, <1>1
  <2>3. f[m + 1] = IF x \in A THEN Append(f[m], x) ELSE f[m]
    <3>1. m + 1 \in 0..n /\ m + 1 # 0 /\ (m + 1) - 1 = m
      BY <1>1
    <3> QED
      BY <1>8, <2>1, <3>1
  <2>4. {l[j] : j \in 1..(m + 1)} = {l[j] : j \in 1..m} \cup {x}
    BY <2>1
  <2>5. IsInjective(l) => x \notin {l[j] : j \in 1..m}
    BY <2>1, <2>2, <1>1 DEF IsInjective
  <2>6. PICK s : s = f[m]
    OBVIOUS
  <2>7. /\ s \in Seq(S) /\ ToSet(s) = {l[j] : j \in 1..m} \cap A
        /\ IsInjective(l) => IsInjective(s)
    BY <1>11, <2>6
  <2>8. f[m + 1] = IF x \in A THEN Append(s, x) ELSE s
    BY <2>3, <2>6
  <2>9. f[m + 1] \in Seq(S)
    BY <2>2, <2>7, <2>8, AppendSet
  <2>10. ToSet(f[m + 1]) = {l[j] : j \in 1..(m + 1)} \cap A
    <3>1. x \in A => ToSet(f[m + 1]) = ToSet(s) \cup {x}
      BY <2>2, <2>7, <2>8, AppendSet
    <3>2. x \notin A => ToSet(f[m + 1]) = ToSet(s)
      BY <2>8
    <3> QED
      BY <2>4, <2>7, <3>1, <3>2
  <2>11. IsInjective(l) => IsInjective(f[m + 1])
    <3>1. IsInjective(l) => x \notin ToSet(s)
      BY <2>5, <2>7
    <3> QED
      BY <3>1, <2>2, <2>7, <2>8, AppendSet
  <2>12. m + 1 \in 0..n
    BY <1>1
  <2> QED
    BY <2>9, <2>10, <2>11, <2>12
<1>12. n \in T
  <2> HIDE DEF T
  <2> QED
    BY <1>1, <1>10, <1>11, PassInduction
<1>13. ToSet(l) = {l[j] : j \in 1..n}
    BY <1>1 DEF ToSet
<1> QED
    BY <1>9, <1>12, <1>13

-----------------------------------------------------------------------------
(* What the calls of the driver do to the record they are passed.          *)

DeleteOf(d, b) ==
    [op |-> "delete", bp |-> b, index |-> d.index[b], stale |-> b \in d.stale]

LEMMA CommandFacts ==
    /\ \A b \in Bp : New(b) \in Command /\ New(b).op = "new" /\ New(b).bp = b
    /\ \A d \in Driver, b \in Bp : d.index[b] # -1 =>
        /\ DeleteOf(d, b) \in Command /\ d.index[b] \in Index
        /\ DeleteOf(d, b).op = "delete" /\ DeleteOf(d, b).bp = b
        /\ DeleteOf(d, b).index = d.index[b]
        /\ DeleteOf(d, b).stale <=> b \in d.stale
    /\ \A c \in Command : c.op = "new" => c.bp \in Bp /\ c = New(c.bp)
    /\ \A c \in Command : c.op = "delete" =>
        c.bp \in Bp /\ c.index \in Index /\ c.stale \in BOOLEAN
    /\ \A c \in Command : c.op \in {"new", "delete", "quit"}
<1>1. \A b \in Bp : New(b) \in Command /\ New(b).op = "new" /\ New(b).bp = b
    BY DEF New, Command
<1>2. ASSUME NEW d \in Driver, NEW b \in Bp, d.index[b] # -1
      PROVE  /\ DeleteOf(d, b) \in Command /\ d.index[b] \in Index
             /\ DeleteOf(d, b).op = "delete" /\ DeleteOf(d, b).bp = b
             /\ DeleteOf(d, b).index = d.index[b]
             /\ DeleteOf(d, b).stale <=> b \in d.stale
  <2>1. d.index[b] \in Index /\ (b \in d.stale) \in BOOLEAN
    BY <1>2 DEF Driver
  <2> QED
    BY <2>1 DEF DeleteOf, Command
<1>3. \A c \in Command : c.op = "new" => c.bp \in Bp /\ c = New(c.bp)
    BY DEF New, Command
<1>4. \A c \in Command : c.op = "delete" =>
        c.bp \in Bp /\ c.index \in Index /\ c.stale \in BOOLEAN
    BY DEF Command
<1>5. \A c \in Command : c.op \in {"new", "delete", "quit"}
    BY DEF Command
<1> QED
    BY <1>1, <1>2, <1>3, <1>4, <1>5

LEMMA HurryFacts ==
    ASSUME NEW d \in Driver, NEW b \in Bp, NEW forgets \in BOOLEAN
    PROVE  /\ Hurry(d, b, forgets) \in SUBSET Bp
           /\ d.hurried \subseteq Hurry(d, b, forgets)
           /\ Hurry(d, b, forgets) \subseteq d.hurried \cup {b}
           /\ b \notin Hurry(d, b, forgets) => ~forgets /\ ~Unanswered(d, b)
BY DEF Hurry, Driver

(* A call of RemoveBreakpoint: nothing without a driver; too early, when   *)
(* the number is not known; else a delete command.                         *)
LEMMA RemoveFacts ==
    ASSUME NEW d \in Driver, NEW b \in Bp
    PROVE  /\ DriverRemove(d, b) \in Driver
           /\ DriverRemove(d, b).set = d.set
           /\ phase = "none" => DriverRemove(d, b) = d
           /\ phase # "none" /\ d.index[b] = -1 =>
                /\ DriverRemove(d, b).queue = d.queue
                /\ DriverRemove(d, b).index = d.index
                /\ DriverRemove(d, b).stale = d.stale
                /\ DriverRemove(d, b).hurried = Hurry(d, b, FALSE)
           /\ phase # "none" /\ d.index[b] # -1 =>
                /\ DriverRemove(d, b).queue = Append(d.queue, DeleteOf(d, b))
                /\ DriverRemove(d, b).index = [d.index EXCEPT ![b] = -1]
                /\ DriverRemove(d, b).stale = d.stale \ {b}
                /\ DriverRemove(d, b).hurried = d.hurried
<1>1. CASE phase = "none"
    BY <1>1 DEF DriverRemove
<1>2. CASE phase # "none" /\ d.index[b] = -1
    BY <1>2, HurryFacts DEF DriverRemove, Driver
<1>3. CASE phase # "none" /\ d.index[b] # -1
  <2>1. DeleteOf(d, b) \in Command
    BY <1>3, CommandFacts
  <2>2. d.queue \in Seq(Command)
    BY DEF Driver
  <2>3. Append(d.queue, DeleteOf(d, b)) \in Seq(Command)
    BY <2>1, <2>2, AppendSet
  <2>4. DriverRemove(d, b) =
            [d EXCEPT !.queue = Append(@, DeleteOf(d, b)), !.index[b] = -1,
                      !.stale = @ \ {b}]
    BY <1>3 DEF DriverRemove, DeleteOf
  <2> QED
    BY <1>3, <2>3, <2>4 DEF Driver
<1> QED
    BY <1>1, <1>2, <1>3

(* A call of AddBreakpoint: nothing without a driver; else a command that  *)
(* creates it, and a number that was known is forgotten.                   *)
Forgets(d, b) == d.index[b] # -1 /\ b \notin d.stale

LEMMA AddFacts ==
    ASSUME NEW d \in Driver, NEW b \in Bp
    PROVE  /\ DriverAdd(d, b) \in Driver
           /\ phase = "none" => DriverAdd(d, b) = d
           /\ phase # "none" =>
                /\ DriverAdd(d, b).queue = Append(d.queue, New(b))
                /\ DriverAdd(d, b).index = [d.index EXCEPT ![b] = -1]
                /\ DriverAdd(d, b).set = d.set \cup {b}
                /\ DriverAdd(d, b).stale = d.stale \ {b}
                /\ DriverAdd(d, b).hurried = Hurry(d, b, Forgets(d, b))
<1>1. CASE phase = "none"
    BY <1>1 DEF DriverAdd
<1>2. CASE phase # "none"
  <2>1. New(b) \in Command /\ d.queue \in Seq(Command)
    BY CommandFacts DEF Driver
  <2>2. Append(d.queue, New(b)) \in Seq(Command)
    BY <2>1, AppendSet
  <2>3. PICK h \in SUBSET Bp : h = Hurry(d, b, Forgets(d, b))
    BY HurryFacts DEF Forgets
  <2>4. DriverAdd(d, b) =
            [d EXCEPT !.queue = Append(@, New(b)), !.index[b] = -1,
                      !.set = @ \cup {b}, !.stale = @ \ {b}, !.hurried = h]
    BY <1>2, <2>3 DEF DriverAdd, New, Forgets
  <2>5. PICK q \in Seq(Command) : q = Append(d.queue, New(b))
    BY <2>2
  <2>6. DriverAdd(d, b) =
            [d EXCEPT !.queue = q, !.index[b] = -1,
                      !.set = @ \cup {b}, !.stale = @ \ {b}, !.hurried = h]
    BY <2>4, <2>5
  <2>7. DriverAdd(d, b) \in Driver
    <3>1. PICK s \in SUBSET Bp : s = d.set \cup {b}
      BY DEF Driver
    <3>2. [d EXCEPT !.queue = q, !.index[b] = -1, !.set = s, !.stale = @ \ {b},
                    !.hurried = h] \in Driver
      BY DEF Driver
    <3> QED
      BY <2>6, <3>1, <3>2
  <2>8. /\ DriverAdd(d, b).queue = q
        /\ DriverAdd(d, b).index = [d.index EXCEPT ![b] = -1]
        /\ DriverAdd(d, b).set = d.set \cup {b}
        /\ DriverAdd(d, b).stale = d.stale \ {b}
        /\ DriverAdd(d, b).hurried = h
    BY <2>6 DEF Driver
  <2> QED
    BY <1>2, <2>3, <2>5, <2>7, <2>8
<1> QED
    BY <1>1, <1>2

(* DebuggerState::AddBreakpoint's new object. *)
LEMMA FreshFacts ==
    ASSUME NEW d \in Driver, NEW b \in Bp
    PROVE  /\ Fresh(d, b) \in Driver
           /\ Fresh(d, b).queue = d.queue
           /\ Fresh(d, b).index = [d.index EXCEPT ![b] = -1]
           /\ Fresh(d, b).set = d.set \ {b}
           /\ Fresh(d, b).stale = d.stale \ {b}
           /\ Fresh(d, b).hurried = d.hurried \ {b}
BY DEF Fresh, Driver

-----------------------------------------------------------------------------
(* The loops over a list. *)

(* RemoveBreakpoint for each breakpoint of a list: what holds with none of them   *)
(* done, and goes from those done to one more, holds with all of them done. *)
LEMMA RemoveEachInduction ==
    ASSUME NEW d \in Driver, NEW l \in Seq(Bp), NEW I,
           <<d, {}>> \in I,
           \A e \in Driver, D \in SUBSET Bp, b \in ToSet(l) :
                <<e, D>> \in I => <<DriverRemove(e, b), D \cup {b}>> \in I
    PROVE  RemoveEach(d, l) \in Driver /\ <<RemoveEach(d, l), ToSet(l)>> \in I
<1>1. PICK n \in Nat : n = Len(l) /\ DOMAIN l = 1..n
    OBVIOUS
<1>2. \A i \in 1..n : l[i] \in Bp
    BY <1>1
<1>3. \A e \in Driver, b \in Bp : DriverRemove(e, b) \in Driver
    BY RemoveFacts
<1> DEFINE step == [p \in (1..n) \X Driver |-> DriverRemove(p[2], l[p[1]])]
<1>4. step \in [(1..n) \X Driver -> Driver]
    BY <1>2, <1>3
<1>5. PICK r : r \in Runs(n, Driver, d, step)
  <2> HIDE DEF step
  <2> QED
    BY <1>1, <1>4, LoopExists
<1>6. ASSUME NEW i \in 1..n PROVE r[i] = DriverRemove(r[i - 1], l[i])
  <2>1. i - 1 \in 0..n
    BY <1>1
  <2>2. r[i - 1] \in Driver
    BY <2>1, <1>5 DEF Runs
  <2>3. r[i] = step[<<i, r[i - 1]>>]
    BY <1>5 DEF Runs
  <2> QED
    BY <2>2, <2>3
<1>7. r = [i \in 0..n |-> IF i = 0 THEN d ELSE DriverRemove(r[i - 1], l[i])]
  <2>1. r = [i \in 0..n |-> r[i]] /\ r[0] = d
    BY <1>5 DEF Runs
  <2>2. \A i \in 0..n : i = 0 \/ i \in 1..n
    BY <1>1
  <2> QED
    BY <2>1, <2>2, <1>6
<1>8. PICK f : f = CHOOSE h :
          h = [i \in 0..Len(l) |-> IF i = 0 THEN d ELSE DriverRemove(h[i - 1], l[i])]
    OBVIOUS
<1>9. f = [i \in 0..n |-> IF i = 0 THEN d ELSE DriverRemove(f[i - 1], l[i])]
    BY <1>1, <1>7, <1>8
<1>10. RemoveEach(d, l) = f[n]
    BY <1>1, <1>8 DEF RemoveEach
<1> DEFINE T == {k \in 0..n :
            f[k] \in Driver /\ <<f[k], {l[j] : j \in 1..k}>> \in I}
<1>11. 0 \in T
  <2>1. f[0] = d /\ 0 \in 0..n
    BY <1>1, <1>9
  <2>2. {l[j] : j \in 1..0} = {}
    OBVIOUS
  <2> QED
    BY <2>1, <2>2
<1>12. ASSUME NEW m \in 0..(n - 1), m \in T PROVE m + 1 \in T
  <2>1. PICK b : b = l[m + 1]
    OBVIOUS
  <2>2. m + 1 \in 0..n /\ m + 1 \in 1..n /\ m + 1 # 0 /\ (m + 1) - 1 = m
    BY <1>1
  <2>3. b \in Bp /\ b \in ToSet(l)
    BY <2>1, <2>2, <1>1, <1>2 DEF ToSet
  <2>4. f[m + 1] = DriverRemove(f[m], b)
    BY <1>9, <2>1, <2>2
  <2>5. PICK D : D = {l[j] : j \in 1..m}
    OBVIOUS
  <2>6. {l[j] : j \in 1..(m + 1)} = D \cup {b}
    BY <2>1, <2>5, <1>1
  <2>7. D \in SUBSET Bp
    BY <2>5, <1>1, <1>2
  <2>8. f[m] \in Driver /\ <<f[m], D>> \in I
    BY <1>12, <2>5
  <2>9. <<f[m + 1], D \cup {b}>> \in I /\ f[m + 1] \in Driver
    BY <2>3, <2>4, <2>7, <2>8, <1>3
  <2> QED
    BY <2>2, <2>6, <2>9
<1>13. n \in T
  <2> HIDE DEF T
  <2> QED
    BY <1>1, <1>11, <1>12, PassInduction
<1>14. ToSet(l) = {l[j] : j \in 1..n}
    BY <1>1 DEF ToSet
<1> QED
    BY <1>10, <1>13, <1>14

(* AddBreakpoint for each breakpoint of a list: what holds with none of them   *)
(* done, and goes from those done to one more, holds with all of them done. *)
LEMMA AddEachInduction ==
    ASSUME NEW d \in Driver, NEW l \in Seq(Bp), NEW I,
           <<d, {}>> \in I,
           \A e \in Driver, D \in SUBSET Bp, b \in ToSet(l) :
                <<e, D>> \in I => <<DriverAdd(e, b), D \cup {b}>> \in I
    PROVE  AddEach(d, l) \in Driver /\ <<AddEach(d, l), ToSet(l)>> \in I
<1>1. PICK n \in Nat : n = Len(l) /\ DOMAIN l = 1..n
    OBVIOUS
<1>2. \A i \in 1..n : l[i] \in Bp
    BY <1>1
<1>3. \A e \in Driver, b \in Bp : DriverAdd(e, b) \in Driver
    BY AddFacts
<1> DEFINE step == [p \in (1..n) \X Driver |-> DriverAdd(p[2], l[p[1]])]
<1>4. step \in [(1..n) \X Driver -> Driver]
    BY <1>2, <1>3
<1>5. PICK r : r \in Runs(n, Driver, d, step)
  <2> HIDE DEF step
  <2> QED
    BY <1>1, <1>4, LoopExists
<1>6. ASSUME NEW i \in 1..n PROVE r[i] = DriverAdd(r[i - 1], l[i])
  <2>1. i - 1 \in 0..n
    BY <1>1
  <2>2. r[i - 1] \in Driver
    BY <2>1, <1>5 DEF Runs
  <2>3. r[i] = step[<<i, r[i - 1]>>]
    BY <1>5 DEF Runs
  <2> QED
    BY <2>2, <2>3
<1>7. r = [i \in 0..n |-> IF i = 0 THEN d ELSE DriverAdd(r[i - 1], l[i])]
  <2>1. r = [i \in 0..n |-> r[i]] /\ r[0] = d
    BY <1>5 DEF Runs
  <2>2. \A i \in 0..n : i = 0 \/ i \in 1..n
    BY <1>1
  <2> QED
    BY <2>1, <2>2, <1>6
<1>8. PICK f : f = CHOOSE h :
          h = [i \in 0..Len(l) |-> IF i = 0 THEN d ELSE DriverAdd(h[i - 1], l[i])]
    OBVIOUS
<1>9. f = [i \in 0..n |-> IF i = 0 THEN d ELSE DriverAdd(f[i - 1], l[i])]
    BY <1>1, <1>7, <1>8
<1>10. AddEach(d, l) = f[n]
    BY <1>1, <1>8 DEF AddEach
<1> DEFINE T == {k \in 0..n :
            f[k] \in Driver /\ <<f[k], {l[j] : j \in 1..k}>> \in I}
<1>11. 0 \in T
  <2>1. f[0] = d /\ 0 \in 0..n
    BY <1>1, <1>9
  <2>2. {l[j] : j \in 1..0} = {}
    OBVIOUS
  <2> QED
    BY <2>1, <2>2
<1>12. ASSUME NEW m \in 0..(n - 1), m \in T PROVE m + 1 \in T
  <2>1. PICK b : b = l[m + 1]
    OBVIOUS
  <2>2. m + 1 \in 0..n /\ m + 1 \in 1..n /\ m + 1 # 0 /\ (m + 1) - 1 = m
    BY <1>1
  <2>3. b \in Bp /\ b \in ToSet(l)
    BY <2>1, <2>2, <1>1, <1>2 DEF ToSet
  <2>4. f[m + 1] = DriverAdd(f[m], b)
    BY <1>9, <2>1, <2>2
  <2>5. PICK D : D = {l[j] : j \in 1..m}
    OBVIOUS
  <2>6. {l[j] : j \in 1..(m + 1)} = D \cup {b}
    BY <2>1, <2>5, <1>1
  <2>7. D \in SUBSET Bp
    BY <2>5, <1>1, <1>2
  <2>8. f[m] \in Driver /\ <<f[m], D>> \in I
    BY <1>12, <2>5
  <2>9. <<f[m + 1], D \cup {b}>> \in I /\ f[m + 1] \in Driver
    BY <2>3, <2>4, <2>7, <2>8, <1>3
  <2> QED
    BY <2>2, <2>6, <2>9
<1>13. n \in T
  <2> HIDE DEF T
  <2> QED
    BY <1>1, <1>11, <1>12, PassInduction
<1>14. ToSet(l) = {l[j] : j \in 1..n}
    BY <1>1 DEF ToSet
<1> QED
    BY <1>10, <1>13, <1>14

-----------------------------------------------------------------------------
(* Kin through the calls of the driver. *)

LEMMA IndexFacts == Index \subseteq Nat /\ -1 \notin Index /\ NoBp \notin Bp
BY BreakpointAssumption

(* A command appended to the queue; one that creates nothing of b; and one *)
(* that creates b.                                                         *)
LEMMA AskFacts ==
    ASSUME NEW d \in Driver, NEW e \in Driver, NEW c \in Command,
           e.queue = Append(d.queue, c)
    PROVE  /\ \A k \in DOMAIN d.queue : k \in DOMAIN e.queue /\ e.queue[k] = d.queue[k]
           /\ \E k \in DOMAIN e.queue : e.queue[k] = c
<1>1. d.queue \in Seq(Command)
    BY DEF Driver
<1>2. PICK n : n = Len(d.queue) + 1
    OBVIOUS
<1>3. /\ DOMAIN e.queue = DOMAIN d.queue \cup {n} /\ n \notin DOMAIN d.queue
      /\ \A k \in DOMAIN d.queue : e.queue[k] = d.queue[k]
      /\ e.queue[n] = c
    BY <1>1, <1>2, AppendFacts
<1> QED
    BY <1>3

LEMMA AskOther ==
    ASSUME NEW d \in Driver, NEW e \in Driver, NEW c \in Command, NEW b \in Bp,
           e.queue = Append(d.queue, c), c # New(b)
    PROVE  /\ OnceAsked(d.queue, b) => OnceAsked(e.queue, b)
           /\ Unanswered(e, b) => Unanswered(d, b)
<1>1. d.queue \in Seq(Command)
    BY DEF Driver
<1>2. PICK n : n = Len(d.queue) + 1
    OBVIOUS
<1>3. /\ DOMAIN e.queue = DOMAIN d.queue \cup {n} /\ n \notin DOMAIN d.queue
      /\ \A k \in DOMAIN d.queue : e.queue[k] = d.queue[k]
      /\ e.queue[n] = c
    BY <1>1, <1>2, AppendFacts
<1> QED
    BY <1>3 DEF OnceAsked, Unanswered, New

LEMMA AskNew ==
    ASSUME NEW d \in Driver, NEW e \in Driver, NEW b \in Bp,
           e.queue = Append(d.queue, New(b))
    PROVE  /\ Unanswered(e, b)
           /\ ~Unanswered(d, b) /\ OnceAsked(d.queue, b) => OnceAsked(e.queue, b)
<1>1. d.queue \in Seq(Command)
    BY DEF Driver
<1>2. PICK n : n = Len(d.queue) + 1
    OBVIOUS
<1>3. /\ DOMAIN e.queue = DOMAIN d.queue \cup {n} /\ n \notin DOMAIN d.queue
      /\ \A k \in DOMAIN d.queue : e.queue[k] = d.queue[k]
      /\ e.queue[n] = New(b)
    BY <1>1, <1>2, AppendFacts
<1> QED
    BY <1>3 DEF OnceAsked, Unanswered, New, Answers

LEMMA KinMore ==
    ASSUME NEW d, NEW L, NEW M, L \subseteq M, Kin(d, L)
    PROVE  Kin(d, M)
BY DEF Kin, Accounted

(* Without a driver there is nothing to account for. *)
LEMMA KinNone ==
    ASSUME PhaseInv, phase = "none", NEW d \in Driver, NEW L, d.queue = <<>>
    PROVE  Kin(d, L)
<1>1. DOMAIN d.queue = {} /\ DOMAIN lines = {} /\ \A i \in Index : target[i] = NoBp
    BY DEF PhaseInv
<1> QED
    BY <1>1, IndexFacts DEF Kin, OnceAsked, Unanswered

LEMMA KinRemove ==
    ASSUME NEW d \in Driver, NEW b \in Bp, NEW L, Kin(d, L), phase # "none"
    PROVE  Kin(DriverRemove(d, b), L \ {b})
<1>1. PICK e \in Driver : e = DriverRemove(d, b)
    BY RemoveFacts
<1>2. CASE d.index[b] = -1
  <2>1. /\ e.queue = d.queue /\ e.index = d.index /\ e.stale = d.stale
        /\ e.hurried = Hurry(d, b, FALSE)
    BY <1>1, <1>2, RemoveFacts
  <2>2. d.hurried \subseteq e.hurried /\ (b \notin e.hurried => ~Unanswered(d, b))
    BY <2>1 DEF Hurry
  <2>3. ASSUME NEW c \in Bp \ e.hurried
        PROVE  OnceAsked(e.queue, c) /\ (Unanswered(e, c) => c \in L \ {b} /\ e.index[c] = -1)
    <3>1. Unanswered(e, c) <=> Unanswered(d, c)
      BY <2>1 DEF Unanswered
    <3> QED
      BY <2>1, <2>2, <3>1 DEF Kin
  <2>4. ASSUME NEW i \in Index, target[i] \in Bp \ e.hurried
        PROVE  Accounted(e, L \ {b}, target[i], i)
    <3>1. Accounted(d, L, target[i], i)
      BY <2>2, <2>4 DEF Kin
    <3>2. d.index[b] # i
      BY <1>2, IndexFacts
    <3> QED
      BY <2>1, <3>1, <3>2 DEF Accounted
  <2> QED
    BY <1>1, <2>3, <2>4 DEF Kin
<1>3. CASE d.index[b] # -1
  <2>1. PICK x \in Command : x = DeleteOf(d, b)
    BY <1>3, CommandFacts
  <2>2. x.op = "delete" /\ x.bp = b /\ x.index = d.index[b] /\ \A c \in Bp : x # New(c)
    BY <1>3, <2>1, CommandFacts
  <2>3. /\ e.queue = Append(d.queue, x) /\ e.index = [d.index EXCEPT ![b] = -1]
        /\ e.stale = d.stale \ {b} /\ e.hurried = d.hurried
    BY <1>1, <1>3, <2>1, RemoveFacts
  <2>4. d.index \in [Bp -> Index \cup {-1}]
    BY DEF Driver
  <2>5. ASSUME NEW c \in Bp \ e.hurried
        PROVE  OnceAsked(e.queue, c) /\ (Unanswered(e, c) => c \in L \ {b} /\ e.index[c] = -1)
    <3>1. OnceAsked(d.queue, c) /\ (Unanswered(d, c) => c \in L /\ d.index[c] = -1)
      BY <2>3 DEF Kin
    <3>2. OnceAsked(e.queue, c) /\ (Unanswered(e, c) => Unanswered(d, c))
      <4>1. x # New(c) /\ c \in Bp
        BY <2>2
      <4> QED
        BY <2>3, <3>1, <4>1, AskOther
    <3> QED
      BY <1>3, <2>3, <2>4, <3>1, <3>2
  <2>6. ASSUME NEW i \in Index, target[i] \in Bp \ e.hurried
        PROVE  Accounted(e, L \ {b}, target[i], i)
    <3>1. PICK c \in Bp : c = target[i]
      BY <2>6
    <3>2. Accounted(d, L, c, i)
      BY <2>3, <2>6, <3>1 DEF Kin
    <3>3. /\ \A k \in DOMAIN d.queue : k \in DOMAIN e.queue /\ e.queue[k] = d.queue[k]
          /\ \E k \in DOMAIN e.queue : e.queue[k] = x
      BY <2>3, AskFacts
    <3>4. c # b => e.index[c] = d.index[c] /\ (c \in e.stale <=> c \in d.stale)
      BY <2>3, <2>4
    <3>5. Accounted(e, L \ {b}, c, i)
      BY <2>2, <3>2, <3>3, <3>4 DEF Accounted
    <3> QED
      BY <3>1, <3>5
  <2> QED
    BY <1>1, <2>5, <2>6 DEF Kin
<1> QED
    BY <1>2, <1>3

LEMMA KinAdd ==
    ASSUME NEW d \in Driver, NEW b \in Bp, NEW L, Kin(d, L), b \in L, phase # "none"
    PROVE  Kin(DriverAdd(d, b), L)
<1>1. PICK e \in Driver : e = DriverAdd(d, b)
    BY AddFacts
<1>2. /\ e.queue = Append(d.queue, New(b)) /\ e.index = [d.index EXCEPT ![b] = -1]
      /\ e.stale = d.stale \ {b} /\ e.hurried = Hurry(d, b, Forgets(d, b))
    BY <1>1, AddFacts
<1>3. /\ d.hurried \subseteq e.hurried
      /\ b \notin e.hurried => ~Unanswered(d, b) /\ ~Forgets(d, b)
    BY <1>2 DEF Hurry
<1>4. /\ d.index \in [Bp -> Index \cup {-1}]
      /\ \A c \in Bp : New(b) = New(c) => c = b
    BY DEF Driver, New
<1>5. New(b) \in Command
    BY CommandFacts
<1>6. ASSUME NEW c \in Bp \ e.hurried
      PROVE  OnceAsked(e.queue, c) /\ (Unanswered(e, c) => c \in L /\ e.index[c] = -1)
  <2>1. OnceAsked(d.queue, c) /\ (Unanswered(d, c) => c \in L /\ d.index[c] = -1)
    BY <1>3 DEF Kin
  <2>2. New(b) = New(c) => ~Unanswered(d, c)
    BY <1>3, <1>4
  <2>3. CASE c = b
    <3>1. OnceAsked(e.queue, c)
      BY <1>2, <2>1, <2>2, <2>3, AskNew
    <3> QED
      BY <1>2, <1>4, <2>3, <3>1
  <2>4. CASE c # b
    <3>1. OnceAsked(e.queue, c) /\ (Unanswered(e, c) => Unanswered(d, c))
      BY <1>2, <1>4, <1>5, <2>1, <2>4, AskOther
    <3> QED
      BY <1>2, <1>4, <2>1, <2>4, <3>1
  <2> QED
    BY <2>3, <2>4
<1>7. ASSUME NEW i \in Index, target[i] \in Bp \ e.hurried
      PROVE  Accounted(e, L, target[i], i)
  <2>1. PICK c \in Bp : c = target[i]
    BY <1>7
  <2>2. Accounted(d, L, c, i) /\ i # -1
    BY <1>3, <1>7, <2>1, IndexFacts DEF Kin
  <2>3. \A k \in DOMAIN d.queue : k \in DOMAIN e.queue /\ e.queue[k] = d.queue[k]
    BY <1>2, <1>5, AskFacts
  <2>4. c # b => e.index[c] = d.index[c] /\ (c \in e.stale <=> c \in d.stale)
    BY <1>2, <1>4
  <2>5. c = b => d.index[c] = -1 \/ c \in d.stale
    BY <1>3, <1>7, <2>1 DEF Forgets
  <2>6. Accounted(e, L, c, i)
    BY <2>2, <2>3, <2>4, <2>5 DEF Accounted
  <2> QED
    BY <2>1, <2>6
<1> QED
    BY <1>1, <1>6, <1>7 DEF Kin

LEMMA KinFresh ==
    ASSUME NEW d \in Driver, NEW b \in Bp, NEW L, Kin(d, L),
           ~Unanswered(d, b), \A i \in Index : target[i] # b
    PROVE  Kin(Fresh(d, b), L) /\ ~Unanswered(Fresh(d, b), b)
<1>1. PICK e \in Driver : e = Fresh(d, b)
    BY FreshFacts
<1>2. /\ e.queue = d.queue /\ e.index = [d.index EXCEPT ![b] = -1]
      /\ e.stale = d.stale \ {b} /\ e.hurried = d.hurried \ {b}
    BY <1>1, FreshFacts
<1>3. d.index \in [Bp -> Index \cup {-1}]
    BY DEF Driver
<1>4. \A c \in Bp : Unanswered(e, c) <=> Unanswered(d, c)
    BY <1>2 DEF Unanswered
<1>5. OnceAsked(e.queue, b)
    BY <1>2 DEF Unanswered, OnceAsked, Answers, New
<1>6. ASSUME NEW c \in Bp \ e.hurried
      PROVE  OnceAsked(e.queue, c) /\ (Unanswered(e, c) => c \in L /\ e.index[c] = -1)
  <2>1. CASE c = b
    BY <1>4, <1>5, <2>1
  <2>2. CASE c # b
    <3>1. e.index[c] = d.index[c] /\ c \in Bp \ d.hurried
      BY <1>2, <1>3, <2>2
    <3> QED
      BY <1>2, <1>4, <3>1 DEF Kin
  <2> QED
    BY <2>1, <2>2
<1>7. ASSUME NEW i \in Index, target[i] \in Bp \ e.hurried
      PROVE  Accounted(e, L, target[i], i)
  <2>1. PICK c \in Bp : c = target[i]
    BY <1>7
  <2>2. c # b /\ c \in Bp \ d.hurried
    BY <1>2, <1>7, <2>1
  <2>3. Accounted(d, L, c, i)
    BY <2>1, <2>2 DEF Kin
  <2>4. e.index[c] = d.index[c] /\ (c \in e.stale <=> c \in d.stale)
    BY <1>2, <1>3, <2>2
  <2>5. Accounted(e, L, c, i)
    BY <1>2, <2>3, <2>4 DEF Accounted
  <2> QED
    BY <2>1, <2>5
<1> QED
    BY <1>1, <1>4, <1>6, <1>7 DEF Kin

-----------------------------------------------------------------------------
(* Numbers through the calls of the driver. *)

(* The dialog has no number of this session. *)
Closed(g) == \A b \in Bp, i \in Index : ~(g.bp = b /\ g.index = i /\ ~g.stale)

LEMMA NumbersRemove ==
    ASSUME NEW d \in Driver, NEW b \in Bp, NEW g, Numbers(d, g), Closed(g)
    PROVE  Numbers(DriverRemove(d, b), g)
<1>1. PICK e \in Driver : e = DriverRemove(d, b)
    BY RemoveFacts
<1>2. SUFFICES ASSUME quit = Idle, ~astray PROVE Numbers(e, g)
    BY <1>1 DEF Numbers
<1>3. CASE phase = "none"
    BY <1>1, <1>3, RemoveFacts
<1>4. CASE phase # "none" /\ d.index[b] = -1
  <2>1. e.queue = d.queue /\ e.index = d.index /\ e.stale = d.stale
    BY <1>1, <1>4, RemoveFacts
  <2> QED
    BY <2>1 DEF Numbers, Owns
<1>5. CASE phase # "none" /\ d.index[b] # -1
  <2>1. PICK x \in Command : x = DeleteOf(d, b)
    BY <1>5, CommandFacts
  <2>2. PICK j \in Index : j = d.index[b]
    BY <1>5, CommandFacts
  <2>3. /\ x.op = "delete" /\ x.bp = b /\ x.index = j
        /\ ~x.stale => b \notin d.stale
    BY <1>5, <2>1, <2>2, CommandFacts
  <2>4. /\ e.queue = Append(d.queue, x) /\ e.index = [d.index EXCEPT ![b] = -1]
        /\ e.stale = d.stale \ {b}
    BY <1>1, <1>5, <2>1, RemoveFacts
  <2>5. d.index \in [Bp -> Index \cup {-1}] /\ d.queue \in Seq(Command)
    BY DEF Driver
  <2>6. PICK n : n = Len(d.queue) + 1
    OBVIOUS
  <2>7. /\ DOMAIN e.queue = DOMAIN d.queue \cup {n} /\ n \notin DOMAIN d.queue
        /\ \A k \in DOMAIN d.queue : e.queue[k] = d.queue[k]
        /\ e.queue[n] = x
    BY <2>4, <2>5, <2>6, AppendFacts
  <2>8. Deletes(x) =>
          /\ target[j] = b
          /\ \A k \in DOMAIN lines : Answer(lines[k]) => lines[k].index # j
          /\ \A k \in DOMAIN d.queue : Deletes(d.queue[k]) => d.queue[k].index # j
    BY <1>2, <2>2, <2>3 DEF Numbers, Owns, Deletes
  <2>9. ASSUME NEW c \in Bp, NEW i \in Index, Owns(e, g, c, i)
        PROVE  /\ target[i] = c
               /\ \A k \in DOMAIN lines : Answer(lines[k]) => lines[k].index # i
               /\ \A k \in DOMAIN e.queue : Deletes(e.queue[k]) => e.queue[k].index # i
    <3>1. c # b /\ d.index[c] = i /\ c \notin d.stale
      BY <2>4, <2>5, <2>9, IndexFacts DEF Owns, Closed
    <3>2. Owns(d, g, c, i)
      BY <3>1 DEF Owns
    <3>3. /\ target[i] = c
          /\ \A k \in DOMAIN lines : Answer(lines[k]) => lines[k].index # i
          /\ \A k \in DOMAIN d.queue : Deletes(d.queue[k]) => d.queue[k].index # i
      BY <1>2, <3>2 DEF Numbers
    <3>4. Deletes(x) => x.index # i
      BY <2>3, <2>8, <3>1, <3>3
    <3> QED
      BY <2>7, <3>3, <3>4
  <2>10. ASSUME NEW k \in DOMAIN lines, Answer(lines[k])
         PROVE  /\ target[lines[k].index] = lines[k].bp
                /\ \A m \in DOMAIN lines :
                    Answer(lines[m]) /\ lines[m].index = lines[k].index => m = k
                /\ \A m \in DOMAIN e.queue :
                    Deletes(e.queue[m]) => e.queue[m].index # lines[k].index
    BY <1>2, <2>3, <2>7, <2>8, <2>10 DEF Numbers
  <2>11. ASSUME NEW k \in DOMAIN e.queue, Deletes(e.queue[k])
         PROVE  /\ target[e.queue[k].index] = e.queue[k].bp
                /\ \A m \in DOMAIN e.queue :
                    Deletes(e.queue[m]) /\ e.queue[m].index = e.queue[k].index => m = k
    BY <1>2, <2>3, <2>7, <2>8, <2>11 DEF Numbers
  <2> QED
    BY <2>9, <2>10, <2>11 DEF Numbers
<1> QED
    BY <1>3, <1>4, <1>5

(* What leaves the delete commands alone and gives the list no number.     *)
LEMMA NumbersLess ==
    ASSUME NEW d \in Driver, NEW e \in Driver, NEW g, NEW h, Numbers(d, g),
           \A b \in Bp, i \in Index : Owns(e, h, b, i) => Owns(d, g, b, i),
           \/ e.queue = d.queue
           \/ \E c \in Command : ~Deletes(c) /\ e.queue = Append(d.queue, c)
    PROVE  Numbers(e, h)
<1>1. SUFFICES ASSUME quit = Idle, ~astray PROVE Numbers(e, h)
    BY DEF Numbers
<1>2. /\ \A k \in DOMAIN d.queue : k \in DOMAIN e.queue /\ e.queue[k] = d.queue[k]
      /\ \A k \in DOMAIN e.queue : Deletes(e.queue[k]) => k \in DOMAIN d.queue
  <2>1. ASSUME NEW c \in Command, ~Deletes(c), e.queue = Append(d.queue, c)
        PROVE  /\ \A k \in DOMAIN d.queue : k \in DOMAIN e.queue /\ e.queue[k] = d.queue[k]
               /\ \A k \in DOMAIN e.queue : Deletes(e.queue[k]) => k \in DOMAIN d.queue
    <3>1. d.queue \in Seq(Command)
      BY DEF Driver
    <3>2. PICK n : n = Len(d.queue) + 1
      OBVIOUS
    <3>3. /\ DOMAIN e.queue = DOMAIN d.queue \cup {n} /\ n \notin DOMAIN d.queue
          /\ \A k \in DOMAIN d.queue : e.queue[k] = d.queue[k]
          /\ e.queue[n] = c
      BY <2>1, <3>1, <3>2, AppendFacts
    <3> QED
      BY <2>1, <3>3
  <2> QED
    BY <2>1
<1>3. ASSUME NEW b \in Bp, NEW i \in Index, Owns(e, h, b, i)
      PROVE  /\ target[i] = b
             /\ \A k \in DOMAIN lines : Answer(lines[k]) => lines[k].index # i
             /\ \A k \in DOMAIN e.queue : Deletes(e.queue[k]) => e.queue[k].index # i
  <2>1. Owns(d, g, b, i)
    BY <1>3
  <2> QED
    BY <1>1, <1>2, <2>1 DEF Numbers
<1>4. ASSUME NEW k \in DOMAIN lines, Answer(lines[k])
      PROVE  /\ target[lines[k].index] = lines[k].bp
             /\ \A m \in DOMAIN lines :
                 Answer(lines[m]) /\ lines[m].index = lines[k].index => m = k
             /\ \A m \in DOMAIN e.queue :
                 Deletes(e.queue[m]) => e.queue[m].index # lines[k].index
    BY <1>1, <1>2, <1>4 DEF Numbers
<1>5. ASSUME NEW k \in DOMAIN e.queue, Deletes(e.queue[k])
      PROVE  /\ target[e.queue[k].index] = e.queue[k].bp
             /\ \A m \in DOMAIN e.queue :
                 Deletes(e.queue[m]) /\ e.queue[m].index = e.queue[k].index => m = k
    BY <1>1, <1>2, <1>5 DEF Numbers
<1> QED
    BY <1>3, <1>4, <1>5 DEF Numbers

LEMMA NumbersAdd ==
    ASSUME NEW d \in Driver, NEW b \in Bp, NEW g, Numbers(d, g)
    PROVE  Numbers(DriverAdd(d, b), g)
<1>1. PICK e \in Driver : e = DriverAdd(d, b)
    BY AddFacts
<1>2. CASE phase = "none"
    BY <1>2, AddFacts
<1>3. CASE phase # "none"
  <2>1. /\ e.queue = Append(d.queue, New(b)) /\ e.index = [d.index EXCEPT ![b] = -1]
        /\ e.stale = d.stale \ {b} /\ d.index \in [Bp -> Index \cup {-1}]
    BY <1>1, <1>3, AddFacts DEF Driver
  <2>2. \A c \in Bp, i \in Index : Owns(e, g, c, i) => Owns(d, g, c, i)
    BY <2>1, IndexFacts DEF Owns
  <2>3. New(b) \in Command /\ ~Deletes(New(b))
    BY CommandFacts DEF Deletes
  <2> QED
    BY <1>1, <2>1, <2>2, <2>3, NumbersLess
<1> QED
    BY <1>2, <1>3

LEMMA NumbersFresh ==
    ASSUME NEW d \in Driver, NEW b \in Bp, NEW g, Numbers(d, g)
    PROVE  Numbers(Fresh(d, b), g)
<1>1. PICK e \in Driver : e = Fresh(d, b)
    BY FreshFacts
<1>2. /\ e.queue = d.queue /\ e.index = [d.index EXCEPT ![b] = -1]
      /\ e.stale = d.stale \ {b} /\ d.index \in [Bp -> Index \cup {-1}]
    BY <1>1, FreshFacts DEF Driver
<1>3. \A c \in Bp, i \in Index : Owns(e, g, c, i) => Owns(d, g, c, i)
    BY <1>2, IndexFacts DEF Owns
<1> QED
    BY <1>1, <1>2, <1>3, NumbersLess

-----------------------------------------------------------------------------
(* What the calls leave alone.  Removed: removals, of the breakpoints D.   *)

Removed(d, e, D) ==
    /\ e.set = d.set /\ d.hurried \subseteq e.hurried
    /\ \A c \in Bp : Unanswered(e, c) => Unanswered(d, c)
    /\ \A c \in Bp : Unanswered(d, c) => Unanswered(e, c)
    /\ \A c \in Bp \ D : e.index[c] = d.index[c] /\ (c \in e.stale <=> c \in d.stale)
    /\ \A c \in Bp : d.index[c] = -1 => e.index[c] = -1
    /\ \A c \in D : phase # "none" /\ d.index[c] = -1 /\ Unanswered(d, c) => c \in e.hurried
    /\ phase = "none" => e = d

LEMMA AskKeeps ==
    ASSUME NEW d \in Driver, NEW e \in Driver, NEW c \in Command, NEW b \in Bp,
           e.queue = Append(d.queue, c), Unanswered(d, b)
    PROVE  Unanswered(e, b)
BY AskFacts DEF Unanswered

LEMMA RemovedOne ==
    ASSUME NEW d \in Driver, NEW b \in Bp
    PROVE  Removed(d, DriverRemove(d, b), {b})
<1>1. PICK e \in Driver : e = DriverRemove(d, b)
    BY RemoveFacts
<1>2. CASE phase = "none"
  <2>1. e = d
    BY <1>1, <1>2, RemoveFacts
  <2> QED
    BY <1>1, <1>2, <2>1 DEF Removed
<1>3. CASE phase # "none" /\ d.index[b] = -1
  <2>1. /\ e.queue = d.queue /\ e.index = d.index /\ e.stale = d.stale /\ e.set = d.set
        /\ e.hurried = Hurry(d, b, FALSE)
    BY <1>1, <1>3, RemoveFacts
  <2>2. \A c \in Bp : Unanswered(e, c) <=> Unanswered(d, c)
    BY <2>1 DEF Unanswered
  <2>3. d.hurried \subseteq e.hurried /\ (Unanswered(d, b) => b \in e.hurried)
    BY <2>1 DEF Hurry
  <2>4. Removed(d, e, {b})
    BY <1>3, <2>1, <2>2, <2>3 DEF Removed
  <2> QED
    BY <1>1, <2>4
<1>4. CASE phase # "none" /\ d.index[b] # -1
  <2>1. PICK x \in Command : x = DeleteOf(d, b)
    BY <1>4, CommandFacts
  <2>2. \A c \in Bp : x # New(c)
    BY <1>4, <2>1, CommandFacts
  <2>3. /\ e.queue = Append(d.queue, x) /\ e.index = [d.index EXCEPT ![b] = -1]
        /\ e.stale = d.stale \ {b} /\ e.hurried = d.hurried /\ e.set = d.set
        /\ d.index \in [Bp -> Index \cup {-1}]
    <3>1. d.index \in [Bp -> Index \cup {-1}]
      BY DEF Driver
    <3> QED
      BY <1>1, <1>4, <2>1, <3>1, RemoveFacts
  <2>4. \A c \in Bp : Unanswered(e, c) => Unanswered(d, c)
    BY <2>2, <2>3, AskOther
  <2>5. \A c \in Bp : Unanswered(d, c) => Unanswered(e, c)
    BY <2>3, AskKeeps
  <2>6. /\ \A c \in Bp \ {b} : e.index[c] = d.index[c] /\ (c \in e.stale <=> c \in d.stale)
        /\ \A c \in Bp : d.index[c] = -1 => e.index[c] = -1
    BY <2>3
  <2>7. Removed(d, e, {b})
    BY <1>4, <2>3, <2>4, <2>5, <2>6 DEF Removed
  <2> QED
    BY <1>1, <2>7
<1> QED
    BY <1>2, <1>3, <1>4

LEMMA RemovedMore ==
    ASSUME NEW d \in Driver, NEW e \in Driver, NEW f \in Driver,
           NEW D \in SUBSET Bp, NEW b \in Bp, Removed(d, e, D), Removed(e, f, {b})
    PROVE  Removed(d, f, D \cup {b})
<1>1. f.set = d.set /\ d.hurried \subseteq f.hurried /\ (phase = "none" => f = d)
    BY DEF Removed
<1>2. \A c \in Bp : Unanswered(f, c) => Unanswered(d, c)
    BY DEF Removed
<1>3. \A c \in Bp : Unanswered(d, c) => Unanswered(f, c)
    BY DEF Removed
<1>4. ASSUME NEW c \in Bp \ (D \cup {b})
      PROVE  f.index[c] = d.index[c] /\ (c \in f.stale <=> c \in d.stale)
  <2>1. e.index[c] = d.index[c] /\ (c \in e.stale <=> c \in d.stale)
    BY <1>4 DEF Removed
  <2>2. f.index[c] = e.index[c] /\ (c \in f.stale <=> c \in e.stale)
    BY <1>4 DEF Removed
  <2> QED
    BY <2>1, <2>2
<1>5. \A c \in Bp : d.index[c] = -1 => f.index[c] = -1
    BY DEF Removed
<1>6. ASSUME NEW c \in D \cup {b}, phase # "none", d.index[c] = -1, Unanswered(d, c)
      PROVE  c \in f.hurried
  <2>1. c \in D => c \in e.hurried
    BY <1>6 DEF Removed
  <2>2. e.index[c] = -1 /\ Unanswered(e, c) /\ e.hurried \subseteq f.hurried
    BY <1>6 DEF Removed
  <2>3. c = b => c \in f.hurried
    BY <1>6, <2>2 DEF Removed
  <2> QED
    BY <1>6, <2>1, <2>2, <2>3
<1> QED
    BY <1>1, <1>2, <1>3, <1>4, <1>5, <1>6 DEF Removed

(* RemoveBreakpoint for each of a list.                                    *)
LEMMA RemoveEachFacts ==
    ASSUME NEW d \in Driver, NEW l \in Seq(Bp)
    PROVE  /\ RemoveEach(d, l) \in Driver
           /\ Removed(d, RemoveEach(d, l), ToSet(l))
           /\ \A L : phase # "none" /\ Kin(d, L) => Kin(RemoveEach(d, l), L \ ToSet(l))
           /\ \A g : Numbers(d, g) /\ Closed(g) => Numbers(RemoveEach(d, l), g)
<1>0. \A b \in ToSet(l) : b \in Bp
    BY DEF ToSet
<1>1. RemoveEach(d, l) \in Driver /\ Removed(d, RemoveEach(d, l), ToSet(l))
  <2> DEFINE I == {p \in Driver \X SUBSET Bp : Removed(d, p[1], p[2])}
  <2>1. <<d, {}>> \in I
    BY DEF Removed
  <2>2. ASSUME NEW e \in Driver, NEW D \in SUBSET Bp, NEW b \in ToSet(l), <<e, D>> \in I
        PROVE  <<DriverRemove(e, b), D \cup {b}>> \in I
    <3>1. PICK f \in Driver : f = DriverRemove(e, b)
      BY <1>0, RemoveFacts
    <3>2. Removed(d, e, D) /\ Removed(e, f, {b}) /\ b \in Bp
      BY <1>0, <2>2, <3>1, RemovedOne
    <3>3. Removed(d, f, D \cup {b}) /\ D \cup {b} \in SUBSET Bp
      BY <3>2, RemovedMore
    <3> QED
      BY <3>1, <3>3
  <2>3. RemoveEach(d, l) \in Driver /\ <<RemoveEach(d, l), ToSet(l)>> \in I
    <3> HIDE DEF I
    <3> QED
      BY <2>1, <2>2, RemoveEachInduction
  <2> QED
    BY <2>3
<1>2. ASSUME NEW L, phase # "none", Kin(d, L) PROVE Kin(RemoveEach(d, l), L \ ToSet(l))
  <2> DEFINE I == {p \in Driver \X SUBSET Bp : Kin(p[1], L \ p[2])}
  <2>1. <<d, {}>> \in I
    <3>1. L \ {} = L
      OBVIOUS
    <3> QED
      BY <3>1, <1>2
  <2>2. ASSUME NEW e \in Driver, NEW D \in SUBSET Bp, NEW b \in ToSet(l), <<e, D>> \in I
        PROVE  <<DriverRemove(e, b), D \cup {b}>> \in I
    <3>1. PICK f \in Driver : f = DriverRemove(e, b)
      BY <1>0, RemoveFacts
    <3>2. Kin(e, L \ D) /\ b \in Bp
      BY <1>0, <2>2
    <3>3. Kin(f, (L \ D) \ {b})
      BY <1>2, <3>1, <3>2, KinRemove
    <3>4. (L \ D) \ {b} = L \ (D \cup {b}) /\ D \cup {b} \in SUBSET Bp
      BY <3>2
    <3> QED
      BY <3>1, <3>3, <3>4
  <2>3. <<RemoveEach(d, l), ToSet(l)>> \in I
    <3> HIDE DEF I
    <3> QED
      BY <2>1, <2>2, RemoveEachInduction
  <2> QED
    BY <2>3
<1>3. ASSUME NEW g, Numbers(d, g), Closed(g) PROVE Numbers(RemoveEach(d, l), g)
  <2> DEFINE I == {p \in Driver \X SUBSET Bp : Numbers(p[1], g)}
  <2>1. <<d, {}>> \in I
    BY <1>3
  <2>2. ASSUME NEW e \in Driver, NEW D \in SUBSET Bp, NEW b \in ToSet(l), <<e, D>> \in I
        PROVE  <<DriverRemove(e, b), D \cup {b}>> \in I
    <3>1. PICK f \in Driver : f = DriverRemove(e, b)
      BY <1>0, RemoveFacts
    <3>2. Numbers(e, g) /\ b \in Bp /\ D \cup {b} \in SUBSET Bp
      BY <1>0, <2>2
    <3>3. Numbers(f, g)
      BY <1>3, <3>1, <3>2, NumbersRemove
    <3> QED
      BY <3>1, <3>2, <3>3
  <2>3. <<RemoveEach(d, l), ToSet(l)>> \in I
    <3> HIDE DEF I
    <3> QED
      BY <2>1, <2>2, RemoveEachInduction
  <2> QED
    BY <2>3
<1> QED
    BY <1>1, <1>2, <1>3

(* AddBreakpoint for each of a list, on a driver that runs.                *)
Added(d, e, D) ==
    /\ d.hurried \subseteq e.hurried /\ e.set \subseteq d.set \cup D
    /\ \A c \in Bp : Unanswered(d, c) => Unanswered(e, c)
    /\ \A c \in Bp \ D : Unanswered(e, c) => Unanswered(d, c)
    /\ \A c \in D : Unanswered(e, c) /\ e.index[c] = -1
    /\ \A c \in Bp : d.index[c] = -1 => e.index[c] = -1

LEMMA AddedOne ==
    ASSUME NEW d \in Driver, NEW b \in Bp, phase # "none"
    PROVE  Added(d, DriverAdd(d, b), {b})
<1>1. PICK e \in Driver : e = DriverAdd(d, b)
    BY AddFacts
<1>2. New(b) \in Command /\ \A c \in Bp : New(b) = New(c) => c = b
    BY CommandFacts DEF New
<1>3. d.index \in [Bp -> Index \cup {-1}]
    BY DEF Driver
<1>4. /\ e.queue = Append(d.queue, New(b)) /\ e.index = [d.index EXCEPT ![b] = -1]
      /\ e.hurried = Hurry(d, b, Forgets(d, b)) /\ e.set = d.set \cup {b}
    BY <1>1, AddFacts
<1>5. d.hurried \subseteq e.hurried /\ e.set \subseteq d.set \cup {b}
    BY <1>4 DEF Hurry
<1>6. \A c \in Bp : Unanswered(d, c) => Unanswered(e, c)
    BY <1>2, <1>4, AskKeeps
<1>7. \A c \in Bp \ {b} : Unanswered(e, c) => Unanswered(d, c)
    BY <1>2, <1>4, AskOther
<1>8. Unanswered(e, b)
    BY <1>4, AskNew
<1>9. e.index[b] = -1 /\ \A c \in Bp : d.index[c] = -1 => e.index[c] = -1
    BY <1>3, <1>4
<1>10. Added(d, e, {b})
    BY <1>5, <1>6, <1>7, <1>8, <1>9 DEF Added
<1> QED
    BY <1>1, <1>10

LEMMA AddedMore ==
    ASSUME NEW d \in Driver, NEW e \in Driver, NEW f \in Driver,
           NEW D \in SUBSET Bp, NEW b \in Bp, Added(d, e, D), Added(e, f, {b})
    PROVE  Added(d, f, D \cup {b})
BY DEF Added

LEMMA AddEachFacts ==
    ASSUME NEW d \in Driver, NEW l \in Seq(Bp), phase # "none"
    PROVE  /\ AddEach(d, l) \in Driver
           /\ Added(d, AddEach(d, l), ToSet(l))
           /\ \A L : Kin(d, L) /\ ToSet(l) \subseteq L => Kin(AddEach(d, l), L)
           /\ \A g : Numbers(d, g) => Numbers(AddEach(d, l), g)
<1>0. \A b \in ToSet(l) : b \in Bp
    BY DEF ToSet
<1>1. AddEach(d, l) \in Driver /\ Added(d, AddEach(d, l), ToSet(l))
  <2> DEFINE I == {p \in Driver \X SUBSET Bp : Added(d, p[1], p[2])}
  <2>1. <<d, {}>> \in I
    BY DEF Added
  <2>2. ASSUME NEW e \in Driver, NEW D \in SUBSET Bp, NEW b \in ToSet(l), <<e, D>> \in I
        PROVE  <<DriverAdd(e, b), D \cup {b}>> \in I
    <3>1. PICK f \in Driver : f = DriverAdd(e, b)
      BY <1>0, AddFacts
    <3>2. Added(d, e, D) /\ Added(e, f, {b}) /\ b \in Bp
      BY <1>0, <2>2, <3>1, AddedOne
    <3>3. Added(d, f, D \cup {b}) /\ D \cup {b} \in SUBSET Bp
      BY <3>2, AddedMore
    <3> QED
      BY <3>1, <3>3
  <2>3. AddEach(d, l) \in Driver /\ <<AddEach(d, l), ToSet(l)>> \in I
    <3> HIDE DEF I
    <3> QED
      BY <2>1, <2>2, AddEachInduction
  <2> QED
    BY <2>3
<1>2. ASSUME NEW L, Kin(d, L), ToSet(l) \subseteq L PROVE Kin(AddEach(d, l), L)
  <2> DEFINE I == {p \in Driver \X SUBSET Bp : Kin(p[1], L)}
  <2>1. <<d, {}>> \in I
    BY <1>2
  <2>2. ASSUME NEW e \in Driver, NEW D \in SUBSET Bp, NEW b \in ToSet(l), <<e, D>> \in I
        PROVE  <<DriverAdd(e, b), D \cup {b}>> \in I
    <3>1. PICK f \in Driver : f = DriverAdd(e, b)
      BY <1>0, AddFacts
    <3>2. Kin(e, L) /\ b \in Bp /\ b \in L /\ D \cup {b} \in SUBSET Bp
      BY <1>0, <1>2, <2>2
    <3>3. Kin(f, L)
      BY <3>1, <3>2, KinAdd
    <3> QED
      BY <3>1, <3>2, <3>3
  <2>3. <<AddEach(d, l), ToSet(l)>> \in I
    <3> HIDE DEF I
    <3> QED
      BY <2>1, <2>2, AddEachInduction
  <2> QED
    BY <2>3
<1>3. ASSUME NEW g, Numbers(d, g) PROVE Numbers(AddEach(d, l), g)
  <2> DEFINE I == {p \in Driver \X SUBSET Bp : Numbers(p[1], g)}
  <2>1. <<d, {}>> \in I
    BY <1>3
  <2>2. ASSUME NEW e \in Driver, NEW D \in SUBSET Bp, NEW b \in ToSet(l), <<e, D>> \in I
        PROVE  <<DriverAdd(e, b), D \cup {b}>> \in I
    <3>1. PICK f \in Driver : f = DriverAdd(e, b)
      BY <1>0, AddFacts
    <3>2. Numbers(e, g) /\ b \in Bp /\ D \cup {b} \in SUBSET Bp
      BY <1>0, <2>2
    <3>3. Numbers(f, g)
      BY <3>1, <3>2, NumbersAdd
    <3> QED
      BY <3>1, <3>2, <3>3
  <2>3. <<AddEach(d, l), ToSet(l)>> \in I
    <3> HIDE DEF I
    <3> QED
      BY <2>1, <2>2, AddEachInduction
  <2> QED
    BY <2>3
<1> QED
    BY <1>1, <1>2, <1>3

-----------------------------------------------------------------------------
(* The operations made of several calls. *)

LEMMA TemporariesRemoved ==
    ASSUME NEW d, NEW e, NEW D, NEW A, NEW B \in SUBSET Bp, NEW g,
           Temporaries(d, B, g), Removed(d, e, D), A \subseteq B
    PROVE  Temporaries(e, A, g)
BY DEF Temporaries, Removed

LEMMA TemporariesAdded ==
    ASSUME NEW d, NEW e, NEW D, NEW B \in SUBSET Bp, NEW g,
           Temporaries(d, B, g), Added(d, e, D)
    PROVE  Temporaries(e, B, g)
BY DEF Temporaries, Added

LEMMA CreatedFacts ==
    ASSUME PhaseInv, NEW d \in Driver, NEW b \in Bp, NEW L \in SUBSET Bp,
           NEW old \in L \cup {NoBp}, b # old, Kin(d, L),
           phase = "none" => d.queue = <<>>,
           ~Unanswered(d, b), \A i \in Index : target[i] # b
    PROVE  /\ Created(d, b, old) \in Driver
           /\ Kin(Created(d, b, old), (L \ {old}) \cup {b})
           /\ phase = "none" => Created(d, b, old).queue = <<>>
           /\ d.hurried \ {b} \subseteq Created(d, b, old).hurried
           /\ \A c \in {old} \cap Bp : phase # "none" /\ d.index[c] = -1 /\ Unanswered(d, c)
                => c \in Created(d, b, old).hurried
           /\ \A g : Numbers(d, g) /\ Closed(g) => Numbers(Created(d, b, old), g)
           /\ \A g, B : B \in SUBSET Bp /\ b \notin B /\ Temporaries(d, B, g) /\ g.bp # b
                => Temporaries(Created(d, b, old), B \cup {b}, g)
<1>1. PICK r \in Driver : r = IF old = NoBp THEN d ELSE DriverRemove(d, old)
    BY RemoveFacts
<1>2. PICK f \in Driver : f = Fresh(r, b)
    BY FreshFacts
<1>3. PICK e \in Driver : e = DriverAdd(f, b)
    BY AddFacts
<1>4. Created(d, b, old) = e
    BY <1>1, <1>2, <1>3 DEF Created
<1>5. Removed(d, r, {old} \cap Bp)
  <2>1. CASE old = NoBp
    <3>1. r = d /\ {old} \cap Bp = {}
      BY <1>1, <2>1, IndexFacts
    <3> QED
      BY <3>1 DEF Removed
  <2>2. CASE old # NoBp
    <3>1. r = DriverRemove(d, old) /\ {old} \cap Bp = {old} /\ old \in Bp
      BY <1>1, <2>2
    <3> QED
      BY <3>1, RemovedOne
  <2> QED
    BY <2>1, <2>2
<1>6. phase # "none" => Kin(r, L \ {old})
  <2>1. CASE old = NoBp
    <3>1. r = d /\ L \ {old} = L
      BY <1>1, <2>1, IndexFacts
    <3> QED
      BY <3>1
  <2>2. CASE old # NoBp
    BY <1>1, <2>2, KinRemove
  <2> QED
    BY <2>1, <2>2
<1>7. ~Unanswered(r, b)
    BY <1>5 DEF Removed
<1>8. /\ f.queue = r.queue /\ f.index = [r.index EXCEPT ![b] = -1]
      /\ f.set = r.set \ {b} /\ f.hurried = r.hurried \ {b}
      /\ r.index \in [Bp -> Index \cup {-1}]
  <2>1. r.index \in [Bp -> Index \cup {-1}]
    BY DEF Driver
  <2> QED
    BY <1>2, <2>1, FreshFacts
<1>9. ASSUME phase = "none"
      PROVE  /\ Kin(e, (L \ {old}) \cup {b}) /\ e.queue = <<>>
             /\ d.hurried \ {b} \subseteq e.hurried
  <2>1. e = f /\ r = d
    BY <1>3, <1>5, <1>9, AddFacts DEF Removed
  <2>2. e.queue = <<>> /\ Kin(e, (L \ {old}) \cup {b})
    <3>1. e.queue = <<>>
      BY <1>8, <1>9, <2>1
    <3> QED
      BY <1>9, <3>1, KinNone
  <2> QED
    BY <1>8, <2>1, <2>2
<1>10. ASSUME phase # "none"
       PROVE  /\ Kin(e, (L \ {old}) \cup {b}) /\ d.hurried \ {b} \subseteq e.hurried
              /\ \A c \in {old} \cap Bp :
                    d.index[c] = -1 /\ Unanswered(d, c) => c \in e.hurried
  <2>1. Kin(f, L \ {old}) /\ ~Unanswered(f, b)
    BY <1>2, <1>6, <1>7, <1>10, KinFresh
  <2>2. Kin(f, (L \ {old}) \cup {b})
    BY <2>1, KinMore
  <2>3. Kin(e, (L \ {old}) \cup {b})
    BY <1>3, <1>10, <2>2, KinAdd
  <2>4. Added(f, e, {b})
    BY <1>3, <1>10, AddedOne
  <2>5. d.hurried \ {b} \subseteq e.hurried
    BY <1>5, <1>8, <2>4 DEF Removed, Added
  <2>6. ASSUME NEW c \in {old} \cap Bp, d.index[c] = -1, Unanswered(d, c)
        PROVE  c \in e.hurried
    <3>1. c \in r.hurried /\ c # b
      BY <1>5, <1>10, <2>6 DEF Removed
    <3> QED
      BY <1>8, <2>4, <3>1 DEF Added
  <2> QED
    BY <2>3, <2>5, <2>6
<1>11. ASSUME NEW g, Numbers(d, g), Closed(g) PROVE Numbers(e, g)
  <2>1. Numbers(r, g)
    BY <1>1, <1>11, NumbersRemove
  <2>2. Numbers(f, g)
    BY <1>2, <2>1, NumbersFresh
  <2> QED
    BY <1>3, <2>2, NumbersAdd
<1>12. ASSUME NEW g, NEW B, B \in SUBSET Bp, b \notin B, Temporaries(d, B, g), g.bp # b
       PROVE  Temporaries(e, B \cup {b}, g)
  <2>1. Temporaries(r, B, g)
    BY <1>5, <1>12, TemporariesRemoved
  <2>2. \A c \in Bp : Unanswered(r, c) => Unanswered(f, c)
    BY <1>8 DEF Unanswered
  <2>3. Temporaries(f, B \cup {b}, g)
    BY <1>8, <1>12, <2>1, <2>2 DEF Temporaries
  <2>4. CASE phase = "none"
    BY <1>3, <2>3, <2>4, AddFacts
  <2>5. CASE phase # "none"
    <3>1. Added(f, e, {b}) /\ B \cup {b} \in SUBSET Bp
      BY <1>3, <1>12, <2>5, AddedOne
    <3> QED
      BY <2>3, <3>1, TemporariesAdded
  <2> QED
    BY <2>4, <2>5
<1> QED
    BY <1>4, <1>9, <1>10, <1>11, <1>12

(* EnableBreakpoint, and the end of UpdateBreakpoint.                      *)
LEMMA ResetFacts ==
    ASSUME NEW d \in Driver, NEW b \in Bp
    PROVE  /\ Reset(d, b) \in Driver
           /\ phase = "none" => Reset(d, b) = d
           /\ phase # "none" =>
                /\ d.hurried \subseteq Reset(d, b).hurried
                /\ Unanswered(Reset(d, b), b) /\ Reset(d, b).index[b] = -1
           /\ \A L : phase # "none" /\ Kin(d, L) /\ b \in L => Kin(Reset(d, b), L)
           /\ \A g : Numbers(d, g) /\ Closed(g) => Numbers(Reset(d, b), g)
           /\ \A g, B : B \in SUBSET Bp /\ Temporaries(d, B, g)
                => Temporaries(Reset(d, b), B, g)
<1>1. PICK r \in Driver : r = DriverRemove(d, b)
    BY RemoveFacts
<1>2. PICK e \in Driver : e = DriverAdd(r, b)
    BY AddFacts
<1>3. Reset(d, b) = e
    BY <1>1, <1>2 DEF Reset
<1>4. phase = "none" => e = d
    BY <1>1, <1>2, RemoveFacts, AddFacts
<1>5. Removed(d, r, {b}) /\ (phase # "none" => Added(r, e, {b}))
    BY <1>1, <1>2, RemovedOne, AddedOne
<1>6. ASSUME phase # "none"
      PROVE  d.hurried \subseteq e.hurried /\ Unanswered(e, b) /\ e.index[b] = -1
    BY <1>5, <1>6 DEF Removed, Added
<1>7. ASSUME NEW L, phase # "none", Kin(d, L), b \in L PROVE Kin(e, L)
  <2>1. Kin(r, L \ {b})
    BY <1>1, <1>7, KinRemove
  <2>2. Kin(r, L)
    BY <2>1, KinMore
  <2> QED
    BY <1>2, <1>7, <2>2, KinAdd
<1>8. ASSUME NEW g, Numbers(d, g), Closed(g) PROVE Numbers(e, g)
  <2>1. Numbers(r, g)
    BY <1>1, <1>8, NumbersRemove
  <2> QED
    BY <1>2, <2>1, NumbersAdd
<1>9. ASSUME NEW g, NEW B, B \in SUBSET Bp, Temporaries(d, B, g)
      PROVE  Temporaries(e, B, g)
  <2>1. Temporaries(r, B, g)
    BY <1>5, <1>9, TemporariesRemoved
  <2>2. CASE phase = "none"
    BY <1>4, <1>9, <2>2
  <2>3. CASE phase # "none"
    BY <1>5, <1>9, <2>1, <2>3, TemporariesAdded
  <2> QED
    BY <2>2, <2>3
<1> QED
    BY <1>3, <1>4, <1>6, <1>7, <1>8, <1>9

-----------------------------------------------------------------------------
(* The inductive invariant: types, and the facts above.                    *)

ListType == list \in Seq(Bp) /\ IsInjective(list) /\ temporary \in SUBSET Bp
DialogType == dialog \in [bp : Bp \cup {NoBp}, index : Index \cup {-1},
                          set : BOOLEAN, stale : BOOLEAN]
PhaseType == phase \in {"none", "starting", "ready"} /\ calls \in 0..MaxCalls
PeerType == /\ lines \in Seq(Line) /\ target \in [Index -> Bp \cup {NoBp}]
            /\ cpu \in CpuState
HistoryType == dropped \in SUBSET Bp /\ refused \in SUBSET Bp /\ astray \in BOOLEAN
DriverType == Now \in Driver

ListInv ==
    /\ ListType /\ DialogType /\ PhaseType /\ PeerType /\ HistoryType /\ DriverType
    /\ PhaseInv /\ KinInv /\ NumbersInv /\ DialogInv

LEMMA NowFacts ==
    /\ Now.queue = queue /\ Now.index = index /\ Now.set = alreadySet
    /\ Now.stale = stale /\ Now.hurried = hurried
BY DEF Now

(* An operation that ends with the record d, the target and its output     *)
(* being left alone.                                                       *)
LEMMA Lands ==
    ASSUME ListInv, NEW d \in Driver, Becomes(d),
           UNCHANGED <<lines, target, quit, astray>>,
           ListType', DialogType', PhaseType', HistoryType',
           cpu' \in CpuState,
           Kin(d, ToSet(list')), Numbers(d, dialog'), Edited(d, ToSet(list'), dialog'),
           phase = "none" => d.queue = <<>>,
           \/ phase' = "ready" /\ phase # "none"
           \/ phase' = phase /\ Temporaries(d, ToSet(list') \cap temporary', dialog')
    PROVE  ListInv'
<1>1. PICK n : n = Now'
    OBVIOUS
<1>2. n = d
  <2>1. d = [queue |-> d.queue, index |-> d.index, set |-> d.set,
             stale |-> d.stale, hurried |-> d.hurried]
    BY DEF Driver
  <2>2. n = [queue |-> d.queue, index |-> d.index, set |-> d.set,
             stale |-> d.stale, hurried |-> d.hurried]
    BY <1>1 DEF Becomes, Now
  <2> QED
    BY <2>1, <2>2
<1>3. Now' = d /\ queue' = d.queue
    BY <1>1, <1>2 DEF Becomes
<1>4. DriverType'
  <2>1. Driver' = Driver
    BY DEF Driver, Command
  <2> QED
    BY <1>3, <2>1 DEF DriverType
<1>5. PeerType'
    BY DEF ListInv, PeerType
<1>6. PhaseInv'
    BY <1>3 DEF ListInv, PhaseInv
<1>7. PICK M : M = ToSet(list')
    OBVIOUS
<1>8. Kin(d, M)
    BY <1>7
<1>9. KinInv'
  <2>1. KinInv' <=> Kin(Now, ToSet(list))'
    BY DEF KinInv
  <2>2. Kin(Now, ToSet(list))'
    BY <1>3, <1>7, <1>8
       DEF Kin, OnceAsked, Unanswered, Accounted, Answers, New, ToSet
  <2> QED
    BY <2>1, <2>2
<1>10. NumbersInv'
  <2>1. PICK g : g = dialog'
    OBVIOUS
  <2>2. Numbers(d, g)
    BY <2>1
  <2>3. Numbers(Now, dialog)'
    BY <1>3, <2>1, <2>2 DEF Numbers, Owns, Answer, Deletes
  <2> QED
    BY <2>3 DEF NumbersInv
<1>11. DialogInv'
  <2>1. PICK g : g = dialog'
    OBVIOUS
  <2>2. PICK B : B = ToSet(list') \cap temporary'
    OBVIOUS
  <2>3. Edited(Now, ToSet(list), dialog)'
    <3>1. Edited(d, M, g)
      BY <1>7, <2>1
    <3> QED
      BY <1>3, <1>7, <2>1, <3>1 DEF Edited, ListInv, ToSet
  <2>4. Temporaries(Now, ToSet(list) \cap temporary, dialog)'
    <3>1. CASE phase' = "ready"
      BY <3>1 DEF Temporaries
    <3>2. CASE phase' = phase /\ Temporaries(d, B, g)
      BY <1>3, <2>1, <2>2, <3>2 DEF Temporaries, Unanswered, ToSet
    <3> QED
      BY <2>1, <2>2, <3>1, <3>2
  <2> QED
    BY <2>3, <2>4 DEF DialogInv
<1> QED
    BY <1>4, <1>5, <1>6, <1>9, <1>10, <1>11 DEF ListInv

-----------------------------------------------------------------------------
(* The user's operations. *)

LEMMA CalledFacts ==
    ASSUME ListInv, Called
    PROVE  /\ dialog = NoDialog /\ dialog.bp = NoBp /\ Closed(dialog)
           /\ UNCHANGED <<quit, lines, target, cpu>>
           /\ cpu' \in CpuState
           /\ calls' \in 0..MaxCalls
<1>1. dialog = NoDialog /\ dialog.bp = NoBp /\ Closed(dialog)
    BY IndexFacts DEF Called, NoDialog, Closed
<1>2. UNCHANGED <<quit, lines, target, cpu>>
    BY DEF Called, peerVars
<1>3. calls' \in 0..MaxCalls
    BY BreakpointAssumption DEF Called, ListInv, PhaseType
<1> QED
    BY <1>1, <1>2, <1>3 DEF ListInv, PeerType

LEMMA NowKin ==
    ASSUME ListInv
    PROVE  /\ Now \in Driver /\ Kin(Now, ToSet(list)) /\ Numbers(Now, dialog)
           /\ Temporaries(Now, ToSet(list) \cap temporary, dialog)
           /\ Edited(Now, ToSet(list), dialog)
           /\ phase = "none" => Now.queue = <<>>
           /\ ToSet(list) \in SUBSET Bp /\ list \in Seq(Bp) /\ IsInjective(list)
           /\ temporary \in SUBSET Bp
<1>1. ToSet(list) \in SUBSET Bp
    BY DEF ListInv, ListType, ToSet
<1> QED
    BY <1>1, NowFacts
       DEF ListInv, DriverType, KinInv, NumbersInv, DialogInv, PhaseInv, ListType

(* The list after DebuggerState::AddBreakpoint. *)
LEMMA ListedFacts ==
    ASSUME NEW l \in Seq(Bp), IsInjective(l), NEW b \in Bp, b \notin ToSet(l), NEW old
    PROVE  /\ Listed(l, b, old) \in Seq(Bp) /\ IsInjective(Listed(l, b, old))
           /\ ToSet(Listed(l, b, old)) = (ToSet(l) \ {old}) \cup {b}
<1>1. PICK k \in Seq(Bp) : k = Only(l, Bp \ {old})
    BY OnlyFacts
<1>2. ToSet(k) = ToSet(l) \cap (Bp \ {old}) /\ IsInjective(k)
    BY <1>1, OnlyFacts
<1>3. \A c \in ToSet(l) : c \in Bp
    BY DEF ToSet
<1>4. Listed(l, b, old) = Append(k, b)
    BY <1>1 DEF Listed
<1> QED
    BY <1>2, <1>3, <1>4, AppendSet

LEMMA AddBreakpointStep ==
    ASSUME ListInv, NEW t \in BOOLEAN, AddBreakpoint(t)
    PROVE  ListInv'
<1>1. PICK b \in Unused, old \in Replaceable(t) :
        /\ Becomes(Created(Now, b, old))
        /\ list' = Listed(list, b, old)
        /\ Marked(b, t) /\ Renewed({b})
    BY DEF AddBreakpoint
<1>2. /\ Called /\ UNCHANGED <<dialog, phase, astray>>
    BY DEF AddBreakpoint
<1>3. /\ b \in Bp /\ b \notin ToSet(list) /\ ~Unanswered(Now, b)
      /\ \A i \in Index : target[i] # b
    BY DEF Unused
<1>4. old \in ToSet(list) \cup {NoBp} /\ b # old
    BY <1>3, IndexFacts DEF Replaceable
<1>5. PICK n \in Driver : n = Now
    BY NowKin
<1>6. PICK L \in SUBSET Bp : L = ToSet(list)
    BY NowKin
<1>7. PICK d : d = Created(n, b, old)
    OBVIOUS
<1>8. PhaseInv
    BY DEF ListInv
<1>9. /\ Kin(n, L) /\ Numbers(n, dialog) /\ (phase = "none" => n.queue = <<>>)
      /\ Temporaries(n, L \cap temporary, dialog)
    BY <1>5, <1>6, NowKin
<1>10. /\ dialog.bp = NoBp /\ Closed(dialog) /\ UNCHANGED <<quit, lines, target>>
       /\ cpu' \in CpuState /\ calls' \in 0..MaxCalls
    BY <1>2, CalledFacts
<1>11. /\ d \in Driver /\ Kin(d, (L \ {old}) \cup {b})
       /\ phase = "none" => d.queue = <<>>
       /\ Numbers(n, dialog) /\ Closed(dialog) => Numbers(d, dialog)
       /\ \A B : B \in SUBSET Bp /\ b \notin B /\ Temporaries(n, B, dialog) /\ dialog.bp # b
                => Temporaries(d, B \cup {b}, dialog)
    BY <1>3, <1>4, <1>5, <1>6, <1>7, <1>8, <1>9, CreatedFacts
<1>12. /\ list' \in Seq(Bp) /\ IsInjective(list')
       /\ ToSet(list') = (L \ {old}) \cup {b}
    BY <1>1, <1>3, <1>6, NowKin, ListedFacts
<1>13. /\ temporary' \in SUBSET Bp /\ temporary' \subseteq temporary \cup {b}
    BY <1>1, <1>3, NowKin DEF Marked
<1>14. Temporaries(d, ToSet(list') \cap temporary', dialog')
  <2>1. PICK B \in SUBSET Bp : B = L \cap temporary
    OBVIOUS
  <2>2. Temporaries(d, B \cup {b}, dialog)
    BY <1>3, <1>6, <1>9, <1>10, <1>11, <2>1, IndexFacts
  <2>3. ToSet(list') \cap temporary' \subseteq B \cup {b}
    BY <1>12, <1>13, <2>1
  <2> QED
    BY <1>2, <2>2, <2>3 DEF Temporaries
<1>15. Edited(d, ToSet(list'), dialog')
    BY <1>2, <1>10, IndexFacts DEF Edited
<1>16. ListType' /\ DialogType' /\ PhaseType' /\ HistoryType'
    BY <1>1, <1>2, <1>10, <1>12, <1>13
       DEF ListInv, ListType, DialogType, PhaseType, HistoryType, Renewed
<1>17. Kin(d, ToSet(list')) /\ Numbers(d, dialog')
    BY <1>2, <1>9, <1>10, <1>11, <1>12
<1>18. Becomes(d)
    BY <1>1, <1>5, <1>7
<1> QED
    BY <1>2, <1>10, <1>11, <1>14, <1>15, <1>16, <1>17, <1>18, Lands

(* What is left of the list, for the type invariant. *)
LEMMA OnlyListed ==
    ASSUME ListInv, NEW A
    PROVE  /\ Only(list, A) \in Seq(Bp) /\ IsInjective(Only(list, A))
           /\ ToSet(Only(list, A)) = ToSet(list) \cap A
BY NowKin, OnlyFacts

(* Removals leave the list without the breakpoints removed. *)
LEMMA RemovalLands ==
    ASSUME ListInv, Called, UNCHANGED <<temporary, dialog, phase, astray>>,
           dropped' \in SUBSET Bp, refused' \in SUBSET Bp,
           NEW d \in Driver, Becomes(d), NEW D, Removed(Now, d, D),
           list' \in Seq(Bp), IsInjective(list'), ToSet(list') \subseteq ToSet(list),
           Kin(d, ToSet(list')), Numbers(d, dialog)
    PROVE  ListInv'
<1>1. /\ dialog.bp = NoBp /\ UNCHANGED <<quit, lines, target>>
      /\ cpu' \in CpuState /\ calls' \in 0..MaxCalls
    BY CalledFacts
<1>2. /\ Temporaries(Now, ToSet(list) \cap temporary, dialog)
      /\ ToSet(list) \cap temporary \in SUBSET Bp
      /\ phase = "none" => Now.queue = <<>>
    BY NowKin
<1>3. ToSet(list') \cap temporary' \subseteq ToSet(list) \cap temporary
    OBVIOUS
<1>4. Temporaries(d, ToSet(list') \cap temporary', dialog')
  <2>1. Temporaries(d, ToSet(list') \cap temporary', dialog)
    BY <1>2, <1>3, TemporariesRemoved
  <2> QED
    BY <2>1
<1>5. Edited(d, ToSet(list'), dialog')
    BY <1>1, IndexFacts DEF Edited
<1>6. ListType' /\ DialogType' /\ PhaseType' /\ HistoryType'
    BY <1>1 DEF ListInv, ListType, DialogType, PhaseType, HistoryType
<1>7. phase = "none" => d.queue = <<>>
    BY <1>2 DEF Removed
<1> QED
    BY <1>1, <1>4, <1>5, <1>6, <1>7, Lands

LEMMA DeleteBreakpointStep ==
    ASSUME ListInv, NEW b \in Bp, DeleteBreakpoint(b)
    PROVE  ListInv'
<1>1. /\ Called /\ Becomes(DriverRemove(Now, b)) /\ list' = Only(list, Bp \ {b})
      /\ UNCHANGED <<temporary, dialog, phase, dropped, refused, astray>>
    BY DEF DeleteBreakpoint
<1>2. PICK n \in Driver : n = Now
    BY NowKin
<1>3. PICK d \in Driver : d = DriverRemove(n, b)
    BY RemoveFacts
<1>4. Removed(Now, d, {b})
    BY <1>2, <1>3, RemovedOne
<1>5. /\ list' \in Seq(Bp) /\ IsInjective(list') /\ ToSet(list') = ToSet(list) \ {b}
    BY <1>1, OnlyListed, NowKin
<1>6. Kin(d, ToSet(list'))
  <2>1. CASE phase = "none"
    BY <2>1, <1>2, <1>3, NowKin, KinNone, RemoveFacts DEF ListInv
  <2>2. CASE phase # "none"
    BY <2>2, <1>2, <1>3, <1>5, NowKin, KinRemove
  <2> QED
    BY <2>1, <2>2
<1>7. Numbers(d, dialog)
    BY <1>1, <1>2, <1>3, NowKin, CalledFacts, NumbersRemove
<1>8. Becomes(d) /\ dropped' \in SUBSET Bp /\ refused' \in SUBSET Bp
    BY <1>1, <1>2, <1>3 DEF ListInv, HistoryType
<1> QED
    BY <1>1, <1>4, <1>5, <1>6, <1>7, <1>8, RemovalLands

LEMMA DeleteAllBreakpointsStep ==
    ASSUME ListInv, DeleteAllBreakpoints
    PROVE  ListInv'
<1>1. /\ Called /\ Becomes(RemoveEach(Now, list)) /\ list' = <<>>
      /\ UNCHANGED <<temporary, dialog, phase, dropped, refused, astray>>
    BY DEF DeleteAllBreakpoints
<1>2. PICK n \in Driver : n = Now
    BY NowKin
<1>3. PICK l \in Seq(Bp) : l = list
    BY NowKin
<1>4. PICK d : d = RemoveEach(n, l)
    OBVIOUS
<1>5. /\ d \in Driver /\ Removed(n, d, ToSet(l))
      /\ \A L : phase # "none" /\ Kin(n, L) => Kin(d, L \ ToSet(l))
      /\ \A g : Numbers(n, g) /\ Closed(g) => Numbers(d, g)
    BY <1>4, RemoveEachFacts
<1>6. list' \in Seq(Bp) /\ IsInjective(list') /\ ToSet(list') = {}
    BY <1>1 DEF IsInjective, ToSet
<1>7. Kin(d, ToSet(list'))
  <2>1. CASE phase = "none"
    BY <2>1, <1>2, <1>5, NowKin, KinNone DEF ListInv, Removed
  <2>2. CASE phase # "none"
    <3>1. Kin(d, ToSet(list) \ ToSet(list))
      BY <2>2, <1>2, <1>3, <1>5, NowKin
    <3>2. ToSet(list) \ ToSet(list) = {}
      OBVIOUS
    <3> QED
      BY <3>1, <3>2, <1>6
  <2> QED
    BY <2>1, <2>2
<1>8. Numbers(d, dialog)
    BY <1>1, <1>2, <1>5, NowKin, CalledFacts
<1>9. Becomes(d) /\ dropped' \in SUBSET Bp /\ refused' \in SUBSET Bp
    BY <1>1, <1>2, <1>3, <1>4 DEF ListInv, HistoryType
<1>10. Removed(Now, d, ToSet(l)) /\ ToSet(list') \subseteq ToSet(list)
    BY <1>2, <1>5, <1>6
<1> QED
    BY <1>1, <1>5, <1>6, <1>7, <1>8, <1>9, <1>10, RemovalLands

(* EnableBreakpoint and ShiftBreakpoint. *)
LEMMA ResetBreakpointStep ==
    ASSUME ListInv, NEW b \in Bp, ResetBreakpoint(b)
    PROVE  ListInv'
<1>1. /\ Called /\ phase # "none" /\ b \in ToSet(list)
      /\ Becomes(Reset(Now, b)) /\ Renewed({b})
      /\ UNCHANGED <<list, temporary, dialog, phase, astray>>
    BY DEF ResetBreakpoint
<1>2. PICK n \in Driver : n = Now
    BY NowKin
<1>3. PICK d : d = Reset(n, b)
    OBVIOUS
<1>4. /\ d \in Driver
      /\ \A L : phase # "none" /\ Kin(n, L) /\ b \in L => Kin(d, L)
      /\ \A g : Numbers(n, g) /\ Closed(g) => Numbers(d, g)
      /\ \A g, B : B \in SUBSET Bp /\ Temporaries(n, B, g) => Temporaries(d, B, g)
    BY <1>3, ResetFacts
<1>5. /\ dialog.bp = NoBp /\ Closed(dialog) /\ UNCHANGED <<quit, lines, target>>
      /\ cpu' \in CpuState /\ calls' \in 0..MaxCalls
    BY <1>1, CalledFacts
<1>6. Kin(d, ToSet(list'))
    BY <1>1, <1>2, <1>4, NowKin
<1>7. Numbers(d, dialog')
    BY <1>1, <1>2, <1>4, <1>5, NowKin
<1>8. Temporaries(d, ToSet(list') \cap temporary', dialog')
  <2>1. ToSet(list) \cap temporary \in SUBSET Bp
    BY NowKin
  <2>2. Temporaries(n, ToSet(list) \cap temporary, dialog)
    BY <1>2, NowKin
  <2> QED
    BY <1>1, <1>4, <2>1, <2>2
<1>9. Edited(d, ToSet(list'), dialog')
    BY <1>1, <1>5, IndexFacts DEF Edited
<1>10. ListType' /\ DialogType' /\ PhaseType' /\ HistoryType'
    BY <1>1, <1>5 DEF ListInv, ListType, DialogType, PhaseType, HistoryType, Renewed
<1>11. Becomes(d)
    BY <1>1, <1>2, <1>3
<1> QED
    BY <1>1, <1>4, <1>5, <1>6, <1>7, <1>8, <1>9, <1>10, <1>11, Lands

(* RemoveAllProjectBreakpoints. *)
LEMMA DeleteAllProjectStep ==
    ASSUME ListInv, NEW moves \in BOOLEAN, DeleteAllProjectBreakpoints(moves)
    PROVE  ListInv'
<1>1. PICK keep : keep = Only(list, Bp \ InProject)
    OBVIOUS
<1>2. PICK tail : tail = SubSeq(list, Len(keep) + 1, Len(list))
    OBVIOUS
<1>3. PICK told : told = Only(tail, IF moves THEN InProject ELSE Bp)
    OBVIOUS
<1>4. PICK lost : lost = {b \in (ToSet(list) \cap InProject) \ ToSet(told) :
                    Unanswered(Now, b) \/ (index[b] # -1 /\ b \notin stale)}
    OBVIOUS
<1>5. PICK n \in Driver : n = Now
    BY NowKin
<1>6. PICK d : d = RemoveEach(n, told)
    OBVIOUS
<1>7. PICK h : h = IF phase = "none" THEN {} ELSE lost
    OBVIOUS
<1>8. PICK e : e = [d EXCEPT !.hurried = @ \cup h]
    OBVIOUS
<1>9. /\ Called /\ UNCHANGED <<temporary, dialog, phase, refused, astray>>
      /\ Becomes(e) /\ list' = keep
      /\ dropped' = IF phase = "none" THEN dropped
                    ELSE dropped \cup (ToSet(told) \ InProject)
    BY <1>1, <1>2, <1>3, <1>4, <1>5, <1>6, <1>7, <1>8
       DEF DeleteAllProjectBreakpoints
<1>10. PICK L \in SUBSET Bp : L = ToSet(list)
    BY NowKin
<1>11. keep \in Seq(Bp) /\ IsInjective(keep) /\ ToSet(keep) = L \ InProject
    BY <1>1, <1>10, OnlyListed
<1>12. tail \in Seq(Bp) /\ ToSet(tail) \subseteq L
  <2>1. PICK k \in Nat : k = Len(keep)
    BY <1>11
  <2>2. PICK l \in Seq(Bp) : l = list
    BY NowKin
  <2>3. PICK m \in Nat : m = Len(l) /\ DOMAIN l = 1..m
    OBVIOUS
  <2>4. tail = SubSeq(l, k + 1, m)
    BY <1>2, <2>1, <2>2, <2>3
  <2>5. tail \in Seq(Bp) /\ DOMAIN tail = 1..Len(tail)
    BY <2>3, <2>4
  <2>6. \A j \in DOMAIN tail : k + j \in DOMAIN l /\ tail[j] = l[k + j]
    BY <2>1, <2>3, <2>4
  <2> QED
    BY <1>10, <2>2, <2>5, <2>6 DEF ToSet
<1>13. told \in Seq(Bp) /\ ToSet(told) \subseteq L
    BY <1>3, <1>12, OnlyFacts
<1>14. PICK T \in SUBSET L : T = ToSet(told)
    BY <1>13
<1>15. /\ d \in Driver /\ Removed(n, d, T)
       /\ \A M : phase # "none" /\ Kin(n, M) => Kin(d, M \ T)
       /\ \A g : Numbers(n, g) /\ Closed(g) => Numbers(d, g)
    BY <1>6, <1>13, <1>14, RemoveEachFacts
<1>16. h \in SUBSET Bp
    BY <1>4, <1>7, <1>10
<1>17. /\ e \in Driver /\ e.queue = d.queue /\ e.index = d.index /\ e.set = d.set
       /\ e.stale = d.stale /\ e.hurried = d.hurried \cup h
    BY <1>8, <1>15, <1>16 DEF Driver
<1>18. Removed(n, e, T)
  <2>1. phase = "none" => e = d
    BY <1>7, <1>8, <1>15 DEF Driver
  <2> QED
    BY <1>15, <1>17, <2>1 DEF Removed, Unanswered
<1>19. Kin(e, L \ InProject)
  <2>1. CASE phase = "none"
    BY <2>1, <1>5, <1>15, <1>17, NowKin, KinNone DEF ListInv, Removed
  <2>2. CASE phase # "none"
    <3>1. Kin(d, L \ T)
      BY <2>2, <1>5, <1>10, <1>15, NowKin
    <3>2. /\ n.index = index /\ n.stale = stale
          /\ \A c \in Bp : Unanswered(e, c) => Unanswered(Now, c)
          /\ \A c \in L \ T : e.index[c] = index[c] /\ (c \in e.stale <=> c \in stale)
      BY <1>5, <1>18, NowFacts DEF Removed
    <3>3. \A c \in (L \cap InProject) \ T : c \notin e.hurried =>
            ~Unanswered(Now, c) /\ (index[c] = -1 \/ c \in stale)
      BY <2>2, <1>4, <1>7, <1>10, <1>14, <1>17
    <3>4. ASSUME NEW b \in Bp \ e.hurried
          PROVE  /\ OnceAsked(e.queue, b)
                 /\ Unanswered(e, b) => b \in L \ InProject /\ e.index[b] = -1
      <4>1. /\ OnceAsked(d.queue, b)
            /\ Unanswered(d, b) => b \in L \ T /\ d.index[b] = -1
        BY <3>1, <1>17 DEF Kin
      <4>2. Unanswered(e, b) <=> Unanswered(d, b)
        BY <1>17 DEF Unanswered
      <4> QED
        BY <4>1, <4>2, <3>2, <3>3, <1>17
    <3>5. ASSUME NEW i \in Index, target[i] \in Bp \ e.hurried
          PROVE  Accounted(e, L \ InProject, target[i], i)
      <4>1. PICK b \in Bp \ e.hurried : b = target[i]
        BY <3>5
      <4>2. Accounted(d, L \ T, b, i)
        BY <3>1, <3>5, <4>1, <1>17 DEF Kin
      <4>3. CASE b \in L \ T /\ d.index[b] = i /\ b \notin d.stale
        <5>1. i # -1
          BY IndexFacts
        <5>2. b \notin InProject
          BY <4>3, <5>1, <3>2, <3>3, <1>17
        <5> QED
          BY <4>1, <4>3, <5>2, <1>17 DEF Accounted
      <4>4. CASE ~(b \in L \ T /\ d.index[b] = i /\ b \notin d.stale)
        BY <4>1, <4>2, <4>4, <1>17 DEF Accounted
      <4> QED
        BY <4>3, <4>4
    <3> QED
      BY <3>4, <3>5 DEF Kin
  <2> QED
    BY <2>1, <2>2
<1>20. Numbers(e, dialog)
  <2>1. Numbers(d, dialog)
    BY <1>5, <1>9, <1>15, NowKin, CalledFacts
  <2> QED
    BY <2>1, <1>17 DEF Numbers, Owns
<1>21. dropped' \in SUBSET Bp /\ refused' \in SUBSET Bp
    BY <1>9, <1>10, <1>14 DEF ListInv, HistoryType
<1>22. Removed(Now, e, T) /\ ToSet(list') \subseteq ToSet(list)
       /\ Kin(e, ToSet(list')) /\ list' \in Seq(Bp) /\ IsInjective(list')
    BY <1>5, <1>9, <1>10, <1>11, <1>18, <1>19
<1> QED
    BY <1>9, <1>17, <1>20, <1>21, <1>22, RemovalLands

LEMMA OpenDialogStep ==
    ASSUME ListInv, NEW b \in Bp, OpenDialog(b)
    PROVE  ListInv'
<1>1. /\ Called /\ b \in ToSet(list) /\ UNCHANGED <<listVars, phase, queue, history>>
    BY DEF OpenDialog
<1>2. PICK g : g = dialog'
    OBVIOUS
<1>3. /\ g = [bp |-> b, index |-> index[b], set |-> b \in alreadySet,
              stale |-> b \in stale]
      /\ g.bp = b /\ g.index = index[b] /\ (g.set <=> b \in alreadySet)
      /\ (g.stale <=> b \in stale)
    BY <1>2 DEF OpenDialog
<1>4. /\ UNCHANGED <<quit, lines, target>>
      /\ cpu' \in CpuState /\ calls' \in 0..MaxCalls
    BY <1>1, CalledFacts
<1>5. PICK n \in Driver : n = Now
    BY NowKin
<1>6. n.index = index /\ n.stale = stale /\ n.set = alreadySet /\ n.queue = queue
    BY <1>5, NowFacts
<1>7. Kin(n, ToSet(list'))
    BY <1>1, <1>5, NowKin DEF listVars
<1>8. Numbers(n, g)
  <2>1. \A c \in Bp, i \in Index : Owns(n, g, c, i) => Owns(n, dialog, c, i)
    BY <1>3, <1>6 DEF Owns
  <2> QED
    BY <2>1, <1>5, NowKin, NumbersLess
<1>9. Temporaries(n, ToSet(list) \cap temporary, g)
  <2>1. Temporaries(n, ToSet(list) \cap temporary, dialog)
    BY <1>5, NowKin
  <2>2. ASSUME phase = "none" PROVE \A c \in Bp : ~Unanswered(n, c)
    BY <2>2, <1>6 DEF ListInv, PhaseInv, Unanswered
  <2>3. ToSet(list) \subseteq Bp
    BY NowKin
  <2> QED
    BY <2>1, <2>2, <2>3, <1>3, <1>6 DEF Temporaries
<1>10. Edited(n, ToSet(list), g)
    BY <1>1, <1>3 DEF Edited
<1>11. DialogType'
  <2>1. index[b] \in Index \cup {-1}
    BY <1>5, <1>6 DEF Driver
  <2>2. (b \in alreadySet) \in BOOLEAN /\ (b \in stale) \in BOOLEAN
    OBVIOUS
  <2> QED
    BY <1>2, <1>3, <2>1, <2>2 DEF DialogType
<1>12. ListType' /\ PhaseType' /\ HistoryType'
    BY <1>1, <1>4 DEF ListInv, ListType, PhaseType, HistoryType, listVars, history
<1>13. Becomes(n) /\ astray' = astray
    BY <1>1, <1>6, <1>5, NowFacts DEF Becomes, listVars, history
<1>14. phase = "none" => n.queue = <<>>
    BY <1>5, NowKin
<1>15. /\ Numbers(n, dialog') /\ Edited(n, ToSet(list'), dialog') /\ phase' = phase
       /\ Temporaries(n, ToSet(list') \cap temporary', dialog')
    BY <1>1, <1>2, <1>8, <1>9, <1>10 DEF listVars
<1> QED
    BY <1>4, <1>7, <1>11, <1>12, <1>13, <1>14, <1>15, Lands

(* AXS_driver::Stop. *)
LEMMA StopStep ==
    ASSUME ListInv, Stop
    PROVE  ListInv'
<1>1. PICK c : c = [op |-> "quit"]
    OBVIOUS
<1>2. /\ Called /\ phase # "none" /\ queue' = Append(queue, c)
      /\ UNCHANGED <<listVars, dialog, phase, history>>
    BY <1>1 DEF Stop
<1>3. c \in Command /\ c.op = "quit" /\ \A b \in Bp : c # New(b)
  <2>1. c \in Command /\ c.op = "quit"
    BY <1>1 DEF Command
  <2> QED
    BY <2>1, CommandFacts
<1>4. PICK n \in Driver : n = Now
    BY NowKin
<1>5. PICK e : e = [n EXCEPT !.queue = Append(@, c)]
    OBVIOUS
<1>6. /\ e \in Driver /\ e.queue = Append(n.queue, c) /\ e.index = n.index
      /\ e.set = n.set /\ e.stale = n.stale /\ e.hurried = n.hurried
  <2>1. PICK q \in Seq(Command) : q = Append(n.queue, c)
    BY <1>3, AppendSet DEF Driver
  <2> QED
    BY <1>5, <2>1 DEF Driver
<1>7. /\ UNCHANGED <<quit, lines, target>> /\ dialog.bp = NoBp
      /\ cpu' \in CpuState /\ calls' \in 0..MaxCalls
    BY <1>2, CalledFacts
<1>8. Becomes(e) /\ astray' = astray
    BY <1>2, <1>4, <1>6, NowFacts DEF Becomes, listVars, history
<1>9. Kin(e, ToSet(list'))
  <2>1. PICK L : L = ToSet(list)
    OBVIOUS
  <2>2. Kin(n, L) /\ L = ToSet(list')
    BY <1>2, <1>4, <2>1, NowKin DEF listVars
  <2>3. \A b \in Bp : /\ OnceAsked(n.queue, b) => OnceAsked(e.queue, b)
                      /\ Unanswered(e, b) => Unanswered(n, b)
    BY <1>3, <1>6, AskOther
  <2>4. \A k \in DOMAIN n.queue : k \in DOMAIN e.queue /\ e.queue[k] = n.queue[k]
    BY <1>3, <1>6, AskFacts
  <2>5. \A b, i : Accounted(n, L, b, i) => Accounted(e, L, b, i)
    BY <1>6, <2>4 DEF Accounted
  <2>6. Kin(e, L)
    BY <1>6, <2>2, <2>3, <2>5 DEF Kin
  <2> QED
    BY <2>2, <2>6
<1>10. Numbers(e, dialog)
  <2>1. \A b \in Bp, i \in Index : Owns(e, dialog, b, i) => Owns(n, dialog, b, i)
    BY <1>6 DEF Owns
  <2>2. ~Deletes(c)
    BY <1>3 DEF Deletes
  <2> QED
    BY <1>3, <1>4, <1>6, <2>1, <2>2, NowKin, NumbersLess
<1>11. Temporaries(e, ToSet(list) \cap temporary, dialog)
  <2>1. Temporaries(n, ToSet(list) \cap temporary, dialog) /\ ToSet(list) \subseteq Bp
    BY <1>4, NowKin
  <2>2. \A b \in Bp : Unanswered(n, b) => Unanswered(e, b)
    BY <1>3, <1>6, AskKeeps
  <2> QED
    BY <1>6, <2>1, <2>2 DEF Temporaries
<1>12. Edited(e, ToSet(list'), dialog')
    BY <1>2, <1>7, IndexFacts DEF Edited
<1>13. ListType' /\ PhaseType' /\ HistoryType' /\ DialogType'
    BY <1>2, <1>7
       DEF ListInv, ListType, PhaseType, HistoryType, DialogType, listVars, history
<1>14. /\ Numbers(e, dialog') /\ phase' = phase
       /\ Temporaries(e, ToSet(list') \cap temporary', dialog')
    BY <1>2, <1>10, <1>11 DEF listVars
<1> QED
    BY <1>2, <1>6, <1>7, <1>8, <1>9, <1>12, <1>13, <1>14, Lands

LEMMA StartDriverStep ==
    ASSUME ListInv, StartDriver
    PROVE  ListInv'
<1>1. /\ Called /\ phase = "none" /\ phase' = "starting"
      /\ UNCHANGED <<listVars, dialog, queue, history>>
    BY DEF StartDriver
<1>2. /\ UNCHANGED <<quit, lines, target, cpu>> /\ dialog.bp = NoBp
      /\ calls' \in 0..MaxCalls
    BY <1>1, CalledFacts
<1>3. UNCHANGED <<list, temporary, index, alreadySet, stale, hurried, dropped,
                  refused, astray, Now>>
    BY <1>1 DEF listVars, history, Now
<1>4. ListType' /\ DialogType' /\ PhaseType' /\ PeerType' /\ HistoryType' /\ DriverType'
  <2>1. Driver' = Driver
    BY DEF Driver, Command
  <2> QED
    BY <1>1, <1>2, <1>3, <2>1
       DEF ListInv, ListType, DialogType, PhaseType, PeerType, HistoryType, DriverType
<1>5. PhaseInv'
    BY <1>1, <1>2, <1>3 DEF ListInv, PhaseInv
<1>6. KinInv'
    BY <1>2, <1>3
       DEF ListInv, KinInv, Kin, OnceAsked, Unanswered, Accounted, Answers, ToSet
<1>7. NumbersInv'
    BY <1>1, <1>2, <1>3 DEF ListInv, NumbersInv, Numbers
<1>8. DialogInv'
  <2>1. dialog.bp \notin Bp /\ ToSet(list) \cap temporary \subseteq Bp
    BY <1>2, IndexFacts, NowKin
  <2>2. Edited(Now, ToSet(list), dialog)'
    BY <1>1, <1>2, <1>3, <2>1 DEF Edited
  <2>3. Temporaries(Now, ToSet(list) \cap temporary, dialog)'
    BY <1>1, <1>2, <1>3, <2>1 DEF ListInv, DialogInv, Temporaries, Unanswered
  <2> QED
    BY <2>2, <2>3 DEF DialogInv
<1> QED
    BY <1>4, <1>5, <1>6, <1>7, <1>8 DEF ListInv

-----------------------------------------------------------------------------
(* The external debugger, and what it has written. *)

(* A line that tells no breakpoint's number, and fewer breakpoints on the  *)
(* target while AxsCmd_Quit runs.                                          *)
LEMMA SaysOther ==
    ASSUME ListInv, UNCHANGED <<listVars, dialog, phase, queue, history, calls>>,
           phase = "ready", NEW r \in Line, r.for # "new", lines' = Append(lines, r),
           cpu' \in CpuState, target' \in [Index -> Bp \cup {NoBp}],
           \A i \in Index : target'[i] \in {target[i], NoBp},
           quit' = Idle => quit = Idle /\ target' = target
    PROVE  ListInv'
<1>1. /\ lines' \in Seq(Line)
      /\ \A k \in DOMAIN lines : k \in DOMAIN lines' /\ lines'[k] = lines[k]
      /\ \A k \in DOMAIN lines' : lines'[k].for = "new" =>
            k \in DOMAIN lines /\ lines'[k] = lines[k]
  <2>1. lines \in Seq(Line)
    BY DEF ListInv, PeerType
  <2>2. lines' \in Seq(Line)
    BY <2>1, AppendSet
  <2> QED
    BY <2>1, <2>2, AppendFacts
<1>2. Now' = Now /\ UNCHANGED <<list, temporary, stale, hurried, dropped, refused, astray>>
    BY DEF listVars, history, Now
<1>3. ListType' /\ DialogType' /\ PhaseType' /\ PeerType' /\ HistoryType' /\ DriverType'
  <2>1. Driver' = Driver
    BY DEF Driver, Command
  <2> QED
    BY <1>1, <1>2, <2>1
       DEF ListInv, ListType, DialogType, PhaseType, PeerType, HistoryType, DriverType
<1>4. PhaseInv'
    BY DEF PhaseInv
<1>5. \A b : Unanswered(Now, b)' <=> Unanswered(Now, b)
    BY <1>1, <1>2 DEF Unanswered
<1>6. KinInv'
  <2>1. PICK n \in Driver : n = Now
    BY NowKin
  <2>2. PICK L : L = ToSet(list)
    OBVIOUS
  <2>3. L = ToSet(list') /\ n = Now' /\ hurried' = hurried /\ n.hurried = hurried
        /\ hurried \subseteq Bp
    BY <1>2, <2>1, <2>2, NowFacts DEF Driver
  <2>4. ASSUME NEW b \in Bp \ hurried
        PROVE  /\ OnceAsked(n.queue, b)'
               /\ Unanswered(n, b)' => b \in L /\ n.index[b] = -1
    <3>1. /\ OnceAsked(n.queue, b)
          /\ Unanswered(n, b) => b \in L /\ n.index[b] = -1
      BY <2>1, <2>2, <2>3 DEF ListInv, KinInv, Kin
    <3>2. OnceAsked(n.queue, b)'
      BY <1>1, <3>1 DEF OnceAsked, Answers
    <3>3. Unanswered(n, b)' <=> Unanswered(n, b)
      BY <1>5, <2>1, <2>3
    <3> QED
      BY <3>1, <3>2, <3>3
  <2>5. ASSUME NEW i \in Index, target'[i] \in Bp \ hurried
        PROVE  Accounted(n, L, target[i], i)'
    <3>1. target'[i] = target[i]
      BY <2>5, IndexFacts
    <3>2. Accounted(n, L, target[i], i)
      BY <2>1, <2>2, <2>3, <2>5, <3>1 DEF ListInv, KinInv, Kin
    <3> QED
      BY <1>1, <3>1, <3>2 DEF Accounted, Answers
  <2> QED
    BY <2>1, <2>2, <2>3, <2>4, <2>5 DEF KinInv, Kin, ToSet
<1>7. NumbersInv'
    BY <1>1, <1>2
       DEF ListInv, NumbersInv, Numbers, Owns, Answer, Deletes
<1>8. DialogInv'
    BY <1>2 DEF ListInv, DialogInv, Temporaries, Edited, ToSet
<1> QED
    BY <1>3, <1>4, <1>6, <1>7, <1>8 DEF ListInv

LEMMA StatusLists ==
    ASSUME ListInv, Hit \/ Settle \/ Repeat
    PROVE  ListInv'
<1>1. PICK s \in CpuState : Says([for |-> "status", status |-> s])
    BY DEF Hit, Settle, Repeat, ListInv, PeerType, CpuState
<1>2. PICK r : r = [for |-> "status", status |-> s]
    OBVIOUS
<1>3. r \in Line /\ r.for # "new"
    BY <1>2 DEF Line
<1>4. /\ phase = "ready" /\ cpu' \in CpuState /\ lines' = Append(lines, r)
      /\ UNCHANGED <<listVars, dialog, phase, queue, quit, target, history, calls>>
    BY <1>1, <1>2 DEF Hit, Settle, Repeat, Says, CpuState, ListInv, PeerType
<1>5. target' \in [Index -> Bp \cup {NoBp}]
    BY <1>4 DEF ListInv, PeerType
<1> QED
    BY <1>3, <1>4, <1>5, SaysOther

LEMMA TakeQuitLists ==
    ASSUME ListInv, QuitInv, TakeQuit
    PROVE  ListInv'
<1>1. /\ phase = "ready" /\ quit.sent # <<>>
      /\ quit' = [quit EXCEPT !.sent = Tail(@)]
      /\ UNCHANGED <<listVars, dialog, phase, queue, history, calls>>
    BY DEF TakeQuit
<1>2. cpu' \in CpuState
    BY DEF TakeQuit, ListInv, PeerType, CpuState
<1>3. PICK some \in BOOLEAN :
        lines' = Append(lines, [for |-> "quit", some |-> some, status |-> cpu'])
    BY DEF TakeQuit, Says
<1>4. PICK r : r = [for |-> "quit", some |-> some, status |-> cpu']
    OBVIOUS
<1>5. r \in Line /\ r.for # "new"
    BY <1>2, <1>4 DEF Line
<1>6. /\ target' \in [Index -> Bp \cup {NoBp}]
      /\ \A i \in Index : target'[i] \in {target[i], NoBp}
    BY DEF TakeQuit, ListInv, PeerType
<1>7. quit' # Idle
  <2>1. quit \in QuitRecord /\ (quit.at = "idle" => quit = Idle)
    BY DEF QuitInv, QuitType, IdleInv
  <2>2. quit.at # "idle"
    BY <1>1, <2>1 DEF Idle
  <2>3. quit'.at = quit.at
    BY <1>1, <2>1 DEF QuitRecord
  <2> QED
    BY <2>2, <2>3 DEF Idle
<1> QED
    BY <1>1, <1>2, <1>3, <1>4, <1>5, <1>6, <1>7, SaysOther

LEMMA BeginQuitLists ==
    ASSUME ListInv, BeginQuit
    PROVE  ListInv'
<1>1. /\ phase = "ready" /\ UNCHANGED <<listVars, dialog, phase, queue, peerVars,
                                       history, calls>>
    BY DEF BeginQuit
<1>2. quit' # Idle
    BY DEF BeginQuit, Idle
<1>3. Now' = Now /\ UNCHANGED <<list, temporary, dropped, refused, astray,
                                lines, target, cpu>>
    BY <1>1 DEF listVars, history, Now, peerVars
<1>4. ListType' /\ DialogType' /\ PhaseType' /\ PeerType' /\ HistoryType' /\ DriverType'
  <2>1. Driver' = Driver
    BY DEF Driver, Command
  <2> QED
    BY <1>1, <1>3, <2>1
       DEF ListInv, ListType, DialogType, PhaseType, PeerType, HistoryType, DriverType
<1>5. PhaseInv' /\ NumbersInv'
    BY <1>1, <1>2 DEF PhaseInv, NumbersInv, Numbers
<1>6. KinInv'
    BY <1>3 DEF ListInv, KinInv, Kin, OnceAsked, Unanswered, Accounted, Answers, ToSet
<1>7. DialogInv'
    BY <1>1, <1>3 DEF ListInv, DialogInv, Temporaries, Edited, Unanswered, ToSet
<1> QED
    BY <1>4, <1>5, <1>6, <1>7 DEF ListInv

(* The process has ended. *)
LEMMA StopDriverLists ==
    ASSUME ListInv, StopDriver
    PROVE  ListInv'
<1>1. /\ phase' = "none" /\ list' = Only(list, Bp \ temporary)
      /\ queue' = <<>> /\ lines' = <<>> /\ quit' = Idle
      /\ target' = [i \in Index |-> NoBp]
      /\ stale' = {b \in Bp : index[b] # -1}
      /\ dialog' = [dialog EXCEPT !.stale = dialog.index # -1]
      /\ hurried' = {} /\ dropped' = {} /\ refused' = {} /\ astray' = FALSE
      /\ UNCHANGED <<temporary, index, alreadySet, cpu, calls>>
    BY DEF StopDriver
<1>2. list' \in Seq(Bp) /\ IsInjective(list') /\ ToSet(list') \cap temporary' = {}
    BY <1>1, OnlyListed
<1>3. /\ Now'.index = index /\ Now'.stale = {b \in Bp : index[b] # -1}
      /\ Now'.queue = <<>>
    BY <1>1, NowFacts DEF Now
<1>4. DriverType'
  <2>1. Driver' = Driver
    BY DEF Driver, Command
  <2>2. PICK n \in Driver : n = Now
    BY NowKin
  <2>3. index \in [Bp -> Index \cup {-1}] /\ alreadySet \in SUBSET Bp
    BY <2>2, NowFacts DEF Driver
  <2>4. Now' = [queue |-> <<>>, index |-> index, set |-> alreadySet,
                stale |-> {b \in Bp : index[b] # -1}, hurried |-> {}]
    BY <1>1 DEF Now
  <2>5. Now' \in Driver
    BY <2>3, <2>4 DEF Driver
  <2> QED
    BY <2>1, <2>5 DEF DriverType
<1>5. DialogType' /\ dialog'.index = dialog.index /\ (dialog'.stale <=> dialog.index # -1)
  <2>1. (dialog.index # -1) \in BOOLEAN
    OBVIOUS
  <2> QED
    BY <1>1, <2>1 DEF ListInv, DialogType
<1>6. ListType' /\ PhaseType' /\ PeerType' /\ HistoryType'
  <2>1. ListType' /\ PhaseType' /\ HistoryType'
    BY <1>1, <1>2 DEF ListInv, ListType, PhaseType, HistoryType
  <2>2. lines' \in Seq(Line)
    BY <1>1
  <2>3. target' \in [Index -> Bp \cup {NoBp}]
    BY <1>1
  <2>4. cpu' \in CpuState
    BY <1>1 DEF ListInv, PeerType
  <2> QED
    BY <2>1, <2>2, <2>3, <2>4 DEF PeerType
<1>7. PhaseInv'
    BY <1>1 DEF PhaseInv
<1>8. KinInv'
    BY <1>1, <1>3, IndexFacts DEF KinInv, Kin, OnceAsked, Unanswered
<1>9. NumbersInv'
  <2>1. \A b \in Bp, i \in Index : ~Owns(Now, dialog, b, i)'
    BY <1>3, <1>5, IndexFacts DEF Owns
  <2> QED
    BY <1>1, <1>3, <2>1 DEF NumbersInv, Numbers
<1>10. DialogInv'
  <2>1. (ToSet(list) \cap temporary)' = {}
    BY <1>2 DEF ToSet
  <2> QED
    BY <1>1, <2>1 DEF DialogInv, Temporaries, Edited
<1> QED
    BY <1>4, <1>5, <1>6, <1>7, <1>8, <1>9, <1>10 DEF ListInv

(* The command at the head of the queue leaves it. *)
LEMMA HeadFacts ==
    ASSUME ListInv, queue # <<>>, queue' = Tail(queue)
    PROVE  /\ queue' \in Seq(Command) /\ 1 \in DOMAIN queue /\ Head(queue) = queue[1]
           /\ queue[1] \in Command
           /\ \A k \in DOMAIN queue' : k + 1 \in DOMAIN queue /\ queue'[k] = queue[k + 1]
           /\ \A k \in DOMAIN queue' : k + 1 # 1
           /\ \A k, m \in DOMAIN queue' : k + 1 = m + 1 => k = m
           /\ \A k \in DOMAIN queue : k # 1 =>
                k - 1 \in DOMAIN queue' /\ queue'[k - 1] = queue[k]
<1>1. queue \in Seq(Command)
    BY NowKin, NowFacts DEF Driver
<1>2. PICK n \in Nat \ {0} : n = Len(queue)
    BY <1>1, TailFacts
<1>3. /\ DOMAIN queue = 1..n /\ DOMAIN queue' = 1..(n - 1) /\ Head(queue) = queue[1]
      /\ \A k \in DOMAIN queue' : queue'[k] = queue[k + 1]
      /\ queue' \in Seq(Command)
    BY <1>1, <1>2, TailFacts
<1>4. \A k \in 1..n : k # 1 => k - 1 \in 1..(n - 1) /\ (k - 1) + 1 = k
    BY <1>2
<1>5. 1 \in 1..n /\ \A k \in 1..(n - 1) : k + 1 \in 1..n
    BY <1>2
<1>6. queue[1] \in Command
    BY <1>1, <1>3, <1>5
<1>7. /\ \A k \in DOMAIN queue' : k + 1 # 1
      /\ \A k, m \in DOMAIN queue' : k + 1 = m + 1 => k = m
    BY <1>2, <1>3
<1>8. \A k \in DOMAIN queue' : k + 1 \in DOMAIN queue
    BY <1>3, <1>5
<1>9. \A k \in DOMAIN queue : k # 1 =>
        k - 1 \in DOMAIN queue' /\ queue'[k - 1] = queue[k]
  <2>1. ASSUME NEW k \in DOMAIN queue, k # 1
        PROVE  k - 1 \in DOMAIN queue' /\ queue'[k - 1] = queue[k]
    <3>1. k - 1 \in DOMAIN queue' /\ (k - 1) + 1 = k
      BY <2>1, <1>3, <1>4
    <3>2. queue'[k - 1] = queue[(k - 1) + 1]
      BY <3>1, <1>3
    <3> QED
      BY <3>1, <3>2
  <2> QED
    BY <2>1
<1> QED
    BY <1>3, <1>5, <1>6, <1>7, <1>8, <1>9

(* The debugger creates a breakpoint, or refuses to. *)
LEMMA TakeNewLists ==
    ASSUME ListInv, TakeNew
    PROVE  ListInv'
<1>1. /\ phase = "ready" /\ quit = Idle /\ queue # <<>> /\ Head(queue).op = "new"
      /\ queue' = Tail(queue)
      /\ UNCHANGED <<listVars, dialog, phase, quit, cpu, history, calls>>
    BY DEF TakeNew
<1>2. PICK b : b = Head(queue).bp
    OBVIOUS
<1>3. PICK r : /\ r.for = "new" /\ r.bp = b /\ r \in Line /\ lines' = Append(lines, r)
               /\ \/ /\ r.index \in Index /\ target[r.index] = NoBp
                     /\ target' = [target EXCEPT ![r.index] = b]
                  \/ r.index = -1 /\ target' = target
  <2>1. cpu \in CpuState /\ b \in Bp
    BY <1>1, <1>2, HeadFacts, CommandFacts DEF ListInv, PeerType
  <2>2. CASE \E i \in {i \in Index : target[i] = NoBp} :
            /\ target' = [target EXCEPT ![i] = b]
            /\ Says([for |-> "new", bp |-> b, index |-> i, status |-> cpu])
    <3>1. PICK i \in Index : /\ target[i] = NoBp /\ target' = [target EXCEPT ![i] = b]
                             /\ Says([for |-> "new", bp |-> b, index |-> i, status |-> cpu])
      BY <2>2
    <3>2. PICK s : s = [for |-> "new", bp |-> b, index |-> i, status |-> cpu]
      OBVIOUS
    <3>3. s \in Line /\ s.for = "new" /\ s.bp = b /\ s.index = i
      BY <2>1, <3>2 DEF Line
    <3>4. lines' = Append(lines, s)
      BY <3>1, <3>2 DEF Says
    <3> QED
      BY <3>1, <3>3, <3>4
  <2>3. CASE /\ Says([for |-> "new", bp |-> b, index |-> -1, status |-> cpu])
             /\ UNCHANGED target
    <3>1. PICK s : s = [for |-> "new", bp |-> b, index |-> -1, status |-> cpu]
      OBVIOUS
    <3>2. s \in Line /\ s.for = "new" /\ s.bp = b /\ s.index = -1
      BY <2>1, <3>1 DEF Line
    <3>3. lines' = Append(lines, s)
      BY <2>3, <3>1 DEF Says
    <3> QED
      BY <2>3, <3>2, <3>3
  <2> QED
    BY <1>2, <2>2, <2>3 DEF TakeNew
<1>4. /\ b \in Bp /\ queue[1] = New(b) /\ 1 \in DOMAIN queue
      /\ queue' \in Seq(Command)
      /\ \A k \in DOMAIN queue' : k + 1 \in DOMAIN queue /\ queue'[k] = queue[k + 1]
      /\ \A k \in DOMAIN queue' : k + 1 # 1
      /\ \A k, m \in DOMAIN queue' : k + 1 = m + 1 => k = m
      /\ \A k \in DOMAIN queue : k # 1 =>
                k - 1 \in DOMAIN queue' /\ queue'[k - 1] = queue[k]
    BY <1>1, <1>2, HeadFacts, CommandFacts
<1>5. PICK z : z \notin DOMAIN lines /\ DOMAIN lines' = DOMAIN lines \cup {z}
               /\ lines'[z] = r /\ \A k \in DOMAIN lines : lines'[k] = lines[k]
  <2>1. lines \in Seq(Line)
    BY DEF ListInv, PeerType
  <2> QED
    BY <1>3, <2>1, AppendFacts
<1>6. lines' \in Seq(Line)
    BY <1>3, AppendSet DEF ListInv, PeerType
<1>7. UNCHANGED <<list, temporary, index, alreadySet, stale, hurried, dropped,
                  refused, astray>>
    BY <1>1 DEF listVars, history
<1>8. PICK n \in Driver : n = Now
    BY NowKin
<1>9. PICK d : d = [n EXCEPT !.queue = queue']
    OBVIOUS
<1>10. /\ d \in Driver /\ d.queue = queue' /\ d.index = index /\ d.set = alreadySet
       /\ d.stale = stale /\ d.hurried = hurried
       /\ n.queue = queue /\ n.index = index /\ n.stale = stale /\ n.hurried = hurried
    BY <1>4, <1>8, <1>9, NowFacts DEF Driver
<1>11. Now' = d
    BY <1>7, <1>8, <1>9 DEF Now
<1>12. ListType' /\ DialogType' /\ PhaseType' /\ HistoryType' /\ DriverType'
  <2>1. Driver' = Driver
    BY DEF Driver, Command
  <2> QED
    BY <1>1, <1>7, <1>10, <1>11, <2>1
       DEF ListInv, ListType, DialogType, PhaseType, HistoryType, DriverType
<1>13. PeerType'
  <2>1. target' \in [Index -> Bp \cup {NoBp}]
    BY <1>3, <1>4 DEF ListInv, PeerType
  <2> QED
    BY <1>1, <1>6, <2>1 DEF ListInv, PeerType
<1>14. PhaseInv'
    BY <1>1 DEF PhaseInv
<1>15. PICK L : L = ToSet(list) /\ L = ToSet(list') /\ Kin(n, L)
    BY <1>7, <1>8, NowKin
<1>16. KinInv'
  <2>1. ASSUME NEW c \in Bp \ hurried
        PROVE  /\ OnceAsked(d.queue, c)'
               /\ Unanswered(d, c)' => c \in L /\ index[c] = -1
    <3>1. /\ OnceAsked(queue, c)
          /\ Unanswered(n, c) => c \in L /\ index[c] = -1
      BY <1>10, <1>15 DEF Kin
    <3>2. CASE c = b
      <4>1. /\ \A k \in DOMAIN queue' : queue'[k] # New(b)
            /\ \A k \in DOMAIN lines : ~Answers(lines[k], b)
        BY <1>4, <3>1, <3>2 DEF OnceAsked
      <4>2. \A k \in DOMAIN lines' : Answers(lines'[k], b) => k = z
        BY <1>5, <4>1
      <4>3. Unanswered(n, b)
        BY <1>4, <1>10 DEF Unanswered, New
      <4>4. OnceAsked(d.queue, b)'
        BY <1>10, <4>1, <4>2 DEF OnceAsked, Answers, New
      <4> QED
        BY <3>1, <3>2, <4>3, <4>4
    <3>3. CASE c # b
      <4>1. /\ \A k \in DOMAIN lines' : Answers(lines'[k], c) =>
                    k \in DOMAIN lines /\ lines'[k] = lines[k]
        BY <1>3, <1>5, <3>3 DEF Answers
      <4>2. OnceAsked(d.queue, c)'
        <5>1. \A k, m \in DOMAIN queue' : queue'[k] = New(c) /\ queue'[m] = New(c) => k = m
          BY <1>4, <3>1 DEF OnceAsked
        <5>2. \A k, m \in DOMAIN lines' :
                Answers(lines'[k], c) /\ Answers(lines'[m], c) => k = m
          BY <4>1, <3>1 DEF OnceAsked
        <5>3. \A k \in DOMAIN queue', m \in DOMAIN lines' :
                ~(queue'[k] = New(c) /\ Answers(lines'[m], c))
          BY <1>4, <4>1, <3>1 DEF OnceAsked
        <5> QED
          BY <1>10, <5>1, <5>2, <5>3 DEF OnceAsked, Answers, New
      <4>3. Unanswered(d, c)' => Unanswered(n, c)
        BY <1>4, <1>10, <4>1 DEF Unanswered, Answers
      <4> QED
        BY <3>1, <4>2, <4>3
    <3> QED
      BY <3>2, <3>3
  <2>2. ASSUME NEW i \in Index, target'[i] \in Bp \ hurried
        PROVE  Accounted(d, L, target[i], i)'
    <3>1. CASE i = r.index
      <4>1. target'[i] = b
        BY <1>3, <3>1, <2>2, IndexFacts DEF ListInv, PeerType
      <4> QED
        BY <1>3, <1>5, <3>1, <4>1 DEF Accounted, Answers
    <3>2. CASE i # r.index
      <4>1. target'[i] = target[i]
        BY <1>3, <3>2 DEF ListInv, PeerType
      <4>2. Accounted(n, L, target[i], i)
        BY <1>10, <1>15, <2>2, <4>1 DEF Kin
      <4>3. queue[1].op # "delete"
        BY <1>1, <1>4 DEF New
      <4> QED
        BY <1>4, <1>5, <1>10, <4>1, <4>2, <4>3 DEF Accounted, Answers
    <3> QED
      BY <3>1, <3>2
  <2>3. Kin(d, L)'
    BY <1>7, <1>10, <2>1, <2>2 DEF Kin
  <2> QED
    BY <1>11, <1>15, <2>3 DEF KinInv, Kin, ToSet
<1>17. NumbersInv'
  <2> SUFFICES ASSUME ~astray PROVE NumbersInv'
    BY <1>1, <1>7 DEF NumbersInv, Numbers
  <2>1. Numbers(n, dialog) /\ quit = Idle /\ ~astray
    BY <1>1, <1>8, NowKin
  <2>2. \A k \in DOMAIN queue' : Deletes(queue'[k]) =>
            k + 1 \in DOMAIN queue /\ Deletes(queue[k + 1])
    BY <1>4
  <2>3. \A k \in DOMAIN lines' : Answer(lines'[k]) /\ k # z =>
            k \in DOMAIN lines /\ Answer(lines[k]) /\ lines'[k] = lines[k]
    BY <1>5
  <2>4. \A i \in Index : target[i] \in Bp => target'[i] = target[i] /\ i # r.index
    BY <1>3, IndexFacts DEF ListInv, PeerType
  <2>5. \A k \in DOMAIN lines : Answer(lines[k]) =>
            lines[k].index \in Index /\ lines[k].bp \in Bp
    BY DEF ListInv, PeerType, Answer, Line
  <2>6. \A k \in DOMAIN queue : Deletes(queue[k]) =>
            queue[k].index \in Index /\ queue[k].bp \in Bp
    BY <1>8, <1>10, CommandFacts DEF Driver, Deletes
  <2>7. ASSUME NEW c \in Bp, NEW i \in Index, Owns(n, dialog, c, i)
        PROVE  /\ target'[i] = c
               /\ \A k \in DOMAIN lines' : Answer(lines'[k]) => lines'[k].index # i
               /\ \A k \in DOMAIN queue' : Deletes(queue'[k]) => queue'[k].index # i
    <3>1. /\ target[i] = c
          /\ \A k \in DOMAIN lines : Answer(lines[k]) => lines[k].index # i
          /\ \A k \in DOMAIN queue : Deletes(queue[k]) => queue[k].index # i
      BY <2>1, <2>7, <1>10 DEF Numbers
    <3> QED
      BY <3>1, <2>2, <2>3, <2>4, <1>4, <1>5
  <2>8. ASSUME NEW k \in DOMAIN lines', Answer(lines'[k])
        PROVE  /\ target'[lines'[k].index] = lines'[k].bp
               /\ \A m \in DOMAIN lines' :
                    Answer(lines'[m]) /\ lines'[m].index = lines'[k].index => m = k
               /\ \A m \in DOMAIN queue' :
                    Deletes(queue'[m]) => queue'[m].index # lines'[k].index
    <3>1. \A m \in DOMAIN lines : Answer(lines[m]) =>
            /\ target[lines[m].index] = lines[m].bp
            /\ \A j \in DOMAIN lines :
                Answer(lines[j]) /\ lines[j].index = lines[m].index => j = m
            /\ \A j \in DOMAIN queue :
                Deletes(queue[j]) => queue[j].index # lines[m].index
      BY <2>1, <1>10 DEF Numbers
    <3>2. \A m \in DOMAIN queue : Deletes(queue[m]) => target[queue[m].index] = queue[m].bp
      BY <2>1, <1>10 DEF Numbers
    <3>3. CASE k = z
      <4>1. lines'[k] = r /\ r.index \in Index /\ target'[r.index] = b
        BY <3>3, <1>3, <1>5, <2>8 DEF Answer, ListInv, PeerType
      <4>2. \A m \in DOMAIN lines' : Answer(lines'[m]) /\ m # z => lines'[m].index # r.index
        <5>1. \A m \in DOMAIN lines : Answer(lines[m]) => lines[m].index # r.index
          BY <2>4, <2>5, <3>1
        <5> QED
          BY <2>3, <5>1
      <4>3. \A m \in DOMAIN queue' : Deletes(queue'[m]) => queue'[m].index # r.index
        <5>1. \A m \in DOMAIN queue : Deletes(queue[m]) => queue[m].index # r.index
          BY <2>4, <2>6, <3>2
        <5> QED
          BY <2>2, <1>4, <5>1
      <4> QED
        BY <1>3, <3>3, <4>1, <4>2, <4>3
    <3>4. CASE k # z
      <4>1. k \in DOMAIN lines /\ Answer(lines[k]) /\ lines'[k] = lines[k]
        BY <3>4, <2>3, <2>8
      <4>2. target'[lines[k].index] = lines[k].bp /\ lines[k].index # r.index
        BY <4>1, <3>1, <2>4, <2>5
      <4>3. \A m \in DOMAIN lines' :
                Answer(lines'[m]) /\ lines'[m].index = lines[k].index => m = k
        BY <4>1, <4>2, <3>1, <2>3, <1>5
      <4>4. \A m \in DOMAIN queue' : Deletes(queue'[m]) => queue'[m].index # lines[k].index
        BY <4>1, <3>1, <2>2, <1>4
      <4> QED
        BY <4>1, <4>2, <4>3, <4>4
    <3> QED
      BY <3>3, <3>4
  <2>9. ASSUME NEW k \in DOMAIN queue', Deletes(queue'[k])
        PROVE  /\ target'[queue'[k].index] = queue'[k].bp
               /\ \A m \in DOMAIN queue' :
                    Deletes(queue'[m]) /\ queue'[m].index = queue'[k].index => m = k
    <3>1. \A m \in DOMAIN queue : Deletes(queue[m]) =>
            /\ target[queue[m].index] = queue[m].bp
            /\ \A j \in DOMAIN queue :
                Deletes(queue[j]) /\ queue[j].index = queue[m].index => j = m
      BY <2>1, <1>10 DEF Numbers
    <3> QED
      BY <3>1, <2>9, <2>2, <2>4, <2>6, <1>4
  <2>10. \A c \in Bp, i \in Index : Owns(d, dialog, c, i) => Owns(n, dialog, c, i)
    BY <1>10 DEF Owns
  <2>11. Numbers(d, dialog)'
    <3>1. \A c \in Bp, i \in Index : Owns(d, dialog, c, i)' => Owns(d, dialog, c, i)
      BY <1>1, <1>11 DEF Owns
    <3> QED
      BY <3>1, <1>10, <2>7, <2>8, <2>9, <2>10 DEF Numbers, Answer, Deletes
  <2> QED
    BY <1>11, <2>11 DEF NumbersInv, Numbers, Owns
<1>18. DialogInv'
    BY <1>1, <1>7, <1>11, <1>8, <1>10
       DEF ListInv, DialogInv, Temporaries, Edited, ToSet
<1> QED
    BY <1>12, <1>13, <1>14, <1>16, <1>17, <1>18 DEF ListInv

(* The debugger deletes what it has under a number. *)
LEMMA TakeDeleteLists ==
    ASSUME ListInv, TakeDelete
    PROVE  ListInv'
<1>1. /\ phase = "ready" /\ quit = Idle /\ queue # <<>> /\ Head(queue).op = "delete"
      /\ queue' = Tail(queue)
      /\ target' = [target EXCEPT ![Head(queue).index] = NoBp]
      /\ astray' = (astray \/ (Head(queue).stale /\ target[Head(queue).index] # NoBp))
      /\ UNCHANGED <<listVars, dialog, phase, quit, lines, cpu,
                     stale, hurried, dropped, refused, calls>>
    BY DEF TakeDelete
<1>2. /\ 1 \in DOMAIN queue /\ Head(queue) = queue[1] /\ queue' \in Seq(Command)
      /\ \A k \in DOMAIN queue' : k + 1 \in DOMAIN queue /\ queue'[k] = queue[k + 1]
      /\ \A k \in DOMAIN queue' : k + 1 # 1
      /\ \A k, m \in DOMAIN queue' : k + 1 = m + 1 => k = m
      /\ \A k \in DOMAIN queue : k # 1 =>
                k - 1 \in DOMAIN queue' /\ queue'[k - 1] = queue[k]
    BY <1>1, HeadFacts
<1>3. PICK x : x = Head(queue).index
    OBVIOUS
<1>4. /\ x \in Index /\ queue[1].index = x /\ queue[1].stale \in BOOLEAN
      /\ queue[1].op = "delete" /\ target' = [target EXCEPT ![x] = NoBp]
      /\ astray' = (astray \/ (queue[1].stale /\ target[x] # NoBp))
    BY <1>1, <1>2, <1>3, HeadFacts, CommandFacts
<1>5. target \in [Index -> Bp \cup {NoBp}]
    BY DEF ListInv, PeerType
<1>6. /\ target' \in [Index -> Bp \cup {NoBp}] /\ target'[x] = NoBp
      /\ \A i \in Index : i # x => target'[i] = target[i]
    BY <1>4, <1>5
<1>7. UNCHANGED <<list, temporary, index, alreadySet>>
    BY <1>1 DEF listVars
<1>8. PICK n \in Driver : n = Now
    BY NowKin
<1>9. PICK d : d = [n EXCEPT !.queue = queue']
    OBVIOUS
<1>10. /\ d \in Driver /\ d.queue = queue' /\ d.index = index /\ d.set = alreadySet
       /\ d.stale = stale /\ d.hurried = hurried
       /\ n.queue = queue /\ n.index = index /\ n.stale = stale /\ n.hurried = hurried
    BY <1>2, <1>8, <1>9, NowFacts DEF Driver
<1>11. Now' = d
    BY <1>1, <1>7, <1>8, <1>9 DEF Now
<1>12. ListType' /\ DialogType' /\ PhaseType' /\ PeerType'
    BY <1>1, <1>6, <1>7
       DEF ListInv, ListType, DialogType, PhaseType, PeerType
<1>13. HistoryType' /\ DriverType'
  <2>1. Driver' = Driver
    BY DEF Driver, Command
  <2>2. DriverType'
    BY <1>10, <1>11, <2>1 DEF DriverType
  <2>3. astray' \in BOOLEAN
    BY <1>4
  <2> QED
    BY <1>1, <2>2, <2>3 DEF ListInv, HistoryType
<1>14. PhaseInv'
    BY <1>1 DEF PhaseInv
<1>15. PICK L : L = ToSet(list) /\ L = ToSet(list') /\ Kin(n, L)
    BY <1>7, <1>8, NowKin
<1>16. KinInv'
  <2>1. ASSUME NEW c \in Bp \ hurried
        PROVE  /\ OnceAsked(d.queue, c)
               /\ Unanswered(d, c) => c \in L /\ index[c] = -1
    <3>1. /\ OnceAsked(n.queue, c)
          /\ Unanswered(n, c) => c \in L /\ index[c] = -1
      BY <1>10, <1>15 DEF Kin
    <3>2. OnceAsked(d.queue, c)
      <4>1. \A k, m \in DOMAIN d.queue : d.queue[k] = New(c) /\ d.queue[m] = New(c) => k = m
        BY <1>2, <1>10, <3>1 DEF OnceAsked
      <4>2. \A k \in DOMAIN d.queue, m \in DOMAIN lines :
                ~(d.queue[k] = New(c) /\ Answers(lines[m], c))
        BY <1>2, <1>10, <3>1 DEF OnceAsked
      <4> QED
        BY <3>1, <4>1, <4>2 DEF OnceAsked
    <3>3. Unanswered(d, c) => Unanswered(n, c)
      BY <1>2, <1>10 DEF Unanswered
    <3> QED
      BY <3>1, <3>2, <3>3
  <2>2. ASSUME NEW i \in Index, target'[i] \in Bp \ hurried
        PROVE  Accounted(d, L, target'[i], i)
    <3>1. i # x /\ target'[i] = target[i]
      BY <1>6, <2>2, IndexFacts
    <3>2. Accounted(n, L, target[i], i)
      BY <1>10, <1>15, <2>2, <3>1 DEF Kin
    <3>3. \A k \in DOMAIN queue : queue[k].index = i => k # 1
      BY <1>4, <3>1
    <3> QED
      BY <1>2, <1>10, <3>1, <3>2, <3>3 DEF Accounted
  <2>3. Kin(d, L)'
    BY <1>1, <1>7, <1>10, <2>1, <2>2
       DEF Kin, OnceAsked, Unanswered, Accounted, Answers, New
  <2> QED
    BY <1>11, <1>15, <2>3 DEF KinInv, Kin, ToSet
<1>17. NumbersInv'
  <2> SUFFICES ASSUME ~astray' PROVE NumbersInv'
    BY DEF NumbersInv, Numbers
  <2>1. Numbers(n, dialog) /\ quit = Idle /\ ~astray
    BY <1>1, <1>4, <1>8, NowKin
  <2>2. \A k \in DOMAIN queue' : Deletes(queue'[k]) =>
            k + 1 \in DOMAIN queue /\ Deletes(queue[k + 1]) /\ k + 1 # 1
    BY <1>2
  <2>3. \A k \in DOMAIN lines : Answer(lines[k]) =>
            lines[k].index \in Index /\ lines[k].bp \in Bp
    BY DEF ListInv, PeerType, Answer, Line
  <2>4. \A k \in DOMAIN queue : Deletes(queue[k]) =>
            queue[k].index \in Index /\ queue[k].bp \in Bp
    BY <1>8, <1>10, CommandFacts DEF Driver, Deletes
  <2>5. /\ \A c \in Bp, i \in Index : Owns(n, dialog, c, i) => i # x
        /\ \A k \in DOMAIN lines : Answer(lines[k]) => lines[k].index # x
        /\ \A k \in DOMAIN queue : Deletes(queue[k]) /\ k # 1 => queue[k].index # x
    <3>1. CASE queue[1].stale
      <4>1. target[x] = NoBp
        BY <1>4, <3>1
      <4> QED
        BY <1>10, <2>1, <2>3, <2>4, <4>1, IndexFacts DEF Numbers
    <3>2. CASE ~queue[1].stale
      <4>1. Deletes(queue[1])
        BY <1>4, <3>2 DEF Deletes
      <4> QED
        BY <1>2, <1>4, <1>10, <2>1, <4>1 DEF Numbers
    <3> QED
      BY <3>1, <3>2
  <2>6. ASSUME NEW c \in Bp, NEW i \in Index, Owns(n, dialog, c, i)
        PROVE  /\ target'[i] = c
               /\ \A k \in DOMAIN lines : Answer(lines[k]) => lines[k].index # i
               /\ \A k \in DOMAIN queue' : Deletes(queue'[k]) => queue'[k].index # i
    <3>1. /\ target[i] = c
          /\ \A k \in DOMAIN lines : Answer(lines[k]) => lines[k].index # i
          /\ \A k \in DOMAIN queue : Deletes(queue[k]) => queue[k].index # i
      BY <2>1, <2>6, <1>10 DEF Numbers
    <3> QED
      BY <3>1, <1>2, <1>6, <2>2, <2>5, <2>6
  <2>7. ASSUME NEW k \in DOMAIN lines, Answer(lines[k])
        PROVE  /\ target'[lines[k].index] = lines[k].bp
               /\ \A m \in DOMAIN lines :
                    Answer(lines[m]) /\ lines[m].index = lines[k].index => m = k
               /\ \A m \in DOMAIN queue' :
                    Deletes(queue'[m]) => queue'[m].index # lines[k].index
    <3>1. /\ target[lines[k].index] = lines[k].bp
          /\ \A j \in DOMAIN lines :
                Answer(lines[j]) /\ lines[j].index = lines[k].index => j = k
          /\ \A j \in DOMAIN queue :
                Deletes(queue[j]) => queue[j].index # lines[k].index
      BY <2>1, <2>7, <1>10 DEF Numbers
    <3>2. target'[lines[k].index] = target[lines[k].index]
      BY <1>6, <2>3, <2>5, <2>7
    <3>3. \A m \in DOMAIN queue' : Deletes(queue'[m]) => queue'[m].index # lines[k].index
      BY <1>2, <2>2, <3>1
    <3> QED
      BY <3>1, <3>2, <3>3
  <2>8. ASSUME NEW k \in DOMAIN queue', Deletes(queue'[k])
        PROVE  /\ target'[queue'[k].index] = queue'[k].bp
               /\ \A m \in DOMAIN queue' :
                    Deletes(queue'[m]) /\ queue'[m].index = queue'[k].index => m = k
    <3>1. \A m \in DOMAIN queue : Deletes(queue[m]) =>
            /\ target[queue[m].index] = queue[m].bp
            /\ \A j \in DOMAIN queue :
                Deletes(queue[j]) /\ queue[j].index = queue[m].index => j = m
      BY <2>1, <1>10 DEF Numbers
    <3>2. /\ k + 1 \in DOMAIN queue /\ Deletes(queue[k + 1]) /\ queue'[k] = queue[k + 1]
          /\ queue[k + 1].index # x /\ queue[k + 1].index \in Index
      BY <1>2, <2>2, <2>4, <2>5, <2>8
    <3>3. target'[queue'[k].index] = queue'[k].bp
      BY <1>6, <3>1, <3>2
    <3>4. ASSUME NEW m \in DOMAIN queue', Deletes(queue'[m]), queue'[m].index = queue'[k].index
          PROVE  m = k
      <4>1. m + 1 \in DOMAIN queue /\ Deletes(queue[m + 1]) /\ queue'[m] = queue[m + 1]
        BY <1>2, <2>2, <3>4
      <4>2. m + 1 = k + 1
        BY <3>1, <3>2, <3>4, <4>1
      <4> QED
        BY <1>2, <4>2
    <3> QED
      BY <3>3, <3>4
  <2>9. \A c \in Bp, i \in Index : Owns(d, dialog, c, i) => Owns(n, dialog, c, i)
    BY <1>10 DEF Owns
  <2>10. Numbers(d, dialog)'
    <3>1. \A c \in Bp, i \in Index : Owns(d, dialog, c, i)' => Owns(d, dialog, c, i)
      BY <1>1, <1>11 DEF Owns
    <3> QED
      BY <3>1, <1>1, <1>10, <2>6, <2>7, <2>8, <2>9 DEF Numbers, Answer, Deletes
  <2> QED
    BY <1>11, <2>10 DEF NumbersInv, Numbers, Owns
<1>18. DialogInv'
    BY <1>1, <1>7, <1>11, <1>8, <1>10
       DEF ListInv, DialogInv, Temporaries, Edited, ToSet
<1> QED
    BY <1>12, <1>13, <1>14, <1>16, <1>17, <1>18 DEF ListInv

(* AxsCmd_Quit never goes back: a line delivered does not make it idle. *)
QuitShape == [at : Stage, sent : Seq(Requests), due : Int, cur : BOOLEAN]

Set(q, a, w, n, c) == [q EXCEPT !.at = a, !.sent = w, !.due = n, !.cur = c]

LEMMA SetQuit ==
    ASSUME NEW q \in QuitShape, NEW a \in Stage, NEW w \in Seq(Requests),
           NEW n \in Int, NEW c \in BOOLEAN
    PROVE  Set(q, a, w, n, c) \in QuitShape /\ Set(q, a, w, n, c).at = a
<1> DEFINE S == Seq(Requests)
           R == [at : Stage, sent : S, due : Int, cur : BOOLEAN]
           q1 == [q EXCEPT !.at = a]
           q2 == [q1 EXCEPT !.sent = w]
           q3 == [q2 EXCEPT !.due = n]
           q4 == [q3 EXCEPT !.cur = c]
<1>1. Set(q, a, w, n, c) = q4
    BY DEF Set
<1>2. w \in S /\ q \in R
    BY DEF QuitShape
<1> HIDE DEF S
<1>3. q1 \in R /\ q1.at = a
    BY <1>2
<1> HIDE DEF q1
<1>4. q2 \in R /\ q2.at = a
    BY <1>2, <1>3
<1> HIDE DEF q2
<1>5. q3 \in R /\ q3.at = a
    BY <1>4
<1> HIDE DEF q3
<1>6. q4 \in R /\ q4.at = a
    BY <1>5
<1> HIDE DEF q4
<1> QED
    BY <1>1, <1>6 DEF QuitShape, S

(* Each of the machine's steps sets some of the fields. *)
LEMMA MachineShape ==
    ASSUME NEW q \in QuitShape, NEW s, q.at # "idle"
    PROVE  StateMachine(q, s) \in QuitShape /\ StateMachine(q, s).at # "idle"
<1>1. /\ q.at \in Stage /\ q.sent \in Seq(Requests) /\ q.due \in Int /\ q.cur \in BOOLEAN
      /\ {"waitrun", "done", "over"} \subseteq Stage
    BY DEF QuitShape, Stage
<1>2. /\ <<"delete", "run">> \in Seq(Requests) /\ <<"stop">> \in Seq(Requests)
      /\ <<"run">> \in Seq(Requests) /\ <<"quit">> \in Seq(Requests)
    BY DEF Requests
<1>3. ASSUME NEW a \in Stage, NEW w \in Seq(Requests)
      PROVE  Sends(q, a, w) \in QuitShape /\ Sends(q, a, w).at = a
  <2>1. PICK v \in Seq(Requests) : v = q.sent \o w
    <3>1. PICK x \in Seq(Requests) : x = q.sent
      BY <1>1
    <3>2. x \o w \in Seq(Requests)
      OBVIOUS
    <3> QED
      BY <3>1, <3>2
  <2>2. PICK n \in Int : n = q.due + Len(w)
    BY <1>1
  <2>3. PICK c \in BOOLEAN : c = q.cur
    BY <1>1
  <2>4. Sends(q, a, w) = [q EXCEPT !.at = a, !.sent = v, !.due = n]
    BY <2>1, <2>2 DEF Sends
  <2>5. PICK r : r = [q EXCEPT !.at = a, !.sent = v, !.due = n]
    OBVIOUS
  <2>6. r = Set(q, a, v, n, c)
    BY <2>3, <2>5 DEF QuitShape, Set
  <2> QED
    BY <2>4, <2>5, <2>6, SetQuit
<1>4. PICK r : r = [q EXCEPT !.at = "over", !.due = 0, !.cur = FALSE]
    OBVIOUS
<1>5. r \in QuitShape /\ r.at = "over"
  <2>1. PICK w \in Seq(Requests) : w = q.sent
    BY <1>1
  <2>2. r = Set(q, "over", w, 0, FALSE)
    BY <1>4, <2>1 DEF QuitShape, Set
  <2>3. "over" \in Stage /\ 0 \in Int /\ FALSE \in BOOLEAN
    BY <1>1
  <2> QED
    BY <2>2, <2>3, SetQuit
<1>6. StateMachine(q, s) \in {Sends(q, "waitrun", <<"delete", "run">>),
          Sends(q, q.at, <<"stop">>), Sends(q, q.at, <<"run">>),
          Sends(q, "done", <<"quit">>), r, q}
    BY <1>4 DEF StateMachine
<1>7. \A m \in {Sends(q, q.at, <<"stop">>), Sends(q, q.at, <<"run">>)} :
        m \in QuitShape /\ m.at # "idle"
    BY <1>1, <1>2, <1>3
<1>8. \A m \in {Sends(q, "waitrun", <<"delete", "run">>), Sends(q, "done", <<"quit">>)} :
        m \in QuitShape /\ m.at # "idle"
    BY <1>1, <1>2, <1>3
<1> QED
    BY <1>5, <1>6, <1>7, <1>8

LEMMA DeliverQuit ==
    ASSUME QuitInv, Deliver, quit' = Idle
    PROVE  quit = Idle
<1>1. quit \in QuitShape /\ (quit.at = "idle" => quit = Idle)
    BY DEF QuitInv, QuitType, IdleInv, QuitRecord, QuitShape
<1>2. PICK l : l = Head(lines)
    OBVIOUS
<1>3. PICK q : q = StateChange(quit, l.status)
    OBVIOUS
<1>4. quit' = IF l.for = "quit" THEN ParseOutput(q, l) ELSE q
    BY <1>2, <1>3 DEF Deliver
<1>5. SUFFICES ASSUME quit.at # "idle" PROVE quit'.at # "idle"
    BY <1>1 DEF Idle
<1>6. q \in QuitShape /\ q.at # "idle"
    BY <1>1, <1>3, <1>5, MachineShape DEF StateChange
<1>7. ParseOutput(q, l).at # "idle"
  <2>1. /\ q.at \in Stage /\ q.sent \in Seq(Requests) /\ q.due - 1 \in Int
        /\ TRUE \in BOOLEAN
    BY <1>6 DEF QuitShape
  <2>2. PICK t : t = [q EXCEPT !.due = @ - 1, !.cur = TRUE]
    OBVIOUS
  <2>3. t \in QuitShape /\ t.at = q.at
    <3>1. PICK n \in Int : n = q.due - 1
      BY <2>1
    <3>2. PICK a \in Stage, w \in Seq(Requests) : a = q.at /\ w = q.sent
      BY <2>1
    <3>3. t = Set(q, a, w, n, TRUE)
      BY <1>6, <2>2, <3>1, <3>2 DEF QuitShape, Set
    <3> QED
      BY <1>6, <2>1, <3>2, <3>3, SetQuit
  <2>4. PICK a \in Stage : a = Enumerated(l.some) /\ a # "idle"
    BY DEF Enumerated, Stage
  <2>5. PICK u : u = IF q.at # "enumbkp" THEN t ELSE [t EXCEPT !.at = a]
    OBVIOUS
  <2>6. u \in QuitShape /\ u.at # "idle"
    <3>1. PICK S : S = Seq(Requests)
      OBVIOUS
    <3>2. t \in [at : Stage, sent : S, due : Int, cur : BOOLEAN]
      BY <2>3, <3>1 DEF QuitShape
    <3>3. u \in [at : Stage, sent : S, due : Int, cur : BOOLEAN] /\ u.at # "idle"
      BY <1>6, <2>3, <2>4, <2>5, <3>2
    <3> QED
      BY <3>1, <3>3 DEF QuitShape
  <2>7. ParseOutput(q, l) \in {t, StateMachine(u, l.status)}
    BY <2>2, <2>4, <2>5 DEF ParseOutput
  <2> QED
    BY <1>6, <2>3, <2>6, <2>7, MachineShape
<1> QED
    BY <1>4, <1>6, <1>7

(* The answer to AddBreakpoint tells the number; other lines tell none. *)
LEMMA DeliverLists ==
    ASSUME ListInv, QuitInv, Deliver
    PROVE  ListInv'
<1>1. PICK r : r = Head(lines)
    OBVIOUS
<1>2. /\ lines # <<>> /\ lines' = Tail(lines)
      /\ IF r.for # "new" THEN UNCHANGED <<index, stale, refused>>
         ELSE IF r.index = -1
         THEN refused' = refused \cup {r.bp} /\ UNCHANGED <<index, stale>>
         ELSE /\ index' = [index EXCEPT ![r.bp] = r.index]
              /\ stale' = stale \ {r.bp} /\ refused' = refused \ {r.bp}
      /\ UNCHANGED <<list, temporary, alreadySet, dialog, phase, queue, target, cpu,
                     hurried, dropped, astray, calls>>
    BY <1>1 DEF Deliver
<1>3. lines \in Seq(Line) /\ phase = "ready"
    BY <1>2 DEF ListInv, PeerType, PhaseInv
<1>4. PICK z \in Nat \ {0} : z = Len(lines)
    BY <1>2, <1>3, TailFacts
<1>5. /\ DOMAIN lines = 1..z /\ DOMAIN lines' = 1..(z - 1) /\ r = lines[1]
      /\ lines' \in Seq(Line) /\ \A k \in DOMAIN lines' : lines'[k] = lines[k + 1]
    BY <1>1, <1>2, <1>3, <1>4, TailFacts
<1>6. /\ 1 \in DOMAIN lines /\ r \in Line
      /\ \A k \in DOMAIN lines' : k + 1 \in DOMAIN lines /\ k + 1 # 1
      /\ \A k, m \in DOMAIN lines' : k + 1 = m + 1 => k = m
  <2>1. /\ 1 \in 1..z /\ \A k \in 1..(z - 1) : k + 1 \in 1..z /\ k + 1 # 1
        /\ \A k, m \in 1..(z - 1) : k + 1 = m + 1 => k = m
    BY <1>4
  <2>2. r \in Line
    BY <1>3, <1>5, <2>1
  <2> QED
    BY <1>5, <2>1, <2>2
<1>7. \A k \in DOMAIN lines : k # 1 => k - 1 \in DOMAIN lines' /\ lines'[k - 1] = lines[k]
  <2>1. ASSUME NEW k \in DOMAIN lines, k # 1
        PROVE  k - 1 \in DOMAIN lines' /\ lines'[k - 1] = lines[k]
    <3>1. k - 1 \in DOMAIN lines' /\ (k - 1) + 1 = k
      BY <1>4, <1>5, <2>1
    <3>2. lines'[k - 1] = lines[(k - 1) + 1]
      BY <1>5, <3>1
    <3> QED
      BY <3>1, <3>2
  <2> QED
    BY <2>1
<1>8. r.status \in CpuState /\ (r.for = "new" => r.bp \in Bp /\ r.index \in Index \cup {-1})
    BY <1>6 DEF Line
<1>9. PICK n \in Driver : n = Now
    BY NowKin
<1>10. /\ n.queue = queue /\ n.index = index /\ n.stale = stale /\ n.hurried = hurried
       /\ n.set = alreadySet
    BY <1>9, NowFacts
<1>11. PICK d : d = [n EXCEPT !.index = index', !.stale = stale']
    OBVIOUS
<1>12. /\ d \in Driver /\ d.queue = queue /\ d.index = index' /\ d.stale = stale'
       /\ d.hurried = hurried /\ d.set = alreadySet
       /\ refused' \in SUBSET Bp
  <2>1. index \in [Bp -> Index \cup {-1}] /\ stale \in SUBSET Bp /\ refused \in SUBSET Bp
    BY <1>10 DEF Driver, ListInv, HistoryType
  <2>2. /\ index' \in [Bp -> Index \cup {-1}] /\ stale' \in SUBSET Bp
        /\ refused' \in SUBSET Bp
    BY <1>2, <1>8, <2>1
  <2> QED
    BY <1>10, <1>11, <2>2 DEF Driver
<1>13. Now' = d
  <2>1. n = [queue |-> queue, index |-> index, set |-> alreadySet,
             stale |-> stale, hurried |-> hurried]
    BY <1>9 DEF Now
  <2>2. d = [queue |-> queue, index |-> index', set |-> alreadySet,
             stale |-> stale', hurried |-> hurried]
    BY <1>11, <2>1
  <2> QED
    BY <1>2, <2>2 DEF Now
<1>14. ListType' /\ DialogType' /\ PhaseType' /\ HistoryType' /\ DriverType' /\ PeerType'
  <2>1. Driver' = Driver
    BY DEF Driver, Command
  <2>2. DriverType'
    BY <1>12, <1>13, <2>1 DEF DriverType
  <2>3. PeerType'
    BY <1>2, <1>5, <1>8 DEF ListInv, PeerType
  <2>4. ListType' /\ DialogType' /\ PhaseType'
    BY <1>2 DEF ListInv, ListType, DialogType, PhaseType
  <2>5. HistoryType'
    BY <1>2, <1>12 DEF ListInv, HistoryType
  <2> QED
    BY <2>2, <2>3, <2>4, <2>5
<1>15. PhaseInv'
    BY <1>2, <1>3 DEF PhaseInv
<1>16. PICK L : L = ToSet(list) /\ L = ToSet(list') /\ Kin(n, L)
    BY <1>2, <1>9, NowKin
<1>17. \A c \in Bp, i \in Index : d.index[c] = i /\ c \notin d.stale =>
            \/ n.index[c] = i /\ c \notin n.stale
            \/ Answer(r) /\ c = r.bp /\ i = r.index
  <2>1. index \in [Bp -> Index \cup {-1}]
    BY <1>10 DEF Driver
  <2> QED
    BY <1>2, <1>10, <1>12, <2>1, IndexFacts DEF Answer
<1>18. \A c \in Bp : (r.for = "new" => c # r.bp) =>
            d.index[c] = n.index[c] /\ (c \in d.stale <=> c \in n.stale)
  <2>1. index \in [Bp -> Index \cup {-1}]
    BY <1>10 DEF Driver
  <2> QED
    BY <1>2, <1>10, <1>12, <2>1
<1>19. KinInv'
  <2>1. ASSUME NEW c \in Bp \ hurried
        PROVE  /\ OnceAsked(queue, c)'
               /\ Unanswered(d, c)' => c \in L /\ d.index[c] = -1
    <3>1. /\ OnceAsked(queue, c)
          /\ Unanswered(n, c) => c \in L /\ n.index[c] = -1
      BY <1>10, <1>16 DEF Kin
    <3>2. OnceAsked(queue, c)'
      <4>1. \A k, m \in DOMAIN lines' :
                Answers(lines'[k], c) /\ Answers(lines'[m], c) => k = m
        BY <1>5, <1>6, <3>1 DEF OnceAsked
      <4>2. \A k \in DOMAIN queue, m \in DOMAIN lines' :
                ~(queue[k] = New(c) /\ Answers(lines'[m], c))
        BY <1>5, <1>6, <3>1 DEF OnceAsked
      <4> QED
        BY <1>2, <3>1, <4>1, <4>2 DEF OnceAsked, Answers, New
    <3>3. Unanswered(d, c)' => Unanswered(n, c)
      BY <1>5, <1>6, <1>10, <1>12 DEF Unanswered
    <3>4. r.for = "new" /\ c = r.bp => ~Unanswered(d, c)'
      <4>1. ASSUME r.for = "new", c = r.bp PROVE ~Unanswered(d, c)'
        <5>1. Answers(lines[1], c)
          BY <1>5, <4>1 DEF Answers
        <5>2. \A k \in DOMAIN queue : queue[k] # New(c)
          BY <1>6, <3>1, <5>1 DEF OnceAsked
        <5>3. \A k \in DOMAIN lines' : ~Answers(lines'[k], c)
          BY <1>5, <1>6, <3>1, <5>1 DEF OnceAsked
        <5> QED
          BY <1>12, <5>2, <5>3 DEF Unanswered, Answers, New
      <4> QED
        BY <4>1
    <3> QED
      BY <1>18, <3>1, <3>2, <3>3, <3>4
  <2>2. ASSUME NEW i \in Index, target[i] \in Bp \ hurried
        PROVE  Accounted(d, L, target[i], i)'
    <3>1. PICK c \in Bp \ hurried : c = target[i]
      BY <2>2
    <3>2. /\ Accounted(n, L, c, i)
          /\ Unanswered(n, c) => c \in L /\ n.index[c] = -1
      BY <1>10, <1>16, <2>2, <3>1 DEF Kin
    <3>3. r.for = "new" /\ c = r.bp => c \in L /\ n.index[c] = -1
      BY <1>5, <1>6, <3>2 DEF Unanswered
    <3>4. CASE c \in L /\ n.index[c] = i /\ c \notin n.stale
      <4>1. r.for = "new" => c # r.bp
        BY <3>3, <3>4, IndexFacts
      <4>2. c \in L /\ d.index[c] = i /\ c \notin d.stale
        BY <3>4, <4>1, <1>18
      <4> QED
        BY <1>2, <3>1, <4>2 DEF Accounted
    <3>5. CASE \E k \in DOMAIN lines : Answers(lines[k], c) /\ lines[k].index = i
      <4>1. PICK k \in DOMAIN lines : Answers(lines[k], c) /\ lines[k].index = i
        BY <3>5
      <4>2. CASE k = 1
        <5>1. r.for = "new" /\ c = r.bp /\ r.index = i /\ i # -1
          BY <1>5, <4>1, <4>2, IndexFacts DEF Answers
        <5>2. d.index[c] = i /\ c \notin d.stale
          BY <1>2, <1>10, <1>12, <5>1 DEF Driver
        <5> QED
          BY <1>2, <3>1, <3>3, <5>1, <5>2 DEF Accounted
      <4>3. CASE k # 1
        BY <1>2, <1>7, <3>1, <4>1, <4>3 DEF Accounted, Answers
      <4> QED
        BY <4>2, <4>3
    <3>6. CASE \E k \in DOMAIN n.queue :
                n.queue[k].op = "delete" /\ n.queue[k].bp = c /\ n.queue[k].index = i
      BY <1>2, <1>10, <1>12, <3>1, <3>6 DEF Accounted
    <3> QED
      BY <3>2, <3>4, <3>5, <3>6 DEF Accounted
  <2>3. Kin(d, L)'
    BY <1>2, <1>12, <2>1, <2>2 DEF Kin
  <2> QED
    BY <1>13, <1>16, <2>3 DEF KinInv, Kin, ToSet
<1>20. NumbersInv'
  <2> SUFFICES ASSUME ~astray, quit' = Idle PROVE NumbersInv'
    BY <1>2 DEF NumbersInv, Numbers
  <2>1. Numbers(n, dialog) /\ quit = Idle /\ ~astray
    BY <1>9, NowKin, DeliverQuit
  <2>2. \A k \in DOMAIN lines' : Answer(lines'[k]) =>
            /\ k + 1 \in DOMAIN lines /\ k + 1 # 1 /\ Answer(lines[k + 1])
            /\ lines'[k] = lines[k + 1]
    BY <1>5, <1>6
  <2>3. ASSUME NEW c \in Bp, NEW i \in Index, Owns(d, dialog, c, i)
        PROVE  /\ target[i] = c
               /\ \A k \in DOMAIN lines' : Answer(lines'[k]) => lines'[k].index # i
               /\ \A k \in DOMAIN queue : Deletes(queue[k]) => queue[k].index # i
    <3>1. CASE Owns(n, dialog, c, i)
      <4>1. /\ target[i] = c
            /\ \A k \in DOMAIN lines : Answer(lines[k]) => lines[k].index # i
            /\ \A k \in DOMAIN queue : Deletes(queue[k]) => queue[k].index # i
        BY <2>1, <3>1, <1>10 DEF Numbers
      <4> QED
        BY <4>1, <2>2
    <3>2. CASE Answer(r) /\ c = r.bp /\ i = r.index
      <4>1. /\ target[i] = c
            /\ \A k \in DOMAIN lines : Answer(lines[k]) /\ lines[k].index = i => k = 1
            /\ \A k \in DOMAIN queue : Deletes(queue[k]) => queue[k].index # i
        BY <1>5, <1>6, <1>10, <2>1, <3>2 DEF Numbers
      <4> QED
        BY <4>1, <2>2
    <3> QED
      BY <1>17, <2>3, <3>1, <3>2 DEF Owns
  <2>4. ASSUME NEW k \in DOMAIN lines', Answer(lines'[k])
        PROVE  /\ target[lines'[k].index] = lines'[k].bp
               /\ \A m \in DOMAIN lines' :
                    Answer(lines'[m]) /\ lines'[m].index = lines'[k].index => m = k
               /\ \A m \in DOMAIN queue :
                    Deletes(queue[m]) => queue[m].index # lines'[k].index
    <3>1. k + 1 \in DOMAIN lines /\ Answer(lines[k + 1]) /\ lines'[k] = lines[k + 1]
      BY <2>2, <2>4
    <3>2. /\ target[lines[k + 1].index] = lines[k + 1].bp
          /\ \A m \in DOMAIN lines :
                Answer(lines[m]) /\ lines[m].index = lines[k + 1].index => m = k + 1
          /\ \A m \in DOMAIN queue :
                Deletes(queue[m]) => queue[m].index # lines[k + 1].index
      BY <2>1, <3>1, <1>10 DEF Numbers
    <3>3. \A m \in DOMAIN lines' :
            Answer(lines'[m]) /\ lines'[m].index = lines'[k].index => m + 1 = k + 1
      BY <2>2, <3>1, <3>2
    <3> QED
      BY <1>6, <3>1, <3>2, <3>3
  <2>5. \A k \in DOMAIN queue : Deletes(queue[k]) =>
            /\ target[queue[k].index] = queue[k].bp
            /\ \A m \in DOMAIN queue :
                Deletes(queue[m]) /\ queue[m].index = queue[k].index => m = k
    BY <2>1, <1>10 DEF Numbers
  <2>6. Numbers(d, dialog)'
    <3>1. \A c \in Bp, i \in Index : Owns(d, dialog, c, i)' => Owns(d, dialog, c, i)
      BY <1>2 DEF Owns
    <3> QED
      BY <3>1, <1>2, <1>12, <2>3, <2>4, <2>5 DEF Numbers, Answer, Deletes
  <2> QED
    BY <1>13, <2>6 DEF NumbersInv, Numbers, Owns
<1>21. DialogInv'
  <2>1. Edited(Now, ToSet(list), dialog)'
    BY <1>2, <1>12, <1>13, NowFacts DEF ListInv, DialogInv, Edited, ToSet
  <2>2. Temporaries(Now, ToSet(list) \cap temporary, dialog)'
    BY <1>2, <1>3 DEF Temporaries
  <2> QED
    BY <2>1, <2>2 DEF DialogInv
<1> QED
    BY <1>14, <1>15, <1>19, <1>20, <1>21 DEF ListInv

(* UpdateBreakpoint's dialog is left. *)
LEMMA CancelStep ==
    ASSUME ListInv, CloseDialog(FALSE)
    PROVE  ListInv'
<1>1. /\ dialog' = NoDialog
      /\ UNCHANGED <<queue, index, alreadySet, stale, hurried, dropped, refused>>
      /\ UNCHANGED <<list, temporary, phase, quit, lines, target, cpu, astray, calls>>
    BY DEF CloseDialog, peerVars
<1>2. PICK g : g = NoDialog
    OBVIOUS
<1>3. g.bp = NoBp /\ g.index = -1 /\ DialogType'
    BY <1>1, <1>2 DEF NoDialog, DialogType
<1>4. PICK n \in Driver : n = Now
    BY NowKin
<1>5. Becomes(n)
    BY <1>1, <1>4, NowFacts DEF Becomes
<1>6. Numbers(n, g)
  <2>1. \A b \in Bp, i \in Index : Owns(n, g, b, i) => Owns(n, dialog, b, i)
    BY <1>3, IndexFacts DEF Owns
  <2> QED
    BY <1>4, <2>1, NowKin, NumbersLess
<1>7. Temporaries(n, ToSet(list') \cap temporary', g)
    BY <1>1, <1>3, <1>4, NowKin, IndexFacts DEF Temporaries
<1>8. Edited(n, ToSet(list'), g)
    BY <1>3, IndexFacts DEF Edited
<1>9. ListType' /\ PhaseType' /\ HistoryType' /\ cpu' \in CpuState
    BY <1>1 DEF ListInv, ListType, PhaseType, HistoryType, PeerType
<1>10. Kin(n, ToSet(list')) /\ (phase = "none" => n.queue = <<>>)
    BY <1>1, <1>4, NowKin
<1> QED
    BY <1>1, <1>2, <1>3, <1>5, <1>6, <1>7, <1>8, <1>9, <1>10, Lands

(* What OK assigns: the copy, with the number it had when the dialog opened. *)
Copy == [bp : Bp \cup {NoBp}, index : Index \cup {-1}, set : BOOLEAN, stale : BOOLEAN]

Assigned(n, b, g) == [n EXCEPT
    !.index[b] = g.index,
    !.set = IF g.set THEN @ \cup {b} ELSE @ \ {b},
    !.stale = IF g.stale THEN @ \cup {b} ELSE @ \ {b},
    !.hurried = IF n.index[b] \notin {-1, g.index} /\ b \notin n.stale
                THEN @ \cup {b} ELSE @]

Assigns(n, b, g, e) ==
    /\ e.queue = n.queue /\ e.index[b] = g.index
    /\ b \in e.set => g.set
    /\ b \notin e.stale => ~g.stale
    /\ n.hurried \subseteq e.hurried
    /\ b \notin e.hurried => n.index[b] \in {-1, g.index} \/ b \in n.stale
    /\ \A c \in Bp \ {b} : /\ e.index[c] = n.index[c] /\ (c \in e.set => c \in n.set)
                           /\ c \in e.stale => c \in n.stale
                           /\ c \in n.stale => c \in e.stale

LEMMA AssignedFacts ==
    ASSUME NEW n \in Driver, NEW b \in Bp, NEW g \in Copy
    PROVE  Assigned(n, b, g) \in Driver /\ Assigns(n, b, g, Assigned(n, b, g))
<1>1. PICK s \in SUBSET Bp : s = IF g.set THEN n.set \cup {b} ELSE n.set \ {b}
    BY DEF Driver
<1>2. PICK t \in SUBSET Bp : t = IF g.stale THEN n.stale \cup {b} ELSE n.stale \ {b}
    BY DEF Driver
<1>3. PICK h \in SUBSET Bp : h = IF n.index[b] \notin {-1, g.index} /\ b \notin n.stale
                                 THEN n.hurried \cup {b} ELSE n.hurried
    BY DEF Driver
<1>4. PICK x \in Index \cup {-1} : x = g.index
    BY DEF Copy
<1>5. PICK e : e = [n EXCEPT !.index[b] = x, !.set = s, !.stale = t, !.hurried = h]
    OBVIOUS
<1>6. e \in Driver
    BY <1>5 DEF Driver
<1>7. /\ e.queue = n.queue /\ e.index = [n.index EXCEPT ![b] = x] /\ e.set = s
      /\ e.stale = t /\ e.hurried = h
    BY <1>5 DEF Driver
<1>8. e = Assigned(n, b, g)
    BY <1>1, <1>2, <1>3, <1>4, <1>5 DEF Assigned
<1>9. n.index \in [Bp -> Index \cup {-1}]
    BY DEF Driver
<1>10. /\ e.index[b] = g.index /\ (b \in e.set => g.set) /\ (b \notin e.stale => ~g.stale)
       /\ n.hurried \subseteq e.hurried
       /\ b \notin e.hurried => n.index[b] \in {-1, g.index} \/ b \in n.stale
    BY <1>1, <1>2, <1>3, <1>4, <1>7, <1>9
<1>11. \A c \in Bp \ {b} : /\ e.index[c] = n.index[c] /\ (c \in e.set => c \in n.set)
                           /\ c \in e.stale => c \in n.stale
                           /\ c \in n.stale => c \in e.stale
    BY <1>1, <1>2, <1>7, <1>9
<1> QED
    BY <1>6, <1>7, <1>8, <1>10, <1>11 DEF Assigns

(* A breakpoint reset after the assignment: the number the list knew is    *)
(* the copy's, and deleted, or it was forgotten.                           *)
LEMMA KinAssigned ==
    ASSUME NEW n \in Driver, NEW e \in Driver, NEW b \in Bp, NEW L \in SUBSET Bp,
           Kin(n, L), b \in L \cup n.hurried, phase # "none",
           e.queue = n.queue, n.hurried \subseteq e.hurried,
           b \notin e.hurried => n.index[b] \in {-1, e.index[b]} \/ b \in n.stale,
           \A c \in Bp \ {b} : e.index[c] = n.index[c] /\ (c \in e.stale => c \in n.stale)
    PROVE  Kin(Reset(e, b), L)
<1>2. PICK r \in Driver : r = DriverRemove(e, b)
    BY RemoveFacts
<1>3. e.index \in [Bp -> Index \cup {-1}]
    BY DEF Driver
<1>4. /\ Removed(e, r, {b}) /\ r.index[b] = -1 /\ e.hurried \subseteq r.hurried
      /\ \A c \in Bp : c # b =>
            r.index[c] = n.index[c] /\ (c \in r.stale => c \in n.stale)
  <2>1. Removed(e, r, {b})
    BY <1>2, RemovedOne
  <2>2. r.index[b] = -1
    <3>1. CASE e.index[b] = -1
      BY <1>2, <3>1, RemoveFacts
    <3>2. CASE e.index[b] # -1
      <4>1. r.index = [e.index EXCEPT ![b] = -1]
        BY <1>2, <3>2, RemoveFacts
      <4> QED
        BY <1>3, <4>1
    <3> QED
      BY <3>1, <3>2
  <2> QED
    BY <1>3, <2>1, <2>2 DEF Removed
<1>5. \A c \in Bp : /\ OnceAsked(n.queue, c) => OnceAsked(r.queue, c)
                    /\ Unanswered(r, c) => Unanswered(n, c)
  <2>1. CASE e.index[b] = -1
    <3>1. r.queue = n.queue
      BY <1>2, <2>1, RemoveFacts
    <3> QED
      BY <3>1 DEF Unanswered
  <2>2. CASE e.index[b] # -1
    <3>1. r.queue = Append(e.queue, DeleteOf(e, b))
      BY <1>2, <2>2, RemoveFacts
    <3>2. DeleteOf(e, b) \in Command /\ \A c \in Bp : DeleteOf(e, b) # New(c)
      BY <2>2, CommandFacts
    <3> QED
      BY <3>1, <3>2, AskOther
  <2> QED
    BY <2>1, <2>2
<1>6. /\ \A k \in DOMAIN n.queue : k \in DOMAIN r.queue /\ r.queue[k] = n.queue[k]
      /\ e.index[b] # -1 => \E k \in DOMAIN r.queue :
            r.queue[k].op = "delete" /\ r.queue[k].bp = b /\ r.queue[k].index = e.index[b]
  <2>1. CASE e.index[b] = -1
    BY <1>2, <2>1, RemoveFacts
  <2>2. CASE e.index[b] # -1
    <3>1. r.queue = Append(e.queue, DeleteOf(e, b))
      BY <1>2, <2>2, RemoveFacts
    <3>2. /\ DeleteOf(e, b) \in Command /\ DeleteOf(e, b).op = "delete"
          /\ DeleteOf(e, b).bp = b /\ DeleteOf(e, b).index = e.index[b]
      BY <2>2, CommandFacts
    <3> QED
      BY <3>1, <3>2, AskFacts
  <2> QED
    BY <2>1, <2>2
<1>7. PICK M \in SUBSET Bp : M = L \cup {b}
    OBVIOUS
<1>8. Kin(r, M)
  <2>1. ASSUME NEW c \in Bp \ r.hurried
        PROVE  /\ OnceAsked(r.queue, c)
               /\ Unanswered(r, c) => c \in M /\ r.index[c] = -1
    <3>1. /\ OnceAsked(n.queue, c)
          /\ Unanswered(n, c) => c \in L /\ n.index[c] = -1
      BY <1>4 DEF Kin
    <3> QED
      BY <1>4, <1>5, <1>7, <3>1
  <2>2. ASSUME NEW i \in Index, target[i] \in Bp \ r.hurried
        PROVE  Accounted(r, M, target[i], i)
    <3>1. PICK c \in Bp \ r.hurried : c = target[i]
      BY <2>2
    <3>2. Accounted(n, L, c, i)
      BY <1>4, <2>2, <3>1 DEF Kin
    <3>3. CASE c \in L /\ n.index[c] = i /\ c \notin n.stale
      <4>1. CASE c = b
        <5>1. e.index[b] = i /\ e.index[b] # -1
          BY <1>4, <3>3, <4>1, IndexFacts
        <5> QED
          BY <1>6, <3>1, <4>1, <5>1 DEF Accounted
      <4>2. CASE c # b
        BY <1>4, <1>7, <3>1, <3>3, <4>2 DEF Accounted
      <4> QED
        BY <4>1, <4>2
    <3>4. CASE ~(c \in L /\ n.index[c] = i /\ c \notin n.stale)
      BY <1>6, <3>1, <3>2, <3>4 DEF Accounted
    <3> QED
      BY <3>3, <3>4
  <2> QED
    BY <2>1, <2>2 DEF Kin
<1>9. PICK d : d = DriverAdd(r, b) /\ d = Reset(e, b)
    BY <1>2 DEF Reset
<1>10. Kin(d, M) /\ d \in Driver /\ r.hurried \subseteq d.hurried
  <2>1. Kin(DriverAdd(r, b), M)
    BY <1>7, <1>8, KinAdd
  <2>2. DriverAdd(r, b) \in Driver /\ DriverAdd(r, b).hurried = Hurry(r, b, Forgets(r, b))
    BY AddFacts
  <2>3. r.hurried \subseteq d.hurried
    BY <1>9, <2>2 DEF Hurry
  <2> QED
    BY <1>9, <2>1, <2>2, <2>3
<1>11. CASE b \in L
  <2>1. M = L
    BY <1>7, <1>11
  <2> QED
    BY <1>9, <1>10, <2>1
<1>12. CASE b \in n.hurried
  <2>1. Kin(d, L)
    BY <1>4, <1>7, <1>10, <1>12 DEF Kin, Accounted
  <2> QED
    BY <1>9, <2>1
<1> QED
    BY <1>11, <1>12

LEMMA AcceptStep ==
    ASSUME ListInv, CloseDialog(TRUE)
    PROVE  ListInv'
<1>1. PICK b : b = dialog.bp
    OBVIOUS
<1>2. PICK g : g = dialog
    OBVIOUS
<1>3. PICK n \in Driver : n = Now
    BY NowKin
<1>4. PICK e : e = Assigned(n, b, g)
    OBVIOUS
<1>5. PICK d : d = Reset(e, b)
    OBVIOUS
<1>6. /\ b # NoBp /\ dialog' = NoDialog /\ Becomes(d) /\ Renewed({b})
      /\ UNCHANGED <<list, temporary, phase, quit, lines, target, cpu, astray, calls>>
  <2>1. e = [Now EXCEPT
            !.index[b] = dialog.index,
            !.set = IF dialog.set THEN @ \cup {b} ELSE @ \ {b},
            !.stale = IF dialog.stale THEN @ \cup {b} ELSE @ \ {b},
            !.hurried = IF index[b] \notin {-1, dialog.index} /\ b \notin stale
                        THEN @ \cup {b} ELSE @]
    BY <1>2, <1>3, <1>4, NowFacts DEF Assigned
  <2> QED
    BY <1>1, <1>5, <2>1 DEF CloseDialog, peerVars
<1>7. b \in Bp /\ g.bp = b /\ g \in Copy
    BY <1>1, <1>2, <1>6 DEF ListInv, DialogType, Copy
<1>8. /\ e \in Driver /\ e.queue = n.queue /\ e.index[b] = g.index
      /\ b \in e.set => g.set
      /\ b \notin e.stale => ~g.stale
      /\ \A c \in Bp \ {b} : /\ e.index[c] = n.index[c] /\ (c \in e.set => c \in n.set)
                             /\ c \in n.stale => c \in e.stale
  <2>1. e \in Driver /\ Assigns(n, b, g, e)
    BY <1>4, <1>7, AssignedFacts
  <2>2. g.set \in BOOLEAN /\ g.stale \in BOOLEAN
    BY <1>7 DEF Copy
  <2> QED
    BY <2>1, <2>2 DEF Assigns
<1>9. n.index \in [Bp -> Index \cup {-1}]
    BY DEF Driver
<1>10. PICK f : f = NoDialog
    OBVIOUS
<1>11. f.bp = NoBp /\ f.index = -1 /\ DialogType' /\ Closed(f)
    BY <1>6, <1>10, IndexFacts DEF NoDialog, DialogType, Closed
<1>12. /\ d \in Driver
       /\ phase = "none" => d = e
       /\ phase # "none" => Unanswered(d, b) /\ d.index[b] = -1
       /\ Numbers(e, f) /\ Closed(f) => Numbers(d, f)
       /\ \A B : B \in SUBSET Bp /\ Temporaries(e, B, f) => Temporaries(d, B, f)
    BY <1>5, <1>7, <1>8, ResetFacts
<1>13. PICK L \in SUBSET Bp : L = ToSet(list) /\ L = ToSet(list') /\ Kin(n, L)
    BY <1>3, <1>6, NowKin
<1>14. Kin(d, L)
  <2>1. CASE phase = "none"
    BY <2>1, <1>3, <1>8, <1>12, NowKin, KinNone DEF ListInv
  <2>2. CASE phase # "none"
    <3>1. b \in L \cup n.hurried
      BY <1>2, <1>3, <1>7, <1>13, <2>2, NowKin DEF Edited
    <3>2. /\ n.hurried \subseteq e.hurried
          /\ b \notin e.hurried => n.index[b] \in {-1, e.index[b]} \/ b \in n.stale
          /\ \A c \in Bp \ {b} :
                e.index[c] = n.index[c] /\ (c \in e.stale => c \in n.stale)
      <4>1. Assigns(n, b, g, e)
        BY <1>4, <1>7, AssignedFacts
      <4>2. g.set \in BOOLEAN /\ g.stale \in BOOLEAN
        BY <1>7 DEF Copy
      <4> QED
        BY <4>1, <4>2 DEF Assigns
    <3> QED
      BY <1>5, <1>7, <1>8, <1>13, <2>2, <3>1, <3>2, KinAssigned
  <2> QED
    BY <2>1, <2>2
<1>15. Numbers(d, f)
  <2>1. \A c \in Bp, i \in Index : Owns(e, f, c, i) => Owns(n, g, c, i)
    BY <1>7, <1>8, <1>9, <1>11, IndexFacts DEF Owns
  <2>2. Numbers(n, g)
    BY <1>2, <1>3, NowKin
  <2>3. Numbers(e, f)
    BY <1>8, <2>1, <2>2, NumbersLess
  <2> QED
    BY <1>11, <1>12, <2>3
<1>16. Temporaries(d, L \cap temporary, f)
  <2>1. PICK B \in SUBSET Bp : B = L \cap temporary
    OBVIOUS
  <2>2. Temporaries(n, B, g)
    BY <1>2, <1>3, <1>13, <2>1, NowKin
  <2>3. \A c \in Bp : Unanswered(n, c) => Unanswered(e, c)
    BY <1>8 DEF Unanswered
  <2>4. \A c \in B \ {b} : e.index[c] = n.index[c] /\ (c \in e.set => c \in n.set)
    BY <1>8, <1>9
  <2>5. Temporaries(e, B \ {b}, f)
    BY <2>2, <2>3, <2>4, <1>11, IndexFacts DEF Temporaries
  <2>6. Temporaries(d, B \ {b}, f)
    BY <1>12, <2>5
  <2>7. ASSUME b \in B, phase # "ready"
        PROVE  /\ d.index[b] = -1 /\ (b \in d.set => Unanswered(d, b))
               /\ f.bp # b
    <3>1. f.bp # b
      BY <1>6, <1>11
    <3>2. CASE phase = "none"
      <4>1. g.index = -1 /\ ~g.set
        BY <1>7, <2>2, <2>7, <3>2 DEF Temporaries
      <4>2. e.index[b] = -1 /\ b \notin e.set
        BY <1>7, <1>8, <1>9, <4>1
      <4> QED
        BY <1>12, <3>1, <3>2, <4>2
    <3>3. CASE phase # "none"
      BY <1>12, <3>1, <3>3
    <3> QED
      BY <3>2, <3>3
  <2>8. Temporaries(d, B, f)
    BY <2>6, <2>7 DEF Temporaries
  <2> QED
    BY <2>1, <2>8
<1>17. Edited(d, ToSet(list'), f)
    BY <1>11, IndexFacts DEF Edited
<1>18. ListType' /\ PhaseType' /\ HistoryType' /\ cpu' \in CpuState
    BY <1>6 DEF ListInv, ListType, PhaseType, HistoryType, PeerType, Renewed
<1>19. /\ phase = "none" => d.queue = <<>>
       /\ Temporaries(d, ToSet(list') \cap temporary', f) /\ Kin(d, ToSet(list'))
  <2>1. phase = "none" => d.queue = <<>>
    BY <1>3, <1>8, <1>12, NowKin
  <2> QED
    BY <1>6, <1>13, <1>14, <1>16, <2>1
<1> QED
    BY <1>6, <1>10, <1>11, <1>12, <1>15, <1>17, <1>18, <1>19, Lands


-----------------------------------------------------------------------------
(* ApplyBreakpoints: before the target is connected the breakpoints have   *)
(* no numbers, so the ones dropped lose none.                              *)

LEMMA StartingClosed ==
    ASSUME ListInv, phase = "starting"
    PROVE  Closed(dialog)
<1>1. quit = Idle /\ ~astray /\ \A i \in Index : target[i] = NoBp
    BY DEF ListInv, PhaseInv
<1>2. \A b \in Bp, i \in Index : Owns(Now, dialog, b, i) => target[i] = b
    BY <1>1, NowKin DEF Numbers
<1> QED
    BY <1>1, <1>2, IndexFacts DEF Closed, Owns

LEMMA AppliedFacts ==
    ASSUME ListInv, phase = "starting",
           NEW n \in Driver, n = Now, NEW L \in SUBSET Bp, L = ToSet(list),
           NEW l \in Seq(Bp), l = SetTemporaries, NEW k \in Seq(Bp), k = Kept,
           NEW K \in SUBSET Bp, K = ToSet(k),
           NEW a, a = AddEach(RemoveEach(n, l), k)
    PROVE  /\ K \subseteq L /\ IsInjective(k)
           /\ a \in Driver /\ Kin(a, K) /\ Numbers(a, dialog)
           /\ Edited(a, K, dialog)
           /\ \A c \in Bp : Unanswered(a, c) => c \in K \/ Unanswered(n, c)
           /\ \A c \in K : Unanswered(a, c) /\ a.index[c] = -1
<1>1. PICK e : e = RemoveEach(n, l)
    OBVIOUS
<1>2. /\ e \in Driver /\ Removed(n, e, ToSet(l))
      /\ \A A : phase # "none" /\ Kin(n, A) => Kin(e, A \ ToSet(l))
      /\ \A g : Numbers(n, g) /\ Closed(g) => Numbers(e, g)
    BY <1>1, RemoveEachFacts
<1>3. /\ a \in Driver /\ Added(e, a, K)
      /\ \A A : Kin(e, A) /\ K \subseteq A => Kin(a, A)
      /\ \A g : Numbers(e, g) => Numbers(a, g)
    BY <1>1, <1>2, AddEachFacts
<1>4. PICK Z \in SUBSET Bp : Z = temporary \cap alreadySet
    BY NowKin
<1>5. IsInjective(k) /\ K = L \cap (Bp \ Z) /\ ToSet(l) = L \cap Z
    BY <1>4, OnlyListed DEF SetTemporaries, Kept
<1>6. K \subseteq L /\ L \ ToSet(l) = K
    BY <1>5
<1>7. Kin(n, L) /\ Numbers(n, dialog) /\ Closed(dialog)
    BY NowKin, StartingClosed
<1>8. Kin(a, K)
    BY <1>2, <1>3, <1>6, <1>7
<1>9. Numbers(a, dialog)
    BY <1>2, <1>3, <1>7
<1>10. Edited(a, K, dialog)
  <2> SUFFICES ASSUME dialog.bp \in Bp, dialog.bp \notin K PROVE dialog.bp \in a.hurried
    BY DEF Edited
  <2>1. PICK c \in Bp : c = dialog.bp
    OBVIOUS
  <2>2. c \in L \cup n.hurried
    BY <2>1, NowKin DEF Edited
  <2>3. n.hurried \subseteq e.hurried /\ e.hurried \subseteq a.hurried
    BY <1>2, <1>3 DEF Removed, Added
  <2>4. ASSUME c \in L PROVE c \in e.hurried
    <3>1. c \in ToSet(l) /\ c \in temporary /\ c \in n.set
      BY <2>1, <2>4, <1>4, <1>5, NowFacts
    <3>2. n.index[c] = -1 /\ Unanswered(n, c)
      BY <2>4, <3>1, NowKin DEF Temporaries
    <3> QED
      BY <1>2, <3>1, <3>2 DEF Removed
  <2> QED
    BY <2>1, <2>2, <2>3, <2>4
<1>11. \A c \in Bp : Unanswered(a, c) => c \in K \/ Unanswered(n, c)
    BY <1>2, <1>3 DEF Removed, Added
<1>12. \A c \in K : Unanswered(a, c) /\ a.index[c] = -1
    BY <1>3 DEF Added
<1> QED
    BY <1>3, <1>5, <1>6, <1>8, <1>9, <1>10, <1>11, <1>12

LEMMA ConnectedLists ==
    ASSUME ListInv, NEW breakOnEntry \in BOOLEAN, Connected(breakOnEntry)
    PROVE  ListInv'
<1>1. PICK n \in Driver : n = Now
    BY NowKin
<1>2. PICK L \in SUBSET Bp : L = ToSet(list)
    BY NowKin
<1>3. PICK l \in Seq(Bp) : l = SetTemporaries
    BY OnlyListed DEF SetTemporaries
<1>4. PICK k \in Seq(Bp) : k = Kept
    BY OnlyListed DEF Kept
<1>5. PICK K \in SUBSET Bp : K = ToSet(k)
  <2>1. ToSet(k) \in SUBSET Bp
    BY DEF ToSet
  <2> QED
    BY <2>1
<1>6. PICK a : a = AddEach(RemoveEach(n, l), k)
    OBVIOUS
<1>7. a = ApplyBreakpoints
    BY <1>1, <1>3, <1>4, <1>6 DEF ApplyBreakpoints
<1>8. /\ phase = "starting" /\ phase' = "ready"
      /\ cpu' \in {"halt", "run"}
      /\ UNCHANGED <<dialog, quit, lines, target, astray, calls>>
    BY DEF Connected
<1>9. /\ K \subseteq L /\ IsInjective(k)
      /\ a \in Driver /\ Kin(a, K) /\ Numbers(a, dialog)
      /\ Edited(a, K, dialog)
      /\ \A c \in Bp : Unanswered(a, c) => c \in K \/ Unanswered(n, c)
      /\ \A c \in K : Unanswered(a, c) /\ a.index[c] = -1
    BY <1>1, <1>2, <1>3, <1>4, <1>5, <1>6, <1>8, AppliedFacts
<1>10. cpu' \in CpuState
    BY <1>8 DEF CpuState
<1>11. DialogType' /\ PhaseType'
    BY <1>8 DEF ListInv, DialogType, PhaseType
<1>12. ASSUME Becomes(a), list' = k, Renewed(K), UNCHANGED temporary
       PROVE  ListInv'
  <2>1. ListType' /\ HistoryType'
    BY <1>8, <1>9, <1>12 DEF ListInv, ListType, HistoryType, Renewed
  <2>2. ToSet(list') = K /\ dialog' = dialog
    BY <1>5, <1>8, <1>12
  <2>3. Kin(a, ToSet(list')) /\ Numbers(a, dialog') /\ Edited(a, ToSet(list'), dialog')
    BY <1>9, <2>2
  <2> QED
    BY <1>8, <1>9, <1>10, <1>11, <1>12, <2>1, <2>3, Lands
<1>13. ASSUME NEW b \in Unused, NEW old \in Replaceable(TRUE) \ ToSet(SetTemporaries),
              Becomes(Created(a, b, old)), list' = Listed(k, b, old),
              Marked(b, TRUE), Renewed(K \cup {b})
       PROVE  ListInv'
  <2>1. /\ b \in Bp /\ b \notin L /\ b # dialog.bp /\ ~Unanswered(n, b)
        /\ \A i \in Index : target[i] # b
    BY <1>1, <1>2 DEF Unused
  <2>2. old \in K \cup {NoBp}
    <3>1. old \in L \cup {NoBp}
      BY <1>2, <1>13 DEF Replaceable
    <3>2. ToSet(SetTemporaries) = L \cap (temporary \cap alreadySet)
      BY <1>2, OnlyListed DEF SetTemporaries
    <3>3. K = L \cap (Bp \ (temporary \cap alreadySet))
      BY <1>2, <1>4, <1>5, OnlyListed DEF Kept
    <3> QED
      BY <1>13, <3>1, <3>2, <3>3
  <2>3. b \notin K /\ b # old /\ ~Unanswered(a, b)
    BY <1>9, <2>1, <2>2, IndexFacts
  <2>4. PICK d : d = Created(a, b, old)
    OBVIOUS
  <2>5. PhaseInv /\ phase # "none"
    BY <1>8 DEF ListInv
  <2>6. /\ d \in Driver /\ Kin(d, (K \ {old}) \cup {b})
        /\ a.hurried \ {b} \subseteq d.hurried
        /\ \A c \in {old} \cap Bp : phase # "none" /\ a.index[c] = -1 /\ Unanswered(a, c)
             => c \in d.hurried
        /\ \A g : Numbers(a, g) /\ Closed(g) => Numbers(d, g)
    BY <1>9, <2>1, <2>2, <2>3, <2>4, <2>5, CreatedFacts
  <2>7. /\ list' \in Seq(Bp) /\ IsInjective(list')
        /\ ToSet(list') = (K \ {old}) \cup {b}
    BY <1>5, <1>9, <1>13, <2>1, <2>3, ListedFacts
  <2>8. temporary' \in SUBSET Bp
    BY <1>13, <2>1, NowKin DEF Marked
  <2>9. ListType' /\ HistoryType'
    BY <1>8, <1>13, <2>7, <2>8 DEF ListInv, ListType, HistoryType, Renewed
  <2>10. Kin(d, ToSet(list'))
    BY <2>6, <2>7
  <2>11. Numbers(d, dialog')
    BY <1>8, <1>9, <2>6, StartingClosed
  <2>12. Edited(d, ToSet(list'), dialog')
    <3> SUFFICES ASSUME dialog.bp \in Bp PROVE dialog.bp \in ToSet(list') \cup d.hurried
      BY <1>8 DEF Edited
    <3>1. dialog.bp \in K \cup a.hurried
      BY <1>9, <2>5 DEF Edited
    <3>2. dialog.bp \in K /\ dialog.bp = old => dialog.bp \in d.hurried
      BY <1>9, <2>5, <2>6
    <3> QED
      BY <2>1, <2>6, <2>7, <3>1, <3>2
  <2>13. Becomes(d)
    BY <1>13, <2>4
  <2> QED
    BY <1>8, <1>10, <1>11, <2>5, <2>6, <2>9, <2>10, <2>11, <2>12, <2>13, Lands
<1> QED
  <2>1. \/ /\ ~breakOnEntry
           /\ Becomes(a) /\ list' = k /\ Renewed(K)
           /\ UNCHANGED temporary
        \/ /\ breakOnEntry
           /\ \E b \in Unused, old \in Replaceable(TRUE) \ ToSet(SetTemporaries) :
                /\ Becomes(Created(a, b, old))
                /\ list' = Listed(k, b, old)
                /\ Marked(b, TRUE) /\ Renewed(K \cup {b})
    BY <1>4, <1>5, <1>7 DEF Connected
  <2> QED
    BY <2>1, <1>12, <1>13

-----------------------------------------------------------------------------
(* The invariant, and the properties. *)

LEMMA ListInit == Init => ListInv
<1> SUFFICES ASSUME Init PROVE ListInv
    OBVIOUS
<1>1. /\ list = <<>> /\ queue = <<>> /\ lines = <<>>
      /\ dialog = NoDialog /\ phase = "none" /\ quit = Idle
      /\ target = [i \in Index |-> NoBp] /\ index = [b \in Bp |-> -1]
      /\ stale = {} /\ hurried = {} /\ alreadySet = {} /\ temporary = {}
      /\ astray = FALSE /\ dropped = {} /\ refused = {} /\ calls = 0
      /\ cpu = "halt"
    BY DEF Init
<1>2. ToSet(list) = {} /\ IsInjective(list) /\ DOMAIN lines = {} /\ DOMAIN queue = {}
    BY <1>1 DEF ToSet, IsInjective
<1>3. list \in Seq(Bp) /\ lines \in Seq(Line) /\ queue \in Seq(Command)
    BY <1>1
<1>4. ListType /\ HistoryType
    BY <1>1, <1>2, <1>3 DEF ListType, HistoryType
<1>5. DialogType /\ dialog.bp = NoBp /\ dialog.index = -1
    BY <1>1 DEF DialogType, NoDialog
<1>6. PhaseType
    BY <1>1, BreakpointAssumption DEF PhaseType
<1>7. PeerType
    BY <1>1, <1>3 DEF PeerType, CpuState
<1>8. PICK n : n = Now
    OBVIOUS
<1>9. n \in Driver
    BY <1>1, <1>3, <1>8 DEF Now, Driver
<1>10. /\ n.queue = <<>> /\ n.index = [b \in Bp |-> -1] /\ n.stale = {}
       /\ \A b \in Bp : n.index[b] = -1
    BY <1>1, <1>8, NowFacts
<1>11. PhaseInv
    BY <1>1 DEF PhaseInv
<1>12. Kin(n, ToSet(list))
    BY <1>1, <1>9, <1>10, <1>11, KinNone
<1>13. Numbers(n, dialog)
  <2>1. \A b \in Bp, i \in Index : ~Owns(n, dialog, b, i)
    BY <1>5, <1>10, IndexFacts DEF Owns
  <2> QED
    BY <2>1, <1>2, <1>10, <1>1 DEF Numbers
<1>14. Temporaries(n, ToSet(list) \cap temporary, dialog) /\ Edited(n, ToSet(list), dialog)
    BY <1>1, <1>2 DEF Temporaries, Edited
<1> QED
    BY <1>4, <1>5, <1>6, <1>7, <1>8, <1>9, <1>11, <1>12, <1>13, <1>14
       DEF ListInv, DriverType, KinInv, NumbersInv, DialogInv

LEMMA ListStutter ==
    ASSUME ListInv, UNCHANGED vars
    PROVE  ListInv'
<1>1. /\ UNCHANGED <<list, temporary, index, alreadySet, dialog, phase, queue, quit>>
      /\ UNCHANGED <<lines, target, cpu, stale, hurried, dropped, refused>>
      /\ UNCHANGED <<astray, calls>>
    BY DEF vars, listVars, peerVars, history
<1>2. PICK d \in Driver : d = Now
    BY NowKin
<1>3. Becomes(d)
    BY <1>1, <1>2, NowFacts DEF Becomes
<1>4. /\ ListType' /\ DialogType' /\ PhaseType' /\ HistoryType'
      /\ cpu' \in CpuState
    BY <1>1 DEF ListInv, ListType, DialogType, PhaseType, HistoryType, PeerType
<1>5. /\ Kin(d, ToSet(list')) /\ Numbers(d, dialog') /\ Edited(d, ToSet(list'), dialog')
      /\ phase = "none" => d.queue = <<>>
      /\ Temporaries(d, ToSet(list') \cap temporary', dialog')
    BY <1>1, <1>2, NowKin
<1> QED
    BY <1>1, <1>3, <1>4, <1>5, Lands

LEMMA ListNext == ListInv /\ QuitInv /\ [Next]_vars => ListInv'
<1> SUFFICES ASSUME ListInv, QuitInv, [Next]_vars PROVE ListInv'
    OBVIOUS
<1>1. ASSUME NEW t \in BOOLEAN, AddBreakpoint(t) PROVE ListInv'
    BY <1>1, AddBreakpointStep
<1>2. ASSUME NEW b \in Bp, DeleteBreakpoint(b) PROVE ListInv'
    BY <1>2, DeleteBreakpointStep
<1>3. ASSUME NEW b \in Bp, ResetBreakpoint(b) PROVE ListInv'
    BY <1>3, ResetBreakpointStep
<1>4. ASSUME NEW b \in Bp, OpenDialog(b) PROVE ListInv'
    BY <1>4, OpenDialogStep
<1>5. CASE DeleteAllBreakpoints
    BY <1>5, DeleteAllBreakpointsStep
<1>6. ASSUME NEW m \in BOOLEAN, DeleteAllProjectBreakpoints(m) PROVE ListInv'
    BY <1>6, DeleteAllProjectStep
<1>7. CASE StartDriver
    BY <1>7, StartDriverStep
<1>8. CASE Stop
    BY <1>8, StopStep
<1>9. ASSUME NEW ok \in BOOLEAN, CloseDialog(ok) PROVE ListInv'
  <2>1. ok = TRUE \/ ok = FALSE
    OBVIOUS
  <2>2. CloseDialog(TRUE) \/ CloseDialog(FALSE)
    BY <1>9, <2>1
  <2> QED
    BY <2>2, AcceptStep, CancelStep
<1>10. ASSUME NEW e \in BOOLEAN, Connected(e) PROVE ListInv'
    BY <1>10, ConnectedLists
<1>11. CASE Debugger
    BY <1>11, TakeNewLists, TakeDeleteLists, TakeQuitLists, StatusLists DEF Debugger
<1>12. CASE Hit \/ Repeat
    BY <1>12, StatusLists
<1>13. CASE BeginQuit
    BY <1>13, BeginQuitLists
<1>14. CASE Deliver
    BY <1>14, DeliverLists
<1>15. CASE StopDriver
    BY <1>15, StopDriverLists
<1>16. CASE UNCHANGED vars
    BY <1>16, ListStutter
<1> QED
    BY <1>1, <1>2, <1>3, <1>4, <1>5, <1>6, <1>7, <1>8, <1>9, <1>10, <1>11, <1>12,
       <1>13, <1>14, <1>15, <1>16 DEF Next, User

(* Whatever the user, the debugger and the target do: the types; before    *)
(* the target is connected there is nothing on it; a breakpoint that was   *)
(* not hurried is asked for once and its number is accounted for (Kin);    *)
(* and a number of this session has one user (Numbers).                    *)
THEOREM ListInvariant == Spec => []ListInv
<1>1. ListInv /\ QuitInv /\ [Next]_vars => ListInv'
    BY ListNext
<1> QED
    BY <1>1, ListInit, QuitInvariant, PTL DEF Spec

(* The variables have their types, and a session that has ended leaves no  *)
(* command, line or AxsCmd_Quit behind.                                    *)
THEOREM TypeOKHolds == Spec => []TypeOK
<1>1. ListInv /\ QuitInv => TypeOK
  <2> SUFFICES ASSUME ListInv, QuitInv PROVE TypeOK
    OBVIOUS
  <2>1. /\ list \in Seq(Bp) /\ IsInjective(list) /\ temporary \subseteq Bp
        /\ phase \in {"none", "starting", "ready"} /\ calls \in 0..MaxCalls
        /\ dropped \subseteq Bp /\ refused \subseteq Bp /\ astray \in BOOLEAN
    BY DEF ListInv, ListType, PhaseType, HistoryType
  <2>2. dialog \in [bp : Bp \cup {NoBp}, index : Index \cup {-1},
                    set : BOOLEAN, stale : BOOLEAN]
    BY DEF ListInv, DialogType
  <2>3. /\ lines \in Seq(Line) /\ target \in [Index -> Bp \cup {NoBp}]
        /\ cpu \in CpuState
    BY DEF ListInv, PeerType
  <2>4. PICK n \in Driver : n = Now
    BY NowKin
  <2>5. /\ queue \in Seq(Command) /\ index \in [Bp -> Index \cup {-1}]
        /\ alreadySet \subseteq Bp /\ stale \subseteq Bp /\ hurried \subseteq Bp
    BY <2>4, NowFacts DEF Driver
  <2>6. quit \in [at : {"idle", "enumbkp", "waitnonbusybkp", "waitnonbusy",
                        "waitrun", "done", "over"},
                  sent : Seq(Requests), due : Nat, cur : BOOLEAN]
    BY DEF QuitInv, QuitType, QuitRecord, Stage
  <2>7. phase = "none" => queue = <<>> /\ lines = <<>> /\ quit = Idle
    BY DEF ListInv, PhaseInv
  <2> QED
    BY <2>1, <2>2, <2>3, <2>5, <2>6, <2>7 DEF TypeOK
<1> QED
    BY <1>1, ListInvariant, QuitInvariant, PTL

(* Every breakpoint the target has is in the list with its number, or its  *)
(* number is on its way, or it is about to be deleted, unless one of the   *)
(* calls Hurry names lost it.                                              *)
THEOREM NoOrphansHolds == Spec => []NoOrphans
<1>1. ListInv => NoOrphans
  <2> SUFFICES ASSUME ListInv, NEW i \in Index, target[i] \in Bp \ hurried
               PROVE  \/ target[i] \in ToSet(list) /\ index[target[i]] = i
                         /\ target[i] \notin stale
                      \/ \E k \in DOMAIN lines : lines[k].for = "new"
                            /\ lines[k].bp = target[i] /\ lines[k].index = i
                      \/ \E k \in DOMAIN queue : queue[k].op = "delete"
                            /\ queue[k].bp = target[i] /\ queue[k].index = i
    BY DEF NoOrphans
  <2>1. Accounted(Now, ToSet(list), target[i], i)
    BY NowKin, NowFacts DEF Kin
  <2> QED
    BY <2>1, NowFacts DEF Accounted, Answers
<1> QED
    BY <1>1, ListInvariant, PTL

(* A delete command hits the breakpoint it was made for, whatever is       *)
(* created and deleted under the same number before it is carried out.     *)
THEOREM DeletesOwnHolds == Spec => []DeletesOwn
<1>1. ListInv => DeletesOwn
    BY NowKin, NowFacts DEF DeletesOwn, Numbers, Deletes
<1> QED
    BY <1>1, ListInvariant, PTL

===============================================================================
