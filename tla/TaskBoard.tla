------------------------------- MODULE TaskBoard -------------------------------
(***************************************************************************)
(* What a cbThreadPool of N threads promises the code that uses it, with   *)
(* no thread, semaphore or counter in sight: tasks are claimed in the      *)
(* order they were added, at most N are claimed at a time, each one claimed *)
(* by an open pool is carried out exactly once, and the announcement that  *)
(* all is done is only made when there is nothing left to carry out.       *)
(*                                                                         *)
(* ThreadPool implements this for a pool that is not resized.              *)
(***************************************************************************)
EXTENDS Naturals, Sequences, FiniteSets

CONSTANTS
    Task,        \* the task objects
    N            \* how many tasks may be claimed at a time

VARIABLES
    pending,     \* added and not claimed yet, in the order they were added
    claimed,     \* taken by a thread and not finished
    done,        \* carried out
    due,         \* an announcement is owed to the client
    open         \* the pool has not been destroyed

vars == <<pending, claimed, done, due, open>>

Init ==
    /\ pending = <<>> /\ claimed = {} /\ done = {}
    /\ due = FALSE /\ open = TRUE

Listed == {pending[i] : i \in 1..Len(pending)}

Add(t) ==
    /\ open /\ t \notin Listed \cup claimed \cup done
    /\ pending' = Append(pending, t)
    /\ due' = TRUE
    /\ UNCHANGED <<claimed, done, open>>

Claim ==
    /\ open /\ pending # <<>> /\ Cardinality(claimed) < N
    /\ claimed' = claimed \cup {Head(pending)}
    /\ pending' = Tail(pending)
    /\ UNCHANGED <<done, due, open>>

Complete(t) ==
    /\ t \in claimed
    /\ claimed' = claimed \ {t}
    /\ done' = done \cup {t}
    /\ UNCHANGED <<pending, due, open>>

(* Aborting removes what is pending; what is claimed still ends.           *)
Discard ==
    /\ open
    /\ pending' = <<>>
    /\ UNCHANGED <<claimed, done, due, open>>

Announce ==
    /\ open /\ due /\ pending = <<>> /\ claimed = {}
    /\ due' = FALSE
    /\ UNCHANGED <<pending, claimed, done, open>>

Close ==
    /\ open
    /\ open' = FALSE
    /\ pending' = <<>>
    /\ UNCHANGED <<claimed, done, due>>

(* Only a closed pool gives up a task it has claimed.                      *)
GiveUp(t) ==
    /\ ~open /\ t \in claimed
    /\ claimed' = claimed \ {t}
    /\ UNCHANGED <<pending, done, due, open>>

Next ==
    \/ \E t \in Task : Add(t) \/ Complete(t) \/ GiveUp(t)
    \/ Claim
    \/ Discard
    \/ Announce
    \/ Close

Spec == Init /\ [][Next]_vars
===============================================================================
