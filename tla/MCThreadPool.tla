----------------------------- MODULE MCThreadPool -----------------------------
(* The instances of ThreadPool that TLC checks.  No symmetry: liveness is   *)
(* checked, and GetNextTask takes the tasks in the order they were added.   *)
EXTENDS ThreadPool

===============================================================================
