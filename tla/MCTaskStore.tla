----------------------------- MODULE MCTaskStore -----------------------------
(* Instances of TaskStore for TLC. *)
EXTENDS TaskStore, TLC

CONSTANTS t1, t2, r1, r2, c1, c2, p1, p2

\* Two processes with the database open, one command each.
TwoProcesses == (c1 :> p1) @@ (c2 :> p2)

\* Tasks and requests are interchangeable; callers of different processes are not.
TasksAndRequests == Permutations({t1, t2}) \cup Permutations({r1, r2})

=============================================================================
