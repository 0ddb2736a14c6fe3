------------------------- MODULE MCExecutionRegistry -------------------------
(* Instances of ExecutionRegistry for TLC. *)
EXTENDS ExecutionRegistry, TLC

CONSTANTS t1, t2, c1, c2, out, err

\* Tasks, callers and streams are interchangeable.
Interchangeable ==
    Permutations({t1, t2}) \cup Permutations({c1, c2}) \cup Permutations({out, err})

=============================================================================
