-------------------------- MODULE MCResearchMemory --------------------------
(* Small instances of ResearchMemory for TLC. *)
EXTENDS ResearchMemory, TLC

CONSTANT gold

OneSubject == [r \in Runs |-> gold]

(* The second analysis may be about an earlier day. *)
SecondMayBeHistorical == [r \in Runs |-> IF r = 2 THEN {-1, MaxTime} ELSE {MaxTime}]
=============================================================================
