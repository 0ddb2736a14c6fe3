----------------------------- MODULE MCSupervisor -----------------------------
(* Supervisor on small instances. *)
EXTENDS Supervisor

CONSTANTS c1, c2, c3

=============================================================================
