----------------------------- MODULE ExactlyOnce -----------------------------
(***************************************************************************)
(* What the native task store promises its callers, without heads,         *)
(* collections, calls or crashes: each request is decided at most once; an *)
(* applied request changes all the tasks it names in one step and a        *)
(* refused one changes none; nothing else touches what is saved, except    *)
(* that a running analysis may publish into a task that is saved.          *)
(***************************************************************************)
CONSTANTS
    Tasks,        \* task identities
    Requests,     \* request identities
    None,         \* no saved body
    Legacy,       \* the writer of what was saved before the store began
    Projection    \* the writer of what an analysis published

VARIABLES
    verdict,      \* what is decided of each request
    reach,        \* the tasks each applied request changed
    saved         \* the writer of each saved body, or None

vars == <<verdict, reach, saved>>

Init ==
    /\ verdict = [r \in Requests |-> "open"]
    /\ reach = [r \in Requests |-> {}]
    /\ saved \in [Tasks -> {None, Legacy}]

\* The request saves all its tasks, or removes them all.
Apply(r, ts, body) ==
    /\ verdict[r] = "open"
    /\ body \in {r, None}
    /\ verdict' = [verdict EXCEPT ![r] = "applied"]
    /\ reach' = [reach EXCEPT ![r] = ts]
    /\ saved' = [t \in Tasks |-> IF t \in ts THEN body ELSE saved[t]]

Refuse(r) ==
    /\ verdict[r] = "open"
    /\ verdict' = [verdict EXCEPT ![r] = "refused"]
    /\ UNCHANGED <<reach, saved>>

Publish(t) ==
    /\ saved[t] # None
    /\ saved' = [saved EXCEPT ![t] = Projection]
    /\ UNCHANGED <<verdict, reach>>

Next ==
    \/ \E r \in Requests :
          \/ \E ts \in SUBSET Tasks, body \in {r, None} : Apply(r, ts, body)
          \/ Refuse(r)
    \/ \E t \in Tasks : Publish(t)

Spec == Init /\ [][Next]_vars

=============================================================================
