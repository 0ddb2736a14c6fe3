------------------------------ MODULE Supervisor ------------------------------
(***************************************************************************)
(* The auxiliary commands of json_command.rs: charts, instruments and      *)
(* connection tests, each a process of its own next to the analysis.       *)
(*                                                                         *)
(* Every call that is admitted gets an owner: a registry of its own (see   *)
(* ExecutionRegistry) whose one run it starts and finishes.  A cleanup     *)
(* that runs out of time leaves the owner in the pool, pending, and later  *)
(* calls retry the pending owners before they ask for admission.  The pool *)
(* has room for MaxOwners, pending ones included.                          *)
(*                                                                         *)
(* An owner's registry is abstracted to what it promises: a cleanup frees  *)
(* the owner when nothing of its run resists, and otherwise returns at its *)
(* deadline with the owner retained.  Steps other than waiting for such a  *)
(* cleanup take no time.                                                   *)
(***************************************************************************)
EXTENDS Naturals, FiniteSets

CONSTANTS
    Calls,       \* threads that execute auxiliary commands, one after the other
    MaxOwners,   \* MAX_OWNERS
    MaxIds,      \* the last owner identity (u64::MAX in the code)
    None         \* no owner

OwnerIds == 1..MaxIds

ASSUME SupervisorAssumption ==
    /\ MaxOwners \in Nat \ {0}
    /\ MaxIds \in Nat \ {0}
    /\ None \notin OwnerIds

VARIABLES
    nextId,     \* Pool.next_id
    owners,     \* Pool.owners
    phase,      \* Owner.phase
    retained,   \* Owner.observation: its registry still has the run
    resists,    \* something of the run cannot be ended, for now or for good
    call        \* where each thread is

vars == <<nextId, owners, phase, retained, resists, call>>

CallSteps == {"idle", "preflight", "retrying", "retried", "admitting", "working", "finished"}

\* todo: the snapshot of the pool that is left to look at; owner: the owner the
\* call retries, or its own; late: the time for retries is used up.
NoCall == [step |-> "idle", todo |-> {}, owner |-> None, late |-> FALSE]

\* The snapshot is ordered by identity: o is the next owner to look at.
NextIs(c, o) == o \in call[c].todo /\ \A p \in call[c].todo : o <= p

Init ==
    /\ nextId = 1
    /\ owners = {}
    /\ phase = [o \in OwnerIds |-> "active"]
    /\ retained = [o \in OwnerIds |-> FALSE]
    /\ resists = [o \in OwnerIds |-> FALSE]
    /\ call = [c \in Calls |-> NoCall]

-----------------------------------------------------------------------------
(* retry_pending *)

\* A call starts with a snapshot of the pool.
Enter(c) ==
    /\ call[c].step = "idle"
    /\ call' = [call EXCEPT ![c] = [NoCall EXCEPT !.step = "preflight", !.todo = owners]]
    /\ UNCHANGED <<nextId, owners, phase, retained, resists>>

\* Fault: an owner somebody retries already is retried once more.
RetryableAgain(o) == phase[o] # "active"

\* The exchange of PENDING for RETRYING succeeds for one caller only.
Retryable(o) == phase[o] = "pending"

\* An owner at work, or retried by another call, is passed over.
Skip(c, o) ==
    /\ call[c].step = "preflight"
    /\ NextIs(c, o) /\ ~call[c].late
    /\ ~Retryable(o)
    /\ call' = [call EXCEPT ![c].todo = @ \ {o}]
    /\ UNCHANGED <<nextId, owners, phase, retained, resists>>

Retry(c, o) ==
    /\ call[c].step = "preflight"
    /\ NextIs(c, o) /\ ~call[c].late
    /\ Retryable(o)
    /\ phase' = [phase EXCEPT ![o] = "retrying"]
    /\ call' = [call EXCEPT ![c].step = "retrying", ![c].todo = @ \ {o}, ![c].owner = o]
    /\ UNCHANGED <<nextId, owners, retained, resists>>

\* The cleanup of a retried owner, or of the call's own, at its end.
CleanUp(c, next) ==
    LET o == call[c].owner IN
    /\ retained' = [retained EXCEPT ![o] = @ /\ resists[o]]
    /\ call' = [call EXCEPT ![c].step = next, ![c].late = @ \/ (retained[o] /\ resists[o])]
    /\ UNCHANGED <<nextId, owners, phase, resists>>

RetryCleanUp(c) == call[c].step = "retrying" /\ CleanUp(c, "retried")

\* Fault: a retried owner leaves the pool whatever its cleanup achieved.
StillHeldNever(o) == FALSE

\* Fault: an owner that stays is not offered to the next retry.
PutBackForGood(o) == phase

StillHeld(o) == retained[o]

PutBack(o) == [phase EXCEPT ![o] = "pending"]

\* The owner goes back to the pending ones, or out of the pool.
Settle(c, next) ==
    LET o == call[c].owner IN
    /\ \/ StillHeld(o) /\ phase' = PutBack(o) /\ UNCHANGED owners
       \/ ~StillHeld(o) /\ owners' = owners \ {o} /\ UNCHANGED phase
    /\ call' = [call EXCEPT ![c].step = next, ![c].owner = None]
    /\ UNCHANGED <<nextId, retained, resists>>

RetrySettle(c) == call[c].step = "retried" /\ Settle(c, "preflight")

EndRetries(c) ==
    /\ call[c].step = "preflight"
    /\ call[c].todo = {} \/ call[c].late
    /\ call' = [call EXCEPT ![c].step = "admitting", ![c].todo = {}]
    /\ UNCHANGED <<nextId, owners, phase, retained, resists>>

-----------------------------------------------------------------------------
(* admit, the command itself, and Lease.finish *)

Room == Cardinality(owners) < MaxOwners

\* The owner is in the pool before its process exists.
Admit(c) ==
    /\ call[c].step = "admitting"
    /\ Room
    /\ nextId <= MaxIds
    /\ nextId' = nextId + 1
    /\ owners' = owners \cup {nextId}
    /\ phase' = [phase EXCEPT ![nextId] = "active"]
    /\ retained' = [retained EXCEPT ![nextId] = TRUE]
    /\ \E b \in BOOLEAN : resists' = [resists EXCEPT ![nextId] = b]
    /\ call' = [call EXCEPT ![c].step = "working", ![c].owner = nextId]

\* The pool is full, the identities are used up, or the retries took so long
\* that no time is left for the command.
Refuse(c) ==
    /\ call[c].step = "admitting"
    /\ ~Room \/ nextId > MaxIds \/ call[c].late
    /\ call' = [call EXCEPT ![c] = NoCall]
    /\ UNCHANGED <<nextId, owners, phase, retained, resists>>

\* The command ended, failed or ran out of time.
Finish(c) == call[c].step = "working" /\ CleanUp(c, "finished")

Return(c) == call[c].step = "finished" /\ Settle(c, "idle")

\* What resisted a cleanup ends, if it ever does.
Yield(o) ==
    /\ resists[o]
    /\ resists' = [resists EXCEPT ![o] = FALSE]
    /\ UNCHANGED <<nextId, owners, phase, retained, call>>

-----------------------------------------------------------------------------
(* The specification *)

Proceed(c) ==
    \/ \E o \in OwnerIds : Skip(c, o) \/ Retry(c, o)
    \/ RetryCleanUp(c) \/ RetrySettle(c) \/ EndRetries(c)
    \/ Admit(c) \/ Refuse(c) \/ Finish(c) \/ Return(c)

Next ==
    \/ \E c \in Calls : Enter(c) \/ Proceed(c)
    \/ \E o \in OwnerIds : Yield(o)

Spec == Init /\ [][Next]_vars

\* A thread in a call runs on; nobody has to call, and what resists may do so
\* for ever.
FairSpec == Spec /\ \A c \in Calls : WF_vars(Proceed(c))

-----------------------------------------------------------------------------
(* Properties *)

\* Variables keep their types.
TypeOK ==
    /\ nextId \in 1..(MaxIds + 1)
    /\ owners \subseteq OwnerIds
    /\ phase \in [OwnerIds -> {"active", "pending", "retrying"}]
    /\ retained \in [OwnerIds -> BOOLEAN]
    /\ resists \in [OwnerIds -> BOOLEAN]
    /\ call \in [Calls -> [step : CallSteps, todo : SUBSET OwnerIds,
                           owner : OwnerIds \cup {None}, late : BOOLEAN]]

\* A process that is not known to be gone is in the pool, so that somebody can
\* still end it and so that it counts.
NothingEscapes == \A o \in OwnerIds : retained[o] => o \in owners

\* No more than MaxOwners auxiliary processes exist, forgotten ones included.
ProcessesAreBounded == Cardinality({o \in OwnerIds : retained[o]}) <= MaxOwners

Serves(c, o) ==
    call[c].step \in {"retrying", "retried", "working", "finished"} /\ call[c].owner = o

\* An owner in the pool waits for a retry, or exactly one call looks after it:
\* none is lost between two calls, and no two calls end up with the same one.
OwnersAreServedOnce ==
    /\ \A o \in owners : phase[o] # "pending" => \E c \in Calls : Serves(c, o)
    /\ \A o \in owners, c, d \in Calls : Serves(c, o) /\ Serves(d, o) => c = d
    /\ \A o \in owners, c \in Calls : Serves(c, o) => phase[o] # "pending"

\* Somebody always calls again.
CallsGoOn == []<>(\E c \in Calls : call[c].step = "preflight")

\* When nothing resists for ever and calls keep coming, every owner leaves the
\* pool, also one whose first cleanups ran out of time.
OwnersLeave ==
    (/\ CallsGoOn
     /\ \A o \in OwnerIds : <>[]~resists[o])
    => \A o \in OwnerIds : o \in owners ~> o \notin owners

\* "Auxiliary command cleanup incomplete. Try again to retry cleanup."
\* (CommandFailure::message): calls that keep coming retry each pending owner.
TryingAgainRetries ==
    CallsGoOn => \A o \in OwnerIds :
        (o \in owners /\ phase[o] = "pending") ~> phase[o] # "pending"

-----------------------------------------------------------------------------
(* The inductive invariant *)

\* A call holds an owner in exactly the steps that need one.
CallsMatch ==
    \A c \in Calls :
        /\ call[c].step \in {"retrying", "retried", "working", "finished"} =>
               /\ call[c].owner \in owners
               /\ phase[call[c].owner] = IF call[c].step \in {"retrying", "retried"}
                                         THEN "retrying" ELSE "active"
        /\ call[c].step \in {"idle", "preflight", "admitting"} => call[c].owner = None
        /\ \A o \in call[c].todo : o < nextId

\* The pool holds identities given out before, as many as there is room for, and
\* among them all that wait for a retry.
PoolMatches ==
    /\ \A o \in owners : o < nextId
    /\ \A o \in OwnerIds : phase[o] = "pending" => o \in owners
    /\ Cardinality(owners) <= MaxOwners

\* What the proofs rest on.
IInv == TypeOK /\ NothingEscapes /\ OwnersAreServedOnce /\ CallsMatch /\ PoolMatches

=============================================================================
