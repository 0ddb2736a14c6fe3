-------------------------- MODULE ExecutionRegistry --------------------------
(***************************************************************************)
(* The owner of a running analysis: analysis_execution.rs and the process  *)
(* tree it contains (owned_process.rs), driven by the worker thread of     *)
(* analysis_recovery/runtime.rs.                                           *)
(*                                                                         *)
(* A caller reserves the one slot of the registry for a task, starts the   *)
(* reservation and gets a guard.  The worker that holds the guard spawns a *)
(* process tree, registers the threads that read its output, feeds it its  *)
(* input, waits for it and finishes.  Anyone may cancel the run and wait,  *)
(* for a bounded time, for its cleanup: terminate the tree, reap it, join  *)
(* the readers, wait for the worker, free the slot.  A cleanup that ran    *)
(* out of time keeps the slot and may be retried.  Removing saved data     *)
(* needs the slot to be free, or owned by another task.                    *)
(*                                                                         *)
(* Two mutexes matter.  `gate` is the mutex of the slot: a call that takes *)
(* it and gives it back at once is one step, a start and a removal hold it *)
(* over several.  `holder` is the mutex of one run's state: a cleanup      *)
(* holds it while it stops the process, the other uses are one step.       *)
(***************************************************************************)
EXTENDS Naturals, FiniteSets

CONSTANTS
    Tasks,       \* task identities
    Stoppers,    \* cleanups that callers other than the worker may have in progress
    Streams,     \* the output streams of a process that a thread reads
    MaxRuns,     \* the last run identity (u64::MAX in the code)
    MaxFaults,   \* bound: system calls that fail in a behaviour
    None         \* no run, no task, no holder

RunIds == 1..MaxRuns

\* A cleanup runs for a caller, or for the worker of the run itself.
Cleaners == Stoppers \cup RunIds

ASSUME RegistryAssumption ==
    /\ MaxRuns \in Nat \ {0}
    /\ MaxFaults \in Nat
    /\ Stoppers \cap RunIds = {}
    /\ None \notin Tasks \cup Cleaners

VARIABLES
    active,    \* Registry.active: the run that owns the slot
    nextId,    \* Registry.next_id
    gate,      \* who holds the mutex of `active` over several steps
    owner,     \* Run: the task, the lease and the flags of each run
    state,     \* RunState: phase, worker_active and whether a process is attached
    holder,    \* who holds the mutex of each run's state over several steps
    tree,      \* the process tree of each run, as the system sees it
    reader,    \* the reader threads of each run
    worker,    \* where the thread that holds the guard of each run is
    cleanup,   \* the cleanups in progress
    faults     \* the system calls that may still fail

vars == <<active, nextId, gate, owner, state, holder, tree, reader, worker, cleanup, faults>>

-----------------------------------------------------------------------------
(* Records *)

Run == [task : Tasks \cup {None}, expired : BOOLEAN, cancelled : BOOLEAN, claimed : BOOLEAN]

NoRun == [task |-> None, expired |-> FALSE, cancelled |-> FALSE, claimed |-> FALSE]

RunState ==
    [phase : {"Unstarted", "Preparing", "Cleaning", "CleanupFailed", "Finished"},
     workerActive : BOOLEAN, process : BOOLEAN]

Fresh == [phase |-> "Unstarted", workerActive |-> FALSE, process |-> FALSE]

\* A process that ended stays a zombie, and keeps its identity, until reaped.
Process == {"none", "live", "zombie", "reaped"}

\* The child runs the analysis, the anchor leads its process group, and the
\* descendants of the child stay in that group and hold its pipes.
Tree ==
    [child : Process, anchor : Process, descendants : BOOLEAN,
     terminationIssued : BOOLEAN, cleaned : BOOLEAN]

NoTree ==
    [child |-> "none", anchor |-> "none", descendants |-> FALSE,
     terminationIssued |-> FALSE, cleaned |-> FALSE]

\* Fault: a child that leads its own group.
SpawnedWithoutAnchor == [NoTree EXCEPT !.child = "live", !.descendants = TRUE]

\* spawn_owned: the anchor first, then the child in the anchor's group.
Spawned == [NoTree EXCEPT !.child = "live", !.anchor = "live", !.descendants = TRUE]

\* The child could not be spawned: the anchor is all there is to clean up.
AnchorOnly == [NoTree EXCEPT !.child = "live"]

WorkerSteps ==
    {"none", "started", "spawned", "failed", "attached", "writing",
     "monitoring", "returning", "finishing"}

CleanupSteps ==
    {"idle", "requested", "trying", "stopping", "joining", "releasing", "ok", "failed"}

NoCleanup == [step |-> "idle", run |-> None, late |-> FALSE]

Open == [use |-> "none", of |-> None]

-----------------------------------------------------------------------------
(* Operators *)

\* expire_unstarted, which every call that takes the gate performs first.
AfterExpiry ==
    IF active # None /\ owner[active].expired /\ ~owner[active].claimed
    THEN None ELSE active

\* The process whose identity names the group.
Leader(r) == IF tree[r].anchor = "none" THEN tree[r].child ELSE tree[r].anchor

Exists(p) == p \in {"live", "zombie"}

\* No process of the run can hold its pipes.
PipesClosed(r) == tree[r].child # "live" /\ ~tree[r].descendants

Phase(r, phase) == state' = [state EXCEPT ![r].phase = phase]

Advance(c, step) == cleanup' = [cleanup EXCEPT ![c].step = step]

GateIsOpen == gate = Open

Init ==
    /\ active = None
    /\ nextId = 1
    /\ gate = Open
    /\ owner = [r \in RunIds |-> NoRun]
    /\ state = [r \in RunIds |-> Fresh]
    /\ holder = [r \in RunIds |-> None]
    /\ tree = [r \in RunIds |-> NoTree]
    /\ reader = [r \in RunIds |-> [s \in Streams |-> "none"]]
    /\ worker = [r \in RunIds |-> "none"]
    /\ cleanup = [c \in Cleaners |-> NoCleanup]
    /\ faults = MaxFaults

-----------------------------------------------------------------------------
(* Calls that take the gate *)

\* Fault: a reservation that does not wait for a removal in progress.
ReserveInGap(t) ==
    /\ AfterExpiry = None
    /\ nextId <= MaxRuns
    /\ active' = nextId
    /\ nextId' = nextId + 1
    /\ owner' = [owner EXCEPT ![nextId] = [NoRun EXCEPT !.task = t]]
    /\ UNCHANGED <<gate, state, holder, tree, reader, worker, cleanup, faults>>

\* reserve: the slot is free, or held by a reservation nobody started in time.
Reserve(t) ==
    /\ GateIsOpen
    /\ AfterExpiry = None
    /\ nextId <= MaxRuns
    /\ active' = nextId
    /\ nextId' = nextId + 1
    /\ owner' = [owner EXCEPT ![nextId] = [NoRun EXCEPT !.task = t]]
    /\ UNCHANGED <<gate, state, holder, tree, reader, worker, cleanup, faults>>

\* The lease of a reservation runs out.
LeaseEnds(r) ==
    /\ active = r
    /\ ~owner[r].claimed /\ ~owner[r].expired
    /\ owner' = [owner EXCEPT ![r].expired = TRUE]
    /\ UNCHANGED <<active, nextId, gate, state, holder, tree, reader, worker, cleanup, faults>>

\* A call that is refused still drops an expired reservation.
DropExpired ==
    /\ GateIsOpen
    /\ active # AfterExpiry
    /\ active' = AfterExpiry
    /\ UNCHANGED <<nextId, gate, owner, state, holder, tree, reader, worker, cleanup, faults>>

\* start takes the gate, then the mutex of the run it was asked for.
BeginStart(r) ==
    /\ GateIsOpen
    /\ AfterExpiry = r
    /\ ~owner[r].cancelled
    /\ gate' = [use |-> "start", of |-> r]
    /\ UNCHANGED <<active, nextId, owner, state, holder, tree, reader, worker, cleanup, faults>>

Startable(r) == state[r].phase = "Unstarted" /\ ~owner[r].cancelled

\* The guard is handed to the worker; the lease no longer counts.
Claim(r) ==
    /\ gate = [use |-> "start", of |-> r]
    /\ holder[r] = None
    /\ Startable(r)
    /\ state' = [state EXCEPT ![r].phase = "Preparing", ![r].workerActive = TRUE]
    /\ owner' = [owner EXCEPT ![r].claimed = TRUE]
    /\ worker' = [worker EXCEPT ![r] = "started"]
    /\ gate' = Open
    /\ UNCHANGED <<active, nextId, holder, tree, reader, cleanup, faults>>

RefuseStart(r) ==
    /\ gate = [use |-> "start", of |-> r]
    /\ holder[r] = None
    /\ ~Startable(r)
    /\ gate' = Open
    /\ UNCHANGED <<active, nextId, owner, state, holder, tree, reader, worker, cleanup, faults>>

\* cancel marks the run and returns a request to wait for its cleanup.
Cancel(c, r) ==
    /\ GateIsOpen
    /\ AfterExpiry = r
    /\ cleanup[c].step \in {"idle", "ok", "failed"}
    /\ owner' = [owner EXCEPT ![r].cancelled = TRUE]
    /\ cleanup' = [cleanup EXCEPT ![c] = [NoCleanup EXCEPT !.step = "requested", !.run = r]]
    /\ UNCHANGED <<active, nextId, gate, state, holder, tree, reader, worker, faults>>

\* delete_idle_task keeps the gate until the task is deleted.
BeginDelete(t) ==
    /\ GateIsOpen
    /\ AfterExpiry # None => owner[AfterExpiry].task # t
    /\ active' = AfterExpiry
    /\ gate' = [use |-> "delete", of |-> t]
    /\ UNCHANGED <<nextId, owner, state, holder, tree, reader, worker, cleanup, faults>>

\* clear_idle_data keeps the gate until everything is cleared.
BeginClear ==
    /\ GateIsOpen
    /\ AfterExpiry = None
    /\ active' = AfterExpiry
    /\ gate' = [use |-> "clear", of |-> None]
    /\ UNCHANGED <<nextId, owner, state, holder, tree, reader, worker, cleanup, faults>>

EndRemoval ==
    /\ gate.use \in {"delete", "clear"}
    /\ gate' = Open
    /\ UNCHANGED <<active, nextId, owner, state, holder, tree, reader, worker, cleanup, faults>>

-----------------------------------------------------------------------------
(* The worker that holds the guard *)

\* A run cancelled before the spawn is not spawned.
Spawn(r) ==
    /\ worker[r] = "started"
    /\ ~owner[r].cancelled
    /\ tree' = [tree EXCEPT ![r] = Spawned]
    /\ worker' = [worker EXCEPT ![r] = "spawned"]
    /\ UNCHANGED <<active, nextId, gate, owner, state, holder, reader, cleanup, faults>>

AnchorSpawnFails(r) ==
    /\ worker[r] = "started"
    /\ ~owner[r].cancelled
    /\ faults > 0
    /\ faults' = faults - 1
    /\ worker' = [worker EXCEPT ![r] = "returning"]
    /\ UNCHANGED <<active, nextId, gate, owner, state, holder, tree, reader, cleanup>>

\* The anchor is left over and has to be attached, so that it is stopped.
ChildSpawnFails(r) ==
    /\ worker[r] = "started"
    /\ ~owner[r].cancelled
    /\ faults > 0
    /\ faults' = faults - 1
    /\ tree' = [tree EXCEPT ![r] = AnchorOnly]
    /\ worker' = [worker EXCEPT ![r] = "failed"]
    /\ UNCHANGED <<active, nextId, gate, owner, state, holder, reader, cleanup>>

\* attach: the tree is now the cleanup's to stop.
Attach(r) ==
    /\ worker[r] \in {"spawned", "failed"}
    /\ holder[r] = None
    /\ state' = [state EXCEPT ![r].process = TRUE]
    /\ worker' = [worker EXCEPT ![r] = IF @ = "spawned" THEN "attached" ELSE "returning"]
    /\ UNCHANGED <<active, nextId, gate, owner, holder, tree, reader, cleanup, faults>>

\* reader: a thread that reads one stream starts and its handle is kept.
Register(r, s) ==
    /\ worker[r] = "attached"
    /\ holder[r] = None
    /\ reader[r][s] = "none"
    /\ reader' = [reader EXCEPT ![r][s] = "running"]
    /\ UNCHANGED <<active, nextId, gate, owner, state, holder, tree, worker, cleanup, faults>>

\* Fault: the input is written with the mutex of the run held.
StartWritingLocked(r) ==
    /\ worker[r] = "attached"
    /\ \A s \in Streams : reader[r][s] # "none"
    /\ ~owner[r].cancelled
    /\ holder[r] = None
    /\ holder' = [holder EXCEPT ![r] = r]
    /\ worker' = [worker EXCEPT ![r] = "writing"]
    /\ UNCHANGED <<active, nextId, gate, owner, state, tree, reader, cleanup, faults>>

\* The mutex is not held while the input is written to a pipe that may block.
StartWriting(r) ==
    /\ worker[r] = "attached"
    /\ \A s \in Streams : reader[r][s] # "none"
    /\ ~owner[r].cancelled
    /\ worker' = [worker EXCEPT ![r] = "writing"]
    /\ UNCHANGED <<active, nextId, gate, owner, state, holder, tree, reader, cleanup, faults>>

\* The child reads its input; nothing says that it ever will.
WriteInput(r) ==
    /\ worker[r] = "writing"
    /\ ~PipesClosed(r)
    /\ worker' = [worker EXCEPT ![r] = "monitoring"]
    /\ UNCHANGED <<active, nextId, gate, owner, state, holder, tree, reader, cleanup, faults>>

\* The write fails once no process has the other end of the pipe.
WriteFails(r) ==
    /\ worker[r] = "writing"
    /\ PipesClosed(r)
    /\ worker' = [worker EXCEPT ![r] = "returning"]
    /\ UNCHANGED <<active, nextId, gate, owner, state, holder, tree, reader, cleanup, faults>>

\* try_wait: an exited child is reaped, unless a cleanup reaped it before.
ObserveExit(r) ==
    /\ worker[r] = "monitoring"
    /\ holder[r] = None
    /\ tree[r].child \in {"zombie", "reaped"}
    /\ tree' = [tree EXCEPT ![r].child = "reaped"]
    /\ worker' = [worker EXCEPT ![r] = "returning"]
    /\ UNCHANGED <<active, nextId, gate, owner, state, holder, reader, cleanup, faults>>

\* The worker sees the cancellation, times out, fails or panics.
GiveUp(r) ==
    /\ worker[r] \in {"started", "attached", "monitoring"}
    /\ worker' = [worker EXCEPT ![r] = "returning"]
    /\ UNCHANGED <<active, nextId, gate, owner, state, holder, tree, reader, cleanup, faults>>

\* RunGuard::finish, called or run by Drop: the worker is done with the run
\* and cleans up after itself.
Retire(r) ==
    /\ worker[r] = "returning"
    /\ holder[r] = None
    /\ state' = [state EXCEPT ![r].workerActive = FALSE]
    /\ worker' = [worker EXCEPT ![r] = "finishing"]
    /\ cleanup' = [cleanup EXCEPT ![r] = [NoCleanup EXCEPT !.step = "trying", !.run = r]]
    /\ UNCHANGED <<active, nextId, gate, owner, holder, tree, reader, faults>>

-----------------------------------------------------------------------------
(* Cleanup, by a caller or by the worker; the code's loop *)

BeginCleanup(c) ==
    /\ cleanup[c].step = "requested"
    /\ Advance(c, "trying")
    /\ UNCHANGED <<active, nextId, gate, owner, state, holder, tree, reader, worker, faults>>

DeadlinePasses(c) ==
    /\ cleanup[c].step \in {"trying", "stopping", "joining"}
    /\ ~cleanup[c].late
    /\ cleanup' = [cleanup EXCEPT ![c].late = TRUE]
    /\ UNCHANGED <<active, nextId, gate, owner, state, holder, tree, reader, worker, faults>>

\* The mutex is busy for too long; the run is left as it is.
GiveUpTrying(c) ==
    /\ cleanup[c].step = "trying"
    /\ holder[cleanup[c].run] # None
    /\ cleanup[c].late
    /\ Advance(c, "failed")
    /\ UNCHANGED <<active, nextId, gate, owner, state, holder, tree, reader, worker, faults>>

FindFinished(c) ==
    LET r == cleanup[c].run IN
    /\ cleanup[c].step = "trying"
    /\ holder[r] = None
    /\ state[r].phase = "Finished"
    /\ Advance(c, "releasing")
    /\ UNCHANGED <<active, nextId, gate, owner, state, holder, tree, reader, worker, faults>>

TakeState(c) ==
    LET r == cleanup[c].run IN
    /\ cleanup[c].step = "trying"
    /\ holder[r] = None
    /\ state[r].phase # "Finished"
    /\ Phase(r, "Cleaning")
    /\ holder' = [holder EXCEPT ![r] = c]
    /\ Advance(c, "stopping")
    /\ UNCHANGED <<active, nextId, gate, owner, tree, reader, worker, faults>>

\* Fault: a retry that takes a signalled tree for a stopped one.
MustStopUnsignalled(r) == state[r].process /\ ~tree[r].terminationIssued

\* OwnedProcess::stop has something left to do.
MustStop(r) == state[r].process /\ ~tree[r].cleaned

NothingToStop(c) ==
    /\ cleanup[c].step = "stopping"
    /\ ~MustStop(cleanup[c].run)
    /\ Advance(c, "joining")
    /\ UNCHANGED <<active, nextId, gate, owner, state, holder, tree, reader, worker, faults>>

\* submit_termination signals the whole group, once.
SubmitTermination(c) ==
    LET r == cleanup[c].run IN
    /\ cleanup[c].step = "stopping"
    /\ MustStop(r)
    /\ ~tree[r].terminationIssued
    /\ tree' = [tree EXCEPT ![r].terminationIssued = TRUE]
    /\ UNCHANGED <<active, nextId, gate, owner, state, holder, reader, worker, cleanup, faults>>

\* Each step of the stop is kept, so that a retry resumes after it.
ReapChild(c) ==
    LET r == cleanup[c].run IN
    /\ cleanup[c].step = "stopping"
    /\ MustStop(r)
    /\ tree[r].terminationIssued
    /\ tree[r].child = "zombie"
    /\ tree' = [tree EXCEPT ![r].child = "reaped"]
    /\ UNCHANGED <<active, nextId, gate, owner, state, holder, reader, worker, cleanup, faults>>

ReapAnchor(c) ==
    LET r == cleanup[c].run IN
    /\ cleanup[c].step = "stopping"
    /\ MustStop(r)
    /\ tree[r].terminationIssued
    /\ tree[r].child = "reaped"
    /\ tree[r].anchor # "live"
    /\ tree' = [tree EXCEPT ![r].anchor = IF @ = "none" THEN "none" ELSE "reaped",
                            ![r].cleaned = TRUE]
    /\ Advance(c, "joining")
    /\ UNCHANGED <<active, nextId, gate, owner, state, holder, reader, worker, faults>>

\* The cleanup gives up for now: the owner is retained.
Abandon(c) ==
    LET r == cleanup[c].run IN
    /\ Phase(r, "CleanupFailed")
    /\ holder' = [holder EXCEPT ![r] = None]
    /\ Advance(c, "failed")

\* The process to reap next is still alive when the time is up.
ReapingIncomplete(c) ==
    LET r == cleanup[c].run IN
    /\ cleanup[c].step = "stopping"
    /\ MustStop(r)
    /\ tree[r].terminationIssued
    /\ cleanup[c].late
    /\ \/ tree[r].child = "live"
       \/ tree[r].child = "reaped" /\ tree[r].anchor = "live"
    /\ Abandon(c)
    /\ UNCHANGED <<active, nextId, gate, owner, tree, reader, worker, faults>>

\* Fault: a failed termination that is not tried again.
StopFailsForGood(c) ==
    LET r == cleanup[c].run IN
    /\ cleanup[c].step = "stopping"
    /\ MustStop(r)
    /\ faults > 0
    /\ faults' = faults - 1
    /\ tree' = [tree EXCEPT ![r].cleaned = TRUE]
    /\ Abandon(c)
    /\ UNCHANGED <<active, nextId, gate, owner, reader, worker>>

\* The signal, or a wait for one of the processes, fails.
StopFails(c) ==
    LET r == cleanup[c].run IN
    /\ cleanup[c].step = "stopping"
    /\ MustStop(r)
    /\ faults > 0
    /\ faults' = faults - 1
    /\ Abandon(c)
    /\ UNCHANGED <<active, nextId, gate, owner, tree, reader, worker>>

\* The readers that ended are joined.
JoinFinished(r) ==
    reader' = [reader EXCEPT ![r] =
                  [s \in Streams |-> IF reader[r][s] = "finished" THEN "joined" ELSE reader[r][s]]]

\* Fault: a worker that has not retired is not waited for.
QuietWithoutWorker(r) == \A s \in Streams : reader[r][s] # "running"

\* Neither the worker nor a reader can still use the run.
Quiet(r) ==
    /\ ~state[r].workerActive
    /\ \A s \in Streams : reader[r][s] # "running"

\* Fault: the slot is released with the mutex of the run still held.
CompleteHoldingState(c) ==
    LET r == cleanup[c].run IN
    /\ cleanup[c].step = "joining"
    /\ Quiet(r)
    /\ JoinFinished(r)
    /\ Phase(r, "Finished")
    /\ Advance(c, "releasing")
    /\ UNCHANGED <<active, nextId, gate, owner, holder, tree, worker, faults>>

\* The mutex is given back before the slot's is taken.
Complete(c) ==
    LET r == cleanup[c].run IN
    /\ cleanup[c].step = "joining"
    /\ Quiet(r)
    /\ JoinFinished(r)
    /\ Phase(r, "Finished")
    /\ holder' = [holder EXCEPT ![r] = None]
    /\ Advance(c, "releasing")
    /\ UNCHANGED <<active, nextId, gate, owner, tree, worker, faults>>

RunOutOfTime(c) ==
    LET r == cleanup[c].run IN
    /\ cleanup[c].step = "joining"
    /\ ~Quiet(r)
    /\ cleanup[c].late
    /\ JoinFinished(r)
    /\ Abandon(c)
    /\ UNCHANGED <<active, nextId, gate, owner, tree, worker, faults>>

\* The mutex is free while the cleanup waits for the run to change.
WaitForChange(c) ==
    LET r == cleanup[c].run IN
    /\ cleanup[c].step = "joining"
    /\ ~Quiet(r)
    /\ ~cleanup[c].late
    /\ JoinFinished(r)
    /\ holder' = [holder EXCEPT ![r] = None]
    /\ Advance(c, "trying")
    /\ UNCHANGED <<active, nextId, gate, owner, state, tree, worker, faults>>

\* Fault: the slot is emptied whoever owns it now.
FreedWhoeverOwnsIt(r) == None

\* release empties the slot only of the run it was asked for.
Freed(r) == IF active = r THEN None ELSE active

Release(c) ==
    /\ cleanup[c].step = "releasing"
    /\ GateIsOpen
    /\ active' = Freed(cleanup[c].run)
    /\ Advance(c, "ok")
    /\ UNCHANGED <<nextId, gate, owner, state, holder, tree, reader, worker, faults>>

-----------------------------------------------------------------------------
(* Processes and reader threads *)

\* A child exits by itself, or because it is signalled, by us or by a stranger.
ChildExits(r) ==
    /\ tree[r].child = "live"
    /\ tree' = [tree EXCEPT ![r].child = "zombie"]
    /\ UNCHANGED <<active, nextId, gate, owner, state, holder, reader, worker, cleanup, faults>>

DescendantsExit(r) ==
    /\ tree[r].descendants
    /\ tree' = [tree EXCEPT ![r].descendants = FALSE]
    /\ UNCHANGED <<active, nextId, gate, owner, state, holder, reader, worker, cleanup, faults>>

\* An anchor waits for an input that never comes, until it is signalled.
AnchorExits(r) ==
    /\ tree[r].anchor = "live"
    /\ tree' = [tree EXCEPT ![r].anchor = "zombie"]
    /\ UNCHANGED <<active, nextId, gate, owner, state, holder, reader, worker, cleanup, faults>>

\* A reader ends at the end of its stream, or before it, on an error.
ReaderEnds(r, s) ==
    /\ reader[r][s] = "running"
    /\ reader' = [reader EXCEPT ![r][s] = "finished"]
    /\ UNCHANGED <<active, nextId, gate, owner, state, holder, tree, worker, cleanup, faults>>

-----------------------------------------------------------------------------
(* The specification *)

GateStep ==
    \/ \E t \in Tasks : Reserve(t) \/ BeginDelete(t)
    \/ DropExpired
    \/ BeginClear
    \/ EndRemoval
    \/ \E r \in RunIds : LeaseEnds(r) \/ BeginStart(r) \/ Claim(r) \/ RefuseStart(r)
    \/ \E c \in Stoppers, r \in RunIds : Cancel(c, r)

WorkerStep(r) ==
    \/ Spawn(r) \/ AnchorSpawnFails(r) \/ ChildSpawnFails(r) \/ Attach(r)
    \/ \E s \in Streams : Register(r, s)
    \/ StartWriting(r) \/ WriteInput(r) \/ WriteFails(r)
    \/ ObserveExit(r) \/ GiveUp(r) \/ Retire(r)

\* One pass of the cleanup loop, and what follows it.
CleanupStep(c) ==
    \/ BeginCleanup(c) \/ GiveUpTrying(c) \/ FindFinished(c) \/ TakeState(c)
    \/ NothingToStop(c) \/ SubmitTermination(c) \/ ReapChild(c) \/ ReapAnchor(c)
    \/ ReapingIncomplete(c) \/ Complete(c) \/ RunOutOfTime(c) \/ WaitForChange(c)
    \/ Release(c)

SystemStep(r) ==
    \/ ChildExits(r) \/ DescendantsExit(r) \/ AnchorExits(r)
    \/ \E s \in Streams : ReaderEnds(r, s)

Next ==
    \/ GateStep
    \/ \E r \in RunIds : WorkerStep(r) \/ SystemStep(r)
    \/ \E c \in Cleaners : CleanupStep(c) \/ DeadlinePasses(c) \/ StopFails(c)

Spec == Init /\ [][Next]_vars

\* What the code's threads and the operating system are relied on for.  A
\* thread that is ready runs.  A thread that waits for a mutex gets it in the
\* end: a cleanup gives the mutex up for up to 10 ms on each pass, and nobody
\* else holds one for long.  Signalled processes exit, and a reader sees the end
\* of its stream.  Nothing says that a child exits or reads its input by
\* itself, that a caller cancels or retries, or that a system call succeeds.
Fairness ==
    /\ WF_vars(EndRemoval)
    /\ \A r \in RunIds :
        /\ SF_vars(Claim(r) \/ RefuseStart(r))
        /\ WF_vars(Spawn(r))
        /\ SF_vars(Attach(r))
        /\ \A s \in Streams : SF_vars(Register(r, s))
        /\ WF_vars(StartWriting(r))
        /\ WF_vars(WriteFails(r))
        /\ SF_vars(ObserveExit(r))
        /\ WF_vars(owner[r].cancelled /\ GiveUp(r))
        /\ SF_vars(Retire(r))
        /\ WF_vars(tree[r].terminationIssued /\ ChildExits(r))
        /\ WF_vars(tree[r].terminationIssued /\ DescendantsExit(r))
        /\ WF_vars(tree[r].terminationIssued /\ AnchorExits(r))
        /\ \A s \in Streams : WF_vars(PipesClosed(r) /\ ReaderEnds(r, s))
    /\ \A c \in Cleaners :
        /\ WF_vars(CleanupStep(c))
        /\ SF_vars(Release(c))
        /\ WF_vars(DeadlinePasses(c))

FairSpec == Spec /\ Fairness

-----------------------------------------------------------------------------
(* Properties *)

\* Variables keep their types.
TypeOK ==
    /\ active \in RunIds \cup {None}
    /\ nextId \in 1..(MaxRuns + 1)
    /\ gate \in [use : {"none", "start", "delete", "clear"}, of : Tasks \cup RunIds \cup {None}]
    /\ owner \in [RunIds -> Run]
    /\ state \in [RunIds -> RunState]
    /\ holder \in [RunIds -> Cleaners \cup {None}]
    /\ tree \in [RunIds -> Tree]
    /\ reader \in [RunIds -> [Streams -> {"none", "running", "finished", "joined"}]]
    /\ worker \in [RunIds -> WorkerSteps]
    /\ cleanup \in [Cleaners -> [step : CleanupSteps, run : RunIds \cup {None}, late : BOOLEAN]]
    /\ faults \in 0..MaxFaults

\* Nothing of the run is left: its worker has no more use for it, its processes
\* were signalled and reaped, its readers ended.
Gone(r) ==
    /\ worker[r] \in {"none", "finishing"}
    /\ ~Exists(tree[r].child) /\ ~Exists(tree[r].anchor)
    /\ tree[r].child # "none" => tree[r].terminationIssued
    /\ \A s \in Streams : reader[r][s] \in {"none", "joined"}

\* Only the run that owns the slot has a worker, a process or a reader: no
\* release, expiry or late cleanup lets two analyses run side by side.
OnlyTheOwnerLives == \A r \in RunIds : r # active => Gone(r)

\* A cleanup that reports success left nothing behind, whoever performed it and
\* however many other cleanups of the run failed or are still in progress.
ConfirmedIsGone ==
    \A c \in Cleaners :
        cleanup[c].step \in {"releasing", "ok"} =>
            /\ state[cleanup[c].run].phase = "Finished"
            /\ Gone(cleanup[c].run)
            /\ cleanup[c].step = "ok" => active # cleanup[c].run

\* While the saved data of a task is removed, no run of it exists, and while
\* everything is cleared, no run exists at all.
RemovalsAreAlone ==
    \A r \in RunIds :
        \/ gate.use = "clear"
        \/ gate.use = "delete" /\ owner[r].task = gate.of
        => active # r /\ Gone(r)

\* The group is signalled only while its leader is unreaped: its number cannot
\* have been given to a stranger.
SignalsReachOwnGroup ==
    [][\A r \in RunIds :
        tree'[r].terminationIssued /\ ~tree[r].terminationIssued => Exists(Leader(r))]_vars

\* A run loses the slot only when it is finished, or when its lease ran out
\* before anyone started it; a cleanup of an older run cannot take it away.
OwnersAreNotEvicted ==
    [][\A r \in RunIds :
        active = r /\ active' # r =>
            \/ state[r].phase = "Finished"
            \/ owner[r].expired /\ ~owner[r].claimed]_vars

\* A run is handed to one worker, and never after its cancellation or cleanup.
GuardsAreUnique ==
    [][\A r \in RunIds :
        worker'[r] = "started" /\ worker[r] # "started" =>
            /\ worker[r] = "none"
            /\ ~owner[r].cancelled
            /\ state[r].phase = "Unstarted"]_vars

InProgress(c) == cleanup[c].step \notin {"idle", "ok", "failed"}

\* Every cleanup is answered, also when the worker is stuck, the process does
\* not die or another cleanup of the same run is in the way.
CleanupsAreAnswered == \A c \in Cleaners : InProgress(c) ~> ~InProgress(c)

\* A cancelled worker retires, although it may be blocked on the pipe of a child
\* that never reads it; or the cleanup failed and says so.
CancelledWorkersRetire ==
    \A r \in RunIds :
        owner[r].cancelled ~> \/ worker[r] \in {"none", "finishing"}
                              \/ state[r].phase = "CleanupFailed"

\* Stopping again and again frees the slot, whatever failed before.
RetriesFreeTheSlot ==
    \A r \in RunIds :
        ([]<>(\E c \in Stoppers : InProgress(c) /\ cleanup[c].run = r)) => <>[](active # r)

-----------------------------------------------------------------------------
(* The inductive invariant *)

\* The guard of a run is with its worker, and a run nobody started is empty.
WorkersMatch ==
    \A r \in RunIds :
        /\ worker[r] = "none" <=> ~owner[r].claimed
        /\ state[r].workerActive <=> worker[r] \notin {"none", "finishing"}
        /\ owner[r].claimed => state[r].phase # "Unstarted"
        /\ worker[r] \in {"none", "started"} => tree[r] = NoTree /\ ~state[r].process
        /\ worker[r] = "none" => \A s \in Streams : reader[r][s] = "none"

\* A tree is attached or in the worker's hands, an attached one is led by its
\* anchor unless the spawn failed, and a stopped one is reaped.
TreesMatch ==
    \A r \in RunIds :
        /\ tree[r].child # "none" <=> state[r].process \/ worker[r] \in {"spawned", "failed"}
        /\ worker[r] \in {"spawned", "attached", "writing", "monitoring"} =>
               tree[r].child # "none" /\ tree[r].anchor # "none"
        /\ tree[r].child = "none" => tree[r].anchor = "none"
        /\ tree[r].child = "reaped" /\ tree[r].anchor = "none" => tree[r].terminationIssued
        /\ tree[r].anchor = "reaped" => tree[r].cleaned
        /\ tree[r].cleaned => /\ tree[r].terminationIssued
                              /\ tree[r].child = "reaped"
                              /\ tree[r].anchor \in {"none", "reaped"}

\* The mutex of a run is held by a cleanup of that run, and the other way round.
HoldersMatch ==
    /\ \A r \in RunIds :
        holder[r] # None =>
            /\ cleanup[holder[r]].run = r
            /\ cleanup[holder[r]].step \in {"stopping", "joining"}
            /\ state[r].phase = "Cleaning"
    /\ \A c \in Cleaners :
        cleanup[c].step \in {"stopping", "joining"} => holder[cleanup[c].run] = c

\* Each cleanup is of a run reserved before; the worker's own starts when the
\* worker is done; past the stop, nothing is left to stop.
CleanupsMatch ==
    /\ \A c \in Cleaners :
        /\ cleanup[c].step # "idle" => cleanup[c].run \in 1..(nextId - 1)
        /\ cleanup[c].step = "joining" => ~MustStop(cleanup[c].run)
        /\ cleanup[c].step \in {"releasing", "ok"} => state[cleanup[c].run].phase = "Finished"
        /\ cleanup[c].step = "ok" => active # cleanup[c].run
    /\ \A r \in RunIds : worker[r] # "finishing" => cleanup[r].step = "idle"

\* A finished run has no active worker, nothing to stop and no reader to join.
FinishedIsQuiet ==
    \A r \in RunIds :
        state[r].phase = "Finished" =>
            /\ ~state[r].workerActive
            /\ ~MustStop(r)
            /\ \A s \in Streams : reader[r][s] \in {"none", "joined"}

\* A started run keeps the slot until it is finished.
SlotMatches ==
    /\ active # None => active \in 1..(nextId - 1)
    /\ \A r \in RunIds :
        /\ owner[r].claimed /\ state[r].phase # "Finished" => active = r
        /\ r >= nextId => ~owner[r].claimed

\* A start and a removal hold the gate of what they found in the slot.
GateMatches ==
    /\ gate.use = "start" => gate.of = active /\ active # None /\ ~owner[active].cancelled
    /\ gate.use = "delete" /\ active # None => owner[active].task # gate.of
    /\ gate.use = "clear" => active = None

\* What the proofs rest on.
IInv ==
    /\ TypeOK /\ WorkersMatch /\ TreesMatch /\ HoldersMatch
    /\ CleanupsMatch /\ FinishedIsQuiet /\ SlotMatches /\ GateMatches

=============================================================================
