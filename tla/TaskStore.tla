------------------------------ MODULE TaskStore ------------------------------
(***************************************************************************)
(* The native task store: storage/task_mutation.rs together with the       *)
(* commands that call it (storage.rs, main.rs).                            *)
(*                                                                         *)
(* A caller freezes a packet: a request identity, an operation, and the    *)
(* collection token and task heads it has read.  It may send the packet    *)
(* any number of times, late, and after other requests changed the store.  *)
(* The store binds the identity to the packet, compares the captured       *)
(* authority with the current one, applies the operation at most once and  *)
(* keeps the outcome.  A clear is the one operation that spans two SQL     *)
(* transactions, with the removal of credentials between them.             *)
(*                                                                         *)
(* One step is one SQL transaction or one external effect.  A transaction  *)
(* that changes nothing (a query, the replay of a decided request) is not  *)
(* a step of its own.  A packet stands for its own digest.                 *)
(***************************************************************************)
EXTENDS Naturals, FiniteSets

CONSTANTS
    Tasks,        \* task identities
    RequestIds,   \* mutation request identities
    Callers,      \* command invocations that may be in progress at once
    Processes,    \* operating-system processes with the database open
    ProcessOf,    \* the process each caller runs in
    MaxCounter,   \* the largest counter value (i64::MAX in the code)
    MaxCopies,    \* bound: supported copies of the database
    MaxPackets,   \* bound: packets frozen in a behaviour
    None,         \* no packet, no receipt, no saved body
    Legacy,       \* the writer of a body that predates task heads
    Projection    \* the writer of a body projected from an analysis journal

ASSUME StoreAssumption ==
    /\ ProcessOf \in [Callers -> Processes]
    /\ MaxCounter \in Nat \ {0}
    /\ MaxCopies \in Nat
    /\ MaxPackets \in Nat
    /\ {None, Legacy, Projection} \cap RequestIds = {}
    /\ None # Legacy /\ None # Projection

VARIABLES
    collection,   \* task_store_metadata: collection_id and epoch
    closed,       \* task_store_metadata: legacy_import_closed
    heads,        \* task_store_heads; an absent row is NeverSeen
    bodies,       \* tasks: the request that wrote each saved body, or None
    requests,     \* task_mutation_requests
    packets,      \* packets the callers have frozen
    calls,        \* removal commands in progress
    external      \* observer: what each clear did to settings and credentials

vars == <<collection, closed, heads, bodies, requests, packets, calls, external>>

-----------------------------------------------------------------------------
(* Records *)

Counter == 0..MaxCounter

NeverSeen == [generation |-> 0, revision |-> 0, state |-> "never_seen"]

\* The heads validate_head accepts.
TaskHead ==
    {NeverSeen} \cup [generation : Counter \ {0}, revision : Counter \ {0},
                      state : {"live", "tombstone"}]

Collection == [id : 0..MaxCopies, epoch : Counter]

Saves == {"create", "recreate", "update", "import"}
Removals == {"delete", "clear"}

\* What parse lets through.  `expected` is read only at `tasks`.
Packet ==
    {p \in [request : RequestIds, operation : Saves \cup Removals,
            collection : Collection, tasks : SUBSET Tasks, expected : [Tasks -> TaskHead]] :
        p.operation = "clear" => p.tasks = {}}

Receipt == [collection : Collection, heads : [Tasks -> TaskHead]]

\* storage_unavailable stands for every failure to write a body: an
\* undecodable or invalid task, an immutable history, a SQLite error.
Rejections ==
    {"storage_conflict", "storage_owned", "storage_unavailable",
     "storage_partial_clear"}

Row ==
    [outcome : {"missing", "pending", "committed", "rejected"},
     packet : Packet \cup {None}, receipt : Receipt \cup {None},
     code : Rejections \cup {"none"}]

NoRow == [outcome |-> "missing", packet |-> None, receipt |-> None, code |-> "none"]

\* A removal command is probed once its replay probe found no outcome; a clear
\* is then external, and settling or refusing once the external stage ended.
ClearPhases == {"external", "settling", "refusing"}

Call ==
    [phase : {"idle", "probed"} \cup ClearPhases, packet : Packet \cup {None}]

Idle == [phase |-> "idle", packet |-> None]

-----------------------------------------------------------------------------
(* Operators on packets *)

\* increment fails at the largest counter instead of wrapping.
Exhausted(n) == n = MaxCounter

\* next_heads: an operation applies only to a head in its own state.
CanAdvance(op, h) ==
    CASE op \in {"create", "import"} -> h.state = "never_seen"
      [] op = "recreate" -> h.state = "tombstone" /\ ~Exhausted(h.generation)
      [] op = "update"   -> h.state = "live" /\ ~Exhausted(h.revision)
      [] op = "delete"   -> h.state = "never_seen" \/ ~Exhausted(h.revision)
      [] op = "clear"    -> TRUE

FirstHead(state) == [generation |-> 1, revision |-> 1, state |-> state]

NextHead(op, h) ==
    CASE op \in {"create", "import"} -> FirstHead("live")
      [] op = "recreate" -> [generation |-> h.generation + 1, revision |-> 1,
                             state |-> "live"]
      [] op = "update"   -> [h EXCEPT !.revision = @ + 1]
      [] op = "delete"   -> IF h.state = "never_seen" THEN FirstHead("tombstone")
                            ELSE [h EXCEPT !.revision = @ + 1, !.state = "tombstone"]
      [] op = "clear"    -> h

\* The collection a committed request leaves behind.
NextCollection(p) ==
    IF p.operation = "clear" THEN [p.collection EXCEPT !.epoch = @ + 1]
    ELSE p.collection

\* The receipt outcome() insists on when it replays a committed row.
DueReceipt(p) ==
    [collection |-> NextCollection(p),
     heads |-> [t \in Tasks |-> IF t \in p.tasks
                                THEN NextHead(p.operation, p.expected[t])
                                ELSE NeverSeen]]

-----------------------------------------------------------------------------
(* Tests made inside a transaction *)

\* Fault: heads are not compared, so a late packet overwrites unseen work.
AuthorityIgnoringHeads(p) == p.collection = collection

\* check_authority
Authority(p) ==
    /\ p.collection = collection
    /\ \A t \in p.tasks : p.expected[t] = heads[t]

\* Fault: an import asks only whether any head exists.
ImportOpenWithoutGate == \A t \in Tasks : heads[t] = NeverSeen

ImportOpen == ~closed /\ \A t \in Tasks : heads[t] = NeverSeen

\* What effects requires of a packet before it writes anything.
Admissible(p) ==
    /\ Authority(p)
    /\ p.operation = "import" => ImportOpen
    /\ \A t \in p.tasks : CanAdvance(p.operation, p.expected[t])

\* Fault: a retry takes an unconfirmed clear for one that never began.
MissingOrPending(r) == requests[r].outcome \in {"missing", "pending"}

\* outcome() = Missing; every other outcome returns before anything is written.
Missing(r) == requests[r].outcome = "missing"

\* MUTATIONS is held by at most one caller of a process, and by a clear across
\* both of its transactions.
CoordinatorFree(c) ==
    \A d \in Callers :
        ProcessOf[d] = ProcessOf[c] => calls[d].phase \notin ClearPhases

-----------------------------------------------------------------------------
(* Building blocks of the transactions *)

HeadsAfter(p) ==
    [t \in Tasks |-> IF t \in p.tasks THEN NextHead(p.operation, p.expected[t])
                     ELSE heads[t]]

\* Fault: a batch that issues heads for more than one task and saves no body.
BodiesOfLostBatch(p) ==
    [t \in Tasks |-> IF t \notin p.tasks \/ Cardinality(p.tasks) > 1 THEN bodies[t]
                     ELSE IF p.operation = "delete" THEN None ELSE p.request]

BodiesAfter(p) ==
    [t \in Tasks |-> IF t \notin p.tasks THEN bodies[t]
                     ELSE IF p.operation = "delete" THEN None ELSE p.request]

\* Fault: the savepoint is released without being rolled back.
BodiesWithoutRollback(p) == IF Admissible(p) THEN BodiesAfter(p) ELSE bodies

\* ROLLBACK TO task_effects: what a failed effect wrote is undone.
BodiesAfterRefusal(p) == bodies

\* bind, then reject: the row keeps the packet and the code.
Reject(p, code) ==
    requests' = [requests EXCEPT ![p.request] =
        [outcome |-> "rejected", packet |-> p, receipt |-> None, code |-> code]]

\* Fault: the receipt is written before the collection it speaks of is updated.
CommitReceiptTooEarly(p, after) ==
    requests' = [requests EXCEPT ![p.request] =
        [outcome |-> "committed", packet |-> p, code |-> "none",
         receipt |-> [collection |-> collection, heads |-> DueReceipt(p).heads]]]

\* bind, then commit_receipt: `after` is the collection the transaction leaves.
CommitReceipt(p, after) ==
    requests' = [requests EXCEPT ![p.request] =
        [outcome |-> "committed", packet |-> p, code |-> "none",
         receipt |-> [collection |-> after, heads |-> DueReceipt(p).heads]]]

\* The successful branch of execute.
Commit(p) ==
    /\ Admissible(p)
    /\ heads' = HeadsAfter(p)
    /\ bodies' = BodiesAfter(p)
    /\ closed' = TRUE
    /\ UNCHANGED collection
    /\ CommitReceipt(p, collection)

\* The failing branch: a stale or misplaced packet is a conflict; an admissible
\* one may still fail to be written, or be a delete the journal holds back.
Refuse(p) ==
    /\ \E code \in Rejections :
          /\ IF Admissible(p)
             THEN \/ code = "storage_unavailable"
                  \/ code = "storage_owned" /\ p.operation = "delete"
             ELSE code = "storage_conflict"
          /\ Reject(p, code)
    /\ bodies' = BodiesAfterRefusal(p)
    /\ UNCHANGED <<collection, closed, heads>>

Return(c) == calls' = [calls EXCEPT ![c] = Idle]

Enter(c, phase) == calls' = [calls EXCEPT ![c].phase = phase]

-----------------------------------------------------------------------------
(* Initial state: a pristine database, or a migrated one whose saved tasks
   received live heads and whose import gate is shut. *)

Init ==
    /\ collection = [id |-> 0, epoch |-> 0]
    /\ \E migrated \in SUBSET Tasks :
          /\ closed \in {FALSE, TRUE}
          /\ migrated # {} => closed
          /\ heads = [t \in Tasks |-> IF t \in migrated THEN FirstHead("live")
                                     ELSE NeverSeen]
          /\ bodies = [t \in Tasks |-> IF t \in migrated THEN Legacy ELSE None]
    /\ requests = [r \in RequestIds |-> NoRow]
    /\ packets = {}
    /\ calls = [c \in Callers |-> Idle]
    /\ external = [r \in RequestIds |-> "untouched"]

-----------------------------------------------------------------------------
(* Actions *)

\* A caller reads the current authority and freezes a packet against it.  parse
\* admits any operation on any heads, one task unless it imports or clears.
Freeze(r, op, ts) ==
    /\ Cardinality(packets) < MaxPackets
    /\ op \in {"create", "recreate", "update", "delete"} => Cardinality(ts) = 1
    /\ op = "clear" => ts = {}
    /\ packets' = packets \cup
          {[request |-> r, operation |-> op, collection |-> collection, tasks |-> ts,
            expected |-> [t \in Tasks |-> IF t \in ts THEN heads[t] ELSE NeverSeen]]}
    /\ UNCHANGED <<collection, closed, heads, bodies, requests, calls, external>>

\* save_task and import_tasks: mutate_task and execute.
Save(c, p) ==
    /\ calls[c].phase = "idle"
    /\ CoordinatorFree(c)
    /\ p.operation \in Saves
    /\ Missing(p.request)
    /\ Commit(p) \/ Refuse(p)
    /\ UNCHANGED <<packets, calls, external>>

\* guarded_task_removal: the replay probe, outside the coordinator.
ProbeRemoval(c, p) ==
    /\ calls[c].phase = "idle"
    /\ p.operation \in Removals
    /\ Missing(p.request)
    /\ calls' = [calls EXCEPT ![c] = [phase |-> "probed", packet |-> p]]
    /\ UNCHANGED <<collection, closed, heads, bodies, requests, packets, external>>

\* The request was decided, or is pending, since the probe.
ReplayRemoval(c) ==
    /\ calls[c].phase = "probed"
    /\ CoordinatorFree(c)
    /\ ~Missing(calls[c].packet.request)
    /\ Return(c)
    /\ UNCHANGED <<collection, closed, heads, bodies, requests, packets, external>>

\* The runtime refused admission: reject_owned.
RefuseRemoval(c) ==
    LET p == calls[c].packet IN
    /\ calls[c].phase = "probed"
    /\ CoordinatorFree(c)
    /\ Missing(p.request)
    /\ Reject(p, "storage_owned")
    /\ Return(c)
    /\ UNCHANGED <<collection, closed, heads, bodies, packets, external>>

\* The runtime admitted the delete: execute.
Delete(c) ==
    LET p == calls[c].packet IN
    /\ calls[c].phase = "probed"
    /\ p.operation = "delete"
    /\ CoordinatorFree(c)
    /\ Missing(p.request)
    /\ Commit(p) \/ Refuse(p)
    /\ Return(c)
    /\ UNCHANGED <<packets, external>>

\* clear, first transaction: the fence.  A stale collection, an exhausted epoch
\* or unconfirmed research output refuses the clear before anything external is
\* touched; otherwise the request stays bound as pending.
FenceClear(c) ==
    LET p == calls[c].packet IN
    /\ calls[c].phase = "probed"
    /\ p.operation = "clear"
    /\ CoordinatorFree(c)
    /\ Missing(p.request)
    /\ IF p.collection = collection /\ ~Exhausted(collection.epoch)
       THEN \/ Reject(p, "storage_owned") /\ Return(c)
            \/ /\ requests' = [requests EXCEPT ![p.request] =
                     [NoRow EXCEPT !.outcome = "pending", !.packet = p]]
               /\ Enter(c, "external")
       ELSE Reject(p, "storage_conflict") /\ Return(c)
    /\ UNCHANGED <<collection, closed, heads, bodies, packets, external>>

\* The external stage: credentials are removed, or it fails part of the way.
RunExternalStage(c) ==
    /\ calls[c].phase = "external"
    /\ \E result \in {"cleared", "partial"} :
          /\ external' = [external EXCEPT ![calls[c].packet.request] = result]
          /\ Enter(c, IF result = "cleared" THEN "settling" ELSE "refusing")
    /\ UNCHANGED <<collection, closed, heads, bodies, requests, packets>>

\* The external stage failed: the request is refused as partially cleared.
RefusePartialClear(c) ==
    LET p == calls[c].packet IN
    /\ calls[c].phase = "refusing"
    /\ requests[p.request].outcome = "pending"
    /\ Reject(p, "storage_partial_clear")
    /\ Return(c)
    /\ UNCHANGED <<collection, closed, heads, bodies, packets, external>>

\* Fault: the second transaction trusts the check made by the first.
NoSecondCheck(p) == TRUE

\* check_authority in the second transaction of a clear.
SecondCheck(p) == Authority(p)

\* clear, second transaction: bodies and heads go, the epoch advances.
SettleClear(c) ==
    LET p == calls[c].packet
        after == [collection EXCEPT !.epoch = p.collection.epoch + 1] IN
    /\ calls[c].phase = "settling"
    /\ requests[p.request].outcome = "pending"
    /\ SecondCheck(p)
    /\ bodies' = [t \in Tasks |-> None]
    /\ heads' = [t \in Tasks |-> NeverSeen]
    /\ collection' = after
    /\ closed' = TRUE
    /\ CommitReceipt(p, after)
    /\ Return(c)
    /\ UNCHANGED <<packets, external>>

\* The second transaction failed or was refused by its check: its effects are
\* rolled back and the request stays pending.
AbandonClear(c) ==
    /\ calls[c].phase \in {"settling", "refusing"}
    /\ Return(c)
    /\ UNCHANGED <<collection, closed, heads, bodies, requests, packets, external>>

\* A process dies with its commands; what it committed stays.
Crash(q) ==
    /\ \E c \in Callers : ProcessOf[c] = q /\ calls[c] # Idle
    /\ calls' = [c \in Callers |-> IF ProcessOf[c] = q THEN Idle ELSE calls[c]]
    /\ UNCHANGED <<collection, closed, heads, bodies, requests, packets, external>>

\* analysis_journal::project, as far as the store is concerned: an update of the
\* head the journal has read in the same transaction.
ProjectJournal(t) ==
    /\ \E c \in Callers : CoordinatorFree(c)
    /\ CanAdvance("update", heads[t])
    /\ heads' = [heads EXCEPT ![t] = NextHead("update", @)]
    /\ bodies' = [bodies EXCEPT ![t] = Projection]
    /\ closed' = TRUE
    /\ UNCHANGED <<collection, requests, packets, calls, external>>

\* rotate_for_supported_copy: the program starts on a copy of the database with
\* a collection identity of its own.  Requests and heads come along.
StartOnCopy ==
    /\ collection.id < MaxCopies
    /\ collection' = [id |-> collection.id + 1, epoch |-> 0]
    /\ closed' = TRUE
    /\ calls' = [c \in Callers |-> Idle]
    /\ UNCHANGED <<heads, bodies, requests, packets, external>>

Next ==
    \/ \E r \in RequestIds, op \in Saves \cup Removals, ts \in SUBSET Tasks :
          Freeze(r, op, ts)
    \/ \E c \in Callers, p \in packets : Save(c, p) \/ ProbeRemoval(c, p)
    \/ \E c \in Callers :
          \/ ReplayRemoval(c) \/ RefuseRemoval(c) \/ Delete(c)
          \/ FenceClear(c) \/ RunExternalStage(c) \/ RefusePartialClear(c)
          \/ SettleClear(c) \/ AbandonClear(c)
    \/ \E q \in Processes : Crash(q)
    \/ \E t \in Tasks : ProjectJournal(t)
    \/ StartOnCopy

Spec == Init /\ [][Next]_vars

-----------------------------------------------------------------------------
(* Properties *)

\* Heads are compared within one collection; `below` is the order in which a
\* task's heads are issued there.
Below(g, h) ==
    \/ g.generation < h.generation
    \/ g.generation = h.generation /\ g.revision < h.revision

\* Every variable has the shape the SQL schema and parse give it; in particular
\* no operation moves a counter past the largest one (increment).
TypeOK ==
    /\ collection \in Collection
    /\ closed \in BOOLEAN
    /\ heads \in [Tasks -> TaskHead]
    /\ bodies \in [Tasks -> RequestIds \cup {None, Legacy, Projection}]
    /\ requests \in [RequestIds -> Row]
    /\ packets \subseteq Packet
    /\ calls \in [Callers -> Call]
    /\ external \in [RequestIds -> {"untouched", "partial", "cleared"}]

\* A task has a saved body exactly when its head is live: the agreement that
\* current() checks on every read, and without which the store is unavailable.
BodiesMatchHeads ==
    \A t \in Tasks : bodies[t] # None <=> heads[t].state = "live"

\* A saved body was written by a committed request, and the task's head is the
\* one that request's receipt promised: nothing overwrote the body without
\* moving the head, and no refused request left a body behind (execute).
LiveBodyIsReceipted ==
    \A t \in Tasks, r \in RequestIds :
        bodies[t] = r =>
            /\ requests[r].outcome = "committed"
            /\ t \in requests[r].packet.tasks
            /\ requests[r].receipt.heads[t] = heads[t]

\* Every stored row passes the checks outcome() makes when it replays it: only a
\* clear is ever left pending, and a committed row's receipt is the one its own
\* packet determines.
RowsReplay ==
    \A r \in RequestIds :
        LET row == requests[r] IN
        /\ row.outcome # "missing" => row.packet.request = r
        /\ row.outcome = "pending" => row.packet.operation = "clear"
        /\ row.outcome = "committed" => row.receipt = DueReceipt(row.packet)

\* Within a collection no two committed requests were given the same head of a
\* task: each applied to a state no other had applied to (check_authority), so
\* no accepted save was silently overwritten by another caller's; and no two
\* clears claim to have emptied it, whatever happened between the transactions
\* of either.
ReceiptsAreDistinct ==
    \A r, s \in RequestIds :
        /\ r # s
        /\ requests[r].outcome = "committed" /\ requests[s].outcome = "committed"
        /\ requests[r].receipt.collection = requests[s].receipt.collection
        => /\ requests[r].packet.operation = "clear" =>
                 requests[s].packet.operation # "clear"
           /\ \A t \in requests[r].packet.tasks \cap requests[s].packet.tasks :
                 requests[r].receipt.heads[t] # requests[s].receipt.heads[t]

\* Credentials are touched at most once for a request, only by the caller that
\* fenced it, and the recorded outcome tells the truth about them (clear).
ExternalStageIsHonest ==
    /\ \A c \in Callers : calls[c].phase \in ClearPhases =>
          LET r == calls[c].packet.request IN
          /\ requests[r].outcome = "pending"
          /\ calls[c].phase = "external" => external[r] = "untouched"
          /\ \A d \in Callers \ {c} :
                calls[d].phase \in ClearPhases => calls[d].packet.request # r
    /\ \A r \in RequestIds :
          LET row == requests[r] IN
          /\ external[r] # "untouched" => row.outcome # "missing"
                                          /\ row.packet.operation = "clear"
          /\ row.code = "storage_partial_clear" <=>
                row.outcome = "rejected" /\ external[r] = "partial"
          /\ row.outcome = "committed" /\ row.packet.operation = "clear" =>
                external[r] = "cleared"

\* A legacy import commits only into a store no request has yet changed, so
\* late legacy data never mixes with, or revives, what the store has decided
\* (effects: the gate and the empty head table).
ImportComesFirst ==
    [][\A r \in RequestIds :
          /\ requests[r].outcome # "committed"
          /\ requests'[r].outcome = "committed"
          /\ requests'[r].packet.operation = "import"
          => \A s \in RequestIds : requests[s].outcome # "committed"]_vars

\* A decided request keeps its outcome, receipt and binding for ever, and a
\* bound one keeps its packet: a retry after a lost reply hears the same answer.
DecisionsAreFinal ==
    [][\A r \in RequestIds :
          /\ requests[r].outcome \in {"committed", "rejected"} =>
                requests'[r] = requests[r]
          /\ requests[r].outcome # "missing" =>
                requests'[r].packet = requests[r].packet]_vars

\* Within a collection a task's head only moves forward, at most one generation
\* at a time, and a tombstone comes back to life only in a new generation: a
\* captured head is never issued again, so a stale packet stays stale (ABA).
\* No counter is carried past the largest one that can be stored.
HeadsOnlyAdvance ==
    [][\A t \in Tasks :
          /\ {heads'[t].generation, heads'[t].revision, collection'.epoch} \subseteq 0 .. MaxCounter
          /\ collection' = collection /\ heads'[t] # heads[t] =>
                /\ Below(heads[t], heads'[t])
                /\ heads'[t].generation <= heads[t].generation + 1
                /\ heads[t].state = "tombstone" /\ heads'[t].state = "live" =>
                      heads'[t].generation > heads[t].generation
          /\ heads'[t] = NeverSeen /\ heads[t] # NeverSeen =>
                collection'.id = collection.id
                /\ collection'.epoch = collection.epoch + 1]_vars

\* A clear whose caller is gone before it settled: nobody will decide it.
Abandoned(r) ==
    /\ requests[r].outcome = "pending"
    /\ \A c \in Callers :
          calls[c].phase \in ClearPhases => calls[c].packet.request # r

\* An abandoned clear is never taken up again: no retry repeats its external
\* stage or wipes what was saved since (outcome, replay: unknown outcome).
AbandonedClearStaysUnknown ==
    [][\A r \in RequestIds : Abandoned(r) =>
          Abandoned(r)' /\ external'[r] = external[r]]_vars

\* What a clear in each phase has done to credentials.
StageOf(phase) ==
    CASE phase = "external" -> "untouched"
      [] phase = "settling" -> "cleared"
      [] phase = "refusing" -> "partial"

\* What relates calls, rows and credentials at every step of a clear.
CallsAreBound ==
    /\ \A c \in Callers : calls[c].phase # "idle" => calls[c].packet \in Packet
    /\ \A c \in Callers : calls[c].phase \in ClearPhases =>
          LET p == calls[c].packet IN
          /\ p.operation = "clear"
          /\ p.collection.epoch < MaxCounter
          /\ requests[p.request].packet = p
          /\ external[p.request] = StageOf(calls[c].phase)
    /\ \A r \in RequestIds :
          /\ requests[r].outcome = "missing" => external[r] = "untouched"
          /\ requests[r].outcome # "missing" => requests[r].packet \in Packet

\* A collection is left behind once its epoch has advanced or it was copied.
Earlier(a, b) ==
    \/ a.id < b.id
    \/ a.id = b.id /\ a.epoch < b.epoch

\* Every head a receipt ever promised in the current collection has been
\* reached, and no receipt comes from a collection still to come.
ReceiptsAreIssued ==
    \A r \in RequestIds : requests[r].outcome = "committed" =>
        LET receipt == requests[r].receipt IN
        /\ receipt \in Receipt
        /\ receipt.collection = collection \/ Earlier(receipt.collection, collection)
        /\ receipt.collection = collection =>
              \A t \in requests[r].packet.tasks :
                  receipt.heads[t] = heads[t] \/ Below(receipt.heads[t], heads[t])

\* What any request has changed is never imported over: the gate is shut.
CommitsShutTheGate ==
    \A r \in RequestIds : requests[r].outcome = "committed" => closed

\* The inductive invariant of the store.
IInv ==
    /\ TypeOK
    /\ BodiesMatchHeads
    /\ RowsReplay
    /\ CallsAreBound
    /\ ExternalStageIsHonest
    /\ ReceiptsAreIssued
    /\ ReceiptsAreDistinct
    /\ LiveBodyIsReceipted

\* The tasks a request has changed.
Reach(row) ==
    IF row.outcome # "committed" THEN {}
    ELSE IF row.packet.operation = "clear" THEN Tasks ELSE row.packet.tasks

Verdict(row) ==
    CASE row.outcome \in {"missing", "pending"} -> "open"
      [] row.outcome = "committed" -> "applied"
      [] row.outcome = "rejected" -> "refused"

Promise == INSTANCE ExactlyOnce WITH
    Requests <- RequestIds,
    verdict <- [r \in RequestIds |-> Verdict(requests[r])],
    reach <- [r \in RequestIds |-> Reach(requests[r])],
    saved <- bodies

\* The store implements the exactly-once promise: a pending clear is undecided,
\* a committed clear changes every task, copies and crashes change nothing.
ImplementsPromise == Promise!Spec

=============================================================================
