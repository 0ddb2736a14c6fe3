--------------------------- MODULE TaskStoreProofs ---------------------------
(***************************************************************************)
(* Proofs about TaskStore, for every number of tasks, requests, callers    *)
(* and processes and every counter width.                                  *)
(***************************************************************************)
EXTENDS TaskStore, TLAPS

-----------------------------------------------------------------------------
(* Lemmas about heads and packets *)

\* The head an operation produces is a stored head, and a later one than the
\* head it was applied to, unless the operation is a clear (next_heads).
LEMMA NextHeadIssued ==
    ASSUME NEW op \in Saves \cup Removals, NEW h \in TaskHead, CanAdvance(op, h)
    PROVE  /\ NextHead(op, h) \in TaskHead
           /\ op # "clear" => Below(h, NextHead(op, h))
           /\ op # "clear" => NextHead(op, h) # NeverSeen
           /\ op # "clear" => (NextHead(op, h).state = "live" <=> op # "delete")
           /\ op = "clear" => NextHead(op, h) = h
           /\ NextHead(op, h).generation <= h.generation + 1
           /\ h.state = "tombstone" /\ NextHead(op, h).state = "live" =>
                 NextHead(op, h).generation > h.generation
<1>0. /\ 1 \in Counter \ {0}
      /\ h.state = "never_seen" => h = NeverSeen
      /\ h.generation \in Nat /\ h.revision \in Nat
  BY StoreAssumption DEF Counter, TaskHead, NeverSeen
<1>1. CASE op \in {"create", "import"}
  <2>1. /\ NextHead(op, h) = [generation |-> 1, revision |-> 1, state |-> "live"]
        /\ h = NeverSeen
    BY <1>0, <1>1 DEF NextHead, FirstHead, CanAdvance
  <2>2. NextHead(op, h) \in TaskHead
    BY <1>0, <2>1 DEF TaskHead
  <2>3. QED
    BY <1>1, <2>1, <2>2 DEF NeverSeen, Below
<1>2. CASE op = "recreate"
  BY <1>2, StoreAssumption
     DEF CanAdvance, NextHead, TaskHead, NeverSeen, Counter, Below, Exhausted
<1>3. CASE op = "update"
  BY <1>3, StoreAssumption
     DEF CanAdvance, NextHead, TaskHead, NeverSeen, Counter, Below, Exhausted
<1>4. CASE op = "delete"
  <2>1. CASE h.state = "never_seen"
    <3>1. /\ NextHead(op, h) = [generation |-> 1, revision |-> 1, state |-> "tombstone"]
          /\ h = NeverSeen
      BY <1>0, <1>4, <2>1 DEF NextHead, FirstHead
    <3>2. NextHead(op, h) \in TaskHead
      BY <1>0, <3>1 DEF TaskHead
    <3>3. QED
      BY <1>4, <3>1, <3>2 DEF NeverSeen, Below
  <2>2. CASE h.state # "never_seen"
    <3>1. /\ h \in [generation : Counter \ {0}, revision : Counter \ {0},
                   state : {"live", "tombstone"}]
          /\ h.revision # MaxCounter
      BY <1>4, <2>2 DEF CanAdvance, TaskHead, NeverSeen, Exhausted
    <3>2. NextHead(op, h) = [generation |-> h.generation, revision |-> h.revision + 1,
                            state |-> "tombstone"]
      BY <1>4, <2>2, <3>1 DEF NextHead
    <3>3. h.revision + 1 \in Counter \ {0}
      BY <3>1, StoreAssumption DEF Counter
    <3>4. NextHead(op, h) \in TaskHead
      BY <3>1, <3>2, <3>3 DEF TaskHead
    <3>5. QED
      BY <1>0, <1>4, <2>2, <3>1, <3>2, <3>4 DEF NeverSeen, Below
  <2>3. QED
    BY <2>1, <2>2
<1>5. CASE op = "clear"
  BY <1>5, StoreAssumption DEF NextHead, TaskHead, NeverSeen, Counter
<1>6. QED
  BY <1>1, <1>2, <1>3, <1>4, <1>5 DEF Saves, Removals

\* The order of heads is strict and transitive.
LEMMA BelowOrder ==
    ASSUME NEW g \in TaskHead, NEW h \in TaskHead, NEW i \in TaskHead
    PROVE  /\ ~Below(g, g)
           /\ Below(g, h) /\ Below(h, i) => Below(g, i)
BY StoreAssumption DEF Below, TaskHead, NeverSeen, Counter


\* So is the order of collections, and equal collections are not ordered.
LEMMA EarlierOrder ==
    ASSUME NEW a \in Collection, NEW b \in Collection, NEW c \in Collection
    PROVE  /\ ~Earlier(a, a)
           /\ Earlier(a, b) /\ Earlier(b, c) => Earlier(a, c)
BY StoreAssumption DEF Earlier, Collection, Counter

-----------------------------------------------------------------------------
(* The kinds of step.  Every action is one of them; an invariant is proved
   preserved once for each kind. *)

\* No call enters, or moves within, the phases of a clear.
CallsSettle ==
    /\ calls' \in [Callers -> Call]
    /\ \A c \in Callers :
          \/ calls'[c] = calls[c]
          \/ calls'[c] = Idle
          \/ calls'[c].phase = "probed" /\ calls'[c].packet \in Packet

Quiet ==
    /\ UNCHANGED <<collection, closed, heads, bodies, requests, external>>
    /\ CallsSettle

Rejecting ==
    /\ \E p \in Packet, code \in Rejections \ {"storage_partial_clear"} :
          Missing(p.request) /\ Reject(p, code)
    /\ UNCHANGED <<collection, closed, heads, bodies, external>>
    /\ CallsSettle

Committing ==
    /\ \E p \in Packet :
          Missing(p.request) /\ p.operation # "clear" /\ Commit(p)
    /\ UNCHANGED external
    /\ CallsSettle

Fencing(c) ==
    LET p == calls[c].packet IN
    /\ p \in Packet /\ p.operation = "clear"
    /\ p.collection = collection /\ collection.epoch < MaxCounter
    /\ calls[c].phase = "probed" /\ Missing(p.request)
    /\ requests' = [requests EXCEPT ![p.request] =
           [NoRow EXCEPT !.outcome = "pending", !.packet = p]]
    /\ Enter(c, "external")
    /\ UNCHANGED <<collection, closed, heads, bodies, packets, external>>

\* A saving or deleting transaction commits or rejects.
LEMMA WriteCases ==
    ASSUME NEW p \in Packet, p.operation # "clear", Missing(p.request),
           Commit(p) \/ Refuse(p), CallsSettle, UNCHANGED external
    PROVE  Rejecting \/ Committing
<1>1. CASE Commit(p)
  BY <1>1 DEF Committing
<1>2. CASE Refuse(p)
  <2>1. PICK code \in Rejections : code # "storage_partial_clear" /\ Reject(p, code)
    BY <1>2 DEF Refuse
  <2>2. UNCHANGED <<collection, closed, heads, bodies>>
    BY <1>2 DEF Refuse, BodiesAfterRefusal
  <2>3. QED
    BY <2>1, <2>2 DEF Rejecting
<1>3. QED
  BY <1>1, <1>2

LEMMA StepCases ==
    ASSUME TypeOK, CallsAreBound, [Next]_vars
    PROVE  \/ Quiet \/ Rejecting \/ Committing
           \/ \E c \in Callers : \/ Fencing(c) \/ RunExternalStage(c)
                                 \/ RefusePartialClear(c) \/ SettleClear(c)
           \/ \E t \in Tasks : ProjectJournal(t)
           \/ StartOnCopy
<1>0. /\ calls \in [Callers -> Call] /\ packets \subseteq Packet
      /\ Idle \in Call
      /\ UNCHANGED calls => CallsSettle
      /\ \A c \in Callers : Return(c) => CallsSettle
  BY DEF TypeOK, CallsSettle, Return, Idle, Call
<1>1. ASSUME NEW r \in RequestIds, NEW op \in Saves \cup Removals,
             NEW ts \in SUBSET Tasks, Freeze(r, op, ts)
      PROVE  Quiet
  BY <1>0, <1>1 DEF Freeze, Quiet
<1>2. ASSUME NEW c \in Callers, NEW p \in packets, Save(c, p)
      PROVE  Rejecting \/ Committing
  <2>1. p \in Packet /\ p.operation # "clear"
    BY <1>0, <1>2 DEF Save, Saves
  <2>2. QED
    BY <1>0, <1>2, <2>1, WriteCases DEF Save
<1>3. ASSUME NEW c \in Callers, NEW p \in packets, ProbeRemoval(c, p)
      PROVE  Quiet
  BY <1>0, <1>3 DEF ProbeRemoval, Quiet, CallsSettle, Call
<1>4. ASSUME NEW c \in Callers, ReplayRemoval(c)
      PROVE  Quiet
  BY <1>0, <1>4 DEF ReplayRemoval, Quiet
<1>5. ASSUME NEW c \in Callers, calls[c].phase = "probed"
      PROVE  calls[c].packet \in Packet
  BY <1>5 DEF CallsAreBound
<1>6. ASSUME NEW c \in Callers, RefuseRemoval(c)
      PROVE  Rejecting
  <2>1. calls[c].packet \in Packet
    BY <1>5, <1>6 DEF RefuseRemoval
  <2>2. QED
    BY <1>0, <1>6, <2>1 DEF RefuseRemoval, Rejecting, Rejections
<1>7. ASSUME NEW c \in Callers, Delete(c)
      PROVE  Rejecting \/ Committing
  <2>1. calls[c].packet \in Packet /\ calls[c].packet.operation # "clear"
    BY <1>5, <1>7 DEF Delete
  <2>2. QED
    BY <1>0, <1>7, <2>1, WriteCases DEF Delete
<1>8. ASSUME NEW c \in Callers, FenceClear(c)
      PROVE  Rejecting \/ Fencing(c)
  <2>1. calls[c].packet \in Packet
    BY <1>5, <1>8 DEF FenceClear
  <2>2. CASE calls[c].packet.collection = collection /\ ~Exhausted(collection.epoch)
    <3>1. collection.epoch < MaxCounter
      BY <2>2, StoreAssumption DEF TypeOK, Collection, Counter, Exhausted
    <3>2. QED
      BY <1>0, <1>8, <2>1, <2>2, <3>1 DEF FenceClear, Rejecting, Fencing, Rejections
  <2>3. CASE ~(calls[c].packet.collection = collection /\ ~Exhausted(collection.epoch))
    BY <1>0, <1>8, <2>1, <2>3 DEF FenceClear, Rejecting, Rejections
  <2>4. QED
    BY <2>2, <2>3
<1>9. ASSUME NEW c \in Callers, AbandonClear(c)
      PROVE  Quiet
  BY <1>0, <1>9 DEF AbandonClear, Quiet
<1>10. ASSUME NEW q \in Processes, Crash(q)
       PROVE  Quiet
  BY <1>0, <1>10 DEF Crash, Quiet, CallsSettle
<1>11. CASE UNCHANGED vars
  BY <1>0, <1>11 DEF vars, Quiet
<1>12. QED
  BY <1>1, <1>2, <1>3, <1>4, <1>6, <1>7, <1>8, <1>9, <1>10, <1>11 DEF Next

-----------------------------------------------------------------------------
(* Type correctness *)

\* A committing packet writes stored heads and a well-formed receipt.
LEMMA CommitTypes ==
    ASSUME TypeOK, NEW p \in Packet, Admissible(p)
    PROVE  /\ HeadsAfter(p) \in [Tasks -> TaskHead]
           /\ BodiesAfter(p) \in [Tasks -> RequestIds \cup {None, Legacy, Projection}]
           /\ DueReceipt(p).heads \in [Tasks -> TaskHead]
<1>1. ASSUME NEW t \in p.tasks
      PROVE  /\ t \in Tasks /\ p.expected[t] \in TaskHead
             /\ NextHead(p.operation, p.expected[t]) \in TaskHead
  <2>1. /\ t \in Tasks /\ p.expected[t] \in TaskHead
        /\ p.operation \in Saves \cup Removals
        /\ CanAdvance(p.operation, p.expected[t])
    BY DEF Packet, Admissible
  <2>2. QED
    BY <2>1, NextHeadIssued
<1>2. NeverSeen \in TaskHead
  BY DEF TaskHead
<1>3. HeadsAfter(p) \in [Tasks -> TaskHead]
  BY <1>1 DEF HeadsAfter, TypeOK
<1>4. DueReceipt(p).heads \in [Tasks -> TaskHead]
  BY <1>1, <1>2 DEF DueReceipt
<1>5. BodiesAfter(p) \in [Tasks -> RequestIds \cup {None, Legacy, Projection}]
  BY DEF BodiesAfter, TypeOK, Packet
<1>6. QED
  BY <1>3, <1>4, <1>5

LEMMA InitTypes == Init => TypeOK
<1>1. ASSUME Init PROVE TypeOK
  <2>1. PICK migrated \in SUBSET Tasks :
          /\ closed \in {FALSE, TRUE}
          /\ heads = [t \in Tasks |-> IF t \in migrated THEN FirstHead("live")
                                     ELSE NeverSeen]
          /\ bodies = [t \in Tasks |-> IF t \in migrated THEN Legacy ELSE None]
    BY <1>1 DEF Init
  <2>2. FirstHead("live") \in TaskHead /\ NeverSeen \in TaskHead
    BY StoreAssumption DEF FirstHead, TaskHead, Counter
  <2>3. heads \in [Tasks -> TaskHead]
    BY <2>1, <2>2
  <2>4. collection \in Collection
    BY <1>1, StoreAssumption DEF Init, Collection, Counter
  <2>5. requests \in [RequestIds -> Row]
    BY <1>1 DEF Init, NoRow, Row
  <2>6. calls \in [Callers -> Call]
    BY <1>1 DEF Init, Idle, Call
  <2>7. QED
    BY <1>1, <2>1, <2>3, <2>4, <2>5, <2>6 DEF Init, TypeOK
<1>2. QED
  BY <1>1

\* Only Freeze adds a packet, and it adds one that parse lets through.
LEMMA PacketsStep ==
    ASSUME TypeOK, [Next]_vars
    PROVE  packets' \subseteq Packet
<1>1. ASSUME NEW r \in RequestIds, NEW op \in Saves \cup Removals,
             NEW ts \in SUBSET Tasks, Freeze(r, op, ts)
      PROVE  packets' \subseteq Packet
  <2>1. [t \in Tasks |-> IF t \in ts THEN heads[t] ELSE NeverSeen] \in [Tasks -> TaskHead]
    BY DEF TypeOK, TaskHead
  <2>2. QED
    BY <1>1, <2>1 DEF Freeze, TypeOK, Packet
<1>2. CASE UNCHANGED packets
  BY <1>2 DEF TypeOK
<1>3. ASSUME NEW c \in Callers, NEW p \in packets, Save(c, p) \/ ProbeRemoval(c, p)
      PROVE  UNCHANGED packets
  BY <1>3 DEF Save, ProbeRemoval
<1>4. ASSUME NEW c \in Callers,
             \/ ReplayRemoval(c) \/ RefuseRemoval(c) \/ Delete(c)
             \/ FenceClear(c) \/ RunExternalStage(c) \/ RefusePartialClear(c)
             \/ SettleClear(c) \/ AbandonClear(c)
      PROVE  UNCHANGED packets
  BY <1>4 DEF ReplayRemoval, RefuseRemoval, Delete, FenceClear, RunExternalStage,
              RefusePartialClear, SettleClear, AbandonClear
<1>5. ASSUME NEW q \in Processes, Crash(q)
      PROVE  UNCHANGED packets
  BY <1>5 DEF Crash
<1>6. ASSUME NEW t \in Tasks, ProjectJournal(t)
      PROVE  UNCHANGED packets
  BY <1>6 DEF ProjectJournal
<1>7. QED
  BY <1>1, <1>2, <1>3, <1>4, <1>5, <1>6 DEF Next, StartOnCopy, vars

\* Every variable but packets keeps its type in every kind of step.
LEMMA TypeStep ==
    ASSUME TypeOK, CallsAreBound, [Next]_vars
    PROVE  TypeOK'
<1>0. /\ packets' \subseteq Packet
      /\ Idle \in Call
      /\ \A c \in Callers : Return(c) => calls' \in [Callers -> Call]
      /\ \A c \in Callers, phase \in ClearPhases :
            Enter(c, phase) => calls' \in [Callers -> Call]
  BY PacketsStep DEF TypeOK, Idle, Call, Return, Enter
<1>1. CASE Quiet
  BY <1>0, <1>1 DEF Quiet, CallsSettle, TypeOK
<1>2. CASE Rejecting
  <2>1. PICK p \in Packet, code \in Rejections : Reject(p, code)
    BY <1>2 DEF Rejecting
  <2>2. requests' \in [RequestIds -> Row]
    BY <2>1 DEF Reject, TypeOK, Row, Packet
  <2>3. QED
    BY <1>0, <1>2, <2>2 DEF Rejecting, CallsSettle, TypeOK
<1>3. CASE Committing
  <2>1. PICK p \in Packet : Commit(p)
    BY <1>3 DEF Committing
  <2>2. /\ heads' \in [Tasks -> TaskHead]
        /\ bodies' \in [Tasks -> RequestIds \cup {None, Legacy, Projection}]
        /\ DueReceipt(p).heads \in [Tasks -> TaskHead]
    BY <2>1, CommitTypes DEF Commit
  <2>3. requests' \in [RequestIds -> Row]
    BY <2>1, <2>2 DEF Commit, CommitReceipt, TypeOK, Row, Receipt, Packet
  <2>4. QED
    BY <1>0, <1>3, <2>1, <2>2, <2>3 DEF Committing, Commit, CallsSettle, TypeOK
<1>4. ASSUME NEW c \in Callers, Fencing(c)
      PROVE  TypeOK'
  <2>1. requests' \in [RequestIds -> Row]
    BY <1>4 DEF Fencing, NoRow, TypeOK, Row, Packet
  <2>2. QED
    BY <1>0, <1>4, <2>1 DEF Fencing, TypeOK, ClearPhases
<1>5. ASSUME NEW c \in Callers, RunExternalStage(c)
      PROVE  TypeOK'
  <2>1. PICK result \in {"cleared", "partial"} :
          /\ external' = [external EXCEPT ![calls[c].packet.request] = result]
          /\ Enter(c, IF result = "cleared" THEN "settling" ELSE "refusing")
    BY <1>5 DEF RunExternalStage
  <2>2. external' \in [RequestIds -> {"untouched", "partial", "cleared"}]
    BY <2>1 DEF TypeOK
  <2>3. calls' \in [Callers -> Call]
    BY <1>0, <2>1 DEF ClearPhases
  <2>4. QED
    BY <1>0, <1>5, <2>2, <2>3 DEF RunExternalStage, TypeOK
<1>6. ASSUME NEW c \in Callers, RefusePartialClear(c)
      PROVE  TypeOK'
  <2>1. calls[c].packet \in Packet
    BY <1>6 DEF RefusePartialClear, CallsAreBound
  <2>2. requests' \in [RequestIds -> Row]
    BY <1>6, <2>1 DEF RefusePartialClear, Reject, TypeOK, Row, Packet, Rejections
  <2>3. QED
    BY <1>0, <1>6, <2>2 DEF RefusePartialClear, TypeOK
<1>7. ASSUME NEW c \in Callers, SettleClear(c)
      PROVE  TypeOK'
  <2> DEFINE p == calls[c].packet
             after == [collection EXCEPT !.epoch = p.collection.epoch + 1]
  <2>1. p \in Packet /\ p.operation = "clear" /\ p.collection.epoch < MaxCounter
    BY <1>7 DEF SettleClear, CallsAreBound, ClearPhases
  <2>2. p.tasks = {} /\ p.collection \in Collection
    BY <2>1 DEF Packet
  <2>3. after \in Collection
    BY <2>1, <2>2, StoreAssumption DEF TypeOK, Collection, Counter
  <2>4. NeverSeen \in TaskHead /\ DueReceipt(p).heads \in [Tasks -> TaskHead]
    BY <2>2 DEF DueReceipt, TaskHead
  <2>5. requests' \in [RequestIds -> Row]
    BY <1>7, <2>1, <2>3, <2>4
       DEF SettleClear, CommitReceipt, TypeOK, Row, Receipt, Packet
  <2>6. heads' \in [Tasks -> TaskHead]
    BY <1>7, <2>4 DEF SettleClear
  <2>7. QED
    BY <1>0, <1>7, <2>3, <2>5, <2>6 DEF SettleClear, TypeOK
<1>8. ASSUME NEW t \in Tasks, ProjectJournal(t)
      PROVE  TypeOK'
  <2>1. NextHead("update", heads[t]) \in TaskHead
    BY <1>8, NextHeadIssued DEF ProjectJournal, TypeOK, Saves
  <2>2. heads' \in [Tasks -> TaskHead]
    BY <1>8, <2>1 DEF ProjectJournal, TypeOK
  <2>3. QED
    BY <1>0, <1>8, <2>2 DEF ProjectJournal, TypeOK
<1>9. CASE StartOnCopy
  BY <1>0, <1>9, StoreAssumption DEF StartOnCopy, TypeOK, Collection, Counter
<1>10. QED
  BY <1>1, <1>2, <1>3, <1>4, <1>5, <1>6, <1>7, <1>8, <1>9, StepCases

-----------------------------------------------------------------------------
(* Bodies and heads; rows and their receipts *)

\* What an admissible packet does to one task it names.
LEMMA CommitTask ==
    ASSUME TypeOK, NEW p \in Packet, p.operation # "clear", Admissible(p),
           NEW t \in p.tasks
    PROVE  /\ t \in Tasks
           /\ HeadsAfter(p)[t] = NextHead(p.operation, heads[t])
           /\ DueReceipt(p).heads[t] = HeadsAfter(p)[t]
           /\ Below(heads[t], HeadsAfter(p)[t])
           /\ HeadsAfter(p)[t].state = "live" <=> p.operation # "delete"
           /\ BodiesAfter(p)[t] = IF p.operation = "delete" THEN None ELSE p.request
<1>1. /\ t \in Tasks /\ p.expected[t] = heads[t] /\ heads[t] \in TaskHead
      /\ p.operation \in Saves \cup Removals
      /\ CanAdvance(p.operation, heads[t])
  BY DEF Packet, Admissible, Authority, TypeOK
<1>2. /\ HeadsAfter(p)[t] = NextHead(p.operation, heads[t])
      /\ DueReceipt(p).heads[t] = NextHead(p.operation, heads[t])
  BY <1>1 DEF HeadsAfter, DueReceipt
<1>3. BodiesAfter(p)[t] = IF p.operation = "delete" THEN None ELSE p.request
  BY <1>1 DEF BodiesAfter
<1>4. QED
  BY <1>1, <1>2, <1>3, NextHeadIssued

\* A packet leaves the tasks it does not name alone.
LEMMA CommitOthers ==
    ASSUME TypeOK, NEW p \in Packet, NEW t \in Tasks, t \notin p.tasks
    PROVE  HeadsAfter(p)[t] = heads[t] /\ BodiesAfter(p)[t] = bodies[t]
BY DEF HeadsAfter, BodiesAfter

LEMMA BodiesStep ==
    ASSUME IInv, [Next]_vars
    PROVE  BodiesMatchHeads'
<1>0. TypeOK /\ CallsAreBound /\ BodiesMatchHeads
  BY DEF IInv
<1>1. CASE Quiet \/ Rejecting \/ StartOnCopy
  BY <1>0, <1>1 DEF Quiet, Rejecting, StartOnCopy, BodiesMatchHeads
<1>2. CASE Committing
  <2>1. PICK p \in Packet : p.operation # "clear" /\ Commit(p)
    BY <1>2 DEF Committing
  <2>2. Admissible(p) /\ heads' = HeadsAfter(p) /\ bodies' = BodiesAfter(p)
    BY <2>1 DEF Commit
  <2>3. SUFFICES ASSUME NEW t \in Tasks
                 PROVE  bodies'[t] # None <=> heads'[t].state = "live"
    BY DEF BodiesMatchHeads
  <2>4. CASE t \in p.tasks
    <3>1. p.request # None
      BY StoreAssumption DEF Packet
    <3>2. QED
      BY <1>0, <2>1, <2>2, <2>4, <3>1, CommitTask
  <2>5. CASE t \notin p.tasks
    BY <1>0, <2>2, <2>5, CommitOthers DEF BodiesMatchHeads
  <2>6. QED
    BY <2>4, <2>5
<1>3. ASSUME NEW c \in Callers, Fencing(c) \/ RunExternalStage(c) \/ RefusePartialClear(c)
      PROVE  BodiesMatchHeads'
  BY <1>0, <1>3 DEF Fencing, RunExternalStage, RefusePartialClear, BodiesMatchHeads
<1>4. ASSUME NEW c \in Callers, SettleClear(c)
      PROVE  BodiesMatchHeads'
  BY <1>4 DEF SettleClear, BodiesMatchHeads, NeverSeen
<1>5. ASSUME NEW t \in Tasks, ProjectJournal(t)
      PROVE  BodiesMatchHeads'
  <2>1. heads[t].state = "live" /\ heads[t] \in TaskHead
    BY <1>0, <1>5 DEF ProjectJournal, CanAdvance, TypeOK
  <2>2. NextHead("update", heads[t]).state = "live"
    BY <2>1 DEF NextHead, TaskHead, NeverSeen
  <2>3. QED
    BY <1>0, <1>5, <2>2, StoreAssumption DEF ProjectJournal, TypeOK, BodiesMatchHeads
<1>6. QED
  BY <1>0, <1>1, <1>2, <1>3, <1>4, <1>5, StepCases

LEMMA RowsStep ==
    ASSUME IInv, [Next]_vars
    PROVE  RowsReplay'
<1>0. TypeOK /\ CallsAreBound /\ RowsReplay
  BY DEF IInv
<1>1. CASE UNCHANGED requests
  BY <1>0, <1>1 DEF RowsReplay, DueReceipt, NextCollection
<1>2. CASE Rejecting
  <2>1. PICK p \in Packet, code \in Rejections : Reject(p, code)
    BY <1>2 DEF Rejecting
  <2>2. QED
    BY <1>0, <2>1 DEF Reject, RowsReplay, TypeOK, Packet, DueReceipt, NextCollection
<1>3. CASE Committing
  <2>1. PICK p \in Packet : p.operation # "clear" /\ Commit(p)
    BY <1>3 DEF Committing
  <2>2. CommitReceipt(p, collection) /\ p.collection = collection
    BY <2>1 DEF Commit, Admissible, Authority
  <2>3. [collection |-> collection, heads |-> DueReceipt(p).heads] = DueReceipt(p)
    BY <2>1, <2>2 DEF DueReceipt, NextCollection
  <2>4. QED
    BY <1>0, <2>2, <2>3
       DEF CommitReceipt, RowsReplay, TypeOK, Packet
<1>4. ASSUME NEW c \in Callers, Fencing(c)
      PROVE  RowsReplay'
  BY <1>0, <1>4 DEF Fencing, NoRow, RowsReplay, TypeOK, Packet
<1>5. ASSUME NEW c \in Callers, RefusePartialClear(c)
      PROVE  RowsReplay'
  <2>1. calls[c].packet \in Packet
    BY <1>0, <1>5 DEF RefusePartialClear, CallsAreBound
  <2>2. QED
    BY <1>0, <1>5, <2>1 DEF RefusePartialClear, Reject, RowsReplay, TypeOK, Packet
<1>6. ASSUME NEW c \in Callers, SettleClear(c)
      PROVE  RowsReplay'
  <2> DEFINE p == calls[c].packet
             after == [collection EXCEPT !.epoch = p.collection.epoch + 1]
  <2>1. p \in Packet /\ p.operation = "clear" /\ p.collection = collection
    BY <1>0, <1>6 DEF SettleClear, SecondCheck, Authority, CallsAreBound, ClearPhases
  <2>2. [collection |-> after, heads |-> DueReceipt(p).heads] = DueReceipt(p)
    BY <2>1 DEF DueReceipt, NextCollection
  <2>3. CommitReceipt(p, after)
    BY <1>6 DEF SettleClear
  <2>4. QED
    BY <1>0, <2>1, <2>2, <2>3 DEF CommitReceipt, RowsReplay, TypeOK, Packet
<1>7. QED
  BY <1>0, <1>1, <1>2, <1>3, <1>4, <1>5, <1>6, StepCases
     DEF Quiet, RunExternalStage, ProjectJournal, StartOnCopy

-----------------------------------------------------------------------------
(* The external stage of a clear *)

\* A caller inside a clear holds a pending row of its own, so a step that
\* decides a row not yet bound leaves every clear in progress alone.
LEMMA ClearHoldsRow ==
    ASSUME IInv, NEW c \in Callers, calls[c].phase \in ClearPhases
    PROVE  /\ calls[c].packet \in Packet
           /\ calls[c].packet.request \in RequestIds
           /\ calls[c].packet.operation = "clear"
           /\ requests[calls[c].packet.request].outcome = "pending"
           /\ requests[calls[c].packet.request].packet = calls[c].packet
           /\ \A d \in Callers \ {c} : calls[d].phase \in ClearPhases =>
                 calls[d].packet.request # calls[c].packet.request
BY DEF IInv, CallsAreBound, ExternalStageIsHonest, ClearPhases, Packet

\* In a step of another kind, a call in a clear phase was in it before.
LEMMA ClearsSettle ==
    ASSUME CallsSettle, NEW c \in Callers, calls'[c].phase \in ClearPhases
    PROVE  calls'[c] = calls[c]
BY DEF CallsSettle, ClearPhases, Idle

\* One row that was missing becomes bound; every other row stays as it is.
BindsRow ==
    \E r \in RequestIds :
        /\ Missing(r)
        /\ requests'[r].outcome # "missing" /\ requests'[r].packet \in Packet
        /\ requests'[r].packet.request = r
        /\ \A s \in RequestIds \ {r} : requests'[s] = requests[s]

LEMMA RejectBinds == TypeOK /\ Rejecting => BindsRow
BY DEF Rejecting, Reject, BindsRow, TypeOK, Packet

LEMMA CommitBinds == TypeOK /\ Committing => BindsRow
BY DEF Committing, Commit, CommitReceipt, BindsRow, TypeOK, Packet

LEMMA CallsStep ==
    ASSUME IInv, [Next]_vars
    PROVE  CallsAreBound'
<1>0. TypeOK /\ CallsAreBound /\ RowsReplay
  BY DEF IInv
<1>1. ASSUME CallsSettle, UNCHANGED external, UNCHANGED requests \/ BindsRow
      PROVE  CallsAreBound'
  <2>1. ASSUME NEW c \in Callers, calls'[c].phase # "idle"
        PROVE  calls'[c].packet \in Packet
    BY <1>0, <1>1, <2>1 DEF CallsSettle, CallsAreBound, Idle
  <2>2. ASSUME NEW c \in Callers, calls'[c].phase \in ClearPhases
        PROVE  /\ calls'[c] = calls[c]
               /\ requests'[calls[c].packet.request] = requests[calls[c].packet.request]
    <3>1. calls'[c] = calls[c]
      BY <1>1, <2>2, ClearsSettle
    <3>2. /\ requests[calls[c].packet.request].outcome = "pending"
          /\ calls[c].packet.request \in RequestIds
      BY <2>2, <3>1, ClearHoldsRow
    <3>3. QED
      BY <1>1, <3>1, <3>2 DEF BindsRow, Missing
  <2>3. ASSUME NEW r \in RequestIds
        PROVE  /\ requests'[r].outcome = "missing" => external'[r] = "untouched"
               /\ requests'[r].outcome # "missing" => requests'[r].packet \in Packet
    BY <1>0, <1>1 DEF CallsAreBound, BindsRow
  <2>4. QED
    BY <1>0, <1>1, <2>1, <2>2, <2>3 DEF CallsAreBound
<1>2. CASE Quiet
  BY <1>1, <1>2 DEF Quiet
<1>3. CASE Rejecting
  BY <1>0, <1>1, <1>3, RejectBinds DEF Rejecting
<1>4. CASE Committing
  BY <1>0, <1>1, <1>4, CommitBinds DEF Committing
<1>5. ASSUME NEW c \in Callers, Fencing(c)
      PROVE  CallsAreBound'
  <2> DEFINE p == calls[c].packet
  <2>1. /\ p \in Packet /\ p.request \in RequestIds /\ Missing(p.request)
        /\ p.operation = "clear" /\ p.collection.epoch < MaxCounter
        /\ external' = external
    BY <1>5 DEF Fencing, Packet
  <2>2. /\ requests'[p.request].packet = p /\ requests'[p.request].outcome = "pending"
        /\ \A r \in RequestIds \ {p.request} : requests'[r] = requests[r]
    BY <1>0, <1>5, <2>1 DEF Fencing, NoRow, TypeOK
  <2>3. /\ calls'[c].phase = "external" /\ calls'[c].packet = p
        /\ \A d \in Callers \ {c} : calls'[d] = calls[d]
    BY <1>0, <1>5 DEF Fencing, Enter, TypeOK, Call
  <2>4. external[p.request] = "untouched"
    BY <1>0, <2>1 DEF CallsAreBound, Missing
  <2>5. ASSUME NEW d \in Callers \ {c}, calls[d].phase \in ClearPhases
        PROVE  requests'[calls[d].packet.request] = requests[calls[d].packet.request]
    BY <2>1, <2>2, <2>5, ClearHoldsRow DEF Missing
  <2>6. ASSUME NEW d \in Callers, calls'[d].phase \in ClearPhases
        PROVE  LET q == calls'[d].packet IN
               /\ q.operation = "clear" /\ q.collection.epoch < MaxCounter
               /\ requests'[q.request].packet = q
               /\ external'[q.request] = StageOf(calls'[d].phase)
    <3>1. CASE d = c
      BY <2>1, <2>2, <2>3, <2>4, <3>1 DEF StageOf
    <3>2. CASE d # c
      BY <1>0, <2>1, <2>3, <2>5, <2>6, <3>2 DEF CallsAreBound
    <3>3. QED
      BY <3>1, <3>2
  <2>7. ASSUME NEW d \in Callers, calls'[d].phase # "idle"
        PROVE  calls'[d].packet \in Packet
    BY <1>0, <2>1, <2>3, <2>7 DEF CallsAreBound
  <2>8. ASSUME NEW r \in RequestIds
        PROVE  /\ requests'[r].outcome = "missing" => external'[r] = "untouched"
               /\ requests'[r].outcome # "missing" => requests'[r].packet \in Packet
    BY <1>0, <2>1, <2>2 DEF CallsAreBound
  <2>9. QED
    BY <2>6, <2>7, <2>8 DEF CallsAreBound
<1>6. ASSUME NEW c \in Callers, RunExternalStage(c)
      PROVE  CallsAreBound'
  <2> DEFINE p == calls[c].packet
  <2>1. PICK result \in {"cleared", "partial"} :
          /\ external' = [external EXCEPT ![p.request] = result]
          /\ Enter(c, IF result = "cleared" THEN "settling" ELSE "refusing")
    BY <1>6 DEF RunExternalStage
  <2>2. /\ p \in Packet /\ p.request \in RequestIds
        /\ requests[p.request].outcome = "pending"
        /\ requests' = requests
        /\ calls[c].phase \in ClearPhases
    BY <1>6, ClearHoldsRow DEF RunExternalStage, ClearPhases
  <2>3. /\ external'[p.request] = result
        /\ \A r \in RequestIds \ {p.request} : external'[r] = external[r]
    BY <1>0, <2>1, <2>2 DEF TypeOK
  <2>4. /\ calls'[c].phase = IF result = "cleared" THEN "settling" ELSE "refusing"
        /\ calls'[c].packet = p
        /\ \A d \in Callers \ {c} : calls'[d] = calls[d]
    BY <1>0, <2>1 DEF Enter, TypeOK, Call
  <2>5. ASSUME NEW d \in Callers \ {c}, calls[d].phase \in ClearPhases
        PROVE  external'[calls[d].packet.request] = external[calls[d].packet.request]
    <3>1. calls[d].packet.request \in RequestIds \ {p.request}
      BY <2>2, <2>5, ClearHoldsRow
    <3>2. QED
      BY <2>3, <3>1
  <2>6. /\ p.operation = "clear" /\ p.collection.epoch < MaxCounter
        /\ requests[p.request].packet = p
    BY <1>0, <2>2 DEF CallsAreBound
  <2>7. QED
    BY <1>0, <2>1, <2>2, <2>3, <2>4, <2>5, <2>6
       DEF CallsAreBound, ClearPhases, StageOf
<1>7. ASSUME NEW c \in Callers, RefusePartialClear(c) \/ SettleClear(c)
      PROVE  CallsAreBound'
  <2> DEFINE p == calls[c].packet
  <2>1. /\ p \in Packet /\ p.request \in RequestIds
        /\ calls[c].phase \in ClearPhases
        /\ requests[p.request].outcome = "pending"
        /\ external' = external
    BY <1>7, ClearHoldsRow DEF RefusePartialClear, SettleClear, ClearPhases
  <2>2. /\ requests'[p.request].packet = p /\ requests'[p.request].outcome # "missing"
        /\ \A r \in RequestIds \ {p.request} : requests'[r] = requests[r]
    BY <1>0, <1>7, <2>1
       DEF RefusePartialClear, SettleClear, Reject, CommitReceipt, TypeOK
  <2>3. /\ calls'[c].phase = "idle"
        /\ \A d \in Callers \ {c} : calls'[d] = calls[d]
    BY <1>0, <1>7 DEF RefusePartialClear, SettleClear, Return, Idle, TypeOK
  <2>4. ASSUME NEW d \in Callers \ {c}, calls[d].phase \in ClearPhases
        PROVE  requests'[calls[d].packet.request] = requests[calls[d].packet.request]
    <3>1. calls[d].packet.request \in RequestIds \ {p.request}
      BY <2>1, <2>4, ClearHoldsRow
    <3>2. QED
      BY <2>2, <3>1
  <2>5. QED
    BY <1>0, <2>1, <2>2, <2>3, <2>4 DEF CallsAreBound, ClearPhases
<1>8. ASSUME NEW t \in Tasks, ProjectJournal(t)
      PROVE  CallsAreBound'
  BY <1>0, <1>8 DEF ProjectJournal, CallsAreBound
<1>9. CASE StartOnCopy
  BY <1>0, <1>9 DEF StartOnCopy, CallsAreBound, Idle, ClearPhases
<1>10. QED
  BY <1>0, <1>2, <1>3, <1>4, <1>5, <1>6, <1>7, <1>8, <1>9, StepCases

LEMMA HonestStep ==
    ASSUME IInv, [Next]_vars
    PROVE  ExternalStageIsHonest'
<1> DEFINE HonestCall(c) ==
             calls[c].phase \in ClearPhases =>
                LET r == calls[c].packet.request IN
                /\ requests[r].outcome = "pending"
                /\ calls[c].phase = "external" => external[r] = "untouched"
                /\ \A d \in Callers \ {c} :
                      calls[d].phase \in ClearPhases => calls[d].packet.request # r
           HonestRow(r) ==
             /\ external[r] # "untouched" => requests[r].outcome # "missing"
                                             /\ requests[r].packet.operation = "clear"
             /\ requests[r].code = "storage_partial_clear" <=>
                   requests[r].outcome = "rejected" /\ external[r] = "partial"
             /\ requests[r].outcome = "committed" /\ requests[r].packet.operation = "clear" =>
                   external[r] = "cleared"
<1>0. /\ TypeOK /\ CallsAreBound /\ RowsReplay
      /\ \A c \in Callers : HonestCall(c)
      /\ \A r \in RequestIds : HonestRow(r)
  BY DEF IInv, ExternalStageIsHonest
<1>1. SUFFICES /\ \A c \in Callers : HonestCall(c)'
               /\ \A r \in RequestIds : HonestRow(r)'
  BY DEF ExternalStageIsHonest
<1> HIDE DEF HonestCall, HonestRow
<1>2. ASSUME CallsSettle, UNCHANGED external, UNCHANGED requests \/ BindsRow,
             NEW c \in Callers
      PROVE  HonestCall(c)'
  <2>1. ASSUME NEW d \in Callers, calls'[d].phase \in ClearPhases
        PROVE  /\ calls'[d] = calls[d]
               /\ requests'[calls[d].packet.request] = requests[calls[d].packet.request]
    <3>1. calls'[d] = calls[d]
      BY <1>2, <2>1, ClearsSettle
    <3>2. /\ requests[calls[d].packet.request].outcome = "pending"
          /\ calls[d].packet.request \in RequestIds
      BY <2>1, <3>1, ClearHoldsRow
    <3>3. QED
      BY <1>2, <3>1, <3>2 DEF BindsRow, Missing
  <2>2. QED
    BY <1>0, <1>2, <2>1 DEF HonestCall
<1>3. CASE Quiet
  BY <1>0, <1>2, <1>3 DEF Quiet, HonestRow
<1>4. CASE Rejecting
  <2>1. PICK p \in Packet, code \in Rejections \ {"storage_partial_clear"} :
          Missing(p.request) /\ Reject(p, code)
    BY <1>4 DEF Rejecting
  <2>2. /\ p.request \in RequestIds /\ external[p.request] = "untouched"
        /\ external' = external
        /\ requests'[p.request].code = code /\ requests'[p.request].outcome = "rejected"
        /\ \A r \in RequestIds \ {p.request} : requests'[r] = requests[r]
    BY <1>0, <1>4, <2>1 DEF Rejecting, Reject, Missing, CallsAreBound, TypeOK, Packet
  <2>3. ASSUME NEW r \in RequestIds
        PROVE  HonestRow(r)'
    BY <1>0, <2>1, <2>2 DEF HonestRow
  <2>4. QED
    BY <1>0, <1>2, <1>4, <2>3, RejectBinds DEF Rejecting
<1>5. CASE Committing
  <2>1. PICK p \in Packet : Missing(p.request) /\ p.operation # "clear" /\ Commit(p)
    BY <1>5 DEF Committing
  <2>2. /\ p.request \in RequestIds /\ external[p.request] = "untouched"
        /\ external' = external
        /\ requests'[p.request].code = "none" /\ requests'[p.request].packet = p
        /\ requests'[p.request].outcome = "committed"
        /\ \A r \in RequestIds \ {p.request} : requests'[r] = requests[r]
    BY <1>0, <1>5, <2>1
       DEF Committing, Commit, CommitReceipt, Missing, CallsAreBound, TypeOK, Packet
  <2>3. ASSUME NEW r \in RequestIds
        PROVE  HonestRow(r)'
    BY <1>0, <2>1, <2>2 DEF HonestRow
  <2>4. QED
    BY <1>0, <1>2, <1>5, <2>3, CommitBinds DEF Committing
<1>6. ASSUME NEW c \in Callers, Fencing(c)
      PROVE  (\A d \in Callers : HonestCall(d)') /\ (\A r \in RequestIds : HonestRow(r)')
  <2> DEFINE p == calls[c].packet
  <2>1. /\ p \in Packet /\ p.request \in RequestIds /\ Missing(p.request)
        /\ p.operation = "clear" /\ external' = external
        /\ external[p.request] = "untouched"
    BY <1>0, <1>6 DEF Fencing, Packet, CallsAreBound, Missing
  <2>2. /\ requests'[p.request] = [outcome |-> "pending", packet |-> p,
                                   receipt |-> None, code |-> "none"]
        /\ \A r \in RequestIds \ {p.request} : requests'[r] = requests[r]
    BY <1>0, <1>6, <2>1 DEF Fencing, NoRow, TypeOK
  <2>3. /\ calls'[c].phase = "external" /\ calls'[c].packet = p
        /\ \A d \in Callers \ {c} : calls'[d] = calls[d]
    BY <1>0, <1>6 DEF Fencing, Enter, TypeOK, Call
  <2>4. ASSUME NEW d \in Callers \ {c}, calls[d].phase \in ClearPhases
        PROVE  calls[d].packet.request \in RequestIds \ {p.request}
    BY <2>1, <2>4, ClearHoldsRow DEF Missing
  <2>5. ASSUME NEW d \in Callers
        PROVE  HonestCall(d)'
    BY <1>0, <2>1, <2>2, <2>3, <2>4 DEF HonestCall
  <2>6. ASSUME NEW r \in RequestIds
        PROVE  HonestRow(r)'
    BY <1>0, <2>1, <2>2 DEF HonestRow
  <2>7. QED
    BY <2>5, <2>6
<1>7. ASSUME NEW c \in Callers, RunExternalStage(c)
      PROVE  (\A d \in Callers : HonestCall(d)') /\ (\A r \in RequestIds : HonestRow(r)')
  <2> DEFINE p == calls[c].packet
  <2>1. PICK result \in {"cleared", "partial"} :
          /\ external' = [external EXCEPT ![p.request] = result]
          /\ Enter(c, IF result = "cleared" THEN "settling" ELSE "refusing")
    BY <1>7 DEF RunExternalStage
  <2>2. /\ p.request \in RequestIds /\ p.operation = "clear"
        /\ requests[p.request].outcome = "pending"
        /\ requests[p.request].packet = p
        /\ requests' = requests
        /\ calls[c].phase \in ClearPhases
    BY <1>7, ClearHoldsRow DEF RunExternalStage, ClearPhases
  <2>3. /\ external'[p.request] = result
        /\ \A r \in RequestIds \ {p.request} : external'[r] = external[r]
    BY <1>0, <2>1, <2>2 DEF TypeOK
  <2>4. /\ calls'[c].phase = IF result = "cleared" THEN "settling" ELSE "refusing"
        /\ calls'[c].packet = p
        /\ \A d \in Callers \ {c} : calls'[d] = calls[d]
    BY <1>0, <2>1 DEF Enter, TypeOK, Call
  <2>5. ASSUME NEW d \in Callers \ {c}, calls[d].phase \in ClearPhases
        PROVE  calls[d].packet.request \in RequestIds \ {p.request}
    BY <2>2, <2>5, ClearHoldsRow
  <2>6. ASSUME NEW d \in Callers
        PROVE  HonestCall(d)'
    BY <1>0, <2>1, <2>2, <2>3, <2>4, <2>5 DEF HonestCall
  <2>7. ASSUME NEW r \in RequestIds
        PROVE  HonestRow(r)'
    BY <1>0, <2>1, <2>2, <2>3 DEF HonestRow
  <2>8. QED
    BY <2>6, <2>7
<1>8. ASSUME NEW c \in Callers, RefusePartialClear(c) \/ SettleClear(c)
      PROVE  (\A d \in Callers : HonestCall(d)') /\ (\A r \in RequestIds : HonestRow(r)')
  <2> DEFINE p == calls[c].packet
  <2>1. /\ p.request \in RequestIds /\ p.operation = "clear"
        /\ calls[c].phase \in ClearPhases
        /\ external[p.request] = StageOf(calls[c].phase)
        /\ external' = external
    BY <1>0, <1>8, ClearHoldsRow
       DEF RefusePartialClear, SettleClear, ClearPhases, CallsAreBound
  <2>2. /\ \A r \in RequestIds \ {p.request} : requests'[r] = requests[r]
        /\ requests'[p.request].packet = p
        /\ \/ /\ external[p.request] = "partial"
              /\ requests'[p.request].outcome = "rejected"
              /\ requests'[p.request].code = "storage_partial_clear"
           \/ /\ external[p.request] = "cleared"
              /\ requests'[p.request].outcome = "committed"
              /\ requests'[p.request].code = "none"
    <3>1. CASE RefusePartialClear(c)
      BY <1>0, <2>1, <3>1 DEF RefusePartialClear, Reject, TypeOK, StageOf
    <3>2. CASE SettleClear(c)
      BY <1>0, <2>1, <3>2 DEF SettleClear, CommitReceipt, TypeOK, StageOf
    <3>3. QED
      BY <1>8, <3>1, <3>2
  <2>3. /\ calls'[c].phase = "idle"
        /\ \A d \in Callers \ {c} : calls'[d] = calls[d]
    BY <1>0, <1>8 DEF RefusePartialClear, SettleClear, Return, Idle, TypeOK
  <2>4. ASSUME NEW d \in Callers \ {c}, calls[d].phase \in ClearPhases
        PROVE  calls[d].packet.request \in RequestIds \ {p.request}
    BY <2>1, <2>4, ClearHoldsRow
  <2>5. ASSUME NEW d \in Callers
        PROVE  HonestCall(d)'
    BY <1>0, <2>1, <2>2, <2>3, <2>4 DEF HonestCall, ClearPhases
  <2>6. ASSUME NEW r \in RequestIds
        PROVE  HonestRow(r)'
    BY <1>0, <2>1, <2>2 DEF HonestRow
  <2>7. QED
    BY <2>5, <2>6
<1>9. ASSUME NEW t \in Tasks, ProjectJournal(t)
      PROVE  (\A d \in Callers : HonestCall(d)') /\ (\A r \in RequestIds : HonestRow(r)')
  BY <1>0, <1>9 DEF ProjectJournal, HonestCall, HonestRow
<1>10. CASE StartOnCopy
  BY <1>0, <1>10 DEF StartOnCopy, HonestCall, HonestRow, Idle, ClearPhases
<1>11. QED
  BY <1>0, <1>3, <1>4, <1>5, <1>6, <1>7, <1>8, <1>9, <1>10, StepCases

-----------------------------------------------------------------------------
(* Receipts are issued in order, and never twice *)

\* The kinds of step that decide no request as committed and keep the heads.
LEMMA NoNewReceipt ==
    ASSUME IInv,
           \/ Quiet \/ Rejecting
           \/ \E c \in Callers : \/ Fencing(c) \/ RunExternalStage(c)
                                 \/ RefusePartialClear(c)
    PROVE  /\ UNCHANGED <<collection, heads, bodies>>
           /\ \A r \in RequestIds : \/ requests'[r] = requests[r]
                                    \/ /\ requests[r].outcome # "committed"
                                       /\ requests'[r].outcome # "committed"
<1>0. TypeOK
  BY DEF IInv
<1>1. CASE Quiet
  BY <1>1 DEF Quiet
<1>2. CASE Rejecting
  <2>1. PICK p \in Packet, code \in Rejections : Missing(p.request) /\ Reject(p, code)
    BY <1>2 DEF Rejecting
  <2>2. QED
    BY <1>0, <1>2, <2>1 DEF Rejecting, Reject, Missing, TypeOK
<1>3. ASSUME NEW c \in Callers, Fencing(c)
      PROVE  /\ UNCHANGED <<collection, heads, bodies>>
             /\ \A r \in RequestIds : \/ requests'[r] = requests[r]
                                      \/ /\ requests[r].outcome # "committed"
                                         /\ requests'[r].outcome # "committed"
  BY <1>0, <1>3 DEF Fencing, Missing, NoRow, TypeOK
<1>4. ASSUME NEW c \in Callers, RunExternalStage(c)
      PROVE  UNCHANGED <<collection, heads, bodies, requests>>
  BY <1>4 DEF RunExternalStage
<1>5. ASSUME NEW c \in Callers, RefusePartialClear(c)
      PROVE  /\ UNCHANGED <<collection, heads, bodies>>
             /\ \A r \in RequestIds : \/ requests'[r] = requests[r]
                                      \/ /\ requests[r].outcome # "committed"
                                         /\ requests'[r].outcome # "committed"
  BY <1>0, <1>5 DEF RefusePartialClear, Reject, TypeOK
<1>6. QED
  BY <1>1, <1>2, <1>3, <1>4, <1>5

\* A transaction that commits a save or a delete adds one receipt, in the
\* current collection, for exactly the heads it writes.
LEMMA NewReceipt ==
    ASSUME IInv, NEW p \in Packet, p.operation # "clear", Missing(p.request), Commit(p)
    PROVE  /\ p.request \in RequestIds
           /\ collection' = collection
           /\ requests[p.request].outcome = "missing"
           /\ requests'[p.request].outcome = "committed"
           /\ requests'[p.request].packet = p
           /\ requests'[p.request].receipt \in Receipt
           /\ requests'[p.request].receipt.collection = collection
           /\ \A t \in p.tasks :
                 /\ t \in Tasks
                 /\ requests'[p.request].receipt.heads[t] = heads'[t]
                 /\ Below(heads[t], heads'[t])
           /\ \A t \in Tasks \ p.tasks : heads'[t] = heads[t] /\ bodies'[t] = bodies[t]
           /\ \A r \in RequestIds \ {p.request} : requests'[r] = requests[r]
<1>1. TypeOK /\ p.request \in RequestIds
  BY DEF IInv, Packet
<1>2. /\ Admissible(p) /\ heads' = HeadsAfter(p) /\ bodies' = BodiesAfter(p)
      /\ collection' = collection /\ CommitReceipt(p, collection)
  BY DEF Commit
<1>3. /\ requests'[p.request] = [outcome |-> "committed", packet |-> p, code |-> "none",
             receipt |-> [collection |-> collection, heads |-> DueReceipt(p).heads]]
      /\ \A r \in RequestIds \ {p.request} : requests'[r] = requests[r]
  BY <1>1, <1>2 DEF CommitReceipt, TypeOK
<1>4. \A t \in p.tasks : /\ t \in Tasks
                         /\ DueReceipt(p).heads[t] = heads'[t]
                         /\ Below(heads[t], heads'[t])
  BY <1>1, <1>2, CommitTask
<1>5. \A t \in Tasks \ p.tasks : heads'[t] = heads[t] /\ bodies'[t] = bodies[t]
  BY <1>1, <1>2, CommitOthers
<1>6. requests'[p.request].receipt \in Receipt
  BY <1>1, <1>2, <1>3, CommitTypes DEF Receipt, TypeOK
<1>7. QED
  BY <1>1, <1>2, <1>3, <1>4, <1>5, <1>6 DEF Missing

\* The receipt of a clear names no task and belongs to the new collection.
LEMMA ClearReceipt ==
    ASSUME IInv, NEW c \in Callers, SettleClear(c)
    PROVE  LET r == calls[c].packet.request IN
           /\ r \in RequestIds
           /\ requests[r].outcome = "pending"
           /\ requests'[r].outcome = "committed"
           /\ requests'[r].packet.tasks = {}
           /\ requests'[r].receipt \in Receipt
           /\ requests'[r].receipt.collection = collection'
           /\ Earlier(collection, collection')
           /\ \A s \in RequestIds \ {r} : requests'[s] = requests[s]
           /\ \A t \in Tasks : heads'[t] = NeverSeen /\ bodies'[t] = None
<1> DEFINE p == calls[c].packet
           after == [collection EXCEPT !.epoch = p.collection.epoch + 1]
<1>1. /\ TypeOK /\ p \in Packet /\ p.request \in RequestIds /\ p.operation = "clear"
      /\ requests[p.request].outcome = "pending"
  BY ClearHoldsRow DEF IInv, SettleClear, ClearPhases
<1>2. p.tasks = {} /\ p.collection = collection
  BY <1>1 DEF Packet, SettleClear, SecondCheck, Authority
<1>3. /\ collection' = after /\ CommitReceipt(p, after)
      /\ bodies' = [t \in Tasks |-> None] /\ heads' = [t \in Tasks |-> NeverSeen]
  BY DEF SettleClear
<1>4. Earlier(collection, after)
  BY <1>1, <1>2, StoreAssumption DEF Earlier, TypeOK, Collection, Counter
<1>5. /\ requests'[p.request].outcome = "committed"
      /\ requests'[p.request].packet = p
      /\ requests'[p.request].receipt.collection = after
      /\ requests'[p.request].receipt =
            [collection |-> after, heads |-> DueReceipt(p).heads]
      /\ \A s \in RequestIds \ {p.request} : requests'[s] = requests[s]
  BY <1>1, <1>3 DEF CommitReceipt, TypeOK
<1>6. requests'[p.request].receipt \in Receipt
  <2>1. after \in Collection
    BY <1>2, <1>3, TypeStep DEF TypeOK, IInv, Next, SettleClear
  <2>2. DueReceipt(p).heads \in [Tasks -> TaskHead]
    BY <1>2 DEF DueReceipt, TaskHead
  <2>3. QED
    BY <1>5, <2>1, <2>2 DEF Receipt
<1>7. QED
  BY <1>1, <1>2, <1>3, <1>4, <1>5, <1>6

LEMMA IssuedStep ==
    ASSUME IInv, [Next]_vars
    PROVE  ReceiptsAreIssued'
<1>0. TypeOK /\ CallsAreBound /\ ReceiptsAreIssued
  BY DEF IInv
<1>1. CASE \/ Quiet \/ Rejecting
           \/ \E c \in Callers : \/ Fencing(c) \/ RunExternalStage(c)
                                 \/ RefusePartialClear(c)
  BY <1>0, <1>1, NoNewReceipt DEF ReceiptsAreIssued, Below, Earlier
<1>2. CASE Committing
  <2>1. PICK p \in Packet : Missing(p.request) /\ p.operation # "clear" /\ Commit(p)
    BY <1>2 DEF Committing
  <2>2. SUFFICES ASSUME NEW r \in RequestIds, requests'[r].outcome = "committed"
                 PROVE  LET receipt == requests'[r].receipt IN
                        /\ receipt \in Receipt
                        /\ receipt.collection = collection'
                           \/ Earlier(receipt.collection, collection')
                        /\ receipt.collection = collection' =>
                              \A t \in requests'[r].packet.tasks :
                                 \/ receipt.heads[t] = heads'[t]
                                 \/ Below(receipt.heads[t], heads'[t])
    BY DEF ReceiptsAreIssued, Below, Earlier
  <2>3. CASE r = p.request
    BY <2>1, <2>3, NewReceipt
  <2>4. CASE r # p.request
    <3>1. requests'[r] = requests[r] /\ collection' = collection
      BY <2>1, <2>4, NewReceipt
    <3>2. ASSUME requests[r].receipt.collection = collection,
                 NEW t \in requests[r].packet.tasks
          PROVE  \/ requests[r].receipt.heads[t] = heads'[t]
                 \/ Below(requests[r].receipt.heads[t], heads'[t])
      <4>1. /\ requests[r].receipt \in Receipt
            /\ \/ requests[r].receipt.heads[t] = heads[t]
               \/ Below(requests[r].receipt.heads[t], heads[t])
        BY <1>0, <2>2, <3>1, <3>2 DEF ReceiptsAreIssued
      <4>2. t \in Tasks
        BY <1>0, <2>2, <3>1 DEF CallsAreBound, Packet
      <4>3. heads'[t] = heads[t] \/ Below(heads[t], heads'[t])
        BY <2>1, <4>2, NewReceipt
      <4>4. /\ heads[t] \in TaskHead /\ heads'[t] \in TaskHead
            /\ requests[r].receipt.heads[t] \in TaskHead
        BY <1>0, <4>1, <4>2, TypeStep DEF TypeOK, Receipt
      <4>5. QED
        BY <4>1, <4>3, <4>4, BelowOrder
    <3>3. QED
      BY <1>0, <2>2, <3>1, <3>2 DEF ReceiptsAreIssued
  <2>5. QED
    BY <2>3, <2>4
<1>3. ASSUME NEW c \in Callers, SettleClear(c)
      PROVE  ReceiptsAreIssued'
  <2> DEFINE p == calls[c].packet
  <2>1. SUFFICES ASSUME NEW r \in RequestIds, requests'[r].outcome = "committed"
                 PROVE  LET receipt == requests'[r].receipt IN
                        /\ receipt \in Receipt
                        /\ receipt.collection = collection'
                           \/ Earlier(receipt.collection, collection')
                        /\ receipt.collection = collection' =>
                              \A t \in requests'[r].packet.tasks :
                                 \/ receipt.heads[t] = heads'[t]
                                 \/ Below(receipt.heads[t], heads'[t])
    BY DEF ReceiptsAreIssued, Below, Earlier
  <2>2. CASE r = p.request
    BY <1>3, <2>2, ClearReceipt
  <2>3. CASE r # p.request
    <3>1. requests'[r] = requests[r] /\ Earlier(collection, collection')
      BY <1>3, <2>3, ClearReceipt
    <3>2. /\ requests[r].receipt \in Receipt
          /\ \/ requests[r].receipt.collection = collection
             \/ Earlier(requests[r].receipt.collection, collection)
      BY <1>0, <2>1, <3>1 DEF ReceiptsAreIssued
    <3>3. /\ requests[r].receipt.collection \in Collection
          /\ collection \in Collection /\ collection' \in Collection
      BY <1>0, <3>2, TypeStep DEF Receipt, TypeOK
    <3>4. QED
      BY <3>1, <3>2, <3>3, EarlierOrder
  <2>4. QED
    BY <2>2, <2>3
<1>4. ASSUME NEW t \in Tasks, ProjectJournal(t)
      PROVE  ReceiptsAreIssued'
  <2>1. /\ requests' = requests /\ collection' = collection
        /\ \A u \in Tasks \ {t} : heads'[u] = heads[u]
        /\ heads'[t] = NextHead("update", heads[t])
        /\ CanAdvance("update", heads[t])
    BY <1>0, <1>4 DEF ProjectJournal, TypeOK
  <2>2. heads[t] \in TaskHead /\ heads'[t] \in TaskHead /\ Below(heads[t], heads'[t])
    BY <1>0, <2>1, NextHeadIssued DEF TypeOK, Saves
  <2>3. ASSUME NEW r \in RequestIds, requests[r].outcome = "committed",
               requests[r].receipt.collection = collection,
               NEW u \in requests[r].packet.tasks
        PROVE  \/ requests[r].receipt.heads[u] = heads'[u]
               \/ Below(requests[r].receipt.heads[u], heads'[u])
    <3>1. /\ u \in Tasks /\ requests[r].receipt.heads[u] \in TaskHead
          /\ \/ requests[r].receipt.heads[u] = heads[u]
             \/ Below(requests[r].receipt.heads[u], heads[u])
      BY <1>0, <2>3 DEF ReceiptsAreIssued, CallsAreBound, Packet, Receipt
    <3>2. QED
      BY <2>1, <2>2, <3>1, BelowOrder
  <2>4. QED
    BY <1>0, <2>1, <2>3 DEF ReceiptsAreIssued, Below, Earlier
<1>5. CASE StartOnCopy
  <2>1. requests' = requests /\ Earlier(collection, collection')
    BY <1>0, <1>5 DEF StartOnCopy, Earlier, TypeOK, Collection
  <2>2. ASSUME NEW r \in RequestIds, requests[r].outcome = "committed"
        PROVE  /\ requests[r].receipt \in Receipt
               /\ Earlier(requests[r].receipt.collection, collection')
               /\ requests[r].receipt.collection # collection'
    <3>1. /\ requests[r].receipt \in Receipt
          /\ \/ requests[r].receipt.collection = collection
             \/ Earlier(requests[r].receipt.collection, collection)
      BY <1>0, <2>2 DEF ReceiptsAreIssued
    <3>2. /\ requests[r].receipt.collection \in Collection
          /\ collection \in Collection /\ collection' \in Collection
      BY <1>0, <3>1, TypeStep DEF Receipt, TypeOK
    <3>3. QED
      BY <2>1, <3>1, <3>2, EarlierOrder
  <2>3. QED
    BY <2>1, <2>2 DEF ReceiptsAreIssued, Below, Earlier
<1>6. QED
  BY <1>0, <1>1, <1>2, <1>3, <1>4, <1>5, StepCases

(* The collection a clear leaves behind is one no receipt spoke of before. *)
LEMMA ClearIsFirst ==
    ASSUME IInv, [Next]_vars, NEW c \in Callers, SettleClear(c),
           NEW r \in RequestIds \ {calls[c].packet.request}, requests[r].outcome = "committed"
    PROVE  requests[r].receipt.collection # collection'
<1>1. Earlier(collection, collection')
  BY ClearReceipt
<1>2. /\ requests[r].receipt \in Receipt
      /\ \/ requests[r].receipt.collection = collection
         \/ Earlier(requests[r].receipt.collection, collection)
  BY DEF IInv, ReceiptsAreIssued
<1>3. /\ requests[r].receipt.collection \in Collection
      /\ collection \in Collection /\ collection' \in Collection
  BY <1>2, TypeStep DEF IInv, Receipt, TypeOK
<1>4. QED
  BY <1>1, <1>2, <1>3, EarlierOrder

LEMMA DistinctStep ==
    ASSUME IInv, [Next]_vars
    PROVE  ReceiptsAreDistinct'
<1>0. TypeOK /\ CallsAreBound /\ ReceiptsAreIssued /\ ReceiptsAreDistinct
  BY DEF IInv
<1>1. CASE \/ Quiet \/ Rejecting
           \/ \E c \in Callers : \/ Fencing(c) \/ RunExternalStage(c)
                                 \/ RefusePartialClear(c)
  <2>1. \A r \in RequestIds : requests'[r].outcome = "committed" =>
           requests'[r] = requests[r]
    BY <1>1, NoNewReceipt
  <2>2. QED
    BY <1>0, <2>1 DEF ReceiptsAreDistinct
<1>2. CASE Committing
  <2>1. PICK p \in Packet : Missing(p.request) /\ p.operation # "clear" /\ Commit(p)
    BY <1>2 DEF Committing
  <2>2. ASSUME NEW s \in RequestIds \ {p.request}, requests'[s].outcome = "committed",
               requests'[s].receipt.collection = collection,
               NEW t \in requests'[s].packet.tasks \cap p.tasks
        PROVE  requests'[s].receipt.heads[t] # requests'[p.request].receipt.heads[t]
    <3>1. /\ requests'[s] = requests[s] /\ t \in Tasks
          /\ requests'[p.request].receipt.heads[t] = heads'[t]
          /\ Below(heads[t], heads'[t])
      BY <2>1, <2>2, NewReceipt
    <3>2. /\ requests[s].receipt \in Receipt
          /\ \/ requests[s].receipt.heads[t] = heads[t]
             \/ Below(requests[s].receipt.heads[t], heads[t])
      BY <1>0, <2>2, <3>1 DEF ReceiptsAreIssued
    <3>3. /\ heads[t] \in TaskHead /\ heads'[t] \in TaskHead
          /\ requests[s].receipt.heads[t] \in TaskHead
      BY <1>0, <3>1, <3>2, TypeStep DEF TypeOK, Receipt
    <3>4. QED
      BY <3>1, <3>2, <3>3, BelowOrder
  <2>3. /\ p.request \in RequestIds
        /\ requests'[p.request].packet = p
        /\ requests'[p.request].receipt.collection = collection
        /\ \A r \in RequestIds \ {p.request} : requests'[r] = requests[r]
    BY <2>1, NewReceipt
  <2>4. SUFFICES ASSUME NEW r \in RequestIds, NEW s \in RequestIds, r # s,
                        requests'[r].outcome = "committed",
                        requests'[s].outcome = "committed",
                        requests'[r].receipt.collection = requests'[s].receipt.collection
                 PROVE  /\ requests'[r].packet.operation = "clear" =>
                              requests'[s].packet.operation # "clear"
                        /\ \A t \in requests'[r].packet.tasks \cap requests'[s].packet.tasks :
                              requests'[r].receipt.heads[t] # requests'[s].receipt.heads[t]
    BY DEF ReceiptsAreDistinct
  <2>5. CASE r = p.request
    BY <2>1, <2>2, <2>3, <2>4, <2>5
  <2>6. CASE s = p.request
    BY <2>1, <2>2, <2>3, <2>4, <2>6
  <2>7. CASE r # p.request /\ s # p.request
    BY <1>0, <2>3, <2>4, <2>7 DEF ReceiptsAreDistinct
  <2>8. QED
    BY <2>5, <2>6, <2>7
<1>3. ASSUME NEW c \in Callers, SettleClear(c)
      PROVE  ReceiptsAreDistinct'
  <2> DEFINE q == calls[c].packet.request
  <2>1. /\ q \in RequestIds /\ requests'[q].receipt.collection = collection'
        /\ \A r \in RequestIds \ {q} : requests'[r] = requests[r]
    BY <1>3, ClearReceipt
  <2>2. SUFFICES ASSUME NEW r \in RequestIds, NEW s \in RequestIds, r # s,
                        requests'[r].outcome = "committed",
                        requests'[s].outcome = "committed",
                        requests'[r].receipt.collection = requests'[s].receipt.collection
                 PROVE  /\ requests'[r].packet.operation = "clear" =>
                              requests'[s].packet.operation # "clear"
                        /\ \A t \in requests'[r].packet.tasks \cap requests'[s].packet.tasks :
                              requests'[r].receipt.heads[t] # requests'[s].receipt.heads[t]
    BY DEF ReceiptsAreDistinct
  <2>3. r # q /\ s # q
    BY <1>3, <2>1, <2>2, ClearIsFirst
  <2>4. QED
    BY <1>0, <2>1, <2>2, <2>3 DEF ReceiptsAreDistinct
<1>4. CASE UNCHANGED requests
  BY <1>0, <1>4 DEF ReceiptsAreDistinct
<1>5. QED
  BY <1>0, <1>1, <1>2, <1>3, <1>4, StepCases DEF ProjectJournal, StartOnCopy

LEMMA LiveBodyStep ==
    ASSUME IInv, [Next]_vars
    PROVE  LiveBodyIsReceipted'
<1>0. /\ TypeOK /\ LiveBodyIsReceipted
      /\ None \notin RequestIds /\ Projection \notin RequestIds
  BY StoreAssumption DEF IInv
<1>1. CASE \/ Quiet \/ Rejecting
           \/ \E c \in Callers : \/ Fencing(c) \/ RunExternalStage(c)
                                 \/ RefusePartialClear(c)
  <2>1. /\ UNCHANGED <<heads, bodies>>
        /\ \A r \in RequestIds : requests[r].outcome = "committed" =>
              requests'[r] = requests[r]
    BY <1>1, NoNewReceipt
  <2>2. QED
    BY <1>0, <2>1 DEF LiveBodyIsReceipted
<1>2. CASE Committing
  <2>1. PICK p \in Packet : Missing(p.request) /\ p.operation # "clear" /\ Commit(p)
    BY <1>2 DEF Committing
  <2>2. SUFFICES ASSUME NEW t \in Tasks, NEW r \in RequestIds, bodies'[t] = r
                 PROVE  /\ requests'[r].outcome = "committed"
                        /\ t \in requests'[r].packet.tasks
                        /\ requests'[r].receipt.heads[t] = heads'[t]
    BY DEF LiveBodyIsReceipted
  <2>3. CASE t \in p.tasks
    <3>1. r = p.request
      BY <1>0, <2>1, <2>2, <2>3, CommitTask DEF Commit
    <3>2. QED
      BY <2>1, <2>3, <3>1, NewReceipt
  <2>4. CASE t \notin p.tasks
    <3>1. bodies[t] = r /\ heads'[t] = heads[t]
      BY <2>1, <2>2, <2>4, NewReceipt
    <3>2. /\ requests[r].outcome = "committed"
          /\ t \in requests[r].packet.tasks
          /\ requests[r].receipt.heads[t] = heads[t]
      BY <1>0, <3>1 DEF LiveBodyIsReceipted
    <3>3. r # p.request
      BY <2>1, <3>2, NewReceipt
    <3>4. QED
      BY <2>1, <3>1, <3>2, <3>3, NewReceipt
  <2>5. QED
    BY <2>3, <2>4
<1>3. ASSUME NEW c \in Callers, SettleClear(c)
      PROVE  LiveBodyIsReceipted'
  BY <1>0, <1>3, ClearReceipt DEF LiveBodyIsReceipted
<1>4. ASSUME NEW t \in Tasks, ProjectJournal(t)
      PROVE  LiveBodyIsReceipted'
  BY <1>0, <1>4 DEF ProjectJournal, LiveBodyIsReceipted, TypeOK
<1>5. CASE StartOnCopy
  BY <1>0, <1>5 DEF StartOnCopy, LiveBodyIsReceipted
<1>6. QED
  BY <1>0, <1>1, <1>2, <1>3, <1>4, <1>5, StepCases DEF IInv

-----------------------------------------------------------------------------
(* The inductive invariant *)

LEMMA InitInvariant == Init => IInv
<1>1. ASSUME Init PROVE IInv
  <2>1. /\ TypeOK
        /\ requests = [r \in RequestIds |-> NoRow]
        /\ calls = [c \in Callers |-> Idle]
        /\ external = [r \in RequestIds |-> "untouched"]
    BY <1>1, InitTypes DEF Init
  <2>2. /\ \A r \in RequestIds : /\ requests[r].outcome = "missing"
                                 /\ requests[r].code = "none"
                                 /\ external[r] = "untouched"
        /\ \A c \in Callers : calls[c].phase = "idle"
    BY <2>1 DEF NoRow, Idle
  <2>3. BodiesMatchHeads
    <3>1. PICK migrated \in SUBSET Tasks :
            /\ heads = [t \in Tasks |-> IF t \in migrated THEN FirstHead("live")
                                       ELSE NeverSeen]
            /\ bodies = [t \in Tasks |-> IF t \in migrated THEN Legacy ELSE None]
      BY <1>1 DEF Init
    <3>2. QED
      BY <3>1, StoreAssumption DEF BodiesMatchHeads, FirstHead, NeverSeen
  <2>4. LiveBodyIsReceipted
    BY <1>1, StoreAssumption DEF Init, LiveBodyIsReceipted
  <2>5. RowsReplay /\ ReceiptsAreIssued /\ ReceiptsAreDistinct
    BY <2>2 DEF RowsReplay, ReceiptsAreIssued, ReceiptsAreDistinct
  <2>6. CallsAreBound
    BY <2>2 DEF CallsAreBound, ClearPhases
  <2>7. ExternalStageIsHonest
    BY <2>2 DEF ExternalStageIsHonest, ClearPhases
  <2>8. QED
    BY <2>1, <2>3, <2>4, <2>5, <2>6, <2>7 DEF IInv
<1>2. QED
  BY <1>1

LEMMA StepInvariant == IInv /\ [Next]_vars => IInv'
BY TypeStep, BodiesStep, RowsStep, CallsStep, HonestStep, IssuedStep,
   DistinctStep, LiveBodyStep DEF IInv

\* The inductive invariant holds in every behaviour of the store.
THEOREM Invariance == Spec => []IInv
BY InitInvariant, StepInvariant, PTL DEF Spec

\* Every variable keeps its shape, and no counter passes the largest one.
THEOREM TypeCorrect == Spec => []TypeOK
BY Invariance, PTL DEF IInv

\* Saved bodies and live heads agree, so current() never finds them apart.
THEOREM BodiesAgree == Spec => []BodiesMatchHeads
BY Invariance, PTL DEF IInv

\* Every saved body is the one its committed receipt speaks of.
THEOREM BodiesAreReceipted == Spec => []LiveBodyIsReceipted
BY Invariance, PTL DEF IInv

\* No two committed requests of a collection were given the same head, and no two
\* clears emptied the same one.
THEOREM CommitsAreSerial == Spec => []ReceiptsAreDistinct
BY Invariance, PTL DEF IInv

\* Credentials are touched at most once per clear, and never denied.
THEOREM ClearsAreHonest == Spec => []ExternalStageIsHonest
BY Invariance, PTL DEF IInv

\* Every stored row passes the checks of its own replay.
THEOREM StoredRowsReplay == Spec => []RowsReplay
BY Invariance, PTL DEF IInv

-----------------------------------------------------------------------------
(* What a step may never do *)

\* A row that is not missing is left alone, except that the clear which holds a
\* pending row decides it, for the packet the row was bound to.
LEMMA BoundRowStep ==
    ASSUME IInv, [Next]_vars, NEW r \in RequestIds, requests[r].outcome # "missing"
    PROVE  \/ requests'[r] = requests[r]
           \/ /\ requests[r].outcome = "pending"
              /\ requests'[r].packet = requests[r].packet
              /\ \E c \in Callers : /\ calls[c].phase \in ClearPhases
                                    /\ calls[c].packet.request = r
<1>0. TypeOK /\ CallsAreBound
  BY DEF IInv
<1>1. CASE Quiet \/ StartOnCopy
  BY <1>1 DEF Quiet, StartOnCopy
<1>2. CASE Rejecting \/ Committing
  <2>1. BindsRow
    BY <1>0, <1>2, RejectBinds, CommitBinds
  <2>2. QED
    BY <2>1 DEF BindsRow, Missing
<1>3. ASSUME NEW c \in Callers, Fencing(c)
      PROVE  requests'[r] = requests[r]
  BY <1>0, <1>3 DEF Fencing, Missing, TypeOK, Packet
<1>4. ASSUME NEW c \in Callers, RunExternalStage(c)
      PROVE  requests'[r] = requests[r]
  BY <1>4 DEF RunExternalStage
<1>5. ASSUME NEW c \in Callers, RefusePartialClear(c) \/ SettleClear(c)
      PROVE  \/ requests'[r] = requests[r]
             \/ /\ requests[r].outcome = "pending"
                /\ requests'[r].packet = requests[r].packet
                /\ calls[c].phase \in ClearPhases /\ calls[c].packet.request = r
  <2>1. /\ calls[c].phase \in ClearPhases
        /\ requests[calls[c].packet.request].outcome = "pending"
        /\ requests[calls[c].packet.request].packet = calls[c].packet
    BY <1>5, ClearHoldsRow DEF RefusePartialClear, SettleClear, ClearPhases
  <2>2. CASE r = calls[c].packet.request
    BY <1>0, <1>5, <2>1, <2>2
       DEF RefusePartialClear, SettleClear, Reject, CommitReceipt, TypeOK
  <2>3. CASE r # calls[c].packet.request
    BY <1>0, <1>5, <2>3
       DEF RefusePartialClear, SettleClear, Reject, CommitReceipt, TypeOK
  <2>4. QED
    BY <2>1, <2>2, <2>3
<1>6. ASSUME NEW t \in Tasks, ProjectJournal(t)
      PROVE  requests'[r] = requests[r]
  BY <1>6 DEF ProjectJournal
<1>7. QED
  BY <1>0, <1>1, <1>2, <1>3, <1>4, <1>5, <1>6, StepCases

\* A decided request keeps its outcome, and a bound one its packet, for ever.
THEOREM DecidedForEver == Spec => DecisionsAreFinal
<1>1. IInv /\ [Next]_vars =>
        [\A r \in RequestIds :
          /\ requests[r].outcome \in {"committed", "rejected"} =>
                requests'[r] = requests[r]
          /\ requests[r].outcome # "missing" =>
                requests'[r].packet = requests[r].packet]_vars
  BY BoundRowStep
<1>2. QED
  BY <1>1, Invariance, PTL DEF Spec, DecisionsAreFinal

\* Whatever commits shuts the gate, and nothing opens it again.
LEMMA GateStep == IInv /\ CommitsShutTheGate /\ [Next]_vars => CommitsShutTheGate'
<1> SUFFICES ASSUME IInv, CommitsShutTheGate, [Next]_vars,
                    NEW r \in RequestIds, requests'[r].outcome = "committed"
             PROVE  closed'
  BY DEF CommitsShutTheGate
<1>0. TypeOK /\ CallsAreBound /\ (requests[r].outcome = "committed" => closed)
  BY DEF IInv, CommitsShutTheGate
<1>1. CASE Quiet
  BY <1>0, <1>1 DEF Quiet
<1>2. CASE Rejecting
  BY <1>0, <1>2 DEF Rejecting, Reject, TypeOK
<1>3. CASE Committing
  BY <1>3 DEF Committing, Commit
<1>4. ASSUME NEW c \in Callers, Fencing(c)
      PROVE  closed'
  BY <1>0, <1>4 DEF Fencing, TypeOK, NoRow
<1>5. ASSUME NEW c \in Callers, RunExternalStage(c)
      PROVE  closed'
  BY <1>0, <1>5 DEF RunExternalStage
<1>6. ASSUME NEW c \in Callers, RefusePartialClear(c)
      PROVE  closed'
  BY <1>0, <1>6 DEF RefusePartialClear, Reject, TypeOK
<1>7. ASSUME NEW c \in Callers, SettleClear(c)
      PROVE  closed'
  BY <1>7 DEF SettleClear
<1>8. ASSUME NEW t \in Tasks, ProjectJournal(t)
      PROVE  closed'
  BY <1>8 DEF ProjectJournal
<1>9. CASE StartOnCopy
  BY <1>9 DEF StartOnCopy
<1>10. QED
  BY <1>0, <1>1, <1>2, <1>3, <1>4, <1>5, <1>6, <1>7, <1>8, <1>9, StepCases

\* A row that becomes committed as an import was admitted through the open gate.
LEMMA ImportNeedsTheGate ==
    ASSUME IInv, [Next]_vars, NEW r \in RequestIds,
           requests[r].outcome # "committed", requests'[r].outcome = "committed",
           requests'[r].packet.operation = "import"
    PROVE  ~closed
<1>0. TypeOK /\ CallsAreBound
  BY DEF IInv
<1>1. CASE Committing
  <2>1. PICK p \in Packet : Commit(p)
    BY <1>1 DEF Committing
  <2>2. requests'[r].packet = p
    BY <1>0, <2>1 DEF Commit, CommitReceipt, TypeOK
  <2>3. QED
    BY <2>1, <2>2 DEF Commit, Admissible, ImportOpen
<1>2. CASE Quiet \/ StartOnCopy \/ \E t \in Tasks : ProjectJournal(t)
  BY <1>2 DEF Quiet, StartOnCopy, ProjectJournal
<1>3. CASE Rejecting
  BY <1>0, <1>3 DEF Rejecting, Reject, TypeOK
<1>4. ASSUME NEW c \in Callers,
             Fencing(c) \/ RunExternalStage(c) \/ RefusePartialClear(c)
      PROVE  FALSE
  <2>1. CASE Fencing(c)
    BY <1>0, <2>1 DEF Fencing, TypeOK, NoRow
  <2>2. CASE RunExternalStage(c)
    BY <2>2 DEF RunExternalStage
  <2>3. CASE RefusePartialClear(c)
    BY <1>0, <2>3 DEF RefusePartialClear, Reject, TypeOK
  <2>4. QED
    BY <1>4, <2>1, <2>2, <2>3
<1>5. ASSUME NEW c \in Callers, SettleClear(c)
      PROVE  FALSE
  <2>1. calls[c].packet.operation = "clear"
    BY <1>0, <1>5 DEF SettleClear, CallsAreBound, ClearPhases
  <2>2. requests'[r].packet = calls[c].packet
    BY <1>0, <1>5 DEF SettleClear, CommitReceipt, TypeOK
  <2>3. QED
    BY <2>1, <2>2
<1>6. QED
  BY <1>0, <1>1, <1>2, <1>3, <1>4, <1>5, StepCases

\* An import commits only before any other request has.
THEOREM ImportsComeFirst == Spec => ImportComesFirst
<1>1. Init => CommitsShutTheGate
  BY DEF Init, CommitsShutTheGate, NoRow
<1>2. Spec => []CommitsShutTheGate
  BY <1>1, GateStep, Invariance, PTL DEF Spec
<1>3. IInv /\ CommitsShutTheGate /\ [Next]_vars =>
        [\A r \in RequestIds :
          /\ requests[r].outcome # "committed"
          /\ requests'[r].outcome = "committed"
          /\ requests'[r].packet.operation = "import"
          => \A s \in RequestIds : requests[s].outcome # "committed"]_vars
  BY ImportNeedsTheGate DEF CommitsShutTheGate
<1>4. QED
  BY <1>2, <1>3, Invariance, PTL DEF Spec, ImportComesFirst

\* Within a collection heads only advance; they vanish only with a new epoch.
THEOREM HeadsAdvance == Spec => HeadsOnlyAdvance
<1> DEFINE Advances(t) ==
             /\ collection' = collection /\ heads'[t] # heads[t] =>
                   /\ Below(heads[t], heads'[t])
                   /\ heads'[t].generation <= heads[t].generation + 1
                   /\ heads[t].state = "tombstone" /\ heads'[t].state = "live" =>
                         heads'[t].generation > heads[t].generation
             /\ heads'[t] = NeverSeen /\ heads[t] # NeverSeen =>
                   collection'.id = collection.id
                   /\ collection'.epoch = collection.epoch + 1
<1>1. ASSUME IInv, [Next]_vars, NEW t \in Tasks
      PROVE  Advances(t)
  <2>0. TypeOK /\ CallsAreBound /\ heads[t] \in TaskHead
    BY <1>1 DEF IInv, TypeOK
  <2>1. CASE heads'[t] = heads[t]
    BY <2>1
  <2>2. ASSUME NEW op \in (Saves \cup Removals) \ {"clear"},
               heads'[t] = NextHead(op, heads[t]), CanAdvance(op, heads[t])
        PROVE  Advances(t)
    <3>1. /\ Below(heads[t], heads'[t]) /\ heads'[t] # NeverSeen
          /\ heads'[t].generation <= heads[t].generation + 1
          /\ heads[t].state = "tombstone" /\ heads'[t].state = "live" =>
                heads'[t].generation > heads[t].generation
      BY <2>0, <2>2, NextHeadIssued
    <3>2. QED
      BY <3>1
  <2>3. CASE Committing
    <3>1. PICK p \in Packet : p.operation # "clear" /\ Commit(p)
      BY <2>3 DEF Committing
    <3>2. CASE t \in p.tasks
      <4>1. /\ heads'[t] = NextHead(p.operation, heads[t])
            /\ CanAdvance(p.operation, heads[t])
            /\ p.operation \in (Saves \cup Removals) \ {"clear"}
        BY <2>0, <3>1, <3>2, CommitTask DEF Commit, Admissible, Authority, Packet
      <4>2. QED
        BY <2>2, <4>1
    <3>3. CASE t \notin p.tasks
      BY <2>0, <2>1, <3>1, <3>3, CommitOthers DEF Commit
    <3>4. QED
      BY <3>2, <3>3
  <2>4. ASSUME NEW c \in Callers, SettleClear(c)
        PROVE  Advances(t)
    <3>1. collection' # collection
      <4>1. Earlier(collection, collection') /\ collection \in Collection
        BY <1>1, <2>0, <2>4, ClearReceipt DEF TypeOK
      <4>2. QED
        BY <4>1, EarlierOrder
    <3>2. /\ calls[c].packet.collection = collection
          /\ collection' = [collection EXCEPT !.epoch = calls[c].packet.collection.epoch + 1]
      BY <2>4 DEF SettleClear, SecondCheck, Authority
    <3>3. collection'.id = collection.id /\ collection'.epoch = collection.epoch + 1
      BY <2>0, <3>2 DEF TypeOK, Collection
    <3>4. QED
      BY <3>1, <3>3
  <2>5. ASSUME NEW u \in Tasks, ProjectJournal(u)
        PROVE  Advances(t)
    <3>1. CASE t = u
      BY <2>0, <2>2, <2>5, <3>1 DEF ProjectJournal, TypeOK, Saves
    <3>2. CASE t # u
      BY <2>0, <2>1, <2>5, <3>2 DEF ProjectJournal, TypeOK
    <3>3. QED
      BY <3>1, <3>2
  <2>6. CASE \/ Quiet \/ Rejecting
             \/ \E c \in Callers : \/ Fencing(c) \/ RunExternalStage(c)
                                   \/ RefusePartialClear(c)
    <3>1. heads' = heads
      BY <1>1, <2>6, NoNewReceipt
    <3>2. QED
      BY <2>1, <3>1
  <2>7. CASE StartOnCopy
    BY <2>1, <2>7 DEF StartOnCopy
  <2>8. QED
    BY <1>1, <2>0, <2>3, <2>4, <2>5, <2>6, <2>7, StepCases
<1>2. IInv' => \A t \in Tasks : {heads'[t].generation, heads'[t].revision, collection'.epoch}
                                   \subseteq 0 .. MaxCounter
  BY StoreAssumption DEF IInv, TypeOK, TaskHead, NeverSeen, Counter, Collection
<1>3. IInv /\ IInv' /\ [Next]_vars =>
        [\A t \in Tasks :
            /\ {heads'[t].generation, heads'[t].revision, collection'.epoch} \subseteq 0 .. MaxCounter
            /\ collection' = collection /\ heads'[t] # heads[t] =>
                  /\ Below(heads[t], heads'[t])
                  /\ heads'[t].generation <= heads[t].generation + 1
                  /\ heads[t].state = "tombstone" /\ heads'[t].state = "live" =>
                        heads'[t].generation > heads[t].generation
            /\ heads'[t] = NeverSeen /\ heads[t] # NeverSeen =>
                  collection'.id = collection.id
                  /\ collection'.epoch = collection.epoch + 1]_vars
  BY <1>1, <1>2
<1>4. QED
  BY <1>3, Invariance, PTL DEF Spec, HeadsOnlyAdvance

\* A clear nobody holds any more is never decided, and never runs again.
THEOREM AbandonedForEver == Spec => AbandonedClearStaysUnknown
<1>1. ASSUME IInv, [Next]_vars, NEW r \in RequestIds, Abandoned(r)
      PROVE  Abandoned(r)' /\ external'[r] = external[r]
  <2>0. TypeOK /\ CallsAreBound /\ requests[r].outcome = "pending"
    BY <1>1 DEF IInv, Abandoned
  <2>1. requests'[r] = requests[r]
    BY <1>1, <2>0, BoundRowStep DEF Abandoned
  <2>2. ASSUME CallsSettle
        PROVE  Abandoned(r)'
    BY <1>1, <2>0, <2>1, <2>2, ClearsSettle DEF Abandoned
  <2>3. CASE Quiet \/ Rejecting \/ Committing
    BY <2>2, <2>3 DEF Quiet, Rejecting, Committing
  <2>4. ASSUME NEW c \in Callers, Fencing(c)
        PROVE  Abandoned(r)' /\ external' = external
    <3>1. /\ calls[c].packet.request # r
          /\ calls'[c].packet = calls[c].packet
          /\ \A d \in Callers \ {c} : calls'[d] = calls[d]
      BY <2>0, <2>4 DEF Fencing, Missing, Enter, TypeOK, Call
    <3>2. QED
      BY <1>1, <2>0, <2>1, <2>4, <3>1 DEF Abandoned, Fencing
  <2>5. ASSUME NEW c \in Callers,
               \/ RunExternalStage(c) \/ RefusePartialClear(c) \/ SettleClear(c)
        PROVE  Abandoned(r)' /\ external'[r] = external[r]
    <3>1. calls[c].phase \in ClearPhases
      BY <2>5 DEF RunExternalStage, RefusePartialClear, SettleClear, ClearPhases
    <3>2. calls[c].packet.request # r
      BY <1>1, <3>1 DEF Abandoned
    <3>3. /\ calls'[c].packet = calls[c].packet \/ calls'[c] = Idle
          /\ \A d \in Callers \ {c} : calls'[d] = calls[d]
      BY <2>0, <2>5
         DEF RunExternalStage, RefusePartialClear, SettleClear, Enter, Return, TypeOK, Call
    <3>4. external'[r] = external[r]
      BY <2>0, <2>5, <3>2 DEF RunExternalStage, RefusePartialClear, SettleClear, TypeOK
    <3>5. QED
      BY <1>1, <2>0, <2>1, <3>2, <3>3, <3>4 DEF Abandoned, Idle, ClearPhases
  <2>6. CASE (\E t \in Tasks : ProjectJournal(t)) \/ StartOnCopy
    <3>1. external' = external /\ \A c \in Callers : calls'[c] = calls[c] \/ calls'[c] = Idle
      BY <2>0, <2>6 DEF ProjectJournal, StartOnCopy
    <3>2. QED
      BY <1>1, <2>0, <2>1, <3>1 DEF Abandoned, Idle, ClearPhases
  <2>7. QED
    BY <1>1, <2>0, <2>2, <2>3, <2>4, <2>5, <2>6, StepCases
       DEF Quiet, Rejecting, Committing
<1>2. IInv /\ [Next]_vars =>
        [\A r \in RequestIds : Abandoned(r) =>
            Abandoned(r)' /\ external'[r] = external[r]]_vars
  BY <1>1
<1>3. QED
  BY <1>2, Invariance, PTL DEF Spec, AbandonedClearStaysUnknown

-----------------------------------------------------------------------------
(* The store implements the exactly-once promise *)

\* A step that turns one undecided row into a committed one, and changes exactly
\* the bodies that row reaches, is the abstract Apply.
LEMMA ApplyStep ==
    ASSUME TypeOK, NEW r \in RequestIds, NEW ts \in SUBSET Tasks, NEW body \in {r, None},
           requests[r].outcome \in {"missing", "pending"},
           requests'[r].outcome = "committed",
           Reach(requests'[r]) = ts,
           \A s \in RequestIds \ {r} : requests'[s] = requests[s],
           bodies' = [t \in Tasks |-> IF t \in ts THEN body ELSE bodies[t]]
    PROVE  Promise!Apply(r, ts, body)
<1>1. Verdict(requests[r]) = "open" /\ Verdict(requests'[r]) = "applied"
  BY DEF Verdict
<1>2. [s \in RequestIds |-> Verdict(requests[s])]' =
        [[s \in RequestIds |-> Verdict(requests[s])] EXCEPT ![r] = "applied"]
  BY <1>1
<1>3. [s \in RequestIds |-> Reach(requests[s])]' =
        [[s \in RequestIds |-> Reach(requests[s])] EXCEPT ![r] = ts]
  BY <1>1
<1>4. QED
  BY <1>1, <1>2, <1>3 DEF Promise!Apply

\* A step that turns one undecided row into a rejected one is the abstract Refuse.
LEMMA RefuseStep ==
    ASSUME TypeOK, NEW r \in RequestIds,
           requests[r].outcome \in {"missing", "pending"},
           requests'[r].outcome = "rejected",
           \A s \in RequestIds \ {r} : requests'[s] = requests[s],
           bodies' = bodies
    PROVE  Promise!Refuse(r)
<1>1. /\ Verdict(requests[r]) = "open" /\ Verdict(requests'[r]) = "refused"
      /\ Reach(requests[r]) = {} /\ Reach(requests'[r]) = {}
  BY DEF Verdict, Reach
<1>2. [s \in RequestIds |-> Verdict(requests[s])]' =
        [[s \in RequestIds |-> Verdict(requests[s])] EXCEPT ![r] = "refused"]
  BY <1>1
<1>3. [s \in RequestIds |-> Reach(requests[s])]' = [s \in RequestIds |-> Reach(requests[s])]
  BY <1>1
<1>4. QED
  BY <1>1, <1>2, <1>3 DEF Promise!Refuse

\* Every behaviour of the store is, request by request and task by task, one of
\* the exactly-once promise.
THEOREM Implements == Spec => ImplementsPromise
<1>1. ASSUME Init PROVE Promise!Init
  <2>1. \A r \in RequestIds : Verdict(requests[r]) = "open" /\ Reach(requests[r]) = {}
    BY <1>1 DEF Init, NoRow, Verdict, Reach
  <2>2. QED
    BY <1>1, <2>1 DEF Init, Promise!Init
<1>2. ASSUME IInv, [Next]_vars
      PROVE  [Promise!Next]_Promise!vars
  <2>0. TypeOK /\ CallsAreBound
    BY <1>2 DEF IInv
  <2>1. ASSUME UNCHANGED <<requests, bodies>>
        PROVE  UNCHANGED Promise!vars
    BY <2>1 DEF Promise!vars
  <2>2. CASE Rejecting
    <3>1. PICK p \in Packet, code \in Rejections : Missing(p.request) /\ Reject(p, code)
      BY <2>2 DEF Rejecting
    <3>2. Promise!Refuse(p.request) /\ p.request \in RequestIds
      BY <2>0, <2>2, <3>1, RefuseStep DEF Rejecting, Missing, Reject, TypeOK, Packet
    <3>3. QED
      BY <3>2 DEF Promise!Next
  <2>3. CASE Committing
    <3>1. PICK p \in Packet : Missing(p.request) /\ p.operation # "clear" /\ Commit(p)
      BY <2>3 DEF Committing
    <3>2. /\ p.request \in RequestIds /\ p.tasks \in SUBSET Tasks
          /\ requests[p.request].outcome = "missing"
          /\ requests'[p.request].outcome = "committed"
          /\ requests'[p.request].packet = p
          /\ \A s \in RequestIds \ {p.request} : requests'[s] = requests[s]
      BY <1>2, <3>1, NewReceipt DEF Packet
    <3>3. Reach(requests'[p.request]) = p.tasks
      BY <3>1, <3>2 DEF Reach
    <3>4. PICK body \in {p.request, None} :
            bodies' = [t \in Tasks |-> IF t \in p.tasks THEN body ELSE bodies[t]]
      <4>1. CASE p.operation = "delete"
        BY <3>1, <4>1 DEF Commit, BodiesAfter
      <4>2. CASE p.operation # "delete"
        BY <3>1, <4>2 DEF Commit, BodiesAfter
      <4>3. QED
        BY <4>1, <4>2
    <3>5. Promise!Apply(p.request, p.tasks, body)
      BY <2>0, <3>2, <3>3, <3>4, ApplyStep
    <3>6. QED
      BY <3>2, <3>5 DEF Promise!Next
  <2>4. ASSUME NEW c \in Callers, Fencing(c)
        PROVE  UNCHANGED Promise!vars
    <3> DEFINE r == calls[c].packet.request
    <3>1. /\ r \in RequestIds /\ requests[r].outcome = "missing"
          /\ requests'[r].outcome = "pending" /\ bodies' = bodies
          /\ \A s \in RequestIds \ {r} : requests'[s] = requests[s]
      BY <2>0, <2>4 DEF Fencing, Missing, NoRow, TypeOK, Packet
    <3>2. \A s \in RequestIds : /\ Verdict(requests'[s]) = Verdict(requests[s])
                                /\ Reach(requests'[s]) = Reach(requests[s])
      BY <3>1 DEF Verdict, Reach
    <3>3. QED
      BY <3>1, <3>2 DEF Promise!vars
  <2>5. ASSUME NEW c \in Callers, RefusePartialClear(c)
        PROVE  Promise!Next
    <3> DEFINE r == calls[c].packet.request
    <3>1. /\ r \in RequestIds /\ requests[r].outcome = "pending"
          /\ requests'[r].outcome = "rejected" /\ bodies' = bodies
          /\ \A s \in RequestIds \ {r} : requests'[s] = requests[s]
      BY <1>2, <2>0, <2>5, ClearHoldsRow
         DEF RefusePartialClear, Reject, TypeOK, ClearPhases
    <3>2. Promise!Refuse(r)
      BY <2>0, <3>1, RefuseStep
    <3>3. QED
      BY <3>1, <3>2 DEF Promise!Next
  <2>6. ASSUME NEW c \in Callers, SettleClear(c)
        PROVE  Promise!Next
    <3> DEFINE p == calls[c].packet
               r == p.request
    <3>1. /\ r \in RequestIds /\ p.operation = "clear"
          /\ requests[r].outcome = "pending"
          /\ requests'[r].outcome = "committed"
          /\ \A s \in RequestIds \ {r} : requests'[s] = requests[s]
      BY <1>2, <2>6, ClearReceipt, ClearHoldsRow DEF SettleClear, ClearPhases
    <3>2. /\ requests'[r].packet = p
          /\ bodies' = [t \in Tasks |-> IF t \in Tasks THEN None ELSE bodies[t]]
      BY <2>0, <2>6, <3>1 DEF SettleClear, CommitReceipt, TypeOK
    <3>3. Reach(requests'[r]) = Tasks
      BY <3>1, <3>2 DEF Reach
    <3>4. Promise!Apply(r, Tasks, None)
      BY <2>0, <3>1, <3>2, <3>3, ApplyStep
    <3>5. QED
      BY <3>1, <3>4 DEF Promise!Next
  <2>7. ASSUME NEW t \in Tasks, ProjectJournal(t)
        PROVE  Promise!Next
    <3>1. bodies[t] # None
      BY <1>2, <2>7 DEF IInv, BodiesMatchHeads, ProjectJournal, CanAdvance
    <3>2. Promise!Publish(t)
      BY <2>7, <3>1 DEF ProjectJournal, Promise!Publish
    <3>3. QED
      BY <3>2 DEF Promise!Next
  <2>8. QED
    BY <1>2, <2>0, <2>1, <2>2, <2>3, <2>4, <2>5, <2>6, <2>7, StepCases
       DEF Quiet, RunExternalStage, StartOnCopy
<1>3. QED
  BY <1>1, <1>2, Invariance, PTL DEF Spec, ImplementsPromise, Promise!Spec

=============================================================================
