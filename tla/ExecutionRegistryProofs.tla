------------------------ MODULE ExecutionRegistryProofs ------------------------
(***************************************************************************)
(* Proofs about ExecutionRegistry, for any tasks, callers, streams, number *)
(* of runs and number of failing system calls.                             *)
(*                                                                         *)
(* The inductive invariant relates the slot, the worker, the process tree, *)
(* the holder of each run's mutex and the cleanups in progress.  It is     *)
(* needed because no property is inductive by itself: that a run without   *)
(* the slot is gone rests on `a started run keeps the slot until it is     *)
(* finished', which rests on what a cleanup saw before it said so.         *)
(***************************************************************************)
EXTENDS ExecutionRegistry, TLAPS

-----------------------------------------------------------------------------
(* Types of the updates *)

\* A flag of a run that is set leaves a run.
LEMMA RunUpdates ==
    ASSUME NEW f \in [RunIds -> Run], NEW r \in RunIds
    PROVE  /\ [f EXCEPT ![r].expired = TRUE] \in [RunIds -> Run]
           /\ [f EXCEPT ![r].cancelled = TRUE] \in [RunIds -> Run]
           /\ [f EXCEPT ![r].claimed = TRUE] \in [RunIds -> Run]
BY DEF Run

\* The updates the actions make to a run's state leave a state.
LEMMA StateUpdates ==
    ASSUME NEW f \in [RunIds -> RunState], NEW r \in RunIds
    PROVE  /\ [f EXCEPT ![r].phase = "Cleaning"] \in [RunIds -> RunState]
           /\ [f EXCEPT ![r].phase = "CleanupFailed"] \in [RunIds -> RunState]
           /\ [f EXCEPT ![r].phase = "Finished"] \in [RunIds -> RunState]
           /\ [f EXCEPT ![r].phase = "Preparing", ![r].workerActive = TRUE] \in [RunIds -> RunState]
           /\ [f EXCEPT ![r].workerActive = FALSE] \in [RunIds -> RunState]
           /\ [f EXCEPT ![r].process = TRUE] \in [RunIds -> RunState]
BY DEF RunState

\* The updates the actions make to a process tree leave a tree.
LEMMA TreeUpdates ==
    ASSUME NEW f \in [RunIds -> Tree], NEW r \in RunIds
    PROVE  /\ [f EXCEPT ![r].child = "zombie"] \in [RunIds -> Tree]
           /\ [f EXCEPT ![r].child = "reaped"] \in [RunIds -> Tree]
           /\ [f EXCEPT ![r].anchor = "zombie"] \in [RunIds -> Tree]
           /\ [f EXCEPT ![r].descendants = FALSE] \in [RunIds -> Tree]
           /\ [f EXCEPT ![r].terminationIssued = TRUE] \in [RunIds -> Tree]
           /\ \A p \in Process :
                  [f EXCEPT ![r].anchor = p, ![r].cleaned = TRUE] \in [RunIds -> Tree]
           /\ [f EXCEPT ![r] = Spawned] \in [RunIds -> Tree]
           /\ [f EXCEPT ![r] = AnchorOnly] \in [RunIds -> Tree]
BY DEF Tree, Process, Spawned, AnchorOnly, NoTree

Cleanups == [Cleaners -> [step : CleanupSteps, run : RunIds \cup {None}, late : BOOLEAN]]

\* A cleanup that advances, or is late, is still a cleanup.
LEMMA CleanupUpdates ==
    ASSUME NEW f \in Cleanups, NEW c \in Cleaners
    PROVE  /\ \A s \in CleanupSteps : [f EXCEPT ![c].step = s] \in Cleanups
           /\ [f EXCEPT ![c].late = TRUE] \in Cleanups
BY DEF Cleanups

\* Joining the finished readers leaves readers.
LEMMA ReaderUpdates ==
    ASSUME reader \in [RunIds -> [Streams -> {"none", "running", "finished", "joined"}]],
           NEW r \in RunIds, JoinFinished(r)
    PROVE  reader' \in [RunIds -> [Streams -> {"none", "running", "finished", "joined"}]]
BY DEF JoinFinished

\* A cleanup in progress is of a run that was reserved.
LEMMA RunOfCleanup ==
    ASSUME IInv, NEW c \in Cleaners, cleanup[c].step # "idle"
    PROVE  cleanup[c].run \in RunIds
<1>1. cleanup[c].run \in 1..(nextId - 1) BY DEF IInv, CleanupsMatch
<1>2. nextId \in 1..(MaxRuns + 1) BY DEF IInv, TypeOK
<1> QED BY <1>1, <1>2, RegistryAssumption DEF RunIds

-----------------------------------------------------------------------------
(* Each action keeps the invariant *)

\* A new run is empty, and no earlier run needs the slot it takes.
LEMMA ReserveKeeps == ASSUME IInv, NEW t \in Tasks, Reserve(t) PROVE IInv'
<1>1. TypeOK'
  <2>1. active' \in RunIds \cup {None}
        BY RegistryAssumption DEF IInv, TypeOK, Reserve, AfterExpiry, GateIsOpen, Open,
            RunIds
  <2>2. nextId' \in 1..(MaxRuns + 1)
        BY RegistryAssumption DEF IInv, TypeOK, Reserve, AfterExpiry, GateIsOpen, Open,
            RunIds
  <2>3. owner' \in [RunIds -> Run]
        BY RegistryAssumption DEF IInv, TypeOK, Reserve, AfterExpiry, GateIsOpen, Open,
            RunIds, Run, NoRun
  <2> QED
        BY <2>1, <2>2, <2>3 DEF IInv, TypeOK, Reserve, Open
<1>2. TreesMatch' /\ HoldersMatch' /\ FinishedIsQuiet'
      BY DEF IInv, Reserve, TreesMatch, HoldersMatch, FinishedIsQuiet, MustStop
<1>3. WorkersMatch'
      BY SMTT(30) DEF IInv, WorkersMatch, Reserve, TypeOK, SlotMatches, NoRun
<1>4. CleanupsMatch'
      BY DEF IInv, CleanupsMatch, MustStop, Reserve, TypeOK
<1>5. SlotMatches'
      BY RegistryAssumption DEF IInv, SlotMatches, Reserve, AfterExpiry, GateIsOpen, Open,
          TypeOK, RunIds, Cleaners
<1>6. GateMatches'
      BY DEF IInv, GateMatches, Reserve, AfterExpiry, GateIsOpen, Open
<1> QED
      BY <1>1, <1>2, <1>3, <1>4, <1>5, <1>6 DEF IInv

\* The slot loses an expired reservation at most, and its run is of another task.
LEMMA BeginDeleteKeeps == ASSUME IInv, NEW t \in Tasks, BeginDelete(t) PROVE IInv'
<1>1. TypeOK'
      BY RegistryAssumption DEF IInv, TypeOK, BeginDelete, AfterExpiry, GateIsOpen, Open
<1>2. WorkersMatch' /\ TreesMatch' /\ HoldersMatch' /\ FinishedIsQuiet'
      BY DEF IInv, BeginDelete, WorkersMatch, TreesMatch, HoldersMatch, FinishedIsQuiet,
          MustStop
<1>3. CleanupsMatch'
      BY RegistryAssumption DEF IInv, CleanupsMatch, MustStop, BeginDelete, AfterExpiry,
          TypeOK, RunIds, Cleaners
<1>4. SlotMatches'
      BY DEF IInv, SlotMatches, BeginDelete, AfterExpiry, GateIsOpen, Open
<1>5. GateMatches'
      BY DEF IInv, GateMatches, BeginDelete, AfterExpiry, GateIsOpen, Open
<1> QED
      BY <1>1, <1>2, <1>3, <1>4, <1>5 DEF IInv

\* An expired reservation was never started.
LEMMA DropExpiredKeeps == ASSUME IInv, DropExpired PROVE IInv'
<1>1. TypeOK'
      BY RegistryAssumption DEF IInv, TypeOK, DropExpired, AfterExpiry, GateIsOpen, Open
<1>2. WorkersMatch' /\ TreesMatch' /\ HoldersMatch' /\ FinishedIsQuiet'
      BY DEF IInv, DropExpired, WorkersMatch, TreesMatch, HoldersMatch, FinishedIsQuiet,
          MustStop
<1>3. CleanupsMatch'
      BY RegistryAssumption DEF IInv, CleanupsMatch, MustStop, DropExpired, AfterExpiry,
          TypeOK, RunIds, Cleaners
<1>4. SlotMatches'
      BY DEF IInv, SlotMatches, DropExpired, AfterExpiry, GateIsOpen, Open
<1>5. GateMatches'
      BY DEF IInv, GateMatches, DropExpired, AfterExpiry, GateIsOpen, Open
<1> QED
      BY <1>1, <1>2, <1>3, <1>4, <1>5 DEF IInv

\* The slot loses an expired reservation at most, and is then empty.
LEMMA BeginClearKeeps == ASSUME IInv, BeginClear PROVE IInv'
<1>1. TypeOK'
      BY RegistryAssumption DEF IInv, TypeOK, BeginClear, AfterExpiry, GateIsOpen, Open
<1>2. WorkersMatch' /\ TreesMatch' /\ HoldersMatch' /\ FinishedIsQuiet'
      BY DEF IInv, BeginClear, WorkersMatch, TreesMatch, HoldersMatch, FinishedIsQuiet,
          MustStop
<1>3. CleanupsMatch'
      BY RegistryAssumption DEF IInv, CleanupsMatch, MustStop, BeginClear, TypeOK, RunIds,
          Cleaners
<1>4. SlotMatches'
      BY DEF IInv, SlotMatches, BeginClear, AfterExpiry, GateIsOpen, Open
<1>5. GateMatches'
      BY DEF IInv, GateMatches, BeginClear, AfterExpiry, GateIsOpen, Open
<1> QED
      BY <1>1, <1>2, <1>3, <1>4, <1>5 DEF IInv

\* A removal that ends only opens the gate.
LEMMA EndRemovalKeeps == ASSUME IInv, EndRemoval PROVE IInv'
<1>1. TypeOK'
      BY RegistryAssumption DEF IInv, TypeOK, EndRemoval, Open
<1>2. WorkersMatch' /\ TreesMatch' /\ HoldersMatch' /\ CleanupsMatch' /\ FinishedIsQuiet' /\ SlotMatches'
      BY DEF IInv, EndRemoval, WorkersMatch, TreesMatch, HoldersMatch, CleanupsMatch,
          FinishedIsQuiet, SlotMatches, MustStop
<1>3. GateMatches'
      BY DEF IInv, GateMatches, EndRemoval, Open
<1> QED
      BY <1>1, <1>2, <1>3 DEF IInv

\* A lease that ends changes nothing that lives.
LEMMA LeaseEndsKeeps == ASSUME IInv, NEW r \in RunIds, LeaseEnds(r) PROVE IInv'
<1>1. TypeOK'
      BY RunUpdates, RegistryAssumption DEF IInv, TypeOK, LeaseEnds
<1>2. TreesMatch' /\ HoldersMatch' /\ CleanupsMatch' /\ FinishedIsQuiet'
      BY DEF IInv, LeaseEnds, TreesMatch, HoldersMatch, CleanupsMatch, FinishedIsQuiet,
          MustStop
<1>3. WorkersMatch'
      BY DEF IInv, WorkersMatch, NoTree, LeaseEnds
<1>4. SlotMatches'
      BY DEF IInv, SlotMatches, LeaseEnds
<1>5. GateMatches'
      BY DEF IInv, GateMatches, LeaseEnds
<1> QED
      BY <1>1, <1>2, <1>3, <1>4, <1>5 DEF IInv

\* A start holds the gate of a run that owns the slot.
LEMMA BeginStartKeeps == ASSUME IInv, NEW r \in RunIds, BeginStart(r) PROVE IInv'
<1>1. TypeOK'
      BY RegistryAssumption DEF IInv, TypeOK, BeginStart, AfterExpiry, GateIsOpen, Open,
          RunIds
<1>2. WorkersMatch' /\ TreesMatch' /\ HoldersMatch' /\ CleanupsMatch' /\ FinishedIsQuiet' /\ SlotMatches'
      BY DEF IInv, BeginStart, WorkersMatch, TreesMatch, HoldersMatch, CleanupsMatch,
          FinishedIsQuiet, SlotMatches, MustStop
<1>3. GateMatches'
      BY RegistryAssumption DEF IInv, GateMatches, BeginStart, AfterExpiry, GateIsOpen,
          Open, TypeOK, RunIds, Cleaners
<1> QED
      BY <1>1, <1>2, <1>3 DEF IInv

\* A claimed run was empty and owns the slot.
LEMMA ClaimKeeps == ASSUME IInv, NEW r \in RunIds, Claim(r) PROVE IInv'
<1>1. TypeOK'
      BY StateUpdates, RunUpdates, RegistryAssumption DEF IInv, TypeOK, Claim, Open,
          WorkerSteps
<1>2. WorkersMatch'
      BY RegistryAssumption DEF IInv, WorkersMatch, NoTree, Claim, Startable, Open,
          TypeOK, RunIds, Cleaners
<1>3. TreesMatch'
      BY DEF IInv, TreesMatch, Claim, Startable, TypeOK, WorkersMatch
<1>4. HoldersMatch'
      BY RegistryAssumption DEF IInv, HoldersMatch, Claim, Startable, Open, TypeOK,
          RunIds, Cleaners
<1>5. CleanupsMatch'
      BY RegistryAssumption DEF IInv, CleanupsMatch, MustStop, Claim, Startable, TypeOK,
          RunIds, Cleaners, WorkersMatch
<1>6. FinishedIsQuiet'
      BY RegistryAssumption DEF IInv, FinishedIsQuiet, MustStop, Claim, Startable, Open,
          TypeOK, RunIds, Cleaners
<1>7. SlotMatches'
      BY SMTT(30) DEF IInv, SlotMatches, Claim, TypeOK, GateMatches
<1>8. GateMatches'
      BY DEF IInv, GateMatches, Claim, Startable, Open
<1> QED
      BY <1>1, <1>2, <1>3, <1>4, <1>5, <1>6, <1>7, <1>8 DEF IInv

\* A refused start only opens the gate.
LEMMA RefuseStartKeeps == ASSUME IInv, NEW r \in RunIds, RefuseStart(r) PROVE IInv'
<1>1. TypeOK'
      BY RegistryAssumption DEF IInv, TypeOK, RefuseStart, Startable, Open
<1>2. WorkersMatch' /\ TreesMatch' /\ HoldersMatch' /\ CleanupsMatch' /\ FinishedIsQuiet' /\ SlotMatches'
      BY DEF IInv, RefuseStart, WorkersMatch, TreesMatch, HoldersMatch, CleanupsMatch,
          FinishedIsQuiet, SlotMatches, MustStop
<1>3. GateMatches'
      BY DEF IInv, GateMatches, RefuseStart, Startable, Open
<1> QED
      BY <1>1, <1>2, <1>3 DEF IInv

\* A cancellation marks a run that no start is about to claim.
LEMMA CancelKeeps ==
    ASSUME IInv, NEW c \in Stoppers, NEW r \in RunIds, Cancel(c, r)
    PROVE  IInv'
<1>1. TypeOK'
      BY RunUpdates, RegistryAssumption DEF IInv, TypeOK, Cancel, NoCleanup, CleanupSteps,
          Cleaners, Cleanups
<1>2. TreesMatch' /\ FinishedIsQuiet'
      BY DEF IInv, Cancel, TreesMatch, FinishedIsQuiet, MustStop
<1>3. WorkersMatch'
      BY DEF IInv, WorkersMatch, NoTree, Cancel, AfterExpiry, GateIsOpen, Open, NoCleanup
<1>4. HoldersMatch'
      BY DEF IInv, HoldersMatch, Cancel, AfterExpiry, GateIsOpen, Open, NoCleanup
<1>5. CleanupsMatch'
      BY RegistryAssumption, SMTT(30) DEF IInv, CleanupsMatch, MustStop, Cancel,
          AfterExpiry, Cleaners, SlotMatches
<1>6. SlotMatches'
      BY DEF IInv, SlotMatches, Cancel, AfterExpiry, GateIsOpen, Open, NoCleanup
<1>7. GateMatches'
      BY DEF IInv, GateMatches, Cancel, AfterExpiry, GateIsOpen, Open, NoCleanup
<1> QED
      BY <1>1, <1>2, <1>3, <1>4, <1>5, <1>6, <1>7 DEF IInv

\* A spawned tree is in the hands of its worker.
LEMMA SpawnKeeps == ASSUME IInv, NEW r \in RunIds, Spawn(r) PROVE IInv'
<1>1. TypeOK'
      BY TreeUpdates, RegistryAssumption DEF IInv, TypeOK, Spawn, WorkerSteps
<1>2. HoldersMatch' /\ SlotMatches' /\ GateMatches'
      BY DEF IInv, Spawn, HoldersMatch, SlotMatches, GateMatches
<1>3. WorkersMatch'
      BY RegistryAssumption DEF IInv, WorkersMatch, NoTree, Spawn, Spawned, TypeOK,
          RunIds, Cleaners
<1>4. TreesMatch'
      BY RegistryAssumption DEF IInv, TreesMatch, Spawn, Spawned, NoTree, TypeOK, RunIds,
          Cleaners
<1>5. CleanupsMatch'
      BY DEF IInv, CleanupsMatch, MustStop, Spawn, WorkersMatch
<1>6. FinishedIsQuiet'
      BY DEF IInv, FinishedIsQuiet, MustStop, Spawn, WorkersMatch
<1> QED
      BY <1>1, <1>2, <1>3, <1>4, <1>5, <1>6 DEF IInv

\* Without an anchor there is no tree.
LEMMA AnchorSpawnFailsKeeps ==
    ASSUME IInv, NEW r \in RunIds, AnchorSpawnFails(r)
    PROVE  IInv'
<1>1. TypeOK'
      BY RegistryAssumption DEF IInv, TypeOK, AnchorSpawnFails, WorkerSteps
<1>2. HoldersMatch' /\ FinishedIsQuiet' /\ SlotMatches' /\ GateMatches'
      BY DEF IInv, AnchorSpawnFails, HoldersMatch, FinishedIsQuiet, SlotMatches,
          GateMatches, MustStop
<1>3. WorkersMatch'
      BY DEF IInv, WorkersMatch, NoTree, AnchorSpawnFails
<1>4. TreesMatch'
      BY DEF IInv, TreesMatch, AnchorSpawnFails
<1>5. CleanupsMatch'
      BY DEF IInv, CleanupsMatch, MustStop, AnchorSpawnFails
<1> QED
      BY <1>1, <1>2, <1>3, <1>4, <1>5 DEF IInv

\* The anchor that is left over is in the hands of the worker.
LEMMA ChildSpawnFailsKeeps ==
    ASSUME IInv, NEW r \in RunIds, ChildSpawnFails(r)
    PROVE  IInv'
<1>1. TypeOK'
  <2>1. tree' \in [RunIds -> Tree]
        BY TreeUpdates DEF IInv, TypeOK, ChildSpawnFails
  <2>2. worker' \in [RunIds -> WorkerSteps]
        BY RegistryAssumption DEF IInv, TypeOK, ChildSpawnFails, AnchorOnly, NoTree,
            WorkerSteps
  <2>3. faults' \in 0..MaxFaults
        BY RegistryAssumption DEF IInv, TypeOK, ChildSpawnFails, AnchorOnly, NoTree
  <2> QED
        BY <2>1, <2>2, <2>3 DEF IInv, TypeOK, ChildSpawnFails
<1>2. HoldersMatch' /\ SlotMatches' /\ GateMatches'
      BY DEF IInv, ChildSpawnFails, HoldersMatch, SlotMatches, GateMatches
<1>3. WorkersMatch'
      BY RegistryAssumption DEF IInv, WorkersMatch, NoTree, ChildSpawnFails, AnchorOnly,
          TypeOK, RunIds, Cleaners
<1>4. TreesMatch'
      BY RegistryAssumption DEF IInv, TreesMatch, ChildSpawnFails, AnchorOnly, NoTree,
          TypeOK, RunIds, Cleaners
<1>5. CleanupsMatch'
      BY DEF IInv, CleanupsMatch, MustStop, ChildSpawnFails, WorkersMatch
<1>6. FinishedIsQuiet'
      BY DEF IInv, FinishedIsQuiet, MustStop, ChildSpawnFails, WorkersMatch
<1> QED
      BY <1>1, <1>2, <1>3, <1>4, <1>5, <1>6 DEF IInv

\* The tree changes hands, and no cleanup is looking.
LEMMA AttachKeeps == ASSUME IInv, NEW r \in RunIds, Attach(r) PROVE IInv'
<1>1. TypeOK'
      BY StateUpdates, RegistryAssumption DEF IInv, TypeOK, Attach, WorkerSteps
<1>2. GateMatches'
      BY DEF IInv, Attach, GateMatches
<1>3. WorkersMatch'
      BY DEF IInv, WorkersMatch, NoTree, Attach
<1>4. TreesMatch'
      BY RegistryAssumption DEF IInv, TreesMatch, Attach, TypeOK, RunIds, Cleaners
<1>5. HoldersMatch'
      BY DEF IInv, HoldersMatch, Attach
<1>6. CleanupsMatch'
      BY RegistryAssumption DEF IInv, CleanupsMatch, MustStop, Attach, TypeOK, RunIds,
          Cleaners, WorkersMatch, HoldersMatch
<1>7. FinishedIsQuiet'
      BY DEF IInv, FinishedIsQuiet, MustStop, Attach, Cleaners, WorkersMatch, HoldersMatch
<1>8. SlotMatches'
      BY DEF IInv, SlotMatches, Attach
<1> QED
      BY <1>1, <1>2, <1>3, <1>4, <1>5, <1>6, <1>7, <1>8 DEF IInv

\* A reader is registered by a worker that is active.
LEMMA RegisterKeeps ==
    ASSUME IInv, NEW r \in RunIds, NEW s \in Streams, Register(r, s)
    PROVE  IInv'
<1>1. TypeOK'
      BY RegistryAssumption DEF IInv, TypeOK, Register
<1>2. TreesMatch' /\ HoldersMatch' /\ CleanupsMatch' /\ SlotMatches' /\ GateMatches'
      BY DEF IInv, Register, TreesMatch, HoldersMatch, CleanupsMatch, SlotMatches,
          GateMatches, MustStop
<1>3. WorkersMatch'
      BY DEF IInv, WorkersMatch, NoTree, Register
<1>4. FinishedIsQuiet'
      BY DEF IInv, FinishedIsQuiet, MustStop, Register, RunIds, Cleaners, WorkersMatch,
          CleanupsMatch
<1> QED
      BY <1>1, <1>2, <1>3, <1>4 DEF IInv

\* A worker that writes holds no mutex.
LEMMA StartWritingKeeps == ASSUME IInv, NEW r \in RunIds, StartWriting(r) PROVE IInv'
<1>1. TypeOK'
      BY RegistryAssumption DEF IInv, TypeOK, StartWriting, WorkerSteps
<1>2. HoldersMatch' /\ FinishedIsQuiet' /\ SlotMatches' /\ GateMatches'
      BY DEF IInv, StartWriting, HoldersMatch, FinishedIsQuiet, SlotMatches, GateMatches,
          MustStop
<1>3. WorkersMatch'
      BY DEF IInv, WorkersMatch, NoTree, StartWriting
<1>4. TreesMatch'
      BY DEF IInv, TreesMatch, StartWriting
<1>5. CleanupsMatch'
      BY DEF IInv, CleanupsMatch, MustStop, StartWriting
<1> QED
      BY <1>1, <1>2, <1>3, <1>4, <1>5 DEF IInv

\* A worker that wrote its input is still active.
LEMMA WriteInputKeeps == ASSUME IInv, NEW r \in RunIds, WriteInput(r) PROVE IInv'
<1>1. TypeOK'
      BY RegistryAssumption DEF IInv, TypeOK, WriteInput, WorkerSteps
<1>2. HoldersMatch' /\ FinishedIsQuiet' /\ SlotMatches' /\ GateMatches'
      BY DEF IInv, WriteInput, HoldersMatch, FinishedIsQuiet, SlotMatches, GateMatches,
          MustStop
<1>3. WorkersMatch'
      BY DEF IInv, WorkersMatch, NoTree, WriteInput
<1>4. TreesMatch'
      BY DEF IInv, TreesMatch, WriteInput
<1>5. CleanupsMatch'
      BY DEF IInv, CleanupsMatch, MustStop, WriteInput
<1> QED
      BY <1>1, <1>2, <1>3, <1>4, <1>5 DEF IInv

\* A worker whose write failed is still active.
LEMMA WriteFailsKeeps == ASSUME IInv, NEW r \in RunIds, WriteFails(r) PROVE IInv'
<1>1. TypeOK'
      BY RegistryAssumption DEF IInv, TypeOK, WriteFails, WorkerSteps
<1>2. HoldersMatch' /\ FinishedIsQuiet' /\ SlotMatches' /\ GateMatches'
      BY DEF IInv, WriteFails, HoldersMatch, FinishedIsQuiet, SlotMatches, GateMatches,
          MustStop
<1>3. WorkersMatch'
      BY DEF IInv, WorkersMatch, NoTree, WriteFails
<1>4. TreesMatch'
      BY DEF IInv, TreesMatch, WriteFails
<1>5. CleanupsMatch'
      BY DEF IInv, CleanupsMatch, MustStop, WriteFails
<1> QED
      BY <1>1, <1>2, <1>3, <1>4, <1>5 DEF IInv

\* The worker may reap the child before anyone signals the group; the anchor is left.
LEMMA ObserveExitKeeps == ASSUME IInv, NEW r \in RunIds, ObserveExit(r) PROVE IInv'
<1>1. TypeOK'
      BY TreeUpdates, RegistryAssumption DEF IInv, TypeOK, ObserveExit, WorkerSteps
<1>2. HoldersMatch' /\ SlotMatches' /\ GateMatches'
      BY DEF IInv, ObserveExit, HoldersMatch, SlotMatches, GateMatches
<1>3. WorkersMatch'
      BY DEF IInv, WorkersMatch, NoTree, ObserveExit
<1>4. TreesMatch'
      BY DEF IInv, TreesMatch, ObserveExit
<1>5. CleanupsMatch'
      BY DEF IInv, CleanupsMatch, MustStop, ObserveExit
<1>6. FinishedIsQuiet'
      BY DEF IInv, FinishedIsQuiet, MustStop, ObserveExit
<1> QED
      BY <1>1, <1>2, <1>3, <1>4, <1>5, <1>6 DEF IInv

\* A worker that gives up is still active.
LEMMA GiveUpKeeps == ASSUME IInv, NEW r \in RunIds, GiveUp(r) PROVE IInv'
<1>1. TypeOK'
      BY RegistryAssumption DEF IInv, TypeOK, GiveUp, WorkerSteps
<1>2. HoldersMatch' /\ FinishedIsQuiet' /\ SlotMatches' /\ GateMatches'
      BY DEF IInv, GiveUp, HoldersMatch, FinishedIsQuiet, SlotMatches, GateMatches,
          MustStop
<1>3. WorkersMatch'
      BY DEF IInv, WorkersMatch, NoTree, GiveUp
<1>4. TreesMatch'
      BY DEF IInv, TreesMatch, GiveUp
<1>5. CleanupsMatch'
      BY DEF IInv, CleanupsMatch, MustStop, GiveUp
<1> QED
      BY <1>1, <1>2, <1>3, <1>4, <1>5 DEF IInv

\* The worker retires and its own cleanup starts.
LEMMA RetireKeeps == ASSUME IInv, NEW r \in RunIds, Retire(r) PROVE IInv'
<1>1. TypeOK'
      BY StateUpdates, RegistryAssumption DEF IInv, TypeOK, Retire, NoCleanup,
          CleanupSteps, Cleaners, WorkerSteps, Cleanups
<1>2. GateMatches'
      BY DEF IInv, Retire, GateMatches
<1>3. WorkersMatch'
      BY RegistryAssumption DEF IInv, WorkersMatch, NoTree, Retire, NoCleanup, TypeOK,
          RunIds, Cleaners
<1>4. TreesMatch'
      BY DEF IInv, TreesMatch, Retire, NoCleanup
<1>5. HoldersMatch'
      BY RegistryAssumption DEF IInv, HoldersMatch, Retire, NoCleanup, TypeOK, RunIds,
          Cleaners, WorkersMatch, CleanupsMatch
<1>6. CleanupsMatch'
      BY SMTT(30) DEF IInv, CleanupsMatch, MustStop, Retire, TypeOK, RunIds, Cleaners,
          WorkersMatch, SlotMatches, NoTree
<1>7. FinishedIsQuiet'
      BY DEF IInv, FinishedIsQuiet, MustStop, Retire, NoCleanup
<1>8. SlotMatches'
      BY DEF IInv, SlotMatches, Retire, NoCleanup
<1> QED
      BY <1>1, <1>2, <1>3, <1>4, <1>5, <1>6, <1>7, <1>8 DEF IInv

\* A child that exits is there to be reaped.
LEMMA ChildExitsKeeps == ASSUME IInv, NEW r \in RunIds, ChildExits(r) PROVE IInv'
<1>1. TypeOK'
      BY TreeUpdates, RegistryAssumption DEF IInv, TypeOK, ChildExits
<1>b. worker[r] \notin {"none", "started"}
      BY DEF IInv, WorkersMatch, ChildExits, NoTree
<1>2. HoldersMatch' /\ SlotMatches' /\ GateMatches'
      BY DEF IInv, ChildExits, HoldersMatch, SlotMatches, GateMatches
<1>3. WorkersMatch'
      BY <1>b DEF IInv, WorkersMatch, ChildExits
<1>4. TreesMatch'
      BY <1>b DEF IInv, TreesMatch, ChildExits
<1>5. CleanupsMatch'
      BY <1>b DEF IInv, CleanupsMatch, MustStop, ChildExits
<1>6. FinishedIsQuiet'
      BY <1>b DEF IInv, FinishedIsQuiet, MustStop, ChildExits
<1> QED
      BY <1>1, <1>2, <1>3, <1>4, <1>5, <1>6 DEF IInv

\* Descendants do not matter to the invariant.
LEMMA DescendantsExitKeeps ==
    ASSUME IInv, NEW r \in RunIds, DescendantsExit(r)
    PROVE  IInv'
<1>1. TypeOK'
      BY TreeUpdates, RegistryAssumption DEF IInv, TypeOK, DescendantsExit
<1>b. worker[r] \notin {"none", "started"}
      BY DEF IInv, WorkersMatch, DescendantsExit, NoTree
<1>2. HoldersMatch' /\ SlotMatches' /\ GateMatches'
      BY DEF IInv, DescendantsExit, HoldersMatch, SlotMatches, GateMatches
<1>3. WorkersMatch'
      BY <1>b DEF IInv, WorkersMatch, DescendantsExit
<1>4. TreesMatch'
      BY <1>b DEF IInv, TreesMatch, DescendantsExit
<1>5. CleanupsMatch'
      BY <1>b DEF IInv, CleanupsMatch, MustStop, DescendantsExit
<1>6. FinishedIsQuiet'
      BY <1>b DEF IInv, FinishedIsQuiet, MustStop, DescendantsExit
<1> QED
      BY <1>1, <1>2, <1>3, <1>4, <1>5, <1>6 DEF IInv

\* An anchor that exits is there to be reaped.
LEMMA AnchorExitsKeeps == ASSUME IInv, NEW r \in RunIds, AnchorExits(r) PROVE IInv'
<1>1. TypeOK'
      BY TreeUpdates, RegistryAssumption DEF IInv, TypeOK, AnchorExits
<1>b. worker[r] \notin {"none", "started"}
      BY DEF IInv, WorkersMatch, AnchorExits, NoTree
<1>2. HoldersMatch' /\ SlotMatches' /\ GateMatches'
      BY DEF IInv, AnchorExits, HoldersMatch, SlotMatches, GateMatches
<1>3. WorkersMatch'
      BY <1>b DEF IInv, WorkersMatch, AnchorExits
<1>4. TreesMatch'
      BY <1>b DEF IInv, TreesMatch, AnchorExits
<1>5. CleanupsMatch'
      BY <1>b DEF IInv, CleanupsMatch, MustStop, AnchorExits
<1>6. FinishedIsQuiet'
      BY <1>b DEF IInv, FinishedIsQuiet, MustStop, AnchorExits
<1> QED
      BY <1>1, <1>2, <1>3, <1>4, <1>5, <1>6 DEF IInv

\* A reader that ended is there to be joined.
LEMMA ReaderEndsKeeps ==
    ASSUME IInv, NEW r \in RunIds, NEW s \in Streams, ReaderEnds(r, s)
    PROVE  IInv'
<1>1. TypeOK'
      BY RegistryAssumption DEF IInv, TypeOK, ReaderEnds
<1>2. TreesMatch' /\ HoldersMatch' /\ CleanupsMatch' /\ SlotMatches' /\ GateMatches'
      BY DEF IInv, ReaderEnds, TreesMatch, HoldersMatch, CleanupsMatch, SlotMatches,
          GateMatches, MustStop
<1>3. WorkersMatch'
      BY DEF IInv, WorkersMatch, NoTree, ReaderEnds
<1>4. FinishedIsQuiet'
      BY DEF IInv, FinishedIsQuiet, MustStop, ReaderEnds
<1> QED
      BY <1>1, <1>2, <1>3, <1>4 DEF IInv

\* A cleanup that begins holds nothing yet.
LEMMA BeginCleanupKeeps == ASSUME IInv, NEW c \in Cleaners, BeginCleanup(c) PROVE IInv'
<1>c. cleanup[c].run \in RunIds
      BY RunOfCleanup DEF BeginCleanup
<1>1. TypeOK'
      BY <1>c, CleanupUpdates, RegistryAssumption DEF IInv, TypeOK, BeginCleanup, Advance,
          Cleanups, CleanupSteps
<1>2. WorkersMatch' /\ TreesMatch' /\ FinishedIsQuiet' /\ SlotMatches' /\ GateMatches'
      BY DEF IInv, BeginCleanup, Advance, WorkersMatch, TreesMatch, FinishedIsQuiet,
          SlotMatches, GateMatches, MustStop
<1>3. HoldersMatch'
      BY <1>c DEF IInv, HoldersMatch, BeginCleanup, Advance
<1>4. CleanupsMatch'
      BY <1>c DEF IInv, CleanupsMatch, MustStop, BeginCleanup, Advance
<1> QED
      BY <1>1, <1>2, <1>3, <1>4 DEF IInv

\* A cleanup that never got the mutex changes nothing.
LEMMA GiveUpTryingKeeps == ASSUME IInv, NEW c \in Cleaners, GiveUpTrying(c) PROVE IInv'
<1>c. cleanup[c].run \in RunIds
      BY RunOfCleanup DEF GiveUpTrying
<1>1. TypeOK'
      BY <1>c, CleanupUpdates, RegistryAssumption DEF IInv, TypeOK, GiveUpTrying, Advance,
          Cleanups, CleanupSteps
<1>2. WorkersMatch' /\ TreesMatch' /\ FinishedIsQuiet' /\ SlotMatches' /\ GateMatches'
      BY DEF IInv, GiveUpTrying, Advance, WorkersMatch, TreesMatch, FinishedIsQuiet,
          SlotMatches, GateMatches, MustStop
<1>3. HoldersMatch'
      BY <1>c DEF IInv, HoldersMatch, GiveUpTrying, Advance
<1>4. CleanupsMatch'
      BY <1>c DEF IInv, CleanupsMatch, MustStop, GiveUpTrying, Advance
<1> QED
      BY <1>1, <1>2, <1>3, <1>4 DEF IInv

\* A cleanup that finds the run finished only has to release it.
LEMMA FindFinishedKeeps == ASSUME IInv, NEW c \in Cleaners, FindFinished(c) PROVE IInv'
<1>c. cleanup[c].run \in RunIds
      BY RunOfCleanup DEF FindFinished
<1>1. TypeOK'
      BY <1>c, CleanupUpdates, RegistryAssumption DEF IInv, TypeOK, FindFinished, Advance,
          Cleanups, CleanupSteps
<1>2. WorkersMatch' /\ TreesMatch' /\ FinishedIsQuiet' /\ SlotMatches' /\ GateMatches'
      BY DEF IInv, FindFinished, Advance, WorkersMatch, TreesMatch, FinishedIsQuiet,
          SlotMatches, GateMatches, MustStop
<1>3. HoldersMatch'
      BY <1>c DEF IInv, HoldersMatch, FindFinished, Advance
<1>4. CleanupsMatch'
      BY <1>c DEF IInv, CleanupsMatch, MustStop, FindFinished, Advance
<1> QED
      BY <1>1, <1>2, <1>3, <1>4 DEF IInv

\* A cleanup takes a mutex nobody holds, of a run that is not finished.
LEMMA TakeStateKeeps == ASSUME IInv, NEW c \in Cleaners, TakeState(c) PROVE IInv'
<1>c. cleanup[c].run \in RunIds
      BY RunOfCleanup DEF TakeState
<1>1. TypeOK'
      BY <1>c, StateUpdates, CleanupUpdates, RegistryAssumption DEF IInv, TypeOK,
          TakeState, Advance, Phase, Cleaners, Cleanups, CleanupSteps
<1>2. GateMatches'
      BY DEF IInv, TakeState, Advance, Phase, GateMatches
<1>3. WorkersMatch'
      BY <1>c DEF IInv, WorkersMatch, NoTree, TakeState, Advance, Phase
<1>4. TreesMatch'
      BY <1>c DEF IInv, TreesMatch, TakeState, Advance, Phase
<1>5. HoldersMatch'
      BY <1>c, RegistryAssumption DEF IInv, HoldersMatch, TakeState, Advance, Phase,
          TypeOK, RunIds, Cleaners
<1>6. CleanupsMatch'
      BY <1>c DEF IInv, CleanupsMatch, MustStop, TakeState, Advance, Phase
<1>7. FinishedIsQuiet'
      BY <1>c DEF IInv, FinishedIsQuiet, MustStop, TakeState, Advance, Phase
<1>8. SlotMatches'
      BY <1>c DEF IInv, SlotMatches, TakeState, Advance, Phase
<1> QED
      BY <1>1, <1>2, <1>3, <1>4, <1>5, <1>6, <1>7, <1>8 DEF IInv

\* Where there is nothing to stop the cleanup goes on to the readers.
LEMMA NothingToStopKeeps == ASSUME IInv, NEW c \in Cleaners, NothingToStop(c) PROVE IInv'
<1>c. cleanup[c].run \in RunIds
      BY RunOfCleanup DEF NothingToStop
<1>1. TypeOK'
      BY <1>c, CleanupUpdates, RegistryAssumption DEF IInv, TypeOK, NothingToStop,
          Advance, Cleanups, CleanupSteps
<1>2. WorkersMatch' /\ TreesMatch' /\ FinishedIsQuiet' /\ SlotMatches' /\ GateMatches'
      BY DEF IInv, NothingToStop, Advance, WorkersMatch, TreesMatch, FinishedIsQuiet,
          SlotMatches, GateMatches, MustStop
<1>3. HoldersMatch'
      BY <1>c DEF IInv, HoldersMatch, NothingToStop, Advance, MustStop
<1>4. CleanupsMatch'
      BY <1>c DEF IInv, CleanupsMatch, MustStop, NothingToStop, Advance
<1> QED
      BY <1>1, <1>2, <1>3, <1>4 DEF IInv

\* A signalled tree is still to be reaped.
LEMMA SubmitTerminationKeeps ==
    ASSUME IInv, NEW c \in Cleaners, SubmitTermination(c)
    PROVE  IInv'
<1>c. cleanup[c].run \in RunIds
      BY RunOfCleanup DEF SubmitTermination
<1>1. TypeOK'
      BY <1>c, TreeUpdates, RegistryAssumption DEF IInv, TypeOK, SubmitTermination
<1>b. worker[cleanup[c].run] \notin {"none", "started"}
      BY <1>c DEF IInv, WorkersMatch, SubmitTermination, NoTree, MustStop
<1>2. HoldersMatch' /\ SlotMatches' /\ GateMatches'
      BY DEF IInv, SubmitTermination, HoldersMatch, SlotMatches, GateMatches
<1>3. WorkersMatch'
      BY <1>c, <1>b DEF IInv, WorkersMatch, SubmitTermination, MustStop
<1>4. TreesMatch'
      BY <1>c, <1>b DEF IInv, TreesMatch, SubmitTermination, MustStop
<1>5. CleanupsMatch'
      BY <1>c, <1>b DEF IInv, CleanupsMatch, MustStop, SubmitTermination
<1>6. FinishedIsQuiet'
      BY <1>c, <1>b DEF IInv, FinishedIsQuiet, MustStop, SubmitTermination
<1> QED
      BY <1>1, <1>2, <1>3, <1>4, <1>5, <1>6 DEF IInv

\* A reaped child was signalled before.
LEMMA ReapChildKeeps == ASSUME IInv, NEW c \in Cleaners, ReapChild(c) PROVE IInv'
<1>c. cleanup[c].run \in RunIds
      BY RunOfCleanup DEF ReapChild
<1>1. TypeOK'
      BY <1>c, TreeUpdates, RegistryAssumption DEF IInv, TypeOK, ReapChild
<1>b. worker[cleanup[c].run] \notin {"none", "started"}
      BY <1>c DEF IInv, WorkersMatch, ReapChild, NoTree, MustStop
<1>2. HoldersMatch' /\ SlotMatches' /\ GateMatches'
      BY DEF IInv, ReapChild, HoldersMatch, SlotMatches, GateMatches
<1>3. WorkersMatch'
      BY <1>c, <1>b DEF IInv, WorkersMatch, ReapChild, MustStop
<1>4. TreesMatch'
      BY <1>c, <1>b DEF IInv, TreesMatch, ReapChild, MustStop
<1>5. CleanupsMatch'
      BY <1>c, <1>b DEF IInv, CleanupsMatch, MustStop, ReapChild
<1>6. FinishedIsQuiet'
      BY <1>c, <1>b DEF IInv, FinishedIsQuiet, MustStop, ReapChild
<1> QED
      BY <1>1, <1>2, <1>3, <1>4, <1>5, <1>6 DEF IInv

\* Once the anchor is reaped the tree is clean.
LEMMA ReapAnchorKeeps == ASSUME IInv, NEW c \in Cleaners, ReapAnchor(c) PROVE IInv'
<1>c. cleanup[c].run \in RunIds
      BY RunOfCleanup DEF ReapAnchor
<1> DEFINE r == cleanup[c].run
           p == IF tree[r].anchor = "none" THEN "none" ELSE "reaped"
<1>p. p \in Process
      BY DEF Process
<1>t. /\ tree'[r].child = "reaped" /\ tree'[r].terminationIssued /\ tree'[r].cleaned
      /\ tree'[r].anchor = p
      /\ \A q \in RunIds \ {r} : tree'[q] = tree[q]
      BY <1>c DEF IInv, TypeOK, Tree, ReapAnchor
<1>b. worker[r] \notin {"none", "started"} /\ state[r].process
      BY <1>c DEF IInv, WorkersMatch, ReapAnchor, MustStop, NoTree
<1>u. UNCHANGED <<active, nextId, gate, owner, state, holder, reader, worker, faults>>
      BY DEF ReapAnchor
<1>1. TypeOK'
  <2>1. tree' \in [RunIds -> Tree]
        BY <1>c, <1>p, TreeUpdates DEF IInv, TypeOK, ReapAnchor
  <2>2. cleanup' \in Cleanups
        BY CleanupUpdates DEF IInv, TypeOK, ReapAnchor, Advance, Cleanups, CleanupSteps
  <2> QED BY <2>1, <2>2, <1>u DEF IInv, TypeOK, Cleanups
<1>2. SlotMatches' /\ GateMatches'
      BY <1>u DEF IInv, SlotMatches, GateMatches
<1>3. WorkersMatch'
      BY <1>b, <1>c, <1>t, <1>u DEF IInv, WorkersMatch
<1>4. TreesMatch'
      BY <1>b, <1>c, <1>t, <1>u DEF IInv, TreesMatch
<1>5. FinishedIsQuiet'
      BY <1>c, <1>t, <1>u DEF IInv, FinishedIsQuiet, MustStop
<1>6. HoldersMatch'
      BY <1>c, <1>u, RegistryAssumption DEF IInv, HoldersMatch, ReapAnchor, Advance,
          TypeOK, RunIds, Cleaners
<1>s. /\ cleanup'[c].step = "joining" /\ cleanup'[c].run = r
      /\ \A d \in Cleaners \ {c} : cleanup'[d] = cleanup[d]
      BY DEF IInv, TypeOK, ReapAnchor, Advance
<1>m. \A q \in RunIds : MustStop(q)' => q # r /\ MustStop(q)
      BY <1>t, <1>u DEF MustStop
<1>7. CleanupsMatch'
  <2>1. ASSUME NEW d \in Cleaners
        PROVE  /\ cleanup'[d].step # "idle" => cleanup'[d].run \in 1..(nextId - 1)
               /\ cleanup'[d].step \in {"releasing", "ok"} =>
                      state[cleanup'[d].run].phase = "Finished"
               /\ cleanup'[d].step = "ok" => active # cleanup'[d].run
        BY <1>s DEF IInv, CleanupsMatch, ReapAnchor
  <2>2. ASSUME NEW d \in Cleaners, cleanup'[d].step = "joining"
        PROVE  ~MustStop(cleanup[d].run)'
    <3>1. CASE d = c
          BY <3>1, <1>c, <1>s, <1>t, <1>u DEF MustStop
    <3>2. CASE d # c
      <4>1. cleanup[d].step = "joining" /\ cleanup'[d].run = cleanup[d].run
            BY <2>2, <3>2, <1>s
      <4>2. cleanup[d].run \in RunIds /\ ~MustStop(cleanup[d].run)
            BY <4>1, RunOfCleanup DEF IInv, CleanupsMatch
      <4> QED BY <4>1, <4>2, <1>t, <1>u, <1>m DEF MustStop
    <3> QED BY <3>1, <3>2
  <2>3. ASSUME NEW q \in RunIds, worker[q] # "finishing"
        PROVE  cleanup'[q].step = "idle"
    <3>1. q \in Cleaners /\ cleanup[q].step = "idle"
          BY <2>3 DEF IInv, CleanupsMatch, Cleaners
    <3> QED BY <3>1, <1>s DEF ReapAnchor
  <2> QED BY <2>1, <2>2, <2>3, <1>u DEF CleanupsMatch
<1> QED BY <1>1, <1>2, <1>3, <1>4, <1>5, <1>6, <1>7 DEF IInv

\* A cleanup that could not reap in time gives the mutex back.
LEMMA ReapingIncompleteKeeps ==
    ASSUME IInv, NEW c \in Cleaners, ReapingIncomplete(c)
    PROVE  IInv'
<1>c. cleanup[c].run \in RunIds
      BY RunOfCleanup DEF ReapingIncomplete
<1>1. TypeOK'
  <2>1. state' \in [RunIds -> RunState]
        BY <1>c, StateUpdates DEF IInv, TypeOK, ReapingIncomplete, Abandon, Advance, Phase
  <2>2. holder' \in [RunIds -> Cleaners \cup {None}]
        BY RegistryAssumption DEF IInv, TypeOK, ReapingIncomplete, MustStop, Abandon,
            Advance, Phase, Cleaners
  <2>3. cleanup' \in [Cleaners -> [step : CleanupSteps, run : RunIds \cup {None}, late : BOOLEAN]]
        BY <1>c, CleanupUpdates DEF IInv, TypeOK, ReapingIncomplete, Abandon, Advance,
            Phase, Cleanups, CleanupSteps
  <2> QED
        BY <2>1, <2>2, <2>3 DEF IInv, TypeOK, ReapingIncomplete, Abandon, Advance, Phase
<1>2. GateMatches'
      BY DEF IInv, ReapingIncomplete, Abandon, Advance, Phase, GateMatches
<1>3. WorkersMatch'
      BY <1>c DEF IInv, WorkersMatch, NoTree, ReapingIncomplete, MustStop, Abandon,
          Advance, Phase
<1>4. TreesMatch'
      BY <1>c DEF IInv, TreesMatch, ReapingIncomplete, MustStop, Abandon, Advance, Phase
<1>5. HoldersMatch'
      BY <1>c DEF IInv, HoldersMatch, ReapingIncomplete, Abandon, Advance, Phase, TypeOK
<1>6. CleanupsMatch'
      BY <1>c, RegistryAssumption DEF IInv, CleanupsMatch, MustStop, ReapingIncomplete,
          Abandon, Advance, Phase, RunIds, Cleaners, WorkersMatch, HoldersMatch
<1>7. FinishedIsQuiet'
      BY <1>c DEF IInv, FinishedIsQuiet, MustStop, ReapingIncomplete, Abandon, Advance,
          Phase
<1>8. SlotMatches'
      BY <1>c, RegistryAssumption DEF IInv, SlotMatches, ReapingIncomplete, Abandon,
          Phase, Cleaners, WorkersMatch, CleanupsMatch, HoldersMatch
<1> QED
      BY <1>1, <1>2, <1>3, <1>4, <1>5, <1>6, <1>7, <1>8 DEF IInv

\* A run becomes finished only when nothing of it is left.
LEMMA CompleteKeeps == ASSUME IInv, NEW c \in Cleaners, Complete(c) PROVE IInv'
<1>c. cleanup[c].run \in RunIds
      BY RunOfCleanup DEF Complete
<1>1. TypeOK'
      BY <1>c, ReaderUpdates, StateUpdates, CleanupUpdates, RegistryAssumption DEF IInv,
          TypeOK, Complete, Phase, Advance, Cleaners, Cleanups, CleanupSteps
<1>2. GateMatches'
      BY DEF IInv, Complete, JoinFinished, Phase, Advance, GateMatches
<1>3. WorkersMatch'
      BY <1>c DEF IInv, WorkersMatch, NoTree, Complete, Quiet, JoinFinished, Phase,
          Advance
<1>4. TreesMatch'
      BY <1>c DEF IInv, TreesMatch, Complete, Quiet, JoinFinished, Phase, Advance
<1>5. HoldersMatch'
      BY <1>c DEF IInv, HoldersMatch, Complete, Phase, Advance, TypeOK
<1>6. CleanupsMatch'
      BY <1>c DEF IInv, CleanupsMatch, MustStop, Complete, Phase, Advance, TypeOK
<1>7. FinishedIsQuiet'
      BY <1>c DEF IInv, FinishedIsQuiet, MustStop, Complete, Quiet, JoinFinished, Phase,
          TypeOK, CleanupsMatch
<1>8. SlotMatches'
      BY <1>c DEF IInv, SlotMatches, Complete, Quiet, JoinFinished, Phase, Advance
<1> QED
      BY <1>1, <1>2, <1>3, <1>4, <1>5, <1>6, <1>7, <1>8 DEF IInv

\* A cleanup whose worker or readers are not done gives the mutex back.
LEMMA RunOutOfTimeKeeps == ASSUME IInv, NEW c \in Cleaners, RunOutOfTime(c) PROVE IInv'
<1>c. cleanup[c].run \in RunIds
      BY RunOfCleanup DEF RunOutOfTime
<1>1. TypeOK'
      BY <1>c, ReaderUpdates, StateUpdates, CleanupUpdates, RegistryAssumption DEF IInv,
          TypeOK, RunOutOfTime, Abandon, Phase, Advance, Cleaners, Cleanups, CleanupSteps
<1>b. state[cleanup[c].run].phase = "Cleaning"
  <2>1. holder[cleanup[c].run] = c
        BY DEF IInv, HoldersMatch, RunOutOfTime
  <2>2. c # None
        BY RegistryAssumption
  <2> QED BY <1>c, <2>1, <2>2 DEF IInv, HoldersMatch
<1>2. GateMatches'
      BY DEF IInv, RunOutOfTime, JoinFinished, Abandon, Phase, Advance, GateMatches
<1>3. WorkersMatch'
      BY <1>c DEF IInv, WorkersMatch, NoTree, RunOutOfTime, Quiet, JoinFinished, Abandon,
          Phase, Advance
<1>4. TreesMatch'
      BY <1>c DEF IInv, TreesMatch, RunOutOfTime, Quiet, JoinFinished, Abandon, Phase,
          Advance
<1>5. HoldersMatch'
      BY <1>c DEF IInv, HoldersMatch, RunOutOfTime, Abandon, Phase, Advance, TypeOK
<1>6. CleanupsMatch'
      BY <1>c, <1>b DEF IInv, CleanupsMatch, MustStop, RunOutOfTime, Abandon, Phase,
          Advance, TypeOK
<1>7. FinishedIsQuiet'
      BY <1>c DEF IInv, FinishedIsQuiet, MustStop, RunOutOfTime, Quiet, JoinFinished,
          Abandon, Phase, Advance
<1>8. SlotMatches'
      BY <1>c, <1>b DEF IInv, SlotMatches, RunOutOfTime, Abandon, Phase
<1> QED
      BY <1>1, <1>2, <1>3, <1>4, <1>5, <1>6, <1>7, <1>8 DEF IInv

\* A cleanup that waits gives the mutex back.
LEMMA WaitForChangeKeeps == ASSUME IInv, NEW c \in Cleaners, WaitForChange(c) PROVE IInv'
<1>c. cleanup[c].run \in RunIds
      BY RunOfCleanup DEF WaitForChange
<1>1. TypeOK'
      BY <1>c, ReaderUpdates, CleanupUpdates, RegistryAssumption DEF IInv, TypeOK,
          WaitForChange, Advance, Cleaners, Cleanups, CleanupSteps
<1>2. TreesMatch' /\ SlotMatches' /\ GateMatches'
      BY DEF IInv, WaitForChange, JoinFinished, Advance, TreesMatch, SlotMatches,
          GateMatches
<1>3. WorkersMatch'
      BY <1>c DEF IInv, WorkersMatch, NoTree, WaitForChange, Quiet, JoinFinished, Advance
<1>4. HoldersMatch'
      BY <1>c, RegistryAssumption DEF IInv, HoldersMatch, WaitForChange, Quiet,
          JoinFinished, Advance, TypeOK, RunIds, Cleaners
<1>5. CleanupsMatch'
      BY <1>c DEF IInv, CleanupsMatch, MustStop, WaitForChange, Quiet, JoinFinished,
          Advance
<1>6. FinishedIsQuiet'
      BY <1>c DEF IInv, FinishedIsQuiet, MustStop, WaitForChange, Quiet, JoinFinished,
          Advance
<1> QED
      BY <1>1, <1>2, <1>3, <1>4, <1>5, <1>6 DEF IInv

\* Only the slot of a finished run is emptied.
LEMMA ReleaseKeeps == ASSUME IInv, NEW c \in Cleaners, Release(c) PROVE IInv'
<1>c. cleanup[c].run \in RunIds
      BY RunOfCleanup DEF Release
<1>1. TypeOK'
      BY <1>c, CleanupUpdates, RegistryAssumption DEF IInv, TypeOK, Release, Advance,
          Freed, Cleanups, CleanupSteps
<1>2. WorkersMatch' /\ TreesMatch' /\ FinishedIsQuiet'
      BY DEF IInv, Release, Advance, WorkersMatch, TreesMatch, FinishedIsQuiet, MustStop
<1>3. HoldersMatch'
      BY <1>c DEF IInv, HoldersMatch, Release, GateIsOpen, Open, Freed, Advance
<1>4. CleanupsMatch'
      BY <1>c, RegistryAssumption DEF IInv, CleanupsMatch, MustStop, Release, Freed,
          Advance, TypeOK, RunIds, Cleaners
<1>5. SlotMatches'
      BY <1>c DEF IInv, SlotMatches, Release, Freed, CleanupsMatch
<1>6. GateMatches'
      BY <1>c DEF IInv, GateMatches, Release, GateIsOpen, Open, Freed, Advance
<1> QED
      BY <1>1, <1>2, <1>3, <1>4, <1>5, <1>6 DEF IInv

\* Time that passes changes nothing that lives.
LEMMA DeadlinePassesKeeps ==
    ASSUME IInv, NEW c \in Cleaners, DeadlinePasses(c)
    PROVE  IInv'
<1>c. cleanup[c].run \in RunIds
      BY RunOfCleanup DEF DeadlinePasses
<1>1. TypeOK'
      BY <1>c, CleanupUpdates, RegistryAssumption DEF IInv, TypeOK, DeadlinePasses,
          Cleanups, CleanupSteps
<1>2. WorkersMatch' /\ TreesMatch' /\ FinishedIsQuiet' /\ SlotMatches' /\ GateMatches'
      BY DEF IInv, DeadlinePasses, WorkersMatch, TreesMatch, FinishedIsQuiet, SlotMatches,
          GateMatches, MustStop
<1>3. HoldersMatch'
      BY <1>c DEF IInv, HoldersMatch, DeadlinePasses
<1>4. CleanupsMatch'
      BY <1>c DEF IInv, CleanupsMatch, MustStop, DeadlinePasses
<1> QED
      BY <1>1, <1>2, <1>3, <1>4 DEF IInv

\* A cleanup whose system call failed gives the mutex back.
LEMMA StopFailsKeeps == ASSUME IInv, NEW c \in Cleaners, StopFails(c) PROVE IInv'
<1>c. cleanup[c].run \in RunIds
      BY RunOfCleanup DEF StopFails
<1>1. TypeOK'
  <2>1. state' \in [RunIds -> RunState]
        BY <1>c, StateUpdates DEF IInv, TypeOK, StopFails, Abandon, Phase, Advance
  <2>2. holder' \in [RunIds -> Cleaners \cup {None}]
        BY RegistryAssumption DEF IInv, TypeOK, StopFails, MustStop, Abandon, Phase,
            Advance, Cleaners
  <2>3. cleanup' \in [Cleaners -> [step : CleanupSteps, run : RunIds \cup {None}, late : BOOLEAN]]
        BY <1>c, CleanupUpdates DEF IInv, TypeOK, StopFails, Abandon, Phase, Advance,
            Cleanups, CleanupSteps
  <2>4. faults' \in 0..MaxFaults
        BY RegistryAssumption DEF IInv, TypeOK, StopFails, MustStop, Abandon, Phase,
            Advance
  <2> QED
        BY <2>1, <2>2, <2>3, <2>4 DEF IInv, TypeOK, StopFails, Abandon, Phase, Advance
<1>2. GateMatches'
      BY DEF IInv, StopFails, Abandon, Phase, Advance, GateMatches
<1>3. WorkersMatch'
      BY <1>c DEF IInv, WorkersMatch, NoTree, StopFails, MustStop, Abandon, Phase, Advance
<1>4. TreesMatch'
      BY <1>c DEF IInv, TreesMatch, StopFails, MustStop, Abandon, Phase, Advance
<1>5. HoldersMatch'
      BY <1>c DEF IInv, HoldersMatch, StopFails, Abandon, Phase, Advance, TypeOK
<1>6. CleanupsMatch'
      BY <1>c, SMTT(30) DEF IInv, CleanupsMatch, MustStop, StopFails, Abandon, Phase,
          Advance, WorkersMatch, HoldersMatch, TreesMatch, FinishedIsQuiet, SlotMatches,
          GateMatches, NoTree, NoRun, Run, RunState, Tree, Process
<1>7. FinishedIsQuiet'
      BY <1>c DEF IInv, FinishedIsQuiet, MustStop, StopFails, Abandon, Phase, Advance
<1>8. SlotMatches'
      BY <1>c, RegistryAssumption, SMTT(30) DEF IInv, SlotMatches, StopFails, Abandon,
          Phase, HoldersMatch, TreesMatch
<1> QED
      BY <1>1, <1>2, <1>3, <1>4, <1>5, <1>6, <1>7, <1>8 DEF IInv

-----------------------------------------------------------------------------
(* The invariant *)

\* In the initial state the slot is free, no run was reserved and nothing runs.
LEMMA InitEstablishes == Init => IInv
<1> SUFFICES ASSUME Init PROVE IInv
    OBVIOUS
<1>1. TypeOK
      BY RegistryAssumption DEF Init, TypeOK, Open, NoRun, Run, Fresh, RunState, NoTree,
          Tree, Process, WorkerSteps, NoCleanup, CleanupSteps
<1>2. WorkersMatch /\ TreesMatch
      BY DEF Init, WorkersMatch, TreesMatch, NoRun, Fresh, NoTree
<1>3. HoldersMatch
      BY RegistryAssumption DEF Init, HoldersMatch, NoCleanup
<1>4. CleanupsMatch
      BY DEF Init, CleanupsMatch, NoCleanup, Cleaners
<1>5. FinishedIsQuiet
      BY DEF Init, FinishedIsQuiet, Fresh
<1>6. SlotMatches /\ GateMatches
      BY DEF Init, SlotMatches, GateMatches, NoRun, Open
<1> QED BY <1>1, <1>2, <1>3, <1>4, <1>5, <1>6 DEF IInv

\* Every step of the registry, of a worker, of a cleanup and of the operating
\* system keeps the invariant.
LEMMA NextKeeps == ASSUME IInv, [Next]_vars PROVE IInv'
<1>1. CASE GateStep
      BY <1>1, ReserveKeeps, BeginDeleteKeeps, DropExpiredKeeps, BeginClearKeeps,
          EndRemovalKeeps, LeaseEndsKeeps, BeginStartKeeps, ClaimKeeps, RefuseStartKeeps,
          CancelKeeps DEF GateStep
<1>2. ASSUME NEW r \in RunIds, WorkerStep(r) PROVE IInv'
      BY <1>2, SpawnKeeps, AnchorSpawnFailsKeeps, ChildSpawnFailsKeeps, AttachKeeps,
          RegisterKeeps, StartWritingKeeps, WriteInputKeeps, WriteFailsKeeps,
          ObserveExitKeeps, GiveUpKeeps, RetireKeeps DEF WorkerStep
<1>3. ASSUME NEW r \in RunIds, SystemStep(r) PROVE IInv'
      BY <1>3, ChildExitsKeeps, DescendantsExitKeeps, AnchorExitsKeeps, ReaderEndsKeeps
          DEF SystemStep
<1>4. ASSUME NEW c \in Cleaners, CleanupStep(c) PROVE IInv'
      BY <1>4, BeginCleanupKeeps, GiveUpTryingKeeps, FindFinishedKeeps, TakeStateKeeps,
          NothingToStopKeeps, SubmitTerminationKeeps, ReapChildKeeps, ReapAnchorKeeps,
          ReapingIncompleteKeeps, CompleteKeeps, RunOutOfTimeKeeps, WaitForChangeKeeps,
          ReleaseKeeps DEF CleanupStep
<1>5. CASE UNCHANGED vars
      BY <1>5 DEF vars, IInv, TypeOK, WorkersMatch, TreesMatch, HoldersMatch,
          CleanupsMatch, FinishedIsQuiet, SlotMatches, GateMatches, MustStop
<1> QED BY <1>1, <1>2, <1>3, <1>4, <1>5, DeadlinePassesKeeps, StopFailsKeeps DEF Next

\* The inductive invariant holds in every reachable state.
THEOREM Invariance == Spec => []IInv
BY InitEstablishes, NextKeeps, PTL DEF Spec

\* Every variable keeps its type.
THEOREM TypeCorrect == Spec => []TypeOK
<1>1. IInv => TypeOK
      BY DEF IInv
<1> QED BY <1>1, Invariance, PTL

-----------------------------------------------------------------------------
(* Ownership *)

\* A finished run has no worker that uses it, no process and no reader.
LEMMA FinishedIsGone ==
    ASSUME IInv, NEW r \in RunIds, state[r].phase = "Finished"
    PROVE  Gone(r)
<1>1. worker[r] \in {"none", "finishing"}
      BY DEF IInv, FinishedIsQuiet, WorkersMatch
<1>2. \A s \in Streams : reader[r][s] \in {"none", "joined"}
      BY DEF IInv, FinishedIsQuiet
<1>3. CASE ~state[r].process
  <2>1. tree[r].child = "none" /\ tree[r].anchor = "none"
        BY <1>1, <1>3 DEF IInv, TreesMatch
  <2> QED BY <1>1, <1>2, <2>1 DEF Gone, Exists
<1>4. CASE state[r].process
  <2>1. tree[r].cleaned
        BY <1>4 DEF IInv, FinishedIsQuiet, MustStop
  <2>2. /\ tree[r].terminationIssued /\ tree[r].child = "reaped"
        /\ tree[r].anchor \in {"none", "reaped"}
        BY <2>1 DEF IInv, TreesMatch
  <2> QED BY <1>1, <1>2, <2>2 DEF Gone, Exists
<1> QED BY <1>3, <1>4

\* A run nobody started is empty.
LEMMA UnclaimedIsGone ==
    ASSUME IInv, NEW r \in RunIds, ~owner[r].claimed
    PROVE  Gone(r)
<1>1. worker[r] = "none"
      BY DEF IInv, WorkersMatch
<1>2. tree[r] = NoTree /\ \A s \in Streams : reader[r][s] = "none"
      BY <1>1 DEF IInv, WorkersMatch
<1> QED BY <1>1, <1>2 DEF Gone, Exists, NoTree

\* Under the invariant only the owner of the slot lives: a started run gives the
\* slot up when it is finished, and one that was never started is empty.
LEMMA OwnerLivesAlone == IInv => OnlyTheOwnerLives
<1> SUFFICES ASSUME IInv, NEW r \in RunIds, r # active PROVE Gone(r)
    BY DEF OnlyTheOwnerLives
<1>1. CASE owner[r].claimed
  <2>1. state[r].phase = "Finished"
        BY <1>1 DEF IInv, SlotMatches
  <2> QED BY <2>1, FinishedIsGone
<1> QED BY <1>1, UnclaimedIsGone

\* No two analyses ever run side by side: whatever the order of starts,
\* cancellations, expired leases, failed and repeated cleanups, a run that does
\* not own the slot has no worker, no process and no reader.
THEOREM OneAnalysisAtATime == Spec => []OnlyTheOwnerLives
BY OwnerLivesAlone, Invariance, PTL

\* A cleanup that reports success left nothing of its run behind.
THEOREM CleanupsTellTheTruth == Spec => []ConfirmedIsGone
<1>1. ASSUME IInv PROVE ConfirmedIsGone
  <2> SUFFICES ASSUME NEW c \in Cleaners, cleanup[c].step \in {"releasing", "ok"}
               PROVE  /\ state[cleanup[c].run].phase = "Finished"
                      /\ Gone(cleanup[c].run)
                      /\ cleanup[c].step = "ok" => active # cleanup[c].run
      BY DEF ConfirmedIsGone
  <2>1. cleanup[c].run \in RunIds
        BY <1>1, RunOfCleanup
  <2>2. /\ state[cleanup[c].run].phase = "Finished"
        /\ cleanup[c].step = "ok" => active # cleanup[c].run
        BY <1>1 DEF IInv, CleanupsMatch
  <2> QED BY <1>1, <2>1, <2>2, FinishedIsGone
<1> QED BY <1>1, Invariance, PTL

\* Data is deleted or cleared only while no run can still write to it.
THEOREM RemovalsRunAlone == Spec => []RemovalsAreAlone
<1>1. ASSUME IInv PROVE RemovalsAreAlone
  <2> SUFFICES ASSUME NEW r \in RunIds,
                      \/ gate.use = "clear"
                      \/ gate.use = "delete" /\ owner[r].task = gate.of
               PROVE  active # r /\ Gone(r)
      BY DEF RemovalsAreAlone
  <2>1. active # r
        BY <1>1, RegistryAssumption DEF IInv, GateMatches, Cleaners
  <2>2. Gone(r)
        BY <1>1, <2>1, OwnerLivesAlone DEF OnlyTheOwnerLives
  <2> QED BY <2>1, <2>2
<1> QED BY <1>1, Invariance, PTL

-----------------------------------------------------------------------------
(* What a step may never do *)

\* Only the two calls that expire a lease, and a release, take the slot away.
LEMMA SlotIsTaken ==
    ASSUME IInv, [Next]_vars, NEW r \in RunIds, active = r, active' # r
    PROVE  \/ state[r].phase = "Finished"
           \/ owner[r].expired /\ ~owner[r].claimed
<1>0. active # None
      BY RegistryAssumption DEF Cleaners
<1>1. CASE GateStep
      BY <1>0, <1>1 DEF GateStep, Reserve, BeginDelete, DropExpired, BeginClear,
          EndRemoval, LeaseEnds, BeginStart, Claim, RefuseStart, Cancel, AfterExpiry
<1>2. ASSUME NEW c \in Cleaners, CleanupStep(c)
      PROVE  state[r].phase = "Finished"
  <2>1. Release(c)
        BY <1>2 DEF CleanupStep, BeginCleanup, GiveUpTrying, FindFinished, TakeState,
            NothingToStop, SubmitTermination, ReapChild, ReapAnchor, ReapingIncomplete,
            Complete, RunOutOfTime, WaitForChange
  <2>2. cleanup[c].step = "releasing" /\ cleanup[c].run = r
        BY <2>1 DEF Release, Freed
  <2> QED BY <2>2 DEF IInv, CleanupsMatch
<1>3. ASSUME NEW q \in RunIds, WorkerStep(q) PROVE FALSE
      BY <1>3 DEF WorkerStep, Spawn, AnchorSpawnFails, ChildSpawnFails, Attach, Register,
          StartWriting, WriteInput, WriteFails, ObserveExit, GiveUp, Retire
<1>4. ASSUME NEW q \in RunIds, SystemStep(q) PROVE FALSE
      BY <1>4 DEF SystemStep, ChildExits, DescendantsExit, AnchorExits, ReaderEnds
<1> QED BY <1>1, <1>2, <1>3, <1>4 DEF Next, DeadlinePasses, StopFails, vars

\* A run that was started keeps the slot until a cleanup finished it.
THEOREM OwnersStay == Spec => OwnersAreNotEvicted
<1>1. ASSUME IInv, [Next]_vars
      PROVE  [\A r \in RunIds :
                 active = r /\ active' # r =>
                     \/ state[r].phase = "Finished"
                     \/ owner[r].expired /\ ~owner[r].claimed]_vars
      BY <1>1, SlotIsTaken
<1> QED BY <1>1, Invariance, PTL DEF Spec, OwnersAreNotEvicted

\* Only a start hands out a guard.
LEMMA GuardIsHandedOut ==
    ASSUME IInv, [Next]_vars, NEW r \in RunIds, worker'[r] = "started", worker[r] # "started"
    PROVE  Claim(r)
<1>0. worker \in [RunIds -> WorkerSteps]
      BY DEF IInv, TypeOK
<1>1. CASE GateStep
      BY <1>0, <1>1 DEF GateStep, Reserve, BeginDelete, DropExpired, BeginClear,
          EndRemoval, LeaseEnds, BeginStart, Claim, RefuseStart, Cancel
<1>2. ASSUME NEW c \in Cleaners, CleanupStep(c) PROVE FALSE
      BY <1>2 DEF CleanupStep, BeginCleanup, GiveUpTrying, FindFinished, TakeState,
          NothingToStop, SubmitTermination, ReapChild, ReapAnchor, ReapingIncomplete,
          Complete, RunOutOfTime, WaitForChange, Release
<1>3. ASSUME NEW q \in RunIds, WorkerStep(q) PROVE FALSE
      BY <1>0, <1>3 DEF WorkerStep, Spawn, AnchorSpawnFails, ChildSpawnFails, Attach,
          Register, StartWriting, WriteInput, WriteFails, ObserveExit, GiveUp, Retire
<1>4. ASSUME NEW q \in RunIds, SystemStep(q) PROVE FALSE
      BY <1>4 DEF SystemStep, ChildExits, DescendantsExit, AnchorExits, ReaderEnds
<1> QED BY <1>1, <1>2, <1>3, <1>4 DEF Next, DeadlinePasses, StopFails, vars

\* A run is started at most once, before it is cancelled or cleaned up.
THEOREM OneGuardPerRun == Spec => GuardsAreUnique
<1>1. ASSUME IInv, [Next]_vars
      PROVE  [\A r \in RunIds :
                 worker'[r] = "started" /\ worker[r] # "started" =>
                     /\ worker[r] = "none"
                     /\ ~owner[r].cancelled
                     /\ state[r].phase = "Unstarted"]_vars
  <2> SUFFICES ASSUME NEW r \in RunIds, worker'[r] = "started", worker[r] # "started"
               PROVE  /\ worker[r] = "none"
                      /\ ~owner[r].cancelled
                      /\ state[r].phase = "Unstarted"
      OBVIOUS
  <2>1. state[r].phase = "Unstarted" /\ ~owner[r].cancelled
        BY <1>1, GuardIsHandedOut DEF Claim, Startable
  <2> QED BY <1>1, <2>1 DEF IInv, WorkersMatch
<1> QED BY <1>1, Invariance, PTL DEF Spec, GuardsAreUnique

\* Only the stop of an attached tree signals its group, and only once.
LEMMA GroupIsSignalled ==
    ASSUME IInv, [Next]_vars, NEW r \in RunIds,
           tree'[r].terminationIssued, ~tree[r].terminationIssued
    PROVE  MustStop(r)
<1>0. tree \in [RunIds -> Tree]
      BY DEF IInv, TypeOK
<1>1. CASE GateStep
      BY <1>1 DEF GateStep, Reserve, BeginDelete, DropExpired, BeginClear, EndRemoval,
          LeaseEnds, BeginStart, Claim, RefuseStart, Cancel
<1>2. ASSUME NEW c \in Cleaners, CleanupStep(c) PROVE MustStop(r)
  <2>1. CASE SubmitTermination(c)
        BY <1>0, <2>1 DEF SubmitTermination
  <2>2. CASE ReapChild(c) \/ ReapAnchor(c)
        BY <1>0, <2>2 DEF ReapChild, ReapAnchor, Tree
  <2>3. CASE ~(SubmitTermination(c) \/ ReapChild(c) \/ ReapAnchor(c))
        BY <1>2, <2>3 DEF CleanupStep, BeginCleanup, GiveUpTrying, FindFinished,
            TakeState, NothingToStop, ReapingIncomplete, Complete, RunOutOfTime,
            WaitForChange, Release
  <2> QED BY <2>1, <2>2, <2>3
<1>3. ASSUME NEW q \in RunIds, WorkerStep(q) PROVE FALSE
      BY <1>0, <1>3 DEF WorkerStep, Spawn, AnchorSpawnFails, ChildSpawnFails, Attach,
          Register, StartWriting, WriteInput, WriteFails, ObserveExit, GiveUp, Retire,
          Spawned, AnchorOnly, NoTree, Tree
<1>4. ASSUME NEW q \in RunIds, SystemStep(q) PROVE FALSE
      BY <1>0, <1>4 DEF SystemStep, ChildExits, DescendantsExit, AnchorExits, ReaderEnds,
          Tree
<1> QED BY <1>1, <1>2, <1>3, <1>4 DEF Next, DeadlinePasses, StopFails, vars

\* A tree that has not been stopped still has the process that names its group.
LEMMA LeaderExists ==
    ASSUME IInv, NEW r \in RunIds, MustStop(r), ~tree[r].terminationIssued
    PROVE  Exists(Leader(r))
<1>1. tree[r].child \in Process /\ tree[r].anchor \in Process
      BY DEF IInv, TypeOK, Tree
<1>2. tree[r].child # "none"
      BY DEF IInv, TreesMatch, MustStop
<1>3. CASE tree[r].anchor = "none"
      BY <1>1, <1>2, <1>3 DEF IInv, TreesMatch, Leader, Exists, Process
<1>4. CASE tree[r].anchor # "none"
      BY <1>1, <1>4 DEF IInv, TreesMatch, MustStop, Leader, Exists, Process
<1> QED BY <1>3, <1>4

\* A termination signal is sent only to a group whose leader is not reaped.
THEOREM NoStrangerIsSignalled == Spec => SignalsReachOwnGroup
<1>1. ASSUME IInv, [Next]_vars
      PROVE  [\A r \in RunIds :
                 tree'[r].terminationIssued /\ ~tree[r].terminationIssued =>
                     Exists(Leader(r))]_vars
      BY <1>1, GroupIsSignalled, LeaderExists
<1> QED BY <1>1, Invariance, PTL DEF Spec, SignalsReachOwnGroup

=============================================================================
