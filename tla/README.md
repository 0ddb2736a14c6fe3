# Verification of Evidence Loom

Evidence Loom runs research analyses on a desktop. A native Rust core
(`src-tauri/src`) keeps the tasks in an SQLite database, runs one analysis
process at a time, records its output in a durable journal and answers a
TypeScript user interface (`frontend/src`). The analysis itself is a Python
program (`tradingagents`, `frontend/server/run_analysis.py`): a graph of model
agents that fetch evidence, argue, and end in a recommendation or in a request
for review, with a memory of what became of earlier decisions. This directory
holds TLA+ specifications of both halves, the TLC runs that check them and TLAPS
proofs about them.

Run TLC with `tlc -config <run>.cfg <MC module>` and the proofs with
`tlapm <module>`. `PROJECT.json` lists every run, every theorem, every mutant,
the hazards each property is about and the source lines each definition stands
for.

## The parts of the system

| Part | State it keeps | Operations | Interacts with | Hard because |
|---|---|---|---|---|
| Native task store (`storage/task_mutation.rs`, guards in `main.rs`) | collection token and revision, a head per task, task bodies, one durable row per mutation request | save, import, delete, clear, replay of an outcome, supported copy | journal (projections), registry (removals), credentials | packets are captured early and arrive late or twice; clear is two transactions with an external effect in between; the process may die anywhere |
| Execution registry (`analysis_execution.rs`) | the one slot, each run's phase, flags, process, readers | reserve, start, cancel, cleanup, delete/clear while idle | recovery runtime (worker, stops), task removals, auxiliary commands | two mutexes, bounded cleanups by several threads at once, leases, retries |
| Owned process (`owned_process.rs`) | child, group leader, what was signalled and reaped | spawn, stop with reaping | registry | a process number is only meaningful while its process is unreaped; every system call may fail |
| Recovery runtime (`analysis_recovery/runtime.rs`) | one session per admitted run: header, claim, cancellation, cleanup and control receipts, outcome draft; the admission gate | begin/admit, claim, publish, finish, stop, retry cleanup, refresh, expiry | registry, journal, user interface | stop, expiry, worker and refresh all finish the same run; SQL may fail after it committed |
| Analysis journal (`storage/analysis_journal.rs`) | admissions, rows, start and seal records, control receipts, epochs | admit, accept start, append, seal, project, record control, purge, interrupt, rotate | runtime, task store | reserved rows, exactly one outcome, sealed runs, restarts, projections that race deletes |
| Output parser and publication drafts (`parser.rs`, `publication.rs`, `wire.rs`) | the frame being read | parse, validate, map to rows | runtime | input bounds |
| Auxiliary command supervisor (`json_command.rs`) | a pool of at most eight owners | execute, retry pending cleanups | one registry per owner | pending cleanups take room in the pool and are retried by unrelated calls |
| Projection and reducer (`reducer.ts`, `projection_truth`) | none | fold rows into a task | journal, consumer | pages of any size, replays, two implementations |
| Consumer and attachment (`consumer.ts`, `attachment.ts`) | last applied row, control state | page, project, stop, retry | runtime, queue | late and reordered answers |
| Queue controller (`useTaskQueueController.ts`) and task mutations (`mutations.ts`) | queue, current run, packets in flight | admit the next task, save, delete, clear | task store, runtime | state captured before an `await` |
| Analyst graph and evidence ledger (`tradingagents/graph`, `evidence/ledger.py`, `agents`) | the graph's state, its checkpoint, the ledger on disk, the parts a completion freezes | start or resume, capture, checkpoint, debate, gate, complete, publish | vendors, memory, the server process | checkpoint, ledger and completion are three files written at different times; a crash may fall between any two |
| Vendor data access (`tradingagents/dataflows`, `agents/utils`) | the price file of each symbol, the record of a call | one tool call through the configured vendors | ledger | silence and outage look alike; runs of different days share a file; midnight differs between host, UTC and exchange |
| Readiness gate and numeric reviews (`tradingagents/research`, `dataflows/market_data_validator.py`) | the frozen policy, assessments saved as evidence, the frozen report text | assess rows, prove a saved assessment, decide, freeze, review a number | ledger, graph | two separate calculations must agree; rows are read before midnight and recorded after it; ties and parts of numbers |
| Research memory (`tradingagents/memory`, `graph/research_memory.py`) | decisions, outcomes, reflections, completions, review cursors | record, review in batches, evaluate, reflect, give context | graph, price provider | many processes share one directory; images are older than the lock; the clock is read before slow downloads |

Settings, credentials, report export, the acceptance harness, the command line
client and the scripts are listed in `PROJECT.json` with the reason why they are
not modelled; see also "Not modelled" below.

### What makes each part correct

* **Task store.** A request is decided at most once and every later answer
  repeats that decision; a body is saved exactly when its head is live and is the
  one the receipt speaks of; no two commits of a collection get the same head; a
  head only moves forward; a batch lands whole or not at all; a clear's external
  effect happens at most once and what the store says of it is true, also when
  the process died in between; imports cannot revive removed data.
* **Registry and process.** One analysis at a time; a started run keeps the slot
  until nothing of it is left; a cleanup that reports success tells the truth;
  removals never run beside a run of the same task; signals go only to the run's
  own process group; every cleanup is answered, cancelled workers retire even if
  the child never reads, and retries free the slot.
* **Supervisor.** No process escapes the pool; the limit on owners limits
  processes; every owner has one caretaker or waits for a retry; owners leave.
* **Analyst graph.** Every citation finds its record, no record is heard twice, and
  what was captured before a crash is handed on and not fetched again; a
  recommendation is only made if the gate's records warrant it; a published
  decision is never replaced by another; every run ends.
* **Vendors.** Absence is claimed only where it was seen; no answer holds anything of
  a day after the run; a record marked available hides no unanswered request;
  only rows of finished sessions count as complete; every call is answered.
* **Gate.** A recommendation is allowed exactly if rows and records warrant it; the
  offline proof accepts exactly what the assessment would say; a number is called
  a match only if it is the saved one.
* **Memory.** What is saved stays; contexts hold only what was known; facts are
  durable before a model sees them; every pending decision gets its turn and is
  settled with closes that were final when read and unknown at the decision.

## The modules

| Module | Models | Abstract view |
|---|---|---|
| `TaskStore` | the task store with the guarded removals of `main.rs` | implements `ExactlyOnce` |
| `ExactlyOnce` | what a caller is promised of mutation requests | |
| `TaskStoreProofs` | theorems of `TaskStore` | |
| `ExecutionRegistry` | registry, worker thread, readers, process tree, cleanups | |
| `ExecutionRegistryProofs` | theorems of `ExecutionRegistry` | |
| `Supervisor` | the pool of auxiliary commands | uses the registry's promise |
| `SupervisorProofs` | theorems of `Supervisor` | |
| `AnalysisRun` | one run of the analyst graph with ledger, checkpoint and completion | |
| `AnalysisRunProofs` | theorems of `AnalysisRun` | |
| `SourceCalls`, `Vendors` | the tool calls of several runs; what each vendor may answer | |
| `SourceCallsProofs` | theorems of both | |
| `MarketQuality`, `SavedNumbers` | pure: rows and their proof; decimals and spans | |
| `Readiness` | the gate and the reviews, over the clocks | |
| `ReadinessProofs` | theorems of `Readiness` and `MarketQuality` | |
| `ResearchMemory` | the memory's records, shared by processes | |
| `ResearchMemoryProofs` | theorems of `ResearchMemory` | |
| `ReferenceEvaluation` | how one decision is evaluated and replayed | |
| `ReferenceEvaluationProofs` | theorems of `ReferenceEvaluation` | |
| `MC...` | model values and symmetry for TLC | |

Definitions whose comment starts with `Fault:` are mutants: the form a plausible
bug would give the definition that follows. No specification uses them; they
exist so that each property can be seen to fail.

### TaskStore

`collection` (identity and epoch) and `closed` (imports are over) are the store's
metadata row, `heads` the task heads, `bodies` the saved tasks, `requests` the
mutation rows, `packets` what callers hold, `calls` the removal commands in
progress; `external` is an observer that counts what each clear did outside the
database. A *packet* is what a client captured: its request, its operation, the
collection token and the heads it was built on. A client may capture (`Freeze`)
at any time and send a packet as late and as often as it likes; `MaxPackets`
bounds how many it captures. A body is identified with the request that wrote
it: the store never looks inside.

One action per transaction. `Save` is `execute` for saves and imports: it
replays an earlier outcome, or commits with all effects, or refuses with nothing
but the rejection kept (`BodiesAfterRefusal` is the rollback to the savepoint).
A removal first probes without the coordinator (`ProbeRemoval`,
`ReplayRemoval`), may be refused because the task is running (`RefuseRemoval`),
and then deletes (`Delete`) or goes through the three steps of a clear
(`FenceClear`, `RunExternalStage`, `SettleClear` or one of its refusals). The
coordinator is a mutex of one process, so two processes on one database
interleave between the transactions; the run has two.
`Crash` ends a process anywhere; `StartOnCopy` is the fresh epoch a supported
copy of the database starts with; `ProjectJournal` is a journal projection, which
advances a head without a packet. `MaxCounter` stands for `i64::MAX`: the
generation, revision and epoch checks against overflow are modelled, and small
values make them happen.

Left out: attachments and evidence pruning (they follow the body inside the same
transaction), the wording of errors, and the validation of a packet's shape.

### ExecutionRegistry

`active` and `nextId` are the registry's fields, `gate` says who holds the mutex
of `active` across several steps (a start, a removal), `owner` and `state` are
`Run` and `RunState`, `holder` says which cleanup holds the mutex of a run's
state, `tree` is the process tree as the operating system sees it, `reader` and
`worker` are threads, `cleanup` the cleanups in progress.

Calls that take a mutex and give it back before they block are one action; those
that hold it over a wait are several. `Reserve`, `BeginStart`/`Claim`, `Cancel`,
`BeginDelete`, `BeginClear` all expire a dead lease first (`AfterExpiry`); a call
that is refused still drops an expired reservation (`DropExpired`). The worker's
steps are those of `run_owned_worker`: spawn, attach, register readers, write the
input without any mutex, wait, retire. `TakeState` ... `Release` are the loop of
`cleanup`, run by any number of callers and by the worker's own `finish`; the
stop of the tree (`SubmitTermination`, `ReapChild`, `ReapAnchor`, `StopFails`)
may fail at each system call and resumes on the next attempt.
Time is abstracted to two facts that may become true: a lease ends
(`LeaseEnds`), a cleanup is late (`DeadlinePasses`).

The process tree is the Unix one: an anchor leads the group, the child runs in
it, descendants keep the pipes open. The Windows job object is not modelled.
Closing of admission exists in test and acceptance builds only and is left out;
so is the error `finish` reports when a reader thread panicked, which changes
the answer and not the state.

### Supervisor

`owners`, `phase` and `nextId` are the pool; `retained` is what
`OwnershipObservation` answers; `resists` says that something of an owner's run
cannot be ended for now; `call` is the thread of one `execute`: snapshot of the
pool, retries in the order of identities until the deadline, admission, the
command, its cleanup, and the owner put back as pending or removed. Each owner's
registry is abstracted to the promise `ExecutionRegistry` is shown to keep
(`ConfirmedIsGone`, `CleanupsAreAnswered`). Only waiting for a cleanup takes time:
a slow scheduler is not modelled.

### AnalysisRun

`ledger` is `bundle.json`, `saved` the checkpoint, `live` the state in memory,
`paper` what completion has frozen, `published` what was shown as completed. An
analyst's private graph is its node, its rounds, what it heard and how much of
the ledger its bundle holds. The graph library (LangGraph) is external: its
checkpoints are written behind the steps and are drained when a stream ends, also
by an error. Captures are written before a tool's answer is given to a model. A
capture that cannot be written ends the attempt (`CaptureFails`), except for the
indicators, whose tool hands the error on as its text (`UnsavedIsText`, for the tools
in `Lenient`). A
crash may come anywhere; `Resume` restores the state from the checkpoint and the
ledger from disk and hands on what no checkpoint knows. Completion writes its
parts one by one (`Freeze`), publishes, and clears the checkpoint. Reports and
debates are prose and left out; a resumption with changed settings, which starts
afresh, is too.

### SourceCalls and Vendors

A call is one record on its way from the request (`NewCall`) through the configured
vendors (`NextVendor`, `Verdict`) to its answer and its status (`Done`). A price
table is the set of days it has rows for and the moment of its download; a feed
is the set of moments its items were published at. `SourceCalls` holds what all calls
share, among it the price file; `Vendors` what each vendor may answer. Days
are what the calendars of host, UTC, China and exchange make of a moment. A frame
without dates is a table without days: the price tool refuses it at once, the
others write it to the file first and refuse it each time the file serves it
(`YahooPrices`, `Serve`). Eastmoney is one request over two transports, the second
taken when the first fails (`Eastmoney`); the source says nothing of the first, so
that "available" speaks of requests and not of transports. The Chinese sentiment
sources are searched once for each keyword, up to three when the company's name was
found (`MoodSearch`). Left
out: the arithmetic of indicators, the parsing of answers, the cut of world news
to its limit, midnight passing while a report is waited for.

### MarketQuality, SavedNumbers and Readiness

A table of daily rows is a bag of rows, so that equal rows are duplicates; of a
row's values only matters whether they are coherent and equal. `Assess` is the
producer (`market_data_validator.py`), which works on the frame a vendor sent;
`Proves` the offline proof (`market_inputs.py`), which works on the table saved
with the evidence; they are translated apart from each other. A delivery may repeat
the name of a column: the producer works on it, the proof and a review refuse it. `Readiness` puts a
clock around them: the policy is frozen at the start, rows are read, assessed and
recorded at moments of their own, and `Decide` derives checks and findings from
the records alone. Its second part freezes the report and reviews one number of
it: `SavedNumbers` has exact decimals (a literal is its digits, the length of its
fraction and its exponent) and the rules which neighbours make a selection
a part of another number. A source is withheld by its own word or by its record's
status (`Selected`); a row is named by its label, which need not be a date (`Cell`).

In practice Yahoo's rows carry their zone in the stamp, and those of Chinese
services carry none, so that runs on the latter are never ready; a run that starts
in the evening west of UTC is not either, since its day is over in UTC.

### ResearchMemory and ReferenceEvaluation

`ResearchMemory` has one image per analysis, `decision`, which is written under a
lock and read without, `completion`, the scheduler's `cursor` and `batchLock`,
and what each reviewer and each analysis is at. A write is the merge of a
candidate made of an older image (`Mergeable`, `Merge`); several processes do
that at once and die at any point.

`ReferenceEvaluation` is one decision in detail: the plan frozen at its start,
downloads that are dated later than the clock was read, closes that are final only
when a day is over in its zone, the window of sessions both symbols share, the outcome
and its derivation again from the saved facts (`Replay`), across releases of the
evaluator.

## The runs

| Run | Instance | What it shows |
|---|---|---|
| `store` | two tasks, two requests, two processes, one copy, counters up to 2 | no lost update, no reissued head, no second verdict; a batch is atomic; a clear interrupted between its transactions tells the truth; the store implements `ExactlyOnce` |
| `registry_owners` | two runs of two tasks, no streams, no failing calls | one owner at a time, never evicted, no removal beside it |
| `registry_progress` | one run, one caller beside the worker, one stream, two failing calls, fairness | success means nothing is left; signals go to the own group; cleanups are answered, cancelled workers retire, retries free the slot |
| `supervisor_pool` | two calls, room for two, four identities, fairness | nothing escapes, one caretaker per owner, owners leave when nothing resists for ever |
| `supervisor_starvation` | one call after the other, fairness | a counterexample: see below |
| `memory_reviews` | two analyses, two reviewers, one fault, fairness | saved components stay, contexts and completions are past, facts come first, refusals pass, every analysis has its turn |
| `memory_outcomes` | instruments east, west, around the clock and unknown; one fault, two releases, fairness | endpoints are final and fair, outcomes pass their replay, decisions settle |
| `analysis_run` | two analysts at once, two rounds of tools, two faults, fairness | citations resolve, nothing is heard twice, ratings are warranted, published decisions stay, captures are replayed, runs complete |
| `analysis_refetch` | the same, one analyst at a time | a counterexample: see below |
| `sources_answers` | two calls of every tool at every pair of days, Chinese and American, every vendor failing | absence was seen, nothing is from after the run, available is undisturbed, every call is answered |
| `sources_settled` | the same | a counterexample: see below |
| `gate` | tables of up to four rows, zones east, west, unknown and not admitted, six moments | recommendations are warranted, the proof is exact, matches are exact |

### Why the bounds are enough

* Store: a lost update needs two captures of one head, a head reissue delete and
  recreate, a broken clear a second process in the gap; a batch needs two tasks,
  and `MaxCounter` is small enough to be reached.
* Registry: a late cleanup hurting a newer run needs two runs; removals need a
  second task; those are in `registry_owners`, without streams and faults, which
  do not touch the slot. Overlapping cleanups and resumed stops concern one run:
  `registry_progress` has the worker and a caller, which may retry for ever, and
  two faults, so that a retry may fail as well. The theorems hold for any number.
* Supervisor: a snapshot outdated by another call needs two calls; starvation
  needs two owners.
* Memory: a second save that contradicts the first needs two reviewers or a
  reviewer and an analysis of a past day; a cursor that is unfair needs two
  records and room for one in a batch. An evaluation needs days that end in one zone
  before another (three moments a day, zones east and west) and a clock that runs
  over five of them.
* Analysis: a record lost between ledger, checkpoint and bundle needs two
  captures of one analyst and two crashes; so does a completion of another decision.
* Sources: a file shared by runs of two days needs two calls; every other tool is
  alone in its call. Histories of two days reach every branch of staleness,
  coverage and warm-up; one repetition of a rate-limited request is one that may
  help and may not.
* Gate: an indicator that needs two rows, ages of at most a day, and rows of the
  day before the first, the day of the run and those between make every finding
  possible; two moments a day with zones a moment east and west put midnight in
  four places. Numbers of four digits with an exponent of one contain ties,
  signs, places beyond those written and numbers beyond the limit.

Packets, identities, times and faults are bounded, so a behaviour may come to an
end when they are used up or everything is done; the runs of such modules disable
the deadlock check, the registry and the supervisor keep it. Symmetry is used for
model values in runs without liveness properties only.

### Fairness

`TaskStore` assumes none. In the registry a thread that can run does (weak
fairness), and a thread that waits for a mutex gets it in the end (strong
fairness): a cleanup that waits gives the mutex of the run up for up to 10 ms on
each pass, and nobody else keeps it. A signalled process exits and a reader sees
the end of its stream when the pipe's writers are gone. Nothing is assumed about
children that are not signalled, callers, retries or failing system calls. In
the supervisor a thread inside a call runs on; that calls keep coming is a
hypothesis of the properties, not of the specification.

In `ResearchMemory` processes run on and time passes; analyses of an instrument
keep coming, so that `ListPending` is strongly fair: batches of another reviewer
may disable it again and again. In `ReferenceEvaluation` the steps of a review, the
clock and the reflection are weakly fair; that reviews keep coming is a
hypothesis of `EveryDecisionSettles`. In `AnalysisRun` the process is started
again after a crash and its steps run on; models and sources answer something,
since every request has a timeout. Each call of `SourceCalls` is a thread of its
own and weakly fair. `Readiness` assumes none.

### What was found

`supervisor_starvation`: `retry_pending` (`json_command.rs:390`) walks the pending
owners in order and stops at its deadline, and the cleanup of an owner that
resists lasts until that deadline. With calls one after the other, an owner
behind it is never retried, although its cleanup might succeed at once, and the
pool may stay full for good. The message of `json_command.rs:101` promises the opposite: "Try again to
retry cleanup."

`analysis_refetch`: `CHANGELOG.md:42` promises to replay captured inputs after an
interruption without fetching them again. If the process dies while the
checkpoint of an analyst's turn is still being written, the repeated turn takes
the undelivered capture into its bundle, and after a second crash `restore`
(`evidence/ledger.py:744`) takes it for checkpointed: the call goes to the vendor
again and the earlier record stays in the evidence undelivered.

`sources_settled`: `market_data_validator.py:3` says that only elapsed rows are
used. On a host whose calendar is ahead of the exchange, a request for the host's
day saves the running session's partial row; once that day is over, a snapshot
for it reads the file, whose age nobody asks for a past day
(`stockstats_utils.py:219`), and the partial row counts as complete.

## The proofs

All theorems hold for every value of the constants under the modules' named
assumptions. Most only give the constants their types: bounds are natural
numbers, model values differ (`StoreAssumption`, `RegistryAssumption`,
`SupervisorAssumption`, `MemoryAssumption`, `EvaluationAssumption`,
`ConstantsAreRight`). The others speak of the world: calendars do not run
backwards (`CalendarsAdvance`, `ClocksAreRight`), a close is final once its day
is over where the code says so (`RowsSettle`, `SettlesByMidnight`), the
configuration names vendors for every tool (`ChainsAreRight`), a vendor delivers a
finite table with at least one row and none of a day after the analysis, which is
what `load_ohlcv` hands to the assessment, and a reviewer's literals are decimals
(`PlansAreRight`, `IsDelivery`, `IsRequest`). TLC evaluates all of them in the runs.

Each `...Proofs` module goes the same way: an invariant `IInv`, a conjunction of
named parts that TLC checked on a run's instance before it was proved; one lemma
per action that it is kept; from it the theorems. Where a proof needs an
induction over numbers (a set can be sorted, exponents add up) it takes a least
counterexample, so that no theorem has an operator as a parameter.

* `TaskStoreProofs`: an invariant `IInv` in named parts is shown inductive, with one
  lemma per action. The safety properties are not inductive by themselves: that
  bodies match heads rests on what a row says of the request that wrote the body,
  that heads are never reissued rests on receipts lying behind the heads, and that a clear tells
  the truth rests on where its caller is. From it follow type correctness, the
  five state properties, the action properties `DecisionsAreFinal`, `HeadsOnlyAdvance`
  and `AbandonedClearStaysUnknown`, and the refinement `Spec => Promise!Spec`. That an
  import is never committed after another command needs that each commit of another
  command has shut the gate (`CommitsShutTheGate`).
* `ExecutionRegistryProofs`: the parts of `IInv` relate worker and guard
  (`WorkersMatch`), tree and attachment (`TreesMatch`), mutex and cleanup
  (`HoldersMatch`), cleanup and run (`CleanupsMatch`), slot and phase
  (`SlotMatches`), gate and slot (`GateMatches`), and say what `Finished` means
  (`FinishedIsQuiet`). That only the owner lives follows from "a started run keeps the slot until
  it is finished" and "a finished run is gone", neither of which holds through a step without the
  others.
* `SupervisorProofs`: the invariant says which call looks after which owner; that
  no process escapes the pool, and hence that the limit is a limit on processes,
  follows.
* `ReferenceEvaluationProofs`: the invariant says of each download that its rows
  are those the provider had when they were read, at a moment after the clock and
  at most `Latency` before the date it is given, and of a saved outcome that it is
  what follows from its saved facts. With `CalendarsAdvance` and `RowsSettle` an
  outcome rests on closes that were final when read and unknown at the decision,
  and it passes its own replay.
* `SourceCallsProofs`: every call is `Sound`. An open call has its dates, notes its
  vendors' failures, and holds no row of a later day unless the ledger has noticed
  it; a done call is `Answered`; the price file holds a table. No answer looks
  past its run's day, and a record marked available hides no unanswered request.
  That a reported absence was seen (`AbsencesAreObserved`) rests on a second
  invariant, `AInv`: an open call is `Candid`, which says that a vendor it has
  not heard from left its outcome as it was, that what a vendor served was published
  since its adapter was entered, and which subreddits the adapter has behind it. Its
  hardest step is a feed that shows its newest items only: if the oldest shown is older
  than the window, nothing of the window was missed (`NothingWasMissed`), which
  sorts a finite set by a least counterexample. It needs that what is published is a
  finite set, that the moments a feed may look back to are in the calendar, and that
  each configured vendor is routed for its tool (`ConstantsAreRight`,
  `ChainsAreRight`). A window of a single day is exempt: the code judges coverage by
  days (`date_window.py:62`), so that an item of that day may lie before the oldest
  one shown.
* `ResearchMemoryProofs`: a save that is not refused only adds (`MergeAdds`: the
  merged image is valid and extends the one on disk). All else rests on that and
  on the batch lock: two reviewers that are past their list never have the same
  instrument, so that a run under review is completed by its reviewer only, and
  what a reviewer read before it locked is still so. Lessons of a context are
  complete and can therefore not grow.
* `AnalysisRunProofs`: the invariant relates memory, ledger and checkpoint. What is
  on disk is checkpointed, or was handed on, or will be replayed
  (`NothingIsMissed`); a private graph has heard each record once, and only records
  of its bundle, which are on disk (`ChildrenAreGood`); once something is frozen
  the run never leaves its last state, and since no analyst works any more the
  ledger that warranted it stands still (`FrozenMatches`, `SlotsMatch`). That the
  records of a step are handed on once each needs that a finite set of numbers can
  be sorted.
* `ReadinessProofs`: most of it is about operators, not steps. An assessment counts
  the rows of a table, the proof recounts them from the rows saved in it, each in
  its own terms: the two give every row the same state (`StatesAgree`), find the
  same completed day (`CompletionsAgree`) and hence the same everything
  (`AssessmentIsProvable`, `ProofAgrees`). What the gate holds against a snapshot is
  exactly what is wrong with its rows (`ClearIsSound`), and each check passes exactly
  if nothing of its kind is wrong (`MarketIsSound`, `CheckIsPassed`,
  `ReadyIsPassed`). The invariant carries that over time: the policy is the one
  frozen at the start, rows are read after it and recorded after that, a record's
  assessment is the one of its own table at the moment it was read, and the
  decision is what the records then said (`RecordsAreInOrder`, `DecisionFollows`);
  without the order of the three moments the two directions of `GateIsWarranted`
  come apart at midnight.
  Reviews have an invariant of their own, `RInv`: what a review says follows from a
  record that stays where it is, since records are only added. Under it
  `RoundingIsExact` proves the arithmetic for every number of digits, exponent and
  places: powers of ten are a recursive function, whose existence is shown by
  joining its beginnings, exponents add up (`TenAdds`), and rounding half up picks
  the nearest multiple (`NearestMultiple`, `NearestSigned`). `MatchesFollow` needs
  no hypothesis and speaks of selections and bindings by the code's rules on
  characters; `MatchesAreExact` adds what readers say of them, under the hypothesis
  that they agree with the rules (`ReadersAgree`, which TLC evaluates on the
  run's questions). Whether the rules are good rules is for a reader to judge.

### Only model-checked

* Properties under fairness (`CleanupsAreAnswered`, `CancelledWorkersRetire`,
  `RetriesFreeTheSlot`, `OwnersLeave`, `EveryRunHasItsTurn`, `EveryDecisionSettles`,
  `EveryCallIsAnswered`, `Completes`): the proof system does not reason about
  `ENABLED`.
* The properties that runs refute.

## Not modelled

* The durable journal, the coordinator of the recovery runtime and the publisher:
  only the worker thread (`ExecutionRegistry`) and the projection of a row onto a
  task body (`TaskStore`) are there. Two stop requests and a worker's cleanup that
  record each other's outcome, a publication that fails once, and projections out
  of order are the hazards that no property covers.
* Parsing of the process's output, the reducer in its two implementations, the
  consumer, the queue and the client's own bookkeeping of mutations: the user
  interface's side of the journal.
* Validation of documents, schemas, settings and credentials, report export,
  views, the command line client: no state that two calls or two processes share.
* The Windows job object, acceptance builds and scripts.

