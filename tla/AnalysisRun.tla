---------------------------- MODULE AnalysisRun ----------------------------
(* One research run from its first start to its completed report, through  *)
(* every interruption: the analysts' private graphs and their tools, the   *)
(* evidence ledger, the checkpoint from which they are resumed, the gate   *)
(* before a recommendation, and the records that completion freezes.       *)
(*                                                                         *)
(* A record of the ledger is its analyst and its number; what it says is   *)
(* reduced to whether it limits a recommendation.  Reports and debates are *)
(* prose and are left out: the only texts told apart are final decisions.  *)
EXTENDS Naturals, Sequences, FiniteSets

CONSTANTS
    Analysts,          \* the selected analysts
    Prefetching,       \* those without tools, which fetch before they ask the model
    Calls,             \* a tool and its effective parameters
    Requests,          \* the calls each analyst may make
    Lenient,           \* those whose tool turns an unsaved record into a text
    MaxToolRounds,     \* rounds of tool calls before the report is asked for
    ConcurrencyLimit,  \* analysts at work at the same time
    DebateRounds,      \* rounds of the research debate
    RiskRounds,        \* rounds of the risk debate
    MaxFaults,         \* bound on crashes and failing sources
    None               \* not a final decision

ASSUME ConstantsAreRight ==
    /\ Prefetching \subseteq Analysts
    /\ Requests \in [Analysts -> SUBSET Calls]
    /\ Lenient \subseteq Calls
    /\ {MaxToolRounds, ConcurrencyLimit, DebateRounds, RiskRounds} \subseteq Nat \ {0}
    /\ MaxFaults \in Nat

VARIABLES
    ledger,     \* bundle.json: the records of each analyst, in their order
    saved,      \* what the checkpoint holds
    live,       \* the graph's state in memory
    process,    \* what the process is at
    slots,      \* analysts at work
    results,    \* records the analyst's running step was given
    unsaved,    \* calls it was given the error of their records for
    replay,     \* records restored from disk that no checkpoint knows
    paper,      \* what completion has frozen
    published,  \* final decisions shown as completed
    faults

vars == <<ledger, saved, live, process, slots, results, unsaved, replay, paper, published, faults>>

-----------------------------------------------------------------------------
(* The graph's state.                                                      *)

Statuses == {"available", "limited"}
Records == [call : Calls, status : Statuses]

(* A private graph: the node that runs next, the rounds of tools so far,   *)
(* the calls of the last answer, the records in its messages, and how many *)
(* of the analyst's records its bundle holds.                              *)
NewChild == [node |-> "agent", rounds |-> 0, asked |-> {}, heard |-> <<>>, known |-> 0]

NewState == [child |-> [a \in Analysts |-> NewChild], filed |-> {},
             stage |-> "analysts", turns |-> 0, final |-> None]

Nothing == [a \in Analysts |-> {}]
EmptyLedger == [a \in Analysts |-> <<>>]
EmptyCheckpoint == [begun |-> FALSE, state |-> NewState]
Parts == <<"decision", "completion", "snapshot", "identity">>

Init ==
    /\ ledger = EmptyLedger
    /\ saved = EmptyCheckpoint
    /\ live = NewState
    /\ process = "down"
    /\ slots = {} /\ results = Nothing /\ unsaved = Nothing /\ replay = Nothing
    /\ paper = [p \in {Parts[i] : i \in DOMAIN Parts} |-> None]
    /\ published = {}
    /\ faults = 0

-----------------------------------------------------------------------------
(* Starting and stopping.                                                  *)

(* Fault: only records of finished analysts count as checkpointed. *)
CommittedOfParent(a) == IF a \in saved.state.filed THEN saved.state.child[a].known ELSE 0

(* The checkpoint's bundle, joined with those of interrupted private graphs. *)
Committed(a) == saved.state.child[a].known

(* Fault: what no checkpoint knows is fetched again. *)
UncheckpointedForgotten(a) == {}

Uncheckpointed(a) == (Committed(a) + 1) .. Len(ledger[a])

(* A new run: a new identity, an empty ledger, a checkpoint of the input   *)
(* that may not be on disk before the analysts start.                      *)
StartFresh ==
    /\ process = "down" /\ ~saved.begun
    /\ process' = "running"
    /\ live' = NewState
    /\ \E begun \in BOOLEAN : saved' = [EmptyCheckpoint EXCEPT !.begun = begun]
    /\ ledger' = EmptyLedger
    /\ UNCHANGED <<slots, results, unsaved, replay, paper, published, faults>>

(* The checkpoint's state, and the ledger joined with what is on disk.     *)
Resume ==
    /\ process = "down" /\ saved.begun
    /\ process' = "running"
    /\ live' = saved.state
    /\ replay' = [a \in Analysts |-> Uncheckpointed(a)]
    /\ UNCHANGED <<ledger, saved, slots, results, unsaved, paper, published, faults>>

(* Nothing in memory survives the process.                                 *)
GoDown ==
    /\ process' = "down"
    /\ live' = NewState
    /\ slots' = {} /\ results' = Nothing /\ unsaved' = Nothing /\ replay' = Nothing

Crash ==
    /\ process \notin {"down", "over"}
    /\ faults < MaxFaults /\ faults' = faults + 1
    /\ GoDown
    /\ UNCHANGED <<ledger, saved, paper, published>>

-----------------------------------------------------------------------------
(* The analysts.  A checkpoint is written behind the step that it saves:   *)
(* it may or may not be on disk when the process dies.                     *)

FreeSlot == Cardinality(slots) < ConcurrencyLimit

AnalystStarts(a) ==
    /\ process = "running" /\ live.stage = "analysts"
    /\ a \notin live.filed \union slots
    /\ FreeSlot
    /\ slots' = slots \union {a}
    /\ UNCHANGED <<ledger, saved, live, process, results, unsaved, replay, paper,
                   published, faults>>

Works(a) == process = "running" /\ a \in slots

(* Checkpoints reach the disk in the order in which they are written.      *)
Checkpointed(state) == [begun |-> TRUE, state |-> state]

(* The step of a private graph ends in `child'.                            *)
ChildStep(a, child) ==
    /\ live' = [live EXCEPT !.child[a] = child]
    /\ \/ saved' = Checkpointed([saved.state EXCEPT !.child[a] = child])
       \/ UNCHANGED saved
    /\ results' = [results EXCEPT ![a] = {}] /\ unsaved' = [unsaved EXCEPT ![a] = {}]
    /\ UNCHANGED <<ledger, process, slots, replay, paper, published>>

(* Fault: the bundle of a step is taken before its tools are run. *)
KnownBefore(a) == live.child[a].known

(* Every step takes the analyst's whole part of the ledger with it.        *)
Known(a) == Len(ledger[a])

(* The model answers with calls, or with its report.                       *)
AgentTurn(a) ==
    /\ Works(a) /\ a \notin Prefetching /\ live.child[a].node = "agent"
    /\ \E asked \in SUBSET Requests[a] :
         ChildStep(a, [live.child[a] EXCEPT !.asked = asked, !.known = Known(a),
                            !.node = IF asked = {} THEN "done" ELSE "tools"])
    /\ UNCHANGED faults

Collecting(a) ==
    Works(a) /\ live.child[a].node = IF a \in Prefetching THEN "agent" ELSE "tools"

(* What the running step still has to be given.                            *)
Outstanding(a) ==
    (IF a \in Prefetching THEN Requests[a] ELSE live.child[a].asked)
        \ ({ledger[a][i].call : i \in results[a]} \union unsaved[a])

Replayable(a, c) == {i \in replay[a] : ledger[a][i].call = c}

(* A call the interrupted step made before is answered from disk, in the   *)
(* order of the captures.                                                  *)
Replay(a, c) ==
    /\ Collecting(a) /\ c \in Outstanding(a)
    /\ \E i \in Replayable(a, c) :
         /\ \A j \in Replayable(a, c) : i <= j
         /\ results' = [results EXCEPT ![a] = @ \union {i}]
         /\ replay' = [replay EXCEPT ![a] = @ \ {i}]
    /\ UNCHANGED <<ledger, saved, live, process, slots, unsaved, paper, published, faults>>

(* Any other call goes to the vendors; its record is on disk before its    *)
(* text is handed on.                                                      *)
Capture(a, c) ==
    /\ Collecting(a) /\ c \in Outstanding(a)
    /\ Replayable(a, c) = {}
    /\ \E status \in Statuses :
         ledger' = [ledger EXCEPT ![a] = Append(@, [call |-> c, status |-> status])]
    /\ results' = [results EXCEPT ![a] = @ \union {Len(ledger[a]) + 1}]
    /\ UNCHANGED <<saved, live, process, slots, unsaved, replay, paper, published, faults>>

(* Fault: what is still to be written is dropped when the stream ends. *)
FlushedNever == saved

(* Every checkpoint is on disk when the stream ends, also by an error.     *)
Flushed == Checkpointed(live)

(* The source raises: that is recorded, and the error ends the run's       *)
(* attempt.  If the record cannot be saved, the attempt ends like a crash, *)
(* except for the indicators' tool, which catches the error.               *)
CaptureFails(a, c) ==
    /\ Collecting(a) /\ c \in Outstanding(a)
    /\ Replayable(a, c) = {}
    /\ faults < MaxFaults /\ faults' = faults + 1
    /\ ledger' = [ledger EXCEPT ![a] = Append(@, [call |-> c, status |-> "limited"])]
    /\ saved' = Flushed
    /\ GoDown
    /\ UNCHANGED <<paper, published>>

(* There the error is the text that is handed on; it names no record, and  *)
(* an interrupted step makes the call again.                               *)
UnsavedIsText(a, c) ==
    /\ Collecting(a) /\ c \in Outstanding(a) \cap Lenient
    /\ Replayable(a, c) = {}
    /\ faults < MaxFaults /\ faults' = faults + 1
    /\ unsaved' = [unsaved EXCEPT ![a] = @ \union {c}]
    /\ UNCHANGED <<ledger, saved, live, process, slots, results, replay, paper, published>>

(* The messages of the step, in the order of the records.                 *)
Heard(a) ==
    live.child[a].heard \o
        CHOOSE s \in [1 .. Cardinality(results[a]) -> results[a]] :
            \A i, j \in DOMAIN s : i < j => s[i] < s[j]

(* After its last round of tools the analyst is told to write its report.  *)
MoreOrWrapUp(rounds) == IF rounds >= MaxToolRounds THEN "wrap_up" ELSE "agent"

ToolsTurn(a) ==
    LET rounds == live.child[a].rounds + 1
    IN /\ Collecting(a) /\ a \notin Prefetching /\ Outstanding(a) = {}
       /\ ChildStep(a, [node |-> MoreOrWrapUp(rounds), rounds |-> rounds, asked |-> {},
                        heard |-> Heard(a), known |-> Known(a)])
       /\ UNCHANGED faults

(* The turn ends the analyst whatever the model answers.                   *)
WrapUp(a) ==
    /\ Works(a) /\ live.child[a].node = "wrap_up"
    /\ ChildStep(a, [live.child[a] EXCEPT !.node = "done", !.known = Known(a)])
    /\ UNCHANGED faults

(* An analyst without tools reports on what it fetched.                    *)
PrefetchTurn(a) ==
    /\ Collecting(a) /\ a \in Prefetching /\ Outstanding(a) = {}
    /\ ChildStep(a, [live.child[a] EXCEPT !.node = "done", !.heard = Heard(a),
                                          !.known = Known(a)])
    /\ UNCHANGED faults

(* The report is filed with the parent graph; the last one ends the stage. *)
File(a) ==
    LET filed == live.filed \union {a}
        stage == IF filed = Analysts THEN "debate" ELSE "analysts"
    IN /\ Works(a) /\ live.child[a].node = "done"
       /\ slots' = slots \ {a}
       /\ live' = [live EXCEPT !.filed = filed, !.stage = stage]
       /\ \/ saved' = Checkpointed(
                 IF stage = "debate" THEN live'
                 ELSE [saved.state EXCEPT !.filed = @ \union {a}, !.child[a] = live.child[a]])
          \/ UNCHANGED saved
       /\ UNCHANGED <<ledger, process, results, unsaved, replay, paper, published, faults>>

-----------------------------------------------------------------------------
(* The debates and the gate.                                               *)

ParentStep(state) ==
    /\ process = "running"
    /\ live' = state
    /\ saved' = Checkpointed(state) \/ UNCHANGED saved
    /\ UNCHANGED <<ledger, process, slots, results, unsaved, replay, paper, published, faults>>

(* Speakers take turns until each had its rounds.                          *)
Speak(stage, turns, next) ==
    /\ live.stage = stage
    /\ ParentStep(IF live.turns + 1 >= turns
                  THEN [live EXCEPT !.stage = next, !.turns = 0]
                  ELSE [live EXCEPT !.turns = @ + 1])

Debate == Speak("debate", 2 * DebateRounds, "plan")
Plan == Speak("plan", 1, "trade")
Trade == Speak("trade", 1, "risk")
RiskDebate == Speak("risk", 3 * RiskRounds, "portfolio")

(* Fault: one good source per analyst is enough. *)
ReadyIfAnySource ==
    \A a \in Analysts : \E i \in DOMAIN ledger[a] : ledger[a][i].status = "available"

(* Every selected analyst has sources, and nothing on record limits them.  *)
Ready ==
    \A a \in Analysts : /\ ledger[a] # <<>>
                        /\ \A i \in DOMAIN ledger[a] : ledger[a][i].status = "available"

(* What an assessment is derived from.                                     *)
Inputs == [a \in Analysts |-> Len(ledger[a])]

(* The portfolio manager's model is asked only if the gate is open; it may *)
(* answer differently each time.                                           *)
Manage ==
    /\ live.stage = "portfolio"
    /\ \E rating \in IF Ready THEN {"directional", "REVIEW"} ELSE {"REVIEW"} :
       \E text \in IF rating = "directional" THEN {1, 2} ELSE {0} :
         ParentStep([live EXCEPT !.stage = "ended",
                       !.final = [rating |-> rating, text |-> text, inputs |-> Inputs]])

-----------------------------------------------------------------------------
(* Completion.                                                             *)

(* The graph has run; its checkpoints are written before the stream closes. *)
StreamEnds ==
    /\ process = "running" /\ live.stage = "ended"
    /\ saved' = Flushed
    /\ process' = "decision"
    /\ UNCHANGED <<ledger, live, slots, results, unsaved, replay, paper, published, faults>>

After(part) ==
    LET i == CHOOSE i \in DOMAIN Parts : Parts[i] = part
    IN IF i = Len(Parts) THEN "frozen" ELSE Parts[i + 1]

(* Before anything is frozen the assessment is derived once more from the  *)
(* ledger, and a recommendation that it does not allow is refused.  The    *)
(* guard on saved requests never bites: every tool is given the run's own  *)
(* instrument.                                                             *)
Consistent(final) ==
    /\ final.inputs = Inputs
    /\ final.rating = "directional" => Ready

(* Fault: what is on disk from an interrupted completion is refused. *)
AcceptsNew(part, final) == Consistent(final) /\ paper[part] = None

(* Each part is written once; a retry must bring the same.                 *)
Accepts(part, final) == Consistent(final) /\ paper[part] \in {None, final}

Written(part, final) == [paper EXCEPT ![part] = final]

(* A contradiction ends the attempt.                                       *)
Freeze(part) ==
    /\ process = part
    /\ IF Accepts(part, live.final)
       THEN /\ paper' = Written(part, live.final)
            /\ process' = After(part)
            /\ UNCHANGED <<live, slots, results, unsaved, replay>>
       ELSE GoDown /\ UNCHANGED paper
    /\ UNCHANGED <<ledger, saved, published, faults>>

Publish ==
    /\ process = "frozen"
    /\ published' = published \union {live.final}
    /\ process' = "completed"
    /\ UNCHANGED <<ledger, saved, live, slots, results, unsaved, replay, paper, faults>>

ClearCheckpoint ==
    /\ process = "completed"
    /\ saved' = [saved EXCEPT !.begun = FALSE]
    /\ process' = "over"
    /\ UNCHANGED <<ledger, live, slots, results, unsaved, replay, paper, published, faults>>

-----------------------------------------------------------------------------
Progress ==
    \/ StartFresh \/ Resume
    \/ \E a \in Analysts :
         \/ AnalystStarts(a) \/ AgentTurn(a) \/ ToolsTurn(a) \/ WrapUp(a)
         \/ PrefetchTurn(a) \/ File(a)
         \/ \E c \in Calls : Replay(a, c) \/ Capture(a, c)
    \/ Debate \/ Plan \/ Trade \/ RiskDebate \/ Manage \/ StreamEnds
    \/ \E p \in DOMAIN paper : Freeze(p)
    \/ Publish \/ ClearCheckpoint

Fault == Crash \/ \E a \in Analysts, c \in Calls : CaptureFails(a, c) \/ UnsavedIsText(a, c)

Next == Progress \/ Fault

Spec == Init /\ [][Next]_vars

(* Threads, models and sources go on, and a run that stopped is started    *)
(* again.                                                                  *)
FairSpec == Spec /\ WF_vars(Progress)

-----------------------------------------------------------------------------
(* Properties.                                                             *)

(* Every record in the messages of a private graph is in the bundle of the *)
(* same state, and that bundle is on disk: what a model was shown can be   *)
(* cited and resolved, also after a restart (emit_turn, capture).          *)
CitationsResolve ==
    \A state \in {live, saved.state} : \A a \in Analysts :
        LET child == state.child[a]
        IN /\ \A i \in DOMAIN child.heard : child.heard[i] <= child.known
           /\ child.known <= Len(ledger[a])

(* "Already checkpointed captures do not replay as new calls": no record   *)
(* is given to an analyst twice, however often the run is resumed          *)
(* (restore, capture).                                                     *)
NothingHeardTwice ==
    \A a \in Analysts : LET heard == Heard(a)
                        IN \A i, j \in DOMAIN heard : heard[i] = heard[j] => i = j

(* "Captures present only on disk replay once": a vendor is not asked      *)
(* again for what is on disk and was neither handed on nor checkpointed    *)
(* (restore, capture).                                                     *)
CapturesAreReplayed ==
    [][\A a \in Analysts : \A i \in 1 .. Len(ledger[a]) :
         /\ Len(ledger'[a]) > Len(ledger[a])
         /\ ledger[a][i].call = ledger'[a][Len(ledger'[a])].call
         => \/ i <= saved.state.child[a].known
            \/ i \in results[a]
            \/ \E k \in DOMAIN live.child[a].heard : live.child[a].heard[k] = i]_vars

(* A recommendation is frozen or shown only if every record of the run,    *)
(* also one that no analyst was given, allows it (gated_portfolio_manager, *)
(* record_decision).                                                       *)
Shown == (published \union {paper[p] : p \in DOMAIN paper}) \ {None}

RatingIsWarranted ==
    \A final \in Shown : final.rating = "directional" =>
        \A a \in Analysts :
            /\ ledger[a] # <<>>
            /\ \A i \in DOMAIN ledger[a] : ledger[a][i].status = "available"

(* Nothing is frozen or shown that the checkpoint would not produce again: *)
(* all parts of a completion and every showing of it are of one decision   *)
(* (record_decision, run).                                                 *)
FinalIsFinal == \A final \in Shown : final = saved.state.final

(* Every run ends with a completed report: no crash leaves a checkpoint, a *)
(* ledger or a frozen part that refuses to go on, and no model that keeps  *)
(* calling tools keeps it from reporting (create_run_state, more_or_wrap_up, *)
(* record_decision).                                                       *)
Completes == <>(process = "over")

(* "Replay uncheckpointed captured inputs after interruption without       *)
(* refetching, while retaining new IDs for genuinely repeated calls": what *)
(* is on disk and was not handed on is not asked for again.                *)
NothingIsRefetched ==
    [][\A a \in Analysts : \A i \in 1 .. Len(ledger[a]) :
         /\ Len(ledger'[a]) > Len(ledger[a])
         /\ ledger[a][i].call = ledger'[a][Len(ledger'[a])].call
         => \/ i \in results[a]
            \/ \E k \in DOMAIN live.child[a].heard : live.child[a].heard[k] = i]_vars
-----------------------------------------------------------------------------
(* The inductive invariant.                                                *)

Finals == [rating : {"directional", "REVIEW"}, text : 0 .. 2, inputs : [Analysts -> Nat]]
Children == [node : {"agent", "tools", "wrap_up", "done"}, rounds : Nat, asked : SUBSET Calls,
             heard : Seq(Nat), known : Nat]
Stages == {"analysts", "debate", "plan", "trade", "risk", "portfolio", "ended"}
States == [child : [Analysts -> Children], filed : SUBSET Analysts, stage : Stages,
           turns : Nat, final : Finals \union {None}]

(* What comes after the graph has run.                                     *)
Completing == {"decision", "completion", "snapshot", "identity", "frozen", "completed", "over"}

(* Every variable has its type: what is restored from disk is a state of   *)
(* the graph.                                                              *)
TypeOK ==
    /\ ledger \in [Analysts -> Seq(Records)]
    /\ saved \in [begun : BOOLEAN, state : States] /\ live \in States
    /\ process \in {"down", "running"} \union Completing
    /\ slots \subseteq Analysts
    /\ results \in [Analysts -> SUBSET Nat] /\ replay \in [Analysts -> SUBSET Nat]
    /\ unsaved \in [Analysts -> SUBSET Calls]
    /\ paper \in [{Parts[i] : i \in DOMAIN Parts} -> Finals \union {None}]
    /\ published \subseteq Finals \union {None}
    /\ faults \in Nat

(* A private graph, in memory or in a checkpoint, has heard each record    *)
(* once, and only records of its bundle, which are on disk.                *)
GoodChild(a, child) ==
    /\ \A i \in DOMAIN child.heard : child.heard[i] \in 1 .. child.known
    /\ \A i, j \in DOMAIN child.heard : child.heard[i] = child.heard[j] => i = j
    /\ child.known <= Len(ledger[a])

ChildrenAreGood ==
    \A a \in Analysts : GoodChild(a, live.child[a]) /\ GoodChild(a, saved.state.child[a])

(* What a step was given, and what is still to be replayed, is on disk and *)
(* was not heard before.                                                   *)
HasHeard(a, i) == \E k \in DOMAIN live.child[a].heard : live.child[a].heard[k] = i

ResultsAreNew ==
    \A a \in Analysts :
        /\ results[a] \union replay[a] \subseteq 1 .. Len(ledger[a])
        /\ results[a] \intersect replay[a] = {}
        /\ \A i \in results[a] \union replay[a] : ~HasHeard(a, i)
        /\ results[a] # {} => Collecting(a)

(* Whatever is on disk is checkpointed, or was handed on, or will be       *)
(* replayed.                                                               *)
NothingIsMissed ==
    process # "down" =>
        \A a \in Analysts :
            /\ saved.state.child[a].known <= live.child[a].known
            /\ \A i \in 1 .. Len(ledger[a]) :
                 i <= saved.state.child[a].known \/ i \in results[a] \union replay[a] \/ HasHeard(a, i)

(* Analysts work only before the debates, and each until it has filed.     *)
SlotsMatch ==
    /\ slots \intersect live.filed = {}
    /\ \A state \in {live, saved.state} : state.stage # "analysts" => state.filed = Analysts
    /\ process # "running" => slots = {}

(* Completion works on the last checkpoint and begins with the decision.   *)
ProcessMatches ==
    /\ process = "down" => live = NewState /\ results = Nothing /\ replay = Nothing
    /\ process \in Completing =>
         live.stage = "ended" /\ saved.state = live /\ (saved.begun \/ process = "over")
    /\ process \in Completing \ {"decision"} => paper["decision"] = live.final

(* Once something is frozen the run never leaves its last state.           *)
FrozenMatches ==
    Shown # {} =>
        /\ saved.begun \/ process = "over"
        /\ saved.state.stage = "ended"
        /\ process # "down" => live = saved.state

IInv ==
    /\ TypeOK /\ ChildrenAreGood /\ ResultsAreNew /\ NothingIsMissed
    /\ SlotsMatch /\ ProcessMatches /\ FrozenMatches /\ FinalIsFinal /\ RatingIsWarranted
=============================================================================
