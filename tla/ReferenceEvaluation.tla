------------------------ MODULE ReferenceEvaluation ------------------------
(***************************************************************************)
(* What became of one decision (tradingagents/memory/evaluation.py).  When *)
(* an analysis starts, its plan freezes which prices will measure the      *)
(* decision: those of the instrument and of a benchmark, both by the names *)
(* the provider knows them by.  Later reviews download daily closes of     *)
(* both, pick the first day after the decision and the day a holding       *)
(* period later on which both were traded, and save what they saw with     *)
(* what follows from it.  Whoever uses the outcome derives it again from   *)
(* the saved facts, without the provider.                                  *)
(*                                                                         *)
(* Moments are numbers; days are what calendars make of them, another one  *)
(* in each time zone.  A row is the day it is labelled with; of its prices *)
(* only their presence is kept.  Releases of the program differ in their   *)
(* evaluator's code.  The first one did not freeze the provider's names;   *)
(* its evaluator is kept (_evaluation_v1.py) to derive its outcomes again. *)
(*                                                                         *)
(* ResearchMemory says how outcomes of many decisions are saved by many    *)
(* processes; here one decision is reviewed by one process at a time, as   *)
(* the lock of its instrument's reviews ensures.                           *)
(***************************************************************************)
EXTENDS Integers, Sequences, FiniteSets

CONSTANTS
    Symbols,       \* names the provider knows
    Assets,        \* names that users and settings give
    Target,        \* Target[a]: the symbol that asset a stands for, None if unknown
    OldTarget,     \* OldTarget[a]: the symbol the first release asked for
    Benchmarks,    \* assets that may be configured as the benchmark
    None,          \* no symbol
    LastRelease,   \* the releases are 1 .. LastRelease
    MaxTime,       \* bound on the clock
    LastRecord,    \* bound on the moment of the decision
    Latency,       \* a download is stamped at most this long after its data was read
    Days,          \* days of any calendar
    UtcDay,        \* UtcDay[t]: the UTC day at moment t
    HostDay,       \* HostDay[t]: the day on the host's calendar
    LocalDay,      \* LocalDay[s][t]: the day in the time zone of the rows of symbol s
    Sessions,      \* Sessions[s]: the days on which s is traded
    Opens,         \* Opens[s][d]: the moment from which the provider has a row of day d
    Final,         \* Final[s][d]: the moment from which that row changes no more
    Holding,       \* holding_period_days
    MaxFaults      \* bound on bad answers and deaths

Times == 0 .. MaxTime
Moments == 0 .. MaxTime + Latency
Releases == 1 .. LastRelease

ASSUME EvaluationAssumption ==
    /\ {MaxTime, LastRecord, Latency, MaxFaults} \subseteq Nat /\ {LastRelease, Holding} \subseteq Nat \ {0}
    /\ None \notin Symbols
    /\ Target \in [Assets -> Symbols \cup {None}] /\ OldTarget \in [Assets -> Symbols]
    /\ Benchmarks \subseteq {a \in Assets : Target[a] # None}
    /\ Days \subseteq Int
    /\ UtcDay \in [Moments -> Days] /\ HostDay \in [Moments -> Days]
    /\ LocalDay \in [Symbols -> [Moments -> Days]]
    /\ Sessions \in [Symbols -> SUBSET Days]
    /\ Opens \in [Symbols -> [Days -> Int]] /\ Final \in [Symbols -> [Days -> Int]]

(* Days do not run backwards.                                              *)
ASSUME CalendarsAdvance ==
    \A t, u \in Moments : t <= u =>
        /\ UtcDay[t] <= UtcDay[u]
        /\ \A s \in Symbols : LocalDay[s][t] <= LocalDay[s][u]

(* A close is not known before its day begins, and is final once the day   *)
(* is over in UTC and, but for the time a download takes, in its own zone. *)
ASSUME RowsSettle ==
    \A s \in Symbols, t \in Times :
        /\ \A d \in Sessions[s] : LocalDay[s][t] < d => t < Final[s][d]
        /\ \A d \in Sessions[s] :
              UtcDay[t] > d /\ LocalDay[s][t + Latency] > d => Final[s][d] <= t

VARIABLES
    now,       \* the host's clock
    release,   \* the release that is installed
    plan,      \* the frozen plan of the analysis
    recorded,  \* when the decision was recorded, -1 before
    review,    \* the review in progress
    outcome,   \* the saved outcome with its facts
    reflected, \* a model has reflected on the outcome
    faults     \* bad answers and deaths so far

vars == <<now, release, plan, recorded, review, outcome, reflected, faults>>

-----------------------------------------------------------------------------
(* Plans.                                                                  *)

NoPlan == [made |-> FALSE, release |-> 1, asOf |-> 0, day |-> 0, targets |-> <<None, None>>,
           reason |-> "none"]

(* An outcome can only be observed of a decision made on the day it is     *)
(* about; of another nobody knows what it could draw on.                   *)
IsProspective(asOf, day) == asOf = day

NewPlan(asOf, instrument, benchmark) ==
    [made |-> TRUE, release |-> release, asOf |-> asOf, day |-> HostDay[now],
     targets |-> <<Target[instrument], Target[benchmark]>>,
     reason |-> IF ~IsProspective(asOf, HostDay[now]) THEN "historical"
                ELSE IF Target[instrument] = None THEN "unresolved" ELSE "none"]

(* The first release froze the instrument as it was named and looked its   *)
(* symbol up when it asked.                                                *)
OldPlan(asOf, instrument, benchmark) ==
    [made |-> TRUE, release |-> release, asOf |-> asOf, day |-> HostDay[now],
     targets |-> <<OldTarget[instrument], OldTarget[benchmark]>>,
     reason |-> IF IsProspective(asOf, HostDay[now]) THEN "none" ELSE "historical"]

IsOld(p) == p.release = 1

(* What validate_contract demands whenever a plan is bound or read.        *)
ValidPlan(p) ==
    /\ p.made /\ p.asOf <= p.day
    /\ p.reason = "historical" <=> ~IsProspective(p.asOf, p.day)
    /\ ~IsOld(p) => (p.reason = "unresolved" <=>
                        IsProspective(p.asOf, p.day) /\ p.targets[1] = None)

(* The evaluator and the resolver of targets are those the plan names.     *)
SameCode(p) == p.release = release

(* settlement_eligibility: outcomes of the first release are kept and can  *)
(* be derived again, but no new one is made for its plans.                 *)
IsEligible ==
    IF IsOld(plan) THEN release = 1 \/ outcome.status # "none" ELSE SameCode(plan)

-----------------------------------------------------------------------------
(* Facts: what was asked when, and what came back.                         *)

NoReview == [phase |-> "idle", clock |-> 0, sources |-> <<>>]

(* issue: why there are no usable rows; rows: the days with a price; read: *)
(* when the provider read them, which is not saved; at: when the host      *)
(* stamped them; extreme: a return on them is not a number.  Stamps are    *)
(* finer than moments: those of two downloads differ, which nth keeps.     *)
Answer(symbol, issue, rows, extreme) ==
    [symbol |-> symbol, issue |-> issue, rows |-> rows, extreme |-> extreme,
     read |-> now, at |-> now, nth |-> Len(review.sources)]

(* The provider has another answer at another time: "unavailable" and      *)
(* "empty" may pass, a table that cannot be read as daily closes may not.  *)
Passing == {"unavailable", "empty"}
Issues == Passing \cup {"unreadable"}

(* From the decision's UTC day to the one before the clock's.              *)
Requested(clock) == {d \in Days : UtcDay[recorded] <= d /\ d < UtcDay[clock]}

Served(symbol) == {d \in Sessions[symbol] \cap Requested(review.clock) : Opens[symbol][d] <= now}

(* What the provider may answer: its rows; rows some of which lack a price *)
(* or have one that no return can be computed of; none at all.             *)
GoodAnswer(symbol) ==
    Answer(symbol, IF Served(symbol) = {} THEN "empty" ELSE "none", Served(symbol), FALSE)

BadAnswers(symbol) ==
    {Answer(symbol, issue, {}, FALSE) : issue \in Issues}
    \cup {Answer(symbol, "none", Served(symbol) \ {d}, FALSE) : d \in Served(symbol)}
    \cup {Answer(symbol, "none", Served(symbol), TRUE) : d \in Served(symbol)}

(* Fault: a symbol that both targets stand for is asked twice. *)
NextIsKnownNever == FALSE

(* Both targets may stand for one symbol; it is asked once.                *)
NextIsKnown ==
    ~IsOld(plan) /\ Len(review.sources) = 1 /\ plan.targets[2] = plan.targets[1]

Saved(source) == [source EXCEPT !.read = 0]

(* What validate_shared_observations demands: one request, one answer.     *)
OneAnswerEach(sources) ==
    sources[1].symbol = sources[2].symbol => Saved(sources[1]) = Saved(sources[2])

SourceFits(source, symbol, clock) == source.symbol = symbol /\ source.at >= clock

FactsFit(facts) ==
    /\ Len(facts.sources) = 2 /\ facts.clock >= recorded
    /\ \A k \in 1 .. 2 : SourceFits(facts.sources[k], plan.targets[k], facts.clock)

-----------------------------------------------------------------------------
(* What follows from facts.                                                *)

Verdict(status, reason, days) == [status |-> status, reason |-> reason, days |-> days]

(* The entry comes after the day of the decision, in UTC and in both zones. *)
IsAfter(sources, d) ==
    d > UtcDay[recorded] /\ \A k \in 1 .. 2 : d > LocalDay[sources[k].symbol][recorded]

(* Fault: the day in UTC is enough. *)
IsOverInUtc(source, d) == d < UtcDay[source.at]

(* The day was over when the row was stamped, in UTC and where it is from. *)
IsOver(source, d) == d < UtcDay[source.at] /\ d < LocalDay[source.symbol][source.at]

Complete(source) == {d \in source.rows : IsOver(source, d)}

(* The days on which both have a complete row after the decision.          *)
Common(sources) ==
    {d \in Complete(sources[1]) \cap Complete(sources[2]) : IsAfter(sources, d)}

(* The day that n others come before, if there is one.                     *)
Nth(days, n) == {d \in days : Cardinality({e \in days : e < d}) = n}

Window(sources) ==
    LET entry == Nth(Common(sources), 0)
        exit == Nth(Common(sources), Holding)
    IN IF entry = {} \/ exit = {} THEN Verdict("pending", "window", <<>>)
       ELSE IF \E k \in 1 .. 2 : sources[k].extreme
       THEN Verdict("not_evaluable", "not_finite", <<>>)
       ELSE Verdict("available", "none", <<CHOOSE d \in entry : TRUE, CHOOSE d \in exit : TRUE>>)

(* A lasting issue of either source closes the matter; a passing one       *)
(* leaves it open.                                                         *)
Judged(sources) ==
    LET issues == {sources[k].issue : k \in 1 .. 2} \ {"none"}
    IN IF issues = {} THEN Window(sources)
       ELSE IF issues \subseteq Passing THEN Verdict("pending", "source", <<>>)
       ELSE Verdict("not_evaluable", "source", <<>>)

Refused == Verdict("refused", "none", <<>>)

Calculation(facts) ==
    IF FactsFit(facts) /\ OneAnswerEach(facts.sources) THEN Judged(facts.sources) ELSE Refused

OldCalculation(facts) == IF FactsFit(facts) THEN Judged(facts.sources) ELSE Refused

Concluded(facts) == IF IsOld(plan) THEN OldCalculation(facts) ELSE Calculation(facts)

-----------------------------------------------------------------------------
(* Outcomes.                                                               *)

NoFacts == [clock |-> 0, sources |-> <<>>]
NoOutcome == [status |-> "none", reason |-> "none", days |-> <<>>, at |-> 0, facts |-> NoFacts]

Outcome(verdict, time, facts) ==
    [status |-> verdict.status, reason |-> verdict.reason, days |-> verdict.days,
     at |-> time, facts |-> facts]

(* Fault: the outcome is dated by the earlier of its sources. *)
ObservedFirst(sources) ==
    IF sources[1].at <= sources[2].at THEN sources[1].at ELSE sources[2].at

(* An outcome is dated by the later of its sources.                        *)
Observed(sources) ==
    IF sources[1].at >= sources[2].at THEN sources[1].at ELSE sources[2].at

(* What every reader of the saved decision checks before anything else.    *)
SubjectsFit ==
    LET sources == outcome.facts.sources
    IN sources # <<>> => /\ Len(sources) = 2 /\ OneAnswerEach(sources)
                         /\ \A k \in 1 .. 2 : sources[k].symbol = plan.targets[k]

(* Does the outcome follow from its facts, and was it there to be seen?    *)
Follows(verdict) ==
    /\ outcome.at >= recorded
    /\ outcome.status = verdict.status /\ outcome.reason = verdict.reason
    /\ outcome.days = verdict.days
    /\ \A k \in DOMAIN outcome.facts.sources : outcome.facts.sources[k].at <= outcome.at

Replayed(verdict) ==
    IF plan.reason # "none" THEN "not_evaluable"
    ELSE IF Follows(verdict) THEN outcome.status ELSE "refused"

OldReplay == Replayed(OldCalculation(outcome.facts))

(* replay_evaluation: "refused" is the error that a contradiction raises.  *)
Replay ==
    IF ~IsEligible THEN "unverified"
    ELSE IF IsOld(plan) THEN OldReplay
    ELSE IF ~SubjectsFit THEN "refused"
    ELSE Replayed(Calculation(outcome.facts))

(* May a model be given the outcome?  Asked before the model reflects on   *)
(* it, when it is chosen for a later analysis, when that one is resumed    *)
(* and when it completes.                                                  *)
IsAdmitted == outcome.status = "available" /\ Replay = "available"

-----------------------------------------------------------------------------
(* Steps.                                                                  *)

Init ==
    /\ now = 0 /\ release \in Releases
    /\ plan = NoPlan /\ recorded = -1
    /\ review = NoReview /\ outcome = NoOutcome /\ reflected = FALSE
    /\ faults = 0

(* An analysis starts.  It may be about the present day of the host or an  *)
(* earlier one; all earlier ones are alike.                                *)
Start(asOf, instrument, benchmark) ==
    /\ ~plan.made
    /\ now <= LastRecord
    /\ HostDay[now] - 1 <= asOf /\ asOf <= HostDay[now]
    /\ plan' = IF release = 1 THEN OldPlan(asOf, instrument, benchmark)
               ELSE NewPlan(asOf, instrument, benchmark)
    /\ UNCHANGED <<now, release, recorded, review, outcome, reflected, faults>>

(* It ends, and its decision is recorded with the plan it started with.    *)
Record ==
    /\ recorded = -1
    /\ now <= LastRecord
    /\ ValidPlan(plan)
    /\ recorded' = now
    /\ UNCHANGED <<now, release, plan, review, outcome, reflected, faults>>

IsOpen == recorded >= 0 /\ outcome.status = "none" /\ review.phase = "idle" /\ IsEligible

(* A plan that allows no evaluation is closed without a source.            *)
Close ==
    /\ IsOpen
    /\ plan.reason # "none"
    /\ outcome' = Outcome(Verdict("not_evaluable", plan.reason, <<>>), now, NoFacts)
    /\ UNCHANGED <<now, release, plan, recorded, review, reflected, faults>>

(* A review reads the clock first; that bounds what it asks for.           *)
Begin ==
    /\ IsOpen
    /\ plan.reason = "none"
    /\ UtcDay[recorded] < UtcDay[now]
    /\ review' = [phase |-> "asking", clock |-> now, sources |-> <<>>]
    /\ UNCHANGED <<now, release, plan, recorded, outcome, reflected, faults>>

Sources == Len(review.sources)

Received(answer) ==
    review' = [review EXCEPT !.phase = "stamping", !.sources = Append(@, answer)]

Download ==
    LET symbol == plan.targets[Sources + 1]
    IN /\ review.phase = "asking" /\ Sources < 2
       /\ ~NextIsKnown
       /\ \/ Received(GoodAnswer(symbol)) /\ UNCHANGED faults
          \/ /\ faults < MaxFaults
             /\ faults' = faults + 1
             /\ \E answer \in BadAnswers(symbol) : Received(answer)
       /\ UNCHANGED <<now, release, plan, recorded, outcome, reflected>>

(* The answer is dated when it is there.                                   *)
Stamp ==
    /\ review.phase = "stamping"
    /\ review' = [review EXCEPT !.phase = "asking", !.sources[Sources].at = now]
    /\ UNCHANGED <<now, release, plan, recorded, outcome, reflected, faults>>

Share ==
    /\ review.phase = "asking"
    /\ NextIsKnown
    /\ review' = [review EXCEPT !.sources = Append(@, review.sources[1])]
    /\ UNCHANGED <<now, release, plan, recorded, outcome, reflected, faults>>

Conclude ==
    LET facts == [clock |-> review.clock, sources |-> review.sources]
        verdict == Concluded(facts)
    IN /\ review.phase = "asking" /\ Sources = 2
       /\ review' = NoReview
       /\ outcome' = IF verdict.status \in {"pending", "refused"} THEN outcome
                     ELSE Outcome(verdict, Observed(review.sources), facts)
       /\ UNCHANGED <<now, release, plan, recorded, reflected, faults>>

(* The reviewing process dies; nothing of its review is kept.              *)
Dies ==
    /\ review.phase # "idle"
    /\ faults < MaxFaults
    /\ faults' = faults + 1
    /\ review' = NoReview
    /\ UNCHANGED <<now, release, plan, recorded, outcome, reflected>>

(* The model is given the outcome.                                         *)
Reflect ==
    /\ IsAdmitted
    /\ ~reflected
    /\ reflected' = TRUE
    /\ UNCHANGED <<now, release, plan, recorded, review, outcome, faults>>

Upgrade ==
    /\ release < LastRelease
    /\ release' = release + 1
    /\ UNCHANGED <<now, plan, recorded, review, outcome, reflected, faults>>

Tick ==
    /\ now < MaxTime
    /\ review.phase = "stamping" => now < review.sources[Sources].read + Latency
    /\ now' = now + 1
    /\ UNCHANGED <<release, plan, recorded, review, outcome, reflected, faults>>

ReviewStep == Download \/ Stamp \/ Share \/ Conclude

Next ==
    \/ \E asOf \in Days, i \in Assets, b \in Benchmarks : Start(asOf, i, b)
    \/ Record \/ Close \/ Begin \/ ReviewStep \/ Dies \/ Reflect \/ Upgrade \/ Tick

Spec == Init /\ [][Next]_vars

(* Time passes, and a review that has begun goes on.                       *)
FairSpec == Spec /\ WF_vars(ReviewStep) /\ WF_vars(Tick) /\ WF_vars(Reflect)

-----------------------------------------------------------------------------
(* Properties.                                                             *)

(* An available outcome rests on closes that were final when the provider  *)
(* was asked, and the first of them was not known when the decision was    *)
(* recorded: no zone, midnight or slow download lets a running session or  *)
(* a close of the past measure a decision (evaluation.py:537-549).         *)
EndpointsAreFinal ==
    outcome.status = "available" =>
        \A k \in 1 .. 2 :
            LET source == outcome.facts.sources[k]
            IN /\ \A n \in 1 .. 2 : Final[source.symbol][outcome.days[n]] <= source.read
               /\ Final[source.symbol][outcome.days[1]] > recorded

(* A saved outcome passes its own verification as long as its evaluator is *)
(* installed: a single one that did not would end the choice of a context, *)
(* and with it the start of every later analysis (store.py:366).           *)
OutcomesReplay ==
    outcome.status # "none" => Replay \in {outcome.status, "unverified"}

(* By the end of time both symbols have had enough common days.            *)
HasItsWindow ==
    LET sources == [k \in 1 .. 2 |-> [symbol |-> plan.targets[k]]]
        symbols == {plan.targets[1], plan.targets[2]}
    IN Cardinality({d \in Days : /\ IsAfter(sources, d)
                                 /\ \A s \in symbols : /\ d \in Sessions[s] /\ Final[s][d] <= MaxTime
                                                       /\ d < UtcDay[MaxTime]
                                                       /\ d < LocalDay[s][MaxTime]}) > Holding

(* If reviews keep coming, each decision that can be evaluated is, and a   *)
(* model gets to reflect on what came of it, unless an upgrade has taken   *)
(* its evaluator away (evaluation.py:669).                                 *)
EveryDecisionSettles ==
    []<>(ENABLED Begin => review.phase # "idle") =>
        ((recorded >= 0 /\ plan.reason = "none" /\ HasItsWindow) ~>
            (~IsEligible \/ outcome.status = "not_evaluable" \/ reflected))

-----------------------------------------------------------------------------
(* The inductive invariant.                                                *)

Source ==
    [symbol : Symbols, issue : Issues \cup {"none"}, rows : SUBSET Days, extreme : BOOLEAN,
     read : Times, at : Times, nth : Nat]

Facts == [clock : Times, sources : Seq(Source)]

TypeOK ==
    /\ now \in Times /\ release \in Releases /\ recorded \in {-1} \cup Times
    /\ plan \in [made : BOOLEAN, release : Releases, asOf : Int, day : Int,
                 targets : (Symbols \cup {None}) \X (Symbols \cup {None}),
                 reason : {"none", "historical", "unresolved"}]
    /\ review \in [phase : {"idle", "asking", "stamping"}, clock : Times, sources : Seq(Source)]
    /\ outcome \in [status : {"none", "available", "not_evaluable"},
                    reason : {"none", "historical", "unresolved", "source", "not_finite"},
                    days : Seq(Days), at : Times, facts : Facts]
    /\ reflected \in BOOLEAN /\ faults \in Nat

(* A plan without a reason against it knows both symbols.                  *)
PlansAreKnown ==
    /\ recorded >= 0 => plan.made /\ recorded <= now
    /\ plan.made /\ plan.reason = "none" => plan.targets \in Symbols \X Symbols

(* What was asked for, received and stamped, in this order and in time.    *)
Honest(source, clock) ==
    /\ source.rows \subseteq Sessions[source.symbol] \cap Requested(clock)
    /\ clock <= source.read /\ source.read <= source.at /\ source.at <= source.read + Latency

ReviewIsHonest ==
    review.phase # "idle" =>
        /\ outcome.status = "none" /\ plan.reason = "none"
        /\ 0 <= recorded /\ recorded <= review.clock /\ review.clock <= now
        /\ Sources <= 2
        /\ \A k \in 1 .. Sources : /\ Honest(review.sources[k], review.clock)
                                   /\ review.sources[k].at <= now
        /\ review.phase = "stamping" => /\ Sources > 0
                                        /\ now <= review.sources[Sources].read + Latency

(* A saved outcome is what follows from its facts.                         *)
OutcomeFollows ==
    outcome.status # "none" =>
        /\ recorded >= 0 /\ review.phase = "idle"
        /\ IF plan.reason # "none" THEN outcome.status = "not_evaluable" /\ outcome.facts = NoFacts
           ELSE LET facts == outcome.facts
                IN /\ outcome = Outcome(Concluded(facts), Observed(facts.sources), facts)
                   /\ FactsFit(facts)
                   /\ \A k \in 1 .. 2 : Honest(facts.sources[k], facts.clock)

IInv == TypeOK /\ PlansAreKnown /\ ReviewIsHonest /\ OutcomeFollows
=============================================================================
