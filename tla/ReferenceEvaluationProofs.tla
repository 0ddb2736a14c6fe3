---------------------- MODULE ReferenceEvaluationProofs ----------------------
(***************************************************************************)
(* Outcomes are honest and can be derived again, for any symbols,          *)
(* calendars, releases and bounds that meet the assumptions of             *)
(* ReferenceEvaluation.  IInv says how what a review holds relates to the  *)
(* clock, and that a saved outcome is what its facts imply; each action is *)
(* shown to keep it, and the two properties follow from it.                *)
(***************************************************************************)
EXTENDS ReferenceEvaluation, TLAPS

(* Moments, and days of any calendar at them, are integers.                *)
LEMMA Numbers ==
    /\ Latency \in Nat /\ MaxTime \in Nat /\ MaxFaults \in Nat /\ LastRelease \in Nat \ {0}
    /\ Times \subseteq Moments /\ Moments \subseteq Nat /\ 0 \in Times
    /\ \A t \in Times : t + Latency \in Moments
    /\ Days \subseteq Int
    /\ \A t \in Moments : UtcDay[t] \in Int
    /\ \A t \in Moments, s \in Symbols : LocalDay[s][t] \in Int
    /\ \A s \in Symbols : Sessions[s] \subseteq Days
    /\ \A s \in Symbols, d \in Days : Final[s][d] \in Int
<1>1. /\ Latency \in Nat /\ MaxTime \in Nat /\ MaxFaults \in Nat /\ LastRelease \in Nat \ {0}
  BY EvaluationAssumption DEF EvaluationAssumption
<1>2. /\ Times \subseteq Moments /\ Moments \subseteq Nat /\ 0 \in Times
      /\ \A t \in Times : t + Latency \in Moments
  BY <1>1 DEF Times, Moments
<1>3. Days \subseteq Int /\ \A t \in Moments : UtcDay[t] \in Int
  BY EvaluationAssumption DEF EvaluationAssumption
<1>4. \A s \in Symbols : LocalDay[s] \in [Moments -> Days]
  BY EvaluationAssumption DEF EvaluationAssumption
<1>5. \A s \in Symbols : Sessions[s] \subseteq Days /\ Final[s] \in [Days -> Int]
  BY EvaluationAssumption DEF EvaluationAssumption
<1>6. QED
  BY <1>1, <1>2, <1>3, <1>4, <1>5

-----------------------------------------------------------------------------
(* What follows from facts.                                                *)

LEMMA ObservedLast ==
    ASSUME NEW sources \in Seq(Source), Len(sources) = 2
    PROVE  /\ Observed(sources) \in Times
           /\ \A k \in 1 .. 2 : sources[k].at <= Observed(sources)
<1>1. sources[1] \in Source /\ sources[2] \in Source
  OBVIOUS
<1>2. sources[1].at \in Times /\ sources[2].at \in Times
  BY <1>1 DEF Source
<1>3. sources[1].at \in Int /\ sources[2].at \in Int
  BY <1>2 DEF Times
<1>4. QED
  BY <1>2, <1>3 DEF Observed

Statuses == {"pending", "available", "not_evaluable"}
Reasons == {"none", "window", "source", "not_finite"}

(* An available verdict names two days on which both have a close that is  *)
(* over and comes after the decision.                                      *)
LEMMA WindowVerdict ==
    ASSUME NEW sources \in Seq(Source), Len(sources) = 2
    PROVE  LET verdict == Window(sources)
           IN /\ verdict \in [status : Statuses, reason : Reasons, days : Seq(Days)]
              /\ verdict.reason # "window" \/ verdict.status = "pending"
              /\ verdict.status = "available" =>
                    \A n \in 1 .. 2 : verdict.days[n] \in Common(sources)
<1> DEFINE entry == Nth(Common(sources), 0)
           exit == Nth(Common(sources), Holding)
<1>1. sources[1] \in Source
  OBVIOUS
<1>2. Common(sources) \subseteq Days
  BY <1>1 DEF Common, Complete, Source
<1>3. entry \subseteq Common(sources) /\ exit \subseteq Common(sources)
  BY DEF Nth
<1>4. CASE entry = {} \/ exit = {}
  BY <1>4 DEF Window, Verdict, Statuses, Reasons
<1>5. CASE entry # {} /\ exit # {} /\ \E k \in 1 .. 2 : sources[k].extreme
  BY <1>5 DEF Window, Verdict, Statuses, Reasons
<1>6. CASE entry # {} /\ exit # {} /\ ~\E k \in 1 .. 2 : sources[k].extreme
  <2>1. Window(sources) = Verdict("available", "none",
                                  <<CHOOSE d \in entry : TRUE, CHOOSE d \in exit : TRUE>>)
    BY <1>6 DEF Window
  <2>2. (CHOOSE d \in entry : TRUE) \in Common(sources) /\ (CHOOSE d \in exit : TRUE) \in Common(sources)
    BY <1>3, <1>6
  <2>3. QED
    BY <1>2, <2>1, <2>2 DEF Verdict, Statuses, Reasons
<1>7. QED
  BY <1>4, <1>5, <1>6

LEMMA JudgedVerdict ==
    ASSUME NEW sources \in Seq(Source), Len(sources) = 2
    PROVE  LET verdict == Judged(sources)
           IN /\ verdict \in [status : Statuses, reason : Reasons, days : Seq(Days)]
              /\ verdict.reason # "window" \/ verdict.status = "pending"
              /\ verdict.status = "available" =>
                    \A n \in 1 .. 2 : verdict.days[n] \in Common(sources)
<1>1. \/ Judged(sources) = Window(sources)
      \/ Judged(sources) = Verdict("pending", "source", <<>>)
      \/ Judged(sources) = Verdict("not_evaluable", "source", <<>>)
  BY DEF Judged
<1>2. CASE Judged(sources) = Window(sources)
  BY <1>2, WindowVerdict
<1>3. CASE Judged(sources) = Verdict("pending", "source", <<>>)
  BY <1>3 DEF Verdict, Statuses, Reasons
<1>4. CASE Judged(sources) = Verdict("not_evaluable", "source", <<>>)
  BY <1>4 DEF Verdict, Statuses, Reasons
<1>5. QED
  BY <1>1, <1>2, <1>3, <1>4

(* What is not refused is judged, of sources that fit the plan.            *)
LEMMA ConcludedVerdict ==
    ASSUME NEW facts \in Facts, Concluded(facts).status # "refused"
    PROVE  /\ FactsFit(facts) /\ Len(facts.sources) = 2
           /\ Concluded(facts) = Judged(facts.sources)
           /\ ~IsOld(plan) => OneAnswerEach(facts.sources) /\ Concluded(facts) = Calculation(facts)
           /\ IsOld(plan) => Concluded(facts) = OldCalculation(facts)
BY DEF Concluded, OldCalculation, Calculation, Refused, Verdict, FactsFit

-----------------------------------------------------------------------------
(* Verdicts and honesty depend on the plan and the decision only.          *)

LEMMA SameVerdict ==
    ASSUME UNCHANGED <<plan, recorded>>
    PROVE  /\ \A facts : Concluded(facts)' = Concluded(facts)
           /\ \A facts : FactsFit(facts)' = FactsFit(facts)
           /\ \A source, clock : Honest(source, clock)' = Honest(source, clock)
BY DEF Concluded, OldCalculation, Calculation, FactsFit, Judged, Window, Common, IsAfter, IsOld,
       Honest, Requested, Complete, IsOver, Nth, Refused, Verdict, SourceFits, OneAnswerEach, Saved

LEMMA OutcomeFrame ==
    ASSUME IInv, UNCHANGED <<plan, recorded, outcome>>,
           outcome.status # "none" => review'.phase = "idle"
    PROVE  OutcomeFollows'
BY SameVerdict DEF IInv, OutcomeFollows, Observed, Outcome, NoFacts

LEMMA ReviewFrame ==
    ASSUME IInv, UNCHANGED <<plan, recorded, review>>, now' = now,
           review.phase # "idle" => outcome' = outcome
    PROVE  ReviewIsHonest'
BY SameVerdict DEF IInv, ReviewIsHonest, Sources

-----------------------------------------------------------------------------
(* Each action keeps the invariant.                                        *)

LEMMA InitHolds == ASSUME Init PROVE IInv
<1>1. TypeOK
  <2>1. 0 \in Times /\ 1 \in Releases
    BY Numbers DEF Releases
  <2>2. <<>> \in Seq(Source) /\ <<>> \in Seq(Days)
    OBVIOUS
  <2>3. plan \in [made : BOOLEAN, release : Releases, asOf : Int, day : Int,
                  targets : (Symbols \cup {None}) \X (Symbols \cup {None}),
                  reason : {"none", "historical", "unresolved"}]
    BY <2>1 DEF Init, NoPlan
  <2>4. NoFacts \in Facts
    BY <2>1, <2>2 DEF NoFacts, Facts
  <2>5. QED
    BY <2>1, <2>2, <2>3, <2>4 DEF Init, TypeOK, NoReview, NoOutcome
<1>2. PlansAreKnown /\ ReviewIsHonest /\ OutcomeFollows
  BY DEF Init, PlansAreKnown, ReviewIsHonest, OutcomeFollows, NoPlan, NoReview, NoOutcome
<1>3. QED
  BY <1>1, <1>2 DEF IInv

LEMMA StartKeeps ==
    ASSUME IInv, NEW asOf \in Days, NEW i \in Assets, NEW b \in Benchmarks, Start(asOf, i, b)
    PROVE  IInv'
<1>1. /\ Target[i] \in Symbols \cup {None} /\ Target[b] \in Symbols /\ b \in Assets
      /\ OldTarget[i] \in Symbols /\ OldTarget[b] \in Symbols
      /\ HostDay[now] \in Int /\ asOf \in Int
  BY EvaluationAssumption, Numbers DEF EvaluationAssumption, IInv, TypeOK
<1>2. plan' = NewPlan(asOf, i, b) \/ plan' = OldPlan(asOf, i, b)
  BY DEF Start
<1>3. TypeOK'
  BY <1>1, <1>2 DEF Start, IInv, TypeOK, NewPlan, OldPlan
<1>4. recorded < 0 /\ outcome.status = "none" /\ review.phase = "idle"
  BY DEF Start, IInv, TypeOK, PlansAreKnown, ReviewIsHonest, OutcomeFollows, Times
<1>5. PlansAreKnown'
  <2>1. plan'.reason = "none" => plan'.targets \in Symbols \X Symbols
    BY <1>1, <1>2 DEF NewPlan, OldPlan
  <2>2. recorded' = recorded /\ ~(recorded >= 0)
    BY <1>4 DEF Start, IInv, TypeOK, Times
  <2>3. QED
    BY <2>1, <2>2 DEF PlansAreKnown
<1>6. ReviewIsHonest' /\ OutcomeFollows'
  BY <1>4 DEF Start, ReviewIsHonest, OutcomeFollows
<1>7. QED
  BY <1>3, <1>5, <1>6 DEF IInv

LEMMA RecordKeeps == ASSUME IInv, Record PROVE IInv'
<1>1. TypeOK' /\ PlansAreKnown'
  BY DEF Record, IInv, TypeOK, PlansAreKnown, ValidPlan, Times
<1>2. outcome.status = "none" /\ review.phase = "idle"
  BY DEF Record, IInv, ReviewIsHonest, OutcomeFollows
<1>3. ReviewIsHonest' /\ OutcomeFollows'
  BY <1>2 DEF Record, ReviewIsHonest, OutcomeFollows
<1>4. QED
  BY <1>1, <1>3 DEF IInv

LEMMA CloseKeeps == ASSUME IInv, Close PROVE IInv'
<1>1. /\ plan.reason # "none" /\ recorded >= 0 /\ review.phase = "idle"
      /\ outcome' = Outcome(Verdict("not_evaluable", plan.reason, <<>>), now, NoFacts)
      /\ UNCHANGED <<now, release, plan, recorded, review, reflected, faults>>
  BY DEF Close, IsOpen
<1>2. TypeOK'
  BY <1>1, Numbers DEF IInv, TypeOK, Outcome, Verdict, NoFacts, Facts
<1>3. PlansAreKnown' /\ ReviewIsHonest' /\ OutcomeFollows'
  BY <1>1 DEF IInv, PlansAreKnown, ReviewIsHonest, OutcomeFollows, Outcome, Verdict
<1>4. QED
  BY <1>2, <1>3 DEF IInv

LEMMA BeginKeeps == ASSUME IInv, Begin PROVE IInv'
<1>1. /\ plan.reason = "none" /\ recorded >= 0 /\ outcome.status = "none"
      /\ review' = [phase |-> "asking", clock |-> now, sources |-> <<>>]
      /\ UNCHANGED <<now, release, plan, recorded, outcome, reflected, faults>>
  BY DEF Begin, IsOpen
<1>2. TypeOK'
  BY <1>1 DEF IInv, TypeOK
<1>3. PlansAreKnown' /\ OutcomeFollows'
  BY <1>1 DEF IInv, PlansAreKnown, OutcomeFollows
<1>4. ReviewIsHonest'
  BY <1>1 DEF IInv, TypeOK, PlansAreKnown, ReviewIsHonest, Sources, Times
<1>5. QED
  BY <1>2, <1>3, <1>4 DEF IInv

(* One more source, honest, for the symbol it is asked for.                *)
LEMMA ReceivedKeeps ==
    ASSUME IInv, review.phase = "asking", Sources < 2, NEW symbol \in Symbols,
           NEW answer \in Source,
           answer.rows \subseteq Served(symbol), answer.symbol = symbol,
           answer.read = now, answer.at = now,
           Received(answer), faults' \in Nat,
           UNCHANGED <<now, release, plan, recorded, outcome, reflected>>
    PROVE  IInv'
<1>1. /\ review' = [review EXCEPT !.phase = "stamping", !.sources = Append(review.sources, answer)]
      /\ review.sources \in Seq(Source)
  BY DEF Received, IInv, TypeOK
<1>2. /\ review'.phase = "stamping" /\ review'.clock = review.clock
      /\ review'.sources = Append(review.sources, answer)
      /\ Len(review'.sources) = Sources + 1
      /\ review'.sources[Sources + 1] = answer
      /\ \A k \in 1 .. Sources : review'.sources[k] = review.sources[k]
  BY <1>1 DEF IInv, TypeOK, Sources
<1>3. TypeOK'
  <2>1. Append(review.sources, answer) \in Seq(Source)
    BY <1>1
  <2>2. review' \in [phase : {"idle", "asking", "stamping"}, clock : Times, sources : Seq(Source)]
    BY <1>1, <2>1 DEF IInv, TypeOK
  <2>3. QED
    BY <2>2 DEF IInv, TypeOK
<1>4. PlansAreKnown'
  BY DEF IInv, PlansAreKnown
<1>5. /\ outcome.status = "none" /\ plan.reason = "none" /\ 0 <= recorded
      /\ recorded <= review.clock /\ review.clock <= now
      /\ \A k \in 1 .. Sources : /\ Honest(review.sources[k], review.clock)
                                 /\ review.sources[k].at <= now
      /\ now \in Nat /\ Sources \in Nat /\ Latency \in Nat
  BY Numbers DEF IInv, ReviewIsHonest, TypeOK, Times, Sources
<1>6. OutcomeFollows'
  BY <1>5 DEF OutcomeFollows
<1>7. Honest(answer, review.clock)
  BY <1>5 DEF Honest, Served
<1>8. ReviewIsHonest'
  <2>1. \A source, clock : Honest(source, clock)' = Honest(source, clock)
    BY SameVerdict
  <2>2. \A k \in 1 .. Sources + 1 : /\ Honest(review'.sources[k], review.clock)
                                    /\ review'.sources[k].at <= now
    BY <1>2, <1>5, <1>7
  <2>3. QED
    BY <1>2, <1>5, <2>1, <2>2 DEF ReviewIsHonest, Sources
<1>9. QED
  BY <1>3, <1>4, <1>6, <1>8 DEF IInv

LEMMA DownloadKeeps == ASSUME IInv, Download PROVE IInv'
<1> DEFINE symbol == plan.targets[Sources + 1]
<1>1. /\ review.phase = "asking" /\ Sources < 2
      /\ UNCHANGED <<now, release, plan, recorded, outcome, reflected>>
      /\ \E answer \in {GoodAnswer(symbol)} \cup BadAnswers(symbol) : Received(answer)
      /\ faults' \in Nat
  BY DEF Download, IInv, TypeOK
<1>2. plan.made /\ plan.reason = "none" /\ Sources \in Nat
  BY <1>1 DEF IInv, ReviewIsHonest, PlansAreKnown, TypeOK, Sources
<1>3. symbol \in Symbols
  <2>1. plan.targets \in Symbols \X Symbols
    BY <1>2 DEF IInv, PlansAreKnown
  <2>2. Sources + 1 \in {1, 2}
    BY <1>1, <1>2
  <2>3. QED
    BY <2>1, <2>2
<1>4. PICK answer \in {GoodAnswer(symbol)} \cup BadAnswers(symbol) : Received(answer)
  BY <1>1
<1>5. Served(symbol) \subseteq Days
  BY DEF Served, Requested
<1>6. \E issue \in Issues \cup {"none"}, rows \in SUBSET Served(symbol), extreme \in BOOLEAN :
         answer = Answer(symbol, issue, rows, extreme)
  <2>1. CASE answer = GoodAnswer(symbol)
    BY <2>1 DEF GoodAnswer, Issues, Passing
  <2>2. CASE answer \in {Answer(symbol, issue, {}, FALSE) : issue \in Issues}
    <3>1. PICK issue \in Issues : answer = Answer(symbol, issue, {}, FALSE)
      BY <2>2
    <3>2. issue \in Issues \cup {"none"} /\ {} \in SUBSET Served(symbol) /\ FALSE \in BOOLEAN
      OBVIOUS
    <3>3. QED
      BY <3>1, <3>2, Zenon
  <2>3. CASE answer \in {Answer(symbol, "none", Served(symbol) \ {d}, FALSE) : d \in Served(symbol)}
    <3>1. PICK d \in Served(symbol) : answer = Answer(symbol, "none", Served(symbol) \ {d}, FALSE)
      BY <2>3
    <3>2. /\ "none" \in Issues \cup {"none"} /\ FALSE \in BOOLEAN
          /\ Served(symbol) \ {d} \in SUBSET Served(symbol)
      OBVIOUS
    <3>3. QED
      BY <3>1, <3>2, Zenon
  <2>4. CASE answer \in {Answer(symbol, "none", Served(symbol), TRUE) : d \in Served(symbol)}
    <3>1. answer = Answer(symbol, "none", Served(symbol), TRUE)
      BY <2>4
    <3>2. /\ "none" \in Issues \cup {"none"} /\ TRUE \in BOOLEAN
          /\ Served(symbol) \in SUBSET Served(symbol)
      OBVIOUS
    <3>3. QED
      BY <3>1, <3>2, Zenon
  <2>5. QED
    BY <1>4, <2>1, <2>2, <2>3, <2>4, Zenon DEF BadAnswers
<1>7. /\ answer \in Source /\ answer.rows \subseteq Served(symbol) /\ answer.symbol = symbol
      /\ answer.read = now /\ answer.at = now
  BY <1>2, <1>3, <1>5, <1>6 DEF Answer, Source, IInv, TypeOK, Sources
<1>8. QED
  BY <1>1, <1>3, <1>4, <1>7, ReceivedKeeps

LEMMA StampKeeps == ASSUME IInv, Stamp PROVE IInv'
<1> DEFINE last == [review.sources[Sources] EXCEPT !.at = now]
<1>1. /\ review.phase = "stamping"
      /\ review' = [review EXCEPT !.phase = "asking", !.sources[Sources].at = now]
      /\ UNCHANGED <<now, release, plan, recorded, outcome, reflected, faults>>
  BY DEF Stamp
<1>2. /\ review.sources \in Seq(Source) /\ Sources \in Nat /\ now \in Times /\ now \in Nat
      /\ Sources > 0 /\ now <= review.sources[Sources].read + Latency
      /\ outcome.status = "none" /\ plan.reason = "none" /\ 0 <= recorded
      /\ recorded <= review.clock /\ review.clock <= now /\ Sources <= 2
      /\ \A k \in 1 .. Sources : /\ Honest(review.sources[k], review.clock)
                                 /\ review.sources[k].at <= now
  BY <1>1 DEF IInv, TypeOK, Sources, ReviewIsHonest, Times
<1>3. /\ review.sources[Sources] \in Source /\ last \in Source
      /\ last.at = now /\ last.read = review.sources[Sources].read
      /\ last.rows = review.sources[Sources].rows /\ last.symbol = review.sources[Sources].symbol
  <2>1. review.sources[Sources] \in Source
    BY <1>2 DEF Sources
  <2>2. QED
    BY <1>2, <2>1 DEF Source
<1>4. /\ review'.phase = "asking" /\ review'.clock = review.clock
      /\ review'.sources = [review.sources EXCEPT ![Sources] = last]
  BY <1>1 DEF IInv, TypeOK
<1> HIDE DEF last
<1>5. /\ review'.sources \in Seq(Source) /\ Len(review'.sources) = Sources
      /\ review'.sources[Sources] = last
      /\ \A k \in 1 .. Sources : k # Sources => review'.sources[k] = review.sources[k]
  BY <1>2, <1>3, <1>4 DEF Sources
<1>6. TypeOK'
  BY <1>1, <1>5 DEF IInv, TypeOK
<1>7. PlansAreKnown' /\ OutcomeFollows'
  BY <1>1, <1>2 DEF IInv, PlansAreKnown, OutcomeFollows
<1>8. Honest(last, review.clock)
  <2>0. Sources \in 1 .. Sources
    BY <1>2
  <2>1. /\ review.sources[Sources].read \in Nat /\ review.sources[Sources].at \in Nat
        /\ Honest(review.sources[Sources], review.clock) /\ review.sources[Sources].at <= now
        /\ review.clock \in Nat
    BY <1>2, <1>3, <2>0 DEF Source, Times, IInv, TypeOK
  <2>2. Honest(review.sources[Sources], review.clock)
    BY <2>1
  <2>3. QED
    BY <1>2, <1>3, <2>1, <2>2, Numbers DEF Honest
<1>9. ReviewIsHonest'
  <2>1. \A source, clock : Honest(source, clock)' = Honest(source, clock)
    BY <1>1, SameVerdict
  <2>2. \A k \in 1 .. Sources : /\ Honest(review'.sources[k], review.clock)
                                /\ review'.sources[k].at <= now
    <3>1. ASSUME NEW k \in 1 .. Sources, k # Sources
          PROVE  /\ Honest(review'.sources[k], review.clock)
                 /\ review'.sources[k].at <= now
      BY <1>2, <1>5, <3>1
    <3>2. /\ Honest(review'.sources[Sources], review.clock)
          /\ review'.sources[Sources].at <= now
      BY <1>2, <1>3, <1>5, <1>8
    <3>3. QED
      BY <3>1, <3>2
  <2>3. QED
    BY <1>1, <1>2, <1>4, <1>5, <2>1, <2>2 DEF ReviewIsHonest, Sources
<1>10. QED
  BY <1>6, <1>7, <1>9 DEF IInv

LEMMA ShareKeeps == ASSUME IInv, Share PROVE IInv'
<1> DEFINE first == review.sources[1]
<1>1. /\ review.phase = "asking" /\ Len(review.sources) = 1
      /\ review' = [review EXCEPT !.sources = Append(review.sources, first)]
      /\ UNCHANGED <<now, release, plan, recorded, outcome, reflected, faults>>
  BY DEF Share, NextIsKnown
<1>2. /\ review.sources \in Seq(Source) /\ first \in Source
      /\ outcome.status = "none" /\ plan.reason = "none" /\ 0 <= recorded
      /\ recorded <= review.clock /\ review.clock <= now
      /\ Honest(first, review.clock) /\ first.at <= now
  BY <1>1 DEF IInv, TypeOK, Sources, ReviewIsHonest
<1>3. /\ review'.phase = "asking" /\ review'.clock = review.clock
      /\ review'.sources = Append(review.sources, first)
  BY <1>1 DEF IInv, TypeOK
<1>4. /\ review'.sources \in Seq(Source) /\ Len(review'.sources) = 2
      /\ review'.sources[1] = first /\ review'.sources[2] = first
  BY <1>1, <1>2, <1>3
<1>5. TypeOK'
  BY <1>1, <1>4 DEF IInv, TypeOK
<1>6. PlansAreKnown' /\ OutcomeFollows'
  BY <1>1, <1>2 DEF IInv, PlansAreKnown, OutcomeFollows
<1>7. ReviewIsHonest'
  <2>1. \A source, clock : Honest(source, clock)' = Honest(source, clock)
    BY <1>1, SameVerdict
  <2>2. \A k \in 1 .. 2 : /\ Honest(review'.sources[k], review.clock)
                          /\ review'.sources[k].at <= now
    BY <1>2, <1>4
  <2>3. QED
    BY <1>1, <1>2, <1>3, <1>4, <2>1, <2>2 DEF ReviewIsHonest, Sources
<1>8. QED
  BY <1>5, <1>6, <1>7 DEF IInv

LEMMA ConcludeKeeps == ASSUME IInv, Conclude PROVE IInv'
<1> DEFINE facts == [clock |-> review.clock, sources |-> review.sources]
           verdict == Concluded(facts)
<1>1. /\ review.phase = "asking" /\ Sources = 2 /\ review' = NoReview
      /\ \/ outcome' = outcome
         \/ /\ verdict.status \notin {"pending", "refused"}
            /\ outcome' = Outcome(verdict, Observed(review.sources), facts)
      /\ UNCHANGED <<now, release, plan, recorded, reflected, faults>>
  BY DEF Conclude
<1>2. /\ outcome.status = "none" /\ plan.reason = "none" /\ recorded >= 0
      /\ facts \in Facts /\ review.sources \in Seq(Source) /\ Len(review.sources) = 2
      /\ \A k \in 1 .. 2 : Honest(review.sources[k], review.clock)
  BY <1>1 DEF IInv, ReviewIsHonest, TypeOK, Sources, Facts
<1>3. NoReview \in [phase : {"idle", "asking", "stamping"}, clock : Times, sources : Seq(Source)]
  BY Numbers DEF NoReview
<1>4. PlansAreKnown' /\ ReviewIsHonest'
  BY <1>1 DEF IInv, PlansAreKnown, ReviewIsHonest, NoReview
<1>5. CASE outcome' = outcome
  <2>1. TypeOK'
    BY <1>1, <1>3, <1>5 DEF IInv, TypeOK
  <2>2. OutcomeFollows'
    BY <1>2, <1>5 DEF OutcomeFollows
  <2>3. QED
    BY <1>4, <2>1, <2>2 DEF IInv
<1>6. CASE /\ verdict.status \notin {"pending", "refused"}
           /\ outcome' = Outcome(verdict, Observed(review.sources), facts)
  <2>1. verdict.status # "refused" /\ facts.sources = review.sources
    BY <1>6
  <2>2. FactsFit(facts) /\ verdict = Judged(review.sources)
    BY <1>2, <2>1, ConcludedVerdict
  <2>3. /\ verdict.status \in {"available", "not_evaluable"}
        /\ verdict.reason \in {"none", "source", "not_finite"} /\ verdict.days \in Seq(Days)
    BY <1>2, <1>6, <2>2, JudgedVerdict DEF Statuses, Reasons
  <2>4. Observed(review.sources) \in Times
    BY <1>2, ObservedLast
  <2>5. TypeOK'
    BY <1>1, <1>2, <1>3, <1>6, <2>3, <2>4 DEF IInv, TypeOK, Outcome
  <2>6. outcome'.facts = facts /\ outcome' = Outcome(verdict, Observed(review.sources), facts)
    BY <1>6 DEF Outcome
  <2>7. OutcomeFollows'
    <3>1. PICK f : f = facts
      OBVIOUS
    <3>2. /\ outcome'.facts = f /\ FactsFit(f) /\ Concluded(f) = verdict
          /\ outcome' = Outcome(Concluded(f), Observed(f.sources), f)
          /\ \A k \in 1 .. 2 : Honest(f.sources[k], f.clock)
      BY <1>2, <2>2, <2>6, <3>1
    <3>3. Concluded(f)' = Concluded(f) /\ FactsFit(f)' = FactsFit(f)
      BY <1>1, SameVerdict
    <3>4. \A source, clock : Honest(source, clock)' = Honest(source, clock)
      BY <1>1, SameVerdict
    <3>5. QED
      BY <1>1, <1>2, <3>2, <3>3, <3>4 DEF OutcomeFollows, NoReview, Observed, Outcome
  <2>8. QED
    BY <1>4, <2>5, <2>7 DEF IInv
<1>7. QED
  BY <1>1, <1>5, <1>6

LEMMA DiesKeeps == ASSUME IInv, Dies PROVE IInv'
<1>1. /\ review' = NoReview /\ faults' = faults + 1
      /\ UNCHANGED <<now, release, plan, recorded, outcome, reflected>>
  BY DEF Dies
<1>2. TypeOK'
  BY <1>1, Numbers DEF IInv, TypeOK, NoReview
<1>3. PlansAreKnown' /\ ReviewIsHonest'
  BY <1>1 DEF IInv, PlansAreKnown, ReviewIsHonest, NoReview
<1>4. OutcomeFollows'
  BY <1>1, OutcomeFrame DEF NoReview
<1>5. QED
  BY <1>2, <1>3, <1>4 DEF IInv

(* What is installed, and whether a model has reflected, do not matter.    *)
LEMMA OthersKeep ==
    ASSUME IInv, release' \in Releases, reflected' \in BOOLEAN,
           UNCHANGED <<now, plan, recorded, review, outcome, faults>>
    PROVE  IInv'
<1>1. TypeOK' /\ PlansAreKnown'
  BY DEF IInv, TypeOK, PlansAreKnown
<1>2. ReviewIsHonest'
  BY ReviewFrame
<1>3. OutcomeFollows'
  BY OutcomeFrame DEF IInv, OutcomeFollows
<1>4. QED
  BY <1>1, <1>2, <1>3 DEF IInv

LEMMA TickKeeps == ASSUME IInv, Tick PROVE IInv'
<1>1. /\ now' = now + 1 /\ now < MaxTime
      /\ review.phase = "stamping" => now < review.sources[Sources].read + Latency
      /\ UNCHANGED <<release, plan, recorded, review, outcome, reflected, faults>>
  BY DEF Tick
<1>2. TypeOK'
  BY <1>1, Numbers DEF IInv, TypeOK, Times
<1>3. PlansAreKnown'
  BY <1>1 DEF IInv, TypeOK, PlansAreKnown, Times
<1>4. OutcomeFollows'
  BY <1>1, OutcomeFrame DEF IInv, OutcomeFollows
<1>5. ReviewIsHonest'
  <2>1. SUFFICES ASSUME review.phase # "idle"
                 PROVE  ReviewIsHonest'
    BY <1>1 DEF ReviewIsHonest
  <2>2. /\ outcome.status = "none" /\ plan.reason = "none" /\ 0 <= recorded
        /\ recorded <= review.clock /\ review.clock <= now /\ Sources <= 2
        /\ \A k \in 1 .. Sources : /\ Honest(review.sources[k], review.clock)
                                   /\ review.sources[k].at <= now
        /\ review.phase = "stamping" => Sources > 0
        /\ review.sources \in Seq(Source) /\ Sources = Len(review.sources)
        /\ now \in Nat /\ review.clock \in Nat
    BY <2>1 DEF IInv, ReviewIsHonest, TypeOK, Times, Sources
  <2>3. \A k \in 1 .. Sources : review.sources[k].at \in Nat /\ review.sources[k].read \in Nat
    <3>1. \A k \in 1 .. Sources : review.sources[k] \in Source
      BY <2>2
    <3>2. QED
      BY <3>1 DEF Source, Times
  <2>4. \A k \in 1 .. Sources : review.sources[k].at <= now + 1
    BY <2>2, <2>3
  <2>5. review.phase = "stamping" => now + 1 <= review.sources[Sources].read + Latency
    BY <1>1, <2>2, <2>3, Numbers
  <2>6. \A source, clock : Honest(source, clock)' = Honest(source, clock)
    BY <1>1, SameVerdict
  <2>7. QED
    BY <1>1, <2>2, <2>4, <2>5, <2>6 DEF ReviewIsHonest, Sources
<1>6. QED
  BY <1>2, <1>3, <1>4, <1>5 DEF IInv

LEMMA StepKeeps == ASSUME IInv, [Next]_vars PROVE IInv'
<1>1. ASSUME NEW asOf \in Days, NEW i \in Assets, NEW b \in Benchmarks, Start(asOf, i, b)
      PROVE  IInv'
  BY <1>1, StartKeeps
<1>2. CASE ReviewStep
  BY <1>2, DownloadKeeps, StampKeeps, ShareKeeps, ConcludeKeeps DEF ReviewStep
<1>3. CASE Reflect
  BY <1>3, OthersKeep DEF Reflect, IInv, TypeOK
<1>4. CASE Upgrade
  <2>1. release' \in Releases
    BY <1>4, Numbers DEF Upgrade, IInv, TypeOK, Releases
  <2>2. QED
    BY <1>4, <2>1, OthersKeep DEF Upgrade, IInv, TypeOK
<1>5. CASE UNCHANGED vars
  BY <1>5, OthersKeep DEF vars, IInv, TypeOK
<1>6. QED
  BY <1>1, <1>2, <1>3, <1>4, <1>5, RecordKeeps, CloseKeeps, BeginKeeps, DiesKeeps, TickKeeps DEF Next

-----------------------------------------------------------------------------
(* What follows from the invariant.                                        *)

(* The invariant holds, whatever the provider answers and whoever dies.    *)
THEOREM Invariance == Spec => []IInv
BY InitHolds, StepKeeps, PTL DEF Spec

(* Variables keep their types.                                             *)
THEOREM TypeCorrect == Spec => []TypeOK
BY Invariance, PTL DEF IInv

(* A day that was over when a source was stamped had a final close when    *)
(* the source was read, and a day after the decision had none at it.       *)
LEMMA HonestDaysAreFinal ==
    ASSUME recorded \in Times, NEW source \in Source, NEW clock \in Times,
           Honest(source, clock), NEW d \in Complete(source)
    PROVE  /\ Final[source.symbol][d] <= source.read
           /\ d > LocalDay[source.symbol][recorded] => Final[source.symbol][d] > recorded
<1> DEFINE s == source.symbol
<1>1. /\ s \in Symbols /\ source.read \in Times /\ source.at \in Times /\ d \in Days
      /\ clock <= source.read /\ source.at <= source.read + Latency
      /\ d \in Sessions[s] /\ d < UtcDay[clock] /\ d < LocalDay[s][source.at]
  BY DEF Source, Honest, Complete, IsOver, Requested
<1>2. /\ clock \in Moments /\ source.read \in Moments /\ source.at \in Moments
      /\ source.read + Latency \in Moments /\ recorded \in Moments
  BY <1>1, Numbers
<1>3. UtcDay[clock] <= UtcDay[source.read]
  BY <1>1, <1>2, CalendarsAdvance DEF CalendarsAdvance
<1>4. LocalDay[s][source.at] <= LocalDay[s][source.read + Latency]
  BY <1>1, <1>2, CalendarsAdvance DEF CalendarsAdvance
<1>5. /\ d \in Int /\ UtcDay[clock] \in Int /\ UtcDay[source.read] \in Int
      /\ LocalDay[s][source.at] \in Int /\ LocalDay[s][source.read + Latency] \in Int
      /\ LocalDay[s][recorded] \in Int /\ Final[s][d] \in Int /\ recorded \in Int
  BY <1>1, <1>2, Numbers DEF Times
<1>6. UtcDay[source.read] > d /\ LocalDay[s][source.read + Latency] > d
  BY <1>1, <1>3, <1>4, <1>5
<1>7. Final[s][d] <= source.read
  BY <1>1, <1>6, RowsSettle DEF RowsSettle
<1>8. d > LocalDay[s][recorded] => Final[s][d] > recorded
  BY <1>1, <1>5, RowsSettle DEF RowsSettle
<1>9. QED
  BY <1>7, <1>8

LEMMA FollowingIsFinal == ASSUME IInv PROVE EndpointsAreFinal
<1>1. SUFFICES ASSUME outcome.status = "available", NEW k \in 1 .. 2
               PROVE  LET source == outcome.facts.sources[k]
                      IN /\ \A n \in 1 .. 2 : Final[source.symbol][outcome.days[n]] <= source.read
                         /\ Final[source.symbol][outcome.days[1]] > recorded
  BY DEF EndpointsAreFinal
<1> DEFINE facts == outcome.facts
           source == facts.sources[k]
<1>2. /\ facts \in Facts /\ facts.sources \in Seq(Source) /\ facts.clock \in Times
      /\ recorded \in Times
      /\ outcome = Outcome(Concluded(facts), Observed(facts.sources), facts)
      /\ FactsFit(facts) /\ Honest(source, facts.clock)
  BY <1>1 DEF IInv, TypeOK, OutcomeFollows, Facts
<1>3. /\ Concluded(facts).status = "available" /\ outcome.days = Concluded(facts).days
  BY <1>1, <1>2 DEF Outcome
<1>4. Concluded(facts) = Judged(facts.sources) /\ Len(facts.sources) = 2
  BY <1>2, <1>3, ConcludedVerdict
<1>5. \A n \in 1 .. 2 : outcome.days[n] \in Common(facts.sources)
  BY <1>2, <1>3, <1>4, JudgedVerdict
<1>6. source \in Source
  BY <1>2, <1>4
<1>7. \A n \in 1 .. 2 : /\ outcome.days[n] \in Complete(source)
                        /\ outcome.days[n] > LocalDay[source.symbol][recorded]
  BY <1>5 DEF Common, IsAfter
<1>8. QED
  BY <1>2, <1>6, <1>7, HonestDaysAreFinal

(* Whatever the zones, however slow the downloads: outcomes rest on closes *)
(* that were final, and that nobody knew when the decision was made.       *)
THEOREM OutcomesAreFair == Spec => []EndpointsAreFinal
BY Invariance, FollowingIsFinal, PTL

LEMMA FollowingReplays == ASSUME IInv PROVE OutcomesReplay
<1>1. SUFFICES ASSUME outcome.status # "none", IsEligible
               PROVE  Replay = outcome.status
  BY DEF OutcomesReplay, Replay
<1> DEFINE facts == outcome.facts
<1>2. CASE plan.reason # "none"
  <2>1. outcome.status = "not_evaluable" /\ facts.sources = <<>>
    BY <1>1, <1>2 DEF IInv, OutcomeFollows, NoFacts
  <2>2. SubjectsFit
    BY <2>1 DEF SubjectsFit
  <2>3. \A verdict : Replayed(verdict) = "not_evaluable"
    BY <1>2 DEF Replayed
  <2>4. QED
    BY <1>1, <2>1, <2>2, <2>3 DEF Replay, OldReplay
<1>3. CASE plan.reason = "none"
  <2>1. /\ facts \in Facts /\ facts.sources \in Seq(Source) /\ facts.clock \in Times
        /\ recorded \in Times
        /\ outcome = Outcome(Concluded(facts), Observed(facts.sources), facts)
        /\ FactsFit(facts) /\ Len(facts.sources) = 2
        /\ Concluded(facts).status # "refused"
    BY <1>1, <1>3 DEF IInv, TypeOK, OutcomeFollows, Facts, FactsFit, Outcome
  <2>2. /\ outcome.status = Concluded(facts).status /\ outcome.reason = Concluded(facts).reason
        /\ outcome.days = Concluded(facts).days /\ outcome.at = Observed(facts.sources)
    BY <2>1 DEF Outcome
  <2>3. \A k \in DOMAIN facts.sources : facts.sources[k].at <= outcome.at
    BY <2>1, <2>2, ObservedLast
  <2>4. outcome.at >= recorded
    <3>1. facts.sources[1] \in Source
      BY <2>1
    <3>2. facts.sources[1].at >= facts.clock /\ facts.clock >= recorded
      BY <2>1 DEF FactsFit, SourceFits
    <3>3. facts.sources[1].at <= outcome.at /\ outcome.at \in Times
      BY <2>1, <2>2, ObservedLast
    <3>4. QED
      BY <2>1, <3>1, <3>2, <3>3 DEF Source, Times
  <2>5. Replayed(Concluded(facts)) = outcome.status
    BY <1>3, <2>2, <2>3, <2>4 DEF Replayed, Follows
  <2>6. CASE IsOld(plan)
    BY <1>1, <2>1, <2>5, <2>6, ConcludedVerdict DEF Replay, OldReplay
  <2>7. CASE ~IsOld(plan)
    <3>1. OneAnswerEach(facts.sources) /\ Concluded(facts) = Calculation(facts)
      BY <2>1, <2>7, ConcludedVerdict
    <3>2. SubjectsFit
      BY <2>1, <3>1 DEF SubjectsFit, FactsFit, SourceFits
    <3>3. QED
      BY <1>1, <2>5, <2>7, <3>1, <3>2 DEF Replay
  <2>8. QED
    BY <2>6, <2>7
<1>4. QED
  BY <1>2, <1>3

(* No saved outcome ever contradicts its own facts.                        *)
THEOREM OutcomesPassTheirReplay == Spec => []OutcomesReplay
BY Invariance, FollowingReplays, PTL
=============================================================================
