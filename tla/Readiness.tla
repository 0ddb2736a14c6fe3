----------------------------- MODULE Readiness -----------------------------
(* The gate between a run's research and a recommendation: the policy that  *)
(* is frozen when the run starts, the records that its analysts leave, the  *)
(* assessment derived from them alone, and the review of numbers that its   *)
(* report quotes.                                                           *)
(*                                                                          *)
(* Between the reading of a vendor's rows and the record that keeps them    *)
(* time passes; midnight may come in UTC, at the host or at the exchange.   *)
EXTENDS MarketQuality, SavedNumbers

CONSTANTS
    Plans,        \* runs: their analysts, what vendors may deliver and the status that
                  \* a record of it may have, the bounds on snapshots and other records,
                  \* and which questions a reviewer asks
    Requests,     \* the questions of each kind
    MaxReviews,
    HostOffset,   \* of the host's calendar from UTC, in moments
    FirstMoment, MaxTime,
    MaxAge,       \* days by which the newest finished row may precede the analysis
    Price,        \* the cell that each kind of row holds
    Units         \* the units a vendor states, a set of at most one

VARIABLES
    now, plan,
    policy,       \* of the run, frozen at its start
    reading,      \* a snapshot whose record is not saved yet
    records,      \* the ledger
    decision,     \* the assessment and the rating
    report,       \* when the report's text was frozen
    reviews

vars == <<now, plan, policy, reading, records, decision, report, reviews>>

(* A loader keeps rows of the analysis day and before.  A snapshot without  *)
(* rows leaves no table, and a table's column of the basis holds what the   *)
(* loader observed.                                                         *)
IsDelivery(d) ==
    /\ DOMAIN d = {"table", "repeated", "undated", "basis", "carried", "failing"}
    /\ IsABag(d.table) /\ IsFiniteSet(BagToSet(d.table)) /\ BagToSet(d.table) # {}
    /\ \A row \in BagToSet(d.table) :
         row.day \in Int /\ row.day <= AnalysisDay /\ row.values \in DOMAIN Price
    /\ d.repeated \in BOOLEAN /\ d.undated \in Nat /\ d.failing \subseteq DOMAIN IndicatorRows
    /\ d.carried = None \/ d.basis \in {None, d.carried}

(* What a reviewer writes: a literal of the report, its digits around it,   *)
(* and the texts bound to it, if any.                                       *)
IsRequest(request) ==
    /\ IsLiteral(request.literal)
    /\ DOMAIN request.bindings = {"instrument", "row_date", "units"}
    /\ \A key \in DOMAIN request.bindings : request.bindings[key].given \in BOOLEAN

ASSUME PlansAreRight ==
    /\ {FirstMoment, MaxTime, MaxAge, MaxReviews} \subseteq Nat /\ HostOffset \in Int
    /\ \A kind \in DOMAIN Price :
         Price[kind].numeric \in BOOLEAN /\ (Price[kind].numeric => IsLiteral(Price[kind].literal))
    /\ \A question \in DOMAIN Requests : \A request \in Requests[question] : IsRequest(request)
    /\ \A p \in Plans : /\ p.analysts # {} /\ {p.snapshots, p.others} \subseteq Nat
                        /\ \A d \in p.feed : IsDelivery(d)
                        /\ p.statuses \subseteq {"available", "partial"}
                        /\ p.questions \in DOMAIN Requests

Statuses == {"available", "partial", "empty", "unavailable", "withheld"}

HostDay(t) == (t + HostOffset) \div DayLength

Init ==
    /\ now = FirstMoment /\ plan \in Plans
    /\ policy = None /\ reading = None /\ records = <<>>
    /\ decision = None /\ report = None /\ reviews = <<>>

-----------------------------------------------------------------------------
(* The run.                                                                 *)

Mode(day, calendar) ==
    IF day = calendar THEN "same_host_date"
    ELSE IF day < calendar THEN "historical_date_only" ELSE "future_date"

(* A run is about a day that has begun at the host.                         *)
Start ==
    /\ policy = None /\ AnalysisDay <= HostDay(now)
    /\ policy' = [started |-> now, mode |-> Mode(AnalysisDay, HostDay(now))]
    /\ UNCHANGED <<now, plan, reading, records, decision, report, reviews>>

Running == policy # None /\ decision = None

Count(filled) == Cardinality({i \in DOMAIN records : (records[i].content # {}) \in filled})

(* The rows are at hand and are assessed as of now.                         *)
ReadRows ==
    /\ Running /\ reading = None /\ "market" \in plan.analysts
    /\ Count({TRUE}) < plan.snapshots
    /\ \E d \in plan.feed : reading' = [delivery |-> d, quality |-> Assess(d, now)]
    /\ UNCHANGED <<now, plan, policy, records, decision, report, reviews>>

Saved(r) == records' = Append(records, r)

(* A vendor that failed before another delivered leaves the record partial. *)
SaveSnapshot ==
    /\ reading # None
    /\ \E status \in plan.statuses :
         Saved([analyst |-> "market", snapshot |-> TRUE, status |-> status, sourced |-> TRUE,
                withheld |-> FALSE, fetched |-> now, content |-> {reading}])
    /\ reading' = None
    /\ UNCHANGED <<now, plan, policy, decision, report, reviews>>

(* Any other record: another tool's, another analyst's, or a snapshot that  *)
(* got no rows.  Only its status, whether it names a source with data and   *)
(* whether the source that a review would select was withheld, beside       *)
(* others that were not, are told apart.                                    *)
SaveRecord(analyst) ==
    /\ Running /\ Count({FALSE}) < plan.others
    /\ \E status \in Statuses, snapshot, sourced, withheld \in BOOLEAN :
         /\ snapshot => analyst = "market" /\ status \notin {"available", "partial"}
         /\ sourced \/ withheld => status \in {"available", "partial"}
         /\ Saved([analyst |-> analyst, snapshot |-> snapshot, status |-> status,
                   sourced |-> sourced, withheld |-> withheld, fetched |-> now, content |-> {}])
    /\ UNCHANGED <<now, plan, policy, reading, decision, report, reviews>>

(* The clock is followed while anything is still to be recorded.            *)
Tick ==
    /\ now < MaxTime /\ decision = None
    /\ \/ reading # None
       \/ Count({TRUE}) < plan.snapshots
       \/ Count({FALSE}) < plan.others
    /\ now' = now + 1
    /\ UNCHANGED <<plan, policy, reading, records, decision, report, reviews>>

-----------------------------------------------------------------------------
(* The assessment.                                                          *)

Recorded == {records[i] : i \in DOMAIN records}

By(analyst) == {r \in Recorded : r.analyst = analyst}

Snapshots == {r \in By("market") : r.snapshot}

Finding(kind, holds) == IF holds THEN {kind} ELSE {}

(* What a record's own status says against it.                              *)
Receipt(r) ==
    Finding("unavailable", r.status \in {"unavailable", "withheld"})
        \cup Finding("missing", r.status = "empty")
        \cup Finding("partial", r.status = "partial")

Receipts(rs) == UNION {Receipt(r) : r \in rs}

(* Fault: a run that lasts past its day is one of that day all the same. *)
TemporalByStart == Finding("unknown", policy.mode # "same_host_date")

(* Only a run of the host's own day, with every record fetched before that  *)
(* day was over in UTC, saw nothing of later days.                          *)
Temporal ==
    Finding("unknown", \/ policy.mode # "same_host_date"
                       \/ \E r \in Recorded : UtcDay(r.fetched) > AnalysisDay)

(* A saved assessment must be sound in itself ...                           *)
WellFormed(q) ==
    /\ {q.inWindow, q.valid, q.invalid, q.collapsed, q.usable} \subseteq 0 .. q.received
    /\ q.usable + q.provisional + q.unknown = q.valid
    /\ \A day \in q.conflicts : day <= AnalysisDay
    /\ \A day \in {q.latestReceived, q.latestUsable} \ {None} : day <= AnalysisDay
    /\ q.usable = 0 <=> q.latestUsable = None
    /\ q.latestUsable # None => q.latestReceived # None /\ q.latestUsable <= q.latestReceived
    /\ q.integrity = Integrity(q.invalid, q.valid)
    /\ \A name \in DOMAIN q.indicators :
         q.indicators[name] = "available" => q.usable >= IndicatorRows[name]

(* ... made while the run could still look at its day, before the record    *)
(* was closed, of rows that the record names ...                            *)
Timely(q, r) ==
    /\ policy.started <= q.observed /\ UtcDay(q.observed) <= AnalysisDay
    /\ q.observed <= r.fetched /\ r.sourced

(* ... and proved by the rows that were saved with it.                      *)
Stands(c, r) ==
    WellFormed(c.quality) /\ Timely(c.quality, r) /\ Proves(c.delivery, c.quality)

Assessed(r) == {c.quality : c \in {c \in r.content : Stands(c, r)}}

RowFindings(q) ==
    Finding("invalid", q.integrity = "invalid" \/ q.conflicts # {})
        \cup Finding("missing", q.integrity = "empty")
        \cup Finding("unknown", q.unknown > 0 \/ q.zone = None \/ q.origin = "unknown")
        \cup Finding("partial", q.usable = 0 /\ q.provisional > 0)
        \cup Finding("unknown", q.usable = 0 /\ q.provisional = 0)
        \cup Finding("unknown", q.usable > 0 /\ AnalysisDay - q.latestUsable > MaxAge)
        \cup Finding("unknown", q.basis = None)

IndicatorFindings(q) ==
    LET statuses == {q.indicators[name] : name \in DOMAIN IndicatorRows}
    IN  Finding("partial", statuses \cap {"warmup", "failed"} # {})
            \cup Finding("unknown", "unavailable" \in statuses)

OfAssessments(Findings(_)) ==
    UNION {IF Assessed(r) = {} THEN {"unknown"} ELSE UNION {Findings(q) : q \in Assessed(r)} :
               r \in Snapshots}

Bases == (UNION {{q.basis : q \in Assessed(r)} : r \in Snapshots}) \ {None}

Market ==
    IF "market" \notin plan.analysts THEN {"not_selected"}
    ELSE IF Snapshots = {} THEN {"missing"}
    ELSE Receipts(Snapshots) \cup OfAssessments(RowFindings)
             \cup Finding("unknown", \E a, b \in Bases : a # b)

Indicators == Market \cup OfAssessments(IndicatorFindings)

Sources(analyst) ==
    Receipts(By(analyst))
        \cup Finding("missing", By(analyst) = {})
        \cup Finding("unknown", By(analyst) # {}
                                  /\ ~\E r \in By(analyst) : r.status = "available" /\ r.sourced)
        \cup Finding("unknown", \E r \in By(analyst) : r.status = "available" /\ ~r.sourced)

(* The worst finding is the status of a check.                              *)
Precedence == <<"invalid", "unavailable", "missing", "partial", "unknown", "not_selected">>

Check(findings) ==
    IF findings = {} THEN "passed"
    ELSE Precedence[CHOOSE i \in DOMAIN Precedence :
                       /\ Precedence[i] \in findings
                       /\ \A j \in 1 .. i - 1 : Precedence[j] \notin findings]

Checks ==
    {Check(Temporal), Check(Market), Check(Indicators)}
        \cup {Check(Sources(analyst)) : analyst \in plan.analysts}

Assessment ==
    IF Checks = {"passed"} THEN "ready"
    ELSE IF Checks \cap {"missing", "unavailable", "invalid"} # {} THEN "insufficient_evidence"
    ELSE "review_required"

(* The model is asked only if the inputs are ready; it may still ask for a  *)
(* review itself.                                                           *)
Decide ==
    /\ Running /\ reading = None
    /\ \E rating \in IF Assessment = "ready" THEN {"directional", "REVIEW"} ELSE {"REVIEW"} :
         decision' = [status |-> Assessment, rating |-> rating]
    /\ UNCHANGED <<now, plan, policy, reading, records, report, reviews>>

-----------------------------------------------------------------------------
(* The review of the report's numbers.                                      *)

(* The text is frozen after everything that it may quote was recorded.      *)
FreezeReport ==
    /\ decision # None /\ report = None
    /\ \A r \in Recorded : r.fetched <= now
    /\ report' = now
    /\ UNCHANGED <<now, plan, policy, reading, records, decision, reviews>>

Prices == {"Date", "Open", "Close"}

(* A date is a text; equal rows are kept apart by their number.             *)
TableOf(table, fields, repeated) ==
    [present |-> TRUE, repeated |-> repeated, fields |-> fields,
     rows |-> UNION {{[date |-> row.day, row |-> row, copy |-> copy,
                       cells |-> [f \in fields |-> IF f = "Date" THEN [numeric |-> FALSE]
                                                                ELSE Price[row.values]]] :
                          copy \in 1 .. table[row]} : row \in BagToSet(table)}]

NoTable == [present |-> FALSE, repeated |-> FALSE, fields |-> {}, rows |-> {}]

Completed(c) ==
    {row \in Valid(c.delivery.table) : /\ c.quality.zone # None
                                       /\ Completion(row, c.quality.observed) = "complete"}

(* A snapshot keeps the vendor's table, and beside it the newest finished   *)
(* row, if all rows are in order, and the closes it showed: of the columns  *)
(* only two, which have different names.                                    *)
TableAt(c, path) ==
    LET table == c.delivery.table
        newest == {row \in Completed(c) : row.day = Latest(Completed(c))}
    IN  CASE path = "rows" -> TableOf(table, Prices, c.delivery.repeated)
          [] path = "recent_closes" -> TableOf(table, {"Date", "Close"}, FALSE)
          [] path = "latest_ohlcv" /\ c.quality.integrity = "valid" ->
               TableOf(SetToBag(newest), Prices, c.delivery.repeated)
          [] OTHER -> NoTable

Selected(r, selector) ==
    IF r.withheld \/ r.status = "withheld" THEN Missing("source_withheld")
    ELSE IF r.status \notin {"available", "partial"} THEN Missing("source_unavailable")
    ELSE IF r.content = {} THEN Missing("table_missing")
    ELSE Cell(TableAt(CHOOSE c \in r.content : TRUE, selector.path), selector)

(* The selected row's date is part of the context only if there is a row.   *)
DateKnown(cell) ==
    cell.found \/ cell.reason \in {"field_missing", "field_not_numeric", "number_unsupported"}

ExpectedContext(request, dated) ==
    [instrument |-> {"instrument"}, units |-> Units,
     row_date |-> IF dated THEN {request.selector.date} ELSE {}]

Contexts(request, cell) ==
    {ContextResult(request.bindings[key], ExpectedContext(request, DateKnown(cell))[key]) :
        key \in DOMAIN request.bindings}

(* A request that names no record of the run, more places than are allowed  *)
(* or a text that is not in the report is refused.                          *)
Accepted(request) ==
    /\ request.record \in DOMAIN records
    /\ request.places \in 0 .. MaxPlaces

Review ==
    /\ report # None /\ report <= now
    /\ Len(reviews) < MaxReviews
    /\ \E request \in Requests[plan.questions] :
         /\ Accepted(request)
         /\ LET cell == Selected(records[request.record], request.selector)
            IN  reviews' = Append(reviews, [request |-> request,
                    result |-> Derive(request, cell, Contexts(request, cell))])
    /\ UNCHANGED <<now, plan, policy, reading, records, decision, report>>

-----------------------------------------------------------------------------
Next ==
    \/ Start \/ ReadRows \/ SaveSnapshot \/ Tick \/ Decide \/ FreezeReport \/ Review
    \/ \E analyst \in plan.analysts : SaveRecord(analyst)

Spec == Init /\ [][Next]_vars
-----------------------------------------------------------------------------
(* Properties.                                                              *)

Settled(row, at) ==
    row.midnight /\ row.day < UtcDay(at) /\ row.day < LocalDay(at, row.zone)

(* Rows that a recommendation may rest on, as of their reading.             *)
Sound(c) ==
    LET rows == BagToSet(c.delivery.table)
    IN  /\ ~c.delivery.repeated
        /\ c.delivery.undated = 0 /\ c.delivery.basis # None /\ c.delivery.failing = {}
        /\ \A r, s \in rows : r.zone = s.zone /\ (r.day = s.day => r = s)
        /\ \A row \in rows : Coherent(row) /\ Admitted(row) /\ Observed(row)
        /\ LET settled == {row \in rows : Settled(row, c.quality.observed)}
           IN  /\ \A name \in DOMAIN IndicatorRows : Cardinality(settled) >= IndicatorRows[name]
               /\ \E row \in settled : AnalysisDay - row.day <= MaxAge

(* Inputs that a recommendation may rest on.                                *)
Warranted ==
    LET contents == UNION {r.content : r \in Snapshots}
    IN  /\ HostDay(policy.started) = AnalysisDay
        /\ "market" \in plan.analysts /\ Snapshots # {}
        /\ \A analyst \in plan.analysts : By(analyst) # {}
        /\ \A r \in Recorded : /\ r.status = "available" /\ r.sourced
                              /\ UtcDay(r.fetched) <= AnalysisDay
        /\ \A r \in Snapshots : \E c \in r.content : Sound(c)
        /\ \A c, d \in contents : c.delivery.basis = d.delivery.basis

(* A recommendation is allowed exactly if the rows and records of the run   *)
(* warrant it: no midnight at the host, in UTC or at the exchange between   *)
(* start, reading and record lets an unfinished row or a late record in,    *)
(* and no sound input is turned away (_derive, _quality, gated_portfolio_   *)
(* manager).                                                                *)
GateIsWarranted ==
    decision # None =>
        /\ decision.status = "ready" <=> Warranted
        /\ decision.rating = "directional" => Warranted

(* The offline proof accepts a saved assessment for a saved table exactly   *)
(* if assessing that table at the same moment says the same: what the two   *)
(* calculations say of duplicates, zones and midnight never differs, and an *)
(* assessment saved with another table, or with one that repeats a column's *)
(* name, does not stand (_assess, _table, _proof).                          *)
ProofIsExact ==
    \A c, d \in UNION {r.content : r \in Recorded} :
        LET q == c.quality
            p == Assess([d.delivery EXCEPT !.undated = c.delivery.undated], q.observed)
        IN  Proves(d.delivery, q) <=>
                /\ \A field \in DOMAIN q \ {"basis", "indicators"} : q[field] = p[field]
                /\ ~d.delivery.repeated
                /\ d.delivery.carried = None \/ q.basis \in {None, d.delivery.carried}

(* A literal is the saved number at the given places: a multiple of the     *)
(* last place, at most half of it away, and away from zero if just half.    *)
Rounds(literal, saved, places) ==
    LET scale == Ten[MaxDigits + MaxExponent + MaxPlaces]
        Scaled(n) == IF n.exponent >= n.fraction
                     THEN n.digits * Ten[n.exponent - n.fraction] * scale
                     ELSE n.digits * (scale \div Ten[n.fraction - n.exponent])
        unit == scale \div Ten[places]
        distance == Magnitude(Scaled(literal) - Scaled(saved))
    IN  /\ Scaled(literal) % unit = 0
        /\ 2 * distance <= unit
        /\ 2 * distance = unit => Magnitude(Scaled(literal)) > Magnitude(Scaled(saved))

(* What readers would say agrees with the rules on characters: a selection  *)
(* is the whole of a number, and a bound text is what the record says.      *)
ReadersAgree ==
    \A question \in DOMAIN Requests : \A request \in Requests[question] :
        /\ request.selection.whole <=> NumericSelection(request.selection)
        /\ \A key \in DOMAIN request.bindings :
             LET binding == request.bindings[key]
             IN  binding.given =>
                     (binding.exact <=> /\ SupportedContext(binding)
                                        /\ binding.text \in ExpectedContext(request, TRUE)[key])

(* A reviewed number is called a match only if the whole literal is the     *)
(* saved number to the last place, ties away from zero, the only row of the *)
(* selected day and the only column of the name hold it, the source was not *)
(* in doubt, and everything bound to it says what it should (_derive,       *)
(* _table, _cell, round_saved_decimal).                                     *)
MatchIsExact ==
    \A i \in DOMAIN reviews :
        LET request == reviews[i].request
            r == records[request.record]
            rows == UNION {TableAt(c, request.selector.path).rows : c \in r.content}
            On1 == {row \in rows : row.date = request.selector.date}
        IN  reviews[i].result.status = "match" <=>
                /\ r.status \in {"available", "partial"} /\ ~r.withheld
                /\ \A c \in r.content : ~TableAt(c, request.selector.path).repeated
                /\ Cardinality({row.date : row \in rows}) = Cardinality(rows)
                /\ \E row \in On1 :
                     /\ request.selector.field \in DOMAIN row.cells
                     /\ row.cells[request.selector.field].numeric
                     /\ Fits(request.literal) /\ Fits(row.cells[request.selector.field].literal)
                     /\ Rounds(request.literal, row.cells[request.selector.field].literal,
                               request.places)
                /\ request.selection.whole
                /\ \A key \in DOMAIN request.bindings :
                     request.bindings[key].given => request.bindings[key].exact
=============================================================================
