--------------------------- MODULE MarketQuality ---------------------------
(* What a verified market snapshot says about the daily rows behind it, and *)
(* the offline proof that saved rows support what a saved assessment says.  *)
(* The two are written apart in the code, one over the frame a vendor sent, *)
(* the other over the table of the evidence; a gate that trusts the first   *)
(* only after the second needs them to agree on every table.                *)
(*                                                                          *)
(* A table is a bag of rows: two equal rows are a duplicate that is kept    *)
(* once.  A moment is a number; UTC counts days from moment 0.              *)
EXTENDS Integers, FiniteSets, Bags

CONSTANTS
    DayLength,     \* moments of a day
    AnalysisDay,   \* the day the run is about
    Offset,        \* of every admitted time zone from UTC, in moments
    IndicatorRows, \* completed rows that each indicator needs
    None           \* unknown

ASSUME CalendarsAreRight ==
    /\ DayLength \in Nat \ {0} /\ AnalysisDay \in Nat
    /\ \A zone \in DOMAIN Offset : zone # None /\ Offset[zone] \in Int
    /\ \A name \in DOMAIN IndicatorRows : IndicatorRows[name] \in Nat \ {0}
    /\ None \notin Int

UtcDay(t) == t \div DayLength
LocalDay(t, zone) == (t + Offset[zone]) \div DayLength

(* Whether a row's prices and volume are numbers and agree with each other. *)
Coherent(row) == row.values # "broken"

(* A zone that is written in the stamp or given by the vendor is observed;  *)
(* one that follows from the symbol is not.                                 *)
Observed(row) == row.origin \in {"timestamp", "provider_metadata"}

Admitted(row) == row.zone \in DOMAIN Offset

Latest(rows) ==
    IF rows = {} THEN None
    ELSE CHOOSE day \in {row.day : row \in rows} : \A row \in rows : row.day <= day

-----------------------------------------------------------------------------
(* Rows of one day: equal ones count once, different ones not at all.       *)

On(table, day) == {row \in BagToSet(table) : row.day = day}

Conflicts(table) ==
    {day \in {row.day : row \in BagToSet(table)} : \E r, s \in On(table, day) : r # s}

Undisputed(table) == {row \in BagToSet(table) : row.day \notin Conflicts(table)}

(* The copies of some of its rows, each told apart.                         *)
Copies(rows, table) == UNION {{row} \X (1 .. table[row]) : row \in rows}

Size(table) == Cardinality(Copies(BagToSet(table), table))

Collapsed(table) ==
    Cardinality(Copies(Undisputed(table), table)) - Cardinality(Undisputed(table))

Valid(table) == {row \in Undisputed(table) : Coherent(row)}

(* The zone that all rows share, and how it is known.                       *)
SharedZone(rows) ==
    LET zones == {row.zone : row \in rows} \ {None}
    IN  IF \E zone \in zones : zones = {zone} THEN CHOOSE zone \in zones : TRUE ELSE None

SharedOrigin(rows) ==
    LET origins == {row.origin : row \in rows}
    IN  IF "provider_metadata" \in origins THEN "provider_metadata"
        ELSE IF \E origin \in origins : origins = {origin}
        THEN CHOOSE origin \in origins : TRUE ELSE "unknown"

-----------------------------------------------------------------------------
(* The assessment of what was delivered, as of the moment `at'.             *)

(* The row's day is over in its own zone and in UTC.                        *)
Elapsed(row, at) == row.day < LocalDay(at, row.zone) /\ row.day < UtcDay(at)

Completion(row, at) ==
    IF ~Observed(row) \/ ~Admitted(row) THEN "unknown"
    ELSE IF row.midnight /\ Elapsed(row, at) THEN "complete" ELSE "provisional"

States(rows, at) ==
    [row \in rows |-> IF SharedZone(rows) = None THEN "unknown" ELSE Completion(row, at)]

IndicatorStatus(name, invalid, usable) ==
    IF invalid > 0 \/ usable = 0 THEN "unavailable"
    ELSE IF usable < IndicatorRows[name] THEN "warmup"
    ELSE "available"

(* An indicator that has its rows may still come out as no number.          *)
Failed(indicators, failing) ==
    [name \in DOMAIN indicators |->
        IF name \in failing /\ indicators[name] = "available" THEN "failed"
                                                              ELSE indicators[name]]

Integrity(invalid, valid) ==
    IF invalid > 0 THEN "invalid" ELSE IF valid > 0 THEN "valid" ELSE "empty"

(* A delivery is the table, whether it repeats the name of a column that no *)
(* row's prices are in, the rows without a date that a loader dropped, the  *)
(* basis of its prices, and the indicators that cannot be computed.         *)
Assess(d, at) ==
    LET valid == Valid(d.table)
        states == States(valid, at)
        In(state) == {row \in valid : states[row] = state}
        complete == In("complete")
        invalid == Size(d.table) - Cardinality(valid) - Collapsed(d.table) + d.undated
        known == SharedZone(valid) # None /\ \E row \in valid : Admitted(row)
        indicators == [name \in DOMAIN IndicatorRows |->
                          IndicatorStatus(name, invalid, Cardinality(complete))]
    IN  [observed |-> at,
         zone |-> IF known THEN SharedZone(valid) ELSE None,
         origin |-> IF known THEN SharedOrigin(valid) ELSE "unknown",
         basis |-> d.basis,
         integrity |-> Integrity(invalid, Cardinality(valid)),
         completion |-> IF complete # {}
                        THEN states[CHOOSE row \in valid : row.day = Latest(valid)]
                        ELSE IF In("provisional") # {} THEN "provisional"
                        ELSE IF In("unknown") # {} THEN "unknown" ELSE "empty",
         received |-> Size(d.table) + d.undated,
         inWindow |-> Size(d.table),
         valid |-> Cardinality(valid),
         invalid |-> invalid,
         conflicts |-> Conflicts(d.table),
         collapsed |-> Collapsed(d.table),
         provisional |-> Cardinality(In("provisional")),
         unknown |-> Cardinality(In("unknown")),
         usable |-> Cardinality(complete),
         latestReceived |-> Latest(BagToSet(d.table)),
         latestUsable |-> Latest(complete),
         indicators |-> Failed(indicators, d.failing)]

-----------------------------------------------------------------------------
(* The proof of a saved assessment from a saved table.                      *)

(* Fault: rows of the observation's own day count as finished in UTC. *)
StateToday(row, at, zone) ==
    IF zone = None \/ ~Observed(row) \/ ~Admitted(row) THEN "unknown"
    ELSE IF ~row.midnight \/ row.day > UtcDay(at) \/ row.day >= LocalDay(at, row.zone)
    THEN "provisional" ELSE "complete"

State(row, at, zone) ==
    IF zone = None \/ ~Observed(row) \/ ~Admitted(row) THEN "unknown"
    ELSE IF ~row.midnight \/ row.day >= UtcDay(at) \/ row.day >= LocalDay(at, row.zone)
    THEN "provisional" ELSE "complete"

(* A zone that no valid row resolves is no zone.                            *)
ProvenZone(rows) == IF \E row \in rows : Admitted(row) THEN SharedZone(rows) ELSE None

ProvenCompletion(rows, at) ==
    LET State1(row) == State(row, at, ProvenZone(rows))
        newest == {row \in rows : row.day = Latest(rows)}
        states == {State1(row) : row \in rows}
    IN  IF "complete" \in states THEN State1(CHOOSE row \in newest : TRUE)
        ELSE IF "provisional" \in states THEN "provisional"
        ELSE IF "unknown" \in states THEN "unknown" ELSE "empty"

(* Rows that the loader dropped may only add to those that are not valid;   *)
(* a table that carries the basis of its prices must confirm it, and one    *)
(* that repeats a column's name proves nothing.                             *)
Proves(d, q) ==
    LET valid == Valid(d.table)
        size == Size(d.table)
        invalid == size - Cardinality(valid) - Collapsed(d.table)
        zone == ProvenZone(valid)
        In(state) == {row \in valid : State(row, q.observed, zone) = state}
    IN  /\ ~d.repeated
        /\ size > 0 /\ q.inWindow = size /\ q.received >= size
        /\ d.carried # None /\ q.basis # None => q.basis = d.carried
        /\ q.latestReceived = Latest(BagToSet(d.table))
        /\ q.valid = Cardinality(valid)
        /\ q.collapsed = Collapsed(d.table)
        /\ q.conflicts = Conflicts(d.table)
        /\ invalid <= q.invalid /\ q.invalid <= invalid + q.received - size
        /\ q.integrity = Integrity(q.invalid, Cardinality(valid))
        /\ q.zone = zone
        /\ q.origin = IF zone = None THEN "unknown" ELSE SharedOrigin(valid)
        /\ q.usable = Cardinality(In("complete"))
        /\ q.provisional = Cardinality(In("provisional"))
        /\ q.unknown = Cardinality(In("unknown"))
        /\ q.latestUsable = Latest(In("complete"))
        /\ q.completion = ProvenCompletion(valid, q.observed)
=============================================================================
