\* Every table of three rows, its duplicates and gaps; two snapshots of a table
\* that changes; two analysts with every kind of record; every literal and context
\* of a reviewed number.
CONSTANTS
    DayLength = 2
    AnalysisDay = 2
    Offset <- Zones
    IndicatorRows <- Warmup
    None = None
    MaxDigits = 4
    MaxExponent = 1
    MaxPlaces = 2
    Plans <- ResearchPlans
    HostOffset = 1
    FirstMoment = 3
    MaxTime = 6
    MaxAge = 1
    Requests <- Questions
    MaxReviews = 1
    Price <- Cells
    Units = {}
SPECIFICATION Spec
CHECK_DEADLOCK FALSE
INVARIANTS
    GateIsWarranted
    ProofIsExact
    MatchIsExact
