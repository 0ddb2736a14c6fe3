\* Two analyses of one instrument, the second perhaps about an earlier day; two
\* reviewers, one place in a batch and in a context, one fault.
CONSTANTS
    Runs = {1, 2}
    Reviewers = {p1, p2}
    gold = gold
    Subjects = {gold}
    Subject <- OneSubject
    Dates <- SecondMayBeHistorical
    Nobody = Nobody
    BatchLimit = 1
    ContextLimit = 1
    Horizon = 1
    MaxTime = 1
    MaxFaults = 1
SPECIFICATION FairSpec
\* Runs that are done and clocks that have stopped leave nothing to do.
CHECK_DEADLOCK FALSE
INVARIANTS
    FrozenIsPast
    ReviewsAreCurrent
    RefusalsPass
PROPERTIES
    ComponentsAreFinal
    EveryRunHasItsTurn
