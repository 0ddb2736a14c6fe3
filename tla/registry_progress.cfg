\* One run, one caller that may retry for ever, one stream, two failing calls.
CONSTANTS
    t1 = t1
    t2 = t2
    c1 = c1
    c2 = c2
    out = out
    err = err
    Tasks = {t1}
    Stoppers = {c1}
    Streams = {out}
    MaxRuns = 1
    MaxFaults = 2
    None = None
SPECIFICATION FairSpec
INVARIANTS
    ConfirmedIsGone
PROPERTIES
    SignalsReachOwnGroup
    CleanupsAreAnswered
    CancelledWorkersRetire
    RetriesFreeTheSlot
