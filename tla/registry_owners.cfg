\* Two runs of two tasks, one caller beside the workers; no call fails and the
\* processes write no output that anyone reads.
CONSTANTS
    t1 = t1
    t2 = t2
    c1 = c1
    c2 = c2
    out = out
    err = err
    Tasks = {t1, t2}
    Stoppers = {c1}
    Streams = {}
    MaxRuns = 2
    MaxFaults = 0
    None = None
SPECIFICATION Spec
SYMMETRY Interchangeable
INVARIANTS
    OnlyTheOwnerLives
    RemovalsAreAlone
PROPERTIES
    OwnersAreNotEvicted
