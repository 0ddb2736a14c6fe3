\* Two tasks, so that imports are batches; two requests, one copy; two
\* processes with the database open.
CONSTANTS
    t1 = t1
    t2 = t2
    r1 = r1
    r2 = r2
    c1 = c1
    c2 = c2
    p1 = p1
    p2 = p2
    Tasks = {t1, t2}
    RequestIds = {r1, r2}
    Callers = {c1, c2}
    Processes = {p1, p2}
    ProcessOf <- TwoProcesses
    MaxCounter = 2
    MaxCopies = 1
    MaxPackets = 2
    None = None
    Legacy = Legacy
    Projection = Projection
SPECIFICATION Spec
SYMMETRY TasksAndRequests
\* The bound on packets ends every behaviour: a store with nothing left to do rests.
CHECK_DEADLOCK FALSE
INVARIANTS
    ExternalStageIsHonest
    LiveBodyIsReceipted
    RowsReplay
    ReceiptsAreDistinct
PROPERTIES
    HeadsOnlyAdvance
    AbandonedClearStaysUnknown
    ImportComesFirst
    ImplementsPromise
