CONSTANTS
    c1 = c1
    c2 = c2
    None = None
    Calls = {c1, c2}
    Plans <- ThePlans
    Chain <- TheChain
    MaxTime = 2
    HostDay <- TheHostDay
    UtcDay <- TheUtcDay
    ChinaDay <- TheChinaDay
    SourceDay <- TheSourceDay
    Opens <- TheOpens
    Settles <- TheSettles
    Published <- ThePublished
    Undated <- TheUndated
    Queries <- TheQueries
    Subreddits <- TheSubreddits
    FeedLimit = 2
    Lookback = 2
    FeedDays = 1
    RecentDays = 1
    Span = 2
    Enough = 2
    Warmup = 1
    StaleDays = 1
    Ttl = 0
    MaxRetries = 1
SPECIFICATION FairSpec
\* Calls that are answered have nothing left to do.
CHECK_DEADLOCK FALSE
INVARIANTS
    AbsenceIsObserved
    NothingFromAfterTheRun
    AvailableIsUndisturbed
PROPERTIES
    EveryCallIsAnswered
