\* Two analysts at work together, one of them without tools; two rounds of
\* tools, one round of each debate; two crashes or failing sources.
CONSTANTS
    market = market
    social = social
    indicators = indicators
    talk = talk
    posts = posts
    Analysts = {market, social}
    Prefetching = {social}
    Calls = {indicators, talk, posts}
    Requests <- EachItsOwn
    Lenient = {indicators}
    MaxToolRounds = 2
    ConcurrencyLimit = 2
    DebateRounds = 1
    RiskRounds = 1
    MaxFaults = 2
    None = None
SPECIFICATION FairSpec
\* A run that is over has nothing left to do.
CHECK_DEADLOCK FALSE
INVARIANTS
    CitationsResolve
    NothingHeardTwice
    RatingIsWarranted
    FinalIsFinal
PROPERTIES
    CapturesAreReplayed
    Completes
