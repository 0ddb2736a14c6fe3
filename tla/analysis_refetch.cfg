\* The instance of analysis_run, with one analyst at work at a time.
CONSTANTS
    market = market
    social = social
    indicators = indicators
    talk = talk
    posts = posts
    Analysts = {market, social}
    Prefetching = {social}
    Calls = {indicators, talk, posts}
    Requests <- EachItsOwn
    Lenient = {indicators}
    MaxToolRounds = 2
    ConcurrencyLimit = 1
    DebateRounds = 1
    RiskRounds = 1
    MaxFaults = 2
    None = None
SPECIFICATION FairSpec
\* A run that is over has nothing left to do.
CHECK_DEADLOCK FALSE
PROPERTIES
    NothingIsRefetched
