CONSTANTS
    east = east
    west = west
    coin = coin
    odd = odd
    None = None
    Symbols = {east, west, coin}
    Assets = {east, west, coin, odd}
    Target <- TheTarget
    OldTarget <- TheOldTarget
    Benchmarks = {west}
    LastRelease = 2
    MaxTime = 11
    LastRecord = 1
    Latency = 1
    Days <- TheDays
    UtcDay <- TheUtcDay
    HostDay <- TheHostDay
    LocalDay <- TheLocalDay
    Sessions <- TheSessions
    Opens <- TheOpens
    Final <- TheFinal
    Holding = 1
    MaxFaults = 1
SPECIFICATION FairSpec
CHECK_DEADLOCK FALSE
INVARIANTS
    EndpointsAreFinal
    OutcomesReplay
PROPERTIES
    EveryDecisionSettles
