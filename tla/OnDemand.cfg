SPECIFICATION FairSpec
CONSTANTS
    Labels = {l1, l2}
    Clients = {c1, c2}
    Feeds = {f1}
    MaxInflight = 1
    ODWaiters = 2
    InflightCap = 1
    TableCap = 1
    Suppress = 1
    Wait = 2
    GlobalRate = 1
    GlobalBurst = 2
    ClientRate = 1
    ClientBurst = 1
    StopAt = 1
    MaxStarts = 3
    MaxNews = 2
    MaxTime = 2
INVARIANTS
    SlotsBalanced
    NoLostWake
    OutboundBudget
PROPERTY
    QueriesEnd
