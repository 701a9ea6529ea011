SPECIFICATION FairSpec
CONSTANTS
    Keys = {k1, k2}
    NoKey = NoKey
    Requests = {r1, r2}
    MaxEntries = 1
    MinTTL = 2
    MaxTTL = 3
    NegMinTTL = 1
    NegMaxTTL = 1
    FailTTL = 1
    ServeStale = TRUE
    StaleMaxAge = 1
    StaleTTL = 1
    Modulus = 16
    TTLs = {0}
    Budget = 1
    MaxLag = 1
    MaxStarts = 2
    MaxTime = 4
INVARIANTS
    ListMatchesMap
    AnswerAge
PROPERTY
    EveryRequestEnds
