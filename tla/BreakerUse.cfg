SPECIFICATION FairSpec
CONSTANTS
    Callers = {c1, c2, c3}
    MaxCalls = 5
    MaxTime = 6
    Window = 5
    Buckets = 2
    MinSamples = 3
    FailNum = 1
    FailDen = 2
    ConsecFail = 2
    Cooldown = 2
    HalfOpenMax = 2
INVARIANTS
    WindowExact
    ProbeBudget
    HalfOpenHasProbe
PROPERTIES
    FailFast
    HalfOpenResolves
