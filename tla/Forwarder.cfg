SPECIFICATION Spec
CONSTANTS
    Queries = {q1, q2}
    p1 = p1
    p2 = p2
    f1 = f1
    Primary <- MCPrimary
    Fallback <- MCFallback
    Stub <- MCStub
    NoSNI = {}
    Cleartext = TRUE
    BreakerEnabled = TRUE
    MaxStarts = 2
    MaxFlips = 1
    MaxTime = 1
    Window = 1
    Buckets = 1
    MinSamples = 9
    FailNum = 1
    FailDen = 2
    ConsecFail = 1
    Cooldown = 1
    HalfOpenMax = 1
INVARIANTS
    NoSilentSkip
SYMMETRY QuerySymmetry
