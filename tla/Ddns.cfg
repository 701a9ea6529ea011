SPECIFICATION Spec
CONSTANTS
    h1 = h1
    h2 = h2
    n1 = n1
    n2 = n2
    n3 = n3
    Hosts = {h1, h2}
    Names = {n1, n2, n3}
    HostOf <- MCHostOf
    Eligible = {n1, n2}
    DryRun = FALSE
    V4 = {1, 2, 3}
    V6 = {7}
    Announced = {{}, {1}, {2}, {1, 3}, {2, 7}}
    Public = {1, 2, 7}
    FirstRecords <- MCFirstRecords
    FirstId = 4
    QueueCap = 1
    Rate = 1
    GlobalBurst = 1
    GlobalRefill = 2
    MaxSubmits = 3
    MaxFaults = 1
    MaxTime = 2
INVARIANTS
    NewestKept
    WriteBudget
PROPERTIES
    GuardedWrites
    AppliedConverges
    HostKeepsAddress
