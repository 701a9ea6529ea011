SPECIFICATION MCSpec
CONSTANTS
    Size = 2
    MaxClients = 1
    Decisions <- MCDecisions
    Transports <- MCTransports
    Entries <- MCEntries
    NoClient = NoClient
    NoEntry = NoEntry
    NotAfter <- MCNotAfter
    Configured = {"dot", "doh"}
    MaxSignals = 2
    MaxClock = 2
    Requests = {"r1", "r2", "r3"}
    Workloads <- MCWorkloads
    HTTPRequests <- MCHTTPRequests
    Allowed = {"c1", "c2"}
    MaxInflight = 1
    MaxWaiters = 1
INVARIANT
    LedgerExact
PROPERTIES
    LogKeepsRecent
    RenewalServed
CHECK_DEADLOCK FALSE
