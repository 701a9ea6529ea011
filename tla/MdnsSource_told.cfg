SPECIFICATION Spec
CONSTANTS
    h1 = h1
    h2 = h2
    h3 = h3
    Hosts = {h1, h2, h3}
    Addrs = {1, 2}
    MaxHosts = 2
    MaxTrusted = 1
    BurstWindow = 0
    MaxTTL = 1
    CoercedTTL = 1
    StaleGrace = 0
    GoodbyeGrace = 1
    TrustedGrace = 1
    Feeds = {f1, f2}
    Packets <- MCPackets
    MaxPackets = 2
    MaxTime = 2
INVARIANT
    TrustedIsTold
