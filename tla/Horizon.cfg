SPECIFICATION Spec
CONSTANTS
    ServiceLabels = {"_ipp", "_tcp", "_udp", "_dns", "_services", "_dns-sd"}
    IdLabels = {"e"}
    LexOrder <- MCLexOrder
    TunnelSuffix <- MCTunnelSuffix
    Width = 2
    Digits = 2
    Arpa <- MCArpa
    LabelOf <- MCLabelOf
    Cfg <- MCCfg
    Networks <- MCNetworks
    Accounts <- MCAccounts
    Resolutions <- MCResolutions
    VHostSets <- MCVHostSets
    Adverts <- MCAdverts
    Hosts <- MCHosts
    Announcements <- MCAnnouncements
    Services <- MCServices
    IpOf <- MCIpOf
    Upstream <- MCUpstream
    Queries <- MCQueries
INVARIANTS
    ExistenceConsistent
    NegativeSOA
    ManagedNotSpoofed
    LanStaysLocal
    ReverseExact
