SPECIFICATION FairSpec
CONSTANTS
    Ids = {a1, a2}
    Parts = 2
    Fudge = 1
    Loops = {"v4", "v6"}
    RetainMin = 1
    RetainMax = 2
    SeenCap = 1
    Uids = {"relay", "guest", "admin"}
    Root = "root"
    Daemon = "splitdns"
    Relay = "relay"
    GroupsOf <- MCGroupsOf
    NotifyUids = {"admin"}
    NotifyGroups = {"notify"}
    SocketGroup = "splitdns"
    Mode = {"user", "group"}
    AclSupported = TRUE
    DaemonSocket = "notify.sock"
    Keys <- MCKeys
    Candidates <- MCCandidates
    Setups <- MCSetups
PROPERTIES
    SignedOnce
    AnnouncementLands
CHECK_DEADLOCK FALSE
