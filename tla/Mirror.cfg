SPECIFICATION FairSpec
CONSTANTS
    Zones = {z1, z2}
    Account = {z1, z2}
    Modulus = 16
    FirstSerial = 15
    ForcedCycles = 2
    SerialLag = 1
    MaxEdits = 2
    MaxChanges = 1
    MaxFaults = 1
    MaxRestarts = 1
INVARIANTS
    DiskCovers
    StatesCover
PROPERTIES
    KnownSerialNotMissed
    Converges
    DDRNeverOlder
