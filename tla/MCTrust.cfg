SPECIFICATION TrustSpec
CONSTANTS
    Plain <- MCPlain
    LowerCase <- MCLowerCase
    NonAscii <- MCNonAscii
    InitLists <- MCInitLists
    RootLife = 6
    IntermediateLife = 7
    Rotations <- MCRotations
    Configurations <- MCConfigurations
    ServerNames <- MCServerNames
    LeafValidity = 4
    Backdate = 2
    Second = 1
    MaxClock = 4
    MaxMade = 1
    MaxInits = 2
    MaxRotations = 1
    MaxIssued = 4
    MaxEnrolled = 2
    Slow = 2
    Fast = 1
INVARIANTS
    TrustTypeOK
    EnrolledDeviceAccepts
    InitServesItsHosts
