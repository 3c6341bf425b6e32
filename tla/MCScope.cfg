SPECIFICATION Spec
CONSTANTS
    Plain <- MCPlain
    LowerCase <- MCLowerCase
    NonAscii <- MCNonAscii
    HostLists <- MCHostLists
    Certificates <- MCCertificates
    RouteTables <- MCRouteTables
    Asked <- MCAsked
    Paths = {"x", "y"}
    Methods = {"GET", "POST", "OPTIONS"}
INVARIANTS
    TypeOK
    CertifiedInScope
    OwnHostIsKnown
    OtherMeansUncertifiable
    StartupSortsHosts
    AllowIsHonest
\* A refused start ends the process.
CHECK_DEADLOCK FALSE
