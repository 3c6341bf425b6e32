SPECIFICATION Spec
CONSTANTS
    Plain <- MCPlain
    LowerCase <- MCLowerCase
    NonAscii <- MCNonAscii
    HostLists <- MCHostLists
    Certificates <- MCCertificates
    RouteTables <- MCRouteTables
    Asked <- MCAsked
    Paths = {"x", "y"}
    Methods = {"GET", "POST", "OPTIONS"}
INVARIANTS
    RefusesHostsOutside
CHECK_DEADLOCK FALSE
