SPECIFICATION Spec
CONSTANTS
    SNI = {"a", "b", "c", "outside"}
    Allowed = {"a", "b", "c"}
    Root <- MCRoot
    Intermediate <- MCIntermediate
    LeafValidity = 6
    Backdate = 3
    Second = 2
    MaxClock = 11
    MaxSkew = 3
    CacheSize = 2
INVARIANTS
    TypeOK
    CacheCoherent
    CacheBounded
    RecentlyUsedIsKept
PROPERTIES
    ImplementsLeafService
