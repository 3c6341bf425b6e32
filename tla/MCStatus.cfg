SPECIFICATION Spec
CONSTANTS
    SNI = {"a", "b"}
    Allowed = {"a", "b"}
    Root <- MCRoot
    Intermediate <- MCIntermediate
    LeafValidity = 4
    Backdate = 4
    Second = 1
    MaxClock = 3
    MaxSkew = 2
    CacheSize = 2
    Prober = {"p1"}
INVARIANTS
    TypeOK
    VerdictHeld
    FieldsDifferOverAChange
