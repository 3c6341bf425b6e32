SPECIFICATION Spec
CONSTANTS
    SNI = {"a", "b", "odd", "outside"}
    Allowed = {"a", "b"}
    Gate = {"a", "b", "odd"}
    Root <- MCRoot
    Intermediate <- MCIntermediate
    LeafValidity = 4
    Backdate = 4
    Second = 1
    MaxClock = 2
    MaxSkew = 0
    CacheSize = 2
    Conn = {"c1", "c2"}
    MaxHandshakes = 3
INVARIANTS
    TypeOK
    EveryHandshakeCounted
    GaugeExactWhenAlone
PROPERTIES
    EveryHandshakeAnswered
