SPECIFICATION Spec
CONSTANTS
    Run = {"r1", "r2", "r3"}
    User = "user"
INVARIANTS
    TypeOK
    SuccessIsWhole
    FailureLeavesNothing
    NoMixedSet
PROPERTIES
    OthersFilesKept
