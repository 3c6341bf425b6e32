SPECIFICATION Spec
CONSTANTS
    Client = {"c1", "c2"}
    ShutdownDelay = 2
    ShutdownTimeout = 2
    ProbePeriod = 1
INVARIANTS
    TypeOK
    DrainRefusesNobody
    ShutdownCutsNobodyEarly
PROPERTIES
    ProcessEnds
