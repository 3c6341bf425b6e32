SPECIFICATION Spec
CONSTANTS
    Worker = {"w1", "w2"}
    Site = {"s1", "s2", "other"}
    Upstream = {"u1", "u2"}
    SitesEnabled = TRUE
    SitesMax = 1
    UpstreamsMax = 1
    Arising = {"matched", "unknown_path"}
    MaxRequests = 3
INVARIANTS
    TypeOK
    LabelsAreBounded
    NeverSplit
    CountersAgree
