SPECIFICATION Spec
CONSTANTS
    Texts <- MCTexts
    Default <- MCDefault
    Flagged = {"sink.addr"}
    Checked = {"sink.addr"}
    Positive = {"cert_cache_size"}
    Delays = {"shutdown_delay"}
    Material <- MCMaterial
    Number <- MCNumber
    Valid = {":443", "127.0.0.1:9443"}
    Readable = {"root.crt"}
    MaxSet = 1
    Absent = "absent"
INVARIANTS
    TypeOK
    ServesWhatOthersAssume
PROPERTIES
    LoadsWhatIsPromised
\* A process that is refused, prints or serves has come to its end here.
CHECK_DEADLOCK FALSE
