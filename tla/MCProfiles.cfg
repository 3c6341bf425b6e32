SPECIFICATION ProfilesSpec
CONSTANTS
    Plain = {"a", "b", "com", "subdomain"}
    LowerCase <- MCLowerCase
    NonAscii = {"uml"}
    BundledFiles <- MCBundled
    Trees <- MCTrees
    EnabledLists <- MCEnabled
INVARIANTS
    ProfilesTypeOK
    LoadedIsOverlay
    OneToastPerScript
\* A refused start ends the process.
CHECK_DEADLOCK FALSE
