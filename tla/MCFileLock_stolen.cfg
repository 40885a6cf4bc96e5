\* Three adapter processes, none of which dies.
CONSTANTS
    Processes = {p1, p2, p3}
    Gone = Gone
    NoFile = NoFile
    AdapterLock = TRUE
    MaxDeaths = 0
SPECIFICATION FileSpec
INVARIANT HolderKeepsTheFile
CHECK_DEADLOCK FALSE
