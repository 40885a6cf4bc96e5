CONSTANTS
    Syncs = {s1, s2, s3}
    Leftovers = {s2, s3}
    Consumer = Consumer
    Nobody = Nobody
    MaxCorrections = 1
    Processes = {p1, p2, p3}
    Gone = Gone
    NoFile = NoFile
    AdapterLock = TRUE
    MaxDeaths = 2
    AppOrder <- Order
    Jobs = {"updater"}
    MaxRestarts = 2
SPECIFICATION ProcessSpec
CHECK_DEADLOCK FALSE
INVARIANTS OneSyncRuns NoStrayProcess
PROPERTIES FreshResult CallsSettle LeftoverIsCleared
