\* A fill batch beside a recovery batch that holds no lock, or a plan beside a region.
CONSTANTS
    FillFrames = {f1}
    RecoveryFrames = {r1}
    PlanFrames = {p1}
    Slots = {s1}
    MaxVersion = 2
    MaxRegions = 1
    MaxWatchdogs = 1
    CapExpires = FALSE
SPECIFICATION CastSpec
INVARIANT SettledReleases
PROPERTIES NoLostUpdate BatchesEnd
CHECK_DEADLOCK FALSE
