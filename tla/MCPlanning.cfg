\* Only frames that hold the fill lock, with a broadcasting region and the watchdog.
CONSTANTS
    FillFrames = {f1}
    RecoveryFrames = {}
    PlanFrames = {p1}
    Slots = {s1, s2}
    MaxVersion = 2
    MaxRegions = 1
    MaxWatchdogs = 1
    CapExpires = TRUE
\* Four levels, at most two orders on each side.
    Top = 3
    Gap = 1
    Window = 2
    MaxBatch = 1
    MaxOps = 2
    MaxUnseen = 2
    MaxReplans = 1
    MaxLanded = 2
    MaxAdrift = 1
    MaxParts = 1
SPECIFICATION PlanningSpec
SYMMETRY CowSymmetry
INVARIANTS StackExact InsideMeansFlag NoSelfCross OneOrderPerLevel Tracked BurstBounded
CHECK_DEADLOCK FALSE
